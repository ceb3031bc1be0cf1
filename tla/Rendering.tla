----------------------------- MODULE Rendering ------------------------------
(***************************************************************************)
(* Rendering of a Metal3DataTemplate (its v1beta2 form of module           *)
(* Conversion) into the metaData and networkData of one Metal3Data.        *)
(*                                                                         *)
(* ctx is what the Metal3Machine, the Machine and the BareMetalHost say:   *)
(*   ann, label  by kind of object, and by key                             *)
(*   name        by kind of object                                         *)
(*   nics        MAC by name of interface, Nil before inspection           *)
(*   bootMAC                                                               *)
(* pools gives address, prefix, gateway and dns by name of pool.  Err is   *)
(* an error.  Values are tuples of strings; the YAML they are marshalled   *)
(* into, and fields that are copied as they are, are left out.             *)
(***************************************************************************)
EXTENDS Conversion, TLC

CONSTANTS Err,      \* an error
          MACs      \* the strings that are MAC addresses

IPPoolKind == "IPPool"

\* An error in one part is an error of the whole.
AllOrErr(s) == IF \E i \in DOMAIN s : s[i] = Err THEN Err ELSE s
Elements(s) == IF s = Nil THEN <<>> ELSE s
\* Links and networks are rendered type by type.
ByType(s, types) ==
    FlattenSeq(MapSeq(types, LAMBDA t : SelectSeq(s, LAMBDA x : x.type = t)))
InOrder(s, types) == IF s = Err THEN Err ELSE ByType(s, types)

Lookup(f, k) == IF k \in DOMAIN f THEN f[k] ELSE ""

\* A missing annotation is the empty string, an object nobody knows an error.
getValueFromAnnotation(a, ctx) ==
    IF a.obj \in DOMAIN ctx.ann THEN Lookup(ctx.ann[a.obj], a.ann) ELSE Err

getBMHMacByName(n, ctx) ==
    IF ctx.nics # Nil /\ n \in DOMAIN ctx.nics THEN ctx.nics[n] ELSE Err

----------------------------------------------------------------------------
(* The pools to claim an address from: a set of references, in which Err   *)
(* stands for one that cannot be resolved.                                 *)

PoolRef(name, k) ==
    [name |-> name, kind |-> IF k = "" THEN IPPoolKind ELSE k]

addName(name) == IF name = "" THEN {} ELSE {PoolRef(name, "")}

addFromAnnotation(a, ctx) ==
    IF a = NoAnn THEN {}
    ELSE LET v == getValueFromAnnotation(a, ctx)
         IN  {IF v \in {Err, ""} THEN Err ELSE PoolRef(v, "")}

\* A reference wins over a name.
RefOrName(ref, name) ==
    IF ref.name # "" THEN {PoolRef(ref.name, ref.kind)} ELSE addName(name)

ServiceRefs(s) == IF s = Nil THEN {} ELSE addName(s.pool)

\* Mutant: the gateways of routes are forgotten.
RouteRefsNoGateway(r, ctx) == ServiceRefs(r.services)

RouteRefs(r, ctx) ==
    addFromAnnotation(r.gw.ann, ctx) \cup RefOrName(r.gw.ref, r.gw.name)
        \cup ServiceRefs(r.services)

\* Routes of networks without an address of their own: annotations are not
\* looked at.
DynamicRouteRefs(r) ==
    RefOrName(r.gw.ref, r.gw.name) \cup ServiceRefs(r.services)

NetworkRefs(n, ctx) ==
    IF n.type \in {"ipv4", "ipv6"}
    THEN addFromAnnotation(n.ann, ctx) \cup RefOrName(n.ref, n.name)
             \cup UNION {RouteRefs(r, ctx) : r \in ToSet(Elements(n.routes))}
    ELSE UNION {DynamicRouteRefs(r) : r \in ToSet(Elements(n.routes))}

ItemRefs(x) ==
    IF x.what \in {"address", "prefix", "gateway", "dns"}
    THEN {PoolRef(x.name, "")} ELSE {}

\* Names are unique: two kinds of pool with one name are an error.
addRef(refs) ==
    IF Err \in refs \/ \E p, q \in refs \ {Err} : p.name = q.name /\ p # q
    THEN Err ELSE refs

MetaDataRefs(meta) == UNION {ItemRefs(x) : x \in ToSet(Elements(meta))}
NetworkDataRefs(net, ctx) ==
    ServiceRefs(net.services)
        \cup UNION {NetworkRefs(n, ctx) : n \in ToSet(Elements(net.networks))}

getReferencedPools(t, ctx) ==
    addRef(MetaDataRefs(t.meta)
               \cup (IF t.net = Nil THEN {} ELSE NetworkDataRefs(t.net, ctx)))

----------------------------------------------------------------------------
(* networkData *)

\* Byte i of a mask of n bits.
MaskByte(n, i) ==
    LET bits == n - 8 * (i - 1)
    IN  256 - 2 ^ (8 - (IF bits < 0 THEN 0 ELSE IF bits > 8 THEN 8 ELSE bits))
translateMask(n, ipv4) ==
    IF n = Nil THEN ""
    ELSE [i \in 1..(IF ipv4 THEN 4 ELSE 16) |-> MaskByte(n, i)]

\* The first source that is given, and it has to be a MAC address.
getLinkMacAddress(m, ctx) ==
    LET v == IF m.str # "" THEN m.str
             ELSE IF m.nic # "" THEN getBMHMacByName(m.nic, ctx)
             ELSE IF m.ann # NoAnn THEN getValueFromAnnotation(m.ann, ctx)
             ELSE ""
    IN  IF v \in MACs THEN v ELSE Err

\* Parameter 0 stands for those that have a field of their own: mode,
\* xmit_hash_policy and links.  A second value for a parameter is illegal.
BondParamsIllegal(ps) ==
    \E i \in DOMAIN ps : ps[i].name = 0 \/ \E j \in 1..(i - 1) :
                                               ps[j].name = ps[i].name

renderNetworkLink(k, ctx) ==
    LET mac == IF k.mac = Nil THEN "" ELSE getLinkMacAddress(k.mac, ctx)
    IN  IF \/ mac = Err
           \/ k.type = "bond" /\ BondParamsIllegal(Elements(k.params))
           \/ k.type = "vlan" /\ k.vlan = Nil
        THEN Err
        ELSE [type |-> k.type, mac |-> mac, vlan |-> k.vlan,
              params |-> ToSet(Elements(k.params))]

renderNetworkLinks(ks, ctx) ==
    InOrder(AllOrErr(MapSeq(Elements(ks), LAMBDA k : renderNetworkLink(k, ctx))),
            <<"bond", "ethernet", "vlan">>)

renderNetworkServices(s, pools) ==
    IF s = Nil THEN <<>>
    ELSE IF s.pool = "" THEN Elements(s.dns)
    ELSE IF s.pool \in DOMAIN pools THEN Elements(s.dns) \o pools[s.pool].dns
    ELSE Err

\* The pool of a gateway or a network: annotation, reference, then name.
PoolName(x, ctx) ==
    IF x.ann # NoAnn THEN getValueFromAnnotation(x.ann, ctx)
    ELSE IF x.ref.name # "" THEN x.ref.name ELSE x.name

Gateway(g, ctx, pools) ==
    IF g.str # Nil THEN g.str
    ELSE LET p == PoolName(g, ctx)
         IN  IF g.ann = NoAnn /\ p = "" THEN ""
             ELSE IF p \in DOMAIN pools THEN pools[p].gateway ELSE Err

\* One route of getRoutesv4 or getRoutesv6.
getRoute(r, ipv4, ctx, pools) ==
    LET gw == Gateway(r.gw, ctx, pools)
        dns == renderNetworkServices(r.services, pools)
    IN  IF gw = Err \/ dns = Err THEN Err
        ELSE [gateway |-> gw, services |-> dns,
              netmask |-> translateMask(Deref(r.prefix, 0), ipv4)]

getRoutes(rs, ipv4, ctx, pools) ==
    AllOrErr(MapSeq(Elements(rs), LAMBDA r : getRoute(r, ipv4, ctx, pools)))

renderNetworkNetwork(n, ctx, pools) ==
    LET ipv4 == n.type \in {"ipv4", "ipv4_dhcp"}
        routes == getRoutes(n.routes, ipv4, ctx, pools)
        static == n.type \in {"ipv4", "ipv6"}
        p == PoolName(n, ctx)
    IN  IF routes = Err \/ (static /\ p \notin DOMAIN pools) THEN Err
        ELSE [type |-> n.type, routes |-> routes,
              ip |-> IF static THEN pools[p].address ELSE "",
              netmask |-> IF static THEN translateMask(pools[p].prefix, ipv4)
                          ELSE ""]

NetworkTypes == <<"ipv4", "ipv6", "ipv4_dhcp", "ipv6_dhcp", "ipv6_slaac">>

renderNetworkNetworks(ns, ctx, pools) ==
    InOrder(AllOrErr(MapSeq(Elements(ns),
                            LAMBDA n : renderNetworkNetwork(n, ctx, pools))),
            NetworkTypes)

renderNetworkData(t, ctx, pools) ==
    IF t.net = Nil THEN Nil
    ELSE LET d == [links |-> renderNetworkLinks(t.net.links, ctx),
                   networks |-> renderNetworkNetworks(t.net.networks, ctx, pools),
                   services |-> renderNetworkServices(t.net.services, pools)]
         IN  IF Err \in {d.links, d.networks, d.services} THEN Err ELSE d

----------------------------------------------------------------------------
(* metaData *)

\* The order in which the items are put into a map, a later one replacing an
\* earlier one of the same key.  DNS servers are not among them.
Sections == <<"nic", "address", "prefix", "gateway", "index", "namespace",
              "name", "label", "annotation", "string">>

\* offset + index * step, which wraps around; a step of 0 is 1.
IndexValue(x, index) ==
    Wrap(Deref(x.offset, 0)
             + Deref(index, 0) * (IF x.step = 0 THEN 1 ELSE x.step))

PoolField(name, pools, Field(_)) ==
    IF name \in DOMAIN pools THEN <<Field(pools[name])>> ELSE Err

ByObject(o, f) == IF o \in DOMAIN f THEN <<f[o]>> ELSE Err

ItemValue(x, index, ctx, pools) ==
    CASE x.what = "nic" ->
             LET v == IF Deref(x.boot, FALSE)
                      THEN IF ctx.bootMAC = "" THEN Err ELSE ctx.bootMAC
                      ELSE getBMHMacByName(x.nic, ctx)
             IN  IF v = Err THEN Err ELSE <<v>>
      [] x.what = "address" -> PoolField(x.name, pools, LAMBDA p : p.address)
      [] x.what = "prefix" ->
             PoolField(x.name, pools, LAMBDA p : ToString(p.prefix))
      [] x.what = "gateway" -> PoolField(x.name, pools, LAMBDA p : p.gateway)
      [] x.what = "index" -> <<x.prefix, ToString(IndexValue(x, index)), x.suffix>>
      [] x.what = "namespace" -> <<"own">>
      [] x.what = "name" -> ByObject(x.obj, ctx.name)
      [] x.what = "label" ->
             ByObject(x.obj, [o \in DOMAIN ctx.label |->
                                  Lookup(ctx.label[o], x.label)])
      [] x.what = "annotation" ->
             LET v == getValueFromAnnotation(x, ctx)
             IN  IF v = Err THEN Err ELSE <<v>>
      [] x.what = "string" -> <<x.value>>
      [] OTHER -> <<>>    \* DNS servers

\* The items in that order.
InSections(items) ==
    FlattenSeq(MapSeq(Sections, LAMBDA w : SelectSeq(items, LAMBDA x : x.what = w)))

\* The items put into a map.
PutItems(items, ctx) ==
    LET last(k) == CHOOSE i \in DOMAIN items :
                      /\ items[i].key = k
                      /\ \A j \in DOMAIN items : items[j].key = k => j <= i
    IN  [k \in {items[i].key : i \in DOMAIN items} \cup {"providerid"} |->
            IF k = "providerid"
            THEN <<"own", ctx.name.baremetalhost, ctx.name.metal3machine>>
            ELSE items[last(k)].value]

renderMetaData(t, index, ctx, pools) ==
    IF t.meta = Nil THEN Nil
    ELSE LET items == [i \in DOMAIN t.meta |->
                         [what |-> t.meta[i].what, key |-> t.meta[i].key,
                          value |-> ItemValue(t.meta[i], index, ctx, pools)]]
         IN  IF \E i \in DOMAIN items : items[i].value = Err THEN Err
             ELSE PutItems(InSections(items), ctx)

=============================================================================
