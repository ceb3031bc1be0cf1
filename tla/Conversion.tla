----------------------------- MODULE Conversion -----------------------------
(***************************************************************************)
(* Conversion of the API objects between v1beta2, the version that is      *)
(* stored, and v1beta1, which clients may still use.                       *)
(*                                                                         *)
(* An object is a record of the fields whose representation differs or     *)
(* that a webhook looks at; fields both versions copy as they are are left *)
(* out.  Nil is a nil pointer (or an absent list or map), "" the empty     *)
(* string.  ...ToV1 and ...ToV2 are the two directions.  Names that are    *)
(* sorted are numbers; a map is Nil for the names it does not have.        *)
(* Conditions are one value per kind of condition.                         *)
(***************************************************************************)
EXTENDS Integers, Sequences, FiniteSets, SequencesExt

CONSTANTS Nil,
          Names,  \* of failure domains, bond parameters and claims
          IntBits \* width of the integers of v1beta2: 32 in the code

ASSUME NamesAssumption == Names \subseteq Nat

\* The integers of v1beta2, which hold at least the defaults of the webhooks.
HalfRange == 2 ^ (IntBits - 1)
Int32 == -HalfRange..(HalfRange - 1)
ASSUME IntBitsAssumption == HalfRange \in Nat /\ HalfRange > 6443

\* An int of v1beta1 has 64 bits; int32() keeps the lower ones.
Wrap(n) == ((n + HalfRange) % (2 * HalfRange)) - HalfRange

Deref(p, d) == IF p = Nil THEN d ELSE p
PtrUnless(v, zero) == IF v = zero THEN Nil ELSE v

MapSeq(s, Op(_)) == IF s = Nil THEN Nil ELSE [i \in DOMAIN s |-> Op(s[i])]

NonEmpty(s) == IF s = <<>> THEN Nil ELSE s

Keys(m) == {n \in Names : m[n] # Nil}

\* The domain of key as a list, sorted by key.
SortedBy(key) ==
    CHOOSE s \in [1..Cardinality(DOMAIN key) -> DOMAIN key] :
        /\ \A n \in DOMAIN key : \E i \in DOMAIN s :
              \A j \in DOMAIN s : s[j] = n <=> j = i
        /\ \A i, j \in DOMAIN s : i < j => key[s[i]] <= key[s[j]]

\* Map to list, sorted by name, and back: a later entry wins.
MapToList(m, Entry(_)) ==
    IF m = Nil THEN Nil
    ELSE LET s == SortedBy([n \in Keys(m) |-> n])
         IN  [i \in DOMAIN s |-> Entry(s[i])]
LastOf(s, n) ==
    CHOOSE i \in DOMAIN s :
        s[i].name = n /\ \A j \in DOMAIN s : s[j].name = n => j <= i
ListToMap(s, Value(_)) ==
    IF s = Nil THEN Nil
    ELSE [n \in Names |-> IF \E i \in DOMAIN s : s[i].name = n
                          THEN Value(s[LastOf(s, n)]) ELSE Nil]

\* A false bool stands for false only if the hub said so.
BoolToPointer(b, hub) ==
    IF b THEN TRUE ELSE IF hub = FALSE THEN FALSE ELSE Nil

----------------------------------------------------------------------------
(* Metal3Cluster and Metal3ClusterTemplate. *)

\* controlPlane is only set when it is true.
FailureDomainsToV2(fds) ==
    MapToList(fds, LAMBDA n : [name |-> n, cp |-> PtrUnless(fds[n], FALSE)])
FailureDomainsToV1(fds) == ListToMap(fds, LAMBDA fd : Deref(fd.cp, FALSE))

\* noCloudProvider has no counterpart and is dropped.
ClusterSpecToV2(s) ==
    [host |-> s.host, port |-> Wrap(s.port), cloud |-> s.cloud,
     fds |-> FailureDomainsToV2(s.fds)]
ClusterSpecToV1(s) ==
    [host |-> s.host, port |-> s.port, cloud |-> s.cloud,
     noCloud |-> IF s.cloud = Nil THEN Nil ELSE ~s.cloud,
     fds |-> FailureDomainsToV1(s.fds)]

\* Conditions of one version live in a field of their own in the other:
\* legacy is deprecated.v1beta1, with the failure reason and message.
ClusterStatusToV2(s) ==
    [prov |-> Nil, cond |-> s.v2cond, legacy |-> s.cond,
     fds |-> FailureDomainsToV2(s.fds)]
ClusterStatusToV1(s) ==
    [ready |-> Deref(s.prov, FALSE), v2cond |-> s.cond, cond |-> s.legacy,
     fds |-> FailureDomainsToV1(s.fds)]

\* Mutant: the whole status is the hub's.
ClusterConvertToHub(o, hub) ==
    [spec |-> ClusterSpecToV2(o.spec),
     status |-> IF hub = Nil THEN ClusterStatusToV2(o.status) ELSE hub.status,
     prefix |-> o.prefix]
\* The hub object travels in an annotation of the v1beta1 copy, so that what
\* v1beta1 cannot say is restored: hub is that annotation, or Nil.
ClusterConvertTo(o, hub) ==
    [spec |-> ClusterSpecToV2(o.spec),
     status |-> [ClusterStatusToV2(o.status) EXCEPT
                    !.prov = BoolToPointer(o.status.ready,
                              IF hub = Nil THEN Nil ELSE hub.status.prov)],
     prefix |-> o.prefix]
ClusterConvertFrom(o) ==
    [spec |-> ClusterSpecToV1(o.spec), status |-> ClusterStatusToV1(o.status),
     prefix |-> o.prefix]

\* Mutant: the metadata is not restored.
ClusterTemplateConvertToBare(o, hub) ==
    [meta |-> "", spec |-> ClusterSpecToV2(o.spec)]
\* v1beta1 templates have no metadata for the clusters they make.
ClusterTemplateConvertTo(o, hub) ==
    [meta |-> IF hub = Nil THEN "" ELSE hub.meta,
     spec |-> ClusterSpecToV2(o.spec)]
ClusterTemplateConvertFrom(o) == [spec |-> ClusterSpecToV1(o.spec)]

----------------------------------------------------------------------------
(* Metal3Machine and Metal3MachineTemplate. *)

\* Mutant: the checksum type stays a pointer.
ImageToV2Pointer(i) ==
    [url |-> i.url, sum |-> i.sum, sumType |-> i.sumType,
     format |-> Deref(i.format, "")]
ImageToV2(i) ==
    [url |-> i.url, sum |-> i.sum, sumType |-> Deref(i.sumType, ""),
     format |-> Deref(i.format, "")]
ImageToV1(i) ==
    [url |-> i.url, sum |-> Deref(i.sum, ""), sumType |-> i.sumType,
     format |-> i.format]

NoImage == [url |-> "", sum |-> Nil, sumType |-> "", format |-> ""]
isEmptyImage(i) ==
    /\ i.url = "" /\ i.sum = ""
    /\ Deref(i.sumType, "") = "" /\ Deref(i.format, "") = ""

\* An empty image is not converted when customDeploy is set: its checksum
\* would no longer be nil.  A hostSelector without content is none.
MachineSpecToV2(s) ==
    [providerID |-> Deref(s.providerID, ""), dataTemplate |-> s.dataTemplate,
     selector |-> PtrUnless(s.selector, ""), clean |-> Deref(s.clean, ""),
     image |-> IF isEmptyImage(s.image) /\ Deref(s.deploy, "") # ""
               THEN NoImage ELSE ImageToV2(s.image),
     deploy |-> Deref(s.deploy, ""), secretNs |-> s.secretNs]
MachineSpecToV1(s) ==
    [providerID |-> PtrUnless(s.providerID, ""),
     dataTemplate |-> s.dataTemplate,
     selector |-> Deref(s.selector, ""), clean |-> PtrUnless(s.clean, ""),
     image |-> ImageToV1(s.image), deploy |-> PtrUnless(s.deploy, ""),
     secretNs |-> s.secretNs]

MachineStatusToV2(s) ==
    [prov |-> IF s.ready THEN TRUE ELSE Nil, rendered |-> s.rendered,
     cond |-> s.v2cond, legacy |-> s.cond]
MachineStatusToV1(s) ==
    [ready |-> Deref(s.prov, FALSE), rendered |-> s.rendered,
     v2cond |-> s.cond, cond |-> s.legacy]

\* The hub's checksum, if it was nil, comes back even if it was edited.
MachineConvertTo(o, hub) ==
    LET spec == MachineSpecToV2(o.spec)
        sum == IF hub # Nil /\ hub.spec.image.sum = Nil
               THEN Nil ELSE spec.image.sum
    IN  [spec |-> [spec EXCEPT !.image.sum = sum],
         status |-> [MachineStatusToV2(o.status) EXCEPT
                        !.prov = Deref(BoolToPointer(o.status.ready,
                              IF hub = Nil THEN Nil ELSE hub.status.prov), @)]]
MachineConvertFrom(o) ==
    [spec |-> MachineSpecToV1(o.spec), status |-> MachineStatusToV1(o.status)]

\* Mutant: the checksum is restored as in a Metal3Machine.
TemplateChecksumHub(sum, hub) == IF hub = Nil THEN Nil ELSE sum
\* A checksum that v1beta1 still shows as empty was nil; another was edited.
TemplateChecksum(sum, hub) == IF sum = "" /\ hub = Nil THEN Nil ELSE sum

MachineTemplateConvertTo(o, hub) ==
    LET spec == MachineSpecToV2(o.spec)
    IN  [meta |-> IF hub = Nil THEN "" ELSE hub.meta,
         spec |-> IF hub = Nil THEN spec
                  ELSE [spec EXCEPT !.image.sum =
                           TemplateChecksum(o.spec.image.sum,
                                            hub.spec.image.sum)],
         nodeReuse |-> PtrUnless(o.nodeReuse, FALSE)]
MachineTemplateConvertFrom(o) ==
    [spec |-> MachineSpecToV1(o.spec), nodeReuse |-> Deref(o.nodeReuse, FALSE)]

----------------------------------------------------------------------------
(* Metal3Data, Metal3DataClaim, Metal3Remediation and its template. *)

NoRef == [name |-> "", ns |-> ""]
RefToV2(r) == PtrUnless(r, NoRef)
RefToV1(r) == Deref(r, NoRef)

\* Index 0 is an index, so it is always set.
DataConvertTo(o, hub) ==
    [name |-> o.name,
     spec |-> [index |-> Wrap(o.spec.index), claim |-> RefToV2(o.spec.claim),
               template |-> RefToV2(o.spec.template)],
     status |-> [ready |-> o.status.ready]]
DataConvertFrom(o) ==
    [name |-> o.name,
     spec |-> [index |-> Deref(o.spec.index, 0), claim |-> RefToV1(o.spec.claim),
               template |-> RefToV1(o.spec.template)],
     status |-> [ready |-> Deref(o.status.ready, FALSE)]]

ClaimConvertTo(o, hub) == [template |-> RefToV2(o.template)]
ClaimConvertFrom(o) == [template |-> RefToV1(o.template)]

\* A duration, here in milliseconds, becomes whole seconds, rounded towards 0;
\* those that do not fit are the largest or the smallest that do.
WholeSeconds(ms) == IF ms >= 0 THEN ms \div 1000 ELSE -((-ms) \div 1000)
ConvertToSeconds(ms) ==
    LET s == WholeSeconds(ms)
    IN  IF s >= HalfRange THEN HalfRange - 1
        ELSE IF s < -HalfRange THEN -HalfRange ELSE s
\* 0 is "not set".
StrategyToV2(s) ==
    IF s = Nil THEN Nil
    ELSE [s EXCEPT !.retryLimit = Wrap(@),
                   !.timeout = ConvertToSeconds(Deref(@, 0))]
StrategyToV1(s) ==
    IF s = Nil THEN Nil
    ELSE [s EXCEPT !.timeout = PtrUnless(1000 * @, 0)]
RemediationConvertTo(o, hub) == [strategy |-> StrategyToV2(o.strategy)]
RemediationConvertFrom(o) == [strategy |-> StrategyToV1(o.strategy)]
RemediationTemplateConvertTo(o, hub) == [strategy |-> StrategyToV2(o.strategy)]
RemediationTemplateConvertFrom(o) == [strategy |-> StrategyToV1(o.strategy)]

----------------------------------------------------------------------------
(* Metal3DataTemplate.  Links, networks and the items of metaData are each *)
(* one sequence; a type tells the kinds apart, and IPv4 and IPv6 types are *)
(* converted alike.                                                        *)

\* An annotation reference that says nothing is a nil pointer in v1beta1, and
\* a pool reference is always a pointer to a value.
NoAnn == [obj |-> "", ann |-> ""]
NoPool == [name |-> "", kind |-> ""]
AnnToV2(a) == Deref(a, NoAnn)
AnnToV1(a) == PtrUnless(a, NoAnn)
PoolRefToV2(r) == IF r = Nil THEN NoPool ELSE [r EXCEPT !.kind = Deref(@, "")]
PoolRefToV1(r) == [r EXCEPT !.kind = PtrUnless(@, "")]

ServiceToV2(s) == [dns |-> s.dns, pool |-> Deref(s.pool, "")]
ServiceToV1(s) == [dns |-> s.dns, pool |-> PtrUnless(s.pool, "")]
NoServiceV1 == [dns |-> Nil, pool |-> Nil]

GatewayToV2(g) ==
    [str |-> g.str, name |-> Deref(g.name, ""), ref |-> PoolRefToV2(g.ref),
     ann |-> AnnToV2(g.ann)]
GatewayToV1(g) ==
    [str |-> g.str, name |-> PtrUnless(g.name, ""), ref |-> PoolRefToV1(g.ref),
     ann |-> AnnToV1(g.ann)]

\* An int that becomes a pointer, nil if it is 0.
IntToPointer(n) == IF n = 0 THEN Nil ELSE Wrap(n)

\* A prefix of 0, a default route, comes back as nil; a service of a value
\* type comes back as nil if it is empty.
RouteToV2(r) ==
    [prefix |-> IntToPointer(r.prefix), gw |-> GatewayToV2(r.gw),
     services |-> IF r.services = NoServiceV1 THEN Nil
                  ELSE ServiceToV2(r.services)]
RouteToV1(r) ==
    [prefix |-> Deref(r.prefix, 0), gw |-> GatewayToV1(r.gw),
     services |-> IF r.services = Nil THEN NoServiceV1
                  ELSE ServiceToV1(r.services)]

\* name: ipAddressFromIPPool, a string in both versions.
NetworkToV2(n) ==
    [n EXCEPT !.ref = PoolRefToV2(@), !.ann = AnnToV2(@),
              !.routes = MapSeq(@, RouteToV2)]
NetworkToV1(n) ==
    [n EXCEPT !.ref = PoolRefToV1(@), !.ann = AnnToV1(@),
              !.routes = MapSeq(@, RouteToV1)]

MacToV2(m) ==
    IF m = Nil THEN Nil
    ELSE [str |-> Deref(m.str, ""), nic |-> Deref(m.nic, ""),
          ann |-> AnnToV2(m.ann)]
MacToV1(m) ==
    IF m = Nil THEN Nil
    ELSE [str |-> m.str, nic |-> m.nic, ann |-> AnnToV1(m.ann)]

\* Bond parameters are a map in v1beta1, a list in v1beta2.
BondParamsToV2(ps) == MapToList(ps, LAMBDA n : [name |-> n, val |-> ps[n]])
BondParamsToV1(ps) == ListToMap(ps, LAMBDA p : p.val)

\* A VLAN id is always set in v1beta1.
LinkToV2(k) ==
    [k EXCEPT !.mac = MacToV2(@), !.vlan = IF @ = Nil THEN Nil ELSE Wrap(@),
              !.params = BondParamsToV2(@)]
LinkToV1(k) ==
    [k EXCEPT !.mac = MacToV1(@), !.vlan = IF k.type = "vlan" THEN Deref(@, 0) ELSE @,
              !.params = BondParamsToV1(@)]

\* Values become pointers if they are not empty.
NetworkDataToV2(d) ==
    IF d = Nil THEN Nil
    ELSE [links |-> NonEmpty(MapSeq(d.links, LinkToV2)),
          networks |-> NonEmpty(MapSeq(d.networks, NetworkToV2)),
          services |-> IF d.services = NoServiceV1 THEN Nil
                       ELSE ServiceToV2(d.services)]
NetworkDataToV1(d) ==
    IF d = Nil THEN Nil
    ELSE [links |-> MapSeq(d.links, LinkToV1),
          networks |-> MapSeq(d.networks, NetworkToV1),
          services |-> IF d.services = Nil THEN NoServiceV1
                       ELSE ServiceToV1(d.services)]

IndexToV2(x) == [x EXCEPT !.offset = IntToPointer(@), !.step = Wrap(@)]
IndexToV1(x) == [x EXCEPT !.offset = Deref(@, 0)]

\* A false fromBootMAC becomes a pointer to false.
HostInterfaceToV2(x) == x
HostInterfaceToV1(x) == [x EXCEPT !.boot = Deref(@, FALSE)]

\* Metadata items: only indexes and host interfaces differ.
ItemToV2(x) == CASE x.what = "index" -> IndexToV2(x)
                 [] x.what = "nic" -> HostInterfaceToV2(x)
                 [] OTHER -> x
ItemToV1(x) == CASE x.what = "index" -> IndexToV1(x)
                 [] x.what = "nic" -> HostInterfaceToV1(x)
                 [] OTHER -> x
MetaDataToV2(d) == MapSeq(d, ItemToV2)
MetaDataToV1(d) == MapSeq(d, ItemToV1)

\* Indexes in the status: a map from claims, a list sorted by index.
IndexesToV2(m) ==
    IF m = Nil THEN Nil
    ELSE LET s == SortedBy([n \in Keys(m) |-> Wrap(m[n])])
         IN  NonEmpty([i \in DOMAIN s |-> [name |-> s[i], index |-> Wrap(m[s[i]])]])
IndexesToV1(s) == ListToMap(NonEmpty(s), LAMBDA e : e.index)

DataTemplateConvertTo(o, hub) ==
    [meta |-> MetaDataToV2(o.meta), net |-> NetworkDataToV2(o.net),
     label |-> o.label, status |-> [indexes |-> IndexesToV2(o.status.indexes)]]
DataTemplateConvertFrom(o) ==
    [meta |-> MetaDataToV1(o.meta), net |-> NetworkDataToV1(o.net),
     label |-> o.label, status |-> [indexes |-> IndexesToV1(o.status.indexes)]]

=============================================================================
