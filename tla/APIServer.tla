----------------------------- MODULE APIServer ------------------------------
(***************************************************************************)
(* One API object through its life: created and updated by clients of both *)
(* API versions, converted and admitted by the webhooks, its status        *)
(* written by its controller and, if it is a Metal3DataTemplate, rendered  *)
(* for a Metal3Data.                                                       *)
(*                                                                         *)
(* The API server is external: it stores v1beta2, drops what a request     *)
(* says about the status (a subresource), and refuses what the webhooks    *)
(* refuse.  A v1beta1 client sends what it likes, with the annotation that *)
(* holds the hub object it once read; without a resourceVersion that copy  *)
(* may be out of date.  The checks of the CRD schemas are left out.        *)
(***************************************************************************)
EXTENDS Webhooks, Rendering

CONSTANTS Kinds,      \* the kinds of object looked at
          NewV1(_),   \* what v1beta1 clients send, by kind
          NewV2(_),   \* what v1beta2 clients send, by kind
          Statuses(_),\* what controllers write into the status, by kind
          Ctx,        \* the machine and the host of a Metal3Data
          Index,      \* its index
          AllPools    \* what each pool gives out

VARIABLES kind,     \* the kind of the object
          stored,   \* the object, v1beta2, or Nil
          copy,     \* a v1beta1 client's copy and the hub object with it
          req,      \* the last v1beta1 update, Nil after other steps
          secret    \* what was rendered for the Metal3Data, or Nil

vars == <<kind, stored, copy, req, secret>>

----------------------------------------------------------------------------
(* The types of v1beta2. *)

Ptr(S) == S \cup {Nil}
Strings == STRING
ListOf(S) == Ptr(Seq(S))

RefT == [name : Strings, ns : {"", "own", "other"}]
ImageT == [url : Strings, sum : Ptr(Strings), sumType : Strings,
           format : Strings]
FailureDomainT == [name : Names, cp : Ptr(BOOLEAN)]
\* Lists whose key is the name.
NamedListOf(S) ==
    Ptr({s \in Seq(S) : \A i, j \in DOMAIN s : s[i].name = s[j].name => i = j})
ClusterSpecT == [host : Strings, port : Int32, cloud : Ptr(BOOLEAN),
                 fds : NamedListOf(FailureDomainT)]
ClusterStatusT == [prov : Ptr(BOOLEAN), cond : Ptr(Strings),
                   legacy : Ptr(Strings), fds : NamedListOf(FailureDomainT)]
MachineSpecT == [providerID : Strings, dataTemplate : Ptr(RefT),
                 selector : Ptr(Strings), clean : Strings, image : ImageT,
                 deploy : Strings, secretNs : {"", "own", "other"}]
MachineStatusT == [prov : Ptr(BOOLEAN), rendered : Ptr(RefT),
                   cond : Ptr(Strings), legacy : Ptr(Strings)]
DataStatusT == [ready : Ptr(BOOLEAN)]
DataSpecT == [index : Ptr(Int32), claim : Ptr(RefT), template : Ptr(RefT)]
StrategyT == [type : Strings, retryLimit : Int32, timeout : Int32]

AnnT == [obj : Strings, ann : Strings]
PoolRefT == [name : Strings, kind : Strings]
IndexItemT == [what : {"index"}, key : Strings, offset : Ptr(Int32), step : Int32,
               prefix : Strings, suffix : Strings]
LabelItemT == [what : {"label"}, key : Strings, obj : Strings, label : Strings]
AnnotationItemT == [what : {"annotation"}, key : Strings, obj : Strings,
                    ann : Strings]
StringItemT == [what : {"string"}, key : Strings, value : Strings]
NamespaceItemT == [what : {"namespace"}, key : Strings]
NameItemT == [what : {"name"}, key : Strings, obj : Strings]
NicItemT == [what : {"nic"}, key : Strings, nic : Strings, boot : Ptr(BOOLEAN)]
PoolItemT == [what : {"address", "prefix", "gateway", "dns"}, key : Strings,
              name : Strings]
CopiedItemT == LabelItemT \cup AnnotationItemT \cup StringItemT
                   \cup NamespaceItemT \cup NameItemT \cup PoolItemT
MetaDataT == ListOf(IndexItemT \cup NicItemT \cup CopiedItemT)

MacT == [str : Strings, nic : Strings, ann : AnnT]
BondParamT == [name : Names, val : Strings]
LinkT == [type : {"bond", "ethernet", "vlan"}, mac : Ptr(MacT),
          vlan : Ptr(Int32), params : ListOf(BondParamT)]
ServiceT == [dns : ListOf(Strings), pool : Strings]
GatewayT == [str : Ptr(Strings), name : Strings, ref : PoolRefT, ann : AnnT]
RouteT == [prefix : Ptr(Int32), gw : GatewayT, services : Ptr(ServiceT)]
NetworkTypeT == {"ipv4", "ipv6", "ipv4_dhcp", "ipv6_dhcp", "ipv6_slaac"}
NetworkT == [type : NetworkTypeT, name : Strings, ref : PoolRefT, ann : AnnT,
             routes : ListOf(RouteT)]
NetworkDataT == [links : ListOf(LinkT), networks : ListOf(NetworkT),
                 services : Ptr(ServiceT)]
\* The list is keyed by index; a claim has one, by OneDataPerClaim of
\* DataTemplate.
Index32 == Int32 \cap Nat
EntryT == [name : Names, index : Index32]
IndexesT == [indexes : NamedListOf(EntryT)]
DataTemplateT ==
    [meta : MetaDataT, net : Ptr(NetworkDataT), label : Strings,
     status : IndexesT]

Object(k) ==
    CASE k = "Metal3Cluster" ->
             [spec : ClusterSpecT, status : ClusterStatusT, prefix : Strings]
      [] k = "Metal3ClusterTemplate" -> [meta : Strings, spec : ClusterSpecT]
      [] k = "Metal3Machine" -> [spec : MachineSpecT, status : MachineStatusT]
      [] k = "Metal3MachineTemplate" ->
             [meta : Strings, spec : MachineSpecT, nodeReuse : Ptr(BOOLEAN)]
      [] k = "Metal3Data" ->
             [name : Strings \X Int, spec : DataSpecT, status : DataStatusT]
      [] k = "Metal3DataClaim" -> [template : Ptr(RefT)]
      [] k = "Metal3DataTemplate" -> DataTemplateT
      [] k \in {"Metal3Remediation", "Metal3RemediationTemplate"} ->
             [strategy : Ptr(StrategyT)]

----------------------------------------------------------------------------
(* The types of v1beta1. *)

MapOf(S) == {m \in [Names -> Ptr(S)] : IsFiniteSet(Keys(m))}

ClusterSpecV1T == [host : Strings, port : Int, cloud : Ptr(BOOLEAN),
                   noCloud : Ptr(BOOLEAN), fds : Ptr(MapOf(BOOLEAN))]
ClusterStatusV1T == [ready : BOOLEAN, v2cond : Ptr(Strings),
                     cond : Ptr(Strings), fds : Ptr(MapOf(BOOLEAN))]
ImageV1T == [url : Strings, sum : Strings, sumType : Ptr(Strings),
             format : Ptr(Strings)]
MachineSpecV1T == [providerID : Ptr(Strings), dataTemplate : Ptr(RefT),
                   selector : Strings, clean : Ptr(Strings), image : ImageV1T,
                   deploy : Ptr(Strings), secretNs : {"", "own", "other"}]
MachineStatusV1T == [ready : BOOLEAN, rendered : Ptr(RefT),
                     v2cond : Ptr(Strings), cond : Ptr(Strings)]
DataStatusV1T == [ready : BOOLEAN]
DataSpecV1T == [index : Int, claim : RefT, template : RefT]
StrategyV1T == [type : Strings, retryLimit : Int, timeout : Ptr(Int)]

IndexItemV1T == [what : {"index"}, key : Strings, offset : Int, step : Int,
                 prefix : Strings, suffix : Strings]
NicItemV1T == [what : {"nic"}, key : Strings, nic : Strings, boot : BOOLEAN]
MetaDataV1T == ListOf(IndexItemV1T \cup NicItemV1T \cup CopiedItemT)

PoolRefV1T == [name : Strings, kind : Ptr(Strings)]
MacV1T == [str : Ptr(Strings), nic : Ptr(Strings), ann : Ptr(AnnT)]
LinkV1T == [type : {"bond", "ethernet", "vlan"}, mac : Ptr(MacV1T),
            vlan : Ptr(Int), params : Ptr(MapOf(Strings))]
ServiceV1T == [dns : ListOf(Strings), pool : Ptr(Strings)]
GatewayV1T == [str : Ptr(Strings), name : Ptr(Strings), ref : Ptr(PoolRefV1T),
               ann : Ptr(AnnT)]
RouteV1T == [prefix : Int, gw : GatewayV1T, services : ServiceV1T]
NetworkV1T == [type : NetworkTypeT, name : Strings, ref : Ptr(PoolRefV1T),
               ann : Ptr(AnnT), routes : ListOf(RouteV1T)]
NetworkDataV1T == [links : ListOf(LinkV1T), networks : ListOf(NetworkV1T),
                   services : ServiceV1T]
\* Only read by clients: the status they send is dropped.
IndexesV1T == [indexes : Ptr(MapOf(Index32))]

ObjectV1(k) ==
    CASE k = "Metal3Cluster" ->
             [spec : ClusterSpecV1T, status : ClusterStatusV1T, prefix : Strings]
      [] k = "Metal3ClusterTemplate" -> [spec : ClusterSpecV1T]
      [] k = "Metal3Machine" -> [spec : MachineSpecV1T, status : MachineStatusV1T]
      [] k = "Metal3MachineTemplate" ->
             [spec : MachineSpecV1T, nodeReuse : BOOLEAN]
      [] k = "Metal3Data" ->
             [name : Strings \X Int, spec : DataSpecV1T, status : DataStatusV1T]
      [] k = "Metal3DataClaim" -> [template : RefT]
      [] k = "Metal3DataTemplate" ->
             [meta : MetaDataV1T, net : Ptr(NetworkDataV1T), label : Strings,
              status : IndexesV1T]
      [] k \in {"Metal3Remediation", "Metal3RemediationTemplate"} ->
             [strategy : Ptr(StrategyV1T)]

HasStatus == {"Metal3Cluster", "Metal3Machine", "Metal3Data",
              "Metal3DataTemplate"}
StatusT(k) == CASE k = "Metal3Cluster" -> ClusterStatusT
                [] k = "Metal3Machine" -> MachineStatusT
                [] k = "Metal3Data" -> DataStatusT
                [] k = "Metal3DataTemplate" -> IndexesT

\* Clients and controllers send what the types of their version allow.
ASSUME APIAssumption ==
    /\ {"", "Reboot"} \subseteq STRING
    /\ Nil \notin STRING \cup BOOLEAN \cup Int
    /\ Nil \notin RefT \cup StrategyT \cup StrategyV1T
    /\ Nil \notin Seq(FailureDomainT) /\ Nil \notin MapOf(BOOLEAN)
    /\ Nil \notin Seq(EntryT) /\ Nil \notin MapOf(Index32)
    /\ Kinds \subseteq {"Metal3Cluster", "Metal3ClusterTemplate",
                        "Metal3Machine", "Metal3MachineTemplate", "Metal3Data",
                        "Metal3DataClaim", "Metal3DataTemplate",
                        "Metal3Remediation", "Metal3RemediationTemplate"}
    /\ \A k \in Kinds : /\ Nil \notin Object(k)
                        /\ NewV2(k) \subseteq Object(k)
                        /\ NewV1(k) \subseteq ObjectV1(k)
    /\ \A k \in Kinds \cap HasStatus : Statuses(k) \subseteq StatusT(k)
    /\ "" \notin DOMAIN AllPools    \* a pool has a name

----------------------------------------------------------------------------
(* Conversion and admission by kind. *)

ConvertTo(k, o, hub) ==
    CASE k = "Metal3Cluster" -> ClusterConvertTo(o, hub)
      [] k = "Metal3ClusterTemplate" -> ClusterTemplateConvertTo(o, hub)
      [] k = "Metal3Machine" -> MachineConvertTo(o, hub)
      [] k = "Metal3MachineTemplate" -> MachineTemplateConvertTo(o, hub)
      [] k = "Metal3Data" -> DataConvertTo(o, hub)
      [] k = "Metal3DataClaim" -> ClaimConvertTo(o, hub)
      [] k = "Metal3DataTemplate" -> DataTemplateConvertTo(o, hub)
      [] k = "Metal3Remediation" -> RemediationConvertTo(o, hub)
      [] k = "Metal3RemediationTemplate" -> RemediationTemplateConvertTo(o, hub)

ConvertFrom(k, o) ==
    CASE k = "Metal3Cluster" -> ClusterConvertFrom(o)
      [] k = "Metal3ClusterTemplate" -> ClusterTemplateConvertFrom(o)
      [] k = "Metal3Machine" -> MachineConvertFrom(o)
      [] k = "Metal3MachineTemplate" -> MachineTemplateConvertFrom(o)
      [] k = "Metal3Data" -> DataConvertFrom(o)
      [] k = "Metal3DataClaim" -> ClaimConvertFrom(o)
      [] k = "Metal3DataTemplate" -> DataTemplateConvertFrom(o)
      [] k = "Metal3Remediation" -> RemediationConvertFrom(o)
      [] k = "Metal3RemediationTemplate" -> RemediationTemplateConvertFrom(o)

Default(k, o) ==
    CASE k = "Metal3Cluster" -> ClusterDefault(o)
      [] k = "Metal3RemediationTemplate" -> RemediationTemplateDefault(o)
      [] OTHER -> o

ValidateCreate(k, o) ==
    CASE k = "Metal3Cluster" -> ClusterValidate(o)
      [] k = "Metal3ClusterTemplate" -> ClusterTemplateValidateCreate(o)
      [] k = "Metal3Machine" -> MachineValidate(o)
      [] k = "Metal3MachineTemplate" -> MachineTemplateValidate(o)
      [] k = "Metal3Data" -> DataValidateCreate(o)
      [] k = "Metal3DataClaim" -> ClaimValidateCreate(o)
      [] k = "Metal3DataTemplate" -> DataTemplateValidateCreate(o)
      [] k = "Metal3Remediation" -> RemediationValidate(o)
      [] k = "Metal3RemediationTemplate" -> RemediationTemplateValidate(o)

\* Kinds whose rules do not depend on the old object use those of creation.
ValidateUpdate(k, old, new) ==
    CASE k = "Metal3ClusterTemplate" -> ClusterTemplateValidateUpdate(old, new)
      [] k = "Metal3Data" -> DataValidateUpdate(old, new)
      [] k = "Metal3DataClaim" -> ClaimValidateUpdate(old, new)
      [] k = "Metal3DataTemplate" -> DataTemplateValidateUpdate(old, new)
      [] OTHER -> ValidateCreate(k, new)

----------------------------------------------------------------------------
(* The steps. *)

Init ==
    /\ kind \in Kinds
    /\ stored = Nil /\ copy = Nil /\ req = Nil /\ secret = Nil

\* A client of either version creates the object, without a status, before
\* anything is rendered from it.
Create ==
    /\ stored = Nil /\ secret = Nil
    /\ \E o \in NewV2(kind) \cup {ConvertTo(kind, v1, Nil) : v1 \in NewV1(kind)} :
          LET new == Default(kind, o)
          IN  ValidateCreate(kind, new) /\ stored' = new
    /\ UNCHANGED <<kind, copy, req, secret>>

\* A v1beta2 client replaces the object.
UpdateV2 ==
    /\ stored # Nil
    /\ \E o \in NewV2(kind) :
          LET new == Default(kind, IF kind \in HasStatus
                                   THEN [o EXCEPT !.status = stored.status]
                                   ELSE o)
          IN  ValidateUpdate(kind, stored, new) /\ stored' = new
    /\ req' = Nil
    /\ UNCHANGED <<kind, copy, secret>>

\* A v1beta1 client gets the object.
GetV1 ==
    /\ stored # Nil
    /\ copy' = [obj |-> ConvertFrom(kind, stored), hub |-> stored]
    /\ req' = Nil
    /\ UNCHANGED <<kind, stored, secret>>

\* It sends the object back, as it was or edited, with the annotation of its
\* copy; the status is the one that is stored.
UpdateV1 ==
    /\ stored # Nil /\ copy # Nil
    /\ \E o \in NewV1(kind) \cup {copy.obj} :
          LET sent == IF kind \in HasStatus
                      THEN [o EXCEPT !.status = ConvertFrom(kind, stored).status]
                      ELSE o
              new == Default(kind, ConvertTo(kind, sent, copy.hub))
          IN  /\ ValidateUpdate(kind, stored, new)
              /\ stored' = new
              /\ req' = [obj |-> sent, hub |-> copy.hub, old |-> stored]
    /\ UNCHANGED <<kind, copy, secret>>

\* The controller writes the status.
UpdateStatus ==
    /\ stored # Nil /\ kind \in HasStatus
    /\ \E s \in Statuses(kind) : stored' = [stored EXCEPT !.status = s]
    /\ req' = Nil
    /\ UNCHANGED <<kind, copy, secret>>

\* What a template renders with the addresses of some pools.
Render(t, names) ==
    LET pools == [p \in names |-> AllPools[p]]
    IN  [meta |-> renderMetaData(t, Index, Ctx, pools),
         net |-> renderNetworkData(t, Ctx, pools)]

\* createSecrets: claim an address from every pool, and render.
Rendered(t) ==
    LET refs == getReferencedPools(t, Ctx)
    IN  IF refs = Err THEN Err
        ELSE LET r == Render(t, {p.name : p \in refs})
             IN  IF Err \in {r.meta, r.net} THEN Err ELSE r

\* The secrets are rendered once.
createSecrets ==
    /\ kind = "Metal3DataTemplate" /\ stored # Nil /\ secret = Nil
    /\ Rendered(stored) # Err
    /\ secret' = Rendered(stored)
    /\ req' = Nil
    /\ UNCHANGED <<kind, stored, copy>>

Next == Create \/ UpdateV2 \/ GetV1 \/ UpdateV1 \/ UpdateStatus \/ createSecrets

Spec == Init /\ [][Next]_vars

----------------------------------------------------------------------------
(* What objects mean: pointers to an empty value say what nil says, and a  *)
(* list of failure domains is a set.                                       *)

DomainsMeaning(fds) ==
    {<<fd.name, Deref(fd.cp, FALSE)>> : fd \in ToSet(Elements(fds))}

SpecMeaning(k, o) ==
    CASE k = "Metal3Cluster" -> [o.spec EXCEPT !.fds = DomainsMeaning(@)]
      [] k = "Metal3ClusterTemplate" ->
             [o EXCEPT !.spec.fds = DomainsMeaning(@)]
      [] k = "Metal3Machine" ->
             [o.spec EXCEPT !.selector = Deref(@, ""),
                            !.image.sum = Deref(@, "")]
      [] k = "Metal3MachineTemplate" ->
             [o EXCEPT !.spec.selector = Deref(@, ""),
                       !.spec.image.sum = Deref(@, ""),
                       !.nodeReuse = Deref(@, FALSE)]
      [] k = "Metal3Data" -> [index |-> Deref(o.spec.index, 0),
                              claim |-> Deref(o.spec.claim, NoRef),
                              template |-> Deref(o.spec.template, NoRef)]
      [] k = "Metal3DataTemplate" ->
             [meta |-> o.meta, net |-> o.net, label |-> o.label]
      [] OTHER -> o

StatusMeaning(k, s) ==
    CASE k = "Metal3Cluster" -> [s EXCEPT !.prov = Deref(@, FALSE),
                                          !.fds = DomainsMeaning(@)]
      [] k = "Metal3Machine" -> [s EXCEPT !.prov = Deref(@, FALSE)]
      [] k = "Metal3Data" -> Deref(s.ready, FALSE)
      [] k = "Metal3DataTemplate" -> ToSet(Elements(s.indexes))

\* The strategy of a remediation, its timeout in seconds and 0 if not set.
StrategyMeaning(s) ==
    IF s = Nil THEN Nil
    ELSE [s EXCEPT !.timeout = WholeSeconds(Deref(@, 0))]

MachineSpecMeaning(s) ==
    [s EXCEPT !.providerID = Deref(@, ""), !.clean = Deref(@, ""),
              !.deploy = Deref(@, ""),
              !.image = [url |-> @.url, sum |-> @.sum,
                         sumType |-> Deref(@.sumType, ""),
                         format |-> Deref(@.format, "")]]

\* What a v1beta1 object says, with the defaults of the webhooks.  Left out
\* are noCloudProvider, which is derived from cloudProviderEnabled, and the
\* contents of a Metal3DataTemplate, which are not edited.
V1Meaning(k, o) ==
    CASE k = "Metal3Cluster" ->
             [host |-> o.spec.host, fds |-> o.spec.fds, prefix |-> o.prefix,
              port |-> IF o.spec.port = 0 THEN DefaultPort ELSE o.spec.port,
              cloud |-> Deref(o.spec.cloud, FALSE)]
      [] k = "Metal3ClusterTemplate" ->
             [host |-> o.spec.host, port |-> o.spec.port,
              cloud |-> o.spec.cloud, fds |-> o.spec.fds]
      [] k = "Metal3Machine" -> MachineSpecMeaning(o.spec)
      [] k = "Metal3MachineTemplate" ->
             [spec |-> MachineSpecMeaning(o.spec), nodeReuse |-> o.nodeReuse]
      [] k \in {"Metal3Data", "Metal3DataClaim"} -> o
      [] k = "Metal3DataTemplate" -> o.label
      [] k \in {"Metal3Remediation", "Metal3RemediationTemplate"} ->
             Default(k, [strategy |-> StrategyMeaning(o.strategy)])

\* The integers of a v1beta1 object are ones that v1beta2 has too.
FitsInt32(k, o) ==
    CASE k \in {"Metal3Cluster", "Metal3ClusterTemplate"} -> o.spec.port \in Int32
      [] k = "Metal3Data" -> o.spec.index \in Int32
      [] k \in {"Metal3Remediation", "Metal3RemediationTemplate"} ->
             o.strategy # Nil =>
                 /\ o.strategy.retryLimit \in Int32
                 /\ WholeSeconds(Deref(o.strategy.timeout, 0)) \in Int32
      [] OTHER -> TRUE

\* A checksum that is given to a Metal3Machine whose hub object had none is
\* lost: this is what is left of what was sent.
WithoutLostChecksum(k, o, hub) ==
    IF k = "Metal3Machine" /\ hub.spec.image.sum = Nil
    THEN [o EXCEPT !.spec.image.sum = ""] ELSE o

----------------------------------------------------------------------------
(* Properties. *)

\* What is stored has the types of v1beta2: conversion leaves no nil where
\* v1beta2 has a value (Convert_v1beta1_..._To_v1beta2_...).
TypeOK ==
    /\ kind \in Kinds
    /\ stored # Nil => stored \in Object(kind)
    /\ copy # Nil => copy.hub \in Object(kind)

\* A stored object satisfies the rules for new objects whichever version and
\* however many updates brought it there (the webhooks' ValidateUpdate).  The
\* name of a Metal3Data is only checked when it is created.
StoredIsValid ==
    stored # Nil =>
        IF kind = "Metal3Data"
        THEN /\ Deref(stored.spec.index, 0) >= 0
             /\ OwnNamespace(Deref(stored.spec.template, NoRef).ns)
        ELSE ValidateCreate(kind, stored)

\* A v1beta1 client that sends an object back as it got it changes nothing
\* (ConvertFrom, ConvertTo and the annotation).
WriteBackHarmless ==
    req # Nil /\ req.hub = req.old /\ req.obj = ConvertFrom(kind, req.old)
        => SpecMeaning(kind, stored) = SpecMeaning(kind, req.old)

\* What a v1beta1 client sends is what it reads afterwards, even if the hub
\* object in its annotation is out of date (ConvertTo).  Two things do not
\* come back: integers of more than 32 bits, and the checksum that a client
\* gives to a Metal3Machine whose hub object had none.
EditSticks ==
    req # Nil /\ FitsInt32(kind, req.obj) =>
        V1Meaning(kind, ConvertFrom(kind, stored))
            = V1Meaning(kind, WithoutLostChecksum(kind, req.obj, req.hub))

\* A v1beta1 client does not change the status, whatever its annotation says
\* (ConvertTo, Convert_bool_To_Pointer_bool).
StatusKept ==
    req # Nil /\ kind \in HasStatus
        => StatusMeaning(kind, stored.status)
               = StatusMeaning(kind, req.old.status)

\* The secrets, which are rendered once, are those of the template as it is:
\* every machine of a template gets the same (ValidateUpdate, createSecrets).
SecretIsTemplates == secret # Nil => secret = Rendered(stored)

\* Gateways of routes taken from an annotation, in networks without an
\* address of their own.
DynamicAnnotation(t) ==
    t.net # Nil /\ \E n \in ToSet(Elements(t.net.networks)) :
        /\ n.type \notin {"ipv4", "ipv6"}
        /\ \E r \in ToSet(Elements(n.routes)) : r.gw.ann # NoAnn /\ r.gw.str = Nil

Claimable == kind = "Metal3DataTemplate" /\ stored # Nil
                 /\ getReferencedPools(stored, Ctx) # Err

\* A template renders with the pools it has claimed as with all the pools
\* there are: none that rendering looks up is missing (getReferencedPools).
ClaimsSuffice ==
    Claimable /\ ~DynamicAnnotation(stored) =>
        LET r == Render(stored, DOMAIN AllPools)
        IN  Err \notin {r.meta, r.net} => Rendered(stored) = r

\* The comment of getReferencedPools: it "returns a map containing references
\* to all pools mentioned by a [Metal3DataTemplate]. It resolves both direct
\* pool references and annotation-based references."
AllPoolsReferenced ==
    Claimable =>
        LET r == Render(stored, DOMAIN AllPools)
        IN  Err \notin {r.meta, r.net} => Rendered(stored) = r

=============================================================================
