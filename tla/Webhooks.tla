------------------------------ MODULE Webhooks ------------------------------
(***************************************************************************)
(* The admission webhooks: defaulting and validation of the API objects of *)
(* module Conversion, in their v1beta2 form.  A request in v1beta1 is      *)
(* converted first (matchPolicy is Equivalent).  A webhook that panics, on *)
(* a nil pointer, refuses the request.                                     *)
(*                                                                         *)
(* Namespaces are "" (not given), "own" and "other"; an image URL is "",   *)
(* "http", "oci" or "bad" (it does not parse), its checksum "", "sum" or   *)
(* "badurl"; a prefix annotation is "" (none), "valid", "reserved" (the    *)
(* domains of Kubernetes) or "malformed".                                  *)
(***************************************************************************)
EXTENDS Conversion

OwnNamespace(ns) == ns \in {"", "own"}

----------------------------------------------------------------------------

DefaultPort == 6443

ClusterDefault(o) ==
    [o EXCEPT !.spec.port = IF @ = 0 THEN DefaultPort ELSE @,
              !.spec.cloud = Deref(@, FALSE)]

ClusterValidate(o) ==
    o.spec.host # "" /\ o.prefix \notin {"malformed", "reserved"}

\* Metal3ClusterSpec.IsValid: the templates have no defaults.
IsValid(spec) == spec.host # "" /\ spec.port # 0

ClusterTemplateValidateCreate(o) == IsValid(o.spec)
\* Mutant: the old object is checked instead of the new one.
ClusterTemplateValidateUpdateOld(old, new) == IsValid(old.spec)
ClusterTemplateValidateUpdate(old, new) == IsValid(old.spec) /\ IsValid(new.spec)

\* An image that is given needs a URL and, unless it is an OCI reference or a
\* live ISO, a checksum.
ImageValidate(i) ==
    /\ i.url \notin {"", "bad"}
    /\ IF i.url = "oci" THEN Deref(i.sum, "") = "" /\ i.sumType = ""
       ELSE i.format = "live-iso" \/ Deref(i.sum, "") \notin {"", "badurl"}

\* One namespace stands for those of userData, metaData and networkData.
validateSecretNamespace(ns) == OwnNamespace(ns)

MachineValidate(o) ==
    /\ o.spec.deploy = "" => ImageValidate(o.spec.image)
    /\ validateSecretNamespace(o.spec.secretNs)

MachineTemplateValidate(o) == o.spec.deploy = "" => ImageValidate(o.spec.image)

\* The name is <template>-<index>, a pair here.
DataValidateCreate(o) ==
    LET s == o.spec
    IN  /\ s.index # Nil /\ s.template # Nil
               => o.name = <<s.template.name, s.index>>
        /\ s.template # Nil => OwnNamespace(s.template.ns)
        /\ Deref(s.index, 0) >= 0

\* A nil reference and one that says nothing are the same.
DataValidateUpdate(old, new) ==
    /\ Deref(new.spec.index, 0) = Deref(old.spec.index, 0)
    /\ Deref(new.spec.template, NoRef) = Deref(old.spec.template, NoRef)
    /\ Deref(new.spec.claim, NoRef) = Deref(old.spec.claim, NoRef)

ClaimValidateCreate(o) ==
    o.template # Nil /\ o.template.name # "" /\ OwnNamespace(o.template.ns)

ClaimValidateUpdate(old, new) ==
    /\ new.template # Nil
    /\ new.template = old.template
    /\ OwnNamespace(new.template.ns)

\* A host interface is named or is the boot interface; a static network
\* says where its address comes from.
DataTemplateValidateCreate(o) ==
    /\ o.meta # Nil =>
          \A i \in DOMAIN o.meta : o.meta[i].what = "nic" =>
              (Deref(o.meta[i].boot, FALSE) <=> o.meta[i].nic = "")
    /\ o.net # Nil /\ o.net.networks # Nil =>
          \A i \in DOMAIN o.net.networks :
              LET n == o.net.networks[i]
              IN  n.type \in {"ipv4", "ipv6"} =>
                      n.ref.name # "" \/ n.name # "" \/ n.ann.obj # ""

\* Mutant: the new object is only validated.
DataTemplateValidateUpdateNew(old, new) == DataTemplateValidateCreate(new)

\* metaData and networkData cannot be modified: equal to the last pointer.
DataTemplateValidateUpdate(old, new) ==
    new.meta = old.meta /\ new.net = old.net

MinTimeout == 100
MinRetryLimit == 1
DefaultTimeout == 600

StrategyValidate(s) ==
    /\ s.timeout = 0 \/ s.timeout >= MinTimeout
    /\ s.type = "Reboot"
    /\ s.retryLimit >= MinRetryLimit
RemediationValidate(o) == o.strategy # Nil => StrategyValidate(o.strategy)

RemediationTemplateDefault(o) ==
    IF o.strategy = Nil THEN o
    ELSE
    [o EXCEPT !.strategy.type = IF @ = "" THEN "Reboot" ELSE @,
              !.strategy.timeout = IF @ = 0 THEN DefaultTimeout ELSE @,
              !.strategy.retryLimit = IF @ < MinRetryLimit THEN MinRetryLimit
                                      ELSE @]
RemediationTemplateValidate(o) == o.strategy # Nil /\ StrategyValidate(o.strategy)

=============================================================================
