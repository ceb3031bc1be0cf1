---------------------------- MODULE MCAPIServer -----------------------------
(* Instances of APIServer for TLC: for every kind, objects that differ in  *)
(* the fields conversion and admission tell apart.                         *)
EXTENDS APIServer

AllKinds == {"Metal3Cluster", "Metal3ClusterTemplate", "Metal3Machine",
             "Metal3MachineTemplate", "Metal3Data", "Metal3DataClaim",
             "Metal3DataTemplate", "Metal3Remediation",
             "Metal3RemediationTemplate"}
OnlyTemplates == {"Metal3DataTemplate"}

\* The first integer that v1beta2 stores as 0.
Beyond == 2 ^ IntBits

ClusterSpecs2 ==
    {[host |-> x[1], port |-> x[2], cloud |-> x[3], fds |-> Nil] :
        x \in {"", "h"} \X {0, 443} \X {Nil, TRUE, FALSE}}
    \cup
    {[host |-> "h", port |-> 443, cloud |-> TRUE, fds |-> f] :
        f \in {<<>>, <<[name |-> 2, cp |-> FALSE], [name |-> 1, cp |-> TRUE]>>}}
ClusterSpecs1 ==
    {[host |-> "h", port |-> x[1], cloud |-> x[2], noCloud |-> x[3],
      fds |-> x[4]] :
        x \in {0, 443, Beyond, Beyond + 443} \X {Nil, TRUE} \X {Nil, FALSE}
              \X {Nil, [n \in Names |-> IF n = 0 THEN Nil ELSE n = 1]}}
NewStatus2 == [prov |-> Nil, cond |-> Nil, legacy |-> Nil, fds |-> Nil]
NewStatus1 == [ready |-> FALSE, v2cond |-> Nil, cond |-> Nil, fds |-> Nil]

Image2(u, c, f) == [url |-> u, sum |-> c, sumType |-> "", format |-> f]
MachineSpec2(i, d, sel, ns) ==
    [providerID |-> "", dataTemplate |-> Nil, selector |-> sel, clean |-> "",
     image |-> i, deploy |-> d, secretNs |-> ns]
MachineSpecs2 ==
    {MachineSpec2(Image2("http", "sum", ""), "", "", "own"),
     MachineSpec2(Image2("http", Nil, ""), "", Nil, ""),
     MachineSpec2(Image2("http", Nil, "live-iso"), "", Nil, ""),
     MachineSpec2(Image2("oci", Nil, ""), "", "label", ""),
     MachineSpec2(NoImage, "install", Nil, ""),
     MachineSpec2(Image2("", "", ""), "install", Nil, "other")}
MachineSpec1(u, c, f, d, id) ==
    [providerID |-> id, dataTemplate |-> [name |-> "t", ns |-> ""],
     selector |-> "", clean |-> Nil,
     image |-> [url |-> u, sum |-> c, sumType |-> Nil, format |-> f],
     deploy |-> d, secretNs |-> ""]
MachineSpecs1 ==
    {MachineSpec1("http", "sum", Nil, Nil, Nil),
     MachineSpec1("http", "sum2", "", Nil, "id"),
     MachineSpec1("http", "", "live-iso", "", ""),
     MachineSpec1("http", "sum", "live-iso", Nil, Nil),
     MachineSpec1("oci", "", Nil, Nil, "id"),
     MachineSpec1("", "", Nil, "install", Nil)}
NewMachineStatus2 == [prov |-> Nil, rendered |-> Nil, cond |-> Nil, legacy |-> Nil]
NewMachineStatus1 == [ready |-> FALSE, rendered |-> Nil, v2cond |-> Nil, cond |-> Nil]

Ref(n, ns) == [name |-> n, ns |-> ns]
Indexed(i, c, t) == [index |-> i, claim |-> c, template |-> t]
Datas2 ==
    {[name |-> <<"t", 0>>, status |-> [ready |-> Nil], spec |-> Indexed(x[1], x[2], x[3])] :
        x \in {Nil, 0, 1} \X {Nil, Ref("c", "")}
              \X {Nil, Ref("t", ""), Ref("t", "own"), Ref("t", "other")}}
Datas1 ==
    {[name |-> <<"t", 0>>, status |-> [ready |-> FALSE], spec |-> Indexed(x[1], x[2], x[3])] :
        x \in {0, 1, Beyond} \X {NoRef, Ref("c", "")}
              \X {NoRef, Ref("t", ""), Ref("t", "own")}}

Strategies2 ==
    {[type |-> x[1], retryLimit |-> x[2], timeout |-> x[3]] :
        x \in {"", "Reboot"} \X {0, 2} \X {0, 99, 100}}
Strategies1 ==
    {[type |-> "Reboot", retryLimit |-> x[1], timeout |-> x[2]] :
        x \in {0, 2, Beyond + 2} \X {Nil, 0, 100500, -999, -100500, 1000 * Beyond}}

\* Metal3DataTemplates.
Link2(t, m, ps) == [type |-> t, mac |-> m, vlan |-> IF t = "vlan" THEN 4 ELSE Nil,
                    params |-> ps]
Mac2(s, n, a) == [str |-> s, nic |-> n, ann |-> a]
HostAnn == [obj |-> "baremetalhost", ann |-> "pool"]
Gw2(s, n, r, a) == [str |-> s, name |-> n, ref |-> r, ann |-> a]
Route2(p, g, d) ==
    [prefix |-> p, gw |-> g,
     services |-> IF d = "" THEN Nil ELSE [dns |-> <<"dns1">>, pool |-> d]]
Network2(t, n, r, a, rs) ==
    [type |-> t, name |-> n, ref |-> r, ann |-> a, routes |-> rs]
Net2(ls, ns, p) ==
    [links |-> ls, networks |-> ns,
     services |-> IF p = "" THEN Nil ELSE [dns |-> Nil, pool |-> p]]
MetaAll ==
    <<[what |-> "string", key |-> "k", value |-> "v"],
      [what |-> "index", key |-> "i", offset |-> 2, step |-> 3, prefix |-> "p",
       suffix |-> ""],
      [what |-> "index", key |-> "j", offset |-> 1, step |-> HalfRange - 1, prefix |-> "",
       suffix |-> ""],
      [what |-> "address", key |-> "k", name |-> "p1"],
      [what |-> "prefix", key |-> "x", name |-> "p1"],
      [what |-> "gateway", key |-> "g", name |-> "p2"],
      [what |-> "dns", key |-> "d", name |-> "p3"],
      [what |-> "namespace", key |-> "ns"],
      [what |-> "name", key |-> "providerid", obj |-> "machine"],
      [what |-> "label", key |-> "l", obj |-> "machine", label |-> "zone"],
      [what |-> "annotation", key |-> "a", obj |-> "baremetalhost", ann |-> "pool"]>>
Nic(n, b) == [what |-> "nic", key |-> "m", nic |-> n, boot |-> b]
Metas2 == {Nil, <<Nic("eth0", Nil)>>, <<Nic("", TRUE)>>, <<Nic("", FALSE)>>, MetaAll}
P(n) == [name |-> n, kind |-> ""]
AnyGw == Gw2(Nil, "", NoPool, NoAnn)
StringGw == Gw2("gw", "", NoPool, NoAnn)
DataTemplate2(m, n) ==
    [meta |-> m, net |-> n, label |-> "", status |-> [indexes |-> Nil]]
StaticNets ==
    {Net2(Nil, <<Network2(x[1], x[2], x[3], x[4],
                          <<Route2(x[5], x[6], "p3"), Route2(24, StringGw, "")>>)>>,
          "p2") :
        x \in {"ipv4"} \X {"", "p1"} \X {NoPool, P("p2")}
              \X {NoAnn, HostAnn} \X {Nil, 16} \X {AnyGw, Gw2(Nil, "p1", NoPool, NoAnn),
                                      Gw2(Nil, "", P("p2"), HostAnn)}}
DynamicNets ==
    {Net2(Nil, <<Network2(x[1], "", NoPool, NoAnn, <<Route2(Nil, x[2], "")>>)>>, "") :
        x \in {"ipv4_dhcp", "ipv6_dhcp", "ipv6_slaac"}
              \X {Gw2(Nil, "p1", NoPool, NoAnn), Gw2(Nil, "", P("p2"), NoAnn),
                  Gw2(Nil, "", NoPool, HostAnn)}}
LinkNets ==
    {Net2(<<Link2("vlan", Nil, Nil), Link2("bond", x[1], x[2]),
            Link2("ethernet", x[1], Nil)>>,
          <<Network2("ipv6", "p1", [name |-> "p4", kind |-> x[3]], NoAnn, Nil)>>, "p1") :
        x \in {Nil, Mac2("mac1", "", NoAnn), Mac2("", "eth0", NoAnn),
               Mac2("", "eth9", NoAnn), Mac2("", "", [HostAnn EXCEPT !.ann = "mac"])}
              \X {Nil, <<[name |-> 2, val |-> "b"], [name |-> 1, val |-> "a"]>>,
                  <<[name |-> 0, val |-> "mode"]>>}
              \X {"", "InClusterIPPool"}}
DataTemplates2 ==
    {DataTemplate2(m, Nil) : m \in Metas2}
    \cup {DataTemplate2(MetaAll, n) : n \in StaticNets \cup DynamicNets \cup LinkNets}
    \cup {DataTemplate2(Nil, Net2(<<>>, Nil, ""))}
    \cup {[DataTemplate2(MetaAll, Nil) EXCEPT !.label = "edited"]}
DataTemplates1 ==
    {[t EXCEPT !.label = "v1"] :
        t \in {DataTemplateConvertFrom(u) :
                 u \in {DataTemplate2(MetaAll, Nil),
                        DataTemplate2(<<Nic("eth0", FALSE)>>, Nil),
                        DataTemplate2(Nil, CHOOSE n \in LinkNets : n.links[2].params # Nil
                                              /\ n.links[2].mac # Nil)}}}

MCNewV2(k) ==
    CASE k = "Metal3Cluster" ->
             {[spec |-> s, status |-> NewStatus2, prefix |-> ""] : s \in ClusterSpecs2}
             \cup {[spec |-> [host |-> "h", port |-> 1, cloud |-> TRUE, fds |-> Nil],
                    status |-> NewStatus2, prefix |-> p] :
                      p \in {"valid", "reserved", "malformed"}}
      [] k = "Metal3ClusterTemplate" ->
             {[meta |-> m, spec |-> s] : m \in {"", "labels"}, s \in ClusterSpecs2}
      [] k = "Metal3Machine" ->
             {[spec |-> s, status |-> NewMachineStatus2] : s \in MachineSpecs2}
      [] k = "Metal3MachineTemplate" ->
             {[meta |-> "labels", spec |-> s, nodeReuse |-> n] :
                 s \in MachineSpecs2, n \in {Nil, FALSE, TRUE}}
      [] k = "Metal3Data" -> Datas2
      [] k = "Metal3DataClaim" ->
             {[template |-> r] : r \in {Nil, Ref("", ""), Ref("t", ""), Ref("t", "own"),
                                        Ref("t", "other"), Ref("u", "")}}
      [] k = "Metal3DataTemplate" -> DataTemplates2
      [] k \in {"Metal3Remediation", "Metal3RemediationTemplate"} ->
             {[strategy |-> s] : s \in Strategies2 \cup {Nil}}

MCNewV1(k) ==
    CASE k = "Metal3Cluster" ->
             {[spec |-> s, status |-> NewStatus1, prefix |-> "valid"] :
                 s \in ClusterSpecs1}
      [] k = "Metal3ClusterTemplate" -> {[spec |-> s] : s \in ClusterSpecs1}
      [] k = "Metal3Machine" ->
             {[spec |-> s, status |-> NewMachineStatus1] : s \in MachineSpecs1}
      [] k = "Metal3MachineTemplate" ->
             {[spec |-> s, nodeReuse |-> n] : s \in MachineSpecs1, n \in BOOLEAN}
      [] k = "Metal3Data" -> Datas1
      [] k = "Metal3DataClaim" ->
             {[template |-> r] : r \in {NoRef, Ref("t", ""), Ref("t", "own"), Ref("u", "")}}
      [] k = "Metal3DataTemplate" -> DataTemplates1
      [] k \in {"Metal3Remediation", "Metal3RemediationTemplate"} ->
             {[strategy |-> s] : s \in Strategies1 \cup {Nil}}

Entry(n, i) == [name |-> n, index |-> i]
MCStatuses(k) ==
    CASE k = "Metal3Cluster" ->
             {[prov |-> TRUE, cond |-> "c", legacy |-> Nil, fds |-> Nil],
              [prov |-> FALSE, cond |-> "c", legacy |-> "l",
               fds |-> <<[name |-> 2, cp |-> FALSE], [name |-> 1, cp |-> TRUE]>>]}
      [] k = "Metal3Machine" ->
             {[prov |-> TRUE, rendered |-> Nil, cond |-> "c", legacy |-> "l"],
              [prov |-> FALSE, rendered |-> Ref("d", ""), cond |-> "c", legacy |-> Nil]}
      [] k = "Metal3Data" -> {[ready |-> TRUE]}
      [] k = "Metal3DataTemplate" ->
             {[indexes |-> <<Entry(1, 5), Entry(2, 0), Entry(0, 3)>>],
              [indexes |-> <<>>]}

Objects == {"metal3machine", "machine", "baremetalhost"}
MCCtx ==
    [ann |-> [o \in Objects |->
                IF o = "baremetalhost" THEN [pool |-> "p5", mac |-> "mac2"]
                ELSE [pool |-> ""]],
     label |-> [o \in Objects |-> [zone |-> "z"]],
     name |-> [metal3machine |-> "m3m", machine |-> "m", baremetalhost |-> "bmh"],
     nics |-> [eth0 |-> "mac1"], bootMAC |-> "mac2"]
MCPools ==
    [p \in {"p1", "p2", "p3", "p4", "p5"} |->
        [address |-> "ip", prefix |-> 24, gateway |-> "gw", dns |-> <<"dns2">>]]
MCMACs == {"mac1", "mac2"}
=============================================================================
