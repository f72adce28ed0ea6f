----------------------------- MODULE MCPlatform -----------------------------
(***************************************************************************)
(* The components of the GaoCloud server for TLC, one at a time: each      *)
(* behaviour is one of the component that "which" names, on variables of   *)
(* its own or on ones that components share.  Small instances of each.     *)
(***************************************************************************)
EXTENDS Integers, FiniteSets, SequencesExt, TLC, SharedMaps, Workloads, Tenancy, Storage, Workflows, Charts, Applications, Alarm

CONSTANTS
    RaLength, RaDomains, RaMaxDomain, RaKinds, RaPlural, RaIds, RaBodies,
    StorageClasses, PtRequests, PtOptions, PtStatuses,
    KoRequests, KoUpdates,
    RtRoutes, RtPaths, RtUpper, RtAdds

VARIABLES which, s1, s2, s3, s4

state == <<which, s1, s2, s3, s4, haVars, udVars, wlVars, tnVars, stVars, ciVars, chVars, apVars, alVars>>

(* The components with variables of their own stay as they begin while  *)
(* another one runs.                                                       *)
HaHeld == HaInit
UdHeld == UdInit
WlHeld == WlInit
TnHeld == TnInit /\ DOMAIN tnPass = {Admin}
StHeld == StInit /\ Existing = {}
CiHeld == CiInit /\ ciBound = {}
ChHeld == ChInit
ApHeld == ApInit
AlHeld == AlInit
AllHeld == HaHeld /\ UdHeld /\ WlHeld /\ TnHeld /\ StHeld /\ CiHeld /\ ChHeld /\ ApHeld /\ AlHeld
slots == <<s1, s2, s3, s4>>
own == <<haVars, udVars, wlVars, tnVars, stVars, ciVars, chVars, apVars, alVars>>

(* The variables a component with k variables of its own leaves alone. *)
Free0 == s1 = 0 /\ s2 = 0 /\ s3 = 0 /\ s4 = 0
Free1 == s2 = 0 /\ s3 = 0 /\ s4 = 0
Free3 == s4 = 0
Kept1 == UNCHANGED <<which, s2, s3, s4>>
Kept3 == UNCHANGED <<which, s4>>
Free4 == TRUE
Kept4 == UNCHANGED which

-----------------------------------------------------------------------------
(* Seven kinds of resources, their requests and bodies. *)
Ra == INSTANCE RestApi WITH raTop <- s1, raChildren <- s2, raFields <- s3, raFailed <- s4

RaNull == [j |-> "null"]

(* The zero value of a type whose structures nest twice at most. *)
RaZeroOf(t) == CASE t.k \in {"int", "uint"} -> 0 [] t.k = "string" -> "" [] t.k = "bool" -> FALSE [] OTHER -> << >>
RaZeroIn(t, Z(_)) == [n \in {t.fields[i].name : i \in DOMAIN t.fields} |-> Z((CHOOSE fd \in ToSet(t.fields) : fd.name = n).type)]
RaZeroPart(t) == IF t.k = "struct" THEN RaZeroIn(t, RaZeroOf) ELSE RaZeroOf(t)
RaZeroField(t) == IF t.k = "struct" THEN RaZeroIn(t, RaZeroPart) ELSE RaZeroOf(t)
RaZero(t) == RaZeroIn(t, RaZeroField)

RaBas(k) == [k |-> k, elem |-> << >>, fields |-> << >>]
RaOf(k, t) == [k |-> k, elem |-> <<t>>, fields |-> << >>]
RaSt(fields) == [k |-> "struct", elem |-> << >>, fields |-> fields]
RaFd(name, rest, type) == [name |-> name, json |-> <<"omitempty", name>>, rest |-> rest, embedded |-> FALSE, exported |-> TRUE, type |-> type]
RaEmb(name, type) == [RaFd(name, << >>, type) EXCEPT !.embedded = TRUE]
RaHid(name, type) == [RaFd(name, << >>, type) EXCEPT !.exported = FALSE]
RaReq == [tag |-> "required", num |-> << >>, text |-> {"true"}]
RaOpt == [tag |-> "required", num |-> << >>, text |-> {"false"}]
RaDom == [tag |-> "isDomain", num |-> << >>, text |-> {"true"}]
RaN(tag, n) == [tag |-> tag, num |-> <<n>>, text |-> {}]
RaOs(set) == [tag |-> "options", num |-> << >>, text |-> set]
RaDes == [tag |-> "description", num |-> << >>, text |-> {"readonly"}]

RaTCluster == RaSt(<<RaFd("name", <<RaReq, RaDom>>, RaBas("string")), RaFd("count", <<RaN("min", 1), RaN("max", 3)>>, RaBas("int")),
                 RaFd("nodes", <<RaReq>>, RaOf("slice", RaSt(<<RaFd("role", <<RaReq, RaOs({"a", "ab"})>>, RaBas("string"))>>)))>>)
RaTSpace == RaSt(<<RaEmb("base", RaSt(<<RaFd("size", <<RaN("max", 2), RaOpt>>, RaBas("uint")), RaHid("own", RaBas("bool"))>>)),
               RaFd("tags", <<RaReq, RaDom>>, RaOf("slice", RaBas("string"))),
               RaFd("labels", <<RaN("minLen", 1), RaN("maxLen", 2)>>, RaOf("map", RaBas("string"))), RaFd("open", << >>, RaBas("bool"))>>)
RaTDeploy == RaSt(<<RaFd("ports", << >>, RaOf("slice", RaOf("ptr", RaSt(<<RaFd("port", <<RaN("min", 1)>>, RaBas("int"))>>)))),
                RaFd("limit", <<RaReq>>, RaOf("ptr", RaSt(<<RaFd("cpu", <<RaReq, RaN("max", 2)>>, RaBas("int"))>>))),
                RaFd("note", <<RaReq>>, RaSt(<<RaFd("text", << >>, RaBas("string"))>>))>>)
RaTVol == RaSt(<<RaFd("gb", <<RaN("min", 1), RaReq>>, RaBas("int")), RaFd("io", <<RaN("min", 1), RaN("max", 3)>>, RaBas("int"))>>)
RaTSpec == RaSt(<<RaEmb("base", RaSt(<<RaFd("size", <<RaN("max", 2)>>, RaBas("uint"))>>)), RaFd("cap", <<RaN("min", 1)>>, RaBas("int"))>>)
RaTSet == RaSt(<<RaFd("vols", <<RaReq>>, RaOf("map", RaTVol)), RaFd("spec", << >>, RaTSpec), RaFd("kind", <<RaDes>>, RaOf("slice", RaBas("bool")))>>)
RaTPod == RaSt(<<RaFd("name", << >>, RaBas("string"))>>)
RaTBad == RaSt(<<RaFd("size", <<RaN("min", 2), RaN("max", 2)>>, RaBas("int"))>>)
RaTLogin == RaSt(<<RaFd("user", << >>, RaBas("string")), RaFd("kept", << >>, RaOf("slice", RaBas("uint")))>>)

RaJ(j, v) == [j |-> j, v |-> v]
RaNum(n) == RaJ("num", n)
RaTxt(s) == RaJ("str", s)
RaArr(s) == RaJ("arr", s)
RaObj(f) == RaJ("obj", [n \in DOMAIN f |-> [same |-> TRUE, val |-> f[n]]])
RaOdd(f) == RaJ("obj", [n \in DOMAIN f |-> [same |-> FALSE, val |-> f[n]]])
RaAbsent == RaJ("absent", 0)
RaWith(f) == RaObj([n \in {x \in DOMAIN f : f[x].j # "absent"} |-> f[n]])
RaKind(parents, handlers, type, default) ==
    [parents |-> parents, handlers |-> handlers, actions |-> ("go" :> << >>) @@ ("log" :> <<RaTLogin>>), async |-> "Delete" \in handlers,
     type |-> type, default |-> default]
RaEvery == {"List", "Get", "Create", "Update", "Delete", "Action"}
MCRaKinds ==
    [cluster |-> RaKind(<< >>, RaEvery, RaTCluster, [RaZero(RaTCluster) EXCEPT !.count = 2, !.nodes = <<("role" :> "ab")>>]),
     space |-> RaKind(<<"cluster">>, {"List", "Create", "Get"}, RaTSpace, RaZero(RaTSpace)),
     deploy |-> RaKind(<<"space">>, {"Create", "Update", "Get"}, RaTDeploy, RaZero(RaTDeploy)),
     set |-> RaKind(<<"space">>, {"Create", "List"}, RaTSet, RaZero(RaTSet)),
     pod |-> RaKind(<<"deploy", "set">>, {"List", "Get", "Delete", "Action"}, RaTPod, RaZero(RaTPod)),
     bad |-> RaKind(<<"cluster">>, RaEvery, RaTBad, RaZero(RaTBad)), mute |-> RaKind(<< >>, {}, RaTPod, RaZero(RaTPod))]
MCRaPlural == [k \in DOMAIN MCRaKinds |-> CASE k = "cluster" -> "clusters" [] k = "space" -> "spaces" [] k = "deploy" -> "deploys" [] k = "set" -> "sets"
                  [] k = "pod" -> "pods" [] k = "bad" -> "bads" [] k = "mute" -> "mutes"]
RaRoles == {RaObj(<< >>), RaObj("role" :> RaTxt("a")), RaObj("role" :> RaTxt("B")), RaNum(1)}
RaClusterBodies ==
    {<<RaWith([name |-> n, count |-> c, nodes |-> r])>> :
        n \in {RaAbsent, RaNull, RaTxt("a"), RaTxt("B")}, c \in {RaAbsent, RaNum(0), RaNum(2), RaNum(3)},
        r \in {RaAbsent, RaNull, RaNum(1)} \cup {RaArr(<<x>>) : x \in RaRoles}}
    \cup {<< >>, <<RaNull>>, <<RaArr(<< >>)>>, <<RaOdd([name |-> RaTxt("a"), count |-> RaNum(5), nodes |-> RaArr(<< >>)])>>}
RaSpaceBodies ==
    {<<RaWith([size |-> s, tags |-> t, labels |-> l])>> :
        s \in {RaAbsent, RaNum(1), RaNum(2)}, t \in {RaAbsent, RaArr(<<RaTxt("a")>>), RaArr(<<RaTxt("a"), RaTxt("B")>>)},
        l \in {RaAbsent, RaObj(<< >>), RaObj("k" :> RaTxt("")), RaObj("k" :> RaTxt("a")), RaObj([k |-> RaTxt("a"), m |-> RaTxt("ab")])}}
RaDeployBodies ==
    {<<RaWith([ports |-> p, limit |-> l, note |-> n])>> :
        p \in {RaAbsent, RaArr(<<RaNull>>), RaArr(<<RaObj("port" :> RaNum(1))>>), RaArr(<<RaObj("port" :> RaNum(0))>>)},
        l \in {RaAbsent, RaNull, RaObj(<< >>), RaObj("cpu" :> RaNum(1)), RaObj("cpu" :> RaNum(2))}, n \in {RaAbsent, RaTxt("a")}}
RaSetBodies == {<<RaWith([vols |-> v, kind |-> RaArr(<<RaTxt("a")>>)])>> :
    v \in {RaAbsent, RaNull, RaArr(<< >>), RaObj(<< >>), RaObj("v" :> RaObj("gb" :> RaNum(1))), RaObj("v" :> RaObj("gb" :> RaNum(0))), RaObj("v" :> RaObj(<< >>)), RaObj("v" :> RaNum(1)),
           RaObj([v |-> RaObj("gb" :> RaNum(1)), w |-> RaObj("gb" :> RaNum(2))])}
        \cup {RaObj([v |-> RaObj("gb" :> RaNum(1)), w |-> RaObj([gb |-> RaNum(2), io |-> RaNum(n)])]) : n \in {1, 3}}
        \cup {RaObj([v |-> RaObj([gb |-> RaNum(1), io |-> RaNum(2)]), w |-> RaObj([gb |-> RaNum(2), io |-> RaNum(n)])]) : n \in {1, 3}}}
    \cup {<<RaWith([vols |-> RaObj("v" :> RaObj("gb" :> RaNum(1))), spec |-> s])>> :
        s \in {RaNull, RaNum(1)} \cup {RaWith([size |-> z, cap |-> c]) : z \in {RaAbsent, RaNum(1), RaNum(2)}, c \in {RaAbsent, RaNum(0), RaNum(1)}}}
RaLogins == {<< >>, <<RaNull>>, <<RaObj(<< >>)>>, <<RaObj([user |-> RaTxt("a"), kept |-> RaArr(<<RaNum(1)>>)])>>, <<RaObj("user" :> RaNum(1))>>, <<RaObj("kept" :> RaArr(<<RaNum(-1)>>))>>}
MCRaBodies == [k \in DOMAIN MCRaKinds |-> CASE k = "cluster" -> RaClusterBodies [] k = "space" -> RaSpaceBodies [] k = "deploy" -> RaDeployBodies [] k = "set" -> RaSetBodies [] OTHER -> RaLogins]
MCRaLength == [s \in {"", "a", "ab", "B"} |-> CASE s = "" -> 0 [] s \in {"a", "B"} -> 1 [] s = "ab" -> 2]

RaBegins == which = "rest" /\ Ra!RaInit /\ Free4 /\ AllHeld
RaRuns == which = "rest" /\ Ra!RaNext /\ Kept4 /\ UNCHANGED own

-----------------------------------------------------------------------------
(* Pod templates: pkg/handler conversions of containers, volumes and status. *)
Pt == INSTANCE PodTemplates WITH ptCase <- s1

PtNames == {"p", "c-vol0"}
PtVolumes == [type : {"configmap", "persistentvolume"}, name : PtNames, path : {"/a"}]
               \cup {[type |-> "secret", name |-> "p", path |-> "/a"], [type |-> "hostpath", name |-> "p", path |-> "/a"]}
PtPorts == {<<>>, <<[name |-> <<"l">>, proto |-> "TCP"]>>, <<[name |-> <<"l">>, proto |-> "udp"], [name |-> <<"l">>, proto |-> "tcp"]>>,
  <<[name |-> <<"l", "-", "d">>, proto |-> "sctp"]>>, <<[name |-> <<"l", "-", "-", "d">>, proto |-> "tcp"]>>}
PtPvs == {<<>>} \cup {<<[name |-> n, class |-> c, size |-> z]>> : n \in PtNames, c \in {"", "temp", "lvm", "raw", "none"}, z \in {"", "bad", "1Gi"}}
  \cup {<<[name |-> "p", class |-> c, size |-> "1Gi"], [name |-> n, class |-> d, size |-> "2Gi"]>> : n \in {"p", "q"}, c, d \in {"temp", "lvm"}}
MCPtRequests ==
  {[containers |-> <<[name |-> "c", volumes |-> v, ports |-> p]>>, pvs |-> pvs] : v \in {<<>>} \cup {<<a>> : a \in PtVolumes}, p \in PtPorts, pvs \in PtPvs}
  \cup {[containers |-> <<[name |-> "c", volumes |-> <<a, b>>, ports |-> <<>>], [name |-> "d", volumes |-> <<e>>, ports |-> <<>>]>>, pvs |-> pvs] :
            a, b, e \in PtVolumes, pvs \in PtPvs}
MCStorageClasses == [lvm |-> "ReadWriteOnce", raw |-> ""]
MCPtOptions == [port : {0, 80}, path : {"", "/m"}, reload : BOOLEAN, purge : BOOLEAN, mesh : BOOLEAN, memo : {"", "memo"}]
PtReplicaSets == [replicas : 0..2, ready : 0..2]
MCPtStatuses ==
  [kind : {"statefulset"}, spec : 0..2, updated : 0..2, currentRevision : {1}, updateRevision : {1, 2}]
  \cup [kind : {"daemonset"}, spec : 0..2, available : 0..2, ready : 0..2, updated : 0..2, unavailable : 0..2, observed : {1, 2}]
  \cup {[kind |-> "deployment", spec |-> 2, replicas |-> r, ready |-> 2, updated |-> u, unavailable |-> 0, observed |-> o, revision |-> v, sets |-> f] :
      r \in {2, 3}, u \in {1, 2}, o \in {1, 2}, v \in 0..2, f \in [{1} -> PtReplicaSets] \cup [{1, 2} -> PtReplicaSets]}

PtBegins == which = "templates" /\ Pt!PtInit /\ Free1 /\ AllHeld
PtRuns == which = "templates" /\ Pt!PtNext /\ Kept1 /\ UNCHANGED own

-----------------------------------------------------------------------------
(* Services, ingresses, config maps, limits, metrics and jobs. *)
Ko == INSTANCE KubeObjects WITH koCase <- s1

KoRules == [host : 0..2, path : 0..2, service : {"s", "t"}]
KoQuantities == {-2, -1, 0, 1, 500, 1000, 1500}
KoPorts == [name : {"p"}, proto : {"tcp", "udp"}]
MCKoUpdates ==
  {[kind |-> "ingress", obj |-> [rules |-> r, size |-> 4, unit |-> "k"]] : r \in {<<>>, <<[host |-> 2, path |-> 1, service |-> "s"], [host |-> 1, path |-> 1, service |-> "s"], [host |-> 2, path |-> 2, service |-> "t"]>>, <<[host |-> 0, path |-> 1, service |-> "s"]>>}}
  \cup {[kind |-> k, obj |-> [data |-> d]] : k \in {"configmap", "secret"}, d \in BoundedSeq([key : {"k", "l"}, value : {"w"}], 2)}
MCKoRequests ==
  {[kind |-> "service", obj |-> [type |-> t, ports |-> p, headless |-> h, vip |-> v, method |-> m]] :
     t \in {"clusterip", "nodeport", "loadbalancer"}, p \in {<<>>} \cup {<<a>> : a \in KoPorts} , h \in BOOLEAN, v \in {"", "v4", "v6"}, m \in {"", "rr", "lc"}}
  \cup {[kind |-> "ingress", obj |-> [rules |-> r, size |-> z, unit |-> u]] : r \in {<<>>} \cup {<<a, b>> : a, b \in KoRules}
            \cup {<<a, b, c>> : a, b, c \in {x \in KoRules : x.host # 0 /\ x.path # 0 /\ x.service = "s"}}, z \in {0, 8}, u \in {"", "m"}}
  \cup {[kind |-> k, obj |-> [data |-> d]] : k \in {"configmap", "secret"}, d \in BoundedSeq([key : {"k", "l"}, value : {"v", "w"}], 2)}
  \cup {[kind |-> "limitrange", obj |-> [max |-> a, min |-> b]] : a, b \in UNION {[D -> {-2, 1, 1500}] : D \in SUBSET {"cpu", "memory", "gpu"}}}
  \cup {[kind |-> "quota", obj |-> [limits |-> a]] : a \in UNION {[D -> {-2, 1, 1500}] : D \in SUBSET {"requests.cpu", "limits.memory", "gpu"}}}
  \cup {[kind |-> "resourcemetric", obj |-> [name |-> n, type |-> t, value |-> v, utilization |-> u]] : n \in {"cpu", "memory"}, t \in {"Utilization", "AverageValue"}, v \in KoQuantities, u \in {0, 50}}
  \cup {[kind |-> "custommetric", obj |-> [metric |-> "m", labels |-> l, value |-> v]] : l \in {"l1", "l2"}, v \in KoQuantities}
  \cup {[kind |-> "job", obj |-> [volumes |-> b, policy |-> p]] : b \in BOOLEAN, p \in {"OnFailure", "Never"}}
  \cup {[kind |-> "cronjob", obj |-> [volumes |-> b, policy |-> p, schedule |-> "s"]] : b \in BOOLEAN, p \in {"OnFailure", "Never"}}

KoBegins == which = "objects" /\ Ko!KoInit /\ Free1 /\ AllHeld
KoRuns == which = "objects" /\ Ko!KoNext /\ Kept1 /\ UNCHANGED own

-----------------------------------------------------------------------------
(* Two autoscalers that share the config map of custom metrics. *)
HaBegins == which = "autoscaler" /\ HaInit /\ Free0 /\ UdHeld /\ WlHeld /\ TnHeld /\ StHeld /\ CiHeld /\ ChHeld /\ ApHeld /\ AlHeld
HaRuns == which = "autoscaler" /\ HaNext /\ UNCHANGED <<which, slots, udVars, wlVars, tnVars, stVars, ciVars, chVars, apVars, alVars>>

-----------------------------------------------------------------------------
(* UDP ingresses of two namespaces. *)
MCUdServices == {<<"n1", "s1">>, <<"n1", "s2">>, <<"n2", "s1">>}

UdBegins == which = "udp" /\ UdInit /\ Free0 /\ HaHeld /\ WlHeld /\ TnHeld /\ StHeld /\ CiHeld /\ ChHeld /\ ApHeld /\ AlHeld
UdRuns == which = "udp" /\ UdNext /\ UNCHANGED <<which, slots, haVars, wlVars, tnVars, stVars, ciVars, chVars, apVars, alVars>>

-----------------------------------------------------------------------------
(* A deployment and a stateful set with shared claim names, two requests at a time. *)
MCWlKindOf == [dep |-> "deployment", set |-> "statefulset"]
MCWlLists == {<<"c">>, <<"d", "c">>}

WlBegins == which = "workloads" /\ WlInit /\ Free0 /\ HaHeld /\ UdHeld /\ TnHeld /\ StHeld /\ CiHeld /\ ChHeld /\ ApHeld /\ AlHeld
WlRuns == which = "workloads" /\ WlNext /\ UNCHANGED <<which, slots, haVars, udVars, tnVars, stVars, ciVars, chVars, apVars, alVars>>

-----------------------------------------------------------------------------
(* A daemon set. *)
Wd == INSTANCE Workloads WITH WlNames <- {"dae"}, WlKindOf <- [dae |-> "daemonset"]

WdBegins == which = "daemons" /\ Wd!WlInit /\ Free0 /\ HaHeld /\ UdHeld /\ TnHeld /\ StHeld /\ CiHeld /\ ChHeld /\ ApHeld /\ AlHeld
WdRuns == which = "daemons" /\ Wd!WlNext /\ UNCHANGED <<which, slots, haVars, udVars, tnVars, stVars, ciVars, chVars, apVars, alVars>>

-----------------------------------------------------------------------------
(* Users, quotas, namespaces and the audit log. *)
TnBegins == which = "tenancy" /\ TnInit /\ Free0 /\ HaHeld /\ UdHeld /\ WlHeld /\ StHeld /\ CiHeld /\ ChHeld /\ ApHeld /\ AlHeld
TnRuns == which = "tenancy" /\ TnNext /\ UNCHANGED <<which, slots, haVars, udVars, wlVars, stVars, ciVars, chVars, apVars, alVars>>

-----------------------------------------------------------------------------
(* Storage clusters, iSCSI and NFS storages, some in use at the start. *)
StReady(type, hosts, chap) == 
    [is |-> type, hosts |-> hosts, target |-> "t1", chap |-> chap, phase |-> "Running", used |-> FALSE, deleting |-> FALSE,
     config |-> IF type = "lvm" THEN hosts ELSE {}]
MCStStarts == {<<>>, (<<"iscsi", "a">> :> StReady("iscsi", {"h1"}, TRUE)), (<<"nfs", "a">> :> StReady("nfs", {"h1","m"}, FALSE)),
  (<<"cluster", "a">> :> StReady("lvm", {"h1"}, FALSE)),
  (<<"cluster", "a">> :> [StReady("lvm", {"h1"}, FALSE) EXCEPT !.used = TRUE])}
MCStOps == {<<"create","lvm">>,<<"create","cephfs">>,<<"create","iscsi">>,<<"create","nfs">>,<<"update","lvm">>,<<"update","cephfs">>,<<"update","iscsi">>,<<"update","nfs">>,<<"delete","any">>}

StBegins == which = "storage" /\ StInit /\ Free0 /\ HaHeld /\ UdHeld /\ WlHeld /\ TnHeld /\ CiHeld /\ ChHeld /\ ApHeld /\ AlHeld
StRuns == which = "storage" /\ StNext /\ UNCHANGED <<which, slots, haVars, udVars, wlVars, tnVars, ciVars, chVars, apVars, alVars>>

-----------------------------------------------------------------------------
(* Workflows and their pipeline runs. *)
CiBegins == which = "workflows" /\ CiInit /\ Free0 /\ HaHeld /\ UdHeld /\ WlHeld /\ TnHeld /\ StHeld /\ ChHeld /\ ApHeld /\ AlHeld
CiRuns == which = "workflows" /\ CiNext /\ UNCHANGED <<which, slots, haVars, udVars, wlVars, tnVars, stVars, chVars, apVars, alVars>>

-----------------------------------------------------------------------------
(* Two versions of a chart and a system chart in the repository. *)
MCChRepo == [app |-> ("1" :> <<"Chart", "config", "old">>) @@ ("2" :> <<"Chart", "config", "new">>), sys |-> ("1" :> <<"Chart", "config">>)]
ChField(key, type, req, mn, mx, valid) == [key |-> key, type |-> type, required |-> req, min |-> IF type = "int" THEN mn ELSE 0, max |-> IF type = "int" THEN mx ELSE 0,
   minLen |-> IF type = "string" THEN mn ELSE 0, maxLen |-> IF type = "string" THEN mx ELSE 0, valid |-> valid]
MCChConfigs == {ChField(<<"n">>, "int", TRUE, 1, 3, {}), ChField(<<"m", "s">>, "string", FALSE, 1, 3, {}), ChField(<<"m", "e">>, "enum", FALSE, 0, 0, {"x"})}
ChNum(n) == [is |-> "int", n |-> n]
ChTxt(t, l) == [is |-> "string", text |-> t, len |-> l]
ChM(f) == [is |-> "map", of |-> f]
MCChValues == {ChM([n |-> ChNum(2)]), ChM([n |-> ChNum(3)]), ChM([m |-> ChM([s |-> ChTxt("x", 1)])]),
   ChM([n |-> ChNum(1), m |-> ChM([s |-> ChTxt("xx", 2), e |-> [is |-> "list", of |-> {ChTxt("x", 1)}]])]), ChM([n |-> ChNum(1), m |-> ChM([e |-> ChTxt("y", 1)])])}

ChBegins == which = "charts" /\ ChInit /\ Free0 /\ HaHeld /\ UdHeld /\ WlHeld /\ TnHeld /\ StHeld /\ CiHeld /\ ApHeld /\ AlHeld
ChRuns == which = "charts" /\ ChNext /\ UNCHANGED <<which, slots, haVars, udVars, wlVars, tnVars, stVars, ciVars, apVars, alVars>>

-----------------------------------------------------------------------------
(* An application and the system application with their resources. *)
MCApManifests == [a |-> <<"ad", "as">>, m |-> <<"mx", "md">>]
MCApKind == [ad |-> "deployment", mx |-> "serviceaccount", as |-> "service", md |-> "daemonset"]

ApBegins == which = "applications" /\ ApInit /\ Free0 /\ HaHeld /\ UdHeld /\ WlHeld /\ TnHeld /\ StHeld /\ CiHeld /\ ChHeld /\ AlHeld
ApRuns == which = "applications" /\ ApNext /\ UNCHANGED <<which, slots, haVars, udVars, wlVars, tnVars, stVars, ciVars, chVars, alVars>>

-----------------------------------------------------------------------------
(* Alarms of two clusters. *)
AlBegins == which = "alarm" /\ AlInit /\ Free0 /\ HaHeld /\ UdHeld /\ WlHeld /\ TnHeld /\ StHeld /\ CiHeld /\ ChHeld /\ ApHeld
AlRuns == which = "alarm" /\ AlNext /\ UNCHANGED <<which, slots, haVars, udVars, wlVars, tnVars, stVars, ciVars, chVars, apVars>>

-----------------------------------------------------------------------------
(* Every sequence of up to three of these routes, and every request of these paths. *)
Rt == INSTANCE HttpRouter WITH rtTrees <- s1, rtAdded <- s2, rtFailed <- s3

RtG(path) == [method |-> "GET", path |-> path]
MCRtRoutes ==
    {RtG(<<"/">>), RtG(<<"/", "a">>), RtG(<<"/", "a", "/">>), RtG(<<"/", "a", "/", ":", "x">>), RtG(<<"/", "a", "/", ":", "x", "/", "b">>),
     RtG(<<"/", "a", "/", ":", "x", "/", ":", "y">>), RtG(<<"/", "a", "b", "/", "*", "z">>), RtG(<<"/", "A", "b">>), RtG(<<"/", "a", "b", "/">>),
     RtG(<<"/", "b", "/", ":", "x", "/", "a", "/", "*", "z">>), RtG(<<"/", ":", "y">>), RtG(<<"/", "a", "b", "/", ":", "x", "b">>),
     [method |-> "POST", path |-> <<"/", "a">>]}
RtChars == {"/", "a", "b", "A"}
MCRtPaths == {<<"/">> \o p : p \in UNION {[1..k -> RtChars] : k \in 0..2}}
             \cup {<<"/", ".", "/", "a">>, <<"/", "a", "b", "/">>, <<"/", "a", "/", "b">>, <<"/", "A", "/", "A">>, <<"/", "b", "/", "a">>, <<"/", "b", "/", ".", ".", "/", "a">>, <<"/", "a", "/", ".">>, <<"*">>,
                   <<"/", "a", "/", "b", "/">>, <<"/", "a", "/", "b", "/", "b">>, <<"/", "A", "/", "b", "/", "b">>, <<"/", "a", "b", "/", "b", "/">>,
                   <<"/", "b", "/", "b", "/", "a", "/", "b">>, <<"/", "b", "/", "b", "/", "A", "/", "b">>}
MCRtUpper == ("A" :> "a")

RtBegins == which = "router" /\ Rt!RtInit /\ Free3 /\ AllHeld
RtRuns == which = "router" /\ Rt!RtNext /\ Kept3 /\ UNCHANGED own

-----------------------------------------------------------------------------
Init == \/ RaBegins
        \/ PtBegins
        \/ KoBegins
        \/ HaBegins
        \/ UdBegins
        \/ WlBegins
        \/ WdBegins
        \/ TnBegins
        \/ StBegins
        \/ CiBegins
        \/ ChBegins
        \/ ApBegins
        \/ AlBegins
        \/ RtBegins

Next == \/ RaRuns
        \/ PtRuns
        \/ KoRuns
        \/ HaRuns
        \/ UdRuns
        \/ WlRuns
        \/ WdRuns
        \/ TnRuns
        \/ StRuns
        \/ CiRuns
        \/ ChRuns
        \/ ApRuns
        \/ AlRuns
        \/ RtRuns

Spec == Init /\ [][Next]_state

(****************************** Properties *********************************)

(* Clients read back what they asked for, and a form sent back unchanged   *)
(* changes nothing (PodTemplates, KubeObjects).                            *)
ReadsBack ==
    /\ which = "templates" => Pt!PtReadBack /\ Pt!PtStatusAddsUp
    /\ which = "objects" => Ko!KoReadWriteStable /\ Ko!KoAnswered

(* Requests are handed to the route that fits (HttpRouter).                *)
RtFinds == which = "router" => Rt!RtFinds

(* Every handler is reached by its request, with the body the tags ask for *)
(* (RestApi).                                                              *)
RaServes == which = "rest" => Ra!RaServes
=============================================================================
