----------------------------- MODULE MCInstall ------------------------------
(***************************************************************************)
(* The installation of clusters and the stores the server keeps, for TLC,  *)
(* one component at a time: each behaviour is one of the component that    *)
(* "which" names, on variables the components share; the key value store   *)
(* has its own and stays as it begins while another one runs.  Small       *)
(* instances of each.                                                      *)
(***************************************************************************)
EXTENDS Integers, FiniteSets, SequencesExt, TLC, KVZoo

CONSTANTS
    PkClusters, PkConfigs, PkUps, PkFaults, NpParse, NpLower, NpImages, NpTag,
    InHosts, InClis, InOps, InFaults,
    CtConfigs, CtTasks, CtFaults,
    RsStructs, RsRows, RsStatements, RsClients, RsSteps, RsTxs, RsFaults,
    SrNames, SrServices, SrEndpoints, SrConf, SrStarts, SrChanges

VARIABLES which, s1, s2, s3, s4, s5, s6, s7, s8, s9, s10, s11, s12, s13, s14

state == <<which, s1, s2, s3, s4, s5, s6, s7, s8, s9, s10, s11, s12, s13, s14, vars>>

(* The variables a component with k variables of its own leaves alone. *)
Free4 == s5 = 0 /\ s6 = 0 /\ s7 = 0 /\ s8 = 0 /\ s9 = 0 /\ s10 = 0 /\ s11 = 0 /\ s12 = 0 /\ s13 = 0 /\ s14 = 0
Free5 == s6 = 0 /\ s7 = 0 /\ s8 = 0 /\ s9 = 0 /\ s10 = 0 /\ s11 = 0 /\ s12 = 0 /\ s13 = 0 /\ s14 = 0
Free6 == s7 = 0 /\ s8 = 0 /\ s9 = 0 /\ s10 = 0 /\ s11 = 0 /\ s12 = 0 /\ s13 = 0 /\ s14 = 0
Free8 == s9 = 0 /\ s10 = 0 /\ s11 = 0 /\ s12 = 0 /\ s13 = 0 /\ s14 = 0
Kept4 == UNCHANGED <<which, s5, s6, s7, s8, s9, s10, s11, s12, s13, s14>>
Kept5 == UNCHANGED <<which, s6, s7, s8, s9, s10, s11, s12, s13, s14>>
Kept6 == UNCHANGED <<which, s7, s8, s9, s10, s11, s12, s13, s14>>
Kept8 == UNCHANGED <<which, s9, s10, s11, s12, s13, s14>>
Free14 == TRUE
Kept14 == UNCHANGED which

-----------------------------------------------------------------------------
(* Clusters and configuration files, their certificates and the plans of their nodes. *)
Pk == INSTANCE ClusterPki WITH pkVia <- s1, pkAsked <- s2, pkConf <- s3, pkState <- s4, pkDisk <- s5,
    pkFiles <- s6, pkRun <- s7, pkFrom <- s8, pkAt <- s9, pkUp <- s10, pkLife <- s11, pkLeft <- s12,
    pkLost <- s13, pkRefused <- s14

Np == INSTANCE NodePlan

PkIp(a) == [kind |-> "ip", a |-> a, n |-> 0, ip |-> ""]
PkCidr(a, n) == [kind |-> "cidr", a |-> a, n |-> n, ip |-> ""]

MCNpParse ==
    "10.0.0.1" :> PkIp(<<10, 0, 0, 1>>) @@ "10.0.0.2" :> PkIp(<<10, 0, 0, 2>>) @@ "10.0.0.3" :> PkIp(<<10, 0, 0, 3>>)
    @@ "192.168.0.1" :> PkIp(<<192, 168, 0, 1>>) @@ "10.43.0.10" :> PkIp(<<10, 43, 0, 10>>)
    @@ "10.42.0.10" :> PkIp(<<10, 42, 0, 10>>)
    @@ "10.44.0.10" :> PkIp(<<10, 44, 0, 10>>) @@ "114.114.114.114" :> PkIp(<<114, 114, 114, 114>>)
    @@ "10.42.0.0/16" :> PkCidr(<<10, 42, 0, 0>>, 16) @@ "10.43.0.0/16" :> PkCidr(<<10, 43, 0, 0>>, 16)
    @@ "192.168.0.2" :> PkIp(<<192, 168, 0, 2>>)
    @@ "10.43.0.255/20" :> PkCidr(<<10, 43, 0, 255>>, 20)
    @@ "10.0.0.9:80" :> [kind |-> "host", a |-> << >>, n |-> 80, ip |-> "10.0.0.9"]
    @@ "10.0.0.2:80" :> [kind |-> "host", a |-> << >>, n |-> 80, ip |-> "10.0.0.2"]
    @@ "No Name" :> [kind |-> "text", a |-> << >>, n |-> 0, ip |-> ""]

MCNpLower == "N1" :> "n1" @@ "Webhook" :> "webhook"

MCNpImages == [etcd |-> "etcd", kubernetes |-> "hyperkube", infra |-> "pause", proxy |-> "zke-tools", sidecar |-> "zke-tools"]

MCNpTag == "hyperkube" :> [parts |-> <<"v1", "17", "2">>, number |-> <<1, 17, 2>>]
           @@ "zke-tools" :> [parts |-> <<"v0", "1", "54">>, number |-> <<0, 1, 54>>]

PkNode(n, a, r) == [name |-> n, address |-> a, roles |-> r]
PkC1 == PkNode("n1", "10.0.0.1", <<"controlplane">>)
PkC2 == PkNode("n2", "10.0.0.2", <<"controlplane">>)
PkW2 == PkNode("n2", "10.0.0.2", <<"worker">>)
PkW3 == PkNode("n3", "10.0.0.3", <<"worker", "edge">>)

PkSc(nodes) == [name |-> "c", nodes |-> nodes, lb |-> [enable |-> FALSE, master |-> "", backup |-> "", user |-> ""],
              gaoCloudAddress |-> "10.0.0.9:80", sshUser |-> "zcloud", sshPort |-> "22", sshKey |-> "key",
              clusterCidr |-> "10.42.0.0/16", serviceCidr |-> "10.43.0.0/16", clusterDomain |-> "cluster.w",
              dnsIP |-> "10.43.0.10", upstream |-> <<"114.114.114.114">>, plugin |-> "flannel"]

MCPkClusters ==
    {PkSc(<<PkC1, PkW2>>), PkSc(<<PkC1, PkW3>>), PkSc(<<PkC1, PkW2, PkW3>>), PkSc(<<PkC1, PkC2, PkW3>>), PkSc(<<PkC2, PkC1, PkW3>>),
     PkSc(<<PkC1, PkC1, PkW2>>), PkSc(<<PkC1, PkC2>>), PkSc(<<PkW2, PkW3>>), PkSc(<<PkC1, PkNode("n2", "10.0.0.2", <<"controlplane", "worker">>)>>),
     [PkSc(<<PkC1, PkNode("m2", "10.0.0.2", <<"worker">>)>>) EXCEPT !.clusterCidr = "10.43.0.0/16", !.serviceCidr = "10.42.0.0/16",
                                                                   !.dnsIP = "10.42.0.10", !.clusterDomain = "other.w"],
     [PkSc(<<PkC1, PkW2>>) EXCEPT !.gaoCloudAddress = "10.0.0.2:80"],
     [PkSc(<<PkC1, PkW2>>) EXCEPT !.dnsIP = "10.44.0.10"],
     [PkSc(<<PkC1, PkW2>>) EXCEPT !.sshKey = ""],
     [PkSc(<<PkC1, PkW2>>) EXCEPT !.lb = [enable |-> TRUE, master |-> "10.0.0.9:80", backup |-> "10.0.0.2", user |-> "lb"]]}

PkCli(nodes) == [Np!genZKEConfig(PkSc(<< >>)) EXCEPT !.sshUser = "", !.sshPort = "", !.sshKey = "", !.clusterCidr = "",
                  !.serviceCidr = "", !.clusterDomain = "", !.dnsIP = "", !.upstream = << >>, !.plugin = "",
                  !.clusterName = "", !.nodes = nodes]
PkZNode(n, a, i, r) == [name |-> n, address |-> a, roles |-> r, internal |-> i, user |-> "", port |-> "", sshKey |-> "",
                      sshKeyPath |-> "", socket |-> ""]
PkZ1 == PkZNode("N1", "10.0.0.1", "192.168.0.1", <<"controlplane", "etcd", "worker">>)
PkZ2 == PkZNode("", "10.0.0.2", "", <<"worker">>)
PkZ3 == PkZNode("n3", "host3", "", <<"etcd">>)
PkY1 == PkZNode("", "10.0.0.1", "", <<"controlplane">>)
PkHooked == [PkCli(<<PkZ1>>) EXCEPT !.strategy = <<"x509", "Webhook">>, !.registries = {"", "r.local"}, !.prefix = "/opt", !.sans = <<"lb.w", "10.0.0.3">>]
PkOuter == [PkCli(<<PkY1, PkZ2>>) EXCEPT !.etcd.urls = <<"https://e">>, !.etcd.path = "/k8s", !.etcd.certs = TRUE, !.api.psp = TRUE, !.serviceCidr = "10.43.0.255/20"]

MCPkConfigs ==
    {PkHooked, [PkHooked EXCEPT !.serviceCidr = "10.42.0.0/16",
                                !.nodes = <<PkZNode("m1", "10.0.0.1", "192.168.0.2", PkZ1.roles), PkZ2>>],
     [PkHooked EXCEPT !.nodes = <<PkZ1, PkZ3>>], PkOuter,
     [PkOuter EXCEPT !.etcd.path = ""], [PkOuter EXCEPT !.etcd.urls = << >>], [PkHooked EXCEPT !.version = <<"v1", "13", "5">>],
     [PkHooked EXCEPT !.strategy = <<"Webhook">>], [PkHooked EXCEPT !.nodes = <<PkZ1, PkZNode("No Name", "10.0.0.2", "", <<"worker">>)>>],
     [PkHooked EXCEPT !.nodes = <<PkZ1, PkZNode("n2", "10.0.0.2", "", <<"storage">>)>>]}

PkStart == which = "pki" /\ Pk!PkInit /\ Free14 /\ Init
PkStep == which = "pki" /\ Pk!PkNext /\ Kept14 /\ UNCHANGED vars

-----------------------------------------------------------------------------
(* Ups and removals of a cluster of three hosts whose roles change. *)
In == INSTANCE Installer WITH inHost <- s1, inEtcd <- s2, inState <- s3, inNet <- s4, inJob <- s5,
    inLeft <- s6

InC(a, b, c) == [h \in InHosts |-> CASE h = "h1" -> a [] h = "h2" -> b [] OTHER -> c]
MCInClis == {InC({"etcd","controlplane"}, {"worker"}, {}),
             InC({"etcd","controlplane"}, {"worker","controlplane"}, {"etcd", "worker"}),
             InC({"etcd","worker"}, {"controlplane"}, {}),
             InC({"etcd","controlplane"}, {"worker"}, {"edge"}),
             InC({"controlplane"}, {"etcd"}, {}),
             InC({"etcd"}, {"worker"}, {"controlplane"})}

InStart == which = "installer" /\ In!InInit /\ Free6 /\ Init
InStep == which = "installer" /\ In!InNext /\ Kept6 /\ UNCHANGED vars

-----------------------------------------------------------------------------
(* A container on a host that is run and upgraded. *)
Ct == INSTANCE Containers WITH ctBox <- s1, ctImages <- s2, ctTask <- s3, ctLeft <- s4

MCCtConfigs == { [image |-> 1, args |-> 1, rest |-> 1], [image |-> 2, args |-> 1, rest |-> 1], [image |-> 2, args |-> 2, rest |-> 2] }

CtStart == which = "containers" /\ Ct!CtInit /\ Free4 /\ Init
CtStep == which = "containers" /\ Ct!CtNext /\ Kept4 /\ UNCHANGED vars

-----------------------------------------------------------------------------
(* Two clients of the replicated store of resources. *)
Rs == INSTANCE RestStore WITH rsMeta <- s1, rsDb <- s2, rsTx <- s3, rsLeft <- s4, rsExcused <- s5

RsRsField(n, k, of, tags) == [name |-> n, type |-> [kind |-> k, of |-> of], tags |-> tags]
MCRsStructs == <<
    [name |-> "acl", fields |-> <<RsRsField("size", "int", "", {"positive"}), RsRsField("ips", "slice", "net.IP", {}), RsRsField("note", "chan", "", {})>>],
    [name |-> "view", fields |-> <<RsRsField("name", "string", "", {"uk"}), RsRsField("acl", "string", "", {"referto"})>>],
    [name |-> "zone", fields |-> <<RsRsField("view", "string", "", {"ownby"}), RsRsField("rank", "uint8", "", {"suk"}), RsRsField("memo", "string", "", {"-"})>>],
    [name |-> "user", fields |-> <<RsRsField("id", "string", "", {})>>],
    [name |-> "view", fields |-> <<RsRsField("name", "string", "", {})>>],
    [name |-> "lone", fields |-> <<RsRsField("user", "string", "", {"ownby"})>>],
    [name |-> "zone_acl", fields |-> <<RsRsField("zone", "string", "", {"ownby"}), RsRsField("acl", "string", "", {"referto"})>>]>>
RsRow(row) == [create_time |-> 0] @@ row
MCRsRows == [acl |-> <<RsRow([id |-> 1, size |-> 1])>>,
             view |-> <<RsRow([id |-> 1, name |-> <<"a">>, acl |-> 1]), RsRow([id |-> 2, name |-> <<"a", "b">>, acl |-> 1])>>,
             zone |-> <<RsRow([id |-> 1, view |-> 1, rank |-> 1])>>,
             zone_acl |-> <<RsRow([id |-> 1, zone |-> 1, acl |-> 1])>>]
RsIns(t, i, row) == [op |-> "insert", typ |-> t, id |-> i, row |-> row]
RsDel(t, cs) == [op |-> "delete", typ |-> t, conds |-> cs]
RsUpd(t, set, cs) == [op |-> "update", typ |-> t, set |-> set, conds |-> cs]
RsAsk(o, t, cs) == [op |-> o, typ |-> t, conds |-> cs]
MCRsStatements == {
    RsIns("zone", 0, [id |-> 0, view |-> 1, rank |-> 2]), RsIns("user", 1, [id |-> 1]),
    RsDel("view", [id |-> 1]), RsDel("acl", [id |-> 1]), RsDel("zone", [view |-> 1]), RsDel("zone", [create_time |-> 1]),
    RsUpd("view", [name |-> <<"b">>], <<>>),
    RsAsk("get", "view", [name |-> {<<"a">>, <<"b">>}, match_list |-> {"name"}, orderby |-> "acl", limit |-> 1, offset |-> 0]),
    RsAsk("count", "view", [name |-> <<"b">>, search |-> {"name"}]), RsAsk("exists", "zone", [view |-> 1]),
    [op |-> "owned", typ |-> "acl", rel |-> "zone_acl", owner |-> "zone", id |-> 1]}

RsStart == which = "store" /\ Rs!RsInit /\ Free5 /\ Init
RsStep == which = "store" /\ Rs!RsNext /\ Kept5 /\ UNCHANGED vars

-----------------------------------------------------------------------------
(* The DNS records of the services of a cluster. *)
SrAbsent == [type |-> "none", ip |-> << >>, ext |-> ""]

Sr == INSTANCE ServiceRecords WITH srSvc <- s1, srEps <- s2, srCache <- s3, srWait <- s4, srSeen <- s5,
    srZone <- s6, srOdd <- s7, srChanged <- s8

SrNormal(d) == [type |-> "ClusterIP", ip |-> <<10, 1, 0, d>>, ext |-> ""]
SrHeadless == [type |-> "ClusterIP", ip |-> <<0>>, ext |-> ""]
SrExt(e) == [type |-> "ExternalName", ip |-> << >>, ext |-> e]
SrPod(h, c, d) == [host |-> h, ip |-> <<10, c, 0, d>>]
SrSub(addrs, ports) == [addrs |-> addrs, ports |-> ports]
MCSrServices == {SrNormal(1), SrHeadless, SrExt("x"), SrExt("y")}
MCSrEndpoints == {<<SrSub(<<SrPod(<< >>, 2, 1), SrPod(<<"h">>, 2, 2)>>, <<"web", "">>)>>,
                  <<SrSub(<<SrPod(<<"h">>, 2, 3), SrPod(<<"h">>, 3, 1)>>, <<"web">>), SrSub(<<SrPod(<<"h">>, 2, 2)>>, <<"db">>)>>,
                  <<SrSub(<< >>, <<"web">>)>>}
MCSrConf == [service |-> [ip |-> <<10, 1, 0, 0>>, ones |-> 16], pod |-> [ip |-> <<10, 2, 0, 0>>, ones |-> 16], server |-> <<10, 1, 0, 9>>]
SrE(x) == CHOOSE e \in MCSrEndpoints : Len(e[1].ports) = x /\ Len(e[1].addrs) = 2
MCSrStarts == {[svc |-> ("a" :> SrAbsent @@ "b" :> SrAbsent), eps |-> ("a" :> << >> @@ "b" :> << >>)],
               [svc |-> ("a" :> SrNormal(1) @@ "b" :> SrHeadless), eps |-> ("a" :> SrE(2) @@ "b" :> SrE(1))]}

SrStart == which = "records" /\ Sr!SrInit /\ Free8 /\ Init
SrStep == which = "records" /\ Sr!SrNext /\ Kept8 /\ UNCHANGED vars

-----------------------------------------------------------------------------
(* Two clients of the replicated key value store, whose nodes may fail. *)
MCKvUp == [t |-> {"t"}]

KvStart == which = "kvzoo" /\ Init /\ s1 = 0 /\ s2 = 0 /\ s3 = 0 /\ s4 = 0 /\ Free4
KvStep == which = "kvzoo" /\ Next /\ UNCHANGED <<s1, s2, s3, s4>> /\ Kept4

-----------------------------------------------------------------------------
Starts == PkStart \/ InStart \/ CtStart \/ RsStart \/ SrStart \/ KvStart

Steps == \/ PkStep
         \/ InStep
         \/ CtStep
         \/ RsStep
         \/ SrStep
         \/ KvStep

Installs == Starts /\ [][Steps]_state

(****************************** Properties *********************************)

(* The copies of the store agree once no transaction is open (RestStore).  *)
RsReplicasAgree == which = "store" => Rs!RsReplicasAgree

(* A container that was lost on the way to its new version can still be    *)
(* brought up (Containers).                                                *)
CtRecovers == which = "containers" => Ct!CtRecovers

(* A completed up leaves on every host what its roles ask for (Installer). *)
InConverges == which = "installer" => In!InConverges

(* The certificates in use are those that the nodes were told of           *)
(* (ClusterPki).                                                           *)
PkServed == which = "pki" => Pk!PkServed


(* DNS tells what the last events of the cluster say (ServiceRecords).     *)
SrSettled == which = "records" => Sr!SrSettled
=============================================================================
