------------------------------ MODULE Installer ------------------------------
(***************************************************************************)
(* zke bringing a cluster from one configuration to the next and tearing   *)
(* it down: zke/cmd/up.go and remove.go with reconcile.go, cluster.go,     *)
(* hosts.go, checkport.go, the planes of core/services and the host        *)
(* clean-up of pkg/hosts, as GaoCloud (pkg/zke) or the command line call   *)
(* them.                                                                   *)
(*                                                                         *)
(* A configuration gives every host its roles; {} is a host outside the    *)
(* cluster.  An operation runs through its stages; any stage may fail on   *)
(* one host, part of its work done, and the operation ends there with the  *)
(* error.  What the containers of one host go through inside a stage is    *)
(* the subject of Containers.                                              *)
(***************************************************************************)
EXTENDS Naturals, FiniteSets, Sequences

CONSTANTS
  InHosts,    \* the machines
  InClis,     \* the configurations the command line is given
  InOps,      \* how many operations a behaviour runs
  InFaults    \* how many stages may fail

VARIABLES
  inHost,   \* per host: its containers, certificates and Kubernetes node
  inEtcd,   \* the members etcd itself knows
  inState,  \* [cur, des, lost]: FullState and the wanted configuration; stray: hosts
            \* of the edge role alone that the command line left out
  inNet,    \* network, monitor and zcloud components are deployed
  inJob,    \* the running operation
  inLeft    \* [ops, faults]

inVars == <<inHost, inEtcd, inState, inNet, inJob, inLeft>>

Roles == {"etcd", "controlplane", "worker", "edge"}
NoConfig == [h \in InHosts |-> {}]
NoNode == [there |-> FALSE, labels |-> {}, taints |-> {}]
Bare == [run |-> {}, cert |-> FALSE, node |-> NoNode]

ControlBoxes == {"kube-apiserver", "kube-controller-manager", "kube-scheduler"}
NodeBoxes == {"kubelet", "kube-proxy", "nginx-proxy", "service-sidekick"}

(* InvertIndexHosts: the host lists of a configuration.                    *)
EtcdHosts(c) == {h \in InHosts : "etcd" \in c[h]}
ControlPlaneHosts(c) == {h \in InHosts : "controlplane" \in c[h]}
WorkerHosts(c) == {h \in InHosts : "worker" \in c[h]}
GetUniqueHostList(c) == {h \in InHosts : c[h] # {}}

GetToDeleteHosts(current, config) == current \ config
GetToAddHosts(current, config) == config \ current

-----------------------------------------------------------------------------
(* GaoCloud's checks of a new configuration (pkg/zke/validation.go).       *)
validateNodeCount(g) ==
  (\E h \in InHosts : "controlplane" \in g[h]) /\ \E h \in InHosts : "worker" \in g[h]
validateNodeNameRoleAndAddress(g) ==
  \A h \in InHosts : g[h] # {} => Cardinality(g[h] \cap {"controlplane", "worker"}) = 1
validateConfigForCreate(g) == validateNodeCount(g) /\ validateNodeNameRoleAndAddress(g)

validateCannotDeleteNode(old, new) ==
  \A h \in InHosts : "controlplane" \in old[h] => "controlplane" \in new[h]
validateNodesRoleChanage(old, new) ==
  \A h \in InHosts : (old[h] # {} /\ new[h] # {}) => old[h] = new[h]
validateConfigForUpdate(old, new) ==
  /\ validateConfigForCreate(new)
  /\ validateCannotDeleteNode(old, new)
  /\ validateNodesRoleChanage(old, new)

(* Every control plane node is an etcd node too; the user never sees it.   *)
scClusterToZKENodes(g) ==
  [h \in InHosts |-> g[h] \cup (IF "controlplane" \in g[h] THEN {"etcd"} ELSE {})]
ToScCluster(c) == [h \in InHosts |-> c[h] \ {"etcd"}]
ScClusters == [InHosts -> {{}, {"edge"}, {"controlplane"}, {"worker"},
                           {"controlplane", "worker"}}]

-----------------------------------------------------------------------------
(* What etcd and the API server need to answer.                            *)
EtcdServes(host, members) ==
  LET up == {m \in members : "etcd" \in host[m].run /\ host[m].cert}
  IN  members # {} /\ 2 * Cardinality(up) > Cardinality(members)
ApiServes(host, members) ==
  /\ EtcdServes(host, members)
  /\ \E h \in InHosts : "kube-apiserver" \in host[h].run /\ host[h].cert

(* One host's containers after a plane was removed from it (r: its roles   *)
(* in the configuration it is removed from).                               *)
RemoveWorkerPlane(s, r, force) ==
  IF "controlplane" \in r /\ ~force THEN s ELSE [s EXCEPT !.run = @ \ NodeBoxes]
RemoveControlPlane(s, force) ==
  [s EXCEPT !.run = @ \ (ControlBoxes
                         \cup (IF force THEN NodeBoxes \ {"nginx-proxy"} ELSE {}))]
RemoveEtcdPlane(s, r, force) ==
  [s EXCEPT !.run = @ \ ({"etcd"} \cup (IF "worker" \notin r \/ "controlplane" \notin r \/ force
                                       THEN NodeBoxes ELSE {}))]

(* Cleaning a host removes every container there, whoever uses it.         *)
CleanUp(s, certs) == [s EXCEPT !.run = {}, !.cert = @ /\ ~certs]
CleanUpAll(s) == CleanUp(s, TRUE)
CleanUpWorkerHost(s, r) ==
  IF r \cap {"controlplane", "etcd"} # {} THEN s ELSE CleanUp(s, TRUE)
CleanUpControlHost(s, r) ==
  IF r \cap {"worker", "etcd"} # {} THEN s ELSE CleanUp(s, TRUE)
CleanUpEtcdHost(s, r) == CleanUp(s, r \cap {"worker", "controlplane"} = {})

DeleteNode(s, hasAnotherRole) == IF hasAnotherRole THEN s ELSE [s EXCEPT !.node = NoNode]

(* reconcileHost: the removal, then the cleaning.  A failure of either is  *)
(* only warned about by the callers; "at" says how far it came.            *)
reconcileHost(s, r, plane, at) ==
  CASE at = "reach" -> s
    [] plane = "worker" ->
         IF at = "clean" THEN RemoveWorkerPlane(s, r, FALSE)
         ELSE CleanUpWorkerHost(RemoveWorkerPlane(s, r, FALSE), r)
    [] plane = "etcd" ->
         IF at = "clean" THEN RemoveEtcdPlane(s, r, FALSE)
         ELSE CleanUpEtcdHost(RemoveEtcdPlane(s, r, FALSE), r)
    [] OTHER ->
         IF at = "clean" THEN RemoveControlPlane(s, FALSE)
         ELSE CleanUpControlHost(RemoveControlPlane(s, FALSE), r)

-----------------------------------------------------------------------------
(* The containers a plane runs on a host, in the order it runs them.       *)
EtcdPlan(snap) == IF snap THEN <<"etcd", "etcd-snapshots">> ELSE <<"etcd">>
ControlPlan == <<"service-sidekick", "kube-apiserver", "kube-controller-manager",
                 "kube-scheduler">>
WorkerPlan(r) == (IF "controlplane" \in r THEN <<>> ELSE <<"nginx-proxy">>)
                 \o <<"service-sidekick", "kubelet", "kube-proxy">>
Boxes(p) == {p[i] : i \in DOMAIN p}

(* A kubelet that is started registers its node; a running one does not    *)
(* register again.                                                         *)
Starts(s, p) ==
  [s EXCEPT !.run = @ \cup Boxes(p),
            !.node = IF "kubelet" \in Boxes(p) \ s.run /\ ~@.there
                     THEN [NoNode EXCEPT !.there = TRUE] ELSE @]

(* Where a plane stops on a host when a call fails: part of it started,    *)
(* the next container perhaps lost in a broken update.                     *)
Breaks(s, p) ==
  {Starts(s, SubSeq(p, 1, k)) : k \in 0 .. Len(p) - 1}
  \cup {[Starts(s, SubSeq(p, 1, k)) EXCEPT !.run = @ \ {p[k + 1]}] : k \in 0 .. Len(p) - 1}

(* The proxy of a worker that becomes a control plane host makes room for  *)
(* the API server, which listens on the same port.                         *)
doDeployControlHost(s, r) ==
  Starts(IF "worker" \in r THEN [s EXCEPT !.run = @ \ {"nginx-proxy"}] ELSE s, ControlPlan)
doDeployWorkerPlane(s, r) == Starts(s, WorkerPlan(r))

(* Labels and taints of a node (SyncNodeLabels, SyncNodeTaints): labels    *)
(* follow the roles; a host that is no worker is tainted for its roles; a  *)
(* host that becomes a worker loses the taints of the roles it has.        *)
RoleTaints(r) == r \cap {"etcd", "controlplane"}
SyncNodeLabels(n, r) == [n EXCEPT !.labels = r]
SyncNodeTaints(n, r, added) ==
  [n EXCEPT !.taints = (IF "worker" \notin r THEN @ \cup RoleTaints(r) ELSE @)
                       \ (IF added THEN RoleTaints(r) ELSE {})]
setNodeAnnotationsLabelsTaints(s, r, added) ==
  [s EXCEPT !.node = SyncNodeTaints(SyncNodeLabels(@, r), r, added)]

-----------------------------------------------------------------------------
(* The stages of an operation, in order.  GaoCloud records the new current *)
(* state last; the command line records it before the workers are deployed *)
(* and never cleans what reconciling left.                                 *)

ClusterUpForGaoCloud ==
  <<"tunnel", "ports", "certs", "etcd", "worker", "control", "pull", "etcdplane",
    "controlplane", "authz", "workerplane", "labels", "configure", "state", "save", "clean">>
ClusterUp ==
  <<"tunnel", "ports", "certs", "etcd", "worker", "control", "pull", "etcdplane",
    "controlplane", "authz", "state", "save", "workerplane", "labels", "configure">>
CleanupNodes == <<"tunnel", "rmworker", "rmcontrol", "rmetcd", "rmclean">>

(* Variant: through GaoCloud the nodes get no labels.                      *)
StagesUnlabelled(op, via) ==
  CASE op = "remove" -> CleanupNodes
    [] via = "gaocloud" -> SelectSeq(ClusterUpForGaoCloud, LAMBDA s : s # "labels")
    [] OTHER -> ClusterUp

Stages(op, via) ==
  CASE op = "remove" -> CleanupNodes
    [] via = "gaocloud" -> ClusterUpForGaoCloud
    [] OTHER -> ClusterUp

NoJob == [op |-> "none", at |-> 0, cur |-> NoConfig, roles |-> NoConfig, new |-> FALSE,
          snap |-> TRUE, unsaved |-> {}]
Stage == IF inJob.op = "none" THEN "none" ELSE Stages(inJob.op, inState.via)[inJob.at]
Des == inState.des

(* A stage that ends well is followed by the next one or by success.       *)
Onward(job) ==
  IF job.at = Len(Stages(job.op, inState.via))
  THEN inJob' = [job EXCEPT !.op = "none", !.at = 0]
  ELSE inJob' = [job EXCEPT !.at = @ + 1]
Succeeds == inJob.op # "none" /\ inJob.at = Len(Stages(inJob.op, inState.via))

(* An error ends the operation.                                            *)
Fails == inJob' = NoJob
Fault == inLeft.faults > 0 /\ inLeft' = [inLeft EXCEPT !.faults = @ - 1]

Done(h) == [inState EXCEPT !.last = h]
EndsOk == IF Succeeds THEN Done("ok") ELSE inState
EndsBadly == [inState EXCEPT !.last = "failed", !.clean = FALSE]

-----------------------------------------------------------------------------
(* The wanted configuration changes and the operation starts: GaoCloud     *)
(* compares the new configuration with the last wanted one, the command    *)
(* line with nothing.  GaoCloud leaves etcd's rolling snapshots at their   *)
(* default, on; the command line may turn them off.                        *)
Wanted ==
  IF inState.via = "cli" THEN InClis
  ELSE {scClusterToZKENodes(g) : g \in
          {g \in ScClusters : IF Des = NoConfig THEN validateConfigForCreate(g)
                              ELSE validateConfigForUpdate(ToScCluster(Des), g)}}

Snapshots == IF inState.via = "cli" THEN BOOLEAN ELSE {TRUE}
Strays(c) ==
  {h \in InHosts : /\ inState.via = "cli" /\ c[h] = {}
                   /\ h \in inState.stray \/ inState.cur[h] = {"edge"}}

InUp ==
  /\ inJob.op = "none" /\ inLeft.ops > 0 /\ ~inState.lost
  /\ \E c \in Wanted, snap \in Snapshots :
       /\ inState' = [inState EXCEPT !.des = c, !.last = "busy", !.stray = Strays(c)]
       /\ inJob' = [op |-> "up", at |-> 1, cur |-> inState.cur, roles |-> inState.cur,
                    new |-> inState.cur = NoConfig, snap |-> snap, unsaved |-> {}]
  /\ inLeft' = [inLeft EXCEPT !.ops = @ - 1]
  /\ UNCHANGED <<inHost, inEtcd, inNet>>

(* RebuildState dereferences the state a cancelled operation lost.         *)
InUpPanics ==
  /\ inJob.op = "none" /\ inLeft.ops > 0 /\ inState.lost
  /\ inState' = EndsBadly
  /\ inLeft' = [inLeft EXCEPT !.ops = @ - 1]
  /\ UNCHANGED <<inHost, inEtcd, inNet, inJob>>

InRemove ==
  /\ inJob.op = "none" /\ inLeft.ops > 0 /\ Des # NoConfig
  /\ inState' = [inState EXCEPT !.last = "busy"]
  /\ inJob' = [NoJob EXCEPT !.op = "remove", !.at = 1]
  /\ inLeft' = [inLeft EXCEPT !.ops = @ - 1]
  /\ UNCHANGED <<inHost, inEtcd, inNet>>

(* Stages without an effect the model tells apart: reaching the hosts,     *)
(* pulling images, the authorization resources, saving the configuration   *)
(* in the cluster.                                                         *)
Reaches == Stage \in {"tunnel", "pull"}
Applies == Stage \in {"authz", "save"} /\ ApiServes(inHost, inEtcd)
InQuiet ==
  /\ Reaches \/ Applies
  /\ Onward(inJob) /\ inState' = EndsOk
  /\ UNCHANGED <<inHost, inEtcd, inNet, inLeft>>
InQuietFails ==
  /\ Stage \in {"tunnel", "pull", "authz", "save"}
  /\ Fault /\ Fails /\ inState' = EndsBadly
  /\ UNCHANGED <<inHost, inEtcd, inNet>>

-----------------------------------------------------------------------------
(* Before anything is installed the ports are tried with listener          *)
(* containers.  A failed check leaves them behind.                         *)
HostsAdded ==
  \/ inJob.new
  \/ GetToAddHosts(EtcdHosts(inJob.cur), EtcdHosts(Des)) # {}
  \/ GetToAddHosts(ControlPlaneHosts(inJob.cur), ControlPlaneHosts(Des)) # {}
  \/ GetToAddHosts(WorkerHosts(inJob.cur), WorkerHosts(Des)) # {}
Listening(h) == Des[h] \cap {"etcd", "controlplane", "worker"} # {}
deployTCPPortListeners ==
  [h \in InHosts |-> IF Listening(h) THEN [inHost[h] EXCEPT !.run = @ \cup {"listener"}]
                     ELSE inHost[h]]
removeTCPPortListeners ==
  [h \in InHosts |-> IF Listening(h) THEN [inHost[h] EXCEPT !.run = @ \ {"listener"}]
                     ELSE inHost[h]]

CheckClusterPorts ==
  /\ Stage = "ports"
  /\ inHost' = IF HostsAdded THEN removeTCPPortListeners ELSE inHost
  /\ Onward(inJob) /\ inState' = EndsOk
  /\ UNCHANGED <<inEtcd, inNet, inLeft>>
CheckClusterPortsFails ==
  /\ Stage = "ports"
  /\ Fault /\ Fails /\ inState' = EndsBadly
  /\ inHost' = IF HostsAdded THEN deployTCPPortListeners ELSE inHost
  /\ UNCHANGED <<inEtcd, inNet>>

(* Certificates go to every host of the configuration.                     *)
SetUpHosts ==
  /\ Stage = "certs"
  /\ inHost' = [h \in InHosts |-> IF Des[h] = {} THEN inHost[h]
                                  ELSE [inHost[h] EXCEPT !.cert = TRUE]]
  /\ Onward(inJob) /\ inState' = EndsOk
  /\ UNCHANGED <<inEtcd, inNet, inLeft>>
SetUpHostsFails ==
  /\ Stage = "certs"
  /\ Fault /\ Fails /\ inState' = EndsBadly
  /\ \E x \in GetUniqueHostList(Des) :
       inHost' = [h \in InHosts |-> IF Des[h] = {} \/ h = x THEN inHost[h]
                                    ELSE [inHost[h] EXCEPT !.cert = TRUE]]
  /\ UNCHANGED <<inEtcd, inNet>>

-----------------------------------------------------------------------------
(* reconcileEtcd.  First the members that left: unregister, delete the     *)
(* node, clean the host; a failure skips the rest for that host.  "fault"  *)
(* is <<host, where>>, or names no host.                                   *)
NoFault == <<"nobody", "nowhere">>

RemoveEtcdMember(h) ==
  /\ h \in inEtcd
  /\ EtcdServes(inHost, inEtcd)
  /\ \E g \in EtcdHosts(Des) : "etcd" \in inHost[g].run
EtcdToDelete == GetToDeleteHosts(EtcdHosts(inJob.cur), EtcdHosts(Des))
Unregistered(fault) ==
  {h \in EtcdToDelete : RemoveEtcdMember(h) /\ fault # <<h, "member">>}

EtcdHostAfter(h, fault) ==
  LET r == inJob.roles[h]
      node == "controlplane" \in r \/ (ApiServes(inHost, inEtcd) /\ fault # <<h, "node">>)
  IN  CASE h \notin Unregistered(fault) -> inHost[h]
        [] ~node -> inHost[h]
        [] OTHER -> reconcileHost(DeleteNode(inHost[h], "controlplane" \in r), r, "etcd",
                                  IF fault[1] = h THEN fault[2] ELSE "done")

(* Then the new members, one at a time: register with a running member,    *)
(* start the container, wait for it.                                       *)
EtcdToAdd == GetToAddHosts(EtcdHosts(inJob.cur), EtcdHosts(Des))
IsEtcdMember(host, members) ==
  \E g \in EtcdHosts(Des) \ EtcdToAdd : "etcd" \in host[g].run /\ g \in members
AddEtcdMember(host, members) == EtcdServes(host, members) \/ EtcdToAdd \subseteq members
ReloadEtcdCluster(host, done) ==
  [h \in InHosts |-> IF h \in done THEN [host[h] EXCEPT !.run = @ \cup {"etcd"}] ELSE host[h]]

EtcdFaults ==
  {NoFault} \cup (IF inLeft.faults = 0 THEN {}
                  ELSE EtcdToDelete \X {"member", "node", "reach", "clean"})
Spend(fault) ==
  inLeft' = IF fault = NoFault THEN inLeft ELSE [inLeft EXCEPT !.faults = @ - 1]
Blamed(fault) ==
  IF fault = NoFault THEN EndsOk ELSE [EndsOk EXCEPT !.clean = FALSE]

reconcileEtcd ==
  /\ Stage = "etcd"
  /\ \E fault \in EtcdFaults :
       LET host == [h \in InHosts |-> EtcdHostAfter(h, fault)]
           members == inEtcd \ Unregistered(fault)
       IN  /\ \/ EtcdToAdd = {} \/ inJob.new
              \/ (IsEtcdMember(host, members) /\ AddEtcdMember(host, members))
           /\ inHost' = IF inJob.new THEN inHost ELSE ReloadEtcdCluster(host, EtcdToAdd)
           /\ inEtcd' = IF inJob.new THEN inEtcd ELSE members \cup EtcdToAdd
           /\ Spend(fault)
           /\ inState' = Blamed(fault)
  /\ Onward(inJob)
  /\ UNCHANGED inNet

(* No member answers, or a call fails after some hosts were added.         *)
reconcileEtcdFails ==
  /\ Stage = "etcd" /\ ~inJob.new /\ EtcdToAdd # {}
  /\ LET host == [h \in InHosts |-> EtcdHostAfter(h, NoFault)]
         members == inEtcd \ Unregistered(NoFault)
     IN  IF IsEtcdMember(host, members) /\ AddEtcdMember(host, members)
         THEN \E x \in EtcdToAdd : \E done \in SUBSET (EtcdToAdd \ {x}) :
                /\ inHost' = ReloadEtcdCluster(host, done)
                /\ inEtcd' \in {members \cup done, members \cup done \cup {x}}
                /\ Fault
         ELSE inHost' = host /\ inEtcd' = members /\ UNCHANGED inLeft
  /\ Fails /\ inState' = EndsBadly
  /\ UNCHANGED inNet

-----------------------------------------------------------------------------
(* reconcileWorker: deleting a node that is no control plane node needs    *)
(* the API server, and its failure ends the operation; a host that cannot  *)
(* be cleaned is only warned about.                                        *)
WpToDelete == GetToDeleteHosts(WorkerHosts(inJob.cur), WorkerHosts(Des))
WithoutWorker == [h \in InHosts |-> IF h \in WpToDelete THEN inJob.roles[h] \ {"worker"}
                                    ELSE inJob.roles[h]]
NodesDeletable(hs, other) ==
  ApiServes(inHost, inEtcd) \/ \A h \in hs : other \in inJob.roles[h]
HostFaults(hs) ==
  {NoFault} \cup (IF inLeft.faults = 0 THEN {} ELSE hs \X {"reach", "clean"})
At(fault, h) == IF fault[1] = h THEN fault[2] ELSE "done"

WorkerHostAfter(h, fault) ==
  LET r == WithoutWorker[h]
  IN  reconcileHost(DeleteNode(inHost[h], "controlplane" \in r), r, "worker", At(fault, h))

reconcileWorker ==
  /\ Stage = "worker"
  /\ NodesDeletable(WpToDelete, "controlplane")
  /\ \E fault \in HostFaults(WpToDelete) :
       /\ inHost' = [h \in InHosts |-> IF h \in WpToDelete THEN WorkerHostAfter(h, fault)
                                       ELSE inHost[h]]
       /\ Spend(fault)
       /\ inState' = Blamed(fault)
  /\ Onward([inJob EXCEPT !.roles = WithoutWorker])
  /\ UNCHANGED <<inEtcd, inNet>>
reconcileWorkerFails ==
  /\ Stage = "worker"
  /\ IF NodesDeletable(WpToDelete, "controlplane")
     THEN /\ Fault
          /\ \E done \in SUBSET WpToDelete :
               inHost' = [h \in InHosts |-> IF h \in done THEN WorkerHostAfter(h, NoFault)
                                            ELSE inHost[h]]
     ELSE UNCHANGED <<inHost, inLeft>>
  /\ Fails /\ inState' = EndsBadly
  /\ UNCHANGED <<inEtcd, inNet>>

(* cleanControlNode, for the control plane hosts that left; when all of    *)
(* them left it waits until the new ones are up (SyncLabelsAndTaints).     *)
CpToDelete == GetToDeleteHosts(ControlPlaneHosts(inJob.cur), ControlPlaneHosts(Des))
AllControlLeft == CpToDelete = ControlPlaneHosts(inJob.cur)
cleanControlNode(h, fault) ==
  LET r == inJob.roles[h]
  IN  reconcileHost(DeleteNode(inHost[h], "worker" \in r), r, "control", At(fault, h))
Controls(hs, fault) ==
  [h \in InHosts |-> IF h \in hs THEN cleanControlNode(h, fault) ELSE inHost[h]]

reconcileControl ==
  /\ Stage = "control"
  /\ LET hs == IF AllControlLeft THEN {} ELSE CpToDelete
     IN  /\ NodesDeletable(hs, "worker")
         /\ \E fault \in HostFaults(hs) :
              inHost' = Controls(hs, fault) /\ Spend(fault) /\ inState' = Blamed(fault)
  /\ Onward(inJob)
  /\ UNCHANGED <<inEtcd, inNet>>
reconcileControlFails ==
  /\ Stage = "control"
  /\ LET hs == IF AllControlLeft THEN {} ELSE CpToDelete
     IN  IF NodesDeletable(hs, "worker")
         THEN Fault /\ \E done \in SUBSET hs : inHost' = Controls(done, NoFault)
         ELSE UNCHANGED <<inHost, inLeft>>
  /\ Fails /\ inState' = EndsBadly
  /\ UNCHANGED <<inEtcd, inNet>>

-----------------------------------------------------------------------------
(* The planes: etcd host by host, the others with one goroutine per host,  *)
(* which all finish; one that fails fails the stage.  The first start of   *)
(* etcd fixes its members.  A snapshot container that is found exited or   *)
(* restarting after its start is removed, which is no error; one that is   *)
(* not wanted is removed.                                                  *)
Bootstrap == IF inEtcd = {} THEN EtcdHosts(Des) ELSE inEtcd
RunEtcdSnapshotSave(s, saves) ==
  IF saves THEN s ELSE [s EXCEPT !.run = @ \ {"etcd-snapshots"}]
EtcdRuns(hs, broken) ==
  [h \in InHosts |-> IF h \in hs
                     THEN RunEtcdSnapshotSave(Starts(inHost[h], EtcdPlan(inJob.snap)),
                                              inJob.snap /\ h \notin broken)
                     ELSE inHost[h]]
BrokenSnapshots ==
  {{}} \cup (IF inJob.snap /\ inLeft.faults > 0 THEN {{h} : h \in EtcdHosts(Des)} ELSE {})
RunEtcdPlane ==
  /\ Stage = "etcdplane"
  /\ \E broken \in BrokenSnapshots :
       /\ EtcdServes(EtcdRuns(EtcdHosts(Des), broken), Bootstrap)
       /\ inHost' = EtcdRuns(EtcdHosts(Des), broken) /\ inEtcd' = Bootstrap
       /\ inLeft' = [inLeft EXCEPT !.faults = @ - Cardinality(broken)]
       /\ Onward([inJob EXCEPT !.unsaved = broken])
  /\ inState' = EndsOk
  /\ UNCHANGED inNet
(* A container fails on one host, the call after its last one does, or the *)
(* wait for a healthy member is cut.                                       *)
RunEtcdPlaneFails ==
  /\ Stage = "etcdplane"
  /\ Fault /\ Fails /\ inState' = EndsBadly
  /\ \/ \E done \in SUBSET EtcdHosts(Des) : inHost' = EtcdRuns(done, {})
     \/ \E x \in EtcdHosts(Des) : \E done \in SUBSET (EtcdHosts(Des) \ {x}) :
          \E s \in Breaks(inHost[x], EtcdPlan(inJob.snap)) :
            inHost' = [EtcdRuns(done, {}) EXCEPT ![x] = s]
  /\ inEtcd' = IF \E h \in InHosts : "etcd" \in inHost'[h].run THEN Bootstrap ELSE inEtcd
  /\ UNCHANGED inNet

ControlRuns ==
  [h \in InHosts |-> IF "controlplane" \in Des[h] THEN doDeployControlHost(inHost[h], Des[h])
                     ELSE inHost[h]]
Healthy(hs) == EtcdServes(inHost, inEtcd) /\ \A h \in hs : inHost[h].cert
PortsFree == \A h \in ControlPlaneHosts(Des) : "nginx-proxy" \notin ControlRuns[h].run
RunControlPlane ==
  /\ Stage = "controlplane"
  /\ Healthy(ControlPlaneHosts(Des)) /\ PortsFree
  /\ inHost' = ControlRuns
  /\ Onward(inJob) /\ inState' = EndsOk
  /\ UNCHANGED <<inEtcd, inNet, inLeft>>
RunControlPlaneFails ==
  /\ Stage = "controlplane"
  /\ Fault /\ Fails /\ inState' = EndsBadly
  /\ \E x \in ControlPlaneHosts(Des) : \E s \in Breaks(inHost[x], ControlPlan) :
       inHost' = [ControlRuns EXCEPT ![x] = s]
  /\ UNCHANGED <<inEtcd, inNet>>

WorkerRuns ==
  [h \in InHosts |-> IF Des[h] # {} THEN doDeployWorkerPlane(inHost[h], Des[h]) ELSE inHost[h]]
RunWorkerPlane ==
  /\ Stage = "workerplane"
  /\ Healthy(GetUniqueHostList(Des))
  /\ inHost' = WorkerRuns
  /\ Onward(inJob) /\ inState' = EndsOk
  /\ UNCHANGED <<inEtcd, inNet, inLeft>>
RunWorkerPlaneFails ==
  /\ Stage = "workerplane"
  /\ Fault /\ Fails /\ inState' = EndsBadly
  /\ \E x \in GetUniqueHostList(Des) : \E s \in Breaks(inHost[x], WorkerPlan(Des[x])) :
       inHost' = [WorkerRuns EXCEPT ![x] = s]
  /\ UNCHANGED <<inEtcd, inNet>>

-----------------------------------------------------------------------------
(* SyncLabelsAndTaints: a node that is not registered fails the stage once *)
(* its retries are used up.                                                *)
Added(h) == ~inJob.new /\ h \in GetToAddHosts(WorkerHosts(inJob.cur), WorkerHosts(Des))
Left == IF inJob.new \/ ~AllControlLeft THEN {} ELSE CpToDelete
Synced(host, hs) ==
  [h \in InHosts |-> IF h \in hs THEN setNodeAnnotationsLabelsTaints(host[h], Des[h], Added(h))
                     ELSE host[h]]
Registered(host) == \A h \in GetUniqueHostList(Des) : host[h].node.there

SyncLabelsAndTaints ==
  /\ Stage = "labels"
  /\ ApiServes(inHost, inEtcd)
  /\ \E fault \in HostFaults(Left) :
       LET host == Controls(Left, fault)
       IN  /\ ApiServes(host, inEtcd) /\ Registered(host)
           /\ inHost' = Synced(host, GetUniqueHostList(Des))
           /\ Spend(fault) /\ inState' = Blamed(fault)
  /\ Onward(inJob)
  /\ UNCHANGED <<inEtcd, inNet>>
SyncLabelsAndTaintsFails ==
  /\ Stage = "labels"
  /\ LET host == Controls(Left, NoFault)
     IN  IF ApiServes(inHost, inEtcd) /\ ApiServes(host, inEtcd) /\ Registered(host)
         THEN Fault /\ \E done \in SUBSET GetUniqueHostList(Des) : inHost' = Synced(host, done)
         ELSE inHost' = host /\ UNCHANGED inLeft
  /\ Fails /\ inState' = EndsBadly
  /\ UNCHANGED <<inEtcd, inNet>>

(* The components of a new cluster; an existing one only gets its proxy    *)
(* and its load balancer controller again.                                 *)
ConfigureCluster ==
  /\ Stage = "configure"
  /\ ApiServes(inHost, inEtcd)
  /\ inNet' = (inNet \/ inJob.new)
  /\ Onward(inJob) /\ inState' = EndsOk
  /\ UNCHANGED <<inHost, inEtcd, inLeft>>
ConfigureClusterFails ==
  /\ Stage = "configure"
  /\ Fault /\ Fails /\ inState' = EndsBadly
  /\ UNCHANGED <<inHost, inEtcd, inNet>>

(* The configuration becomes the current one; GaoCloud's cancelled         *)
(* operation gets no state back and saves that.                            *)
UpdateClusterCurrentState ==
  /\ Stage = "state"
  /\ inState' = [EndsOk EXCEPT !.cur = Des]
  /\ Onward(inJob)
  /\ UNCHANGED <<inHost, inEtcd, inNet, inLeft>>
UpdateClusterCurrentStateFails ==
  /\ Stage = "state"
  /\ Fault /\ Fails
  /\ inState' = [EndsBadly EXCEPT !.lost = inState.via = "gaocloud"]
  /\ UNCHANGED <<inHost, inEtcd, inNet>>

(* Hosts of the former configuration that are in no list of the new one.   *)
ToClean == IF inJob.new THEN {}
           ELSE GetToDeleteHosts(GetUniqueHostList(inJob.cur), GetUniqueHostList(Des))
Cleaned(hs) == [h \in InHosts |-> IF h \in hs THEN CleanUpAll(inHost[h]) ELSE inHost[h]]
postCleanToDeleteHosts ==
  /\ Stage = "clean"
  /\ inHost' = Cleaned(ToClean)
  /\ Onward(inJob) /\ inState' = EndsOk
  /\ UNCHANGED <<inEtcd, inNet, inLeft>>
postCleanToDeleteHostsFails ==
  /\ Stage = "clean"
  /\ Fault /\ Fails /\ inState' = EndsBadly
  /\ \E x \in ToClean : inHost' = Cleaned(ToClean \ {x})
  /\ UNCHANGED <<inEtcd, inNet>>

-----------------------------------------------------------------------------
(* Tearing the wanted configuration down, plane after plane.               *)
PlaneHosts ==
  CASE Stage = "rmworker" -> WorkerHosts(Des)
    [] Stage = "rmcontrol" -> ControlPlaneHosts(Des)
    [] Stage = "rmetcd" -> EtcdHosts(Des)
    [] OTHER -> GetUniqueHostList(Des)
Torn(h) ==
  CASE Stage = "rmworker" -> RemoveWorkerPlane(inHost[h], Des[h], TRUE)
    [] Stage = "rmcontrol" -> RemoveControlPlane(inHost[h], TRUE)
    [] Stage = "rmetcd" -> RemoveEtcdPlane(inHost[h], Des[h], TRUE)
    [] OTHER -> CleanUpAll(inHost[h])
Tears(but) ==
  [h \in InHosts |-> IF h \in PlaneHosts \ but THEN Torn(h) ELSE inHost[h]]

ClusterRemove ==
  /\ Stage \in {"rmworker", "rmcontrol", "rmetcd", "rmclean"}
  /\ inHost' = IF Succeeds THEN [h \in InHosts |-> [Tears({})[h] EXCEPT !.node = NoNode]]
               ELSE Tears({})
  /\ inEtcd' = IF Succeeds THEN {} ELSE inEtcd
  /\ inNet' = (inNet /\ ~Succeeds)
  /\ inState' = IF Succeeds
                THEN [EndsOk EXCEPT !.cur = NoConfig, !.des = NoConfig, !.lost = FALSE,
                                    !.last = "removed"]
                ELSE inState
  /\ Onward(inJob)
  /\ UNCHANGED inLeft
ClusterRemoveFails ==
  /\ Stage \in {"rmworker", "rmcontrol", "rmetcd", "rmclean"}
  /\ Fault /\ Fails /\ inState' = EndsBadly
  /\ \E x \in PlaneHosts : inHost' = Tears({x})
  /\ UNCHANGED <<inEtcd, inNet>>

-----------------------------------------------------------------------------
InInit ==
  /\ inHost = [h \in InHosts |-> Bare]
  /\ inEtcd = {}
  /\ \E via \in {"gaocloud", "cli"} :
       inState = [via |-> via, cur |-> NoConfig, des |-> NoConfig, lost |-> FALSE,
                  last |-> "none", clean |-> TRUE, stray |-> {}]
  /\ inNet = FALSE
  /\ inJob = NoJob
  /\ inLeft = [ops |-> InOps, faults |-> InFaults]

InNext ==
  \/ InUp \/ InUpPanics \/ InRemove \/ InQuiet \/ InQuietFails
  \/ CheckClusterPorts \/ CheckClusterPortsFails \/ SetUpHosts \/ SetUpHostsFails
  \/ reconcileEtcd \/ reconcileEtcdFails \/ reconcileWorker \/ reconcileWorkerFails
  \/ reconcileControl \/ reconcileControlFails
  \/ RunEtcdPlane \/ RunEtcdPlaneFails \/ RunControlPlane \/ RunControlPlaneFails
  \/ RunWorkerPlane \/ RunWorkerPlaneFails
  \/ SyncLabelsAndTaints \/ SyncLabelsAndTaintsFails
  \/ ConfigureCluster \/ ConfigureClusterFails
  \/ UpdateClusterCurrentState \/ UpdateClusterCurrentStateFails
  \/ postCleanToDeleteHosts \/ postCleanToDeleteHostsFails
  \/ ClusterRemove \/ ClusterRemoveFails

InSpec == InInit /\ [][InNext]_inVars

-----------------------------------------------------------------------------
CallsFor(r, snap) ==
  (IF "etcd" \in r THEN Boxes(EtcdPlan(snap)) ELSE {})
  \cup (IF "controlplane" \in r THEN ControlBoxes ELSE {})
  \cup (IF r = {} THEN {} ELSE Boxes(WorkerPlan(r)))
Calls(h) == CallsFor(Des[h], inJob.snap /\ h \notin inJob.unsaved)

(* An operation that reports success did its work, whatever failed before: *)
(* every wanted host has its certificates and runs every container its     *)
(* roles call for, with its node labelled for those roles; an etcd host    *)
(* runs the snapshot container exactly if snapshots are wanted and it was  *)
(* not found broken after its start (then it was removed and success       *)
(* reported all the same).  Through GaoCloud the components are deployed,  *)
(* the hosts that left run nothing and a worker has no taint of its own    *)
(* roles.  If nothing has ever failed the match is exact on every host: no *)
(* container of a role it lost, no forgotten etcd member, no node of a     *)
(* host that left.  The exception is a host of the edge role alone that    *)
(* the command line left out: reconciling looks at the etcd, control plane *)
(* and worker lists only, so its containers and its node stay.             *)
InConverges ==
  inState.last = "ok" =>
    /\ \A h \in GetUniqueHostList(Des) :
         /\ Calls(h) \subseteq inHost[h].run
         /\ "etcd" \in Des[h] => ("etcd-snapshots" \in inHost[h].run
                                   <=> "etcd-snapshots" \in Calls(h))
         /\ inHost[h].cert
         /\ inHost[h].node.there /\ inHost[h].node.labels = Des[h]
         /\ ("worker" \in Des[h] /\ (inState.via = "gaocloud" \/ inState.clean))
              => inHost[h].node.taints \cap Des[h] = {}
    /\ inState.via = "gaocloud" =>
         inNet /\ \A h \in InHosts : inJob.cur[h] # {} /\ Des[h] = {} => inHost[h].run = {}
    /\ inState.clean =>
         /\ inEtcd = EtcdHosts(Des) /\ inNet
         /\ \A h \in InHosts \ inState.stray :
              inHost[h].run = Calls(h) /\ inHost[h].node.there = (Des[h] # {})
=============================================================================
