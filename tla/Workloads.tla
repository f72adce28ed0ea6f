------------------------------ MODULE Workloads ------------------------------
(***************************************************************************)
(* The handlers of deployments, daemon sets and stateful sets, and of the  *)
(* claims and volumes they use (pkg/handler: deployment_manager.go,        *)
(* daemonset_manager.go, statefulset_manager.go, podtemplate.go,           *)
(* pvc_manager.go, pv_manager.go): each request is a series of calls of    *)
(* the Kubernetes API, other requests run in between, any call may fail.   *)
(*                                                                         *)
(* A claim is bound to a volume of its own as soon as it exists.  A claim  *)
(* of a stateful set is made by Kubernetes, one for its pod, and named     *)
(* after both; those of the other kinds are made by the handler.  A claim  *)
(* or volume being deleted counts as gone, although Kubernetes keeps it    *)
(* until the last pod that mounts it is gone.                              *)
(***************************************************************************)
EXTENDS Integers, Sequences, FiniteSets

CONSTANTS WlNames,       \* workloads
          WlKindOf,      \* name -> "deployment", "daemonset" or "statefulset"
          WlClaimNames, WlLists,  \* names of claims, and the lists of them requests have
          WlThreads, WlMaxOps, WlMaxFaults

(* A request lists names of claims. *)
WlSetting == WlLists \subseteq Seq(WlClaimNames)
ASSUME WlAssumption == WlSetting

VARIABLES
  objs,       \* [WlNames -> Absent or the workload]
  claims,     \* claims there are
  volumes,    \* volumes there are, named after their claims
  wlOp,       \* [thread -> its operation]
  maker,      \* claim -> the number of the operation that made it
  wlDone,     \* numbers of the creations that succeeded
  wlEvents,   \* workloads whose delete event was published
  wlOps, wlFaults

wlVars == <<objs, claims, volumes, wlOp, maker, wlDone, wlEvents, wlOps, wlFaults>>

Absent == [exists |-> FALSE]
WlIdle == [at |-> "idle", n |-> 0]
None == 0
NoOwner == ""  \* what stands for the stateful set in the name of a handler's claim

Of(kind) == {w \in WlNames : WlKindOf[w] = kind}

(* The claims a workload's pods mount, for the template list ts. *)
Mounted(w, ts) == {<<ts[k], IF WlKindOf[w] = "statefulset" THEN w ELSE NoOwner>> : k \in DOMAIN ts}

(* A set in the order in which it happens to be read. *)
WlInOrder(S) == CHOOSE q \in [1 .. Cardinality(S) -> S] : \A i, j \in DOMAIN q : q[i] = q[j] => i = j

AllClaims == {<<c, w>> : c \in WlClaimNames, w \in WlNames \cup {NoOwner}}

WlInit ==
  /\ objs = [w \in WlNames |-> Absent]
  /\ claims = {} /\ volumes = {}
  /\ wlOp = [t \in WlThreads |-> WlIdle]
  /\ maker = [c \in AllClaims |-> None]
  /\ wlDone = {} /\ wlEvents = {}
  /\ wlOps = 0 /\ wlFaults = 0

Start(t, op) ==
  /\ wlOp[t] = WlIdle /\ wlOps < WlMaxOps
  /\ wlOps' = wlOps + 1
  /\ wlOp' = [wlOp EXCEPT ![t] = op]

Goto(t, at) == wlOp' = [wlOp EXCEPT ![t].at = at]

(* Create: the request is converted; claims are made next, but for a       *)
(* stateful set, whose claim templates go with the object.                 *)
createPodTempateSpec(t, kind) ==
  \E w \in Of(kind), ts \in WlLists, purge \in BOOLEAN :
    /\ Start(t, [at |-> IF kind = "statefulset" THEN "create" ELSE "claims", n |-> wlOps + 1,
                 w |-> w, ts |-> ts, purge |-> purge, i |-> 1, todo |-> <<>>])
    /\ UNCHANGED <<objs, claims, volumes, maker, wlDone, wlEvents, wlFaults>>

(* createPVCs makes one claim; when that fails, all of the list is         *)
(* deleted, also claims that were there before.                            *)
createPVCs(t) ==
  LET o == wlOp[t]
      c == <<o.ts[o.i], NoOwner>>
  IN /\ o.at = "claims"
     /\ \/ /\ o.i > Len(o.ts)
           /\ Goto(t, "create")
           /\ UNCHANGED <<claims, volumes, maker>>
        \/ /\ o.i <= Len(o.ts) /\ c \notin claims
           /\ claims' = claims \cup {c} /\ volumes' = volumes \cup {c}
           /\ maker' = [maker EXCEPT ![c] = o.n]
           /\ wlOp' = [wlOp EXCEPT ![t].i = @ + 1]
        \/ /\ o.i <= Len(o.ts) /\ c \in claims
           /\ wlOp' = [wlOp EXCEPT ![t].at = "deletePVC", ![t].todo = [k \in DOMAIN o.ts |-> <<o.ts[k], NoOwner>>]]
           /\ UNCHANGED <<claims, volumes, maker>>
     /\ UNCHANGED <<objs, wlDone, wlEvents, wlOps, wlFaults>>

(* Variant: when the object cannot be made, the claims stay. *)
CreateKeepsClaims(t, kind) ==
  LET o == wlOp[t] IN
  /\ o.at = "create" /\ WlKindOf[o.w] = kind
  /\ \/ /\ ~objs[o.w].exists
        /\ objs' = [objs EXCEPT ![o.w] = [exists |-> TRUE, ts |-> o.ts, purge |-> o.purge, version |-> 1,
                                         replicas |-> 1, history |-> <<o.ts>>]]
        /\ wlDone' = wlDone \cup {o.n}
        /\ wlOp' = [wlOp EXCEPT ![t] = WlIdle]
     \/ /\ objs[o.w].exists
        /\ wlOp' = [wlOp EXCEPT ![t] = WlIdle]
        /\ UNCHANGED <<objs, wlDone>>
  /\ UNCHANGED <<claims, volumes, maker, wlEvents, wlOps, wlFaults>>

(* createDeployment, createDaemonSet, createStatefulSet: the object is     *)
(* made last; the claims are deleted again when that fails.                *)
createWorkload(t, kind) ==
  LET o == wlOp[t] IN
  /\ o.at = "create" /\ WlKindOf[o.w] = kind
  /\ \/ /\ ~objs[o.w].exists
        /\ objs' = [objs EXCEPT ![o.w] = [exists |-> TRUE, ts |-> o.ts, purge |-> o.purge, version |-> 1,
                                         replicas |-> 1, history |-> <<o.ts>>]]
        /\ wlDone' = wlDone \cup {o.n}
        /\ wlOp' = [wlOp EXCEPT ![t] = WlIdle]
     \/ /\ objs[o.w].exists
        /\ wlOp' = IF kind = "statefulset" THEN [wlOp EXCEPT ![t] = WlIdle]
                   ELSE [wlOp EXCEPT ![t].at = "deletePVC", ![t].todo = [k \in DOMAIN o.ts |-> <<o.ts[k], NoOwner>>]]
        /\ UNCHANGED <<objs, wlDone>>
  /\ UNCHANGED <<claims, volumes, maker, wlEvents, wlOps, wlFaults>>

(* Kubernetes makes the claims of a stateful set from its templates. *)
StatefulSetClaims ==
  \E w \in WlNames :
    /\ objs[w].exists /\ WlKindOf[w] = "statefulset"
    /\ ~(Mounted(w, objs[w].history[1]) \subseteq claims)
    /\ claims' = claims \cup Mounted(w, objs[w].history[1])
    /\ volumes' = volumes \cup Mounted(w, objs[w].history[1])
    /\ UNCHANGED <<objs, wlOp, maker, wlDone, wlEvents, wlOps, wlFaults>>

(* deletePVC takes one claim of a list: read it, delete it, delete its     *)
(* volume; a claim that cannot be read is passed over.                     *)
deletePVC(t) ==
  LET o == wlOp[t] IN
  /\ o.at = "deletePVC"
  /\ \/ /\ o.todo = <<>>
        /\ wlOp' = [wlOp EXCEPT ![t] = WlIdle]
        /\ UNCHANGED <<claims, volumes, maker>>
     \/ /\ o.todo # <<>>
        /\ IF Head(o.todo) \in claims
           THEN /\ claims' = claims \ {Head(o.todo)}
                /\ volumes' = volumes \ {Head(o.todo)}
                /\ maker' = [maker EXCEPT ![Head(o.todo)] = None]
           ELSE UNCHANGED <<claims, volumes, maker>>
        /\ wlOp' = [wlOp EXCEPT ![t].todo = Tail(@)]
  /\ UNCHANGED <<objs, wlDone, wlEvents, wlOps, wlFaults>>

(* Update reads the object, replaces containers and volumes, and writes    *)
(* it if it has not changed; claims of the request are not made.           *)
updateWorkload(t, kind) ==
  \E w \in Of(kind), ts \in WlLists :
    /\ objs[w].exists
    /\ Start(t, [at |-> "update", n |-> wlOps + 1, w |-> w, ts |-> ts, version |-> objs[w].version])
    /\ UNCHANGED <<objs, claims, volumes, maker, wlDone, wlEvents, wlFaults>>

WriteUpdate(t) ==
  LET o == wlOp[t] IN
  /\ o.at = "update"
  /\ IF objs[o.w].exists /\ objs[o.w].version = o.version
     THEN objs' = [objs EXCEPT ![o.w].ts = o.ts, ![o.w].version = @ + 1, ![o.w].history = Append(@, o.ts)]
     ELSE UNCHANGED objs
  /\ wlOp' = [wlOp EXCEPT ![t] = WlIdle]
  /\ UNCHANGED <<claims, volumes, maker, wlDone, wlEvents, wlOps, wlFaults>>

(* rollback patches the template with an older one, whatever happened      *)
(* since the object was read; not with the current version.                *)
rollback(t, kind) ==
  \E w \in Of(kind) :
    /\ wlOp[t] = WlIdle /\ wlOps < WlMaxOps /\ wlOps' = wlOps + 1
    /\ objs[w].exists
    /\ \E v \in 1..(Len(objs[w].history) - 1) :
         objs' = [objs EXCEPT ![w].ts = objs[w].history[v], ![w].version = @ + 1,
                              ![w].history = Append(@, objs[w].history[v])]
    /\ UNCHANGED <<claims, volumes, wlOp, maker, wlDone, wlEvents, wlFaults>>

(* setPodCount patches only when the number differs.                       *)
setPodCount(t, kind) ==
  \E w \in Of(kind), n \in 0..2 :
    /\ wlOp[t] = WlIdle /\ wlOps < WlMaxOps /\ wlOps' = wlOps + 1
    /\ objs[w].exists
    /\ objs' = IF objs[w].replicas = n THEN objs
               ELSE [objs EXCEPT ![w].replicas = n, ![w].version = @ + 1]
    /\ UNCHANGED <<claims, volumes, wlOp, maker, wlDone, wlEvents, wlFaults>>

(* Delete reads the object (and the pods of a stateful set), deletes it,   *)
(* deletes the claims if the object asks for it, and publishes the event.  *)
deleteWorkload(t, kind) ==
  \E w \in Of(kind) :
    /\ objs[w].exists
    /\ Start(t, [at |-> "delete", n |-> wlOps + 1, w |-> w, purge |-> objs[w].purge,
                 todo |-> WlInOrder(Mounted(w, objs[w].ts))])
    /\ UNCHANGED <<objs, claims, volumes, maker, wlDone, wlEvents, wlFaults>>

DoDelete(t) ==
  LET o == wlOp[t] IN
  /\ o.at = "delete"
  /\ IF objs[o.w].exists
     THEN /\ objs' = [objs EXCEPT ![o.w] = Absent]
          /\ wlOp' = IF o.purge THEN [wlOp EXCEPT ![t].at = "deletePVC"] ELSE [wlOp EXCEPT ![t] = WlIdle]
          /\ wlEvents' = wlEvents \cup {o.w}
     ELSE wlOp' = [wlOp EXCEPT ![t] = WlIdle] /\ UNCHANGED <<objs, wlEvents>>
  /\ UNCHANGED <<claims, volumes, maker, wlDone, wlOps, wlFaults>>

(* The pods there are mount these claims. *)
InUse == UNION {IF objs[w].exists THEN Mounted(w, objs[w].ts) ELSE {} : w \in WlNames}

(* A claim is deleted by request: first the pods are looked at. *)
isUsed(t) ==
  \E c \in claims :
    /\ c \notin InUse
    /\ Start(t, [at |-> "deleteClaim", n |-> wlOps + 1, c |-> c])
    /\ UNCHANGED <<objs, claims, volumes, maker, wlDone, wlEvents, wlFaults>>

deletePersistentVolumeClaim(t) ==
  /\ wlOp[t].at = "deleteClaim"
  /\ claims' = claims \ {wlOp[t].c}
  /\ maker' = [maker EXCEPT ![wlOp[t].c] = None]
  /\ wlOp' = [wlOp EXCEPT ![t] = WlIdle]
  /\ UNCHANGED <<objs, volumes, wlDone, wlEvents, wlOps, wlFaults>>

(* A volume is deleted by request, used or not. *)
deletePersistentVolume(t) ==
  /\ wlOp[t] = WlIdle /\ wlOps < WlMaxOps /\ wlOps' = wlOps + 1
  /\ \E v \in volumes : volumes' = volumes \ {v}
  /\ UNCHANGED <<objs, claims, wlOp, maker, wlDone, wlEvents, wlFaults>>

(* A call of the API fails: a creation undoes its claims, a cleanup goes   *)
(* on with the next claim, any other operation ends.                       *)
WlFail(t) ==
  LET o == wlOp[t] IN
  /\ o.at # "idle" /\ wlFaults < WlMaxFaults
  /\ wlFaults' = wlFaults + 1
  /\ wlOp' = CASE o.at \in {"claims", "create"} /\ WlKindOf[o.w] # "statefulset" ->
                    [wlOp EXCEPT ![t].at = "deletePVC", ![t].todo = [k \in DOMAIN o.ts |-> <<o.ts[k], NoOwner>>]]
               [] o.at = "deletePVC" /\ o.todo # <<>> -> [wlOp EXCEPT ![t].todo = Tail(@)]
               [] OTHER -> [wlOp EXCEPT ![t] = WlIdle]
  /\ UNCHANGED <<objs, claims, volumes, maker, wlDone, wlEvents, wlOps>>

(* The handlers of the three kinds; a daemon set has no number of pods.    *)
DeploymentCreate(t) == createPodTempateSpec(t, "deployment")
createDeployment(t) == createWorkload(t, "deployment")
DeploymentUpdate(t) == updateWorkload(t, "deployment")
DeploymentRollback(t) == rollback(t, "deployment")
DeploymentSetPodCount(t) == setPodCount(t, "deployment")
DeploymentDelete(t) == deleteWorkload(t, "deployment")
StatefulSetCreate(t) == createPodTempateSpec(t, "statefulset")
createStatefulSet(t) == createWorkload(t, "statefulset")
StatefulSetUpdate(t) == updateWorkload(t, "statefulset")
StatefulSetRollback(t) == rollback(t, "statefulset")
StatefulSetSetPodCount(t) == setPodCount(t, "statefulset")
StatefulSetDelete(t) == deleteWorkload(t, "statefulset")
DaemonSetCreate(t) == createPodTempateSpec(t, "daemonset")
createDaemonSet(t) == createWorkload(t, "daemonset")
DaemonSetUpdate(t) == updateWorkload(t, "daemonset")
DaemonSetRollback(t) == rollback(t, "daemonset")
DaemonSetDelete(t) == deleteWorkload(t, "daemonset")

WlNext ==
  \/ StatefulSetClaims
  \/ \E t \in WlThreads :
       \/ DeploymentCreate(t) \/ createDeployment(t) \/ DeploymentUpdate(t)
       \/ DeploymentRollback(t) \/ DeploymentSetPodCount(t) \/ DeploymentDelete(t)
       \/ StatefulSetCreate(t) \/ createStatefulSet(t) \/ StatefulSetUpdate(t)
       \/ StatefulSetRollback(t) \/ StatefulSetSetPodCount(t) \/ StatefulSetDelete(t)
       \/ DaemonSetCreate(t) \/ createDaemonSet(t) \/ DaemonSetUpdate(t)
       \/ DaemonSetRollback(t) \/ DaemonSetDelete(t)
       \/ createPVCs(t) \/ deletePVC(t) \/ WriteUpdate(t) \/ DoDelete(t)
       \/ isUsed(t) \/ deletePersistentVolumeClaim(t) \/ deletePersistentVolume(t)
       \/ WlFail(t)

WlSpec == WlInit /\ [][WlNext]_wlVars

-----------------------------------------------------------------------------
InFlight == {wlOp[t].n : t \in WlThreads}

(* A creation that fails leaves no claim behind: while no call of the API  *)
(* failed, a claim made by a handler is one of a creation that is still    *)
(* running or that succeeded, whatever other requests do meanwhile.        *)
WlNoLeak ==
  wlFaults = 0 => \A c \in claims : maker[c] # None => maker[c] \in wlDone \cup InFlight
=============================================================================
