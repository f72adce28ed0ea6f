---------------------------- MODULE Applications ----------------------------
(***************************************************************************)
(* Applications: the handlers that create and delete Application objects   *)
(* (those of charts, and the system ones: monitor, registry, efk), and the *)
(* operator that creates the resources of an application, keeps its status *)
(* and deletes it.  The operator's two controllers deliver the events of   *)
(* applications and those of resources; one lock lets it handle one event  *)
(* at a time, while requests, Kubernetes and users go on.  Any call of the *)
(* operator may fail, and a write to an object that has changed does.      *)
(***************************************************************************)
EXTENDS Integers, Sequences, FiniteSets

CONSTANTS
    ApManifests,    \* application -> the resources of its chart, in order
    ApKind,         \* resource -> kind
    ApSystem,       \* system applications
    ApRequests,     \* bound: requests
    ApEvents,       \* bound: changes by Kubernetes and users
    ApFaults,       \* bound: calls that fail
    ApChecks,       \* bound: checks of a system application (30 in the code)
    ApRestarts      \* bound: restarts of the operator

VARIABLES
    apObj,          \* application -> object
    apRes,          \* resource -> object
    apApps,         \* nsAndApplications: application -> resources
    apOwner,        \* nsAndAppResources: resource -> application
    apAppQ, apResQ, \* events
    apOp,           \* the event that is being handled
    apEnsure,       \* system application -> checks left
    apCount,        \* requests, changes, faults, restarts so far
    apUnsaved,      \* applications whose status was not stored
    apLost          \* those of them a restart of the operator forgot

apVars == <<apObj, apRes, apApps, apOwner, apAppQ, apResQ, apOp, apEnsure, apCount, apUnsaved, apLost>>

ApApplications == DOMAIN ApManifests
ApResources == DOMAIN ApKind

ApIn(a) == {ApManifests[a][i] : i \in DOMAIN ApManifests[a]}

(* A finite set in every order, and in the one in which it is listed. *)
Orders(S) == {q \in [1 .. Cardinality(S) -> S] : \A i, j \in DOMAIN q : q[i] = q[j] => i = j}
InSomeOrder(S) == CHOOSE q \in Orders(S) : TRUE

(* There are finitely many applications and resources: any of them can be  *)
(* counted and listed; a manifest names a resource once, and no other      *)
(* manifest names it.                                                      *)
ApSetting ==
  /\ \A S \in (SUBSET ApApplications) \cup (SUBSET ApResources) : Cardinality(S) \in Nat /\ Orders(S) # {}
  /\ ApSystem \subseteq ApApplications
  /\ \A a \in ApApplications : ApManifests[a] \in Seq(ApResources)
  /\ \A a \in ApApplications : \A i, j \in DOMAIN ApManifests[a] : ApManifests[a][i] = ApManifests[a][j] => i = j
  /\ \A a, b \in ApApplications : a # b => ApIn(a) \cap ApIn(b) = {}
ASSUME ApAssumption == ApSetting

ApNone == [is |-> "none"]
ApFree == [at |-> "free"]
ApNoState == ""

supportWorkloadTypes == {"deployment", "daemonset", "statefulset"}
supportResourceTypes == supportWorkloadTypes \cup {"cronjob", "job", "configmap", "secret", "service", "ingress"}
IsWorkload(r) == ApKind[r] \in supportWorkloadTypes
IsSupported(r) == ApKind[r] \in supportResourceTypes

ApInit ==
    /\ apObj = [a \in ApApplications |-> ApNone] /\ apRes = [r \in ApResources |-> ApNone]
    /\ apApps = <<>> /\ apOwner = <<>> /\ apAppQ = <<>> /\ apResQ = <<>> /\ apOp = ApFree
    /\ apEnsure = [a \in ApSystem |-> 0] /\ apUnsaved = {} /\ apLost = {}
    /\ apCount = [requests |-> 0, events |-> 0, faults |-> 0, restarts |-> 0]

Counts(what, bound) == apCount[what] < bound /\ apCount' = [apCount EXCEPT ![what] = @ + 1]
NoFault == UNCHANGED apCount
Fault == Counts("faults", ApFaults)

Forgets(f, xs) == [x \in DOMAIN f \ xs |-> f[x]]
Learns(f, xs, v) == [x \in DOMAIN f \cup xs |-> IF x \in xs THEN v ELSE f[x]]

(* A write makes the copies of the object in queued events stale.          *)
Stale(q, a) == [i \in DOMAIN q |-> IF q[i].app = a THEN [q[i] EXCEPT !.fresh = FALSE] ELSE q[i]]

(******************************* Handlers **********************************)

(* createSysApplication: who has created a system application watches it.  *)
createSysApplication(a) == apEnsure' = IF a \in ApSystem THEN [apEnsure EXCEPT ![a] = ApChecks] ELSE apEnsure

(* createApplication: the checks, then the object.                         *)
createApplication(a) ==
    /\ Counts("requests", ApRequests) /\ apObj[a] = ApNone
    /\ apObj' = [apObj EXCEPT ![a] = [is |-> "app", deleting |-> FALSE, fin |-> FALSE, state |-> ApNoState, res |-> <<>>,
                                      count |-> 0, ready |-> 0]]
    /\ apAppQ' = Append(apAppQ, [kind |-> "create", app |-> a, fresh |-> TRUE])
    /\ createSysApplication(a)
    /\ UNCHANGED <<apRes, apApps, apOwner, apResQ, apOp, apUnsaved, apLost>>

(* deleteApplication: an object with a finalizer is marked.                *)
Deletes(a) ==
    /\ apObj[a] # ApNone
    /\ IF apObj[a].fin /\ apObj[a].deleting THEN UNCHANGED <<apObj, apAppQ, apOp>>
       ELSE /\ apObj' = [apObj EXCEPT ![a] = IF apObj[a].fin THEN [apObj[a] EXCEPT !.deleting = TRUE] ELSE ApNone]
            /\ apAppQ' = IF apObj[a].fin THEN Append(Stale(apAppQ, a), [kind |-> "deleting", app |-> a, fresh |-> TRUE])
                         ELSE Stale(apAppQ, a)
            /\ apOp' = IF apOp # ApFree /\ apOp.app = a THEN [apOp EXCEPT !.fresh = FALSE] ELSE apOp
    /\ UNCHANGED <<apRes, apApps, apOwner, apResQ, apUnsaved, apLost>>

DeleteApplication(a) == Counts("requests", ApRequests) /\ Deletes(a) /\ UNCHANGED apEnsure

(* ensureApplicationSucceedOrDie: only a missing application makes it      *)
(* sleep; a failed one is deleted.                                         *)
ensureApplicationSucceedOrDie(a) ==
    /\ apEnsure[a] > 0
    /\ IF apObj[a] = ApNone \/ apObj[a].state \in {ApNoState, "create"}
       THEN apEnsure' = [apEnsure EXCEPT ![a] = @ - 1] /\ UNCHANGED <<apObj, apRes, apApps, apOwner, apAppQ, apResQ, apOp, apUnsaved, apLost>>
       ELSE IF apObj[a].state = "failed"
       THEN apEnsure' = [apEnsure EXCEPT ![a] = @ - 1] /\ Deletes(a)
       ELSE apEnsure' = [apEnsure EXCEPT ![a] = 0] /\ UNCHANGED <<apObj, apRes, apApps, apOwner, apAppQ, apResQ, apOp, apUnsaved, apLost>>
    /\ NoFault

(************************* Kubernetes and users ****************************)

ResEvent(kind, r, o) == [kind |-> kind, res |-> r, rep |-> o.rep, ready |-> o.ready]

(* A daemon set learns how many pods it wants after it was created.        *)
Scheduled(r) ==
    /\ Counts("events", ApEvents) /\ apRes[r] # ApNone /\ ApKind[r] = "daemonset" /\ apRes[r].rep = 0
    /\ apRes' = [apRes EXCEPT ![r].rep = 1]
    /\ UNCHANGED <<apObj, apApps, apOwner, apAppQ, apResQ, apOp, apEnsure, apUnsaved, apLost>>

(* OnUpdate is about a change of the number of ready pods.                 *)
ReadyChanges(r) ==
    /\ Counts("events", ApEvents) /\ apRes[r] # ApNone /\ IsWorkload(r) /\ apRes[r].rep = 1 /\ ~apRes[r].going
    /\ apRes' = [apRes EXCEPT ![r].ready = 1 - @]
    /\ apResQ' = Append(apResQ, ResEvent("update", r, apRes'[r]))
    /\ UNCHANGED <<apObj, apApps, apOwner, apAppQ, apOp, apEnsure, apUnsaved, apLost>>

(* A resource goes: its deletion was asked for, or a user deletes it.      *)
Goes(r) ==
    /\ apRes[r] # ApNone
    /\ IF apRes[r].going THEN NoFault ELSE Counts("events", ApEvents)
    /\ apRes' = [apRes EXCEPT ![r] = ApNone]
    /\ apResQ' = IF IsSupported(r) THEN Append(apResQ, ResEvent("delete", r, [rep |-> 0, ready |-> 0])) ELSE apResQ
    /\ UNCHANGED <<apObj, apApps, apOwner, apAppQ, apOp, apEnsure, apUnsaved, apLost>>

(******************** The operator: application events *********************)

ApFrame == UNCHANGED <<apEnsure, apLost>>
Take(op) == apOp = ApFree /\ apAppQ # <<>> /\ Head(apAppQ).kind = op

(* Status().Update and Update by the operator, of a copy that is fresh.    *)
WriteApp(a, new) == apObj' = [apObj EXCEPT ![a] = new]

(* OnCreateApplication: a known application is left alone; else its status *)
(* becomes "create".                                                       *)
OnCreateApplication ==
    LET e == Head(apAppQ)
        a == e.app
    IN /\ Take("create")
       /\ \/ /\ a \notin DOMAIN apApps /\ e.fresh /\ apObj[a] # ApNone
             /\ WriteApp(a, [apObj[a] EXCEPT !.state = "create"])
             /\ apAppQ' = Stale(Tail(apAppQ), a) /\ apOp' = [at |-> "crds", app |-> a, fresh |-> TRUE] /\ NoFault
          \/ /\ IF a \in DOMAIN apApps \/ ~e.fresh \/ apObj[a] = ApNone THEN NoFault ELSE Fault
             /\ apAppQ' = Tail(apAppQ) /\ UNCHANGED <<apObj, apOp>>
       /\ UNCHANGED <<apRes, apApps, apOwner, apResQ, apUnsaved>> /\ ApFrame

(* preInstallChartCRDs: the custom kinds of the chart are created and      *)
(* awaited, with the lock held; they may not become ready in time.         *)
preInstallChartCRDs ==
    /\ apOp.at = "crds"
    /\ \/ apOp' = [apOp EXCEPT !.at = "finalizer"] /\ NoFault
       \/ apOp' = ApFree /\ Fault
    /\ UNCHANGED <<apObj, apRes, apApps, apOwner, apAppQ, apResQ, apUnsaved>> /\ ApFrame

addFinalizer ==
    LET a == apOp.app
    IN /\ apOp.at = "finalizer"
       /\ \/ /\ apOp.fresh /\ apObj[a] # ApNone
             /\ WriteApp(a, [apObj[a] EXCEPT !.fin = TRUE]) /\ apAppQ' = Stale(apAppQ, a)
             /\ apOp' = [at |-> "resources", app |-> a, fresh |-> TRUE, n |-> 1, res |-> <<>>, count |-> 0] /\ NoFault
          \/ /\ IF apOp.fresh /\ apObj[a] # ApNone THEN Fault ELSE NoFault
             /\ apOp' = ApFree /\ UNCHANGED <<apObj, apAppQ>>
       /\ UNCHANGED <<apRes, apApps, apOwner, apResQ, apUnsaved>> /\ ApFrame

(* createAppResources: one resource; the first failure ends it.            *)
createAppResources ==
    LET a == apOp.app
        r == ApManifests[a][apOp.n]
        new == [is |-> "resource", rep |-> IF ApKind[r] = "deployment" THEN 1 ELSE 0, ready |-> 0, going |-> FALSE, by |-> a]
    IN /\ apOp.at = "resources" /\ apOp.n <= Len(ApManifests[a])
       /\ \/ /\ apRes[r] = ApNone
             /\ apRes' = [apRes EXCEPT ![r] = new]
             /\ apResQ' = IF IsSupported(r) THEN Append(apResQ, ResEvent("create", r, new)) ELSE apResQ
             /\ apOp' = [apOp EXCEPT !.n = @ + 1,
                                     !.res = IF IsSupported(r) THEN Learns(@, {r}, [rep |-> 0, ready |-> 0]) ELSE @,
                                     !.count = IF IsWorkload(r) THEN @ + 1 ELSE @]
             /\ NoFault
          \/ /\ IF apRes[r] = ApNone THEN Fault ELSE NoFault
             /\ apOp' = [apOp EXCEPT !.at = "failed"] /\ UNCHANGED <<apRes, apResQ>>
       /\ UNCHANGED <<apObj, apApps, apOwner, apAppQ, apUnsaved>> /\ ApFrame

(* Add: what was created is remembered, also when the status is not.       *)
Add(a, rs) ==
    /\ apApps' = Learns(apApps, {a}, rs)
    /\ apOwner' = Learns(apOwner, rs, a)

(* onCreateApplication, at its end: the status is stored.                  *)
storeStatus ==
    LET a == apOp.app
        state == IF apOp.at = "failed" THEN "failed" ELSE "succeed"
        saved == [apObj[a] EXCEPT !.state = state, !.res = apOp.res, !.count = apOp.count]
    IN /\ apOp.at = "failed" \/ (apOp.at = "resources" /\ apOp.n > Len(ApManifests[a]))
       /\ \/ /\ apOp.fresh /\ WriteApp(a, saved) /\ apAppQ' = Stale(apAppQ, a) /\ NoFault /\ UNCHANGED apUnsaved
          \/ /\ IF apOp.fresh THEN Fault ELSE NoFault
             /\ apUnsaved' = apUnsaved \cup {a} /\ UNCHANGED <<apObj, apAppQ>>
       /\ Add(a, DOMAIN apOp.res) /\ apOp' = ApFree
       /\ UNCHANGED <<apRes, apResQ>> /\ ApFrame

(* Variant: the finalizer goes as soon as the deletions were asked for.    *)
FinalizesAtOnce(a, rs) == TRUE

(* deleteApplication: the finalizer goes when no resource is left.         *)
Finalizes(a, rs) == rs = {}

(* The resources deleteAppResources asks to delete: those of a supported   *)
(* kind only when some application owns them.                              *)
deleteAppResources(a) ==
    {r \in {ApManifests[a][i] : i \in DOMAIN ApManifests[a]} : IsSupported(r) => r \in DOMAIN apOwner}

(* OnDeleteApplication: the deletions are asked for, up to one that fails. *)
OnDeleteApplication ==
    LET e == Head(apAppQ)
        a == e.app
        all == deleteAppResources(a)
        Ask(rs) == apRes' = [r \in ApResources |-> IF r \in rs /\ apRes[r] # ApNone THEN [apRes[r] EXCEPT !.going = TRUE] ELSE apRes[r]]
    IN /\ Take("deleting")
       /\ \/ a \notin DOMAIN apApps /\ apAppQ' = Tail(apAppQ) /\ NoFault /\ UNCHANGED <<apObj, apRes, apApps, apUnsaved>>
          \/ /\ a \in DOMAIN apApps /\ Ask(all)
             /\ IF Finalizes(a, apApps[a])
                THEN \/ /\ e.fresh /\ apObj' = [apObj EXCEPT ![a] = ApNone] /\ apApps' = Forgets(apApps, {a})
                        /\ apAppQ' = Stale(Tail(apAppQ), a) /\ NoFault /\ apUnsaved' = apUnsaved \ {a}
                     \/ /\ IF e.fresh THEN Fault ELSE NoFault
                        /\ apAppQ' = Tail(apAppQ) /\ UNCHANGED <<apObj, apApps, apUnsaved>>
                ELSE apAppQ' = Tail(apAppQ) /\ NoFault /\ UNCHANGED <<apObj, apApps, apUnsaved>>
          \/ /\ a \in DOMAIN apApps /\ Fault
             /\ \E rs \in SUBSET all : rs # all /\ Ask(rs)
             /\ apObj' = IF e.fresh /\ apObj[a] # ApNone THEN [apObj EXCEPT ![a].state = "failed"] ELSE apObj
             /\ apAppQ' = Stale(Tail(apAppQ), a) /\ UNCHANGED <<apApps, apUnsaved>>
       /\ UNCHANGED <<apOwner, apResQ, apOp>> /\ ApFrame

(********************* The operator: resource events ***********************)

IsReady(x) == x.ready # 0 /\ x.rep <= x.ready

(* updateAppStatus: the resource's numbers, and how many workloads are     *)
(* ready, by whether it was and whether it is.                             *)
Updated(o, e) ==
    LET was == IsReady(o.res[e.res])
        delta == IF ~IsWorkload(e.res) THEN 0 ELSE IF e.rep > e.ready THEN (IF was THEN -1 ELSE 0) ELSE IF was THEN 0 ELSE 1
    IN [o EXCEPT !.res[e.res] = [rep |-> e.rep, ready |-> e.ready], !.ready = @ + delta]

(* OnCreateAppResource, OnUpdateAppResource.                               *)
updateAppStatus ==
    LET e == Head(apResQ)
        a == apOwner[e.res]
    IN /\ apOp = ApFree /\ apResQ # <<>> /\ Head(apResQ).kind \in {"create", "update"}
       /\ apResQ' = Tail(apResQ)
       /\ IF e.res \in DOMAIN apOwner /\ apObj[apOwner[e.res]] # ApNone /\ e.res \in DOMAIN apObj[apOwner[e.res]].res
          THEN \/ WriteApp(a, Updated(apObj[a], e)) /\ apAppQ' = Stale(apAppQ, a) /\ NoFault
               \/ Fault /\ UNCHANGED <<apObj, apAppQ>>
          ELSE NoFault /\ UNCHANGED <<apObj, apAppQ>>
       /\ UNCHANGED <<apRes, apApps, apOwner, apOp, apUnsaved>> /\ ApFrame

(* onDeleteAppResource: the status first; when it is not stored nothing    *)
(* else happens.  Then the resource is forgotten, and the application with *)
(* the last one, whether or not it is being deleted.                       *)
OnDeleteAppResource ==
    LET e == Head(apResQ)
        r == e.res
        a == apOwner[r]
        known == r \in DOMAIN apOwner /\ apOwner[r] \in DOMAIN apApps
        rs == apApps[a] \ {r}
        o == apObj[a]
        cleared == IF r \in DOMAIN o.res
                   THEN [o EXCEPT !.res[r] = [rep |-> 0, ready |-> 0],
                                  !.ready = IF IsWorkload(r) /\ IsReady(o.res[r]) THEN @ - 1 ELSE @]
                   ELSE o
    IN /\ apOp = ApFree /\ apResQ # <<>> /\ Head(apResQ).kind = "delete"
       /\ apResQ' = Tail(apResQ)
       /\ IF ~known THEN NoFault /\ UNCHANGED <<apObj, apApps, apOwner, apAppQ, apUnsaved>>
          ELSE IF o = ApNone THEN NoFault /\ UNCHANGED <<apObj, apApps, apOwner, apAppQ, apUnsaved>>
          ELSE \/ Fault /\ UNCHANGED <<apObj, apApps, apOwner, apAppQ, apUnsaved>>
               \/ /\ NoFault /\ apOwner' = Forgets(apOwner, {r}) /\ apAppQ' = Stale(apAppQ, a)
                  /\ IF Finalizes(a, rs)
                     THEN /\ apApps' = Forgets(apApps, {a})
                          /\ apObj' = [apObj EXCEPT ![a] = IF o.deleting THEN ApNone ELSE [cleared EXCEPT !.fin = FALSE]]
                          /\ apUnsaved' = apUnsaved \ {a}
                     ELSE apApps' = Learns(apApps, {a}, rs) /\ WriteApp(a, cleared) /\ UNCHANGED apUnsaved
               \/ /\ Fault /\ apOwner' = Forgets(apOwner, {r}) /\ apAppQ' = Stale(apAppQ, a) /\ Finalizes(a, rs)
                  /\ apApps' = Learns(apApps, {a}, rs) /\ WriteApp(a, cleared) /\ UNCHANGED apUnsaved
       /\ UNCHANGED <<apRes, apOp>> /\ ApFrame

(* The operator restarts, at any point: initApplicationManager reads the   *)
(* stored status, and all objects are delivered as if created.             *)
ApRestart ==
    LET present == {a \in ApApplications : apObj[a] # ApNone}
        apps == InSomeOrder(present)
        ress == InSomeOrder({r \in ApResources : apRes[r] # ApNone /\ IsSupported(r)})
    IN /\ Counts("restarts", ApRestarts)
       /\ apApps' = [a \in present |-> DOMAIN apObj[a].res]
       /\ apOwner' = [r \in UNION {DOMAIN apObj[a].res : a \in present} |->
                         CHOOSE a \in present : r \in DOMAIN apObj[a].res]
       /\ apAppQ' = [i \in DOMAIN apps |-> [kind |-> "create", app |-> apps[i], fresh |-> TRUE]]
       /\ apResQ' = [i \in DOMAIN ress |-> ResEvent("create", ress[i], apRes[ress[i]])]
       /\ apLost' = apLost \cup apUnsaved \cup (IF apOp.at \in {"resources", "failed"} THEN {apOp.app} ELSE {})
       /\ apOp' = ApFree
       /\ UNCHANGED <<apObj, apRes, apEnsure, apUnsaved>>

ApNext ==
    \/ \E a \in ApApplications : createApplication(a) \/ DeleteApplication(a)
    \/ \E a \in ApSystem : ensureApplicationSucceedOrDie(a)
    \/ \E r \in ApResources : Scheduled(r) \/ ReadyChanges(r) \/ Goes(r)
    \/ OnCreateApplication \/ preInstallChartCRDs \/ addFinalizer \/ createAppResources \/ storeStatus
    \/ OnDeleteApplication \/ updateAppStatus \/ OnDeleteAppResource \/ ApRestart

ApSpec == ApInit /\ [][ApNext]_apVars

(****************************** Properties *********************************)

(* A resource of a kind the operator follows, created for an application,  *)
(* never outlives the application's object: the finalizer stays until the  *)
(* deletion of each was seen, whatever fails and in whatever order events, *)
(* requests, users' deletions and restarts come; unless the operator was   *)
(* restarted when it had created resources of the application and had not  *)
(* stored its status.                                                      *)
ApNoOrphan ==
    \A r \in ApResources :
        apRes[r] # ApNone /\ IsSupported(r) /\ apRes[r].by \notin apLost => apObj[apRes[r].by] # ApNone
=============================================================================
