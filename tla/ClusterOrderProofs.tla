------------------------- MODULE ClusterOrderProofs -------------------------
(***************************************************************************)
(* Theorems about ClusterManager when setCache does not fail.  (When it    *)
(* does, Cluster.Update reports the failure and goes on, beside the        *)
(* goroutine that a later request may start.)  A crash, a failing Init at  *)
(* start, a panic and a failing database are allowed.                      *)
(*                                                                         *)
(* The state machine is all that keeps the goroutines of a cluster apart,  *)
(* so the argument goes through the status: a goroutine that has not sent  *)
(* its event yet finds the cluster in the busy state it was started for,   *)
(* and every event that starts another needs a state that is not busy.     *)
(***************************************************************************)
EXTENDS ClusterManagerProofs

(* A leaf is for Zenon unless it cites another prover. *)
USE ZenonT(40)

(* No goroutine is at work on the cluster. *)
Free(c) == \A w \in Worker : work[w].obj # c

(* The goroutine has not sent its event yet. *)
Busy(w) == work[w].pc \in {"up", "cache", "event"} /\ work[w].job # "destroy"

NoneGoesOn == \A w \in Worker : work[w].more = FALSE

(* A cluster is in the state its goroutine was started for, or in the one  *)
(* the goroutine's event has led to.                                       *)
StatusOfWorker ==
  \A w \in Worker :
    /\ Busy(w) =>
         IF work[w].st.created /\ ~(work[w].pc = "event" /\ work[w].ev = "createSucceed")
         THEN status[work[w].obj] = "Updating"
         ELSE status[work[w].obj] = "Creating"
    /\ work[w].pc = "cache" => ~work[w].st.created
    /\ work[w].pc = "callback" => status[work[w].obj] = Dst[work[w].ev]

Updates == api.pc \in {"updateSave", "updateEvent"}
Deletes == api.pc \in {"deleteEvent", "deleteClose"}

(* A handler that found its cluster idle is still alone with it. *)
HandlerAlone ==
  /\ Deletes => Free(api.obj)
  /\ Updates /\ api.st.created =>
       Free(api.obj) /\ status[api.obj] \in {"Running", "Unreachable"}

(* The configuration a handler is about to install is the cluster's. *)
HandlerConfig ==
  Updates =>
    /\ config[api.obj] = api.st.cfg
    /\ \A w \in Worker : ~(/\ work[w].obj = api.obj /\ work[w].job = "update"
                           /\ work[w].pc = "up" /\ work[w].st.created)
    /\ api.pc = "updateEvent" /\ api.st.created =>
         db[NameOf(api.obj)] \in {Null, api.st}

(* Whoever has a state that says Created knows the channel to be open. *)
CreatedIsOpen ==
  /\ (Updates \/ Deletes) /\ api.st.created => stopCh[api.obj] = "open"
  /\ \A w \in Worker : /\ work[w].pc # "idle" /\ work[w].job # "destroy"
                       /\ work[w].st.created
                       => stopCh[work[w].obj] = "open"
  /\ \A c \in clusters : /\ status[c] \notin {"Deleting", "Deleted"}
                         /\ db[NameOf(c)] # Null /\ db[NameOf(c)].created
                         => stopCh[c] = "open"

OrderInv ==
  /\ BaseInv /\ NoneGoesOn /\ SingleWorker /\ StatusOfWorker
  /\ HandlerAlone /\ HandlerConfig /\ CreatedIsOpen /\ UpdateInstallsSavedConfig

(* The event a goroutine is about to send will be accepted. *)
EventFits ==
  \A w \in Worker : work[w].pc = "event" =>
    status[work[w].obj] \in Src[work[w].ev]
-----------------------------------------------------------------------------
(***************************************************************************)
(* Consequences of OrderInv.                                               *)
(***************************************************************************)

(* What the invariant says of the types of a goroutine that has an object. *)
LEMMA WorkerOn ==
  ASSUME OrderInv, NEW w \in Worker, work[w].obj \in Obj
  PROVE  /\ work[w].pc \in {"up", "cache", "event", "callback", "remove", "dbDelete"}
         /\ work[w].st \in State /\ work[w].job \in {"create", "update", "destroy"}
         /\ work[w].pc \in {"event", "callback"} => work[w].ev \in WorkEvents
         /\ work[w].pc = "callback" => work[w].ev # "deleteCompleted"
  <1>1. GoodWork(work[w])
    BY DEF OrderInv, BaseInv, TypeInv
  <1> QED
    BY <1>1, NullFacts DEF GoodWork, WorkType

(* A goroutine before its event finds a busy state; a goroutine after it   *)
(* holds eventMu.                                                          *)
LEMMA WorkerStatuses ==
  ASSUME OrderInv, NEW w \in Worker, work[w].obj \in Obj
  PROVE  /\ work[w].pc \in {"up", "cache", "event"} =>
              status[work[w].obj] \in {"Creating", "Updating", "Deleting"}
         /\ work[w].pc \in {"remove", "dbDelete"} => status[work[w].obj] = "Deleted"
         /\ work[w].pc = "callback" =>
              status[work[w].obj] \in {"Running", "CreateFailed"}
  <1>1. CASE work[w].job = "destroy"
    <2>1. GoodWork(work[w])
      BY DEF OrderInv, BaseInv, TypeInv
    <2> QED
      BY <1>1, <2>1 DEF OrderInv, BaseInv, DestroyerStatus, Destroying, GoodWork
  <1>2. CASE work[w].job # "destroy"
    <2>1. GoodWork(work[w])
      BY DEF OrderInv, BaseInv, TypeInv
    <2>2. work[w].pc \notin {"remove", "dbDelete"}
      BY <1>2, <2>1 DEF GoodWork
    <2>3. work[w].pc = "callback" => status[work[w].obj] \in {"Running", "CreateFailed"}
      <3>1. work[w].pc = "callback" => /\ status[work[w].obj] = Dst[work[w].ev]
                                       /\ work[w].ev \in WorkEvents
                                       /\ work[w].ev # "deleteCompleted"
        BY WorkerOn DEF OrderInv, StatusOfWorker
      <3> QED
        BY <3>1, EventTable, SMTT(40) DEF WorkEvents
    <2> QED
      BY <1>2, <2>2, <2>3 DEF OrderInv, StatusOfWorker, Busy
  <1> QED
    BY <1>1, <1>2

(* So a cluster that is in no busy state, and whose eventMu is free, has   *)
(* no goroutine.                                                           *)
LEMMA IdleIsFree ==
  ASSUME OrderInv, NEW c \in Obj, EventMuFree(c),
         status[c] \in {"Running", "CreateFailed", "Unreachable"}
  PROVE  Free(c)
  BY WorkerOn, WorkerStatuses DEF Free, EventMuFree, InCallback

(* An object that does not exist yet has no goroutine either. *)
LEMMA NewIsFree ==
  ASSUME OrderInv, NEW c \in Obj, status[c] = "Init"
  PROVE  Free(c)
  BY WorkerOn, WorkerStatuses DEF Free

(* A goroutine that updates a created cluster. *)
LEMMA UpdaterListed ==
  ASSUME OrderInv, NEW w \in Worker, work[w].job = "update",
         work[w].st.created, work[w].pc = "up"
  PROVE  /\ work[w].obj \in Obj /\ work[w].obj \in clusters
         /\ status[work[w].obj] = "Updating"
  <1>1. work[w].obj \in Obj
    BY DEF OrderInv, BaseInv, TypeInv, GoodWork
  <1>2. status[work[w].obj] = "Updating"
    BY DEF OrderInv, StatusOfWorker, Busy
  <1> QED
    BY <1>1, <1>2 DEF OrderInv, BaseInv, LiveIsListed

(* OrderInv at the start. *)
LEMMA InitOrder == Init => OrderInv
  <1> SUFFICES ASSUME Init PROVE OrderInv
    OBVIOUS
  <1>1. BaseInv
    BY InitBase
  <1>2. /\ \A w \in Worker : /\ work[w].pc = "idle" /\ work[w].obj = Null
                             /\ work[w].more = FALSE
        /\ api.pc = "idle" /\ clusters = {}
    BY IdleRecords DEF Init
  <1> QED
    BY <1>1, <1>2 DEF OrderInv, NoneGoesOn, SingleWorker, StatusOfWorker, Busy,
       HandlerAlone, HandlerConfig, CreatedIsOpen, Updates, Deletes,
       UpdateInstallsSavedConfig
-----------------------------------------------------------------------------
(***************************************************************************)
(* Handlers preserve OrderInv.                                             *)
(***************************************************************************)

(* Create. *)
LEMMA CreateOrder ==
  ASSUME OrderInv, NEW n \in Name, NEW k \in Config, Create(n, k)
  PROVE  OrderInv'
  <1> DEFINE s == [created |-> FALSE, cfg |-> k]
  <1>1. PICK c \in Obj, w \in IdleWorkers :
          /\ NameOf(c) = n /\ status[c] = "Init" /\ Save(n, s)
          /\ status' = [status EXCEPT ![c] = "Creating"]
          /\ config' = [config EXCEPT ![c] = k]
          /\ clusters' = clusters \cup {c}
          /\ Continue(w, Go("create", c, s))
    BY DEF Create
  <1>2. api.pc = "idle" /\ api' = api /\ stopCh' = stopCh /\ NameIsFree(n)
    BY DEF Create, LockFree
  <1>3. s \in State /\ s.created = FALSE
    BY DEF State
  <1> HIDE DEF s
  <1>4. w \in Worker /\ work[w].pc = "idle" /\ TypeInv /\ BaseInv
    BY DEF IdleWorkers, OrderInv, BaseInv
  <1>5. /\ OnlyWorker(w) /\ work'[w].pc = "up" /\ work'[w].job = "create"
        /\ work'[w].obj = c /\ work'[w].st = s /\ work'[w].more = FALSE
    BY <1>1, <1>3, <1>4, GoStep
  <1>6. \A v \in Worker : v # w => work'[v] = work[v] /\ work[v].obj # c
    BY <1>1, <1>5, NewIsFree DEF OnlyWorker, Free
  <1>7. /\ clusters \subseteq Obj /\ status \in [Obj -> Statuses]
        /\ config \in [Obj -> Config \cup {Null}]
        /\ db \in [Name -> State \cup {Null}]
    BY <1>4 DEF TypeInv, TypeOK
  <1>8. /\ status'[c] = "Creating" /\ db'[n] = s
        /\ \A d \in Obj : d # c => status'[d] = status[d] /\ config'[d] = config[d]
        /\ \A m \in Name : m # n => db'[m] = db[m]
    BY <1>1, <1>7 DEF Save
  <1>9. BaseInv'
    BY <1>4, CreateBase
  <1>10. NoneGoesOn' /\ SingleWorker'
    BY <1>5, <1>6, SMTT(40) DEF OrderInv, NoneGoesOn, SingleWorker
  <1>11. StatusOfWorker'
    <2> SUFFICES ASSUME NEW v \in Worker PROVE StatusOfWorker!(v)'
      BY DEF StatusOfWorker
    <2>1. CASE v = w
      BY <2>1, <1>3, <1>5, <1>8 DEF Busy
    <2>2. CASE v # w
      <3>1. work'[v] = work[v] /\ work[v].obj # c /\ GoodWork(work[v])
        BY <2>2, <1>4, <1>6 DEF TypeInv
      <3>2. work[v].pc # "idle" => status'[work[v].obj] = status[work[v].obj]
        BY <3>1, <1>8 DEF GoodWork
      <3> QED
        BY <3>1, <3>2 DEF OrderInv, StatusOfWorker, Busy
    <2> QED
      BY <2>1, <2>2
  <1>12. HandlerAlone' /\ HandlerConfig'
    BY <1>2 DEF HandlerAlone, HandlerConfig, Updates, Deletes
  <1>13. CreatedIsOpen'
    <2>1. \A v \in Worker : /\ work'[v].pc # "idle" /\ work'[v].job # "destroy"
                            /\ work'[v].st.created
                            => stopCh'[work'[v].obj] = "open"
      BY <1>2, <1>3, <1>5, <1>6 DEF OrderInv, CreatedIsOpen
    <2>2. \A d \in clusters' : /\ status'[d] \notin {"Deleting", "Deleted"}
                               /\ db'[NameOf(d)] # Null /\ db'[NameOf(d)].created
                               => stopCh'[d] = "open"
      <3> SUFFICES ASSUME NEW d \in clusters',
                          status'[d] \notin {"Deleting", "Deleted"},
                          db'[NameOf(d)] # Null, db'[NameOf(d)].created
                   PROVE  stopCh[d] = "open"
        BY <1>2
      <3>1. d # c
        BY <1>1, <1>3, <1>8
      <3>2. d \in clusters /\ d \in Obj /\ NameOf(d) # n /\ NameOf(d) \in Name
        BY <3>1, <1>1, <1>2, <1>7, NameOfType DEF NameIsFree
      <3> QED
        BY <3>1, <3>2, <1>8 DEF OrderInv, CreatedIsOpen
    <2> QED
      BY <1>2, <2>1, <2>2 DEF CreatedIsOpen, Updates, Deletes
  <1>14. UpdateInstallsSavedConfig'
    <2> SUFFICES ASSUME NEW v \in Worker, work'[v].job = "update",
                        work'[v].st.created, work'[v].pc = "up"
                 PROVE  /\ config'[work'[v].obj] = work'[v].st.cfg
                        /\ db'[NameOf(work'[v].obj)] # Null =>
                             db'[NameOf(work'[v].obj)] = work'[v].st
      BY DEF UpdateInstallsSavedConfig
    <2>1. v # w /\ work'[v] = work[v] /\ work[v].obj # c
      BY <1>5, <1>6
    <2>2. work[v].obj \in clusters /\ work[v].obj \in Obj
      BY <2>1, UpdaterListed
    <2>3. NameOf(work[v].obj) # n /\ NameOf(work[v].obj) \in Name
      BY <2>2, <1>2, NameOfType DEF NameIsFree
    <2> QED
      BY <2>1, <2>2, <2>3, <1>8, SMTT(40) DEF OrderInv, UpdateInstallsSavedConfig
  <1> QED
    BY <1>9, <1>10, <1>11, <1>12, <1>13, <1>14 DEF OrderInv
(* Steps of a handler that change neither the goroutines, the states, the  *)
(* list nor the channels.                                                  *)
LEMMA HandlerFrame ==
  ASSUME OrderInv, BaseInv', UNCHANGED <<clusters, status, stopCh, work>>,
         HandlerAlone', HandlerConfig',
         (Updates' \/ Deletes') /\ api'.st.created => stopCh[api'.obj] = "open",
         \A c \in clusters : /\ status[c] \notin {"Deleting", "Deleted"}
                             /\ db'[NameOf(c)] # Null /\ db'[NameOf(c)].created
                             => stopCh[c] = "open",
         UpdateInstallsSavedConfig'
  PROVE  OrderInv'
  <1>1. NoneGoesOn' /\ SingleWorker' /\ StatusOfWorker'
    BY DEF OrderInv, NoneGoesOn, SingleWorker, StatusOfWorker, Busy
  <1>2. CreatedIsOpen'
    BY DEF OrderInv, CreatedIsOpen
  <1> QED
    BY <1>1, <1>2 DEF OrderInv

(* A handler that returns, or that only cancels, with nothing else changed.*)
LEMMA ReturnOrder ==
  ASSUME OrderInv, BaseInv', api'.pc \in {"idle", "cancelSet"},
         UNCHANGED <<clusters, status, config, stopCh, db, work>>
  PROVE  OrderInv'
  <1>1. ~Updates' /\ ~Deletes'
    BY DEF Updates, Deletes
  <1>2. HandlerAlone' /\ HandlerConfig'
    BY <1>1 DEF HandlerAlone, HandlerConfig
  <1>3. UpdateInstallsSavedConfig'
    BY DEF OrderInv, UpdateInstallsSavedConfig
  <1>4. \A c \in clusters : /\ status[c] \notin {"Deleting", "Deleted"}
                            /\ db'[NameOf(c)] # Null /\ db'[NameOf(c)].created
                            => stopCh[c] = "open"
    BY DEF OrderInv, CreatedIsOpen
  <1> QED
    BY <1>1, <1>2, <1>3, <1>4, HandlerFrame

(* UpdateBegin: a created cluster is Running and has no goroutine; one     *)
(* that is not created has no goroutine that updates a created cluster.    *)
LEMMA UpdateBeginOrder ==
  ASSUME OrderInv, NEW c \in Obj, NEW k \in Config, UpdateBegin(c, k)
  PROVE  OrderInv'
  <1> DEFINE rec == db[NameOf(c)]
             s == [rec EXCEPT !.cfg = k]
  <1>1. /\ rec # Null /\ c \in clusters
        /\ rec.created => Can(c, "update")
        /\ config' = [config EXCEPT ![c] = k]
        /\ api' = [pc |-> "updateSave", obj |-> c, st |-> s]
        /\ UNCHANGED <<clusters, status, stopCh, db, work>>
    BY DEF UpdateBegin
  <1>2. TypeInv /\ BaseInv /\ config \in [Obj -> Config \cup {Null}]
    BY DEF OrderInv, BaseInv, TypeInv, TypeOK
  <1>3. rec \in State /\ NameOf(c) \in Name
    BY <1>1, <1>2, NameOfType DEF TypeInv, TypeOK
  <1>4. s \in State /\ s.created = rec.created /\ s.cfg = k
    BY <1>3 DEF State
  <1>5. api'.pc = "updateSave" /\ api'.obj = c /\ api'.st = s
    BY <1>1
  <1>6. BaseInv'
    BY <1>2, UpdateBeginBase
  <1>7. rec.created => Free(c) /\ status[c] = "Running" /\ stopCh[c] = "open"
    <2>1. rec.created => status[c] = "Running" /\ EventMuFree(c)
      BY <1>1, EventTable DEF Can
    <2> QED
      BY <1>1, <2>1, IdleIsFree DEF OrderInv, CreatedIsOpen
  <1> HIDE DEF s
  <1>8. \A w \in Worker : ~(/\ work[w].obj = c /\ work[w].job = "update"
                            /\ work[w].pc = "up" /\ work[w].st.created)
    BY <1>1, <1>7 DEF Free, OrderInv, UpdateInstallsSavedConfig
  <1>9. HandlerAlone'
    BY <1>1, <1>4, <1>5, <1>7 DEF HandlerAlone, Updates, Deletes, Free
  <1>10. HandlerConfig'
    <2>1. config'[c] = k
      BY <1>1, <1>2
    <2> QED
      BY <2>1, <1>1, <1>4, <1>5, <1>8 DEF HandlerConfig, Updates
  <1>11. UpdateInstallsSavedConfig'
    <2> SUFFICES ASSUME NEW v \in Worker, work[v].job = "update",
                        work[v].st.created, work[v].pc = "up"
                 PROVE  /\ config'[work[v].obj] = work[v].st.cfg
                        /\ db[NameOf(work[v].obj)] # Null =>
                             db[NameOf(work[v].obj)] = work[v].st
      BY <1>1 DEF UpdateInstallsSavedConfig
    <2>1. work[v].obj # c /\ work[v].obj \in Obj
      BY <1>8, UpdaterListed
    <2> QED
      BY <2>1, <1>1, <1>2 DEF OrderInv, UpdateInstallsSavedConfig
  <1> QED
    <2>1. Updates' \/ Deletes' => stopCh[api'.obj] = "open" \/ ~api'.st.created
      BY <1>4, <1>5, <1>7
    <2>2. \A d \in clusters : /\ status[d] \notin {"Deleting", "Deleted"}
                              /\ db'[NameOf(d)] # Null /\ db'[NameOf(d)].created
                              => stopCh[d] = "open"
      BY <1>1 DEF OrderInv, CreatedIsOpen
    <2> QED
      BY <2>1, <2>2, <1>1, <1>6, <1>9, <1>10, <1>11, HandlerFrame

(* UpdateSave. *)
LEMMA UpdateSaveOrder ==
  ASSUME OrderInv, UpdateSave
  PROVE  OrderInv'
  <1>1. /\ BaseInv /\ BaseInv' /\ TypeInv /\ GoodCall(api) /\ api.pc = "updateSave"
        /\ UNCHANGED <<clusters, status, config, stopCh, work>>
    BY UpdateSaveBase DEF OrderInv, BaseInv, TypeInv, UpdateSave
  <1>2. CASE DbFails /\ api' = IdleCall
    BY <1>1, <1>2, IdleRecords, ReturnOrder DEF DbFails
  <1>3. CASE Save(NameOf(api.obj), api.st) /\ api' = [api EXCEPT !.pc = "updateEvent"]
    <2> DEFINE c == api.obj
               s == api.st
    <2>1. api \in CallType /\ c \in Obj /\ s \in State /\ c \in clusters
      BY <1>1 DEF GoodCall, BaseInv, HandlerTarget
    <2>2. api'.pc = "updateEvent" /\ api'.obj = c /\ api'.st = s
      BY <1>3, <2>1 DEF CallType
    <2>3. /\ db'[NameOf(c)] = s
          /\ \A d \in clusters : d # c => db'[NameOf(d)] = db[NameOf(d)]
      <3>1. db \in [Name -> State \cup {Null}] /\ clusters \subseteq Obj
        BY <1>1 DEF TypeInv, TypeOK
      <3>2. \A d \in clusters : d # c => NameOf(d) # NameOf(c) /\ NameOf(d) \in Name
        BY <3>1, <1>1, <2>1, NameOfType DEF BaseInv, UniqueNames
      <3> QED
        BY <3>1, <3>2, <1>3, <2>1, NameOfType DEF Save
    <2>4. /\ s.created => /\ Free(c) /\ status[c] \in {"Running", "Unreachable"}
                          /\ stopCh[c] = "open"
          /\ config[c] = s.cfg
          /\ \A w \in Worker : ~(/\ work[w].obj = c /\ work[w].job = "update"
                                 /\ work[w].pc = "up" /\ work[w].st.created)
      BY <1>1 DEF OrderInv, HandlerAlone, HandlerConfig, CreatedIsOpen, Updates
    <2> HIDE DEF c, s
    <2>5. HandlerAlone'
      BY <1>1, <2>2, <2>4 DEF HandlerAlone, Updates, Deletes, Free
    <2>6. HandlerConfig'
      BY <1>1, <2>2, <2>3, <2>4 DEF HandlerConfig, Updates
    <2>7. UpdateInstallsSavedConfig'
      <3> SUFFICES ASSUME NEW v \in Worker, work[v].job = "update",
                          work[v].st.created, work[v].pc = "up"
                   PROVE  /\ config[work[v].obj] = work[v].st.cfg
                          /\ db'[NameOf(work[v].obj)] # Null =>
                               db'[NameOf(work[v].obj)] = work[v].st
        BY <1>1 DEF UpdateInstallsSavedConfig
      <3>1. work[v].obj # c /\ work[v].obj \in clusters
        BY <2>4, UpdaterListed
      <3> QED
        BY <3>1, <2>3 DEF OrderInv, UpdateInstallsSavedConfig
    <2>8. \A d \in clusters : /\ status[d] \notin {"Deleting", "Deleted"}
                              /\ db'[NameOf(d)] # Null /\ db'[NameOf(d)].created
                              => stopCh[d] = "open"
      BY <2>3, <2>4 DEF OrderInv, CreatedIsOpen
    <2> QED
      BY <1>1, <2>2, <2>4, <2>5, <2>6, <2>7, <2>8, HandlerFrame
  <1> QED
    BY <1>2, <1>3 DEF UpdateSave
(* The goroutines on other clusters when one cluster's status changes or   *)
(* its goroutine starts.                                                   *)
LEMMA OtherWorkers ==
  ASSUME OrderInv, NEW c \in Obj, NEW v \in Worker, work'[v] = work[v],
         work[v].obj # c, \A d \in Obj : d # c => status'[d] = status[d]
  PROVE  StatusOfWorker!(v)'
  <1>1. GoodWork(work[v])
    BY DEF OrderInv, BaseInv, TypeInv
  <1>2. work[v].pc # "idle" => status'[work[v].obj] = status[work[v].obj]
    BY <1>1 DEF GoodWork
  <1> QED
    BY <1>2 DEF OrderInv, StatusOfWorker, Busy

(* UpdateEvent: the event is accepted only if there is no goroutine. *)
LEMMA UpdateEventOrder ==
  ASSUME OrderInv, UpdateEvent
  PROVE  OrderInv'
  <1> DEFINE c == api.obj
             s == api.st
             ev == IF s.created THEN "update" ELSE "continuteCreate"
  <1>1. /\ api.pc = "updateEvent" /\ GoodCall(api) /\ TypeInv /\ BaseInv
        /\ EventMuFree(c) /\ Transit(c, ev) /\ api' = IdleCall
        /\ UNCHANGED <<clusters, config, stopCh, db>>
    BY DEF UpdateEvent, OrderInv, BaseInv, TypeInv
  <1>2. Accepts(c, ev) => \E w \in IdleWorkers : Continue(w, Go("update", c, s))
    BY DEF UpdateEvent
  <1>3. ~Accepts(c, ev) => work' = work
    BY DEF UpdateEvent
  <1>4. /\ c \in Obj /\ s \in State /\ c \in clusters /\ ev \in DOMAIN Src
        /\ status \in [Obj -> Statuses]
    BY <1>1, EventTable DEF GoodCall, BaseInv, HandlerTarget, TypeInv, TypeOK
  <1>5. api'.pc = "idle" /\ BaseInv'
    BY <1>1, IdleRecords, UpdateEventBase
  <1>6. /\ s.created => stopCh[c] = "open" /\ db[NameOf(c)] \in {Null, s}
        /\ config[c] = s.cfg
    BY <1>1 DEF OrderInv, HandlerConfig, CreatedIsOpen, Updates
  <1>7. CASE ~Accepts(c, ev)
    <2>1. status' = status /\ work' = work
      BY <1>1, <1>3, <1>4, <1>7, TransitFacts
    <2> QED
      BY <1>1, <1>5, <2>1, ReturnOrder
  <1>8. CASE Accepts(c, ev)
    <2>1. /\ status'[c] = Dst[ev] /\ status[c] \in Src[ev]
          /\ \A d \in Obj : d # c => status'[d] = status[d]
      BY <1>1, <1>4, <1>8, TransitFacts
    <2>2. /\ status[c] \in {"Running", "CreateFailed"}
          /\ s.created => status'[c] = "Updating"
          /\ ~s.created => status'[c] = "Creating"
      BY <2>1, EventTable
    <2> HIDE DEF c, s, ev
    <2>3. Free(c)
      BY <1>1, <1>4, <2>2, IdleIsFree
    <2>4. PICK w \in IdleWorkers : Continue(w, Go("update", c, s))
      BY <1>2, <1>8
    <2>5. w \in Worker
      BY DEF IdleWorkers
    <2>6. /\ OnlyWorker(w) /\ work'[w].pc = "up" /\ work'[w].job = "update"
          /\ work'[w].obj = c /\ work'[w].st = s /\ work'[w].more = FALSE
      BY <1>1, <1>4, <2>4, <2>5, GoStep
    <2>7. \A v \in Worker : v # w => work'[v] = work[v] /\ work[v].obj # c
      BY <2>3, <2>6 DEF OnlyWorker, Free
    <2>8. NoneGoesOn' /\ SingleWorker'
      BY <2>6, <2>7, SMTT(40) DEF OrderInv, NoneGoesOn, SingleWorker
    <2>9. StatusOfWorker'
      <3> SUFFICES ASSUME NEW v \in Worker PROVE StatusOfWorker!(v)'
        BY DEF StatusOfWorker
      <3>1. CASE v = w
        BY <3>1, <2>2, <2>6 DEF Busy
      <3>2. CASE v # w
        BY <3>2, <1>4, <2>1, <2>7, OtherWorkers
      <3> QED
        BY <3>1, <3>2
    <2>10. HandlerAlone' /\ HandlerConfig'
      BY <1>5 DEF HandlerAlone, HandlerConfig, Updates, Deletes
    <2>11. CreatedIsOpen'
      <3>1. \A v \in Worker : /\ work'[v].pc # "idle" /\ work'[v].job # "destroy"
                              /\ work'[v].st.created
                              => stopCh[work'[v].obj] = "open"
        BY <1>6, <2>6, <2>7, SMTT(40) DEF OrderInv, CreatedIsOpen
      <3>2. \A d \in clusters : status'[d] \notin {"Deleting", "Deleted"} =>
              status[d] \notin {"Deleting", "Deleted"}
        BY <1>1, <2>1, <2>2 DEF TypeInv, TypeOK
      <3> QED
        BY <1>1, <1>5, <3>1, <3>2 DEF OrderInv, CreatedIsOpen, Updates, Deletes
    <2>12. UpdateInstallsSavedConfig'
      BY <1>1, <1>6, <2>6, <2>7 DEF OrderInv, UpdateInstallsSavedConfig
    <2> QED
      BY <1>5, <2>8, <2>9, <2>10, <2>11, <2>12 DEF OrderInv
  <1> QED
    BY <1>7, <1>8

(* DeleteBegin: the cluster has no goroutine, its record knows the channel.*)
LEMMA DeleteBeginOrder ==
  ASSUME OrderInv, NEW c \in Obj, DeleteBegin(c)
  PROVE  OrderInv'
  <1> DEFINE s == db[NameOf(c)]
  <1>1. /\ s # Null /\ c \in clusters /\ Can(c, "delete")
        /\ api' = [pc |-> "deleteEvent", obj |-> c, st |-> s]
        /\ UNCHANGED <<clusters, status, config, stopCh, db, work>>
    BY DEF DeleteBegin
  <1>2. api'.pc = "deleteEvent" /\ api'.obj = c /\ api'.st = s
    BY <1>1
  <1>3. BaseInv'
    BY DeleteBeginBase DEF OrderInv
  <1>4. /\ status[c] \in {"Running", "CreateFailed", "Unreachable"}
        /\ EventMuFree(c)
    BY <1>1, EventTable DEF Can
  <1>5. Free(c)
    BY <1>4, IdleIsFree
  <1>6. s.created => stopCh[c] = "open"
    BY <1>1, <1>4 DEF OrderInv, CreatedIsOpen
  <1>7. HandlerAlone' /\ HandlerConfig'
    BY <1>1, <1>2, <1>5 DEF HandlerAlone, HandlerConfig, Updates, Deletes, Free
  <1>8. UpdateInstallsSavedConfig'
    BY <1>1 DEF OrderInv, UpdateInstallsSavedConfig
  <1>9. \A d \in clusters : /\ status[d] \notin {"Deleting", "Deleted"}
                            /\ db'[NameOf(d)] # Null /\ db'[NameOf(d)].created
                            => stopCh[d] = "open"
    BY <1>1 DEF OrderInv, CreatedIsOpen
  <1> HIDE DEF s
  <1> QED
    BY <1>1, <1>2, <1>3, <1>6, <1>7, <1>8, <1>9, HandlerFrame

(* Steps that change the status of one cluster that has no goroutine. *)
LEMMA StatusFrame ==
  ASSUME OrderInv, BaseInv', NEW c \in Obj, Free(c),
         UNCHANGED <<clusters, config, stopCh, db, work>>,
         status[c] \notin {"Deleting", "Deleted"},
         \A d \in Obj : d # c => status'[d] = status[d],
         HandlerAlone', HandlerConfig',
         (Updates' \/ Deletes') /\ api'.st.created => stopCh[api'.obj] = "open"
  PROVE  OrderInv'
  <1>1. NoneGoesOn' /\ SingleWorker'
    BY DEF OrderInv, NoneGoesOn, SingleWorker
  <1>2. StatusOfWorker'
    <2> SUFFICES ASSUME NEW v \in Worker PROVE StatusOfWorker!(v)'
      BY DEF StatusOfWorker
    <2> QED
      BY OtherWorkers DEF Free
  <1>3. CreatedIsOpen'
    <2>1. \A d \in clusters : status'[d] \notin {"Deleting", "Deleted"} =>
            status[d] \notin {"Deleting", "Deleted"}
      BY DEF OrderInv, BaseInv, TypeInv, TypeOK
    <2> QED
      BY <2>1 DEF OrderInv, CreatedIsOpen
  <1>4. UpdateInstallsSavedConfig'
    BY DEF OrderInv, UpdateInstallsSavedConfig
  <1> QED
    BY <1>1, <1>2, <1>3, <1>4 DEF OrderInv
(* DeleteEvent. *)
LEMMA DeleteEventOrder ==
  ASSUME OrderInv, DeleteEvent
  PROVE  OrderInv'
  <1> DEFINE c == api.obj
  <1>1. /\ api.pc = "deleteEvent" /\ GoodCall(api) /\ TypeInv /\ BaseInv
        /\ Transit(c, "delete") /\ api' = [api EXCEPT !.pc = "deleteClose"]
        /\ UNCHANGED <<clusters, config, stopCh, db, work>>
    BY DEF DeleteEvent, OrderInv, BaseInv, TypeInv
  <1>2. /\ api \in CallType /\ c \in Obj /\ status[c] \in Src["delete"]
        /\ status \in [Obj -> Statuses] /\ "delete" \in DOMAIN Src
    BY <1>1, EventTable DEF GoodCall, BaseInv, HandlerTarget, TypeInv, TypeOK
  <1>3. api'.pc = "deleteClose" /\ api'.obj = c /\ api'.st = api.st
    BY <1>1, <1>2 DEF CallType
  <1>4. Free(c) /\ (api.st.created => stopCh[c] = "open")
    BY <1>1 DEF OrderInv, HandlerAlone, CreatedIsOpen, Deletes
  <1>5. BaseInv'
    BY <1>1, DeleteEventBase
  <1> HIDE DEF c
  <1>6. /\ status[c] \notin {"Deleting", "Deleted"}
        /\ \A d \in Obj : d # c => status'[d] = status[d]
    BY <1>1, <1>2, TransitFacts, EventTable
  <1>7. HandlerAlone' /\ HandlerConfig'
    BY <1>1, <1>3, <1>4 DEF HandlerAlone, HandlerConfig, Updates, Deletes, Free
  <1> QED
    BY <1>1, <1>2, <1>3, <1>4, <1>5, <1>6, <1>7, StatusFrame

(* A connection check, and the end of connectionCheckLoop. *)
LEMMA ConnectionOrder ==
  ASSUME OrderInv, NEW c \in Obj, ConnectionCheck(c) \/ CheckLoopExits(c)
  PROVE  OrderInv'
  <1>1. /\ BaseInv' /\ TypeInv /\ GoodCall(api)
        /\ UNCHANGED <<clusters, config, stopCh, db, api, work>>
    BY ConnectionBase DEF OrderInv, BaseInv, TypeInv, ConnectionCheck, CheckLoopExits
  <1>2. (Updates' \/ Deletes') /\ api'.st.created => stopCh[api'.obj] = "open"
    BY <1>1 DEF OrderInv, CreatedIsOpen, Updates, Deletes
  <1>3. HandlerConfig'
    BY <1>1 DEF OrderInv, HandlerConfig, Updates
  <1>4. CASE CheckLoopExits(c)
    <2>1. status' = status
      BY <1>4 DEF CheckLoopExits
    <2>2. HandlerAlone'
      BY <1>1, <2>1 DEF OrderInv, HandlerAlone, Updates, Deletes, Free
    <2>3. UpdateInstallsSavedConfig'
      BY <1>1 DEF OrderInv, UpdateInstallsSavedConfig
    <2>4. \A d \in clusters : /\ status[d] \notin {"Deleting", "Deleted"}
                              /\ db'[NameOf(d)] # Null /\ db'[NameOf(d)].created
                              => stopCh[d] = "open"
      BY <1>1 DEF OrderInv, CreatedIsOpen
    <2> QED
      BY <1>1, <1>2, <1>3, <2>1, <2>2, <2>3, <2>4, HandlerFrame
  <1>5. CASE ConnectionCheck(c)
    <2>1. PICK ev \in {"getInfoFailed", "getInfoSucceed"} :
            status[c] \in Src[ev] /\ Transit(c, ev)
      BY <1>5 DEF ConnectionCheck
    <2>2. ev \in DOMAIN Src /\ status \in [Obj -> Statuses] /\ EventMuFree(c)
      BY <1>1, <1>5, <2>1, CheckEventFacts DEF TypeInv, TypeOK, ConnectionCheck
    <2>3. /\ \A d \in Obj : d # c => status'[d] = status[d]
          /\ status'[c] = Dst[ev]
      BY <2>1, <2>2, TransitFacts DEF Accepts
    <2>4. /\ status[c] \in {"Running", "Unreachable"}
          /\ status'[c] \in {"Running", "Unreachable"}
      BY <2>1, <2>3, CheckEventFacts
    <2>5. Free(c)
      BY <2>2, <2>4, IdleIsFree
    <2>6. HandlerAlone'
      BY <1>1, <2>3, <2>4
         DEF OrderInv, HandlerAlone, Updates, Deletes, Free, GoodCall
    <2> QED
      BY <1>1, <1>2, <1>3, <2>3, <2>4, <2>5, <2>6, StatusFrame
  <1> QED
    BY <1>4, <1>5

(* DeleteClose closes the channel of a cluster nobody else works on. *)
LEMMA DeleteCloseOrder ==
  ASSUME OrderInv, DeleteClose
  PROVE  OrderInv'
  <1> DEFINE c == api.obj
             s == api.st
  <1>1. /\ api.pc = "deleteClose" /\ GoodCall(api) /\ TypeInv /\ BaseInv
        /\ api' = IdleCall /\ UNCHANGED <<clusters, status, config>>
    BY DEF DeleteClose, OrderInv, BaseInv, TypeInv
  <1>2. /\ c \in Obj /\ s \in State /\ c \in clusters /\ status[c] = "Deleting"
    BY <1>1 DEF GoodCall, BaseInv, HandlerTarget
  <1>3. Free(c)
    BY <1>1 DEF OrderInv, HandlerAlone, Deletes
  <1>4. stopCh' = stopCh \/ stopCh' = [stopCh EXCEPT ![c] = "closed"]
    BY DEF DeleteClose
  <1>5. db' = db \/ Save(NameOf(c), s)
    BY DEF DeleteClose, DbFails
  <1>6. \/ work' = work
        \/ \E w \in IdleWorkers : Continue(w, Go("destroy", c, s))
    BY DEF DeleteClose
  <1> HIDE DEF c, s
  <1>7. BaseInv' /\ api'.pc = "idle"
    BY <1>1, DeleteCloseBase, IdleRecords
  <1>8. \A d \in Obj : d # c => stopCh'[d] = stopCh[d]
    BY <1>1, <1>2, <1>4 DEF TypeInv, TypeOK
  <1>9. \A d \in clusters : d # c => d \in Obj /\ db'[NameOf(d)] = db[NameOf(d)]
    <2>1. db \in [Name -> State \cup {Null}] /\ clusters \subseteq Obj
      BY <1>1 DEF TypeInv, TypeOK
    <2>2. \A d \in clusters : d # c => NameOf(d) # NameOf(c) /\ NameOf(d) \in Name
      BY <1>1, <1>2, <2>1, NameOfType DEF BaseInv, UniqueNames
    <2> QED
      BY <1>2, <1>5, <2>1, <2>2, NameOfType DEF Save
  <1>10. /\ \A v \in Worker : \/ work'[v] = work[v]
                              \/ /\ work'[v].job = "destroy" /\ work'[v].obj = c
                                 /\ work'[v].pc = "up" /\ work'[v].more = FALSE
         /\ \A v, w \in Worker : work'[v] # work[v] /\ work'[w] # work[w] => v = w
    <2>1. ASSUME NEW w \in IdleWorkers, Continue(w, Go("destroy", c, s))
          PROVE  <1>10!:
      <3>1. w \in Worker
        BY DEF IdleWorkers
      <3>2. /\ OnlyWorker(w) /\ work'[w].job = "destroy" /\ work'[w].obj = c
            /\ work'[w].pc = "up" /\ work'[w].more = FALSE
        BY <1>1, <1>2, <2>1, <3>1, GoStep
      <3> QED
        BY <3>1, <3>2 DEF OnlyWorker
    <2> QED
      BY <1>6, <2>1
  <1>11. \A v \in Worker : work[v].obj # c
    BY <1>3 DEF Free
  <1>12. NoneGoesOn' /\ SingleWorker'
    BY <1>10, <1>11, SMTT(40) DEF OrderInv, NoneGoesOn, SingleWorker
  <1>13. StatusOfWorker'
    <2> SUFFICES ASSUME NEW v \in Worker PROVE StatusOfWorker!(v)'
      BY DEF StatusOfWorker
    <2>1. CASE work'[v] = work[v]
      BY <2>1, <1>1, <1>2, <1>11, OtherWorkers
    <2>2. CASE work'[v] # work[v]
      BY <2>2, <1>10 DEF Busy
    <2> QED
      BY <2>1, <2>2
  <1>14. HandlerAlone' /\ HandlerConfig'
    BY <1>7 DEF HandlerAlone, HandlerConfig, Updates, Deletes
  <1>15. CreatedIsOpen'
    <2>1. \A v \in Worker : /\ work'[v].pc # "idle" /\ work'[v].job # "destroy"
                            /\ work'[v].st.created
                            => stopCh'[work'[v].obj] = "open"
      <3> SUFFICES ASSUME NEW v \in Worker, work'[v].pc # "idle",
                          work'[v].job # "destroy", work'[v].st.created
                   PROVE  stopCh'[work'[v].obj] = "open"
        OBVIOUS
      <3>1. work'[v] = work[v] /\ work[v].obj # c /\ GoodWork(work[v])
        BY <1>1, <1>10, <1>11 DEF TypeInv
      <3>2. work[v].obj \in Obj
        BY <3>1 DEF GoodWork
      <3> QED
        BY <3>1, <3>2, <1>8 DEF OrderInv, CreatedIsOpen
    <2>2. \A d \in clusters : /\ status[d] \notin {"Deleting", "Deleted"}
                              /\ db'[NameOf(d)] # Null /\ db'[NameOf(d)].created
                              => stopCh'[d] = "open"
      BY <1>2, <1>8, <1>9 DEF OrderInv, CreatedIsOpen
    <2> QED
      BY <1>1, <1>7, <2>1, <2>2 DEF CreatedIsOpen, Updates, Deletes
  <1>16. UpdateInstallsSavedConfig'
    <2> SUFFICES ASSUME NEW v \in Worker, work'[v].job = "update",
                        work'[v].st.created, work'[v].pc = "up"
                 PROVE  /\ config[work'[v].obj] = work'[v].st.cfg
                        /\ db'[NameOf(work'[v].obj)] # Null =>
                             db'[NameOf(work'[v].obj)] = work'[v].st
      BY <1>1 DEF UpdateInstallsSavedConfig
    <2>1. work'[v] = work[v] /\ work[v].obj # c
      BY <1>10, <1>11
    <2>2. work[v].obj \in clusters
      BY <2>1, UpdaterListed
    <2> QED
      BY <2>1, <2>2, <1>9 DEF OrderInv, UpdateInstallsSavedConfig
  <1> QED
    BY <1>7, <1>12, <1>13, <1>14, <1>15, <1>16 DEF OrderInv
-----------------------------------------------------------------------------
(***************************************************************************)
(* Goroutines preserve OrderInv.                                           *)
(***************************************************************************)

(* After a step of w the other goroutines are where they were, and w is    *)
(* still on its cluster or on none.                                        *)
LEMMA WorkFrame ==
  ASSUME OrderInv, NEW w \in Worker, OnlyWorker(w), work'[w].more = FALSE,
         work'[w].obj \in {work[w].obj, Null}
  PROVE  NoneGoesOn' /\ SingleWorker'
  BY SMTT(40) DEF OrderInv, NoneGoesOn, SingleWorker, OnlyWorker

(* The handler's part of OrderInv when w stays on its cluster or returns,  *)
(* and does not start to update.                                           *)
LEMMA HandlerUndisturbed ==
  ASSUME OrderInv, NEW w \in Worker, OnlyWorker(w),
         work'[w].obj \in {work[w].obj, Null}, work'[w].pc # "up",
         UNCHANGED <<config, api>>,
         api.pc # "idle" => status'[api.obj] = status[api.obj] \/ work[w].obj = api.obj,
         api.pc = "updateEvent" /\ api.st.created =>
           db'[NameOf(api.obj)] \in {Null, db[NameOf(api.obj)]}
  PROVE  HandlerAlone' /\ HandlerConfig'
  <1>1. GoodCall(api)
    BY DEF OrderInv, BaseInv, TypeInv
  <1>2. (Updates \/ Deletes) => api.obj \in Obj /\ api.obj # Null
    BY <1>1, NullFacts DEF GoodCall, Updates, Deletes
  <1>3. (Updates \/ Deletes) /\ Free(api.obj) =>
          Free(api.obj)' /\ status'[api.obj] = status[api.obj]
    BY <1>2 DEF Free, OnlyWorker, Updates, Deletes
  <1>4. HandlerAlone'
    BY <1>3 DEF OrderInv, HandlerAlone, Updates, Deletes
  <1>5. HandlerConfig'
    BY DEF OrderInv, HandlerConfig, Updates, OnlyWorker
  <1> QED
    BY <1>4, <1>5

(* upZKECluster, removeZKECluster and setCache end. *)
LEMMA UpCacheOrder ==
  ASSUME OrderInv, NEW w \in Worker,
         UpReturns(w) \/ UpPanics(w) \/ RemoveReturns(w) \/ CacheSet(w)
  PROVE  OrderInv'
  <1>1. /\ TypeInv /\ BaseInv /\ GoodWork(work[w]) /\ BaseInv'
        /\ UNCHANGED <<clusters, status, config, db, api>>
    BY UpCacheBase DEF OrderInv, BaseInv, TypeInv, UpReturns, UpPanics,
       RemoveReturns, CacheSet
  <1>2. /\ OnlyWorker(w) /\ Keeps(w) /\ work'[w].more = FALSE
        /\ work[w].pc \in {"up", "cache"} /\ work'[w].pc \in {"event", "cache"}
        /\ \/ /\ work'[w].st = work[w].st
              /\ work'[w].pc = "cache" => ~work[w].st.created
              /\ work'[w].pc = "event" => work'[w].ev # "createSucceed"
              /\ stopCh' = stopCh /\ work[w].pc = "up"
           \/ /\ work[w].pc = "cache" /\ work'[w].pc = "event"
              /\ work'[w].ev = "createSucceed"
              /\ stopCh' = [stopCh EXCEPT ![work[w].obj] = "open"]
    <2>1. CASE CacheSet(w)
      <3>1. stopCh' = [stopCh EXCEPT ![work[w].obj] = "open"]
        BY <2>1 DEF CacheSet
      <3> QED
        BY <2>1, <3>1, <1>1, CacheSetStep
    <2>2. CASE UpReturns(w) \/ UpPanics(w) \/ RemoveReturns(w)
      <3>1. stopCh' = stopCh /\ work[w].more = FALSE
        BY <2>2 DEF UpReturns, UpPanics, RemoveReturns, OrderInv, NoneGoesOn
      <3> QED
        BY <2>2, <3>1, <1>1, UpStep
    <2> QED
      BY <2>1, <2>2
  <1>3. work[w].obj \in Obj /\ stopCh \in [Obj -> {"nil", "open", "closed"}]
    BY <1>1, <1>2 DEF GoodWork, TypeInv, TypeOK
  <1>4. \A d \in Obj : stopCh[d] = "open" => stopCh'[d] = "open"
    BY <1>2, <1>3
  <1>5. NoneGoesOn' /\ SingleWorker'
    BY <1>2, WorkFrame DEF Keeps
  <1>6. StatusOfWorker'
    <2> SUFFICES ASSUME NEW v \in Worker PROVE StatusOfWorker!(v)'
      BY DEF StatusOfWorker
    <2>1. CASE v # w
      BY <2>1, <1>1, <1>2 DEF OrderInv, StatusOfWorker, Busy, OnlyWorker
    <2>2. CASE v = w
      BY <2>2, <1>1, <1>2 DEF OrderInv, StatusOfWorker, Busy, Keeps
    <2> QED
      BY <2>1, <2>2
  <1>7. HandlerAlone' /\ HandlerConfig'
    BY <1>1, <1>2, HandlerUndisturbed DEF Keeps
  <1>8. CreatedIsOpen'
    <2>1. (Updates' \/ Deletes') /\ api'.st.created => stopCh'[api'.obj] = "open"
      <3>1. GoodCall(api)
        BY <1>1 DEF TypeInv
      <3> QED
        BY <3>1, <1>1, <1>4 DEF OrderInv, CreatedIsOpen, Updates, Deletes, GoodCall
    <2>2. ASSUME NEW v \in Worker, work'[v].pc # "idle", work'[v].job # "destroy",
                 work'[v].st.created
          PROVE  stopCh'[work'[v].obj] = "open"
      <3>1. CASE v # w
        <4>1. work'[v] = work[v] /\ GoodWork(work[v])
          BY <3>1, <1>1, <1>2 DEF OnlyWorker, TypeInv
        <4>2. work[v].obj \in Obj
          BY <4>1, <2>2 DEF GoodWork
        <4> QED
          BY <4>1, <4>2, <2>2, <1>4 DEF OrderInv, CreatedIsOpen
      <3>2. CASE v = w
        BY <3>2, <2>2, <1>2, <1>3, SMTT(40) DEF OrderInv, CreatedIsOpen, Keeps
      <3> QED
        BY <3>1, <3>2
    <2>3. \A d \in clusters : /\ status[d] \notin {"Deleting", "Deleted"}
                              /\ db[NameOf(d)] # Null /\ db[NameOf(d)].created
                              => stopCh'[d] = "open"
      BY <1>1, <1>4 DEF OrderInv, CreatedIsOpen, TypeInv, TypeOK
    <2> QED
      BY <1>1, <2>1, <2>2, <2>3 DEF CreatedIsOpen
  <1>9. UpdateInstallsSavedConfig'
    BY <1>1, <1>2, SMTT(40) DEF OrderInv, UpdateInstallsSavedConfig, OnlyWorker
  <1> QED
    BY <1>1, <1>5, <1>6, <1>7, <1>8, <1>9 DEF OrderInv
(* A goroutine returns, after saving its state, deleting the record of its *)
(* name or having its event rejected.                                      *)
LEMMA LeaveOrder ==
  ASSUME OrderInv, BaseInv', NEW w \in Worker, OnlyWorker(w),
         work[w].obj \in Obj,
         work'[w].pc = "idle", work'[w].obj = Null, work'[w].more = FALSE,
         UNCHANGED <<clusters, status, config, stopCh, api>>,
         \A d \in clusters :
           \/ db'[NameOf(d)] \in {db[NameOf(d)], Null}
           \/ /\ d = work[w].obj /\ work[w].pc = "callback"
              /\ db'[NameOf(d)] = work[w].st
  PROVE  OrderInv'
  <1>1. NoneGoesOn' /\ SingleWorker'
    BY WorkFrame
  <1>2. StatusOfWorker'
    BY SMTT(40) DEF OrderInv, StatusOfWorker, Busy, OnlyWorker
  <1>3. HandlerAlone' /\ HandlerConfig'
    <2>1. api.pc = "updateEvent" /\ api.st.created =>
            db'[NameOf(api.obj)] \in {Null, db[NameOf(api.obj)]}
      <3>1. api.pc = "updateEvent" /\ api.st.created =>
              api.obj \in clusters /\ Free(api.obj)
        BY DEF OrderInv, BaseInv, HandlerTarget, HandlerAlone, Updates
      <3> QED
        BY <3>1 DEF Free
    <2> QED
      BY <2>1, HandlerUndisturbed
  <1>4. CreatedIsOpen'
    <2>1. work[w].pc = "callback" /\ work[w].st.created =>
            stopCh[work[w].obj] = "open"
      <3>1. GoodWork(work[w])
        BY DEF OrderInv, BaseInv, TypeInv
      <3> QED
        BY <3>1 DEF OrderInv, CreatedIsOpen, GoodWork
    <2>2. \A d \in clusters : /\ status[d] \notin {"Deleting", "Deleted"}
                              /\ db'[NameOf(d)] # Null /\ db'[NameOf(d)].created
                              => stopCh[d] = "open"
      BY <2>1, SMTT(60) DEF OrderInv, CreatedIsOpen
    <2>3. \A v \in Worker : /\ work'[v].pc # "idle" /\ work'[v].job # "destroy"
                            /\ work'[v].st.created
                            => stopCh[work'[v].obj] = "open"
      BY SMTT(40) DEF OrderInv, CreatedIsOpen, OnlyWorker
    <2>4. (Updates' \/ Deletes') /\ api'.st.created => stopCh'[api'.obj] = "open"
      BY DEF OrderInv, CreatedIsOpen, Updates, Deletes
    <2> QED
      BY <2>2, <2>3, <2>4 DEF CreatedIsOpen
  <1>5. UpdateInstallsSavedConfig'
    <2> SUFFICES ASSUME NEW v \in Worker, work'[v].job = "update",
                        work'[v].st.created, work'[v].pc = "up"
                 PROVE  /\ config[work'[v].obj] = work'[v].st.cfg
                        /\ db'[NameOf(work'[v].obj)] # Null =>
                             db'[NameOf(work'[v].obj)] = work'[v].st
      BY DEF UpdateInstallsSavedConfig
    <2>1. v # w /\ work'[v] = work[v]
      BY DEF OnlyWorker
    <2>2. work[v].obj \in clusters /\ work[v].obj \in Obj
      BY <2>1, UpdaterListed
    <2>3. work[v].obj # work[w].obj
      BY <2>1, <2>2, NullFacts DEF OrderInv, SingleWorker
    <2> QED
      BY <2>1, <2>2, <2>3, SMTT(40) DEF OrderInv, UpdateInstallsSavedConfig
  <1> QED
    BY <1>1, <1>2, <1>3, <1>4, <1>5 DEF OrderInv

(* The end of a callback. *)
LEMMA CallbackOrder ==
  ASSUME OrderInv, NEW w \in Worker, Callback(w) \/ DeleteRecord(w)
  PROVE  OrderInv'
  <1> DEFINE c == work[w].obj
  <1>1. /\ TypeInv /\ BaseInv /\ BaseInv' /\ GoodWork(work[w])
        /\ work[w].more = FALSE
        /\ UNCHANGED <<clusters, status, config, stopCh, api>>
        /\ Continue(w, AfterEvent(w)) /\ work[w].pc \in {"callback", "dbDelete"}
    BY CallbackBase, DeleteRecordBase
       DEF OrderInv, NoneGoesOn, BaseInv, TypeInv, Callback, DeleteRecord
  <1>2. c \in Obj
    BY <1>1 DEF GoodWork
  <1>3. /\ OnlyWorker(w) /\ work'[w].pc = "idle" /\ work'[w].obj = Null
        /\ work'[w].more = FALSE
    BY <1>1, AfterEventStep
  <1>4. \/ db' = db
        \/ Save(NameOf(c), Null)
        \/ work[w].pc = "callback" /\ Save(NameOf(c), work[w].st)
    BY DEF Callback, DeleteRecord, DbFails
  <1>5. db \in [Name -> State \cup {Null}] /\ clusters \subseteq Obj
    BY <1>1 DEF TypeInv, TypeOK
  <1>6. CASE db' = db \/ Save(NameOf(c), Null)
    <2>1. \A d \in clusters : db'[NameOf(d)] \in {db[NameOf(d)], Null}
      BY <1>5, <1>6, NameOfType DEF Save
    <2> QED
      BY <1>1, <1>2, <1>3, <2>1, LeaveOrder
  <1>7. CASE work[w].pc = "callback" /\ Save(NameOf(c), work[w].st)
    <2>1. c \in clusters
      BY <1>2, <1>7, WorkerStatuses DEF OrderInv, BaseInv, LiveIsListed
    <2>2. \A d \in clusters : d # c => NameOf(d) # NameOf(c)
      BY <1>1, <2>1 DEF BaseInv, UniqueNames
    <2>3. /\ db'[NameOf(c)] = work[w].st
          /\ \A d \in clusters : d # c => db'[NameOf(d)] = db[NameOf(d)]
      BY <1>2, <1>5, <1>7, <2>2, NameOfType DEF Save
    <2> QED
      BY <1>1, <1>2, <1>3, <1>7, <2>3, LeaveOrder
  <1> QED
    BY <1>4, <1>6, <1>7

(* An event is sent. *)
LEMMA SendEventOrder ==
  ASSUME OrderInv, NEW w \in Worker, SendEvent(w)
  PROVE  OrderInv'
  <1> DEFINE c == work[w].obj
             ev == work[w].ev
  <1>1. /\ TypeInv /\ BaseInv /\ BaseInv' /\ Transit(c, ev) /\ work[w].more = FALSE
        /\ UNCHANGED <<clusters, config, stopCh, db, api>>
    BY SendEventBase DEF OrderInv, NoneGoesOn, BaseInv, SendEvent
  <1>2. /\ OnlyWorker(w) /\ work[w].pc = "event" /\ c \in Obj
        /\ ev \in WorkEvents
        /\ ev = "deleteCompleted" <=> work[w].job = "destroy"
    BY <1>1, SendEventStep
  <1>3. status \in [Obj -> Statuses] /\ ev \in DOMAIN Src /\ c # Null
    BY <1>1, <1>2, WorkEventsInTable, NullFacts DEF TypeInv, TypeOK
  <1>4. CASE ~Accepts(c, ev)
    <2>1. status' = status
      BY <1>1, <1>2, <1>3, <1>4, TransitFacts
    <2>2. Continue(w, AfterEvent(w))
      BY <1>1, <1>4, SendEventStep
    <2>3. /\ work'[w].pc = "idle" /\ work'[w].obj = Null /\ work'[w].more = FALSE
      BY <1>1, <1>2, <2>2, AfterEventStep
    <2> QED
      BY <1>1, <1>2, <2>1, <2>3, LeaveOrder
  <1>5. CASE Accepts(c, ev)
    <2>1. /\ Keeps(w) /\ work'[w].ev = ev /\ work'[w].st = work[w].st
          /\ work'[w].more = FALSE
          /\ work'[w].pc = IF work[w].job = "destroy" THEN "remove" ELSE "callback"
      BY <1>1, <1>5, SendEventStep
    <2>2. /\ status'[c] = Dst[ev] /\ status[c] \in Src[ev]
          /\ \A d \in Obj : d # c => status'[d] = status[d]
      BY <1>1, <1>2, <1>3, <1>5, TransitFacts
    <2>3. /\ status[c] \in {"Creating", "Updating", "Deleting"}
          /\ status[c] = "Deleting" => status'[c] = "Deleted"
      <3> HIDE DEF c, ev
      <3> QED
        BY <1>2, <2>2, WorkEventFacts
    <2>4. \A v \in Worker : v # w => work'[v] = work[v] /\ work[v].obj # c
      BY <1>2, <1>3 DEF OnlyWorker, OrderInv, SingleWorker
    <2>5. NoneGoesOn' /\ SingleWorker'
      BY <1>2, <2>1, WorkFrame DEF Keeps
    <2>6. StatusOfWorker'
      <3> SUFFICES ASSUME NEW v \in Worker PROVE StatusOfWorker!(v)'
        BY DEF StatusOfWorker
      <3>1. CASE v # w
        BY <3>1, <1>2, <2>2, <2>4, OtherWorkers
      <3>2. CASE v = w
        BY <3>2, <2>1, <2>2 DEF Busy, Keeps
      <3> QED
        BY <3>1, <3>2
    <2>7. HandlerAlone' /\ HandlerConfig'
      <3>1. api.pc # "idle" => status'[api.obj] = status[api.obj] \/ c = api.obj
        BY <1>1, <2>2 DEF TypeInv, GoodCall
      <3> QED
        BY <3>1, <1>1, <1>2, <2>1, HandlerUndisturbed DEF Keeps
    <2>8. CreatedIsOpen'
      <3>1. \A d \in clusters : status'[d] \notin {"Deleting", "Deleted"} =>
              status[d] \notin {"Deleting", "Deleted"}
        BY <1>1, <2>2, <2>3 DEF TypeInv, TypeOK
      <3>2. \A v \in Worker : /\ work'[v].pc # "idle" /\ work'[v].job # "destroy"
                              /\ work'[v].st.created
                              => stopCh[work'[v].obj] = "open"
        <4> SUFFICES ASSUME NEW v \in Worker, work'[v].pc # "idle",
                            work'[v].job # "destroy", work'[v].st.created
                     PROVE  stopCh[work'[v].obj] = "open"
          OBVIOUS
        <4>1. /\ work[v].pc # "idle" /\ work[v].job # "destroy" /\ work[v].st.created
              /\ work'[v].obj = work[v].obj
          BY <1>2, <2>1, <2>4 DEF Keeps
        <4> QED
          BY <4>1 DEF OrderInv, CreatedIsOpen
      <3> QED
        BY <1>1, <3>1, <3>2 DEF OrderInv, CreatedIsOpen, Updates, Deletes
    <2>9. UpdateInstallsSavedConfig'
      BY <1>1, <2>1, <2>4 DEF OrderInv, UpdateInstallsSavedConfig
    <2> QED
      BY <1>1, <2>5, <2>6, <2>7, <2>8, <2>9 DEF OrderInv
  <1> QED
    BY <1>4, <1>5
(* A deleted cluster leaves the list. *)
LEMMA RemoveOrder ==
  ASSUME OrderInv, NEW w \in Worker, RemoveFromList(w)
  PROVE  OrderInv'
  <1>1. /\ TypeInv /\ BaseInv /\ BaseInv' /\ api.pc = "idle"
        /\ UNCHANGED <<status, config, stopCh, db, api>>
    BY RemoveBase DEF OrderInv, BaseInv, RemoveFromList, LockFree
  <1>2. /\ OnlyWorker(w) /\ Keeps(w) /\ work'[w].pc = "dbDelete"
        /\ work[w].job = "destroy"
    BY <1>1, RemoveStep
  <1>3. work'[w].more = FALSE
    BY <1>2 DEF OnlyWorker, GoodWork, Keeps
  <1>4. clusters' \subseteq clusters
    BY <1>1, RemoveDropsItsOwn
  <1>5. NoneGoesOn' /\ SingleWorker'
    BY <1>2, <1>3, WorkFrame DEF Keeps
  <1>6. StatusOfWorker'
    BY <1>1, <1>2, SMTT(40) DEF OrderInv, StatusOfWorker, Busy, OnlyWorker, Keeps
  <1>7. HandlerAlone' /\ HandlerConfig'
    BY <1>1 DEF HandlerAlone, HandlerConfig, Updates, Deletes
  <1>8. CreatedIsOpen'
    <2>1. \A v \in Worker : /\ work'[v].pc # "idle" /\ work'[v].job # "destroy"
                            /\ work'[v].st.created
                            => stopCh[work'[v].obj] = "open"
      BY <1>2 DEF OrderInv, CreatedIsOpen, OnlyWorker, Keeps
    <2> QED
      BY <1>1, <1>4, <2>1 DEF OrderInv, CreatedIsOpen, Updates, Deletes
  <1>9. UpdateInstallsSavedConfig'
    BY <1>1, <1>2 DEF OrderInv, UpdateInstallsSavedConfig, OnlyWorker
  <1> QED
    BY <1>1, <1>5, <1>6, <1>7, <1>8, <1>9 DEF OrderInv

(* A restart opens the channel of every cluster whose record says Created. *)
LEMMA RestartOrder ==
  ASSUME OrderInv, Restart
  PROVE  OrderInv'
  <1>1. PICK g \in Gen, f \in SUBSET Name :
          status' = [c \in Obj |-> IF c[2] = g THEN LoadedStatus(NameOf(c), f)
                                               ELSE "Init"]
    BY DEF Restart
  <1>2. /\ clusters'  = {c \in Obj : status'[c] # "Init"}
        /\ stopCh' = [c \in Obj |-> IF status'[c] = "Running" THEN "open" ELSE "nil"]
        /\ api' = IdleCall /\ work' = [w \in Worker |-> IdleWork] /\ db' = db
    BY DEF Restart
  <1>3. BaseInv'
    BY RestartBase DEF OrderInv
  <1>4. /\ api'.pc = "idle"
        /\ \A w \in Worker : /\ work'[w].pc = "idle" /\ work'[w].obj = Null
                             /\ work'[w].more = FALSE
    BY <1>2, IdleRecords
  <1>5. \A c \in clusters' : db'[NameOf(c)] # Null /\ db'[NameOf(c)].created =>
          stopCh'[c] = "open"
    BY <1>1, <1>2 DEF LoadedStatus
  <1> QED
    BY <1>3, <1>4, <1>5 DEF OrderInv, NoneGoesOn, SingleWorker, StatusOfWorker,
       Busy, HandlerAlone, HandlerConfig, CreatedIsOpen, Updates, Deletes,
       UpdateInstallsSavedConfig

(* Every step preserves OrderInv if setCache does not fail. *)
LEMMA NextOrder ==
  ASSUME "setCache" \notin Faults
  PROVE  OrderInv /\ [Next]_vars => OrderInv'
  <1> SUFFICES ASSUME OrderInv, [Next]_vars PROVE OrderInv'
    OBVIOUS
  <1>1. CASE UNCHANGED vars
    <2>1. BaseInv'
      BY <1>1, NextBase DEF OrderInv
    <2>2. HandlerAlone' /\ HandlerConfig' /\ UpdateInstallsSavedConfig'
      BY <1>1 DEF vars, OrderInv, HandlerAlone, HandlerConfig, Updates, Deletes,
         Free, UpdateInstallsSavedConfig
    <2>3. CreatedIsOpen'
      BY <1>1 DEF vars, OrderInv, CreatedIsOpen, Updates, Deletes
    <2>4. NoneGoesOn' /\ SingleWorker' /\ StatusOfWorker'
      BY <1>1 DEF vars, OrderInv, NoneGoesOn, SingleWorker, StatusOfWorker, Busy
    <2> QED
      BY <2>1, <2>2, <2>3, <2>4 DEF OrderInv
  <1>2. ASSUME NEW w \in Worker, WorkStep(w)
        PROVE  OrderInv'
    BY <1>2, UpCacheOrder, SendEventOrder, CallbackOrder, RemoveOrder
       DEF WorkStep, CacheFails
  <1>3. CASE CancelSet \/ \E c \in Obj : CancelBegin(c)
    <2>1. BaseInv'
      BY <1>3, CancelBase DEF OrderInv
    <2>2. /\ api'.pc \in {"idle", "cancelSet"}
          /\ UNCHANGED <<clusters, status, config, stopCh, db, work>>
      BY <1>3, IdleRecords, SMTT(40) DEF CancelSet, CancelBegin
    <2> QED
      BY <2>1, <2>2, ReturnOrder
  <1>4. CASE Handler
    BY <1>3, <1>4, UpdateSaveOrder, UpdateEventOrder, DeleteEventOrder,
       DeleteCloseOrder DEF Handler
  <1> QED
    BY <1>1, <1>2, <1>3, <1>4, CreateOrder, UpdateBeginOrder, DeleteBeginOrder,
       ConnectionOrder, RestartOrder DEF Next

-----------------------------------------------------------------------------
(***************************************************************************)
(* Theorems.                                                               *)
(***************************************************************************)

(* If setCache does not fail, two goroutines never install, update or      *)
(* destroy the same cluster at the same time.                              *)
THEOREM OneWorkerPerCluster ==
  ASSUME "setCache" \notin Faults
  PROVE  Spec => []SingleWorker
  <1>1. OrderInv => SingleWorker
    BY DEF OrderInv
  <1>2. OrderInv /\ [Next]_vars => OrderInv'
    BY NextOrder
  <1> QED
    BY <1>1, <1>2, InitOrder, PTL DEF Spec

(* If setCache does not fail, the delete handler never closes a channel    *)
(* that is nil or closed.                                                  *)
THEOREM CloseNeverPanics ==
  ASSUME "setCache" \notin Faults
  PROVE  Spec => []CloseIsSafe
  <1>1. OrderInv => CloseIsSafe
    BY DEF OrderInv, CreatedIsOpen, Deletes, CloseIsSafe
  <1>2. OrderInv /\ [Next]_vars => OrderInv'
    BY NextOrder
  <1> QED
    BY <1>1, <1>2, InitOrder, PTL DEF Spec

(* If setCache does not fail, a running update of a created cluster        *)
(* installs the configuration that memory and database hold.               *)
THEOREM UpdateConfigAgrees ==
  ASSUME "setCache" \notin Faults
  PROVE  Spec => []UpdateInstallsSavedConfig
  <1>1. OrderInv => UpdateInstallsSavedConfig
    BY DEF OrderInv
  <1>2. OrderInv /\ [Next]_vars => OrderInv'
    BY NextOrder
  <1> QED
    BY <1>1, <1>2, InitOrder, PTL DEF Spec
-----------------------------------------------------------------------------
(***************************************************************************)
(* When upZKECluster does not panic and the database does not fail either, *)
(* no event is rejected and no cluster is left in a busy state.            *)
(***************************************************************************)

Undisturbed == Faults \cap {"setCache", "panic", "db"} = {}

ProgressInv == OrderInv /\ EventFits /\ BusyHasWorker

(* The event reported fits the state the goroutine was started for. *)
LEMMA ReportFits ==
  ASSUME OrderInv, NEW w \in Worker, UpReturns(w) \/ RemoveReturns(w),
         work'[w].pc = "event"
  PROVE  status[work[w].obj] \in Src[work'[w].ev]
  <1>1. TypeInv /\ GoodWork(work[w]) /\ work[w].pc = "up"
    BY DEF OrderInv, BaseInv, TypeInv, UpReturns, RemoveReturns
  <1>2. work[w] \in WorkType /\ work[w].st \in State
        /\ work \in [Worker -> WorkType]
    BY <1>1 DEF GoodWork, TypeInv, TypeOK, WorkType
  <1>3. ASSUME NEW ev \in WorkEvents, Continue(w, Report(w, ev))
        PROVE  work'[w].ev = ev
    BY <1>2, <1>3, ReportRecord DEF Continue
  <1>4. CASE RemoveReturns(w)
    <2>1. Continue(w, Report(w, "deleteCompleted")) /\ work[w].job = "destroy"
      BY <1>4 DEF RemoveReturns
    <2>2. work'[w].ev = "deleteCompleted"
      BY <2>1, <1>3 DEF WorkEvents
    <2> QED
      BY <2>1, <2>2, <1>1, EventTable
         DEF OrderInv, BaseInv, DestroyerStatus, Destroying
  <1>5. CASE UpReturns(w)
    <2> DEFINE ev == ReportEvent(work[w].st, work[w].obj \in isCanceled)
    <2>1. Continue(w, Report(w, ev))
      <3>1. Continue(w, At(w, "cache")) => work'[w].pc = "cache"
        BY <1>2, AtRecord DEF Continue
      <3> QED
        BY <3>1, <1>5 DEF UpReturns
    <2>2. work[w].job # "destroy"
      BY <1>5 DEF UpReturns
    <2>3. /\ work[w].st.created => status[work[w].obj] = "Updating"
          /\ ~work[w].st.created => status[work[w].obj] = "Creating"
      BY <1>1, <2>2 DEF OrderInv, StatusOfWorker, Busy
    <2>4. /\ work[w].st.created => ev \in {"updateCanceled", "updateCompleted"}
          /\ ~work[w].st.created => ev \in {"createCanceled", "createFailed"}
      <3>1. work[w].st.created \in BOOLEAN
        BY <1>2 DEF State
      <3> QED
        BY <3>1 DEF ReportEvent
    <2> HIDE DEF ev
    <2>5. ev \in WorkEvents
      BY <2>4 DEF WorkEvents
    <2>6. work'[w].ev = ev
      BY <2>1, <2>5, <1>3
    <2> QED
      BY <2>3, <2>4, <2>6, EventTable
  <1> QED
    BY <1>4, <1>5

(* Steps that leave the states and the objects of goroutines alone. *)
LEMMA ProgressFrame ==
  ASSUME ProgressInv, OrderInv', UNCHANGED status, clusters' \subseteq clusters,
         \A w \in Worker : work'[w].obj = work[w].obj,
         api.pc = "deleteClose" => api' = api,
         \A w \in Worker : work'[w].pc = "event" =>
           work'[w] = work[w] \/ status[work[w].obj] \in Src[work'[w].ev]
  PROVE  ProgressInv'
  <1>1. EventFits'
    BY DEF ProgressInv, EventFits
  <1>2. BusyHasWorker'
    BY DEF ProgressInv, BusyHasWorker
  <1> QED
    BY <1>1, <1>2 DEF ProgressInv

(* Steps about one cluster c, after which c is not busy or has a goroutine.*)
LEMMA ProgressOn ==
  ASSUME ProgressInv, OrderInv', NEW c \in Obj,
         \A d \in Obj : d # c => status'[d] = status[d],
         clusters' \subseteq clusters \cup {c},
         \A w \in Worker : \/ work'[w] = work[w] /\ work[w].obj # c
                           \/ work'[w].pc # "event" /\ work[w].obj \in {c, Null},
         api.pc = "deleteClose" => api' = api \/ api.obj = c,
         \/ status'[c] \notin {"Creating", "Updating", "Deleting"}
         \/ \E w \in Worker : work'[w].obj = c
         \/ api'.pc = "deleteClose" /\ api'.obj = c
  PROVE  ProgressInv'
  <1>1. \A w \in Worker : work[w].pc = "event" => work[w].obj \in Obj
    BY DEF ProgressInv, OrderInv, BaseInv, TypeInv, GoodWork
  <1>2. EventFits'
    BY <1>1 DEF ProgressInv, EventFits
  <1>3. BusyHasWorker'
    <2> SUFFICES ASSUME NEW d \in clusters',
                        status'[d] \in {"Creating", "Updating", "Deleting"}
                 PROVE  \/ \E w \in Worker : work'[w].obj = d
                        \/ api'.pc = "deleteClose" /\ api'.obj = d
      BY DEF BusyHasWorker
    <2>1. CASE d = c
      BY <2>1
    <2>2. CASE d # c
      <3>1. d \in clusters /\ d \in Obj /\ d # Null
        BY <2>2, NullFacts, SMTT(40) DEF ProgressInv, OrderInv, BaseInv, TypeInv, TypeOK
      <3> QED
        BY <2>2, <3>1, SMTT(60) DEF ProgressInv, BusyHasWorker
    <2> QED
      BY <2>1, <2>2
  <1> QED
    BY <1>2, <1>3 DEF ProgressInv
(* A goroutine starts on a cluster that has none. *)
LEMMA StartProgress ==
  ASSUME ProgressInv, OrderInv', NEW c \in Obj, NEW s \in State, Free(c),
         NEW j \in {"create", "update", "destroy"}, NEW w \in IdleWorkers,
         Continue(w, Go(j, c, s)),
         \A d \in Obj : d # c => status'[d] = status[d],
         clusters' \subseteq clusters \cup {c},
         api.pc = "deleteClose" => api' = api \/ api.obj = c
  PROVE  ProgressInv'
  <1>1. /\ w \in Worker /\ work[w].pc = "idle" /\ TypeInv /\ GoodWork(work[w])
    BY DEF IdleWorkers, ProgressInv, OrderInv, BaseInv, TypeInv
  <1>2. OnlyWorker(w) /\ work'[w].pc = "up" /\ work'[w].obj = c
    BY <1>1, GoStep
  <1>3. work[w].obj = Null
    BY <1>1 DEF GoodWork
  <1> QED
    BY <1>1, <1>2, <1>3, ProgressOn DEF OnlyWorker, Free

(* The handlers. *)
LEMMA HandlerProgress ==
  ASSUME ProgressInv, OrderInv', Undisturbed, Handler
  PROVE  ProgressInv'
  <1> DEFINE c == api.obj
             s == api.st
  <1>1. OrderInv /\ BaseInv /\ TypeInv /\ GoodCall(api) /\ "db" \notin Faults
    BY DEF ProgressInv, OrderInv, BaseInv, TypeInv, Undisturbed
  <1>2. CASE UpdateSave \/ CancelSet
    BY <1>2, ProgressFrame DEF UpdateSave, CancelSet
  <1>3. CASE UpdateEvent
    <2> DEFINE ev == IF s.created THEN "update" ELSE "continuteCreate"
    <2>1. /\ api.pc = "updateEvent" /\ EventMuFree(c) /\ Transit(c, ev)
          /\ clusters' = clusters
      BY <1>3 DEF UpdateEvent
    <2>2. /\ c \in Obj /\ s \in State /\ ev \in DOMAIN Src
          /\ status \in [Obj -> Statuses]
      BY <1>1, <2>1, EventTable DEF GoodCall, TypeInv, TypeOK
    <2>3. CASE ~Accepts(c, ev)
      <3>1. work' = work /\ status' = status
        BY <1>3, <2>1, <2>2, <2>3, TransitFacts DEF UpdateEvent
      <3> QED
        BY <2>1, <3>1, ProgressFrame
    <2>4. CASE Accepts(c, ev)
      <3>1. PICK w \in IdleWorkers : Continue(w, Go("update", c, s))
        BY <1>3, <2>4 DEF UpdateEvent
      <3>2. /\ status[c] \in Src[ev]
            /\ \A d \in Obj : d # c => status'[d] = status[d]
        BY <2>1, <2>2, <2>4, TransitFacts
      <3>3. status[c] \in {"Running", "CreateFailed"}
        BY <3>2, EventTable
      <3>4. Free(c)
        BY <1>1, <2>1, <2>2, <3>3, IdleIsFree
      <3> QED
        BY <2>1, <2>2, <3>1, <3>2, <3>4, StartProgress
    <2> QED
      BY <2>3, <2>4
  <1>4. CASE DeleteEvent
    <2>1. /\ api.pc = "deleteEvent" /\ Transit(c, "delete")
          /\ api' = [api EXCEPT !.pc = "deleteClose"]
          /\ clusters' = clusters /\ work' = work
      BY <1>4 DEF DeleteEvent
    <2>2. /\ api \in CallType /\ c \in Obj /\ "delete" \in DOMAIN Src
          /\ status \in [Obj -> Statuses]
      BY <1>1, <2>1, EventTable DEF GoodCall, TypeInv, TypeOK
    <2>3. api'.pc = "deleteClose" /\ api'.obj = c
      BY <2>1, <2>2 DEF CallType
    <2>4. Free(c)
      BY <1>1, <2>1 DEF OrderInv, HandlerAlone, Deletes
    <2>5. \A d \in Obj : d # c => status'[d] = status[d]
      BY <2>1, <2>2, TransitFacts
    <2> QED
      BY <2>1, <2>2, <2>3, <2>4, <2>5, ProgressOn DEF Free
  <1>5. CASE DeleteClose
    <2>1. /\ api.pc = "deleteClose" /\ clusters' = clusters /\ status' = status
      BY <1>5 DEF DeleteClose
    <2>2. c \in Obj /\ s \in State
      BY <1>1, <2>1 DEF GoodCall
    <2>3. Free(c) /\ (s.created => stopCh[c] = "open")
      BY <1>1, <2>1 DEF OrderInv, HandlerAlone, CreatedIsOpen, Deletes
    <2>4. PICK w \in IdleWorkers : Continue(w, Go("destroy", c, s))
      BY <1>1, <1>5, <2>3 DEF DeleteClose, DbFails
    <2> QED
      BY <2>1, <2>2, <2>3, <2>4, StartProgress
  <1> QED
    BY <1>2, <1>3, <1>4, <1>5 DEF Handler

(* The goroutines: every event is accepted, and ends the busy state. *)
LEMMA WorkProgress ==
  ASSUME ProgressInv, OrderInv', Undisturbed, NEW w \in Worker, WorkStep(w)
  PROVE  ProgressInv'
  <1> DEFINE c == work[w].obj
  <1>1. /\ OrderInv /\ BaseInv /\ TypeInv /\ GoodWork(work[w])
        /\ work[w].more = FALSE
        /\ ~CacheFails(w) /\ ~UpPanics(w)
    BY DEF ProgressInv, OrderInv, NoneGoesOn, BaseInv, TypeInv, Undisturbed,
           CacheFails, UpPanics
  <1>2. CASE UpReturns(w) \/ RemoveReturns(w)
    <2>1. UNCHANGED <<clusters, status, api>>
      BY <1>2 DEF UpReturns, RemoveReturns
    <2>2. OnlyWorker(w) /\ Keeps(w)
      BY <1>1, <1>2, UpStep
    <2>3. work'[w].pc = "event" => status[c] \in Src[work'[w].ev]
      BY <1>1, <1>2, ReportFits
    <2> QED
      BY <2>1, <2>2, <2>3, ProgressFrame DEF OnlyWorker, Keeps
  <1>3. CASE CacheSet(w)
    <2>1. UNCHANGED <<clusters, status, api>>
      BY <1>3 DEF CacheSet
    <2>2. /\ OnlyWorker(w) /\ Keeps(w) /\ work'[w].ev = "createSucceed"
          /\ work[w].pc = "cache"
      BY <1>1, <1>3, CacheSetStep
    <2>3. work[w].job # "destroy"
      BY <1>1, <2>2 DEF GoodWork
    <2>4. status[c] \in Src[work'[w].ev]
      BY <1>1, <2>2, <2>3, EventTable DEF OrderInv, StatusOfWorker, Busy
    <2> QED
      BY <2>1, <2>2, <2>4, ProgressFrame DEF OnlyWorker, Keeps
  <1>4. CASE SendEvent(w)
    <2> DEFINE ev == work[w].ev
    <2>1. /\ OnlyWorker(w) /\ work[w].pc = "event" /\ c \in Obj
          /\ ev \in WorkEvents
      BY <1>1, <1>4, SendEventStep
    <2>2. Accepts(c, ev)
      BY <2>1 DEF ProgressInv, EventFits, Accepts
    <2>3. Keeps(w) /\ work'[w].pc # "event"
      BY <1>1, <1>4, <2>2, SendEventStep
    <2>4. /\ Transit(c, ev) /\ UNCHANGED <<clusters, api>>
          /\ status \in [Obj -> Statuses] /\ ev \in DOMAIN Src
      BY <1>1, <1>4, <2>1, WorkEventsInTable DEF SendEvent, TypeInv, TypeOK
    <2>5. \A d \in Obj : d # c => status'[d] = status[d]
      BY <2>1, <2>4, TransitFacts
    <2>6. \A v \in Worker : v # w => work'[v] = work[v] /\ work[v].obj # c
      BY <1>1, <2>1, NullFacts DEF OnlyWorker, OrderInv, SingleWorker
    <2>7. work'[w].obj = c
      BY <2>3 DEF Keeps
    <2> HIDE DEF c, ev
    <2> QED
      BY <2>1, <2>3, <2>4, <2>5, <2>6, <2>7, ProgressOn DEF c
  <1>5. CASE Callback(w) \/ DeleteRecord(w)
    <2>1. /\ UNCHANGED <<clusters, status, api>> /\ Continue(w, AfterEvent(w))
          /\ work[w].pc \in {"callback", "dbDelete"}
      BY <1>5 DEF Callback, DeleteRecord
    <2>2. c \in Obj
      BY <1>1, <2>1 DEF GoodWork
    <2>3. OnlyWorker(w) /\ work'[w].pc = "idle"
      BY <1>1, <2>1, AfterEventStep
    <2>4. status[c] \notin {"Creating", "Updating", "Deleting"}
      BY <1>1, <2>1, <2>2, WorkerStatuses
    <2>5. \A v \in Worker : v # w => work'[v] = work[v] /\ work[v].obj # c
      BY <1>1, <2>2, <2>3, NullFacts DEF OnlyWorker, OrderInv, SingleWorker
    <2> QED
      BY <2>1, <2>2, <2>3, <2>4, <2>5, ProgressOn
  <1>6. CASE RemoveFromList(w)
    <2>1. UNCHANGED <<status, api>> /\ clusters' \subseteq clusters
      BY <1>1, <1>6, RemoveDropsItsOwn DEF RemoveFromList
    <2>2. OnlyWorker(w) /\ Keeps(w) /\ work'[w].pc = "dbDelete"
      BY <1>1, <1>6, RemoveStep
    <2> QED
      BY <2>1, <2>2, ProgressFrame DEF OnlyWorker, Keeps
  <1> QED
    BY <1>1, <1>2, <1>3, <1>4, <1>5, <1>6 DEF WorkStep
(* The requests that begin an operation, the connection checks, a restart. *)
LEMMA RequestProgress ==
  ASSUME ProgressInv, OrderInv',
         \/ \E n \in Name, k \in Config : Create(n, k)
         \/ \E c \in Obj, k \in Config : UpdateBegin(c, k)
         \/ \E c \in Obj : DeleteBegin(c) \/ CancelBegin(c) \/ CheckLoopExits(c)
  PROVE  ProgressInv'
  <1>1. ASSUME NEW n \in Name, NEW k \in Config, Create(n, k)
        PROVE  ProgressInv'
    <2> DEFINE s == [created |-> FALSE, cfg |-> k]
    <2>1. PICK c \in Obj, w \in IdleWorkers :
            /\ status[c] = "Init"
            /\ status' = [status EXCEPT ![c] = "Creating"]
            /\ clusters' = clusters \cup {c}
            /\ Continue(w, Go("create", c, s))
      BY <1>1 DEF Create
    <2>2. api' = api /\ s \in State
      BY <1>1 DEF Create, State
    <2>3. Free(c) /\ status \in [Obj -> Statuses]
      BY <2>1, NewIsFree DEF ProgressInv, OrderInv, BaseInv, TypeInv, TypeOK
    <2> HIDE DEF s
    <2> QED
      BY <2>1, <2>2, <2>3, StartProgress
  <1>2. CASE \/ \E c \in Obj, k \in Config : UpdateBegin(c, k)
             \/ \E c \in Obj : DeleteBegin(c) \/ CancelBegin(c)
    BY <1>2, ProgressFrame DEF UpdateBegin, DeleteBegin, CancelBegin, LockFree
  <1>3. CASE \E c \in Obj : CheckLoopExits(c)
    BY <1>3, ProgressFrame DEF CheckLoopExits
  <1> QED
    BY <1>1, <1>2, <1>3

(* The connection check touches idle clusters alone. *)
LEMMA CheckProgress ==
  ASSUME ProgressInv, OrderInv', NEW c \in Obj, ConnectionCheck(c)
  PROVE  ProgressInv'
  <1>1. /\ UNCHANGED <<clusters, api, work>> /\ EventMuFree(c)
        /\ status \in [Obj -> Statuses]
    BY DEF ProgressInv, OrderInv, BaseInv, TypeInv, TypeOK, ConnectionCheck
  <1>2. PICK ev \in {"getInfoFailed", "getInfoSucceed"} :
          status[c] \in Src[ev] /\ Transit(c, ev)
    BY DEF ConnectionCheck
  <1>3. /\ \A d \in Obj : d # c => status'[d] = status[d]
        /\ status'[c] = Dst[ev]
    BY <1>1, <1>2, TransitFacts, CheckEventFacts DEF Accepts
  <1>4. /\ status[c] \in {"Running", "Unreachable"}
        /\ status'[c] \in {"Running", "Unreachable"}
    BY <1>2, <1>3, CheckEventFacts
  <1>5. Free(c)
    BY <1>1, <1>4, IdleIsFree DEF ProgressInv
  <1> QED
    BY <1>1, <1>3, <1>4, <1>5, ProgressOn DEF Free

(* After a restart no goroutine runs and no cluster is busy. *)
LEMMA RestartProgress ==
  ASSUME ProgressInv, OrderInv', Restart
  PROVE  ProgressInv'
  <1>1. PICK g \in Gen, f \in SUBSET Name :
          status' = [c \in Obj |-> IF c[2] = g THEN LoadedStatus(NameOf(c), f)
                                               ELSE "Init"]
    BY DEF Restart
  <1>2. /\ clusters' \subseteq Obj
        /\ work' = [w \in Worker |-> IdleWork]
    BY DEF Restart
  <1>3. \A c \in Obj : status'[c] \in {"Init", "Running", "CreateFailed"}
    BY <1>1 DEF LoadedStatus
  <1>4. \A w \in Worker : work'[w].pc = "idle"
    BY <1>2, IdleRecords
  <1> QED
    BY <1>2, <1>3, <1>4 DEF ProgressInv, EventFits, BusyHasWorker

(* Every step preserves ProgressInv if nothing fails but upZKECluster, the *)
(* initialization of loaded clusters and the server itself.                *)
LEMMA NextProgress ==
  ASSUME Undisturbed
  PROVE  ProgressInv /\ [Next]_vars => ProgressInv'
  <1> SUFFICES ASSUME ProgressInv, [Next]_vars PROVE ProgressInv'
    OBVIOUS
  <1>1. OrderInv'
    BY NextOrder DEF ProgressInv, Undisturbed
  <1>2. CASE UNCHANGED vars
    BY <1>1, <1>2, ProgressFrame DEF vars
  <1>3. CASE Next
    BY <1>1, <1>3, RequestProgress, CheckProgress, RestartProgress,
       HandlerProgress, WorkProgress DEF Next
  <1> QED
    BY <1>2, <1>3

(* If setCache, the database and upZKECluster's code do not fail, a busy   *)
(* cluster always has a goroutine that will end its busy state, whether or *)
(* not the installation fails, and whenever the server restarts.           *)
THEOREM BusyIsServed ==
  ASSUME Undisturbed
  PROVE  Spec => []BusyHasWorker
  <1>1. Init => ProgressInv
    <2>1. ASSUME Init PROVE EventFits /\ BusyHasWorker
      <3>1. \A w \in Worker : work[w].pc = "idle"
        BY <2>1, IdleRecords DEF Init
      <3> QED
        BY <2>1, <3>1 DEF Init, EventFits, BusyHasWorker
    <2> QED
      BY <2>1, InitOrder DEF ProgressInv
  <1>2. ProgressInv /\ [Next]_vars => ProgressInv'
    BY NextProgress
  <1>3. ProgressInv => BusyHasWorker
    BY DEF ProgressInv
  <1> QED
    BY <1>1, <1>2, <1>3, PTL DEF Spec
=============================================================================
