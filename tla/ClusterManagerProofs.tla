------------------------ MODULE ClusterManagerProofs ------------------------
(***************************************************************************)
(* Theorems about ClusterManager for every set of names, generations,      *)
(* goroutines and configurations.                                          *)
(*                                                                         *)
(* BaseInv is inductive whatever faults happen.  It gives the types, the   *)
(* uniqueness of names, the announcement of ready clusters and the         *)
(* refinement of ClusterDirectory.  What needs that some fault does not    *)
(* happen is in ClusterOrderProofs.                                        *)
(***************************************************************************)
EXTENDS ClusterManager, TLAPS

(* A leaf is for Zenon unless it cites another prover. *)
USE ZenonT(40)

(* The types of the records that api and work hold. *)
CallType == [pc : {"idle", "updateSave", "updateEvent", "deleteEvent",
                   "deleteClose", "cancelSet"},
             obj : Obj \cup {Null}, st : State \cup {Null}]

WorkType == [pc : {"idle", "up", "cache", "event", "callback", "remove",
                   "dbDelete"},
             job : {"none", "create", "update", "destroy"},
             obj : Obj \cup {Null}, st : State \cup {Null},
             ev : WorkEvents \cup {"none"}, more : BOOLEAN]

(* A handler or goroutine that is not idle works on an object and has the  *)
(* state it may save; an idle goroutine has none.                          *)
GoodCall(a) ==
  /\ a \in CallType
  /\ a.pc # "idle" => a.obj \in Obj
  /\ a.pc \notin {"idle", "cancelSet"} => a.st \in State

GoodWork(r) ==
  /\ r \in WorkType
  /\ IF r.pc = "idle" THEN r.obj = Null /\ r.job = "none"
     ELSE r.obj \in Obj /\ r.st \in State /\ r.job # "none"
  /\ r.pc \in {"event", "callback", "remove", "dbDelete"} =>
       /\ r.ev \in WorkEvents
       /\ r.ev = "deleteCompleted" <=> r.job = "destroy"
  /\ r.job = "destroy" => r.pc \notin {"cache", "callback"} /\ r.more = FALSE
  /\ r.pc \in {"remove", "dbDelete"} => r.job = "destroy"

TypeInv ==
  /\ TypeOK
  /\ GoodCall(api)
  /\ \A w \in Worker : GoodWork(work[w])

(* Every object that exists and is not deleted is listed. *)
LiveIsListed ==
  \A c \in Obj : status[c] \notin {"Init", "Deleted"} => c \in clusters

ListedExists == \A c \in clusters : status[c] # "Init"

(* A goroutine that destroys a cluster finds it Deleting until its own     *)
(* event, listed until its own removal, and is the only one to do so.      *)
Destroying(w) == work[w].job = "destroy"

DestroyerStatus ==
  \A w \in Worker : Destroying(w) =>
    /\ work[w].pc \in {"up", "event"} => status[work[w].obj] = "Deleting"
    /\ work[w].pc \in {"remove", "dbDelete"} => status[work[w].obj] = "Deleted"
    /\ work[w].pc # "dbDelete" => work[w].obj \in clusters

OneDestroyer ==
  \A v, w \in Worker :
    Destroying(v) /\ Destroying(w) /\ work[v].obj = work[w].obj => v = w

(* The list does not change under a handler, and neither does the fact     *)
(* that the cluster can be deleted.                                        *)
HandlerTarget ==
  /\ api.pc # "idle" => api.obj \in clusters
  /\ api.pc = "deleteEvent" => status[api.obj] \in Src["delete"]
  /\ api.pc = "deleteClose" =>
       /\ status[api.obj] = "Deleting"
       /\ \A w \in Worker : Destroying(w) => work[w].obj # api.obj

(* A ready cluster is announced, or about to be by the callback that made  *)
(* it ready.                                                               *)
AnnouncedOrPending ==
  \A c \in Obj : status[c] \in {"Running", "Unreachable", "Updating"} =>
    \/ c \in announced
    \/ \E w \in Worker : /\ work[w].obj = c
                         /\ work[w].pc = "callback"
                         /\ work[w].ev = "createSucceed"

BaseInv ==
  /\ TypeInv /\ UniqueNames /\ LiveIsListed /\ ListedExists
  /\ DestroyerStatus /\ OneDestroyer /\ HandlerTarget /\ AnnouncedOrPending

-----------------------------------------------------------------------------
(***************************************************************************)
(* Facts about the records the actions build.                              *)
(***************************************************************************)

(* The name of an object is a name. *)
LEMMA NameOfType == \A c \in Obj : NameOf(c) \in Name
  BY DEF Obj, NameOf

(* Null is neither a record nor an object. *)
LEMMA NullFacts == Null \notin State /\ Null \notin Obj
  BY NullAssumption

(* A goroutine that has returned, and a handler that has returned. *)
LEMMA IdleRecords ==
  /\ GoodWork(IdleWork) /\ IdleWork.pc = "idle" /\ IdleWork.obj = Null
  /\ IdleWork.job = "none" /\ IdleWork.more = FALSE
  /\ GoodCall(IdleCall) /\ IdleCall.pc = "idle"
  BY NullFacts DEF GoodWork, GoodCall, IdleWork, IdleCall, WorkType, CallType, WorkEvents

(* Only the place in the code changes. *)
LEMMA AtRecord ==
  ASSUME NEW w \in Worker, work[w] \in WorkType,
         NEW pc \in {"idle", "up", "cache", "event", "callback", "remove",
                     "dbDelete"}
  PROVE  /\ At(w, pc) \in WorkType /\ At(w, pc).pc = pc
         /\ At(w, pc).job = work[w].job /\ At(w, pc).obj = work[w].obj
         /\ At(w, pc).st = work[w].st /\ At(w, pc).ev = work[w].ev
         /\ At(w, pc).more = work[w].more
  BY DEF At, WorkType

(* Only the place and the event to send change. *)
LEMMA ReportRecord ==
  ASSUME NEW w \in Worker, work[w] \in WorkType, NEW ev \in WorkEvents
  PROVE  /\ Report(w, ev) \in WorkType /\ Report(w, ev).pc = "event"
         /\ Report(w, ev).job = work[w].job /\ Report(w, ev).obj = work[w].obj
         /\ Report(w, ev).st = work[w].st /\ Report(w, ev).ev = ev
         /\ Report(w, ev).more = work[w].more
  BY DEF Report, WorkType

(* The state to save now says Created. *)
LEMMA ReportSuccessRecord ==
  ASSUME NEW w \in Worker, work[w] \in WorkType, work[w].st \in State
  PROVE  /\ ReportSuccess(w) \in WorkType /\ ReportSuccess(w).pc = "event"
         /\ ReportSuccess(w).job = work[w].job
         /\ ReportSuccess(w).obj = work[w].obj
         /\ ReportSuccess(w).st \in State /\ ReportSuccess(w).st.created = TRUE
         /\ ReportSuccess(w).st.cfg = work[w].st.cfg
         /\ ReportSuccess(w).ev = "createSucceed"
         /\ ReportSuccess(w).more = FALSE
  BY DEF ReportSuccess, WorkType, WorkEvents, State

(* ReportEvent is an event of a create or update goroutine. *)
LEMMA ReportEventType ==
  ASSUME NEW s \in State, NEW b \in BOOLEAN
  PROVE  ReportEvent(s, b) \in WorkEvents \ {"deleteCompleted", "createSucceed"}
  <1>1. s.created \in BOOLEAN
    BY DEF State
  <1> QED
    BY <1>1 DEF ReportEvent, WorkEvents

(* A step of goroutine w leaves the others where they are. *)
LEMMA ContinueWork ==
  ASSUME TypeInv, NEW w \in Worker, NEW r, GoodWork(r), Continue(w, r)
  PROVE  /\ work' \in [Worker -> WorkType]
         /\ work'[w] = r
         /\ \A v \in Worker : v # w => work'[v] = work[v]
         /\ \A v \in Worker : GoodWork(work'[v])
  <1>1. work \in [Worker -> WorkType] /\ r \in WorkType
    BY DEF TypeInv, TypeOK, WorkType, GoodWork
  <1>2. \A v \in Worker : GoodWork(work[v])
    BY DEF TypeInv
  <1>3. work' = [work EXCEPT ![w] = r]
    BY DEF Continue
  <1> QED
    BY <1>1, <1>2, <1>3, SMTT(40)
-----------------------------------------------------------------------------
(***************************************************************************)
(* What each step of a goroutine does to its own record.                   *)
(***************************************************************************)

(* The records of all goroutines are good after the step, and only that of *)
(* w has changed.                                                          *)
OnlyWorker(w) ==
  /\ work' \in [Worker -> WorkType]
  /\ \A v \in Worker : GoodWork(work'[v])
  /\ \A v \in Worker : v # w => work'[v] = work[v]

Keeps(w) == work'[w].obj = work[w].obj /\ work'[w].job = work[w].job

(* The goroutine that starts. *)
LEMMA GoStep ==
  ASSUME TypeInv, NEW w \in Worker, NEW j \in {"create", "update", "destroy"},
         NEW c \in Obj, NEW s \in State, Continue(w, Go(j, c, s))
  PROVE  /\ OnlyWorker(w) /\ work'[w].pc = "up" /\ work'[w].job = j
         /\ work'[w].obj = c /\ work'[w].st = s /\ work'[w].more = FALSE
  <1>1. /\ GoodWork(Go(j, c, s))
        /\ Go(j, c, s).pc = "up" /\ Go(j, c, s).job = j
        /\ Go(j, c, s).obj = c /\ Go(j, c, s).st = s
        /\ Go(j, c, s).more = FALSE
    BY DEF Go, GoodWork, WorkType
  <1>2. OnlyWorker(w) /\ work'[w] = Go(j, c, s)
    BY <1>1, ContinueWork DEF OnlyWorker
  <1> QED
    BY <1>1, <1>2

(* A record with a valid event, in the place where it is sent, is good. *)
LEMMA ReportGood ==
  ASSUME NEW w \in Worker, GoodWork(work[w]), work[w].pc # "idle",
         NEW ev \in WorkEvents, ev = "deleteCompleted" <=> work[w].job = "destroy"
  PROVE  GoodWork(Report(w, ev))
  BY ReportRecord DEF GoodWork

(* The goroutine of a finished upZKECluster or removeZKECluster. *)
LEMMA UpStep ==
  ASSUME TypeInv, NEW w \in Worker,
         UpReturns(w) \/ UpPanics(w) \/ RemoveReturns(w)
  PROVE  /\ OnlyWorker(w) /\ Keeps(w)
         /\ work[w].pc = "up" /\ work'[w].pc \in {"event", "cache"}
         /\ work'[w].st = work[w].st /\ work'[w].more = work[w].more
         /\ work'[w].pc = "cache" => ~work[w].st.created
         /\ work'[w].pc = "event" => work'[w].ev # "createSucceed"
  <1>1. GoodWork(work[w]) /\ work[w].pc = "up"
    BY DEF TypeInv, UpReturns, UpPanics, RemoveReturns
  <1>2. work[w] \in WorkType /\ work[w].st \in State
    BY <1>1 DEF GoodWork
  <1>3. ASSUME NEW ev \in WorkEvents \ {"createSucceed"},
               Continue(w, Report(w, ev)),
               ev = "deleteCompleted" <=> work[w].job = "destroy"
        PROVE  /\ OnlyWorker(w) /\ Keeps(w) /\ work'[w].pc = "event"
               /\ work'[w].ev = ev /\ work'[w].st = work[w].st
               /\ work'[w].more = work[w].more
    <2>1. GoodWork(Report(w, ev))
      BY <1>1, <1>3, ReportGood
    <2> QED
      BY <2>1, <1>2, <1>3, ContinueWork, ReportRecord, SMTT(40) DEF OnlyWorker, Keeps
  <1>4. CASE UpReturns(w)
    <2>1. work[w].job \in {"create", "update"}
      BY <1>4 DEF UpReturns
    <2>2. CASE Continue(w, Report(w, ReportEvent(work[w].st,
                                                 work[w].obj \in isCanceled)))
      <3>1. ReportEvent(work[w].st, work[w].obj \in isCanceled)
              \in WorkEvents \ {"deleteCompleted", "createSucceed"}
        <4> DEFINE canceled == work[w].obj \in isCanceled
        <4>1. canceled \in BOOLEAN
          BY SMTT(40)
        <4> HIDE DEF canceled
        <4>2. ReportEvent(work[w].st, canceled)
                \in WorkEvents \ {"deleteCompleted", "createSucceed"}
          BY <4>1, <1>2, ReportEventType
        <4> QED
          BY <4>2 DEF canceled
      <3> QED
        BY <3>1, <2>1, <2>2, <1>1, <1>3
    <2>3. CASE ~work[w].st.created /\ Continue(w, At(w, "cache"))
      <3>1. GoodWork(At(w, "cache"))
        BY <1>1, <1>2, <2>1, AtRecord DEF GoodWork
      <3> QED
        BY <3>1, <2>3, <1>1, <1>2, ContinueWork, AtRecord, SMTT(40) DEF OnlyWorker, Keeps
    <2> QED
      BY <1>4, <2>2, <2>3 DEF UpReturns
  <1>5. CASE UpPanics(w)
    <2> DEFINE ev == IF work[w].job = "create" THEN "createFailed"
                                               ELSE "updateCompleted"
    <2>1. /\ ev \in WorkEvents \ {"createSucceed"} /\ ev # "deleteCompleted"
          /\ work[w].job # "destroy" /\ Continue(w, Report(w, ev))
      BY <1>5 DEF UpPanics, WorkEvents
    <2> HIDE DEF ev
    <2> QED
      BY <2>1, <1>1, <1>3
  <1>6. CASE RemoveReturns(w)
    <2>1. /\ "deleteCompleted" \in WorkEvents \ {"createSucceed"}
          /\ work[w].job = "destroy"
          /\ Continue(w, Report(w, "deleteCompleted"))
      BY <1>6 DEF RemoveReturns, WorkEvents
    <2> QED
      BY <2>1, <1>1, <1>3
  <1> QED
    BY <1>4, <1>5, <1>6

(* The goroutine whose setCache returned. *)
LEMMA CacheSetStep ==
  ASSUME TypeInv, NEW w \in Worker, CacheSet(w)
  PROVE  /\ OnlyWorker(w) /\ Keeps(w)
         /\ work[w].pc = "cache" /\ work'[w].pc = "event"
         /\ work'[w].ev = "createSucceed" /\ work'[w].st.created = TRUE
         /\ work[w].obj \in Obj /\ work'[w].more = FALSE
  <1>1. GoodWork(work[w]) /\ work[w].pc = "cache" /\ Continue(w, ReportSuccess(w))
    BY DEF TypeInv, CacheSet
  <1>2. work[w] \in WorkType /\ work[w].st \in State /\ work[w].obj \in Obj
    BY <1>1 DEF GoodWork
  <1>3. GoodWork(ReportSuccess(w))
    BY <1>1, <1>2, ReportSuccessRecord DEF GoodWork, WorkEvents
  <1> QED
    <2>1. work'[w] = ReportSuccess(w) /\ OnlyWorker(w)
      BY <1>1, <1>2, <1>3, ContinueWork DEF OnlyWorker
    <2>2. Keeps(w) /\ work'[w].pc = "event" /\ work'[w].ev = "createSucceed"
      BY <1>2, <2>1, ReportSuccessRecord DEF Keeps
    <2> QED
      BY <1>1, <1>2, <2>1, <2>2, ReportSuccessRecord

(* The goroutine whose setCache failed. *)
LEMMA CacheFailsStep ==
  ASSUME TypeInv, NEW w \in Worker, CacheFails(w)
  PROVE  /\ OnlyWorker(w) /\ Keeps(w)
         /\ work[w].pc = "cache" /\ work'[w].pc = "event"
         /\ work'[w].ev = "createFailed" /\ work[w].obj \in Obj
  <1> DEFINE r == [Report(w, "createFailed")
                     EXCEPT !.more = (work[w].job = "update")]
  <1>1. GoodWork(work[w]) /\ work[w].pc = "cache" /\ Continue(w, r)
    BY DEF TypeInv, CacheFails
  <1>2. work[w] \in WorkType /\ work[w].obj \in Obj /\ "createFailed" \in WorkEvents
    BY <1>1 DEF GoodWork, WorkEvents
  <1>3. /\ Report(w, "createFailed") \in WorkType
        /\ Report(w, "createFailed").pc = "event"
        /\ Report(w, "createFailed").job = work[w].job
        /\ Report(w, "createFailed").obj = work[w].obj
        /\ Report(w, "createFailed").st = work[w].st
        /\ Report(w, "createFailed").ev = "createFailed"
    BY <1>2, ReportRecord
  <1>4. /\ r \in WorkType /\ r.pc = "event" /\ r.job = work[w].job
        /\ r.obj = work[w].obj /\ r.st = work[w].st /\ r.ev = "createFailed"
        /\ r.more = (work[w].job = "update")
    BY <1>3 DEF WorkType
  <1> HIDE DEF r
  <1>5. GoodWork(r)
    BY <1>1, <1>2, <1>4 DEF GoodWork
  <1> QED
    BY <1>1, <1>2, <1>4, <1>5, ContinueWork DEF OnlyWorker, Keeps

(* A goroutine done with its event returns, or goes on to report success. *)
LEMMA AfterEventStep ==
  ASSUME TypeInv, NEW w \in Worker, work[w].pc # "idle",
         Continue(w, AfterEvent(w))
  PROVE  /\ OnlyWorker(w)
         /\ ~work[w].more => /\ work'[w].pc = "idle" /\ work'[w].obj = Null
                             /\ work'[w].job = "none" /\ work'[w].more = FALSE
         /\ work[w].more => /\ Keeps(w) /\ work'[w].pc = "event"
                            /\ work[w].job # "destroy"
                            /\ work'[w].ev = "createSucceed"
  <1>1. GoodWork(work[w])
    BY DEF TypeInv
  <1>2. /\ work[w] \in WorkType /\ work[w].st \in State /\ work[w].obj \in Obj
        /\ work[w].more \in BOOLEAN /\ work[w].job # "none"
    BY <1>1 DEF GoodWork, WorkType
  <1>3. CASE work[w].more = TRUE
    <2>1. AfterEvent(w) = ReportSuccess(w) /\ work[w].job # "destroy"
      BY <1>1, <1>3 DEF AfterEvent, GoodWork
    <2>2. GoodWork(ReportSuccess(w))
      BY <1>2, <2>1, ReportSuccessRecord DEF GoodWork, WorkEvents
    <2>3. OnlyWorker(w) /\ work'[w] = ReportSuccess(w)
      BY <2>1, <2>2, ContinueWork DEF OnlyWorker
    <2> QED
      BY <1>2, <1>3, <2>1, <2>3, ReportSuccessRecord DEF Keeps
  <1>4. CASE work[w].more = FALSE
    <2>1. AfterEvent(w) = IdleWork
      BY <1>4 DEF AfterEvent
    <2> QED
      BY <1>4, <2>1, IdleRecords, ContinueWork DEF OnlyWorker
  <1> QED
    BY <1>2, <1>3, <1>4

(* A goroutine that sends its event. *)
LEMMA SendEventStep ==
  ASSUME TypeInv, NEW w \in Worker, SendEvent(w)
  PROVE  /\ OnlyWorker(w)
         /\ work[w].pc = "event" /\ work[w].obj \in Obj
         /\ work[w].ev \in WorkEvents
         /\ work[w].ev = "deleteCompleted" <=> work[w].job = "destroy"
         /\ Accepts(work[w].obj, work[w].ev) =>
              /\ Keeps(w) /\ work'[w].st = work[w].st
              /\ work'[w].ev = work[w].ev /\ work'[w].more = work[w].more
              /\ work'[w].pc = IF work[w].job = "destroy" THEN "remove"
                                                          ELSE "callback"
         /\ ~Accepts(work[w].obj, work[w].ev) =>
              Continue(w, AfterEvent(w))
  <1>1. GoodWork(work[w]) /\ work[w].pc = "event"
    BY DEF TypeInv, SendEvent
  <1>2. /\ work[w] \in WorkType /\ work[w].obj \in Obj
        /\ work[w].ev \in WorkEvents
        /\ work[w].ev = "deleteCompleted" <=> work[w].job = "destroy"
    BY <1>1 DEF GoodWork
  <1>3. CASE Accepts(work[w].obj, work[w].ev)
    <2> DEFINE pc == IF work[w].job = "destroy" THEN "remove" ELSE "callback"
    <2>1. Continue(w, At(w, pc)) /\ pc \in {"remove", "callback"}
      BY <1>2, <1>3 DEF SendEvent
    <2>2. pc = "remove" <=> work[w].job = "destroy"
      OBVIOUS
    <2> HIDE DEF pc
    <2>3. GoodWork(At(w, pc))
      BY <1>1, <1>2, <2>1, <2>2, AtRecord, SMTT(40) DEF GoodWork
    <2>4. /\ OnlyWorker(w) /\ Keeps(w) /\ work'[w].st = work[w].st
          /\ work'[w].ev = work[w].ev /\ work'[w].pc = pc
          /\ work'[w].more = work[w].more
      BY <1>2, <2>1, <2>3, ContinueWork, AtRecord, SMTT(40) DEF OnlyWorker, Keeps
    <2> QED
      BY <1>1, <1>2, <1>3, <2>4 DEF pc
  <1>4. CASE ~Accepts(work[w].obj, work[w].ev)
    <2>1. Continue(w, AfterEvent(w))
      BY <1>4 DEF SendEvent
    <2> QED
      BY <1>1, <1>2, <1>4, <2>1, AfterEventStep
  <1> QED
    BY <1>3, <1>4

(* The deleteCompleted callback between its two calls. *)
LEMMA RemoveStep ==
  ASSUME TypeInv, NEW w \in Worker, RemoveFromList(w)
  PROVE  /\ OnlyWorker(w) /\ Keeps(w) /\ work'[w].pc = "dbDelete"
         /\ work[w].pc = "remove" /\ work[w].job = "destroy"
         /\ work[w].obj \in Obj
  <1>1. GoodWork(work[w]) /\ work[w].pc = "remove" /\ Continue(w, At(w, "dbDelete"))
    BY DEF TypeInv, RemoveFromList
  <1>2. work[w] \in WorkType /\ work[w].job = "destroy" /\ work[w].obj \in Obj
    BY <1>1 DEF GoodWork
  <1>3. GoodWork(At(w, "dbDelete"))
    BY <1>1, <1>2, AtRecord DEF GoodWork
  <1> QED
    BY <1>1, <1>2, <1>3, ContinueWork, AtRecord, SMTT(40) DEF OnlyWorker, Keeps
-----------------------------------------------------------------------------
(***************************************************************************)
(* BaseInv is inductive.                                                   *)
(***************************************************************************)

(* A new or restarted server satisfies BaseInv. *)
LEMMA InitBase == Init => BaseInv
  <1> SUFFICES ASSUME Init PROVE BaseInv
    OBVIOUS
  <1>1. TypeOK
    BY NullFacts DEF Init, TypeOK, Statuses, IdleCall, IdleWork, WorkEvents
  <1>2. api = IdleCall /\ \A w \in Worker : work[w] = IdleWork
    BY DEF Init
  <1>3. TypeInv
    BY <1>1, <1>2, IdleRecords DEF TypeInv
  <1>4. /\ \A w \in Worker : work[w].job = "none"
        /\ api.pc = "idle" /\ clusters = {}
        /\ \A c \in Obj : status[c] = "Init"
    BY <1>2, IdleRecords DEF Init
  <1> QED
    BY <1>3, <1>4 DEF BaseInv, UniqueNames, LiveIsListed, ListedExists,
       DestroyerStatus, OneDestroyer, Destroying, HandlerTarget, AnnouncedOrPending

(* What BaseInv says of a goroutine that destroys a cluster. *)
LEMMA DestroyerFacts ==
  ASSUME BaseInv, NEW w \in Worker, work[w].job = "destroy"
  PROVE  /\ work[w].obj \in Obj
         /\ work[w].pc \in {"up", "event", "remove", "dbDelete"}
         /\ status[work[w].obj] \in {"Deleting", "Deleted"}
  <1>1. GoodWork(work[w])
    BY DEF BaseInv, TypeInv
  <1>2. /\ work[w].obj \in Obj
        /\ work[w].pc \in {"up", "event", "remove", "dbDelete"}
    BY <1>1 DEF GoodWork, WorkType
  <1> QED
    BY <1>2 DEF BaseInv, DestroyerStatus, Destroying

(* Create: the name is free and the object new. *)
LEMMA CreateBase ==
  ASSUME BaseInv, NEW n \in Name, NEW k \in Config, Create(n, k)
  PROVE  BaseInv'
  <1> DEFINE s == [created |-> FALSE, cfg |-> k]
  <1>1. PICK c \in Obj, w \in IdleWorkers :
          /\ NameOf(c) = n /\ status[c] = "Init" /\ Save(n, s)
          /\ status' = [status EXCEPT ![c] = "Creating"]
          /\ config' = [config EXCEPT ![c] = k]
          /\ clusters' = clusters \cup {c}
          /\ Continue(w, Go("create", c, s))
    BY DEF Create
  <1>2. /\ LockFree /\ NameIsFree(n)
        /\ UNCHANGED <<isCanceled, stopCh, checking, announced, api>>
    BY DEF Create
  <1>3. s \in State
    BY DEF State
  <1> HIDE DEF s
  <1>4. w \in Worker /\ work[w].pc = "idle"
    BY DEF IdleWorkers
  <1>5. /\ OnlyWorker(w) /\ work'[w].job = "create" /\ work'[w].obj = c
        /\ work'[w].pc = "up"
    BY <1>1, <1>3, <1>4, GoStep DEF BaseInv
  <1>6. /\ clusters \subseteq Obj /\ status \in [Obj -> Statuses]
        /\ config \in [Obj -> Config \cup {Null}]
        /\ db \in [Name -> State \cup {Null}]
    BY DEF BaseInv, TypeInv, TypeOK
  <1>7. TypeInv'
    <2>1. TypeOK'
      BY <1>1, <1>2, <1>3, <1>5, <1>6
         DEF BaseInv, TypeInv, TypeOK, Save, Statuses, OnlyWorker, WorkType
    <2> QED
      BY <2>1, <1>2, <1>5 DEF BaseInv, TypeInv, OnlyWorker
  <1>8. /\ status'[c] = "Creating"
        /\ \A d \in Obj : d # c => status'[d] = status[d]
    BY <1>1, <1>6
  <1>9. \A v \in Worker : work'[v].job = "destroy" =>
          v # w /\ work'[v] = work[v] /\ work[v].obj # c /\ work[v].obj \in Obj
    BY <1>1, <1>5, DestroyerFacts DEF OnlyWorker
  <1>10. UniqueNames' /\ LiveIsListed' /\ ListedExists'
    BY <1>1, <1>2, <1>6, <1>8
       DEF BaseInv, UniqueNames, LiveIsListed, ListedExists, NameIsFree
  <1>11. DestroyerStatus' /\ OneDestroyer'
    BY <1>1, <1>8, <1>9, SMTT(40) DEF BaseInv, DestroyerStatus, OneDestroyer, Destroying
  <1>12. HandlerTarget'
    BY <1>2 DEF HandlerTarget, LockFree
  <1>13. AnnouncedOrPending'
    BY <1>2, <1>4, <1>5, <1>8, SMTT(40) DEF BaseInv, AnnouncedOrPending, OnlyWorker
  <1> QED
    BY <1>7, <1>10, <1>11, <1>12, <1>13 DEF BaseInv
(* A step that leaves the list, the states, the announcements and the      *)
(* goroutines alone only has to respect the types and the handler's target.*)
LEMMA FrameBase ==
  ASSUME BaseInv, UNCHANGED <<clusters, status, announced, work>>,
         TypeInv', HandlerTarget'
  PROVE  BaseInv'
  <1>1. clusters' = clusters /\ status' = status /\ announced' = announced
        /\ work' = work
    OBVIOUS
  <1>2. UniqueNames' /\ LiveIsListed' /\ ListedExists'
    BY <1>1 DEF BaseInv, UniqueNames, LiveIsListed, ListedExists
  <1>3. DestroyerStatus' /\ OneDestroyer' /\ AnnouncedOrPending'
    BY <1>1, SMTT(40) DEF BaseInv, DestroyerStatus, OneDestroyer, Destroying,
                AnnouncedOrPending
  <1> QED
    BY <1>2, <1>3 DEF BaseInv

(* UpdateBegin takes the cluster's record with another configuration. *)
LEMMA UpdateBeginBase ==
  ASSUME BaseInv, NEW c \in Obj, NEW k \in Config, UpdateBegin(c, k)
  PROVE  BaseInv'
  <1> DEFINE s == [db[NameOf(c)] EXCEPT !.cfg = k]
  <1>1. /\ db[NameOf(c)] # Null /\ c \in clusters
        /\ config' = [config EXCEPT ![c] = k]
        /\ api' = [pc |-> "updateSave", obj |-> c, st |-> s]
        /\ UNCHANGED <<clusters, status, isCanceled, stopCh, checking,
                       announced, db, work>>
    BY DEF UpdateBegin
  <1>2. db[NameOf(c)] \in State
    BY <1>1, NameOfType DEF BaseInv, TypeInv, TypeOK
  <1>3. s \in State
    BY <1>2 DEF State
  <1> HIDE DEF s
  <1>4. api' \in CallType /\ api'.pc = "updateSave" /\ api'.obj = c /\ api'.st = s
    BY <1>1, <1>3 DEF CallType
  <1>5. TypeInv'
    <2>1. TypeOK'
      BY <1>1, <1>4 DEF BaseInv, TypeInv, TypeOK, CallType
    <2> QED
      BY <2>1, <1>1, <1>3, <1>4 DEF BaseInv, TypeInv, GoodCall
  <1>6. HandlerTarget'
    BY <1>1, <1>4 DEF HandlerTarget
  <1> QED
    BY <1>1, <1>5, <1>6, FrameBase

(* UpdateSave writes a record, or gives up. *)
LEMMA UpdateSaveBase ==
  ASSUME BaseInv, UpdateSave
  PROVE  BaseInv'
  <1>1. /\ api.pc = "updateSave" /\ GoodCall(api)
        /\ UNCHANGED <<clusters, status, isCanceled, config, stopCh, checking,
                       announced, work>>
    BY DEF UpdateSave, BaseInv, TypeInv
  <1>2. /\ api \in CallType /\ api.obj \in Obj /\ api.st \in State
        /\ api.obj \in clusters
    BY <1>1 DEF GoodCall, BaseInv, HandlerTarget
  <1>3. db' \in [Name -> State \cup {Null}]
    BY <1>2, NameOfType DEF UpdateSave, Save, DbFails, BaseInv, TypeInv, TypeOK
  <1>4. \/ api' = [api EXCEPT !.pc = "updateEvent"]
        \/ api' = IdleCall
    BY DEF UpdateSave
  <1>5. /\ GoodCall(api')
        /\ api'.pc \in {"updateEvent", "idle"}
        /\ api'.pc = "updateEvent" => api'.obj = api.obj
    <2>1. CASE api' = IdleCall
      BY <2>1, IdleRecords
    <2>2. CASE api' = [api EXCEPT !.pc = "updateEvent"]
      <3>1. /\ api' \in CallType /\ api'.pc = "updateEvent"
            /\ api'.obj = api.obj /\ api'.st = api.st
        BY <2>2, <1>2 DEF CallType
      <3> QED
        BY <3>1, <1>2 DEF GoodCall
    <2> QED
      BY <1>4, <2>1, <2>2
  <1>6. TypeInv'
    <2>1. TypeOK'
      BY <1>1, <1>3, <1>5 DEF BaseInv, TypeInv, TypeOK, GoodCall, CallType
    <2> QED
      BY <2>1, <1>1, <1>5 DEF BaseInv, TypeInv
  <1>7. HandlerTarget'
    BY <1>1, <1>2, <1>5 DEF HandlerTarget
  <1> QED
    BY <1>1, <1>6, <1>7, FrameBase

(* DeleteBegin takes the record of a cluster that can be deleted. *)
LEMMA DeleteBeginBase ==
  ASSUME BaseInv, NEW c \in Obj, DeleteBegin(c)
  PROVE  BaseInv'
  <1> DEFINE s == db[NameOf(c)]
  <1>1. /\ s # Null /\ c \in clusters /\ status[c] \in Src["delete"]
        /\ api' = [pc |-> "deleteEvent", obj |-> c, st |-> s]
        /\ UNCHANGED <<clusters, status, isCanceled, config, stopCh, checking,
                       announced, db, work>>
    BY DEF DeleteBegin, Can
  <1>2. s \in State
    BY <1>1, NameOfType DEF BaseInv, TypeInv, TypeOK
  <1> HIDE DEF s
  <1>3. api' \in CallType /\ api'.pc = "deleteEvent" /\ api'.obj = c /\ api'.st = s
    BY <1>1, <1>2 DEF CallType
  <1>4. TypeInv'
    <2>1. TypeOK'
      BY <1>1, <1>3 DEF BaseInv, TypeInv, TypeOK, CallType
    <2> QED
      BY <2>1, <1>1, <1>2, <1>3 DEF BaseInv, TypeInv, GoodCall
  <1>5. HandlerTarget'
    BY <1>1, <1>3 DEF HandlerTarget
  <1> QED
    BY <1>1, <1>4, <1>5, FrameBase

(* The table of events that newClusterFsm is given, entry by entry. *)
LEMMA EventTable ==
  /\ DOMAIN Src = {"createSucceed", "createFailed", "createCanceled",
                   "continuteCreate", "update", "updateCompleted",
                   "updateCanceled", "getInfoFailed", "getInfoSucceed",
                   "delete", "deleteCompleted"}
  /\ Src["createSucceed"] = {"Creating"} /\ Dst["createSucceed"] = "Running"
  /\ Src["createFailed"] = {"Creating"} /\ Dst["createFailed"] = "CreateFailed"
  /\ Src["createCanceled"] = {"Creating"} /\ Dst["createCanceled"] = "CreateFailed"
  /\ Src["continuteCreate"] = {"CreateFailed"} /\ Dst["continuteCreate"] = "Creating"
  /\ Src["update"] = {"Running"} /\ Dst["update"] = "Updating"
  /\ Src["updateCompleted"] = {"Updating"} /\ Dst["updateCompleted"] = "Running"
  /\ Src["updateCanceled"] = {"Updating"} /\ Dst["updateCanceled"] = "Running"
  /\ Src["getInfoFailed"] = {"Running"} /\ Dst["getInfoFailed"] = "Unreachable"
  /\ Src["getInfoSucceed"] = {"Unreachable"} /\ Dst["getInfoSucceed"] = "Running"
  /\ Src["delete"] = {"Running", "CreateFailed", "Unreachable"}
  /\ Dst["delete"] = "Deleting"
  /\ Src["deleteCompleted"] = {"Deleting"} /\ Dst["deleteCompleted"] = "Deleted"
  BY DEF Src, Dst

(* Cancel touches nothing but the flag and the handler. *)
LEMMA CancelBase ==
  ASSUME BaseInv, (\E c \in Obj : CancelBegin(c)) \/ CancelSet
  PROVE  BaseInv'
  <1>1. UNCHANGED <<clusters, status, config, stopCh, checking, announced, db,
                    work>>
    BY DEF CancelBegin, CancelSet
  <1>2. CASE \E c \in Obj : CancelBegin(c)
    <2>1. PICK c \in Obj : CancelBegin(c)
      BY <1>2
    <2>2. /\ api' \in CallType /\ api'.pc = "cancelSet" /\ api'.obj = c
          /\ c \in clusters /\ isCanceled' = isCanceled
      BY <2>1 DEF CancelBegin, CallType
    <2>3. TypeOK'
      BY <1>1, <2>2 DEF BaseInv, TypeInv, TypeOK, CallType
    <2>4. TypeInv' /\ HandlerTarget'
      BY <1>1, <2>2, <2>3 DEF BaseInv, TypeInv, GoodCall, HandlerTarget
    <2> QED
      BY <1>1, <2>4, FrameBase
  <1>3. CASE CancelSet
    <2>1. /\ api' = IdleCall /\ api.obj \in Obj
          /\ isCanceled' = isCanceled \cup {api.obj}
      BY <1>3 DEF CancelSet, BaseInv, TypeInv, GoodCall
    <2>2. TypeOK'
      BY <1>1, <2>1, IdleRecords DEF BaseInv, TypeInv, TypeOK, GoodCall, CallType
    <2>3. TypeInv' /\ HandlerTarget'
      BY <1>1, <2>1, <2>2, IdleRecords DEF BaseInv, TypeInv, HandlerTarget
    <2> QED
      BY <1>1, <2>3, FrameBase
  <1> QED
    BY <1>2, <1>3
(* An event moves its object along the table, or changes nothing. *)
LEMMA TransitFacts ==
  ASSUME status \in [Obj -> Statuses], NEW c \in Obj, NEW ev \in DOMAIN Src,
         Transit(c, ev)
  PROVE  /\ status' \in [Obj -> Statuses]
         /\ \A d \in Obj : d # c => status'[d] = status[d]
         /\ Accepts(c, ev) => status'[c] = Dst[ev] /\ status[c] \in Src[ev]
         /\ ~Accepts(c, ev) => status' = status
  <1>1. Dst[ev] \in Statuses
    BY EventTable, SMTT(40) DEF Statuses
  <1> QED
    BY <1>1 DEF Transit, Accepts

(* A busy worker's events are events of the table. *)
LEMMA WorkEventsInTable == WorkEvents \subseteq DOMAIN Src
  BY EventTable DEF WorkEvents

(* They take a busy cluster, and a Deleting one to Deleted. *)
LEMMA WorkEventFacts ==
  ASSUME NEW ev \in WorkEvents, NEW s \in Src[ev]
  PROVE  /\ s \in {"Creating", "Updating", "Deleting"}
         /\ s = "Deleting" => Dst[ev] = "Deleted"
  BY EventTable, SMTT(40) DEF WorkEvents

(* The connection check moves between Running and Unreachable. *)
LEMMA CheckEventFacts ==
  ASSUME NEW ev \in {"getInfoFailed", "getInfoSucceed"}, NEW s \in Src[ev]
  PROVE  /\ ev \in DOMAIN Src
         /\ s \in {"Running", "Unreachable"}
         /\ Dst[ev] \in {"Running", "Unreachable"}
  BY EventTable, SMTT(40)

(* UpdateEvent starts an update, or leaves everything as it was. *)
LEMMA UpdateEventBase ==
  ASSUME BaseInv, UpdateEvent
  PROVE  BaseInv'
  <1> DEFINE c == api.obj
             s == api.st
             ev == IF s.created THEN "update" ELSE "continuteCreate"
  <1>1. /\ api.pc = "updateEvent" /\ GoodCall(api) /\ TypeInv
        /\ EventMuFree(c) /\ Transit(c, ev) /\ api' = IdleCall
        /\ UNCHANGED <<clusters, isCanceled, config, stopCh, checking,
                       announced, db>>
    BY DEF UpdateEvent, BaseInv, TypeInv
  <1>2. Accepts(c, ev) => \E w \in IdleWorkers : Continue(w, Go("update", c, s))
    BY DEF UpdateEvent
  <1>3. ~Accepts(c, ev) => work' = work
    BY DEF UpdateEvent
  <1>4. /\ c \in Obj /\ s \in State /\ c \in clusters
        /\ ev \in {"update", "continuteCreate"} /\ ev \in DOMAIN Src
    BY <1>1, EventTable DEF GoodCall, BaseInv, HandlerTarget
  <1> HIDE DEF c, s, ev
  <1>5. api'.pc = "idle" /\ GoodCall(api') /\ api' \in CallType
    BY <1>1, IdleRecords DEF GoodCall
  <1>6. status \in [Obj -> Statuses]
    BY <1>1 DEF TypeInv, TypeOK
  <1>7. HandlerTarget'
    BY <1>5 DEF HandlerTarget
  <1>8. CASE ~Accepts(c, ev)
    <2>1. status' = status /\ work' = work
      BY <1>1, <1>3, <1>4, <1>6, <1>8, TransitFacts
    <2>2. TypeInv'
      <3>1. TypeOK'
        BY <1>1, <1>5, <2>1 DEF TypeInv, TypeOK, CallType
      <3> QED
        BY <3>1, <1>1, <1>5, <2>1 DEF TypeInv
    <2> QED
      BY <1>1, <1>7, <2>1, <2>2, FrameBase
  <1>9. CASE Accepts(c, ev)
    <2>1. PICK w \in IdleWorkers : Continue(w, Go("update", c, s))
      BY <1>2, <1>9
    <2>2. w \in Worker /\ work[w].pc = "idle"
      BY DEF IdleWorkers
    <2>3. OnlyWorker(w) /\ work'[w].job = "update" /\ work'[w].obj = c
      BY <1>1, <1>4, <2>1, <2>2, GoStep
    <2>4. /\ status' \in [Obj -> Statuses]
          /\ \A d \in Obj : d # c => status'[d] = status[d]
          /\ status[c] \in {"Running", "CreateFailed"}
          /\ status'[c] \in {"Updating", "Creating"}
          /\ status'[c] = "Updating" => status[c] = "Running"
      <3>1. /\ status'[c] = Dst[ev] /\ status[c] \in Src[ev]
            /\ status' \in [Obj -> Statuses]
            /\ \A d \in Obj : d # c => status'[d] = status[d]
        BY <1>1, <1>4, <1>6, <1>9, TransitFacts
      <3> QED
        BY <3>1, <1>4, EventTable, SMTT(40)
    <2>5. TypeInv'
      <3>1. TypeOK'
        BY <1>1, <1>5, <2>3, <2>4
           DEF TypeInv, TypeOK, CallType, OnlyWorker, WorkType
      <3> QED
        BY <3>1, <1>5, <2>3 DEF TypeInv, OnlyWorker
    <2>6. UniqueNames' /\ LiveIsListed' /\ ListedExists'
      <3>1. clusters' = clusters /\ clusters \subseteq Obj
        BY <1>1 DEF TypeInv, TypeOK
      <3> QED
        BY <3>1, <1>4, <2>4 DEF BaseInv, UniqueNames, LiveIsListed, ListedExists
    <2>7. \A v \in Worker : work'[v].job = "destroy" =>
            /\ v # w /\ work'[v] = work[v]
            /\ work[v].obj # c /\ work[v].obj \in Obj
      BY <2>3, <2>4, DestroyerFacts DEF OnlyWorker
    <2>8. DestroyerStatus' /\ OneDestroyer'
      BY <1>1, <2>4, <2>7, SMTT(40) DEF BaseInv, DestroyerStatus, OneDestroyer, Destroying
    <2>9. AnnouncedOrPending'
      <3>1. \A v \in Worker : work[v].pc = "callback" => work'[v] = work[v]
        BY <2>2, <2>3 DEF OnlyWorker
      <3>2. \A d \in Obj : status'[d] \in {"Running", "Unreachable", "Updating"} =>
              status[d] \in {"Running", "Unreachable", "Updating"}
        BY <1>4, <2>4
      <3>3. announced' = announced /\ AnnouncedOrPending
        BY <1>1 DEF BaseInv
      <3> QED
        BY <3>1, <3>2, <3>3, SMTT(40) DEF AnnouncedOrPending
    <2> QED
      BY <1>7, <2>5, <2>6, <2>8, <2>9 DEF BaseInv
  <1> QED
    BY <1>8, <1>9
(* DeleteEvent: the event is accepted, as the status has stayed deletable. *)
LEMMA DeleteEventBase ==
  ASSUME BaseInv, DeleteEvent
  PROVE  BaseInv'
  <1> DEFINE c == api.obj
  <1>1. /\ api.pc = "deleteEvent" /\ GoodCall(api) /\ TypeInv
        /\ Transit(c, "delete") /\ api' = [api EXCEPT !.pc = "deleteClose"]
        /\ UNCHANGED <<clusters, isCanceled, config, stopCh, checking,
                       announced, db, work>>
    BY DEF DeleteEvent, BaseInv, TypeInv
  <1>2. /\ api \in CallType /\ c \in Obj /\ api.st \in State
        /\ c \in clusters /\ status[c] \in Src["delete"]
    BY <1>1 DEF GoodCall, BaseInv, HandlerTarget
  <1>3. /\ api' \in CallType /\ api'.pc = "deleteClose"
        /\ api'.obj = c /\ api'.st = api.st
    BY <1>1, <1>2 DEF CallType
  <1> HIDE DEF c
  <1>4. status \in [Obj -> Statuses] /\ "delete" \in DOMAIN Src
    BY <1>1, EventTable DEF TypeInv, TypeOK
  <1>5. /\ status' \in [Obj -> Statuses] /\ status'[c] = "Deleting"
        /\ \A d \in Obj : d # c => status'[d] = status[d]
        /\ status[c] \in {"Running", "CreateFailed", "Unreachable"}
    BY <1>1, <1>2, <1>4, TransitFacts, EventTable, SMTT(40) DEF Accepts
  <1>6. TypeInv'
    <2>1. TypeOK'
      BY <1>1, <1>3, <1>5 DEF TypeInv, TypeOK, CallType
    <2> QED
      BY <2>1, <1>1, <1>2, <1>3 DEF TypeInv, GoodCall
  <1>7. UniqueNames' /\ LiveIsListed' /\ ListedExists'
    <2>1. clusters' = clusters /\ clusters \subseteq Obj
      BY <1>1 DEF TypeInv, TypeOK
    <2> QED
      BY <2>1, <1>2, <1>5 DEF BaseInv, UniqueNames, LiveIsListed, ListedExists
  <1>8. \A v \in Worker : work[v].job = "destroy" =>
          work[v].obj # c /\ work[v].obj \in Obj
    BY <1>5, DestroyerFacts
  <1>9. DestroyerStatus' /\ OneDestroyer'
    BY <1>1, <1>5, <1>8 DEF BaseInv, DestroyerStatus, OneDestroyer, Destroying
  <1>10. HandlerTarget'
    BY <1>1, <1>2, <1>3, <1>5, <1>8 DEF HandlerTarget, Destroying
  <1>11. AnnouncedOrPending'
    BY <1>1, <1>5 DEF BaseInv, AnnouncedOrPending
  <1> QED
    BY <1>6, <1>7, <1>9, <1>10, <1>11 DEF BaseInv

(* DeleteClose starts the only goroutine that destroys the cluster. *)
LEMMA DeleteCloseBase ==
  ASSUME BaseInv, DeleteClose
  PROVE  BaseInv'
  <1> DEFINE c == api.obj
             s == api.st
  <1>1. /\ api.pc = "deleteClose" /\ GoodCall(api) /\ TypeInv /\ api' = IdleCall
        /\ UNCHANGED <<clusters, status, isCanceled, config, checking>>
    BY DEF DeleteClose, BaseInv, TypeInv
  <1>2. /\ c \in Obj /\ s \in State /\ c \in clusters /\ status[c] = "Deleting"
        /\ \A v \in Worker : Destroying(v) => work[v].obj # c
    BY <1>1 DEF GoodCall, BaseInv, HandlerTarget
  <1>3. /\ stopCh' = stopCh \/ stopCh' = [stopCh EXCEPT ![c] = "closed"]
        /\ announced' = announced \/ announced' = announced \ {c}
    BY DEF DeleteClose
  <1>4. db' = db \/ Save(NameOf(c), s)
    BY DEF DeleteClose, DbFails
  <1>5. \/ work' = work
        \/ \E w \in IdleWorkers : Continue(w, Go("destroy", c, s))
    BY DEF DeleteClose
  <1> HIDE DEF c, s
  <1>6. api'.pc = "idle" /\ GoodCall(api') /\ api' \in CallType
    BY <1>1, IdleRecords DEF GoodCall
  <1>7. db' \in [Name -> State \cup {Null}]
    BY <1>1, <1>2, <1>4, NameOfType DEF TypeInv, TypeOK, Save
  <1>8. /\ stopCh' \in [Obj -> {"nil", "open", "closed"}]
        /\ announced' \subseteq Obj
    BY <1>1, <1>2, <1>3 DEF TypeInv, TypeOK
  <1>9. /\ work' \in [Worker -> WorkType]
        /\ \A v \in Worker : GoodWork(work'[v])
        /\ \A v \in Worker : \/ work'[v] = work[v]
                             \/ /\ work[v].pc = "idle" /\ work'[v].job = "destroy"
                                /\ work'[v].obj = c /\ work'[v].pc = "up"
        /\ \A v, w \in Worker : work'[v] # work[v] /\ work'[w] # work[w] => v = w
    <2>1. CASE work' = work
      BY <2>1, <1>1 DEF TypeInv, TypeOK, WorkType
    <2>2. ASSUME NEW w \in IdleWorkers, Continue(w, Go("destroy", c, s))
          PROVE  <1>9!:
      <3>1. w \in Worker /\ work[w].pc = "idle"
        BY DEF IdleWorkers
      <3>2. /\ OnlyWorker(w) /\ work'[w].job = "destroy"
            /\ work'[w].obj = c /\ work'[w].pc = "up"
        BY <1>1, <1>2, <2>2, <3>1, GoStep
      <3> QED
        BY <3>1, <3>2 DEF OnlyWorker
    <2> QED
      BY <1>5, <2>1, <2>2
  <1>10. TypeInv'
    <2>1. TypeOK'
      BY <1>1, <1>6, <1>7, <1>8, <1>9 DEF TypeInv, TypeOK, CallType, WorkType
    <2> QED
      BY <2>1, <1>6, <1>9 DEF TypeInv
  <1>11. UniqueNames' /\ LiveIsListed' /\ ListedExists'
    BY <1>1 DEF BaseInv, UniqueNames, LiveIsListed, ListedExists
  <1>12. DestroyerStatus' /\ OneDestroyer'
    BY <1>1, <1>2, <1>9, SMTT(40) DEF BaseInv, DestroyerStatus, OneDestroyer, Destroying
  <1>13. HandlerTarget'
    BY <1>6 DEF HandlerTarget
  <1>14. AnnouncedOrPending'
    BY <1>1, <1>2, <1>3, <1>9, SMTT(40) DEF BaseInv, AnnouncedOrPending
  <1> QED
    BY <1>10, <1>11, <1>12, <1>13, <1>14 DEF BaseInv

(* A connection check moves a cluster between Running and Unreachable. *)
LEMMA ConnectionBase ==
  ASSUME BaseInv, NEW c \in Obj, ConnectionCheck(c) \/ CheckLoopExits(c)
  PROVE  BaseInv'
  <1>1. TypeInv /\ UNCHANGED <<clusters, isCanceled, config, stopCh, announced,
                               db, api, work>>
    BY DEF BaseInv, ConnectionCheck, CheckLoopExits
  <1>2. CASE CheckLoopExits(c)
    <2>1. status' = status /\ checking' = checking \ {c}
      BY <1>2 DEF CheckLoopExits
    <2>2. TypeInv'
      BY <1>1, <2>1 DEF TypeInv, TypeOK
    <2>3. HandlerTarget'
      BY <1>1, <2>1 DEF BaseInv, HandlerTarget, Destroying
    <2> QED
      BY <1>1, <2>1, <2>2, <2>3, FrameBase
  <1>3. CASE ConnectionCheck(c)
    <2>1. PICK ev \in {"getInfoFailed", "getInfoSucceed"} :
            status[c] \in Src[ev] /\ Transit(c, ev)
      BY <1>3 DEF ConnectionCheck
    <2>2. ev \in DOMAIN Src /\ status \in [Obj -> Statuses] /\ checking' = checking
      BY <1>1, <1>3, <2>1, CheckEventFacts DEF TypeInv, TypeOK, ConnectionCheck
    <2>3. /\ status' \in [Obj -> Statuses]
          /\ \A d \in Obj : d # c => status'[d] = status[d]
          /\ status'[c] = Dst[ev]
      BY <2>1, <2>2, TransitFacts DEF Accepts
    <2>4. /\ status[c] \in {"Running", "Unreachable"}
          /\ status'[c] \in {"Running", "Unreachable"}
      BY <2>1, <2>3, CheckEventFacts
    <2>5. TypeInv'
      BY <1>1, <2>2, <2>3 DEF TypeInv, TypeOK
    <2>6. UniqueNames' /\ LiveIsListed' /\ ListedExists'
      BY <1>1, <2>3, <2>4, SMTT(40)
         DEF BaseInv, UniqueNames, LiveIsListed, ListedExists, TypeInv, TypeOK
    <2>7. \A v \in Worker : work[v].job = "destroy" =>
            work[v].obj # c /\ work[v].obj \in Obj
      BY <2>4, DestroyerFacts
    <2>8. DestroyerStatus' /\ OneDestroyer'
      BY <1>1, <2>3, <2>7 DEF BaseInv, DestroyerStatus, OneDestroyer, Destroying
    <2>9. HandlerTarget'
      <3>1. GoodCall(api)
        BY <1>1 DEF TypeInv
      <3> QED
        BY <3>1, <1>1, <2>3, <2>4, EventTable, SMTT(60)
           DEF BaseInv, HandlerTarget, Destroying, GoodCall
    <2>10. AnnouncedOrPending'
      <3>1. \A d \in Obj : status'[d] \in {"Running", "Unreachable", "Updating"} =>
              status[d] \in {"Running", "Unreachable", "Updating"}
        BY <2>3, <2>4
      <3>2. announced' = announced /\ work' = work /\ AnnouncedOrPending
        BY <1>1 DEF BaseInv
      <3> QED
        BY <3>1, <3>2 DEF AnnouncedOrPending
    <2> QED
      BY <2>5, <2>6, <2>8, <2>9, <2>10 DEF BaseInv
  <1> QED
    BY <1>2, <1>3
(* Goroutine steps that leave the list, the states and the announcements   *)
(* alone: the goroutine stays on its cluster or returns, a destroyer goes  *)
(* from "up" to "event" or returns, and no callback ends unannounced.      *)
LEMMA QuietWork ==
  ASSUME BaseInv, NEW w \in Worker, OnlyWorker(w),
         UNCHANGED <<clusters, status, api>>,
         work'[w].job = "destroy" =>
           Keeps(w) /\ work[w].pc = "up" /\ work'[w].pc = "event",
         work'[w].job # "destroy" => work'[w].pc \notin {"remove", "dbDelete"},
         work[w].pc = "callback" /\ work[w].ev = "createSucceed"
           => work[w].obj \in announced',
         announced \subseteq announced', TypeOK'
  PROVE  BaseInv'
  <1>1. TypeInv'
    BY DEF BaseInv, TypeInv, OnlyWorker
  <1>2. UniqueNames' /\ LiveIsListed' /\ ListedExists'
    BY DEF BaseInv, UniqueNames, LiveIsListed, ListedExists
  <1>3. \A v \in Worker : work'[v].job = "destroy" =>
          /\ work[v].job = "destroy" /\ work'[v].obj = work[v].obj
          /\ v # w => work'[v] = work[v]
    BY DEF OnlyWorker, Keeps
  <1>4. DestroyerStatus'
    <2> SUFFICES ASSUME NEW v \in Worker, work'[v].job = "destroy"
                 PROVE  /\ work'[v].pc \in {"up", "event"}
                             => status[work'[v].obj] = "Deleting"
                        /\ work'[v].pc \in {"remove", "dbDelete"}
                             => status[work'[v].obj] = "Deleted"
                        /\ work'[v].pc # "dbDelete" => work'[v].obj \in clusters
      BY DEF DestroyerStatus, Destroying
    <2> QED
      BY <1>3 DEF BaseInv, DestroyerStatus, Destroying
  <1>5. OneDestroyer'
    BY <1>3 DEF BaseInv, OneDestroyer, Destroying
  <1>6. HandlerTarget'
    BY <1>3 DEF BaseInv, HandlerTarget, Destroying
  <1>7. AnnouncedOrPending'
    BY SMTT(40) DEF BaseInv, AnnouncedOrPending, OnlyWorker
  <1> QED
    BY <1>1, <1>2, <1>4, <1>5, <1>6, <1>7 DEF BaseInv

(* upZKECluster, removeZKECluster and setCache end. *)
LEMMA UpCacheBase ==
  ASSUME BaseInv, NEW w \in Worker,
         \/ UpReturns(w) \/ UpPanics(w) \/ RemoveReturns(w)
         \/ CacheSet(w) \/ CacheFails(w)
  PROVE  BaseInv'
  <1>1. TypeInv /\ GoodWork(work[w])
    BY DEF BaseInv, TypeInv
  <1>2. UNCHANGED <<clusters, status, isCanceled, config, announced, db, api>>
    BY DEF UpReturns, UpPanics, RemoveReturns, CacheSet, CacheFails
  <1>3. CASE UpReturns(w) \/ UpPanics(w) \/ RemoveReturns(w)
    <2>1. UNCHANGED <<stopCh, checking>>
      BY <1>3 DEF UpReturns, UpPanics, RemoveReturns
    <2>2. /\ OnlyWorker(w) /\ Keeps(w)
          /\ work[w].pc = "up" /\ work'[w].pc \in {"event", "cache"}
      BY <1>1, <1>3, UpStep
    <2>3. TypeOK'
      BY <1>1, <1>2, <2>1, <2>2 DEF TypeInv, TypeOK, OnlyWorker, WorkType
    <2>4. work'[w].job = "destroy" => work'[w].pc = "event"
      <3>1. GoodWork(work'[w])
        BY <2>2 DEF OnlyWorker
      <3> QED
        BY <3>1, <2>2 DEF GoodWork
    <2> QED
      BY <1>2, <2>2, <2>3, <2>4, QuietWork
  <1>4. CASE CacheSet(w) \/ CacheFails(w)
    <2>1. /\ OnlyWorker(w) /\ Keeps(w) /\ work[w].obj \in Obj
          /\ work[w].pc = "cache" /\ work'[w].pc = "event"
      BY <1>1, <1>4, CacheSetStep, CacheFailsStep
    <2>2. /\ stopCh' \in [Obj -> {"nil", "open", "closed"}]
          /\ checking' \subseteq Obj
      BY <1>1, <1>4, <2>1, SMTT(40) DEF TypeInv, TypeOK, CacheSet, CacheFails
    <2>3. TypeOK'
      BY <1>1, <1>2, <2>1, <2>2 DEF TypeInv, TypeOK, OnlyWorker, WorkType
    <2>4. work'[w].job # "destroy"
      BY <1>1, <2>1 DEF GoodWork, Keeps
    <2> QED
      BY <1>2, <2>1, <2>3, <2>4, QuietWork
  <1> QED
    BY <1>3, <1>4

(* A callback ends: a new cluster is announced. *)
LEMMA CallbackBase ==
  ASSUME BaseInv, NEW w \in Worker, Callback(w)
  PROVE  BaseInv'
  <1>1. TypeInv /\ GoodWork(work[w]) /\ work[w].pc = "callback"
    BY DEF BaseInv, TypeInv, Callback
  <1>2. /\ work[w].obj \in Obj /\ work[w].st \in State /\ work[w].job # "destroy"
    BY <1>1 DEF GoodWork
  <1>3. /\ UNCHANGED <<clusters, status, config, stopCh, checking, api>>
        /\ announced' = AnnouncedAfter(work[w].obj, work[w].ev)
        /\ Continue(w, AfterEvent(w))
        /\ isCanceled' \subseteq isCanceled
        /\ Save(NameOf(work[w].obj), work[w].st) \/ db' = db
    BY DEF Callback, DbFails
  <1>4. /\ OnlyWorker(w) /\ work'[w].job # "destroy"
        /\ work'[w].pc \in {"idle", "event"}
    <2>1. /\ OnlyWorker(w)
          /\ ~work[w].more => work'[w].pc = "idle" /\ work'[w].job = "none"
          /\ work[w].more => Keeps(w) /\ work'[w].pc = "event"
      BY <1>1, <1>3, AfterEventStep
    <2> QED
      BY <2>1, <1>2 DEF Keeps
  <1>5. /\ announced \subseteq announced' /\ announced' \subseteq announced \cup {work[w].obj}
        /\ work[w].ev = "createSucceed" => work[w].obj \in announced'
    BY <1>3 DEF AnnouncedAfter
  <1>6. db' \in [Name -> State \cup {Null}]
    BY <1>1, <1>2, <1>3, NameOfType DEF TypeInv, TypeOK, Save
  <1>7. TypeOK'
    BY <1>1, <1>2, <1>3, <1>4, <1>5, <1>6 DEF TypeInv, TypeOK, OnlyWorker, WorkType
  <1> QED
    BY <1>3, <1>4, <1>5, <1>7, QuietWork
(* deleteCompleted's callback deletes the record and returns. *)
LEMMA DeleteRecordBase ==
  ASSUME BaseInv, NEW w \in Worker, DeleteRecord(w)
  PROVE  BaseInv'
  <1>1. TypeInv /\ GoodWork(work[w]) /\ work[w].pc = "dbDelete"
    BY DEF BaseInv, TypeInv, DeleteRecord
  <1>2. work[w].obj \in Obj /\ work[w].more = FALSE
    BY <1>1 DEF GoodWork
  <1>3. /\ UNCHANGED <<clusters, status, isCanceled, config, stopCh, checking,
                       announced, api>>
        /\ Continue(w, AfterEvent(w))
        /\ Save(NameOf(work[w].obj), Null) \/ db' = db
    BY DEF DeleteRecord, DbFails
  <1>4. OnlyWorker(w) /\ work'[w].job = "none" /\ work'[w].pc = "idle"
    BY <1>1, <1>2, <1>3, AfterEventStep
  <1>5. db' \in [Name -> State \cup {Null}]
    BY <1>1, <1>2, <1>3, NameOfType DEF TypeInv, TypeOK, Save
  <1>6. TypeOK'
    BY <1>1, <1>3, <1>4, <1>5 DEF TypeInv, TypeOK, OnlyWorker, WorkType
  <1> QED
    BY <1>1, <1>3, <1>4, <1>6, QuietWork

(* An accepted event leads to its state; a rejected one changes nothing. *)
LEMMA SendEventBase ==
  ASSUME BaseInv, NEW w \in Worker, SendEvent(w)
  PROVE  BaseInv'
  <1> DEFINE c == work[w].obj
             ev == work[w].ev
  <1>1. /\ TypeInv /\ Transit(c, ev)
        /\ UNCHANGED <<clusters, isCanceled, config, stopCh, checking,
                       announced, db, api>>
    BY DEF BaseInv, SendEvent
  <1>2. /\ OnlyWorker(w) /\ work[w].pc = "event" /\ c \in Obj
        /\ ev \in WorkEvents
        /\ ev = "deleteCompleted" <=> work[w].job = "destroy"
    BY <1>1, SendEventStep
  <1>3. status \in [Obj -> Statuses] /\ ev \in DOMAIN Src
    BY <1>1, <1>2, WorkEventsInTable DEF TypeInv, TypeOK
  <1>4. /\ status' \in [Obj -> Statuses]
        /\ \A d \in Obj : d # c => status'[d] = status[d]
    BY <1>1, <1>2, <1>3, TransitFacts
  <1>5. TypeOK'
    BY <1>1, <1>2, <1>4 DEF TypeInv, TypeOK, OnlyWorker, WorkType
  <1>6. CASE ~Accepts(c, ev)
    <2>1. status' = status
      BY <1>1, <1>2, <1>3, <1>6, TransitFacts
    <2>2. Continue(w, AfterEvent(w))
      BY <1>1, <1>6, SendEventStep
    <2>3. /\ ~work[w].more => work'[w].pc = "idle" /\ work'[w].job = "none"
          /\ work[w].more => /\ Keeps(w) /\ work'[w].pc = "event"
                             /\ work[w].job # "destroy"
      BY <1>1, <1>2, <2>2, AfterEventStep
    <2>4. work'[w].job # "destroy" /\ work'[w].pc \notin {"remove", "dbDelete"}
      BY <2>3 DEF Keeps
    <2> QED
      BY <1>1, <1>2, <1>5, <2>1, <2>4, QuietWork
  <1>7. CASE Accepts(c, ev)
    <2>1. /\ Keeps(w) /\ work'[w].ev = ev
          /\ work'[w].pc = IF work[w].job = "destroy" THEN "remove" ELSE "callback"
      BY <1>1, <1>7, SendEventStep
    <2>2. status'[c] = Dst[ev] /\ status[c] \in Src[ev]
      BY <1>1, <1>2, <1>3, <1>7, TransitFacts
    <2> HIDE DEF c, ev
    <2>3. /\ status[c] \in {"Creating", "Updating", "Deleting"}
          /\ status'[c] \in {"Running", "CreateFailed", "Deleted"}
          /\ status'[c] = "Deleted" <=> ev = "deleteCompleted"
          /\ status[c] = "Deleting" <=> ev = "deleteCompleted"
          /\ status'[c] = "Running" => ev = "createSucceed" \/ status[c] = "Updating"
      BY <1>2, <2>2, EventTable, SMTT(40) DEF WorkEvents
    <2>4. TypeInv'
      BY <1>1, <1>2, <1>5 DEF TypeInv, OnlyWorker
    <2>5. UniqueNames' /\ LiveIsListed' /\ ListedExists'
      <3>1. clusters' = clusters /\ clusters \subseteq Obj
        BY <1>1 DEF TypeInv, TypeOK
      <3> QED
        BY <3>1, <1>2, <1>4, <2>3
           DEF BaseInv, UniqueNames, LiveIsListed, ListedExists
    <2>6. \A v \in Worker : work'[v].job = "destroy" =>
            /\ work[v].job = "destroy" /\ work'[v].obj = work[v].obj
            /\ work[v].obj \in Obj
            /\ v # w => work'[v] = work[v] /\ work[v].obj # c
      <3>1. \A v \in Worker : work[v].job = "destroy" =>
              /\ work[v].obj \in Obj
              /\ status[work[v].obj] \in {"Deleting", "Deleted"}
        BY DestroyerFacts
      <3>2. \A v \in Worker : work[v].job = "destroy" /\ work[v].obj = c => v = w
        BY <1>2, <2>3, <3>1 DEF BaseInv, OneDestroyer, Destroying, c
      <3> QED
        BY <1>2, <2>1, <3>1, <3>2 DEF OnlyWorker, Keeps
    <2>7. DestroyerStatus'
      <3> SUFFICES ASSUME NEW v \in Worker, work'[v].job = "destroy"
                   PROVE  /\ work'[v].pc \in {"up", "event"}
                               => status'[work'[v].obj] = "Deleting"
                          /\ work'[v].pc \in {"remove", "dbDelete"}
                               => status'[work'[v].obj] = "Deleted"
                          /\ work'[v].pc # "dbDelete" => work'[v].obj \in clusters
        BY <1>1 DEF DestroyerStatus, Destroying
      <3>1. CASE v # w
        BY <3>1, <1>4, <2>6, SMTT(40) DEF BaseInv, DestroyerStatus, Destroying
      <3>2. CASE v = w
        BY <3>2, <1>2, <2>1, <2>3, <2>6
           DEF BaseInv, DestroyerStatus, Destroying, c
      <3> QED
        BY <3>1, <3>2
    <2>8. OneDestroyer'
      BY <2>6 DEF BaseInv, OneDestroyer, Destroying
    <2>9. HandlerTarget'
      <3>1. GoodCall(api) /\ api' = api /\ clusters' = clusters
        BY <1>1 DEF TypeInv
      <3>2. api.pc \in {"deleteEvent", "deleteClose"} => status'[api.obj] = status[api.obj]
        <4>1. api.pc = "deleteEvent" => api.obj # c
          BY <2>3, EventTable DEF BaseInv, HandlerTarget
        <4>2. api.pc = "deleteClose" => api.obj # c
          BY <1>2, <2>3 DEF BaseInv, HandlerTarget, Destroying, c
        <4> QED
          BY <4>1, <4>2, <3>1, <1>4 DEF GoodCall
      <3> QED
        BY <3>1, <3>2, <2>6 DEF BaseInv, HandlerTarget, Destroying
    <2>10. AnnouncedOrPending'
      <3>1. \A v \in Worker : work[v].pc = "callback" => work'[v] = work[v]
        BY <1>2 DEF OnlyWorker
      <3> SUFFICES ASSUME NEW d \in Obj,
                          status'[d] \in {"Running", "Unreachable", "Updating"}
                   PROVE  \/ d \in announced
                          \/ \E v \in Worker : /\ work'[v].obj = d
                                               /\ work'[v].pc = "callback"
                                               /\ work'[v].ev = "createSucceed"
        BY <1>1 DEF AnnouncedOrPending
      <3>2. CASE d # c
        BY <3>1, <3>2, <1>4, SMTT(40) DEF BaseInv, AnnouncedOrPending
      <3>3. CASE d = c
        BY <3>1, <3>3, <1>2, <2>1, <2>3, SMTT(60)
           DEF BaseInv, AnnouncedOrPending, Keeps, c
      <3> QED
        BY <3>2, <3>3
    <2> QED
      BY <2>4, <2>5, <2>7, <2>8, <2>9, <2>10 DEF BaseInv
  <1> QED
    BY <1>6, <1>7
(* Remove finds the deleted object itself under its name and drops it. *)
LEMMA RemoveDropsItsOwn ==
  ASSUME BaseInv, NEW w \in Worker, RemoveFromList(w)
  PROVE  /\ work[w].obj \in clusters /\ status[work[w].obj] = "Deleted"
         /\ clusters' = clusters \ {work[w].obj}
  <1>1. TypeInv /\ work[w].pc = "remove"
    BY DEF BaseInv, RemoveFromList
  <1>2. work[w].job = "destroy" /\ work[w].obj \in Obj
    BY <1>1, RemoveStep
  <1>3. work[w].obj \in clusters /\ status[work[w].obj] = "Deleted"
    BY <1>1, <1>2 DEF BaseInv, DestroyerStatus, Destroying
  <1>4. clusters' \in ListWithout(work[w].obj)
    BY <1>3 DEF RemoveFromList, NameIsFree
  <1> QED
    BY <1>3, <1>4 DEF ListWithout, BaseInv, UniqueNames

(* deleteCompleted's callback removes the cluster from the list. *)
LEMMA RemoveBase ==
  ASSUME BaseInv, NEW w \in Worker, RemoveFromList(w)
  PROVE  BaseInv'
  <1> DEFINE c == work[w].obj
  <1>1. /\ TypeInv /\ LockFree
        /\ UNCHANGED <<status, isCanceled, config, stopCh, checking, announced,
                       db, api>>
    BY DEF BaseInv, RemoveFromList
  <1>2. /\ OnlyWorker(w) /\ Keeps(w) /\ work'[w].pc = "dbDelete"
        /\ work[w].pc = "remove" /\ work[w].job = "destroy"
    BY <1>1, RemoveStep
  <1>3. c \in clusters /\ status[c] = "Deleted" /\ clusters' = clusters \ {c}
    BY RemoveDropsItsOwn
  <1>4. TypeOK'
    BY <1>1, <1>2, <1>3 DEF TypeInv, TypeOK, OnlyWorker, WorkType
  <1>5. TypeInv'
    BY <1>1, <1>2, <1>4 DEF TypeInv, OnlyWorker
  <1>6. UniqueNames' /\ LiveIsListed' /\ ListedExists'
    BY <1>1, <1>3 DEF BaseInv, UniqueNames, LiveIsListed, ListedExists
  <1>7. DestroyerStatus' /\ OneDestroyer'
    <2>1. \A v \in Worker : v # w => work'[v] = work[v]
      BY <1>2 DEF OnlyWorker
    <2>2. \A v \in Worker : work[v].job = "destroy" /\ work[v].obj = c => v = w
      BY <1>2 DEF BaseInv, OneDestroyer, Destroying
    <2>3. work'[w].obj = c /\ work'[w].job = "destroy"
      BY <1>2 DEF Keeps
    <2>4. OneDestroyer'
      BY <2>1, <2>3, <1>2, SMTT(40) DEF BaseInv, OneDestroyer, Destroying
    <2>5. DestroyerStatus'
      BY <2>1, <2>2, <2>3, <1>1, <1>2, <1>3, SMTT(60)
         DEF BaseInv, DestroyerStatus, Destroying
    <2> QED
      BY <2>4, <2>5
  <1>8. HandlerTarget'
    BY <1>1 DEF HandlerTarget, LockFree
  <1>9. AnnouncedOrPending'
    BY <1>1, <1>2, SMTT(40) DEF BaseInv, AnnouncedOrPending, OnlyWorker
  <1> QED
    BY <1>5, <1>6, <1>7, <1>8, <1>9 DEF BaseInv

(* A restart begins with what loadDB finds, at most one object per name. *)
LEMMA RestartBase ==
  ASSUME BaseInv, Restart
  PROVE  BaseInv'
  <1>1. PICK g \in Gen, f \in SUBSET Name :
          status' = [c \in Obj |-> IF c[2] = g THEN LoadedStatus(NameOf(c), f)
                                               ELSE "Init"]
    BY DEF Restart
  <1>2. /\ clusters'  = {c \in Obj : status'[c] # "Init"}
        /\ announced' = {c \in Obj : status'[c] = "Running"}
        /\ checking'  = announced'
        /\ stopCh' = [c \in Obj |-> IF status'[c] = "Running" THEN "open" ELSE "nil"]
        /\ config' = [c \in Obj |-> IF status'[c] # "Init" THEN db[NameOf(c)].cfg
                                                           ELSE Null]
        /\ isCanceled' = {} /\ api' = IdleCall
        /\ work' = [w \in Worker |-> IdleWork] /\ db' = db
    BY DEF Restart
  <1>3. db \in [Name -> State \cup {Null}]
    BY DEF BaseInv, TypeInv, TypeOK
  <1>4. \A c \in Obj : /\ status'[c] \in {"Init", "Running", "CreateFailed"}
                       /\ status'[c] # "Init" => c[2] = g /\ db[NameOf(c)] # Null
    BY <1>1, <1>3, NameOfType DEF LoadedStatus
  <1>5. status' \in [Obj -> {"Init", "Running", "CreateFailed"}]
    BY <1>1, <1>4
  <1>6. config' \in [Obj -> Config \cup {Null}]
    <2>1. \A c \in Obj : status'[c] # "Init" => db[NameOf(c)].cfg \in Config
      BY <1>3, <1>4, NameOfType DEF State
    <2> QED
      BY <1>2, <2>1
  <1>7. /\ api' \in CallType /\ api'.pc = "idle" /\ GoodCall(api')
        /\ work' \in [Worker -> WorkType]
        /\ \A w \in Worker : GoodWork(work'[w]) /\ work'[w].job = "none"
    BY <1>2, IdleRecords DEF GoodCall, GoodWork
  <1>8. TypeOK'
    BY <1>2, <1>3, <1>5, <1>6, <1>7, SMTT(60) DEF TypeOK, CallType, WorkType, Statuses
  <1>9. UniqueNames'
    BY <1>2, <1>4, SMTT(60) DEF UniqueNames, NameOf, Obj
  <1> QED
    BY <1>2, <1>4, <1>7, <1>8, <1>9 DEF BaseInv, TypeInv, LiveIsListed,
       ListedExists, DestroyerStatus, OneDestroyer, Destroying, HandlerTarget,
       AnnouncedOrPending
(* Every step preserves BaseInv. *)
LEMMA NextBase == BaseInv /\ [Next]_vars => BaseInv'
  <1> SUFFICES ASSUME BaseInv, [Next]_vars PROVE BaseInv'
    OBVIOUS
  <1>1. CASE UNCHANGED vars
    <2>1. TypeInv' /\ HandlerTarget'
      BY <1>1 DEF vars, BaseInv, TypeInv, TypeOK, HandlerTarget, Destroying
    <2> QED
      BY <1>1, <2>1, FrameBase DEF vars
  <1>2. ASSUME NEW w \in Worker, WorkStep(w)
        PROVE  BaseInv'
    BY <1>2, UpCacheBase, SendEventBase, CallbackBase, RemoveBase,
       DeleteRecordBase DEF WorkStep
  <1>3. CASE Handler
    BY <1>3, UpdateSaveBase, UpdateEventBase, DeleteEventBase, DeleteCloseBase,
       CancelBase DEF Handler
  <1> QED
    BY <1>1, <1>2, <1>3, CreateBase, UpdateBeginBase, DeleteBeginBase,
       CancelBase, ConnectionBase, RestartBase DEF Next

(* BaseInv holds in every reachable state. *)
LEMMA BaseCorrect == Spec => []BaseInv
  BY InitBase, NextBase, PTL DEF Spec

(* Whatever fails, every variable keeps its type: in particular no         *)
(* goroutine ever sends the state machine an event it does not know.       *)
THEOREM TypeCorrect == Spec => []TypeOK
  <1>1. BaseInv => TypeOK
    BY DEF BaseInv, TypeInv
  <1> QED
    BY <1>1, BaseCorrect, PTL

(* Whatever fails, the list never holds two clusters of one name. *)
THEOREM NamesAreUnique == Spec => []UniqueNames
  <1>1. BaseInv => UniqueNames
    BY DEF BaseInv
  <1> QED
    BY <1>1, BaseCorrect, PTL

(* Whatever fails, a ready cluster whose callbacks have returned has been  *)
(* announced to the subscribers of the event bus.                          *)
THEOREM ReadyAnnounced == Spec => []ReadyIsAnnounced
  <1>1. BaseInv => ReadyIsAnnounced
    <2>1. BaseInv => clusters \subseteq Obj
      BY DEF BaseInv, TypeInv, TypeOK
    <2> QED
      BY <2>1, SMTT(40) DEF BaseInv, AnnouncedOrPending, ReadyIsAnnounced, EventMuFree,
                  InCallback
  <1> QED
    BY <1>1, BaseCorrect, PTL

-----------------------------------------------------------------------------
(***************************************************************************)
(* ClusterManager implements ClusterDirectory.                             *)
(***************************************************************************)

(* The diagram, state by state. *)
LEMMA Diagram ==
  /\ Directory!Succ["Creating"] = {"Running", "CreateFailed"}
  /\ Directory!Succ["Running"] = {"Updating", "Unreachable", "Deleting"}
  /\ Directory!Succ["Unreachable"] = {"Running", "Deleting"}
  /\ Directory!Succ["Updating"] = {"Running"}
  /\ Directory!Succ["CreateFailed"] = {"Creating", "Deleting"}
  /\ Directory!Succ["Deleting"] = {"Deleted"}
  BY DEF Directory!Succ

(* Every entry of the table of events is an arrow of the diagram. *)
LEMMA TableIsDiagram ==
  ASSUME NEW ev \in DOMAIN Src, NEW s \in Src[ev]
  PROVE  s \notin {"Init", "Deleted"} /\ Dst[ev] \in Directory!Succ[s]
  BY EventTable, Diagram, SMTT(40)

(* An event follows an arrow of the diagram, or changes nothing. *)
LEMMA TransitMoves ==
  ASSUME BaseInv, NEW c \in Obj, NEW ev \in DOMAIN Src, Transit(c, ev),
         UNCHANGED clusters
  PROVE  [Directory!Next]_<<clusters, status>>
  <1>1. status \in [Obj -> Statuses]
    BY DEF BaseInv, TypeInv, TypeOK
  <1>2. CASE ~Accepts(c, ev)
    BY <1>2 DEF Transit
  <1>3. CASE Accepts(c, ev)
    <2>1. status[c] \in Src[ev] /\ status' = [status EXCEPT ![c] = Dst[ev]]
      BY <1>3 DEF Transit, Accepts
    <2>2. status[c] \notin {"Init", "Deleted"} /\ Dst[ev] \in Directory!Succ[status[c]]
      BY <2>1, TableIsDiagram
    <2>3. c \in clusters
      BY <2>2 DEF BaseInv, LiveIsListed
    <2>4. Directory!Move(c)
      BY <2>1, <2>2, <2>3 DEF Directory!Move
    <2> QED
      BY <2>4 DEF Directory!Next, Directory!Obj, Obj
  <1> QED
    BY <1>2, <1>3

(* A step of the manager is a step of the directory or changes neither the *)
(* list nor a status.                                                      *)
LEMMA NextRefines ==
  BaseInv /\ [Next]_vars => [Directory!Next]_<<clusters, status>>
  <1> SUFFICES ASSUME BaseInv, [Next]_vars
               PROVE  [Directory!Next]_<<clusters, status>>
    OBVIOUS
  <1>a. Obj = Directory!Obj /\ \A c \in Obj : NameOf(c) = Directory!NameOf(c)
    BY DEF Obj, Directory!Obj, NameOf, Directory!NameOf
  <1>b. clusters \subseteq Obj
    BY DEF BaseInv, TypeInv, TypeOK
  <1>1. ASSUME NEW n \in Name, NEW k \in Config, Create(n, k)
        PROVE  Directory!Next
    <2>1. PICK c \in Obj : /\ NameOf(c) = n /\ status[c] = "Init"
                           /\ status' = [status EXCEPT ![c] = "Creating"]
                           /\ clusters' = clusters \cup {c}
      BY <1>1 DEF Create
    <2>2. Directory!Add(c)
      BY <1>1, <1>a, <1>b, <2>1 DEF Create, NameIsFree, Directory!Add
    <2> QED
      BY <2>2, <1>a DEF Directory!Next
  <1>2. CASE Handler
    <2>1. CASE UpdateSave \/ DeleteClose \/ CancelSet
      BY <2>1 DEF UpdateSave, DeleteClose, CancelSet
    <2>2. GoodCall(api)
      BY DEF BaseInv, TypeInv
    <2>3. CASE UpdateEvent
      <3> DEFINE ev == IF api.st.created THEN "update" ELSE "continuteCreate"
      <3>1. Transit(api.obj, ev) /\ clusters' = clusters /\ api.pc = "updateEvent"
        BY <2>3 DEF UpdateEvent
      <3>2. ev \in DOMAIN Src /\ api.obj \in Obj
        BY <3>1, <2>2, EventTable DEF GoodCall
      <3> HIDE DEF ev
      <3> QED
        BY <3>1, <3>2, TransitMoves
    <2>4. CASE DeleteEvent
      <3>1. Transit(api.obj, "delete") /\ clusters' = clusters /\ api.pc = "deleteEvent"
        BY <2>4 DEF DeleteEvent
      <3>2. "delete" \in DOMAIN Src /\ api.obj \in Obj
        BY <3>1, <2>2, EventTable DEF GoodCall
      <3> QED
        BY <3>1, <3>2, TransitMoves
    <2> QED
      BY <1>2, <2>1, <2>3, <2>4 DEF Handler
  <1>3. ASSUME NEW w \in Worker, WorkStep(w)
        PROVE  [Directory!Next]_<<clusters, status>>
    <2>1. CASE \/ UpReturns(w) \/ UpPanics(w) \/ RemoveReturns(w) \/ CacheSet(w)
               \/ CacheFails(w) \/ Callback(w) \/ DeleteRecord(w)
      BY <2>1 DEF UpReturns, UpPanics, RemoveReturns, CacheSet, CacheFails,
                  Callback, DeleteRecord
    <2>2. CASE SendEvent(w)
      <3>1. Transit(work[w].obj, work[w].ev) /\ clusters' = clusters
        BY <2>2 DEF SendEvent
      <3>2. work[w].obj \in Obj /\ work[w].ev \in DOMAIN Src
        BY <2>2, SendEventStep, WorkEventsInTable DEF BaseInv
      <3> QED
        BY <3>1, <3>2, TransitMoves
    <2>3. CASE RemoveFromList(w)
      <3>1. Directory!Drop(work[w].obj)
        BY <2>3, RemoveDropsItsOwn DEF RemoveFromList, Directory!Drop
      <3>2. work[w].obj \in Obj
        BY <2>3, RemoveStep DEF BaseInv
      <3> QED
        BY <3>1, <3>2, <1>a DEF Directory!Next
    <2> QED
      BY <1>3, <2>1, <2>2, <2>3 DEF WorkStep
  <1>4. ASSUME NEW c \in Obj, ConnectionCheck(c)
        PROVE  [Directory!Next]_<<clusters, status>>
    <2>1. PICK ev \in {"getInfoFailed", "getInfoSucceed"} : Transit(c, ev)
      BY <1>4 DEF ConnectionCheck
    <2>2. ev \in DOMAIN Src /\ clusters' = clusters
      BY <1>4, EventTable DEF ConnectionCheck
    <2> QED
      BY <2>1, <2>2, TransitMoves
  <1>5. CASE Restart
    <2>1. PICK g \in Gen, f \in SUBSET Name :
            status' = [c \in Obj |-> IF c[2] = g THEN LoadedStatus(NameOf(c), f)
                                                 ELSE "Init"]
      BY <1>5 DEF Restart
    <2>2. status' \in [Obj -> {"Init", "Running", "CreateFailed"}]
      BY <2>1 DEF LoadedStatus
    <2>3. clusters' = {c \in Obj : status'[c] # "Init"}
      BY <1>5 DEF Restart
    <2>4. UniqueNames' /\ clusters' \subseteq Obj
      BY <1>5, <2>3, RestartBase DEF BaseInv
    <2>5. Directory!Reload
      BY <2>2, <2>3, <2>4, <1>a, SMTT(40) DEF Directory!Reload, UniqueNames
    <2> QED
      BY <2>5 DEF Directory!Next
  <1>6. CASE UNCHANGED vars
    BY <1>6 DEF vars
  <1>7. ASSUME NEW c \in Obj, NEW k \in Config, UpdateBegin(c, k)
        PROVE  [Directory!Next]_<<clusters, status>>
    BY <1>7 DEF UpdateBegin
  <1>8. ASSUME NEW c \in Obj, DeleteBegin(c) \/ CancelBegin(c) \/ CheckLoopExits(c)
        PROVE  [Directory!Next]_<<clusters, status>>
    BY <1>8 DEF DeleteBegin, CancelBegin, CheckLoopExits
  <1> QED
    BY <1>1, <1>2, <1>3, <1>4, <1>5, <1>6, <1>7, <1>8 DEF Next

(* Whatever fails and whenever the server restarts, the list and the       *)
(* statuses only change the way the documented diagram allows.             *)
THEOREM Refinement == Spec => ImplementsDirectory
  <1>1. Init => Directory!Init
    BY DEF Init, Directory!Init, Obj, Directory!Obj
  <1>2. BaseInv /\ [Next]_vars => [Directory!Next]_(Directory!dirVars)
    BY NextRefines DEF Directory!dirVars
  <1> QED
    BY <1>1, <1>2, BaseCorrect, PTL DEF Spec, ImplementsDirectory, Directory!Spec
=============================================================================
