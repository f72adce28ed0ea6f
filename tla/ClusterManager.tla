--------------------------- MODULE ClusterManager ---------------------------
(***************************************************************************)
(* The cluster manager of pkg/zke: ZKEManager (manager.go), the goroutines *)
(* of a Cluster (cluster.go), its state machine (fsm.go, cement/fsm) and   *)
(* the records it keeps in the database (db.go).                           *)
(*                                                                         *)
(* Processes.  API handlers run one at a time, because each holds          *)
(* ZKEManager.lock from its first statement to its return; api is the      *)
(* handler holding it.  Create, Update and Destroy of a Cluster run in     *)
(* goroutines of their own (work), as does connectionCheckLoop (checking). *)
(* They share status, isCanceled, stopCh and the database without holding  *)
(* ZKEManager.lock; an event of the state machine is serialized by the     *)
(* object's eventMu, held until the event's callback has returned.         *)
(*                                                                         *)
(* A rejected request changes nothing and is not a step.  Configurations   *)
(* and their validation are abstract values.  Faults names the failures    *)
(* the environment may produce.  A definition marked "(wrong)" is a faulty *)
(* variant of the one after it that nothing uses: it shows which mistake   *)
(* the properties at the end of the module would catch.                    *)
(***************************************************************************)
EXTENDS FiniteSets

CONSTANTS Name,         \* cluster names
          Gen,          \* tells apart the objects that bear one name in turn
          Worker,       \* goroutines that may run at once (a bound)
          Config,       \* cluster configurations
          Faults,       \* the failures that may happen, see FaultsAssumption
          Null          \* no record, no object, no configuration

Obj == Name \X Gen
NameOf(c) == c[1]

(* clusterState, without the certificates and times it carries. *)
State == [created : BOOLEAN, cfg : Config]

ASSUME FaultsAssumption ==
  Faults \subseteq {"crash",      \* the server stops and starts again
                    "init",       \* Cluster.Init fails while loading
                    "setCache",   \* setCache fails
                    "panic",      \* upZKECluster panics
                    "db"}         \* a database transaction fails

ASSUME NullAssumption == Null \notin State \cup Obj \cup Config

VARIABLES
  clusters,     \* ZKEManager.clusters
  status,       \* Cluster.fsm.current; "Init" before newCluster
  isCanceled,   \* the objects whose Cluster.isCanceled is set
  config,       \* Cluster.config
  stopCh,       \* Cluster.stopCh: "nil", "open" or "closed"
  checking,     \* the objects with a running connectionCheckLoop
  announced,    \* the objects subscribers of the event bus were told of
  db,           \* the records of the cluster table
  api,          \* the API handler that holds ZKEManager.lock
  work          \* the goroutines running Create, Update and Destroy

vars == <<clusters, status, isCanceled, config, stopCh, checking, announced,
          db, api, work>>

-----------------------------------------------------------------------------
(***************************************************************************)
(* The state machine.                                                      *)
(***************************************************************************)

Statuses == {"Init", "Creating", "Running", "Unreachable", "Updating",
             "CreateFailed", "Deleting", "Deleted"}

(* The states each event may fire in, and the state it leads to. *)
Src == [createSucceed   |-> {"Creating"},
        createFailed    |-> {"Creating"},
        createCanceled  |-> {"Creating"},
        continuteCreate |-> {"CreateFailed"},
        update          |-> {"Running"},
        updateCompleted |-> {"Updating"},
        updateCanceled  |-> {"Updating"},
        getInfoFailed   |-> {"Running"},
        getInfoSucceed  |-> {"Unreachable"},
        delete          |-> {"Running", "CreateFailed", "Unreachable"},
        deleteCompleted |-> {"Deleting"}]

Dst == [createSucceed   |-> "Running",
        createFailed    |-> "CreateFailed",
        createCanceled  |-> "CreateFailed",
        continuteCreate |-> "Creating",
        update          |-> "Updating",
        updateCompleted |-> "Running",
        updateCanceled  |-> "Running",
        getInfoFailed   |-> "Unreachable",
        getInfoSucceed  |-> "Running",
        delete          |-> "Deleting",
        deleteCompleted |-> "Deleted"]

(* Events sent by a goroutine at the end of its work. *)
WorkEvents == {"createSucceed", "createFailed", "createCanceled",
               "updateCompleted", "updateCanceled", "deleteCompleted"}

(* The goroutine is inside the callback of its event and holds eventMu. *)
InCallback(w) == work[w].pc \in {"callback", "remove", "dbDelete"}

EventMuFree(c) == \A w \in Worker : work[w].obj = c => ~InCallback(w)

(* FSM.Event, once eventMu is acquired, accepts the events of the table *)
(* and returns an error for any other.                                     *)
AcceptsAny(c, ev) == TRUE                                       \* (wrong)
Accepts(c, ev) == status[c] \in Src[ev]

Transit(c, ev) ==
  status' = IF Accepts(c, ev) THEN [status EXCEPT ![c] = Dst[ev]] ELSE status

(* FSM.Can: the event is in the table and no transition is under way. *)
CanByTable(c, ev) == status[c] \in Src[ev]                      \* (wrong)
Can(c, ev) == status[c] \in Src[ev] /\ EventMuFree(c)

-----------------------------------------------------------------------------
(***************************************************************************)
(* The database and the processes.                                         *)
(***************************************************************************)

(* createOrUpdateClusterFromDB when it commits. *)
Save(n, s) == db' = [db EXCEPT ![n] = s]

(* A transaction that fails and leaves the database as it was. *)
DbFails == "db" \in Faults /\ UNCHANGED db

IdleCall == [pc |-> "idle", obj |-> Null, st |-> Null]

IdleWork == [pc |-> "idle", job |-> "none", obj |-> Null, st |-> Null,
             ev |-> "none", more |-> FALSE]

(* go cluster.Create(..), go cluster.Update(..), go cluster.Destroy(..) *)
Go(j, c, s) == [pc |-> "up", job |-> j, obj |-> c, st |-> s,
                ev |-> "none", more |-> FALSE]

(* One goroutine takes a step, or starts. *)
Continue(w, rec) == work' = [work EXCEPT ![w] = rec]

IdleWorkers == {w \in Worker : work[w].pc = "idle"}

-----------------------------------------------------------------------------
(***************************************************************************)
(* API handlers.  A handler starts when ZKEManager.lock is free.           *)
(***************************************************************************)

LockFree == api.pc = "idle"

(* m.get(name) = nil *)
NameIsFree(n) == \A c \in clusters : NameOf(c) # n

(* ZKEManager.Create: the whole handler is one step, as nobody else sees   *)
(* the object before the lock is released.                                 *)
Create(n, k) ==
  /\ LockFree
  /\ NameIsFree(n)
  /\ \E c \in Obj, w \in IdleWorkers :
       LET s == [created |-> FALSE, cfg |-> k]
       IN  /\ NameOf(c) = n
           /\ status[c] = "Init"
           /\ Save(n, s)
           /\ status' = [status EXCEPT ![c] = "Creating"]
           /\ config' = [config EXCEPT ![c] = k]
           /\ clusters' = clusters \cup {c}
           /\ Continue(w, Go("create", c, s))
  /\ UNCHANGED <<isCanceled, stopCh, checking, announced, api>>

(* ZKEManager.Update up to the assignment of the new configuration: only a *)
(* cluster whose record says Created is asked whether it can update.       *)
UpdateBegin(c, k) ==
  LET rec == db[NameOf(c)]
  IN  /\ LockFree
      /\ IdleWorkers # {}
      /\ c \in clusters
      /\ rec # Null
      /\ rec.created => Can(c, "update")
      /\ config' = [config EXCEPT ![c] = k]
      /\ api' = [pc |-> "updateSave", obj |-> c, st |-> [rec EXCEPT !.cfg = k]]
      /\ UNCHANGED <<clusters, status, isCanceled, stopCh, checking,
                     announced, db, work>>

(* The record read above is written back with the new configuration. *)
UpdateSave ==
  /\ api.pc = "updateSave"
  /\ \/ /\ Save(NameOf(api.obj), api.st)
        /\ api' = [api EXCEPT !.pc = "updateEvent"]
     \/ /\ DbFails
        /\ api' = IdleCall
  /\ UNCHANGED <<clusters, status, isCanceled, config, stopCh, checking,
                 announced, work>>

(* Event(UpdateEvent) or Event(ContinuteCreateEvent), which waits for      *)
(* eventMu with ZKEManager.lock held; on success go existCluster.Update.   *)
UpdateEvent ==
  LET c  == api.obj
      ev == IF api.st.created THEN "update" ELSE "continuteCreate"
  IN  /\ api.pc = "updateEvent"
      /\ EventMuFree(c)
      /\ Transit(c, ev)
      /\ IF Accepts(c, ev)
         THEN \E w \in IdleWorkers :
                Continue(w, Go("update", c, api.st))
         ELSE UNCHANGED work
      /\ api' = IdleCall
      /\ UNCHANGED <<clusters, isCanceled, config, stopCh, checking,
                     announced, db>>

(* ZKEManager.Delete up to reading the record. *)
DeleteBegin(c) ==
  LET rec == db[NameOf(c)]
  IN  /\ LockFree
      /\ IdleWorkers # {}
      /\ c \in clusters
      /\ Can(c, "delete")
      /\ rec # Null
      /\ api' = [pc |-> "deleteEvent", obj |-> c, st |-> rec]
      /\ UNCHANGED <<clusters, status, isCanceled, config, stopCh, checking,
                     announced, db, work>>

(* Event(DeleteEvent), whose error nobody looks at. *)
DeleteEvent ==
  /\ api.pc = "deleteEvent"
  /\ EventMuFree(api.obj)
  /\ Transit(api.obj, "delete")
  /\ api' = [api EXCEPT !.pc = "deleteClose"]
  /\ UNCHANGED <<clusters, isCanceled, config, stopCh, checking, announced,
                 db, work>>

(* The rest of ZKEManager.Delete.  Closing a channel that is nil or closed *)
(* panics: the handler unwinds and releases the lock.                      *)
DeleteClose ==
  LET c == api.obj
      s == api.st
  IN  /\ api.pc = "deleteClose"
      /\ api' = IdleCall
      /\ IF s.created /\ stopCh[c] # "open"
         THEN UNCHANGED <<stopCh, announced, db, work>>
         ELSE /\ IF s.created
                 THEN /\ stopCh' = [stopCh EXCEPT ![c] = "closed"]
                      /\ announced' = announced \ {c}
                 ELSE UNCHANGED <<stopCh, announced>>
              /\ \/ /\ Save(NameOf(c), s)
                    /\ \E w \in IdleWorkers :
                         Continue(w, Go("destroy", c, s))
                 \/ DbFails /\ UNCHANGED work
      /\ UNCHANGED <<clusters, status, isCanceled, config, checking>>

(* Cluster.Cancel reads the status and the flag ... *)
CancelBegin(c) ==
  /\ LockFree
  /\ c \in clusters
  /\ status[c] \in {"Creating", "Updating"}
  /\ c \notin isCanceled
  /\ api' = [pc |-> "cancelSet", obj |-> c, st |-> Null]
  /\ UNCHANGED <<clusters, status, isCanceled, config, stopCh, checking,
                 announced, db, work>>

(* ... and then sets the flag, whatever the goroutine did in between. *)
CancelSet ==
  /\ api.pc = "cancelSet"
  /\ isCanceled' = isCanceled \cup {api.obj}
  /\ api' = IdleCall
  /\ UNCHANGED <<clusters, status, config, stopCh, checking, announced, db,
                 work>>

Handler ==
  UpdateSave \/ UpdateEvent \/ DeleteEvent \/ DeleteClose \/ CancelSet

-----------------------------------------------------------------------------
(***************************************************************************)
(* The goroutines of a cluster.                                            *)
(***************************************************************************)

(* The event Cluster.Create or Cluster.Update sends when upZKECluster      *)
(* returned and there is nothing left to do but report.                    *)
ReportAsUpdate(s, canceled) ==                                  \* (wrong)
  IF canceled THEN "createCanceled" ELSE "updateCompleted"
ReportEvent(s, canceled) ==
  CASE canceled /\ s.created   -> "updateCanceled"
    [] canceled /\ ~s.created  -> "createCanceled"
    [] ~canceled /\ s.created  -> "updateCompleted"
    [] ~canceled /\ ~s.created -> "createFailed"

(* The goroutine goes to another place in its code, or to the call of      *)
(* c.event with event ev, or to that call with state.Created = true.       *)
At(w, pc) == [work[w] EXCEPT !.pc = pc]
Report(w, ev) == [work[w] EXCEPT !.pc = "event", !.ev = ev]
ReportSuccess(w) == [work[w] EXCEPT !.pc = "event", !.ev = "createSucceed",
                                    !.st.created = TRUE, !.more = FALSE]

(* upZKECluster returned; isCanceled is read only here. *)
UpReturns(w) ==
  LET s == work[w].st
      c == work[w].obj
  IN  /\ work[w].pc = "up"
      /\ work[w].job \in {"create", "update"}
      /\ \/ \* canceled, failed, or an update that is complete
            Continue(w, Report(w, ReportEvent(s, c \in isCanceled)))
         \/ \* installed: the cluster still needs its client and cache
            /\ c \notin isCanceled
            /\ ~s.created
            /\ Continue(w, At(w, "cache"))
      /\ UNCHANGED <<clusters, status, isCanceled, config, stopCh, checking,
                     announced, db, api>>

(* upZKECluster panics and the deferred function reports. *)
UpPanics(w) ==
  /\ "panic" \in Faults
  /\ work[w].pc = "up"
  /\ work[w].job \in {"create", "update"}
  /\ Continue(w, Report(w, IF work[w].job = "create" THEN "createFailed"
                                                     ELSE "updateCompleted"))
  /\ UNCHANGED <<clusters, status, isCanceled, config, stopCh, checking,
                 announced, db, api>>

(* removeZKECluster returned or panicked: reported alike. *)
RemoveReturns(w) ==
  /\ work[w].pc = "up"
  /\ work[w].job = "destroy"
  /\ Continue(w, Report(w, "deleteCompleted"))
  /\ UNCHANGED <<clusters, status, isCanceled, config, stopCh, checking,
                 announced, db, api>>

(* setCache succeeds.  Only Cluster.Create starts connectionCheckLoop. *)
CacheSet(w) ==
  LET c == work[w].obj
  IN  /\ work[w].pc = "cache"
      /\ stopCh' = [stopCh EXCEPT ![c] = "open"]
      /\ checking' = IF work[w].job = "create" THEN checking \cup {c}
                                               ELSE checking
      /\ Continue(w, ReportSuccess(w))
      /\ UNCHANGED <<clusters, status, isCanceled, config, announced, db, api>>

(* setCache fails, before or after it made the channel.  Cluster.Create    *)
(* reports and returns; Cluster.Update reports and goes on.                *)
CacheFails(w) ==
  LET c == work[w].obj
  IN  /\ "setCache" \in Faults
      /\ work[w].pc = "cache"
      /\ \E ch \in {stopCh[c], "open"} : stopCh' = [stopCh EXCEPT ![c] = ch]
      /\ Continue(w, [Report(w, "createFailed")
                         EXCEPT !.more = (work[w].job = "update")])
      /\ UNCHANGED <<clusters, status, isCanceled, config, checking, announced,
                     db, api>>

(* What a goroutine does once its event is done with: it returns, except   *)
(* that Cluster.Update goes on to report success after a failed setCache.  *)
AfterEvent(w) == IF work[w].more THEN ReportSuccess(w) ELSE IdleWork

(* FSM.Event: waits for eventMu, then changes the state and enters the     *)
(* callback, or logs that the event is inappropriate.                      *)
SendEvent(w) ==
  LET c  == work[w].obj
      ev == work[w].ev
  IN  /\ work[w].pc = "event"
      /\ EventMuFree(c)
      /\ Transit(c, ev)
      /\ Continue(w, IF ~Accepts(c, ev)            THEN AfterEvent(w)
                     ELSE IF ev = "deleteCompleted" THEN At(w, "remove")
                                                    ELSE At(w, "callback"))
      /\ UNCHANGED <<clusters, isCanceled, config, stopCh, checking, announced,
                     db, api>>

(* The create event a callback publishes. *)
AnnouncedAfterUpdate(c, ev) ==                                  \* (wrong)
  IF ev = "updateCompleted" THEN announced \cup {c} ELSE announced
AnnouncedAfter(c, ev) ==
  IF ev = "createSucceed" THEN announced \cup {c} ELSE announced

(* The callbacks of all events but deleteCompleted: save the goroutine's   *)
(* state, reset the flag of a canceled operation, announce a new cluster.  *)
Callback(w) ==
  LET c  == work[w].obj
      ev == work[w].ev
  IN  /\ work[w].pc = "callback"
      /\ Save(NameOf(c), work[w].st) \/ DbFails
      /\ isCanceled' = IF ev \in {"createCanceled", "updateCanceled"}
                       THEN isCanceled \ {c} ELSE isCanceled
      /\ announced' = AnnouncedAfter(c, ev)
      /\ Continue(w, AfterEvent(w))
      /\ UNCHANGED <<clusters, status, config, stopCh, checking, api>>

(* ZKEManager.Remove drops the first object of that name from the list. *)
ListWithout(c) == {clusters \ {d} : d \in {x \in clusters : NameOf(x) = NameOf(c)}}

(* The deleteCompleted callback, holding eventMu, first calls Remove,      *)
(* which needs ZKEManager.lock ...                                         *)
RemoveFromList(w) ==
  LET c == work[w].obj
  IN  /\ work[w].pc = "remove"
      /\ LockFree
      /\ clusters' \in (IF NameIsFree(NameOf(c)) THEN {clusters}
                                                 ELSE ListWithout(c))
      /\ Continue(w, At(w, "dbDelete"))
      /\ UNCHANGED <<status, isCanceled, config, stopCh, checking, announced,
                     db, api>>

(* ... and then, without it, deletes the record of that name. *)
DeleteRecord(w) ==
  /\ work[w].pc = "dbDelete"
  /\ Save(NameOf(work[w].obj), Null) \/ DbFails
  /\ Continue(w, AfterEvent(w))
  /\ UNCHANGED <<clusters, status, isCanceled, config, stopCh, checking,
                 announced, api>>

WorkStep(w) ==
  \/ UpReturns(w) \/ UpPanics(w) \/ RemoveReturns(w)
  \/ CacheSet(w) \/ CacheFails(w)
  \/ SendEvent(w) \/ Callback(w) \/ RemoveFromList(w) \/ DeleteRecord(w)

(* connectionCheckLoop: a check that finds the API server gone or back. *)
ConnectionCheck(c) ==
  /\ c \in checking
  /\ EventMuFree(c)
  /\ \E ev \in {"getInfoFailed", "getInfoSucceed"} :
       status[c] \in Src[ev] /\ Transit(c, ev)
  /\ UNCHANGED <<clusters, isCanceled, config, stopCh, checking, announced, db,
                 api, work>>

(* connectionCheckLoop returns once stopCh is closed. *)
CheckLoopExits(c) ==
  /\ c \in checking
  /\ stopCh[c] = "closed"
  /\ checking' = checking \ {c}
  /\ UNCHANGED <<clusters, status, isCanceled, config, stopCh, announced, db,
                 api, work>>

-----------------------------------------------------------------------------
(***************************************************************************)
(* Start and restart.                                                      *)
(***************************************************************************)

(* loadDB for one record: the state of the object it builds. *)
LoadedAnyway(n, initFailed) ==                                  \* (wrong)
  IF db[n] = Null THEN "Init"
  ELSE IF ~db[n].created \/ n \in initFailed THEN "CreateFailed" ELSE "Running"
LoadedStatus(n, initFailed) ==
  IF db[n] = Null THEN "Init"
  ELSE IF ~db[n].created THEN "CreateFailed"
  ELSE IF n \in initFailed THEN "Init" ELSE "Running"

(* The server stops at any point and starts again: only the database       *)
(* survives, and loadDB lists and announces what it can initialize.        *)
Restart ==
  /\ "crash" \in Faults
  /\ \E g \in Gen, initFailed \in SUBSET Name :
       /\ initFailed # {} => "init" \in Faults
       /\ status' = [c \in Obj |-> IF c[2] = g
                                   THEN LoadedStatus(NameOf(c), initFailed)
                                   ELSE "Init"]
  /\ clusters'  = {c \in Obj : status'[c] # "Init"}
  /\ announced' = {c \in Obj : status'[c] = "Running"}
  /\ checking'  = announced'
  /\ stopCh'    = [c \in Obj |-> IF status'[c] = "Running" THEN "open" ELSE "nil"]
  /\ config'    = [c \in Obj |-> IF status'[c] # "Init" THEN db[NameOf(c)].cfg
                                                        ELSE Null]
  /\ isCanceled' = {}
  /\ api'  = IdleCall
  /\ work' = [w \in Worker |-> IdleWork]
  /\ UNCHANGED db

Init ==
  /\ clusters = {} /\ isCanceled = {} /\ checking = {} /\ announced = {}
  /\ status = [c \in Obj |-> "Init"]
  /\ stopCh = [c \in Obj |-> "nil"]
  /\ config = [c \in Obj |-> Null]
  /\ db = [n \in Name |-> Null]
  /\ api = IdleCall
  /\ work = [w \in Worker |-> IdleWork]

Next ==
  \/ \E n \in Name, k \in Config : Create(n, k)
  \/ \E c \in Obj, k \in Config : UpdateBegin(c, k)
  \/ \E c \in Obj : DeleteBegin(c) \/ CancelBegin(c)
  \/ Handler
  \/ \E w \in Worker : WorkStep(w)
  \/ \E c \in Obj : ConnectionCheck(c) \/ CheckLoopExits(c)
  \/ Restart

(* A goroutine and a handler that can take a step eventually do: Go runs   *)
(* every goroutine that can run, and upZKECluster returns.  A sync.Mutex   *)
(* is handed to a waiter that has waited long enough, so a goroutine       *)
(* waiting for ZKEManager.lock gets it if it is free again and again.      *)
Fairness ==
  /\ \A w \in Worker : WF_vars(WorkStep(w)) /\ SF_vars(RemoveFromList(w))
  /\ WF_vars(Handler)

Spec == Init /\ [][Next]_vars

FairSpec == Spec /\ Fairness

-----------------------------------------------------------------------------
(***************************************************************************)
(* Properties.                                                             *)
(***************************************************************************)

(* Every variable holds a value of its type. *)
TypeOK ==
  /\ clusters \subseteq Obj
  /\ status \in [Obj -> Statuses]
  /\ isCanceled \subseteq Obj
  /\ config \in [Obj -> Config \cup {Null}]
  /\ stopCh \in [Obj -> {"nil", "open", "closed"}]
  /\ checking \subseteq Obj
  /\ announced \subseteq Obj
  /\ db \in [Name -> State \cup {Null}]
  /\ api \in [pc : {"idle", "updateSave", "updateEvent", "deleteEvent",
                    "deleteClose", "cancelSet"},
              obj : Obj \cup {Null}, st : State \cup {Null}]
  /\ work \in [Worker ->
                [pc : {"idle", "up", "cache", "event", "callback", "remove",
                       "dbDelete"},
                 job : {"none", "create", "update", "destroy"},
                 obj : Obj \cup {Null}, st : State \cup {Null},
                 ev : WorkEvents \cup {"none"}, more : BOOLEAN]]

(* The list never holds two clusters of one name: ZKEManager.get and       *)
(* ZKEManager.Remove, which both look for a name, find the one object      *)
(* meant, although an object and its successor of the same name overlap.   *)
UniqueNames == \A c, d \in clusters : NameOf(c) = NameOf(d) => c = d

(* A cluster that is ready or being updated, with no callback under way,   *)
(* has been announced on the event bus, whatever failed on the way there:  *)
(* the alarm, DNS, threshold and shell managers know every ready cluster.  *)
ReadyIsAnnounced ==
  \A c \in clusters :
    status[c] \in {"Running", "Unreachable", "Updating"} /\ EventMuFree(c)
      => c \in announced

(* The manager implements the directory its documentation describes. *)
Directory == INSTANCE ClusterDirectory WITH Name <- Name, Gen <- Gen, clusters <- clusters, status <- status
ImplementsDirectory == Directory!Spec

(* Two goroutines never install, update or destroy the same cluster at the *)
(* same time: upZKECluster and removeZKECluster run one at a time per      *)
(* cluster, although nothing but the state machine keeps them apart.       *)
SingleWorker ==
  \A v, w \in Worker :
    work[v].obj = work[w].obj /\ work[v].obj # Null => v = w

(* A listed cluster that is Creating, Updating or Deleting has a goroutine *)
(* at work that will take it out of that state, or the delete handler is   *)
(* about to start it.                                                      *)
BusyHasWorker ==
  \A c \in clusters :
    status[c] \in {"Creating", "Updating", "Deleting"} =>
      \/ \E w \in Worker : work[w].obj = c
      \/ api.pc = "deleteClose" /\ api.obj = c

(* The delete handler closes stopCh only when it is open: close of a nil   *)
(* or closed channel would panic with the cluster already Deleting.        *)
CloseIsSafe ==
  api.pc \in {"deleteEvent", "deleteClose"} /\ api.st.created
    => stopCh[api.obj] = "open"

(* While the update of a created cluster is running, the configuration in  *)
(* memory, the one the goroutine will save and the one in the database (if *)
(* the record was not deleted with a predecessor) are the same.            *)
UpdateInstallsSavedConfig ==
  \A w \in Worker :
    LET c == work[w].obj
    IN  work[w].job = "update" /\ work[w].st.created /\ work[w].pc = "up" =>
          /\ config[c] = work[w].st.cfg
          /\ db[NameOf(c)] # Null => db[NameOf(c)] = work[w].st

(* Creating and Updating come to an end. *)
OperationsEnd ==
  \A c \in Obj :
    status[c] \in {"Creating", "Updating"} ~>
      status[c] \notin {"Creating", "Updating"}

(* What the design document says of a deletion: when the cleanup has ended *)
(* the cluster is removed from the list.                                   *)
DeletionEnds ==
  \A c \in Obj :
    status[c] = "Deleting" /\ c \in clusters ~> c \notin clusters

(* What the design document says of a creation: the status becomes Running *)
(* together with the record's Created.                                     *)
RunningIsDurable ==
  \A c \in clusters :
    status[c] = "Running" /\ EventMuFree(c) /\ LockFree
      => db[NameOf(c)] # Null /\ db[NameOf(c)].created
=============================================================================
