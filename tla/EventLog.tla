------------------------------ MODULE EventLog ------------------------------
(***************************************************************************)
(* A bounded list of events and its listeners: EventWatcher, which keeps   *)
(* the Kubernetes events of a cluster (pkg/k8seventwatcher), and           *)
(* LogWatcher, which keeps the log of a cluster's installation             *)
(* (pkg/zke/zkelog).  Both have the same code; they differ in the first id *)
(* and in how a client of a listener leaves.                               *)
(*                                                                         *)
(* One goroutine adds events.  Every listener has a publisher goroutine    *)
(* that takes batches from the list and hands them, one event at a time,   *)
(* over an unbuffered channel to the client, the handler of a web socket.  *)
(* An event is its id.                                                     *)
(***************************************************************************)
EXTENDS Integers, Sequences

CONSTANTS Listener,
          MaxSize,      \* MaxEventCount, MaxLogSize
          StartID,      \* what eventID starts from: 1 in EventWatcher, 0 in LogWatcher
          Leaving,      \* how clients leave: "stop" (OpenLog), "gone" (OpenEvent)
          MaxEvents     \* bound: events added

ASSUME LogAssumption ==
  /\ MaxSize \in Nat /\ MaxSize >= 4
  /\ StartID \in Nat
  /\ MaxEvents \in Nat
  /\ Leaving \subseteq {"stop", "gone"}

BatchSize == MaxSize \div 4

VARIABLES
  eventID,      \* EventWatcher.eventID, LogWatcher.logID
  eventList,    \* the list, oldest event first
  adder,        \* where add is: "idle", "push" (has its id), "wake" (has pushed)
  pub,          \* pub[l]: the publisher of listener l: pc, EventListener.lastID,
                \*   what getEventsAfterID returned (last, batch)
  client,       \* client[l]: who reads the channel of l
  sent          \* sent[l]: the last event l's client has received

vars == <<eventID, eventList, adder, pub, client, sent>>

-----------------------------------------------------------------------------
(***************************************************************************)
(* Reading the list.                                                       *)
(***************************************************************************)

Nil == 0    \* no element: the walk ran off the list

(* getEventsFromOutdated walks from the front to the first newer event,    *)
(* getEventsFromLatest from the back to the last event that is not newer,  *)
(* and one on.                                                             *)
FromOutdated(s, id) ==
  IF \E i \in 1 .. Len(s) : s[i] > id
  THEN CHOOSE i \in 1 .. Len(s) : s[i] > id /\ \A j \in 1 .. i - 1 : s[j] <= id
  ELSE Nil

FromLatest(s, id) ==
  LET i == CHOOSE i \in 0 .. Len(s) : /\ i > 0 => s[i] <= id
                                      /\ \A j \in i + 1 .. Len(s) : s[j] > id
  IN  IF i = 0 \/ i = Len(s) THEN Nil ELSE i + 1

(* getEventsFromElem; the last id is counted, not read.                    *)
FromElemAll(s, i) ==                                            \* (wrong)
  LET n == IF Len(s) - i + 1 < BatchSize THEN Len(s) - i + 1 ELSE BatchSize
  IN  [last |-> s[Len(s)], batch |-> SubSeq(s, i, i + n - 1)]
FromElem(s, i) ==
  LET n == IF Len(s) - i + 1 < BatchSize THEN Len(s) - i + 1 ELSE BatchSize
  IN  [last |-> s[i] + n - 1, batch |-> SubSeq(s, i, i + n - 1)]

NoEvents == [last |-> 0, batch |-> <<>>]

(* Where getEventsAfterID starts to read.  The ids are unsigned: the       *)
(* second difference is huge if id is past the end.                        *)
StartElem(s, id) ==
  IF id < s[1] \/ id > s[Len(s)] \/ id - s[1] < s[Len(s)] - id
  THEN FromOutdated(s, id) ELSE FromLatest(s, id)

NothingAfter(s, id) == s = <<>> \/ (id >= s[1] /\ id = s[Len(s)])

-----------------------------------------------------------------------------
(***************************************************************************)
(* add                                                                     *)
(***************************************************************************)

Trim(s) == IF Len(s) > MaxSize THEN Tail(s) ELSE s

TakeID ==
  /\ adder = "idle"
  /\ eventID - StartID < MaxEvents
  /\ eventID' = eventID + 1
  /\ adder' = "push"
  /\ UNCHANGED <<eventList, pub, client, sent>>

Push ==
  /\ adder = "push"
  /\ eventList' = Trim(Append(eventList, eventID))
  /\ adder' = "wake"
  /\ UNCHANGED <<eventID, pub, client, sent>>

(* cond.Broadcast, after the lock is released. *)
Broadcast ==
  /\ adder = "wake"
  /\ pub' = [l \in Listener |-> IF pub[l].pc = "asleep"
                                THEN [pub[l] EXCEPT !.pc = "get"] ELSE pub[l]]
  /\ adder' = "idle"
  /\ UNCHANGED <<eventID, eventList, client, sent>>

-----------------------------------------------------------------------------
(***************************************************************************)
(* publishEvent                                                            *)
(***************************************************************************)

SetPub(l, rec) == pub' = [pub EXCEPT ![l] = rec]

(* getEventsAfterID *)
GetEvents(l) ==
  LET id == pub[l].lastID
      i  == StartElem(eventList, id)
      r  == IF NothingAfter(eventList, id) THEN NoEvents ELSE FromElem(eventList, i)
  IN  /\ pub[l].pc = "get"
      /\ SetPub(l, IF ~NothingAfter(eventList, id) /\ i = Nil
                   THEN [pub[l] EXCEPT !.pc = "panic"]
                   ELSE [pub[l] EXCEPT !.pc = "check", !.last = r.last,
                                       !.batch = r.batch])
      /\ UNCHANGED <<eventID, eventList, adder, client, sent>>

(* A client in Stop hands its request over where the publisher selects     *)
(* stopCh, and waits for the answer.                                       *)
TakeStop(l) ==
  /\ pub[l].pc \in {"check", "send"}
  /\ client[l] = "stop"
  /\ SetPub(l, [pub[l] EXCEPT !.pc = "answer"])
  /\ client' = [client EXCEPT ![l] = "answer"]
  /\ UNCHANGED <<eventID, eventList, adder, sent>>

(* The publisher answers and returns; the client closes the channel.       *)
AnswerStop(l) ==
  /\ pub[l].pc = "answer"
  /\ client[l] = "answer"
  /\ SetPub(l, [pub[l] EXCEPT !.pc = "done"])
  /\ client' = [client EXCEPT ![l] = "closed"]
  /\ UNCHANGED <<eventID, eventList, adder, sent>>

(* No request to stop. *)
StartBatch(l) ==
  /\ pub[l].pc = "check"
  /\ client[l] # "stop"
  /\ SetPub(l, IF pub[l].batch = <<>> THEN [pub[l] EXCEPT !.pc = "sleep"]
               ELSE [pub[l] EXCEPT !.pc = "send", !.lastID = pub[l].last])
  /\ UNCHANGED <<eventID, eventList, adder, client, sent>>

(* cond.Wait *)
Sleep(l) ==
  /\ pub[l].pc = "sleep"
  /\ SetPub(l, [pub[l] EXCEPT !.pc = "asleep"])
  /\ UNCHANGED <<eventID, eventList, adder, client, sent>>

(* One event of the batch is received. *)
AfterBatchSleeps(rest) == IF rest = <<>> THEN "sleep" ELSE "send" \* (wrong)
AfterSend(rest) == IF rest = <<>> THEN "get" ELSE "send"

Send(l) ==
  LET rest == Tail(pub[l].batch)
  IN  /\ pub[l].pc = "send"
      /\ client[l] = "open"
      /\ sent' = [sent EXCEPT ![l] = Head(pub[l].batch)]
      /\ SetPub(l, [pub[l] EXCEPT !.batch = rest, !.pc = AfterSend(rest)])
      /\ UNCHANGED <<eventID, eventList, adder, client>>

-----------------------------------------------------------------------------
(***************************************************************************)
(* OpenEvent and OpenLog                                                   *)
(***************************************************************************)

(* AddListener *)
Open(l) ==
  /\ client[l] = "none"
  /\ client' = [client EXCEPT ![l] = "open"]
  /\ SetPub(l, [pub[l] EXCEPT !.pc = "get"])
  /\ UNCHANGED <<eventID, eventList, adder, sent>>

(* Writing to the web socket failed: OpenLog calls Stop, OpenEvent returns. *)
Leave(l, how) ==
  /\ how \in Leaving
  /\ client[l] = "open"
  /\ client' = [client EXCEPT ![l] = how]
  /\ UNCHANGED <<eventID, eventList, adder, pub, sent>>

-----------------------------------------------------------------------------

Init ==
  /\ eventID = StartID
  /\ eventList = <<>>
  /\ adder = "idle"
  /\ pub = [l \in Listener |-> [pc |-> "none", lastID |-> 0, last |-> 0,
                                batch |-> <<>>]]
  /\ client = [l \in Listener |-> "none"]
  /\ sent = [l \in Listener |-> 0]

Publish(l) == \/ GetEvents(l) \/ TakeStop(l) \/ AnswerStop(l)
              \/ StartBatch(l) \/ Sleep(l) \/ Send(l)

Next ==
  \/ TakeID \/ Push \/ Broadcast
  \/ \E l \in Listener : \/ Publish(l)
                         \/ Open(l)
                         \/ \E how \in {"stop", "gone"} : Leave(l, how)

Spec == Init /\ [][Next]_vars

(* Goroutines go on when they can, and clients read.                       *)
Fairness ==
  /\ WF_vars(Push \/ Broadcast)
  /\ \A l \in Listener : WF_vars(Publish(l))

FairSpec == Spec /\ Fairness

-----------------------------------------------------------------------------
(***************************************************************************)
(* Properties.                                                             *)
(***************************************************************************)

(* Every variable holds a value of its type, and no publisher has          *)
(* dereferenced a nil element of the list.                                 *)
TypeOK ==
  /\ eventID \in Nat
  /\ eventList \in Seq(Nat)
  /\ adder \in {"idle", "push", "wake"}
  /\ pub \in [Listener -> [pc : {"none", "get", "check", "sleep", "asleep",
                                "send", "answer", "done"},
                          lastID : Nat, last : Nat, batch : Seq(Nat)]]
  /\ client \in [Listener -> {"none", "open", "stop", "gone", "answer", "closed"}]
  /\ sent \in [Listener -> Nat]

(* A client receives events in the order they were added, none twice, and  *)
(* misses only events the list has dropped: the last id that the publisher *)
(* remembers is the id of the last event of its batch, although it is      *)
(* counted from the first.                                                 *)
InOrder ==
  \A l \in Listener : pub[l].pc = "send" =>
    /\ sent[l] < Head(pub[l].batch)
    /\ \A i \in 1 .. Len(eventList) :
         ~(sent[l] < eventList[i] /\ eventList[i] < Head(pub[l].batch))

(* The list holds the latest events, MaxSize of them at most, with no gap  *)
(* between their ids.                                                      *)
Pushed == IF adder = "push" THEN eventID - 1 ELSE eventID
Kept == IF Pushed - StartID < MaxSize THEN Pushed - StartID ELSE MaxSize
KeepsLatest == eventList = [i \in 1 .. Kept |-> Pushed - Kept + i]

(* An event whose Broadcast finds a publisher asleep reaches the client,   *)
(* with the events before it that are still kept, or the list drops it     *)
(* before, or the client leaves.                                           *)
InList(i) == \E k \in 1 .. Len(eventList) : eventList[k] = i
Has(l, i) == sent[l] >= i \/ client[l] # "open"
WokenDelivers ==
  \A l \in Listener : \A i \in StartID + 1 .. StartID + MaxEvents :
    (pub[l].pc = "asleep" /\ adder = "wake" /\ eventID = i)
      ~> (Has(l, i) \/ ~InList(i))

(* Every event reaches every client, unless the list drops it before.      *)
AllDelivered ==
  \A l \in Listener : \A i \in StartID + 1 .. StartID + MaxEvents :
    (client[l] = "open" /\ InList(i))
      ~> (Has(l, i) \/ ~InList(i))
=============================================================================
