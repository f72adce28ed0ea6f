------------------------------- MODULE PubSub -------------------------------
(***************************************************************************)
(* cement/pubsub: one goroutine owns a registry of topics and of the       *)
(* channels subscribed to them; callers hand it commands over an           *)
(* unbuffered channel and subscribers read their buffered channels.        *)
(* pkg/eventbus is one instance of it, EventBufLen its Capacity.           *)
(*                                                                         *)
(* A message is the number of its Pub; Try stands for any message of a     *)
(* TryPub, which a full channel drops.                                     *)
(***************************************************************************)
EXTENDS Integers, FiniteSets, SequencesExt

CONSTANTS Topic, Chan, Client,
          Nil,          \* no command, no channel
          Capacity,     \* of the channels Sub makes
          Ops,          \* the operations the clients use
          Lists,        \* the lists of topics they name
          MaxCalls      \* bounds the calls made

VARIABLES topics,       \* registry.topics; an absent topic has no channel
          revTopics,    \* registry.revTopics; an absent channel has no topic
          chan,         \* each channel: its state and the messages in its buffer
          call,         \* the command each client waits to hand over
          srv,          \* start: its command and its place in the two loops
          calls,        \* the number of calls made
          due,          \* history: the messages of Pub each channel is owed
          misuse        \* history: AddSub of a closed channel or a topic it has

vars == <<topics, revTopics, chan, call, srv, calls, due, misuse>>

Try == 0

-----------------------------------------------------------------------------
(***************************************************************************)
(* The calls.                                                              *)
(***************************************************************************)

Request(k, op, list, ch, msg) ==
  /\ srv.pc # "panic"
  /\ call[k] = Nil
  /\ op \in Ops
  /\ calls < MaxCalls
  /\ calls' = calls + 1
  /\ call' = [call EXCEPT ![k] = [op |-> op, topics |-> list, ch |-> ch, msg |-> msg]]
  /\ UNCHANGED <<topics, revTopics, srv, due, misuse>>

(* Sub makes the channel; the topics are not empty. *)
Sub(k) ==
  \E list \in Lists \ {<<>>}, ch \in Chan :
    /\ chan[ch].state = "unmade"
    /\ chan' = [chan EXCEPT ![ch].state = "open"]
    /\ Request(k, "sub", list, ch, Try)

AddSub(k) ==
  \E list \in Lists \ {<<>>}, ch \in Chan :
    /\ "addSub" \in Ops
    /\ chan[ch].state # "unmade"
    /\ Request(k, "sub", list, ch, Try)
    /\ UNCHANGED chan

Pub(k) ==
  \E list \in Lists : Request(k, "pub", list, Nil, calls + 1) /\ UNCHANGED chan

TryPub(k) ==
  \E list \in Lists : Request(k, "tryPub", list, Nil, Try) /\ UNCHANGED chan

(* With no topic, from all topics. *)
Unsub(k) ==
  \E list \in Lists, ch \in Chan :
    /\ chan[ch].state # "unmade"
    /\ IF list = <<>> THEN Request(k, "unsubAll", list, ch, Try)
                      ELSE Request(k, "unsub", list, ch, Try)
    /\ UNCHANGED chan

Close(k) ==
  \E list \in Lists : Request(k, "closeTopic", list, Nil, Try) /\ UNCHANGED chan

Shutdown(k) ==
  Request(k, "shutdown", <<>>, Nil, Try) /\ UNCHANGED chan

(* A subscriber reads its channel until it reaches the end. *)
Read(ch) ==
  /\ srv.pc # "panic"
  /\ chan[ch].buf # <<>>
  /\ chan' = [chan EXCEPT ![ch].buf = Tail(@)]
  /\ due' = IF Head(chan[ch].buf) = Try THEN due ELSE [due EXCEPT ![ch] = Tail(@)]
  /\ UNCHANGED <<topics, revTopics, call, srv, calls, misuse>>

-----------------------------------------------------------------------------
(***************************************************************************)
(* The registry and the goroutine.                                         *)
(***************************************************************************)

(* How many times a message for these topics is sent to c. *)
Copies(list, c) ==
  Cardinality(UNION {{<<a, b>> : b \in {b \in DOMAIN topics[list[a]] : topics[list[a]][b] = c}} :
                     a \in DOMAIN list})

Idle == [pc |-> "recv", cmd |-> Nil, rest |-> <<>>, chs |-> <<>>, i |-> 0]

(* Wrong: return where start has continue. *)
BeginReturns(cmd, list) ==
  srv' = IF list = <<>> THEN [Idle EXCEPT !.pc = "gone"]
                        ELSE [srv EXCEPT !.pc = "topic", !.cmd = cmd, !.rest = list]

(* The outer loop starts: the topics to go through. *)
Begin(cmd, list) ==
  srv' = IF list = <<>> THEN Idle
                        ELSE [srv EXCEPT !.pc = "topic", !.cmd = cmd, !.rest = list]

(* A command with topics; without any it is ignored. *)
Take(cmd) ==
  /\ cmd.op \in {"sub", "pub", "tryPub", "unsub", "closeTopic"}
  /\ Begin(cmd, cmd.topics)
  /\ due' = IF cmd.op # "pub" THEN due
            ELSE [c \in Chan |-> due[c] \o [i \in 1 .. Copies(cmd.topics, c) |-> cmd.msg]]
  /\ misuse' = (misuse \/ /\ cmd.op = "sub"
                          /\ \/ chan[cmd.ch].state = "closed"
                             \/ ToSet(cmd.topics) \cap revTopics[cmd.ch] # {}
                             \/ ~IsInjective(cmd.topics))
  /\ UNCHANGED chan

(* removeChannel: remove from each of the channel's topics, in any order.  *)
TakeUnsubAll(cmd) ==
  /\ cmd.op = "unsubAll"
  /\ \E list \in SetToSeqs(revTopics[cmd.ch]) : Begin(cmd, list)
  /\ UNCHANGED <<chan, due, misuse>>

(* shutdown closes every registered channel; closing one twice panics.     *)
TakeShutdown(cmd) ==
  LET registered == {c \in Chan : revTopics[c] # {}} IN
  /\ cmd.op = "shutdown"
  /\ srv' = [srv EXCEPT !.pc = IF \E c \in registered : chan[c].state = "closed"
                               THEN "panic" ELSE "gone"]
  /\ chan' = [c \in Chan |-> IF c \in registered THEN [chan[c] EXCEPT !.state = "closed"]
                                                 ELSE chan[c]]
  /\ UNCHANGED <<due, misuse>>

Receive(k) ==
  /\ srv.pc = "recv"
  /\ call[k] # Nil
  /\ call' = [call EXCEPT ![k] = Nil]
  /\ Take(call[k]) \/ TakeUnsubAll(call[k]) \/ TakeShutdown(call[k])
  /\ UNCHANGED <<topics, revTopics, calls>>

Add(t, c) ==
  /\ topics' = [topics EXCEPT ![t] = Append(@, c)]
  /\ revTopics' = [revTopics EXCEPT ![c] = @ \cup {t}]
  /\ UNCHANGED chan

(* The first occurrence of c leaves the topic.  c is closed when no topic  *)
(* is left to it, as far as revTopics knows: a second time if it was       *)
(* listed twice, and that panics.                                          *)
RemoveFrom(t, c, next) ==
  LET listed == c \in ToSet(topics[t])
      last   == listed /\ revTopics[c] \ {t} = {}
  IN /\ topics' = [topics EXCEPT ![t] = RemoveFirst(@, c)]
     /\ revTopics' = IF listed THEN [revTopics EXCEPT ![c] = @ \ {t}] ELSE revTopics
     /\ chan' = IF last THEN [chan EXCEPT ![c].state = "closed"] ELSE chan
     /\ srv' = IF last /\ chan[c].state = "closed" THEN [srv EXCEPT !.pc = "panic"] ELSE next

NextTopic ==
  IF Len(srv.rest) > 1 THEN [srv EXCEPT !.pc = "topic", !.rest = Tail(@), !.chs = <<>>, !.i = 0]
                       ELSE Idle

(* The body of the outer loop: sub and unsub act at once, the others go    *)
(* through the channels of the topic.                                      *)
DoTopic ==
  LET t == Head(srv.rest) IN
  /\ srv.pc = "topic"
  /\ \/ /\ srv.cmd.op = "sub"
        /\ Add(t, srv.cmd.ch)
        /\ srv' = NextTopic
     \/ /\ srv.cmd.op \in {"unsub", "unsubAll"}
        /\ RemoveFrom(t, srv.cmd.ch, NextTopic)
     \/ /\ srv.cmd.op \in {"pub", "tryPub", "closeTopic"}
        /\ srv' = IF topics[t] = <<>> THEN NextTopic
                  ELSE [srv EXCEPT !.pc = "each", !.chs = topics[t], !.i = 1]
        /\ UNCHANGED <<topics, revTopics, chan>>
  /\ UNCHANGED <<call, calls, due, misuse>>

(* The inner loop's next channel, over the slice read at its start. *)
NextChan(chs) == IF srv.i = Len(chs) THEN NextTopic
                 ELSE [srv EXCEPT !.chs = chs, !.i = @ + 1]

Full(c) == Len(chan[c].buf) >= Capacity

(* Wrong: Pub does not wait either. *)
NeverWaits == TRUE

NoWait == srv.cmd.op = "tryPub"

(* send waits for room, sendNoWait goes on without; sending on a closed    *)
(* channel panics.                                                         *)
Send ==
  LET c == srv.chs[srv.i] IN
  /\ srv.pc = "each"
  /\ srv.cmd.op \in {"pub", "tryPub"}
  /\ \/ /\ chan[c].state = "closed"
        /\ srv' = [srv EXCEPT !.pc = "panic"]
        /\ UNCHANGED chan
     \/ /\ chan[c].state = "open"
        /\ ~Full(c)
        /\ chan' = [chan EXCEPT ![c].buf = Append(@, srv.cmd.msg)]
        /\ srv' = NextChan(srv.chs)
     \/ /\ chan[c].state = "open"
        /\ Full(c) /\ NoWait
        /\ srv' = NextChan(srv.chs)
        /\ UNCHANGED chan
  /\ UNCHANGED <<topics, revTopics, call, calls, due, misuse>>

(* removeTopic: remove compacts the topic's slice in place, and with it    *)
(* the slice the loop goes through.                                        *)
RemoveEach ==
  LET t   == Head(srv.rest)
      now == RemoveFirst(topics[t], srv.chs[srv.i])
  IN /\ srv.pc = "each"
     /\ srv.cmd.op = "closeTopic"
     /\ RemoveFrom(t, srv.chs[srv.i],
                   NextChan(now \o SubSeq(srv.chs, Len(now) + 1, Len(srv.chs))))
     /\ UNCHANGED <<call, calls, due, misuse>>

-----------------------------------------------------------------------------

Init ==
  /\ topics = [t \in Topic |-> <<>>]
  /\ revTopics = [c \in Chan |-> {}]
  /\ chan = [c \in Chan |-> [state |-> "unmade", buf |-> <<>>]]
  /\ call = [k \in Client |-> Nil]
  /\ srv = Idle
  /\ calls = 0
  /\ due = [c \in Chan |-> <<>>]
  /\ misuse = FALSE

Start == DoTopic \/ Send \/ RemoveEach

Next ==
  \/ \E k \in Client : \/ Sub(k) \/ AddSub(k) \/ Pub(k) \/ TryPub(k) \/ Unsub(k)
                       \/ Close(k) \/ Shutdown(k) \/ Receive(k)
  \/ \E c \in Chan : Read(c)
  \/ Start

Spec == Init /\ [][Next]_vars

(* The goroutine and the subscribers run; waiting callers are served in    *)
(* the order they came.                                                    *)
Fairness ==
  /\ WF_vars(Start)
  /\ \A c \in Chan : WF_vars(Read(c))
  /\ \A k \in Client : SF_vars(Receive(k))

FairSpec == Spec /\ Fairness

-----------------------------------------------------------------------------

(* Pub loses, repeats, reorders and invents nothing: what a subscriber has *)
(* in its buffer is the front of what it is owed, and all of it once the   *)
(* command is done, also when it was unsubscribed or closed meanwhile.     *)
PubDelivers ==
  srv.pc # "panic" =>
    \A c \in Chan :
      LET got == SelectSeq(chan[c].buf, LAMBDA m : m # Try)
      IN /\ IsPrefix(got, due[c])
         /\ srv.pc \in {"recv", "gone"} => got = due[c]

(* The two maps of the registry agree, and a channel is open exactly while *)
(* it has a topic: no subscriber waits on a channel nothing can end, none  *)
(* sees the end of a channel still subscribed.                             *)
RegistryAgrees ==
  ~misuse /\ srv.pc = "recv" =>
    /\ \A t \in Topic : IsInjective(topics[t])
    /\ \A t \in Topic, c \in Chan : c \in ToSet(topics[t]) <=> t \in revTopics[c]
    /\ \A c \in Chan :
         (\A k \in Client : call[k] = Nil \/ call[k].ch # c) =>
           (chan[c].state = "open" <=> revTopics[c] # {})

(* The goroutine panics only after AddSub of a closed channel, or of a     *)
(* topic the channel already has.                                          *)
PanicsOnlyOnMisuse == srv.pc = "panic" => misuse

(* As long as nobody shuts the goroutine down, every call is taken: the    *)
(* goroutine gets through each command, waiting for room in a full buffer  *)
(* only as long as the subscriber has something to read.                   *)
CallsReturn ==
  [](~misuse /\ \A k \in Client : call[k] = Nil \/ call[k].op # "shutdown")
    => \A k \in Client : call[k] # Nil ~> call[k] = Nil

(* "Close closes all channels currently subscribed to the specified        *)
(* topics": none is left when its loop over a topic ends.                  *)
CloseEmptiesTopic ==
  [][RemoveEach /\ srv'.rest # srv.rest => topics'[Head(srv.rest)] = <<>>]_vars
=============================================================================
