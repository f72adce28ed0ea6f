----------------------------- MODULE MCDelivery -----------------------------
(***************************************************************************)
(* The two ways in which the server hands events to goroutines, for TLC: a *)
(* listener of the bounded list of events (EventLog), and two topics of    *)
(* the event bus (PubSub), named alone or together.  A behaviour runs one  *)
(* of them.                                                                *)
(***************************************************************************)
EXTENDS EventLog

CONSTANTS p1, p2,       \* topics
          PsChan,       \* channels
          PsOps,        \* the calls of the event bus's client
          PsNil,
          Running       \* which of "events" and "pubsub" run

VARIABLES which,
          topics, revTopics, chan, call, srv, calls, due, misuse

psVars == <<topics, revTopics, chan, call, srv, calls, due, misuse>>

Ps == INSTANCE PubSub
  WITH Topic <- {p1, p2}, Lists <- {<<>>, <<p1>>, <<p2>>, <<p1, p2>>}, Chan <- PsChan,
       Client <- {"caller"}, Nil <- PsNil, Capacity <- 1, MaxCalls <- 4, Ops <- PsOps

DeliveryInit == which \in Running /\ Init /\ Ps!Init

DeliveryNext ==
  \/ which = "events" /\ Next /\ UNCHANGED <<which, psVars>>
  \/ which = "pubsub" /\ Ps!Next /\ UNCHANGED <<which, vars>>

DeliverySpec ==
  DeliveryInit /\ [][DeliveryNext]_<<which, vars, psVars>> /\ Fairness /\ Ps!Fairness

(* Pub loses, repeats and reorders nothing; the registry's two maps agree, *)
(* a channel is open exactly while it has a topic, and the goroutine       *)
(* panics only on misuse (cement/pubsub).                                  *)
PubDelivers == Ps!PubDelivers /\ Ps!RegistryAgrees /\ Ps!PanicsOnlyOnMisuse

(* Every call of the event bus is taken, unless it is shut down.           *)
CallsReturn == Ps!CallsReturn

(* "Close closes all channels currently subscribed to the specified        *)
(* topics." (cement/pubsub)                                                *)
CloseEmptiesTopic == Ps!CloseEmptiesTopic
=============================================================================
