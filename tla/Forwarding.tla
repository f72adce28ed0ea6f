----------------------------- MODULE Forwarding -----------------------------
(***************************************************************************)
(* vanguard/resolver/forwarder with cement/workerpool and querysource:     *)
(* queries are forwarded to the servers of the zone they fall under, a     *)
(* server that keeps failing is taken out of use, and a prober sends it    *)
(* queries until it answers again.  Names are given with the zones above   *)
(* them; time is the age of a failure in seconds.                          *)
(***************************************************************************)
EXTENDS Integers, Sequences, FiniteSets, SequencesExt

CONSTANTS
  FwAddrs, FwClients, FwWorkers,   \* server addresses, query goroutines, probe goroutines
  FwAbove,       \* [name -> the name and the names above it, nearest first]
  FwConfigs,     \* parameters of a zone: [match, policy, addrs]
  FwLoads,       \* configurations: [forward zones -> parameters]
  FwSources,     \* addresses queries may be sent from; "" leaves it open
  FwRtts,        \* round trip times
  FwLasting,     \* TimeoutLasting
  FwChanges, FwQueries   \* bounds on the commands and reloads, and on the queries

VARIABLES
  fwStatus,   \* [<<generation, address>> -> the SafeUDPFwder]
  fwZones,    \* [name -> index of its group, 0 when it is not a forward zone]
  fwGroups,   \* the groups made so far
  fwProber,   \* [generation -> its prober]
  fwClient,   \* [client -> its query]
  fwSource,   \* the query source of the view, "none" when it has none
  fwReload,   \* the reload in progress, and the generation in use
  fwChanged, fwAsked, fwPanic

fwVars == <<fwStatus, fwZones, fwGroups, fwProber, fwClient, fwSource, fwReload, fwChanged, fwAsked, fwPanic>>

NoFailure == -1
FwNames == DOMAIN FwAbove
FwGens == 1 .. FwChanges + 1
FwNobody == [at |-> "idle"]
FwIdle == [at |-> "idle"]

NewSafeUDPFwder == [sender |-> "none", rtt |-> 0, fail |-> NoFailure, down |-> FALSE]

NewProber == [targets |-> <<>>, fwders |-> {}, batch |-> <<>>, run |-> "select", stopped |-> FALSE,
              worker |-> [w \in FwWorkers |-> FwNobody]]

(* One server is used by itself, several through a group.  Servers are     *)
(* shared by all the zones that name their address.                        *)
newZoneForwarder(conf, gen) ==
  [match  |-> conf.match,
   policy |-> IF Len(conf.addrs) = 1 THEN "single" ELSE conf.policy,
   fwders |-> [i \in DOMAIN conf.addrs |-> <<gen, conf.addrs[i]>>],
   next   |-> 0]

(* ViewFwderMgr.ReloadConfig: the zones of the view are made anew. *)
LoadZones(conf, gen, made) ==
  LET zones == SetToSeq(DOMAIN conf) IN
  [groups |-> made \o [i \in DOMAIN zones |-> newZoneForwarder(conf[zones[i]], gen)],
   zones  |-> [n \in FwNames |-> IF n \in DOMAIN conf
                 THEN Len(made) + CHOOSE i \in DOMAIN zones : zones[i] = n ELSE 0]]

FwInit ==
  /\ fwStatus = [f \in FwGens \X FwAddrs |-> NewSafeUDPFwder]
  /\ \E conf \in FwLoads : LET l == LoadZones(conf, 1, <<>>) IN fwZones = l.zones /\ fwGroups = l.groups
  /\ fwProber = [g \in FwGens |-> NewProber]
  /\ fwClient = [c \in FwClients |-> FwIdle]
  /\ fwSource \in FwSources \cup {"none"}
  /\ fwReload = [at |-> "none", gen |-> 1]
  /\ fwChanged = 0 /\ fwAsked = 0 /\ fwPanic = FALSE

(*************************** SafeUDPFwder **********************************)

(* The status after a query: the first failure only starts the clock. *)
checkStatus(s, ok) ==
  IF ok THEN [s EXCEPT !.fail = NoFailure, !.down = FALSE]
  ELSE IF s.fail = NoFailure THEN [s EXCEPT !.fail = 0, !.down = FALSE]
  ELSE [s EXCEPT !.down = (s.fail >= FwLasting)]

(* Forward to server f: it answers, or the query times out. *)
ForwardUDP(f, ok, rtt) ==
  fwStatus' = [fwStatus EXCEPT ![f] = checkStatus([@ EXCEPT !.rtt = rtt], ok)]

(******************************* Groups ************************************)

Usable(g) == {i \in 1 .. Len(g.fwders) : ~fwStatus[g.fwders[i]].down}

(* The first usable server at or after position from, cyclically; 0 when   *)
(* all are down.                                                           *)
selectNextUsableFwder(g, from) ==
  LET n == Len(g.fwders)
      Turn(i) == (i - from + n) % n
  IN IF Usable(g) = {} THEN 0
     ELSE CHOOSE i \in Usable(g) : \A j \in Usable(g) : Turn(i) <= Turn(j)

FixOrderSelect(g) == {[index |-> selectNextUsableFwder(g, 1), group |-> g]}

(* next is kept from 0, as in the code: with no usable server it becomes 0. *)
RoundRobinSelect(g) ==
  LET i == selectNextUsableFwder(g, g.next + 1)
  IN {[index |-> i, group |-> [g EXCEPT !.next = i % Len(g.fwders)]]}

(* The servers sorted by their last round trip time; equal ones in any     *)
(* order.                                                                  *)
sortForwarders(g) ==
  {[g EXCEPT !.fwders = s] : s \in {p \in SetToSeqs(ToSet(g.fwders)) :
      \A i, j \in 1 .. Len(p) : i < j => fwStatus[p[i]].rtt <= fwStatus[p[j]].rtt}}

RttBasedSelect(g) == {[index |-> selectNextUsableFwder(s, 1), group |-> s] : s \in sortForwarders(g)}

SelectFwder(g) ==
  CASE g.policy = "single"      -> {[index |-> 1, group |-> g]}
    [] g.policy = "fixed_order" -> FixOrderSelect(g)
    [] g.policy = "round_robin" -> RoundRobinSelect(g)
    [] g.policy = "rtt"         -> RttBasedSelect(g)

(* The zone above the name that is nearest; an exception ends the search.  *)
getFwder(name) ==
  LET above == SelectSeq(FwAbove[name], LAMBDA z : fwZones[z] # 0)
  IN IF above = <<>> \/ fwGroups[fwZones[Head(above)]].match = "exception" THEN 0
     ELSE fwZones[Head(above)]

(******************************* Queries ***********************************)

ClientGoes(c, to) == fwClient' = [fwClient EXCEPT ![c] = to]

GetQuerySource == IF fwSource = "none" THEN "" ELSE fwSource

(* The servers a loop over group g comes across: a sort by another query   *)
(* swaps them meanwhile, without a common lock.                            *)
SeenByLoop(c, g) ==
  LET all == ToSet(fwGroups[g].fwders)
      sorted == \E d \in FwClients \ {c} : fwClient[d].at = "select" /\ fwClient[d].group = g
  IN IF fwGroups[g].policy = "rtt" /\ sorted THEN SUBSET all \ {{}} ELSE {all}

(* SetQuerySource gives every server of the group that is up a new sender. *)
(* A server alone gets it whatever its state.                              *)
SetQuerySource(c, g) ==
  \E seen \in SeenByLoop(c, g) :
    fwStatus' = [f \in DOMAIN fwStatus |->
      IF f \in seen /\ (fwGroups[g].policy = "single" \/ ~fwStatus[f].down)
      THEN [fwStatus[f] EXCEPT !.sender = GetQuerySource] ELSE fwStatus[f]]

(* Forwarder.processRequest: a query without a forwarder is passed on to   *)
(* the next resolver, any other gets the sender of its view.               *)
processRequest(c) ==
  /\ fwClient[c] = FwIdle /\ fwAsked < FwQueries /\ fwAsked' = fwAsked + 1
  /\ \E n \in FwNames :
       /\ getFwder(n) # 0
       /\ SetQuerySource(c, getFwder(n))
       /\ ClientGoes(c, [at |-> "select", group |-> getFwder(n), tries |-> 0])
  /\ UNCHANGED <<fwZones, fwGroups, fwProber, fwSource, fwReload, fwChanged, fwPanic>>

(* forwardOnce: maxRetryCount is 2, a server alone is asked once. *)
Retry(c, last) == IF last \/ fwClient[c].tries = 1 THEN FwIdle
                  ELSE [at |-> "select", group |-> fwClient[c].group, tries |-> 1]

forwardOnce(c) ==
  /\ fwClient[c].at = "select"
  /\ \E s \in SelectFwder(fwGroups[fwClient[c].group]) :
       /\ fwGroups' = [fwGroups EXCEPT ![fwClient[c].group] = s.group]
       /\ IF s.index = 0 THEN ClientGoes(c, Retry(c, FALSE))
          ELSE ClientGoes(c, [at |-> "sent", group |-> fwClient[c].group, tries |-> fwClient[c].tries,
                              fwder |-> s.group.fwders[s.index]])
  /\ UNCHANGED <<fwStatus, fwZones, fwProber, fwSource, fwReload, fwChanged, fwAsked, fwPanic>>

(* RecoverableFwder.Forward, the call of the server it wraps. *)
ForwardReturns(c) ==
  /\ fwClient[c].at = "sent"
  /\ \E ok \in BOOLEAN, rtt \in FwRtts :
       /\ ForwardUDP(fwClient[c].fwder, ok, rtt)
       /\ ClientGoes(c, [fwClient[c] EXCEPT !.at = "report", !.tries = IF ok THEN 2 ELSE @])
  /\ UNCHANGED <<fwZones, fwGroups, fwProber, fwSource, fwReload, fwChanged, fwAsked, fwPanic>>

(* Variant: the server is remembered as probed and not put on the list     *)
(* while another goroutine probes.                                         *)
AddProbeIdle(p, f) ==
  IF f \in p.fwders THEN p
  ELSE [p EXCEPT !.targets = IF p.targets = <<>> THEN Append(@, f) ELSE @, !.fwders = @ \cup {f}]

(* Prober.AddProbe, once for a server. *)
AddProbe(p, f) == IF f \in p.fwders THEN p ELSE [p EXCEPT !.targets = Append(@, f), !.fwders = @ \cup {f}]

(* The rest of RecoverableFwder.Forward: the state is read again. *)
ForwardReports(c) ==
  /\ fwClient[c].at = "report"
  /\ LET f == fwClient[c].fwder IN
       fwProber' = [fwProber EXCEPT ![f[1]] = IF fwStatus[f].down THEN AddProbe(@, f) ELSE @]
  /\ ClientGoes(c, Retry(c, fwClient[c].tries = 2 \/ fwGroups[fwClient[c].group].policy = "single"))
  /\ UNCHANGED <<fwStatus, fwZones, fwGroups, fwSource, fwReload, fwChanged, fwAsked, fwPanic>>

(******************************* Prober ************************************)

ProberGoes(g, p) == fwProber' = [fwProber EXCEPT ![g] = p]
FwRest == <<fwZones, fwGroups, fwClient, fwSource, fwChanged, fwAsked>>

(* The ticker: as many targets as there are workers are taken off the list. *)
ProbeTick(g) ==
  LET p == fwProber[g]
      n == IF Len(p.targets) < Cardinality(FwWorkers) THEN Len(p.targets) ELSE Cardinality(FwWorkers)
  IN /\ p.run = "select" /\ g <= fwReload.gen /\ n > 0
     /\ ProberGoes(g, [p EXCEPT !.targets = SubSeq(@, n + 1, Len(@)), !.batch = SubSeq(p.targets, 1, n), !.run = "send"])
     /\ UNCHANGED <<fwStatus, fwReload, fwPanic, FwRest>>

(* SendTask reads the stopped flag, then offers the task to a worker. *)
SendTask(g) ==
  LET p == fwProber[g] IN
  /\ p.run = "send"
  /\ ProberGoes(g, [p EXCEPT !.run = IF p.batch = <<>> THEN "select" ELSE IF p.stopped THEN "done" ELSE "offer"])
  /\ UNCHANGED <<fwStatus, fwReload, fwPanic, FwRest>>

(* An idle worker takes it; after three seconds the target goes back on    *)
(* the list.                                                               *)
OfferTaken(g) ==
  LET p == fwProber[g] IN
  /\ p.run = "offer" /\ ~p.stopped
  /\ \E w \in FwWorkers :
       /\ p.worker[w] = FwNobody
       /\ ProberGoes(g, [p EXCEPT !.worker[w] = [at |-> "probe", fwder |-> Head(p.batch)],
                                  !.batch = Tail(@), !.run = "send"])
  /\ UNCHANGED <<fwStatus, fwReload, fwPanic, FwRest>>

TooBusy(g) ==
  LET p == fwProber[g] IN
  /\ p.run = "offer" /\ ~p.stopped /\ \A w \in FwWorkers : p.worker[w] # FwNobody
  /\ ProberGoes(g, [p EXCEPT !.targets = Append(@, Head(p.batch)), !.batch = Tail(@), !.run = "send"])
  /\ UNCHANGED <<fwStatus, fwReload, fwPanic, FwRest>>

(* A worker's probe goes to the server itself, not through the wrapper. *)
Probe(g, w) ==
  LET p == fwProber[g] IN
  /\ p.worker[w].at = "probe"
  /\ \E ok \in BOOLEAN, rtt \in FwRtts :
       /\ ForwardUDP(p.worker[w].fwder, ok, rtt)
       /\ ProberGoes(g, [p EXCEPT !.worker[w] = [at |-> "probed", fwder |-> @.fwder, ok |-> ok, age |-> 0]])
  /\ UNCHANGED <<fwReload, fwPanic, FwRest>>

(* A server that answered leaves the set, another goes back on the list. *)
ProbeEnds(g, w) ==
  LET p == fwProber[g]
      f == p.worker[w].fwder
  IN /\ p.worker[w].at = "probed"
     /\ ProberGoes(g, [p EXCEPT !.worker[w] = FwNobody,
                                !.fwders = IF p.worker[w].ok THEN @ \ {f} ELSE @,
                                !.targets = IF p.worker[w].ok THEN @ ELSE Append(@, f)])
     /\ UNCHANGED <<fwStatus, fwReload, fwPanic, FwRest>>

(******************************* Commands **********************************)

FwChange == fwChanged < FwChanges /\ fwChanged' = fwChanged + 1

AddGroup(n, conf) ==
  /\ fwGroups' = Append(fwGroups, newZoneForwarder(conf, fwReload.gen))
  /\ fwZones' = [fwZones EXCEPT ![n] = Len(fwGroups')]

(* The tree of the view gives an added zone the place of the one there was *)
(* (its Insert is an update of a name it has), so only an update or a      *)
(* deletion asks for a zone that is there.  The zones of one command are   *)
(* added one after the other, here as commands of one zone.                *)
addForwardZone ==
  /\ FwChange
  /\ \E n \in FwNames, conf \in FwConfigs : AddGroup(n, conf)
  /\ UNCHANGED <<fwStatus, fwProber, fwClient, fwSource, fwReload, fwAsked, fwPanic>>

updateForwardZone ==
  /\ FwChange
  /\ \E n \in FwNames, conf \in FwConfigs : fwZones[n] # 0 /\ AddGroup(n, conf)
  /\ UNCHANGED <<fwStatus, fwProber, fwClient, fwSource, fwReload, fwAsked, fwPanic>>

deleteForwardZone ==
  /\ FwChange
  /\ \E n \in FwNames : fwZones[n] # 0 /\ fwZones' = [fwZones EXCEPT ![n] = 0]
  /\ UNCHANGED <<fwStatus, fwGroups, fwProber, fwClient, fwSource, fwReload, fwAsked, fwPanic>>

(* The query source of a view is added, deleted or updated. *)
addQuerySource == fwSource = "none" /\ fwSource' \in FwSources
deleteQuerySource == fwSource # "none" /\ fwSource' = "none"
updateQuerySource == fwSource # "none" /\ fwSource' \in FwSources

ChangeQuerySource ==
  /\ FwChange
  /\ addQuerySource \/ deleteQuerySource \/ updateQuerySource
  /\ UNCHANGED <<fwStatus, fwZones, fwGroups, fwProber, fwClient, fwReload, fwAsked, fwPanic>>

(* SafeFwderRepo.ReloadConf stops the prober: the pool is closed first.  A *)
(* prober that is offering a task then sends on a closed channel.          *)
StopPool ==
  LET p == fwProber[fwReload.gen] IN
  /\ fwReload.at = "none" /\ FwChange
  /\ fwReload' = [fwReload EXCEPT !.at = "wait"]
  /\ ProberGoes(fwReload.gen, [p EXCEPT !.stopped = TRUE])
  /\ fwPanic' = (fwPanic \/ p.run = "offer")
  /\ UNCHANGED <<fwStatus, fwZones, fwGroups, fwClient, fwSource, fwAsked>>

PoolStopped ==
  /\ fwReload.at = "wait" /\ \A w \in FwWorkers : fwProber[fwReload.gen].worker[w] = FwNobody
  /\ fwReload' = [fwReload EXCEPT !.at = "stop"]
  /\ UNCHANGED <<fwStatus, fwProber, fwPanic, FwRest>>

(* The stop signal is taken by a prober that waits for its ticker.  One    *)
(* that saw the pool stopped sends its own signal: both wait for ever.     *)
(* Then the configuration is loaded: the same zones, with servers and a    *)
(* prober of a new generation.                                             *)
ReloadConf ==
  LET p == fwProber[fwReload.gen] IN
  /\ fwReload.at = "stop" /\ p.run = "select"
  /\ ProberGoes(fwReload.gen, [p EXCEPT !.run = "ended"])
  /\ fwReload' = [at |-> "none", gen |-> fwReload.gen + 1]
  /\ \E conf \in FwLoads : LET l == LoadZones(conf, fwReload.gen + 1, fwGroups) IN
       fwZones' = l.zones /\ fwGroups' = l.groups
  /\ UNCHANGED <<fwStatus, fwClient, fwSource, fwChanged, fwAsked, fwPanic>>

(* A second passes.  A worker takes less than TimeoutLasting to note the   *)
(* answer it got.                                                          *)
Older(age) == IF age = NoFailure THEN age ELSE IF age < FwLasting THEN age + 1 ELSE age

FwTick ==
  /\ \A g \in FwGens, w \in FwWorkers :
       fwProber[g].worker[w].at = "probed" => fwProber[g].worker[w].age < FwLasting - 1
  /\ fwStatus' = [f \in DOMAIN fwStatus |-> [fwStatus[f] EXCEPT !.fail = Older(@)]]
  /\ fwProber' = [g \in FwGens |-> [fwProber[g] EXCEPT !.worker =
       [w \in FwWorkers |-> IF @[w].at = "probed" THEN [@[w] EXCEPT !.age = @ + 1] ELSE @[w]]]]
  /\ fwStatus' # fwStatus
  /\ UNCHANGED <<fwReload, fwPanic, FwRest>>

FwNext ==
  \/ \E c \in FwClients : processRequest(c) \/ forwardOnce(c) \/ ForwardReturns(c) \/ ForwardReports(c)
  \/ \E g \in FwGens : ProbeTick(g) \/ SendTask(g) \/ OfferTaken(g) \/ TooBusy(g)
  \/ \E g \in FwGens, w \in FwWorkers : Probe(g, w) \/ ProbeEnds(g, w)
  \/ addForwardZone \/ updateForwardZone \/ deleteForwardZone \/ ChangeQuerySource
  \/ StopPool \/ PoolStopped \/ ReloadConf \/ FwTick

(****************************** Properties *********************************)

(* How often a server is in the hands of its prober. *)
Held(p, f) ==
  Len(SelectSeq(p.targets \o p.batch, LAMBDA t : t = f))
  + Cardinality({w \in FwWorkers : p.worker[w] # FwNobody /\ p.worker[w].fwder = f})

(* A server taken out of use comes back: while its prober runs, a server   *)
(* that is down is being probed, unless the query that found it down is    *)
(* about to say so, and a server that is being probed is in exactly one    *)
(* place: the list, the batch of this tick or the hands of one worker.     *)
FwDownIsProbed ==
  \A f \in DOMAIN fwStatus : LET p == fwProber[f[1]] IN
    ~p.stopped =>
      /\ fwStatus[f].down =>
           f \in p.fwders \/ \E c \in FwClients : fwClient[c].at = "report" /\ fwClient[c].fwder = f
      /\ Held(p, f) = IF f \in p.fwders THEN 1 ELSE 0
=============================================================================
