------------------------------ MODULE Recursor ------------------------------
(***************************************************************************)
(* The recursive resolver (vanguard/resolver/recursor): queries walk down  *)
(* the delegations from the closest zone in the cache of zones and name    *)
(* servers; a referral to servers without addresses starts queries of its  *)
(* own for them.  Contexts come from a pool of fixed size, and every query *)
(* and the queries it starts share a budget of depth.                      *)
(*                                                                         *)
(* A name is the sequence of its labels from the root.  The name servers   *)
(* of the world answer as they must (they are external); messages get lost *)
(* and cached entries expire.  Round trip times only decide which address  *)
(* is asked, so any may be.                                                *)
(***************************************************************************)
EXTENDS Integers, Sequences, FiniteSets, SequencesExt, FiniteSetsExt, TLC

CONSTANTS
    RcWorlds,    \* [ns: zone -> server names, addrs: server name -> addresses,
                 \*  hosts: names, hint: lines, asks: client -> name], with bounds: contexts
                 \*  (maxInflightQuery), faults (messages lost, children given up while they
                 \*  run, queries that take longer than queryTimeout), lapses (entries that expire, checks of the cache's size, reloads)
    RcMaxDepth,  \* maxQueryDep
    RcMaxZones,  \* NsasCache.maxCacheSize
    RcBatch      \* ExpiredZoneCheckBatch

VARIABLES
    rcWorld,     \* the world of this behaviour
    rcTasks,     \* RecursorCtxPool: context -> the query that holds it
    rcZones,     \* NsasCache.zones: zone -> its element of rcVisited
    rcVisited,   \* NsasCache.visitedZone, front first: [id, zone, servers, expired, trust]
    rcServers,   \* NameServerManager.nsEntrys: name -> [addrs, expired, trust]
    rcAnswers,   \* client -> its answer
    rcShort,     \* the pool ran out of contexts
    rcFaulty,    \* how many faults and lapses there were
    rcLapsed

rcVars == <<rcWorld, rcTasks, rcZones, rcVisited, rcServers, rcAnswers, rcShort, rcFaulty, rcLapsed>>

OutOfZone == 0
FromReferal == 1
FromAuth == 2

Idle == [at |-> "idle"]

-----------------------------------------------------------------------------
(* The name servers of the world (external).                                 *)

Above(name, zones) == {z \in zones : IsPrefix(z, name)}

Deepest(zones) == CHOOSE z \in zones : \A y \in zones : Len(y) <= Len(z)

Served(addr) == {z \in DOMAIN rcWorld.ns : \E n \in rcWorld.ns[z] : addr \in rcWorld.addrs[n]}

Message(kind, zone, aa, glues) == [kind |-> kind, zone |-> zone, aa |-> aa, glues |-> glues]

(* A server refers to the next zone below its own, and adds the addresses    *)
(* that lie in its zone; it refuses what is not its own.                     *)
Reply(addr, name) ==
    LET own == Above(name, Served(addr))
        below == {z \in Above(name, DOMAIN rcWorld.ns) : Len(z) > Len(Deepest(own))}
        next == CHOOSE z \in below : \A y \in below : Len(z) <= Len(y)
        glues == {n \in DOMAIN rcWorld.addrs : IsPrefix(Deepest(own), n)}
    IN  CASE own = {} -> Message("unknown", << >>, FALSE, {})
          [] own # {} /\ below # {} -> Message("referral", next, FALSE, glues)
          [] own # {} /\ below = {} /\ name \in rcWorld.hosts \cup DOMAIN rcWorld.addrs ->
                 Message("answer", Deepest(own), TRUE, glues)
          [] OTHER -> Message("nxdomain", << >>, TRUE, {})

loadRootServer(lines) ==
    IF \E i \in DOMAIN lines : lines[i].type \notin {"NS", "A"} \/ (lines[i].type = "NS" /\ lines[i].name # << >>) THEN {}
    ELSE {[zone |-> << >>, addr |-> lines[i].addr] : i \in {j \in DOMAIN lines : lines[j].type = "A"}}

getRootServers == loadRootServer(rcWorld.hint)

-----------------------------------------------------------------------------
(* The cache.  An element of the list is found by its id.                    *)

Known(name) == name \in DOMAIN rcServers /\ ~ rcServers[name].expired

(* NameServerManager.addNameServer: what is there and trusted as much stays. *)
addNameServer(servers, name, trust) ==
    IF name \in DOMAIN servers /\ ~ servers[name].expired /\ servers[name].trust >= trust THEN servers
    ELSE (name :> [addrs |-> rcWorld.addrs[name], expired |-> FALSE, trust |-> trust]) @@ servers

(* The addresses of the servers of the zone the message names, and no other. *)
getAuthAndGlues(msg) == IF msg.kind \in {"referral", "answer"} THEN msg.glues \cap rcWorld.ns[msg.zone] ELSE {}

addGlues(zone, glues) ==
    [n \in DOMAIN rcServers \cup glues |->
        IF n \in glues THEN addNameServer(rcServers, n, IF IsPrefix(zone, n) THEN FromAuth ELSE OutOfZone)[n] ELSE rcServers[n]]

Position(visited, id) == CHOOSE i \in DOMAIN visited : visited[i].id = id

MoveToFront(visited, id) == LET i == Position(visited, id) IN <<visited[i]>> \o RemoveAt(visited, i)

FreshId == CHOOSE k \in 1..(Len(rcVisited) + 1) : \A i \in DOMAIN rcVisited : rcVisited[i].id # k

(* The second half of addZone, under the lock: the element an older entry    *)
(* of the zone had stays in the list.                                        *)
addZone(zone, trust) ==
    LET old == rcVisited[Position(rcVisited, rcZones[zone])]
        kept == zone \in DOMAIN rcZones /\ ~ old.expired /\ old.trust > trust
        new == [id |-> FreshId, zone |-> zone, servers |-> rcWorld.ns[zone], expired |-> FALSE, trust |-> trust]
    IN  IF kept THEN [kept |-> TRUE, zones |-> rcZones, visited |-> MoveToFront(rcVisited, rcZones[zone])]
        ELSE [kept |-> FALSE, zones |-> (zone :> new.id) @@ rcZones, visited |-> <<new>> \o rcVisited]

(* The first half: servers without a usable address, or with one that was    *)
(* only heard of, are missing.                                               *)
Missing(zone) == {n \in rcWorld.ns[zone] : ~ Known(n) \/ rcServers[n].trust = OutOfZone}

KnownOf(zone) == {n \in rcWorld.ns[zone] : Known(n)}

Cache(zones, visited, servers) == [zones |-> zones, visited |-> visited, servers |-> servers]

(* The element leaves the list, its zone the tree, its servers the manager.  *)
removeZone(c, id) ==
    LET e == c.visited[Position(c.visited, id)]
    IN  Cache([z \in DOMAIN c.zones \ {e.zone} |-> c.zones[z]],
              RemoveAt(c.visited, Position(c.visited, id)),
              [n \in DOMAIN c.servers \ e.servers |-> c.servers[n]])

(* ZoneEntry.selectNameServer: one address of each server that has any.      *)
selectNameServer(c, e) == {n \in e.servers : n \in DOMAIN c.servers /\ ~ c.servers[n].expired}

(* Variant: a zone whose servers have no addresses is left where it is.      *)
selectNameServersThere(c, name) ==
    LET found == Above(name, DOMAIN c.zones)
        e == c.visited[Position(c.visited, c.zones[Deepest(found)])]
    IN  IF found = {} THEN [cache |-> c, zone |-> << >>, names |-> {}]
        ELSE [cache |-> c, zone |-> e.zone, names |-> IF e.expired THEN {} ELSE selectNameServer(c, e)]

RECURSIVE selectNameServers(_, _)

(* The closest zone that has servers; those on the way that have not, or     *)
(* have expired, are removed.                                                *)
selectNameServers(c, name) ==
    LET found == Above(name, DOMAIN c.zones)
        id == c.zones[Deepest(found)]
        e == c.visited[Position(c.visited, id)]
    IN  CASE found = {} -> [cache |-> c, zone |-> << >>, names |-> {}]
          [] found # {} /\ (e.expired \/ selectNameServer(c, e) = {}) -> selectNameServers(removeZone(c, id), name)
          [] OTHER -> [cache |-> Cache(c.zones, MoveToFront(c.visited, id), c.servers), zone |-> e.zone, names |-> selectNameServer(c, e)]

RECURSIVE RemoveExpired(_, _, _), RemoveLast(_, _)

(* From the back, at most RcBatch elements are looked at.                    *)
RemoveExpired(c, i, left) ==
    IF i = 0 \/ left = 0 THEN c
    ELSE RemoveExpired(IF c.visited[i].expired THEN removeZone(c, c.visited[i].id) ELSE c, i - 1, left - 1)

RemoveLast(c, k) == IF k = 0 THEN c ELSE RemoveLast(removeZone(c, Last(c.visited).id), k - 1)

(* As many are removed as were too many before the expired ones left.        *)
EnforceMemoryLimit ==
    /\ Len(rcVisited) > RcMaxZones /\ rcLapsed < rcWorld.lapses
    /\ LET c == RemoveLast(RemoveExpired(Cache(rcZones, rcVisited, rcServers), Len(rcVisited), RcBatch), Len(rcVisited) - RcMaxZones)
       IN  rcZones' = c.zones /\ rcVisited' = c.visited /\ rcServers' = c.servers
    /\ rcLapsed' = rcLapsed + 1
    /\ UNCHANGED <<rcWorld, rcTasks, rcAnswers, rcShort, rcFaulty>>

-----------------------------------------------------------------------------
(* Queries.                                                                  *)

Free == {i \in DOMAIN rcTasks : rcTasks[i].at = "idle"}

(* RecursorCtx.init, and the depth a child takes over.                       *)
Task(client, parent, name, depth) ==
    [at |-> "query", client |-> client, parent |-> parent, name |-> name, depth |-> depth, zone |-> << >>, addrs |-> {},
     msg |-> Message("unknown", << >>, FALSE, {})]

(* The children of a query that no longer waits are on their own.            *)
Orphaned(tasks, t) ==
    [i \in DOMAIN tasks |-> IF tasks[i].at # "idle" /\ tasks[i].parent = t THEN [tasks[i] EXCEPT !.parent = 0] ELSE tasks[i]]

Woken(tasks, t) == [Orphaned(tasks, t) EXCEPT ![t].at = "query"]

(* putCtx: the context of a query that ends goes back.                       *)
Ended(tasks, t) == [Orphaned(tasks, t) EXCEPT ![t] = Idle]

Answered(t, answer) == IF rcTasks[t].client = "" THEN rcAnswers ELSE [rcAnswers EXCEPT ![rcTasks[t].client] = answer]

(* A client's query, or none when there is no context; the local zones may   *)
(* have given it a referral to begin with, which is trusted like the root's. *)
Resolve(client, name, given) ==
    LET t == Min(Free)
        new == Task(client, 0, name, 0)
    IN  /\ rcAnswers[client] = "unasked"
        /\ given # << >> => given[1].kind = "referral" /\ Free # {}
        /\ rcAnswers' = [rcAnswers EXCEPT ![client] = IF Free = {} THEN "none" ELSE "asked"]
        /\ rcShort' = (rcShort \/ Free = {})
        /\ rcTasks' = CASE Free = {} -> rcTasks
                        [] Free # {} /\ given = << >> -> [rcTasks EXCEPT ![t] = new]
                        [] OTHER -> [rcTasks EXCEPT ![t] = [new EXCEPT !.at = "add", !.msg = given[1]]]
        /\ rcServers' = IF given = << >> THEN rcServers ELSE addGlues(<< >>, getAuthAndGlues(given[1]))
        /\ UNCHANGED <<rcWorld, rcZones, rcVisited, rcFaulty, rcLapsed>>

handleQuery(t) ==
    LET task == rcTasks[t]
        picked == selectNameServers(Cache(rcZones, rcVisited, rcServers), task.name)
    IN  /\ task.at = "query"
        /\ IF task.depth + 1 >= RcMaxDepth
           THEN /\ rcTasks' = Ended(rcTasks, t) /\ rcAnswers' = Answered(t, "none")
                /\ UNCHANGED <<rcZones, rcVisited, rcServers>>
           ELSE /\ rcZones' = picked.cache.zones /\ rcVisited' = picked.cache.visited /\ rcServers' = picked.cache.servers
                /\ rcTasks' = [rcTasks EXCEPT ![t].at = "ask", ![t].depth = @ + 1, ![t].zone = picked.zone,
                                              ![t].addrs = IF picked.names = {} THEN {s.addr : s \in getRootServers}
                                                           ELSE UNION {picked.cache.servers[n].addrs : n \in picked.names}]
                /\ rcAnswers' = rcAnswers
        /\ UNCHANGED <<rcWorld, rcShort, rcFaulty, rcLapsed>>

(* The rest of that condition: from its second round on, a query that began  *)
(* more than queryTimeout ago is given up.  How long the rounds took is left *)
(* open.                                                                     *)
TooLate(t) ==
    /\ rcTasks[t].at = "query" /\ rcTasks[t].depth + 1 \in 2..(RcMaxDepth - 1) /\ rcFaulty < rcWorld.faults
    /\ rcTasks' = Ended(rcTasks, t) /\ rcAnswers' = Answered(t, "late")
    /\ rcFaulty' = rcFaulty + 1
    /\ UNCHANGED <<rcWorld, rcZones, rcVisited, rcServers, rcShort, rcLapsed>>

(* The first of the servers asked that answers, and AddZoneNameServer's      *)
(* glues; handleResponse refuses what it cannot use, a server that refuses   *)
(* (isValidResponse) is no answer.                                           *)
doQuery(t, addr) ==
    LET task == rcTasks[t]
        msg == Reply(addr, task.name)
    IN  /\ task.at = "ask" /\ addr \in task.addrs
        /\ rcTasks' = [rcTasks EXCEPT ![t].at = IF msg.kind = "unknown" THEN "query" ELSE "add", ![t].msg = msg, ![t].addrs = {}]
        /\ rcServers' = addGlues(task.zone, getAuthAndGlues(msg))
        /\ UNCHANGED <<rcWorld, rcZones, rcVisited, rcAnswers, rcShort, rcFaulty, rcLapsed>>

(* No server answers in time.                                                *)
TimeOut(t) ==
    /\ rcTasks[t].at = "ask" /\ rcFaulty < rcWorld.faults
    /\ rcTasks' = [rcTasks EXCEPT ![t].at = "query", ![t].addrs = {}]
    /\ rcFaulty' = rcFaulty + 1
    /\ UNCHANGED <<rcWorld, rcZones, rcVisited, rcServers, rcAnswers, rcShort, rcLapsed>>

(* A name with data at the end: a child goes on to keep its addresses.       *)
handleFinalAnswer(t) ==
    LET task == rcTasks[t]
        added == addZone(task.msg.zone, FromAuth)
        child == task.client = "" /\ task.msg.kind = "answer"
    IN  /\ task.at = "add" /\ task.msg.kind \in {"answer", "nxdomain"}
        /\ IF task.msg.kind = "answer" THEN rcZones' = added.zones /\ rcVisited' = added.visited ELSE UNCHANGED <<rcZones, rcVisited>>
        /\ rcTasks' = IF child THEN [rcTasks EXCEPT ![t].at = "keep"] ELSE Ended(rcTasks, t)
        /\ rcAnswers' = Answered(t, task.msg.kind)
        /\ UNCHANGED <<rcWorld, rcServers, rcShort, rcFaulty, rcLapsed>>

RECURSIVE Start(_, _, _, _)

(* A child for every name while there are contexts.                          *)
Start(tasks, t, names, parent) ==
    LET free == {i \in DOMAIN tasks : tasks[i].at = "idle"}
        n == CHOOSE x \in names : TRUE
    IN  IF names = {} \/ free = {} THEN tasks
        ELSE Start([tasks EXCEPT ![Min(free)] = Task("", parent, n, tasks[t].depth)], t, names \ {n}, parent)

getMissingNameServer(tasks, t, names, wait) ==
    LET waits == wait /\ names # {} /\ Free # {}
    IN  [Start(tasks, t, names, IF waits THEN t ELSE 0) EXCEPT ![t].at = IF waits THEN "wait" ELSE "query"]

handleReferal(t) ==
    LET task == rcTasks[t]
        added == addZone(task.msg.zone, FromReferal)
        missing == IF added.kept THEN {} ELSE Missing(task.msg.zone)
    IN  /\ task.at = "add" /\ task.msg.kind = "referral"
        /\ rcZones' = added.zones /\ rcVisited' = added.visited
        /\ rcTasks' = getMissingNameServer(rcTasks, t, missing, KnownOf(task.msg.zone) = {})
        /\ rcShort' = (rcShort \/ Cardinality(missing) > Cardinality(Free))
        /\ UNCHANGED <<rcWorld, rcServers, rcAnswers, rcFaulty, rcLapsed>>

(* A child keeps the addresses, wakes its parent if that waits, and ends.    *)
KeepGlue(t) ==
    LET parent == rcTasks[t].parent
        waits == parent # 0 /\ rcTasks[parent].at = "wait"
    IN  /\ rcTasks[t].at = "keep"
        /\ rcServers' = addNameServer(rcServers, rcTasks[t].name, FromAuth)
        /\ rcTasks' = IF waits THEN Woken(Ended(rcTasks, t), parent) ELSE Ended(rcTasks, t)
        /\ UNCHANGED <<rcWorld, rcZones, rcVisited, rcAnswers, rcShort, rcFaulty, rcLapsed>>

(* The wait ends: when its children still run, that is a fault of theirs.    *)
WaitOver(t) ==
    LET running == {i \in DOMAIN rcTasks : rcTasks[i].at # "idle" /\ rcTasks[i].parent = t}
    IN  /\ rcTasks[t].at = "wait" /\ (running # {} => rcFaulty < rcWorld.faults)
        /\ rcFaulty' = rcFaulty + (IF running # {} THEN 1 ELSE 0)
        /\ rcTasks' = Woken(rcTasks, t)
        /\ UNCHANGED <<rcWorld, rcZones, rcVisited, rcServers, rcAnswers, rcShort, rcLapsed>>

-----------------------------------------------------------------------------
(* Time passes.                                                              *)

ExpireZone(i) ==
    /\ ~ rcVisited[i].expired /\ rcLapsed < rcWorld.lapses
    /\ rcVisited' = [rcVisited EXCEPT ![i].expired = TRUE]
    /\ rcLapsed' = rcLapsed + 1
    /\ UNCHANGED <<rcWorld, rcTasks, rcZones, rcServers, rcAnswers, rcShort, rcFaulty>>

ExpireServer(n) ==
    /\ ~ rcServers[n].expired /\ rcLapsed < rcWorld.lapses
    /\ rcServers' = [rcServers EXCEPT ![n].expired = TRUE]
    /\ rcLapsed' = rcLapsed + 1
    /\ UNCHANGED <<rcWorld, rcTasks, rcZones, rcVisited, rcAnswers, rcShort, rcFaulty>>

(* The cache is made anew while queries run.                                 *)
ReloadConfig ==
    /\ rcLapsed < rcWorld.lapses
    /\ rcZones' = << >> /\ rcVisited' = << >> /\ rcServers' = << >>
    /\ rcLapsed' = rcLapsed + 1
    /\ UNCHANGED <<rcWorld, rcTasks, rcAnswers, rcShort, rcFaulty>>

RcInit ==
    /\ rcWorld \in RcWorlds
    /\ rcTasks = [i \in 1..rcWorld.contexts |-> Idle]
    /\ rcZones = << >> /\ rcVisited = << >> /\ rcServers = << >>
    /\ rcAnswers = [c \in DOMAIN rcWorld.asks |-> "unasked"]
    /\ rcShort = FALSE /\ rcFaulty = 0 /\ rcLapsed = 0

RcNext ==
    \/ \E c \in DOMAIN rcWorld.asks :
           \/ Resolve(c, rcWorld.asks[c], << >>)
           \/ \E s \in getRootServers : Resolve(c, rcWorld.asks[c], <<Reply(s.addr, rcWorld.asks[c])>>)
    \/ \E t \in DOMAIN rcTasks :
           \/ handleQuery(t)
           \/ \E a \in (IF rcTasks[t].at = "ask" THEN rcTasks[t].addrs ELSE {}) : doQuery(t, a)
           \/ TooLate(t) \/ TimeOut(t) \/ handleFinalAnswer(t) \/ handleReferal(t) \/ KeepGlue(t) \/ WaitOver(t)
    \/ EnforceMemoryLimit \/ ReloadConfig
    \/ \E i \in DOMAIN rcVisited : ExpireZone(i)
    \/ \E n \in DOMAIN rcServers : ExpireServer(n)

RcSpec == RcInit /\ [][RcNext]_rcVars

-----------------------------------------------------------------------------
(* What the world lets a resolver find.                                      *)

RECURSIVE Reachable(_)

(* A zone is reached from the one above through a server whose address comes *)
(* with the referral or lies in a zone that is reached.                      *)
Reachable(zones) ==
    LET HomeOf(n) == Deepest(Above(n, DOMAIN rcWorld.ns))
        Up(z) == Deepest(Above(z, DOMAIN rcWorld.ns) \ {z})
        more == {z \in DOMAIN rcWorld.ns \ zones : Up(z) \in zones /\ \E n \in rcWorld.ns[z] : IsPrefix(Up(z), n) \/ HomeOf(n) \in zones}
    IN  IF more = {} THEN zones ELSE Reachable(zones \cup more)

Expected(name) ==
    IF Deepest(Above(name, DOMAIN rcWorld.ns)) \notin Reachable({<< >>}) THEN "none"
    ELSE IF name \in rcWorld.hosts \cup DOMAIN rcWorld.addrs THEN "answer" ELSE "nxdomain"

(***************************************************************************)
(* A query ends with the answer of the zone its name lies in, although     *)
(* messages are lost, entries of the cache expire or are removed under it, *)
(* the addresses of servers have to be found on the way, and the queries   *)
(* for them are given up.  It fails only when the delegations lead         *)
(* nowhere, when the contexts ran out, or when it took longer than         *)
(* queryTimeout itself.  The faults a world allows are fewer than the      *)
(* rounds maxQueryDep leaves for them.                                     *)
(* (handleQuery, handleReferal, getMissingNameServer, NsasCache.)          *)
(***************************************************************************)
RcAnswered ==
    \A c \in DOMAIN rcAnswers : rcAnswers[c] \notin {"unasked", "asked", "late"} =>
        rcAnswers[c] = Expected(rcWorld.asks[c]) \/ (rcAnswers[c] = "none" /\ rcShort)
=============================================================================
