----------------------------- MODULE QueryChain -----------------------------
(***************************************************************************)
(* The path of a DNS query through vanguard: the handler goroutines of     *)
(* the server, DNS64, the message cache and its prefetcher, the CNAME      *)
(* handler, the query limiter with its single-flight group, stub zones,    *)
(* the forwarder seen from outside, and the fail forwarder.                *)
(*                                                                         *)
(* Messages live in a heap because the code shares them: the response a    *)
(* handler sends is the very message the cache keeps, a prefetch task      *)
(* keeps the request of the handler that made it, and a query that joins   *)
(* another one in flight copies its response.                              *)
(***************************************************************************)
EXTENDS Integers, Sequences, FiniteSets, SequencesExt, TLC

CONSTANTS
    QcHandlers,   \* handler goroutines of the server
    QcViews,      \* views; each has a message cache and a prefetcher
    QcHash,       \* name -> the 32-bit hash of the name
    QcZone,       \* name -> what the servers of the network hold for it
    QcAsks,       \* questions clients ask: [name, type, view]
    QcConfigs,    \* configurations: [stubs, fails, dns64, filter, prefetch]
    QcPlain,      \* views without DNS64 and AAAA filter
    QcIndirect,   \* conf.Resolver.CheckCnameIndirect
    QcMaxSize,    \* conf.Cache.MaxCacheSize
    QcLimit,      \* concurrent outgoing queries, 0 for no limit
    QcQueries,    \* bound: queries received
    QcNames,      \* names commands are about
    QcCommands    \* bound: commands, agings of cache entries

VARIABLES
    qcRequest,    \* handler -> its request, the object FromWire fills again
    qcClient,     \* worker -> the client of the query it is busy with
    qcHeap,       \* message id -> message
    qcCache,      \* view -> [ll, map, entry]
    qcTasks,      \* view -> prefetch tasks waiting
    qcKeys,       \* view -> keys of the prefetch tasks made
    qcCalls,      \* single flight: key -> call
    qcConf,       \* the configuration in force
    qcHung,       \* a reconfiguration stopped the handlers and never returns
    qcAsked, qcChanged

qcVars == <<qcRequest, qcClient, qcHeap, qcCache, qcTasks, qcKeys, qcCalls,
            qcConf, qcHung, qcAsked, qcChanged>>

Workers == QcHandlers \cup QcViews

Question(q) == [name |-> q.name, type |-> q.type]

NoContext == [resp |-> 0, chain |-> <<>>, question |-> <<>>]

IdleClient == [pc |-> "idle", req |-> <<>>, view |-> "", resp |-> 0,
               cacheAnswer |-> TRUE, cname |-> NoContext, dns64 |-> NoContext,
               key |-> <<>>, val |-> 0, valCache |-> TRUE, saved |-> 0, sent |-> <<>>, ask |-> <<>>]

EmptyCache == [ll |-> <<>>, map |-> <<>>, entry |-> <<>>]

QcInit ==
    /\ qcRequest = [h \in QcHandlers |-> <<>>]
    /\ qcClient = [w \in Workers |-> IdleClient]
    /\ qcHeap = <<>>
    /\ qcCache = [v \in QcViews |-> EmptyCache]
    /\ qcTasks = [v \in QcViews |-> <<>>]
    /\ qcKeys = [v \in QcViews |-> {}]
    /\ qcCalls = <<>>
    /\ qcConf \in QcConfigs
    /\ qcHung = FALSE
    /\ qcAsked = 0 /\ qcChanged = 0

-----------------------------------------------------------------------------
(* The heap: messages nobody refers to any more are collected.             *)

RRset(n, t, to) == [name |-> n, type |-> t, to |-> to]

References(clients, caches, calls) ==
    UNION {{clients[w].resp, clients[w].val, clients[w].cname.resp, clients[w].dns64.resp}
           : w \in Workers}
    \cup UNION {{caches[v].entry[e].msg : e \in DOMAIN caches[v].entry} : v \in QcViews}
    \cup {calls[k].resp : k \in DOMAIN calls}

Collected(heap, live) == [m \in DOMAIN heap \cap live |-> heap[m]]

Fresh(f) == CHOOSE i \in 1..(Cardinality(DOMAIN f) + 1) : i \notin DOMAIN f

(* One step of a worker: the new heap, its client, and what it changed.    *)
Becomes(heap, clients, caches, calls) ==
    /\ qcClient' = clients
    /\ qcCache' = caches
    /\ qcCalls' = calls
    /\ qcHeap' = Collected(heap, References(clients, caches, calls))

Goes(w, c) == Becomes(qcHeap, [qcClient EXCEPT ![w] = c], qcCache, qcCalls)

(* A worker goes on with a response made for it.                           *)
GoesWith(w, c, msg) ==
    LET m == Fresh(qcHeap)
    IN Becomes((m :> msg) @@ qcHeap, [qcClient EXCEPT ![w] = [c EXCEPT !.resp = m]],
               qcCache, qcCalls)

At(w, label) == qcClient[w].pc = label

Request(w) == qcRequest[qcClient[w].req]

IsHandler(w) == w \in QcHandlers

-----------------------------------------------------------------------------
(* The world, seen through the sockets.                                    *)

TypeOf(n, t) == IF t \in QcZone[n].types THEN <<RRset(n, t, "")>> ELSE <<>>

(* What a server of the network answers: the alias alone or with the       *)
(* records of its target, else the records asked for.                      *)
Replies(q) ==
    IF QcZone[q.name].cname = "" THEN {TypeOf(q.name, q.type)}
    ELSE {<<RRset(q.name, "CNAME", QcZone[q.name].cname)>>} \cup
         {<<RRset(q.name, "CNAME", QcZone[q.name].cname)>> \o TypeOf(QcZone[q.name].cname, q.type)}

(* Everything known about a question, one alias after the other.           *)
FullAnswer[n \in DOMAIN QcZone, t \in {"A", "AAAA"}] ==
    IF QcZone[n].cname = "" THEN TypeOf(n, t)
    ELSE <<RRset(n, "CNAME", QcZone[n].cname)>> \o FullAnswer[QcZone[n].cname, t]

Message(q, id, rcode, answers) ==
    [name |-> q.name, type |-> q.type, id |-> id, rcode |-> rcode, answers |-> answers]

MakeResponse(r, rcode) == Message(r, r.id, rcode, <<>>)

-----------------------------------------------------------------------------
(* server.go: a handler goroutine takes a message of the channel and       *)
(* parses it into its own request object.  Every query has an id of its    *)
(* own, so that clients with the same question can be told apart.          *)
Receive(h) ==
    /\ At(h, "idle") /\ qcAsked < QcQueries /\ ~qcHung
    /\ \E a \in QcAsks :
          LET r == [id |-> qcAsked + 1, name |-> a.name, type |-> a.type]
          IN /\ qcRequest' = [qcRequest EXCEPT ![h] = r]
             /\ Goes(h, [IdleClient EXCEPT !.pc = "cache", !.req = h, !.view = a.view, !.ask = r])
    /\ qcAsked' = qcAsked + 1
    /\ UNCHANGED <<qcTasks, qcKeys, qcConf, qcHung, qcChanged>>

(* The request is still read by a prefetch task or by who runs one.        *)
Shared(h) ==
    \E v \in QcViews : qcClient[v].req = h \/ \E i \in DOMAIN qcTasks[v] : qcTasks[v][i].req = h

(* Rend and SendResponse; a query without response is dropped.  The next   *)
(* query overwrites the request, so that it is forgotten here.             *)
SendResponse(h) ==
    /\ IsHandler(h) /\ At(h, "reply")
    /\ Goes(h, IdleClient)
    /\ qcRequest' = IF Shared(h) THEN qcRequest ELSE [qcRequest EXCEPT ![h] = <<>>]
    /\ UNCHANGED <<qcTasks, qcKeys, qcConf, qcHung, qcAsked, qcChanged>>

-----------------------------------------------------------------------------
(* messagecache.go                                                         *)

keyForMessage(q) == <<QcHash[q.name], q.type>>

QueryKey(q, view) == <<QcHash[q.name], view, q.type>>

(* An element taken off the list lives on as long as the map points to it. *)
Trimmed(c) ==
    [c EXCEPT !.entry = [e \in {x \in DOMAIN c.entry : x \in ToSet(c.ll) \/ \E k \in DOMAIN c.map : c.map[k] = x}
                         |-> c.entry[e]]]

(* The key that goes is that of the message as it is now.                  *)
removeElement(c, e, heap) ==
    Trimmed([c EXCEPT !.ll = SelectSeq(c.ll, LAMBDA x : x # e),
                      !.map = [k \in DOMAIN c.map \ {keyForMessage(heap[c.entry[e].msg])} |-> c.map[k]]])

MoveToFront(c, e) ==
    IF e \in ToSet(c.ll) THEN [c EXCEPT !.ll = <<e>> \o SelectSeq(c.ll, LAMBDA x : x # e)] ELSE c

Entry(m) == [msg |-> m, age |-> 0]

removeOldest(c, heap) ==
    IF QcMaxSize # 0 /\ Len(c.ll) > QcMaxSize THEN removeElement(c, c.ll[Len(c.ll)], heap) ELSE c

Stored(c, key, e, m) ==
    IF key \in DOMAIN c.map
    THEN [MoveToFront(c, c.map[key]) EXCEPT !.entry[c.map[key]] = Entry(m)]
    ELSE [ll |-> <<e>> \o c.ll, map |-> (key :> e) @@ c.map, entry |-> (e :> Entry(m)) @@ c.entry]

(* add: the entry goes in front, and the oldest leaves a cache that is     *)
(* too big.                                                                *)
AddMessage(c, m, heap) == removeOldest(Stored(c, keyForMessage(heap[m]), Fresh(c.entry), m), heap)

(* get: an entry of the key that is not expired and has the name asked.    *)
Serves(c, q, heap) ==
    /\ keyForMessage(q) \in DOMAIN c.map
    /\ LET e == c.entry[c.map[keyForMessage(q)]] IN e.age < 2 /\ heap[e.msg].name = q.name

(* Get: an entry near its end is handed to the prefetcher as well.  The    *)
(* task keeps the client's request, not a copy of it.                      *)
PrefetchDue(w, e) ==
    /\ qcConf.prefetch /\ e.age = 1
    /\ QueryKey(Request(w), qcClient[w].view) \notin qcKeys[qcClient[w].view]

addPrefetchTask(w) ==
    /\ qcTasks' = [qcTasks EXCEPT ![qcClient[w].view] =
                     Append(@, [req |-> qcClient[w].req, cacheAnswer |-> qcClient[w].cacheAnswer])]
    /\ qcKeys' = [qcKeys EXCEPT ![qcClient[w].view] =
                    @ \cup {QueryKey(Request(w), qcClient[w].view)}]

(* A hit is answered with a copy of the cached message under the identity  *)
(* of the request.                                                         *)
CacheGet(h) ==
    /\ At(h, "cache")
    /\ LET v == qcClient[h].view
           c == qcCache[v]
           e == c.map[keyForMessage(Request(h))]
           m == qcHeap[c.entry[e].msg]
           new == Fresh(qcHeap)
       IN IF Serves(c, Request(h), qcHeap)
          THEN /\ Becomes((new :> Message(Request(h), Request(h).id, m.rcode, m.answers)) @@ qcHeap,
                          [qcClient EXCEPT ![h].pc = "up", ![h].resp = new],
                          [qcCache EXCEPT ![v] = MoveToFront(c, e)], qcCalls)
               /\ IF PrefetchDue(h, c.entry[e])
                  THEN addPrefetchTask(h)
                  ELSE UNCHANGED <<qcTasks, qcKeys>>
          ELSE /\ Goes(h, [qcClient[h] EXCEPT !.pc = "limit"])
               /\ UNCHANGED <<qcTasks, qcKeys>>
    /\ UNCHANGED <<qcRequest, qcConf, qcHung, qcAsked, qcChanged>>

(* After a miss the response goes into the cache as it is.                 *)
CacheAdd(h) ==
    /\ IsHandler(h) /\ At(h, "back")
    /\ Becomes(qcHeap, [qcClient EXCEPT ![h].pc = "up"],
               IF qcClient[h].resp # 0 /\ qcClient[h].cacheAnswer
               THEN [qcCache EXCEPT ![qcClient[h].view] = AddMessage(@, qcClient[h].resp, qcHeap)]
               ELSE qcCache, qcCalls)
    /\ UNCHANGED <<qcRequest, qcTasks, qcKeys, qcConf, qcHung, qcAsked, qcChanged>>

-----------------------------------------------------------------------------
(* prefetch.go: the goroutine of a view's cache.                           *)
PrefetchStart(v) ==
    /\ At(v, "idle") /\ qcTasks[v] # <<>>
    /\ Goes(v, [IdleClient EXCEPT !.pc = "limit", !.view = v, !.req = Head(qcTasks[v]).req,
                                  !.cacheAnswer = Head(qcTasks[v]).cacheAnswer])
    /\ qcTasks' = [qcTasks EXCEPT ![v] = Tail(@)]
    /\ UNCHANGED <<qcRequest, qcKeys, qcConf, qcHung, qcAsked, qcChanged>>

(* The key dropped is that of the request as it is by now.                 *)
PrefetchEnd(v) ==
    /\ v \in QcViews /\ At(v, "back")
    /\ LET keep == qcClient[v].resp # 0 /\ qcClient[v].cacheAnswer
       IN /\ Becomes(qcHeap, [qcClient EXCEPT ![v] = IdleClient],
                     IF keep THEN [qcCache EXCEPT ![v] = AddMessage(@, qcClient[v].resp, qcHeap)]
                     ELSE qcCache, qcCalls)
          /\ qcKeys' = IF keep THEN [qcKeys EXCEPT ![v] = @ \ {QueryKey(Request(v), v)}] ELSE qcKeys
    /\ UNCHANGED <<qcRequest, qcTasks, qcConf, qcHung, qcAsked, qcChanged>>

-----------------------------------------------------------------------------
(* querylimit.go and singleflight.go                                       *)

Same == UNCHANGED <<qcRequest, qcTasks, qcKeys, qcConf, qcHung, qcAsked, qcChanged>>

(* stub.go: a name under a stub zone is asked of the masters, other names  *)
(* go to the forwarder, which writes a fresh id, 0 here, into the request  *)
(* it was given for the time of the exchange.                              *)
StubResolve(w, c, calls) ==
    LET stub == Request(w).name \in qcConf.stubs[c.view]
    IN /\ Becomes(qcHeap, [qcClient EXCEPT ![w] = [c EXCEPT !.pc = IF stub THEN "masters" ELSE "flight",
                                                           !.saved = IF stub THEN 0 ELSE Request(w).id,
                                                           !.sent = Question(Request(w))]],
                  qcCache, calls)
       /\ qcRequest' = IF stub THEN qcRequest ELSE [qcRequest EXCEPT ![c.req].id = 0]

(* Do: wait for the call of the key, refuse above the limit, else lead.    *)
Do(w) ==
    /\ At(w, "limit")
    /\ LET key == QueryKey(Request(w), qcClient[w].view)
           c == qcClient[w]
       IN IF key \in DOMAIN qcCalls
          THEN /\ Goes(w, IF qcCalls[key].done
                          THEN [c EXCEPT !.pc = "joined", !.val = qcCalls[key].resp,
                                         !.valCache = qcCalls[key].cacheAnswer]
                          ELSE [c EXCEPT !.pc = "join", !.key = key])
               /\ UNCHANGED qcRequest
          ELSE IF QcLimit > 0 /\ Cardinality(DOMAIN qcCalls) + 1 > QcLimit
          THEN Goes(w, [c EXCEPT !.pc = "resolved"]) /\ UNCHANGED qcRequest
          ELSE StubResolve(w, [c EXCEPT !.key = key],
                           (key :> [done |-> FALSE, resp |-> 0, cacheAnswer |-> TRUE]) @@ qcCalls)
    /\ UNCHANGED <<qcTasks, qcKeys, qcConf, qcHung, qcAsked, qcChanged>>

(* The resolvers returned the message m of the heap, or none: the value    *)
(* of the call is set and everyone who waits is woken ...                  *)
DoDone(w, heap, m, cacheAnswer) ==
    Becomes(heap,
        [x \in Workers |->
           IF x = w THEN [qcClient[w] EXCEPT !.pc = "undo", !.resp = m, !.cacheAnswer = cacheAnswer,
                                             !.saved = 0, !.sent = <<>>]
           ELSE IF qcClient[x].pc = "join" /\ qcClient[x].key = qcClient[w].key
           THEN [qcClient[x] EXCEPT !.pc = "joined", !.val = m, !.key = <<>>, !.valCache = cacheAnswer]
           ELSE qcClient[x]],
        qcCache,
        [qcCalls EXCEPT ![qcClient[w].key] = [done |-> TRUE, resp |-> m, cacheAnswer |-> cacheAnswer]])

DoneWith(w, msg, cacheAnswer) ==
    LET m == Fresh(qcHeap) IN DoDone(w, (m :> msg) @@ qcHeap, m, cacheAnswer)

(* ... before the call leaves the group.                                   *)
DoForget(w) ==
    /\ At(w, "undo")
    /\ Becomes(qcHeap, [qcClient EXCEPT ![w].pc = "resolved", ![w].key = <<>>], qcCache,
               [k \in DOMAIN qcCalls \ {qcClient[w].key} |-> qcCalls[k]])
    /\ Same

(* Variant: the copy keeps the id of the query that made it.               *)
CopyWithItsId(w, r) == qcHeap[r]

(* A response made for another client, under the id of this one.           *)
CopyFor(w, r) == [qcHeap[r] EXCEPT !.id = Request(w).id]

(* The rest of Resolve for one who waited: a copy under its own identity,  *)
(* or another attempt when the hash of two names is the same.              *)
Joined(w) ==
    /\ At(w, "joined")
    /\ LET c == [qcClient[w] EXCEPT !.val = 0, !.valCache = TRUE]
           r == qcClient[w].val
       IN IF r = 0 THEN Goes(w, [c EXCEPT !.pc = "resolved"])
          ELSE IF Request(w).name = qcHeap[r].name
          THEN GoesWith(w, [c EXCEPT !.pc = "resolved", !.cacheAnswer = qcClient[w].valCache],
                        CopyFor(w, r))
          ELSE Goes(w, [c EXCEPT !.pc = "limit"])
    /\ Same

-----------------------------------------------------------------------------
(* A reply counts if its id and question are those the request has when    *)
(* it is read.                                                             *)

(* handleQuery of stub.go: the first master that answers, or SERVFAIL      *)
(* after the timeout; neither is cached.                                   *)
StubReply(w) ==
    /\ At(w, "masters")
    /\ \/ /\ Question(Request(w)) = qcClient[w].sent
          /\ \E a \in Replies(qcClient[w].sent) :
                DoneWith(w, Message(qcClient[w].sent, Request(w).id, "NOERROR", a), FALSE)
       \/ DoneWith(w, MakeResponse(Request(w), "SERVFAIL"), FALSE)
    /\ Same

ForwardReply(w) ==
    /\ At(w, "flight")
    /\ LET c == qcClient[w]
       IN \/ /\ Question(Request(w)) = c.sent /\ Request(w).id = 0
             /\ \E a \in Replies(c.sent) : DoneWith(w, Message(c.sent, c.saved, "NOERROR", a), c.cacheAnswer)
          \/ DoDone(w, qcHeap, c.resp, c.cacheAnswer)
    /\ qcRequest' = [qcRequest EXCEPT ![qcClient[w].req].id = qcClient[w].saved]
    /\ UNCHANGED <<qcTasks, qcKeys, qcConf, qcHung, qcAsked, qcChanged>>

-----------------------------------------------------------------------------
(* cnamehandler.go                                                         *)

maxRedirectCount == 16

Looked(answers) == IF QcIndirect THEN Head(answers) ELSE Last(answers)

needRedirect(m) ==
    /\ m # 0
    /\ qcHeap[m].answers # <<>>
    /\ Looked(qcHeap[m].answers).type = "CNAME"

(* Only the first alias is kept when every one has to be asked for.        *)
Kept(answers) == IF QcIndirect THEN <<Head(answers)>> ELSE answers

Ask(w, name, type) ==
    qcRequest' = [qcRequest EXCEPT ![qcClient[w].req].name = name, ![qcClient[w].req].type = type]

NextName(m) == Looked(qcHeap[m].answers).to

(* The first alias: a context that keeps question and response; that the   *)
(* alias may point to itself is not looked at here.                        *)
FirstRedirect(w) ==
    LET m == qcClient[w].resp
        seen == <<Request(w).name>>
        chain == IF NextName(m) \in ToSet(seen) THEN seen ELSE Append(seen, NextName(m))
    IN /\ Becomes([qcHeap EXCEPT ![m].answers = Kept(@)],
                  [qcClient EXCEPT ![w].cname = [resp |-> m, chain |-> chain, question |-> Question(Request(w))],
                                   ![w].resp = 0, ![w].pc = "limit"], qcCache, qcCalls)
       /\ Ask(w, Last(chain), Request(w).type)

(* assembleFinalResponse: the context's response under the first question. *)
Assembled(w, merged) ==
    LET x == qcClient[w].cname
    IN /\ Becomes([qcHeap EXCEPT ![x.resp] = [merged EXCEPT !.id = Request(w).id,
                                                !.name = x.question.name, !.type = x.question.type]],
                  [qcClient EXCEPT ![w].resp = x.resp, ![w].cname = NoContext, ![w].pc = "resolver"],
                  qcCache, qcCalls)
       /\ Ask(w, x.question.name, x.question.type)

mergeResponse(first, m, answers) ==
    IF m = 0 THEN first
    ELSE [first EXCEPT !.answers = @ \o answers, !.rcode = qcHeap[m].rcode]

(* addRedirect: no name twice; makeRedirectQuery: not too many of them.    *)
Redirects(w, m) ==
    /\ needRedirect(m)
    /\ NextName(m) \notin ToSet(qcClient[w].cname.chain)
    /\ Len(qcClient[w].cname.chain) <= maxRedirectCount

followCNameChain(w) ==
    LET m == qcClient[w].resp
        x == qcClient[w].cname
        answers == IF m = 0 THEN <<>>
                   ELSE IF needRedirect(m) THEN Kept(qcHeap[m].answers) ELSE qcHeap[m].answers
        merged == mergeResponse(qcHeap[x.resp], m, answers)
    IN IF ~Redirects(w, m) THEN Assembled(w, merged)
       ELSE /\ Becomes([qcHeap EXCEPT ![x.resp] = merged, ![m].answers = answers],
                       [qcClient EXCEPT ![w].cname.chain = Append(@, NextName(m)),
                                        ![w].resp = 0, ![w].pc = "limit"], qcCache, qcCalls)
            /\ Ask(w, NextName(m), x.question.type)

CNameResolve(w) ==
    /\ At(w, "resolved")
    /\ IF qcClient[w].cname # NoContext THEN followCNameChain(w)
       ELSE IF needRedirect(qcClient[w].resp) THEN FirstRedirect(w)
       ELSE Goes(w, [qcClient[w] EXCEPT !.pc = "resolver"]) /\ UNCHANGED qcRequest
    /\ UNCHANGED <<qcTasks, qcKeys, qcConf, qcHung, qcAsked, qcChanged>>

-----------------------------------------------------------------------------
(* resolver.go: a query the resolvers leave without response goes to the   *)
(* fail forwarder of the view, or to that of every view.                   *)
HasFailForwarder(view) == {view, "*"} \cap qcConf.fails # {}

ResolverReturns(w) ==
    /\ At(w, "resolver")
    /\ Goes(w, IF qcClient[w].resp = 0 /\ HasFailForwarder(qcClient[w].view)
               THEN [qcClient[w] EXCEPT !.pc = "fail", !.sent = Question(Request(w))]
               ELSE [qcClient[w] EXCEPT !.pc = "back"])
    /\ Same

FailForward(w) ==
    /\ At(w, "fail")
    /\ LET c == [qcClient[w] EXCEPT !.pc = "back", !.sent = <<>>]
       IN \/ /\ Question(Request(w)) = qcClient[w].sent
             /\ \E a \in Replies(qcClient[w].sent) :
                   GoesWith(w, c, Message(qcClient[w].sent, Request(w).id, "NOERROR", a))
          \/ Goes(w, c)
    /\ Same

-----------------------------------------------------------------------------
(* dns64.go                                                                *)

needDNS64Synthesis(h) ==
    /\ qcClient[h].view \in qcConf.dns64
    /\ Request(h).type = "AAAA"
    /\ qcClient[h].resp # 0
    /\ qcHeap[qcClient[h].resp].rcode = "NOERROR"
    /\ \A i \in DOMAIN qcHeap[qcClient[h].resp].answers :
          qcHeap[qcClient[h].resp].answers[i].type # "AAAA"

(* queryARecord: the last alias, or the name itself, is asked for A.       *)
queryARecord(h) ==
    LET answers == qcHeap[qcClient[h].resp].answers
        next == IF answers # <<>> /\ Last(answers).type = "CNAME" THEN Last(answers).to ELSE Request(h).name
    IN /\ Goes(h, [qcClient[h] EXCEPT !.dns64 = [resp |-> qcClient[h].resp, chain |-> <<>>,
                                                 question |-> Question(Request(h))],
                                      !.resp = 0, !.pc = "cache"])
       /\ Ask(h, next, "A")

(* The answers up to the first A, which is turned into AAAA.               *)
synthesisAAAAFromA(answers) ==
    LET first == SelectInSeq(answers, LAMBDA r : r.type = "A")
    IN IF first = 0 THEN answers
       ELSE Append(SubSeq(answers, 1, first - 1), [answers[first] EXCEPT !.type = "AAAA"])

(* synthesizeDNS64Response writes into the response of the A query.        *)
synthesizeDNS64Response(h) ==
    LET x == qcClient[h].dns64
        m == qcClient[h].resp
    IN /\ IF m = 0
          THEN Goes(h, [qcClient[h] EXCEPT !.resp = x.resp, !.dns64 = NoContext, !.pc = "transfer"])
          ELSE Becomes([qcHeap EXCEPT ![m].name = x.question.name, ![m].type = x.question.type,
                                      ![m].answers = qcHeap[x.resp].answers \o synthesisAAAAFromA(@)],
                       [qcClient EXCEPT ![h].dns64 = NoContext, ![h].pc = "transfer"], qcCache, qcCalls)
       /\ Ask(h, x.question.name, x.question.type)

DNS64HandleQuery(h) ==
    /\ At(h, "up")
    /\ IF qcClient[h].dns64 # NoContext THEN synthesizeDNS64Response(h)
       ELSE IF needDNS64Synthesis(h) THEN queryARecord(h)
       ELSE Goes(h, [qcClient[h] EXCEPT !.pc = "transfer"]) /\ UNCHANGED qcRequest
    /\ UNCHANGED <<qcTasks, qcKeys, qcConf, qcHung, qcAsked, qcChanged>>

(* aaaafilter.go: the AAAA records leave the response itself.              *)
removeAaaaRecords(answers) == SelectSeq(answers, LAMBDA r : r.type # "AAAA")

TransferResponse(h) ==
    /\ At(h, "transfer")
    /\ LET m == qcClient[h].resp
           clients == [qcClient EXCEPT ![h].pc = "reply"]
       IN IF /\ qcClient[h].view \in qcConf.filter
             /\ m # 0
             /\ qcHeap[m].rcode = "NOERROR"
          THEN Becomes([qcHeap EXCEPT ![m].answers = removeAaaaRecords(@)], clients, qcCache, qcCalls)
          ELSE Becomes(qcHeap, clients, qcCache, qcCalls)
    /\ Same

-----------------------------------------------------------------------------
(* Commands, the clock and a new configuration.                            *)

QcChange ==
    /\ qcChanged < QcCommands /\ ~qcHung
    /\ qcChanged' = qcChanged + 1
    /\ UNCHANGED <<qcRequest, qcClient, qcCalls, qcTasks, qcKeys, qcHung, qcAsked>>

WithCaches(caches) ==
    /\ qcCache' = caches
    /\ qcHeap' = Collected(qcHeap, References(qcClient, caches, qcCalls))
    /\ UNCHANGED qcConf

(* Clear, for one view or for all.                                         *)
cleanInView(views) == QcChange /\ WithCaches([v \in QcViews |-> IF v \in views THEN EmptyCache ELSE qcCache[v]])

(* Remove: the element the map has for the name and a type.                *)
RemoveFrom(c, n, t) ==
    LET k == keyForMessage([name |-> n, type |-> t])
    IN IF k \in DOMAIN c.map THEN removeElement(c, c.map[k], qcHeap) ELSE c

cleanRRsetsCache(views, n) ==
    QcChange /\ WithCaches([v \in QcViews |->
        IF v \in views THEN RemoveFrom(RemoveFrom(qcCache[v], n, "A"), n, "AAAA") ELSE qcCache[v]])

WithConf(conf) == qcConf' = conf /\ UNCHANGED <<qcCache, qcHeap>>

addStubZone(v, n) ==
    QcChange /\ n \notin qcConf.stubs[v] /\ WithConf([qcConf EXCEPT !.stubs[v] = @ \cup {n}])

deleteStubZone(v, n) ==
    QcChange /\ n \in qcConf.stubs[v] /\ WithConf([qcConf EXCEPT !.stubs[v] = @ \ {n}])

AddForwarder(v) == QcChange /\ v \notin qcConf.fails /\ WithConf([qcConf EXCEPT !.fails = @ \cup {v}])

DeleteForwarder(v) == QcChange /\ v \in qcConf.fails /\ WithConf([qcConf EXCEPT !.fails = @ \ {v}])

updateDns64(v, on) ==
    /\ QcChange
    /\ WithConf([qcConf EXCEPT !.dns64 = IF on THEN @ \cup {v} ELSE @ \ {v}])

updateViewAcls(v, on) ==
    /\ QcChange
    /\ WithConf([qcConf EXCEPT !.filter = IF on THEN @ \cup {v} ELSE @ \ {v}])

(* An entry nears its end, then expires.                                   *)
Age(v, e) ==
    /\ QcChange
    /\ e \in DOMAIN qcCache[v].entry /\ qcCache[v].entry[e].age < 2
    /\ WithCaches([qcCache EXCEPT ![v].entry[e].age = @ + 1])

(* Reconfig: the handlers are stopped first; the caches stay.  The cache   *)
(* of the default view is reconfigured twice, and needPrefetch is never    *)
(* cleared: when the prefetch is turned off, the second stop() waits for a *)
(* prefetcher that is gone, with the lock of the commands held and no      *)
(* handler started again.                                                  *)
QcReconfig ==
    /\ qcChanged < QcCommands /\ ~qcHung /\ qcChanged' = qcChanged + 1
    /\ \A w \in Workers : At(w, "idle")
    /\ \E conf \in QcConfigs :
          IF qcConf.prefetch /\ ~conf.prefetch
          THEN qcHung' = TRUE /\ UNCHANGED qcConf
          ELSE qcConf' = conf /\ UNCHANGED qcHung
    /\ qcTasks' = [v \in QcViews |-> <<>>] /\ qcKeys' = [v \in QcViews |-> {}]
    /\ qcCalls' = <<>>
    /\ UNCHANGED <<qcRequest, qcClient, qcCache, qcHeap, qcAsked>>

QcNext ==
    \/ \E h \in QcHandlers :
          \/ Receive(h) \/ CacheGet(h) \/ CacheAdd(h)
          \/ DNS64HandleQuery(h) \/ TransferResponse(h) \/ SendResponse(h)
    \/ \E v \in QcViews : PrefetchStart(v) \/ PrefetchEnd(v)
    \/ \E w \in Workers :
          \/ Do(w) \/ DoForget(w) \/ Joined(w) \/ StubReply(w) \/ ForwardReply(w)
          \/ CNameResolve(w) \/ ResolverReturns(w) \/ FailForward(w)
    \/ \E v \in QcViews : cleanInView({v})
    \/ cleanInView(QcViews)
    \/ \E n \in QcNames : cleanRRsetsCache(QcViews, n) \/ \E v \in QcViews : cleanRRsetsCache({v}, n)
    \/ \E v \in QcViews, n \in QcNames : addStubZone(v, n) \/ deleteStubZone(v, n)
    \/ \E v \in QcViews \cup {"*"} : AddForwarder(v) \/ DeleteForwarder(v)
    \/ \E v \in QcViews \ QcPlain, on \in BOOLEAN : updateDns64(v, on) \/ updateViewAcls(v, on)
    \/ \E v \in QcViews : \E e \in DOMAIN qcCache[v].entry : Age(v, e)
    \/ QcReconfig

QcSpec == QcInit /\ [][QcNext]_qcVars

-----------------------------------------------------------------------------
(* The response a handler sends has the id and the question of the query   *)
(* it received, and its answers are those of the question, up to where an  *)
(* exchange failed, whoever asked for the same under another id, or for a  *)
(* name with the same hash, at the same time or before.  Views with DNS64 or an AAAA     *)
(* filter, and configurations with prefetch, are left out.                 *)
QcAnswered ==
    \A h \in QcHandlers :
        (At(h, "reply") /\ qcClient[h].resp # 0 /\ qcClient[h].view \in QcPlain /\ ~qcConf.prefetch)
        => LET m == qcHeap[qcClient[h].resp]
               a == qcClient[h].ask
           IN /\ m.id = a.id /\ m.name = a.name /\ m.type = a.type
              /\ IsPrefix(m.answers, FullAnswer[a.name, a.type])
=============================================================================
