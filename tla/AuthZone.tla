------------------------------ MODULE AuthZone ------------------------------
(***************************************************************************)
(* The authoritative zones of the DNS server (vanguard/resolver/auth): the *)
(* records of a zone in a tree of names, the search of an answer in it,    *)
(* updates on a copy that replaces the zone when it is committed, and the  *)
(* commands that add, delete and update zones; and zone transfers          *)
(* (vanguard/xfr): a notification of a master starts a transfer in a       *)
(* goroutine, whose answer is fed to a state machine (cement/fsm) that     *)
(* updates a copy of the zone.                                             *)
(*                                                                         *)
(* A name is the sequence of its labels before the origin, leftmost first; *)
(* Outside is a name of another zone.  The tree is the set of its nodes: a *)
(* name that was inserted, or where names under it branch (DomainTree has  *)
(* the tree itself).  The records of a name are a function of their types. *)
(* An answer of a master is a sequence of record sets, as the message      *)
(* reader joins them: neighbouring SOA records are one set with several    *)
(* serial numbers.                                                         *)
(***************************************************************************)
EXTENDS Integers, Sequences, FiniteSets, FiniteSetsExt, TLC

CONSTANTS
  AzContents,  \* the contents of zone files and of masters: sequences of record sets
  AzUpdates,   \* the lists of operations clients ask for: sequences of [op, rr]
  AzReplaces,  \* the records they replace by others: [old, new]
  AzQuestions, \* the questions clients ask: [name, type]
  AzChanges,   \* bound: how often the zone is loaded or replaced by a committed copy
  AzSerials,   \* bound: the serial number up to which updates are followed
  XfHistory    \* the records of the master after its serial number n, n from 1

VARIABLES
  azZones,     \* the zone objects: live [ver, z], old versions and masters
  azTable,     \* the place of the zone in the tree of the view, 0 for none
  azQuery,     \* the query in progress
  azUpdate,    \* the update in progress
  azSeen,      \* history: what the zone held since the query began
  azPanic,     \* the process ended
  xfFlight,    \* the zone is in inFlightIXFR
  xfJob,       \* the transfer in progress
  xfSerial     \* the serial number of the master

azVars == <<azZones, azTable, azQuery, azUpdate, azSeen, azPanic>>
xfVars == <<xfFlight, xfJob, xfSerial>>

Origin == <<>>
Outside == <<"outside", "zone">>
Star == "*"
IsUnder(n, a) == Len(n) > Len(a) /\ SubSeq(n, Len(n) - Len(a) + 1, Len(n)) = a
Above(n) == {SubSeq(n, i, Len(n)) : i \in 2..(Len(n) + 1)}
InZone(n) == n # Outside
IsWild(n) == n # Origin /\ Head(n) = Star
Longest(S) == CHOOSE n \in S : \A m \in S : Len(m) <= Len(n)
Shortest(S) == CHOOSE n \in S : \A m \in S : Len(m) >= Len(n)
Common(n, m) == Longest((Above(n) \cup {n}) \cap (Above(m) \cup {m}))

-----------------------------------------------------------------------------
(* A zone: the nodes of its tree, the records of the nodes that have any,  *)
(* the nodes flagged as zone cuts (NF_CALLBACK) and as having a wildcard   *)
(* below (wildcardMark).                                                   *)
newMemoryZone == [nodes |-> {Origin}, data |-> <<>>, cut |-> {}, wild |-> {}]
NoData(z, n) == n \notin DOMAIN z.data
Has(z, n, t) == n \in DOMAIN z.data /\ t \in DOMAIN z.data[n]
isEmpty(z) == NoData(z, Origin)
validate(z) == CASE ~Has(z, Origin, "SOA") -> "ErrShortOfSOA"
                 [] ~Has(z, Origin, "NS") -> "ErrShortOfNS"
                 [] OTHER -> "nil"

InsertNodes(z, n) == [z EXCEPT !.nodes = @ \cup {n} \cup {Common(n, m) : m \in @}]
Without(f, x) == [y \in DOMAIN f \ {x} |-> f[y]]
NodesUnder(z, n) == {m \in z.nodes : IsUnder(m, n)}
Prunable(z, n) == {a \in Above(n) \cup {n} :
                     \A b \in {a} \cup NodesUnder(z, a) : b = n \/ (IsUnder(n, b) /\ NoData(z, b))}
(* Remove: a name with others below it loses its data and keeps its flags; *)
(* a leaf goes, and with it the names above that are left empty.           *)
RemoveNode(z, n) ==
  IF NodesUnder(z, n) # {} THEN [z EXCEPT !.data = Without(@, n)]
  ELSE [nodes |-> z.nodes \ Prunable(z, n), data |-> Without(z.data, n),
        cut |-> z.cut \ Prunable(z, n), wild |-> z.wild \ Prunable(z, n)]

-----------------------------------------------------------------------------
(* find.  The search goes down the nodes above the name; at the flagged    *)
(* ones zoneCutCallback takes the NS set, and stops unless glue is wanted. *)
NoSet == [ttl |-> 0, rdatas |-> {}]
Found(type, rrset, node) == [type |-> type, rrset |-> rrset, node |-> node]
NoResult == Found("none", NoSet, <<>>)
PanicResult == Found("panic", NoSet, <<>>)
CutsAbove(z, n) == z.cut \cap Above(n)
CutsCalled(z, n, glue) == IF glue \/ CutsAbove(z, n) = {} THEN CutsAbove(z, n) ELSE {Shortest(CutsAbove(z, n))}
zoneCutPanics(z, n, glue) == \E c \in CutsCalled(z, n, glue) : ~Has(z, c, "NS")

InRecords(records, t, node) ==
  CASE t \in DOMAIN records -> Found("FRSuccess", records[t], node)
    [] t \notin DOMAIN records /\ "CNAME" \in DOMAIN records -> Found("FRCname", records["CNAME"], node)
    [] OTHER -> Found("FRNXRRset", NoSet, node)
Delegated(z, c) == Found("FRDelegation", z.data[c]["NS"], z.data[c])

FindWildcard(z, encloser, t) ==
  IF encloser \notin z.wild THEN Found("FRNXDomain", NoSet, <<>>)
  ELSE IF NoData(z, <<Star>> \o encloser) THEN PanicResult
  ELSE InRecords(z.data[<<Star>> \o encloser], t, <<>>)
FindPartial(z, n, t) ==
  IF CutsAbove(z, n) # {} THEN Delegated(z, Shortest(CutsAbove(z, n)))
  ELSE IF NodesUnder(z, n) # {} THEN Found("FRNXRRset", NoSet, <<>>)
  ELSE FindWildcard(z, Longest(Above(n) \cap z.nodes), t)
FindExact(z, n, t) ==
  IF NoData(z, n)
  THEN Found(IF \E m \in NodesUnder(z, n) : ~NoData(z, m) THEN "FRNXRRset" ELSE "FRNXDomain", NoSet, <<>>)
  ELSE IF n \in z.cut /\ n # Origin /\ Has(z, n, "NS") THEN Delegated(z, n)
  ELSE InRecords(z.data[n], t, z.data[n])
find(z, n, t, glue) ==
  IF ~InZone(n) \/ Origin \notin z.nodes THEN Found("FRNXDomain", NoSet, <<>>)
  ELSE IF zoneCutPanics(z, n, glue) THEN PanicResult
  ELSE IF n \in z.nodes /\ (glue \/ CutsAbove(z, n) = {}) THEN FindExact(z, n, t)
  ELSE FindPartial(z, n, t)

(* getAdditioanlAddrs and GetAdditional: the addresses of the names in a   *)
(* set of NS, MX or SRV records.                                           *)
AddressesOf(r) ==
  (IF r.type = "FRSuccess" THEN {r.rrset} ELSE {})
    \cup (IF r.type \in {"FRSuccess", "FRNXRRset"} /\ "AAAA" \in DOMAIN r.node THEN {r.node["AAAA"]} ELSE {})
Targets(t, r) == IF (t \in {"NS", "MX", "SRV"} /\ r.type = "FRSuccess") \/ r.type = "FRDelegation" THEN r.rrset.rdatas ELSE {}
AdditionalPanics(z, t, r) == \E n \in Targets(t, r) : find(z, n, "A", TRUE).type = "panic"
GetAdditional(z, t, r) == UNION {AddressesOf(find(z, n, "A", TRUE)) : n \in Targets(t, r)}

-----------------------------------------------------------------------------
(* The operations of a transaction give the zone and their error.          *)
Ok(z) == [z |-> z, err |-> "nil"]
Err(z, e) == [z |-> z, err |-> e]
Store(z, rr) == [z EXCEPT !.data = (rr.name :> ((rr.type :> [ttl |-> rr.ttl, rdatas |-> rr.rdatas])
                                     @@ (IF NoData(z, rr.name) THEN <<>> ELSE z.data[rr.name]))) @@ @]
SerialOf(rrset) == CHOOSE s \in rrset.rdatas : TRUE

checkRRsetValid(rr) == CASE rr.type = "NS" /\ IsWild(rr.name) -> "ErrNoEffectiveUpdate"
                         [] ~(rr.type = "NS" /\ IsWild(rr.name)) /\ ~InZone(rr.name) -> "ErrOutOfZone"
                         [] OTHER -> "nil"
CouldBeAdded(records, rr) == IF rr.type = "CNAME" THEN DOMAIN records = {"CNAME"} ELSE "CNAME" \notin DOMAIN records
FlagNode(z, rr) == IF rr.type = "NS" /\ rr.name # Origin THEN [z EXCEPT !.cut = @ \cup {rr.name}] ELSE z
(* Variant: the wildcard is marked, not the name above it. *)
MarkWildcardItself(z, rr) == IF IsWild(rr.name) THEN [z EXCEPT !.wild = @ \cup {rr.name}] ELSE z
markWildcardParent(z, rr) ==
  IF IsWild(rr.name) THEN [InsertNodes(z, Tail(rr.name)) EXCEPT !.wild = @ \cup {Tail(rr.name)}] ELSE z
Added(z, rr) == Ok(markWildcardParent(FlagNode(Store(z, rr), rr), rr))

MergeRdatas(z, rr, old) ==
  IF rr.rdatas \subseteq old.rdatas /\ rr.ttl = old.ttl THEN Err(z, "ErrDuplicateRdata")
  ELSE Added(z, [rr EXCEPT !.rdatas = old.rdatas \cup @])
(* Variant: an SOA record replaces the old one whatever its serial. *)
AddAnySerial(z, rr) ==
  IF ~CouldBeAdded(z.data[rr.name], rr) THEN Err(z, "ErrCNAMECoExistsWithOtherRR")
  ELSE IF rr.type \in {"SOA", "CNAME"} \/ ~Has(z, rr.name, rr.type) THEN Added(z, rr)
  ELSE MergeRdatas(z, rr, z.data[rr.name][rr.type])
AddToRecords(z, rr) ==
  IF ~CouldBeAdded(z.data[rr.name], rr) THEN Err(z, "ErrCNAMECoExistsWithOtherRR")
  ELSE IF rr.type = "SOA" /\ Has(z, rr.name, "SOA") /\ SerialOf(z.data[rr.name]["SOA"]) >= SerialOf(rr) THEN Ok(z)
  ELSE IF rr.type \in {"SOA", "CNAME"} \/ ~Has(z, rr.name, rr.type) THEN Added(z, rr)
  ELSE MergeRdatas(z, rr, z.data[rr.name][rr.type])
AddInserted(z, rr) == IF NoData(z, rr.name) THEN Added(z, rr) ELSE AddToRecords(z, rr)
addRRset(z, rr) == IF checkRRsetValid(rr) = "nil" THEN AddInserted(InsertNodes(z, rr.name), rr) ELSE Err(z, checkRRsetValid(rr))

unmarkWildcardParent(z, n) == IF IsWild(n) THEN [z EXCEPT !.wild = @ \ {Tail(n)}] ELSE z
deleteNode(z, n) == unmarkWildcardParent(RemoveNode(z, n), n)
(* Whether a set may be deleted; the last NS records of the origin are     *)
(* those the request lists, and there must be some to look at.             *)
checkRRsetCouldBeDeleted(z, rr) ==
  CASE ~InZone(rr.name) -> "ErrOutOfZone"
    [] rr.name = Origin /\ rr.type = "SOA" -> "ErrShortOfSOA"
    [] rr.name = Origin /\ rr.type = "NS" /\ ~Has(z, Origin, "NS") -> "panic"
    [] rr.name = Origin /\ rr.type = "NS" /\ Has(z, Origin, "NS") ->
         IF z.data[Origin]["NS"].rdatas \subseteq rr.rdatas THEN "ErrShortOfNS" ELSE "nil"
    [] OTHER -> "nil"
DropSet(z, n, t) ==
  IF DOMAIN z.data[n] = {t} THEN deleteNode(z, n) ELSE [z EXCEPT !.data[n] = Without(@, t)]
Deletable(z, rr) ==
  CASE checkRRsetCouldBeDeleted(z, rr) # "nil" -> checkRRsetCouldBeDeleted(z, rr)
    [] checkRRsetCouldBeDeleted(z, rr) = "nil" /\ ~Has(z, rr.name, rr.type) -> "ErrUnknownRRset"
    [] OTHER -> "nil"
deleteRRset(z, rr) == IF Deletable(z, rr) = "nil" THEN Ok(DropSet(z, rr.name, rr.type)) ELSE Err(z, Deletable(z, rr))
deleteRr(z, rr) ==
  IF Deletable(z, rr) # "nil" THEN Err(z, Deletable(z, rr))
  ELSE IF z.data[rr.name][rr.type].rdatas \subseteq rr.rdatas THEN Ok(DropSet(z, rr.name, rr.type))
  ELSE Ok([z EXCEPT !.data[rr.name][rr.type].rdatas = @ \ rr.rdatas])
(* At the origin the SOA and the NS set stay, as nil where there is none. *)
KeepApex(z) == [t \in {"SOA", "NS"} |-> IF Has(z, Origin, t) THEN z.data[Origin][t] ELSE NoSet]
deleteDomain(z, n) ==
  IF ~InZone(n) THEN Err(z, "ErrOutOfZone")
  ELSE IF NoData(z, n) THEN Err(z, "ErrUnknownRRset")
  ELSE IF n = Origin THEN Ok([z EXCEPT !.data[Origin] = KeepApex(z)])
  ELSE Ok(deleteNode(z, n))

ApplyOp(z, o) ==
  CASE o.op = "add" -> addRRset(z, o.rr)
    [] o.op = "delete domain" -> deleteDomain(z, o.rr.name)
    [] o.op = "delete set" -> deleteRRset(z, o.rr)
    [] o.op = "delete" -> deleteRr(z, o.rr)

(* handleDynamicRRsets: the operations one by one, until one fails.        *)
TxBegin(z) == [z |-> z, err |-> "nil", modified |-> FALSE, soa |-> FALSE]
AfterOp(tx, o, r) ==
  IF r.err = "nil" THEN [z |-> r.z, err |-> "nil", modified |-> TRUE, soa |-> tx.soa \/ (o.rr.type = "SOA" /\ o.op # "delete domain")]
  ELSE IF r.err = "ErrNoEffectiveUpdate" THEN tx
  ELSE [tx EXCEPT !.err = r.err]
RECURSIVE RunOps(_, _)
RunOps(tx, ops) ==
  IF ops = <<>> \/ tx.err # "nil" THEN tx
  ELSE RunOps(AfterOp(tx, Head(ops), ApplyOp(tx.z, Head(ops))), Tail(ops))

(* loadZone and loadZoneFromMaster: a zone with the records of the         *)
(* content, or an empty one when a record or the whole is refused.         *)
RECURSIVE LoadFrom(_, _)
LoadFrom(r, content) ==
  IF content = <<>> \/ r.err \notin {"nil", "ErrNoEffectiveUpdate"} THEN r
  ELSE LoadFrom(addRRset(r.z, Head(content)), Tail(content))
Loaded(r) == IF r.err \in {"nil", "ErrNoEffectiveUpdate"} /\ validate(r.z) = "nil" THEN r.z ELSE newMemoryZone
Load(content) == Loaded(LoadFrom(Ok(newMemoryZone), content))

-----------------------------------------------------------------------------
(* Zone objects.  A committed copy takes the place of the live version;    *)
(* the old one is cleaned by a goroutine of its own.  Only the versions    *)
(* that the query in progress may hold are remembered as pending and       *)
(* cleaned: nobody reads the others.                                       *)
NewDynamicZone(z, slave) == [ver |-> 1, z |-> z, pending |-> {}, cleaned |-> {}, slave |-> slave]
Changes == MapThenSumSet(LAMBDA i : azZones[i].ver, DOMAIN azZones)
NoQuery == [pc |-> "idle"]
NoUpdate == [pc |-> "idle"]
AzInit ==
  /\ azZones \in {<<NewDynamicZone(Load(c), FALSE)>> : c \in AzContents}
  /\ azTable = 1
  /\ azQuery = NoQuery
  /\ azUpdate = NoUpdate
  /\ azSeen = {}
  /\ azPanic = FALSE

(* Resolve, Process: the zone of the question is looked up once; the       *)
(* search in it starts with isEmpty, which reads the live version without  *)
(* the lock, and goes on in the version that is live under the lock.       *)
Ask(q) ==
  /\ azQuery.pc = "idle" /\ azTable # 0
  /\ azQuery' = [pc |-> "peek", obj |-> azTable, name |-> q.name, type |-> q.type, stage |-> "answer",
                 held |-> 0, heldEmpty |-> FALSE, r |-> NoResult, ver |-> 0, z |-> newMemoryZone,
                 first |-> NoResult, additional |-> {}]
  /\ azSeen' = {azZones[azTable].z.data}
  /\ UNCHANGED <<azZones, azTable, azUpdate, azPanic>>
AskedObject == azZones[azQuery.obj]
FindPeek ==
  /\ azQuery.pc = "peek"
  /\ azQuery' = [azQuery EXCEPT !.pc = "empty", !.held = AskedObject.ver, !.heldEmpty = isEmpty(AskedObject.z)]
  /\ UNCHANGED <<azZones, azTable, azUpdate, azSeen, azPanic>>

(* What Process does with the first result, and with the search for the    *)
(* SOA or the NS set of the origin that follows.                           *)
Forget(q, pc) == [q EXCEPT !.pc = pc, !.held = 0, !.heldEmpty = FALSE, !.r = NoResult, !.ver = 0, !.z = newMemoryZone]
Resulted(q, r) ==
  CASE q.stage = "answer" /\ r.type \in {"FRSuccess", "FRDelegation"} -> [q EXCEPT !.pc = "additional", !.r = r, !.first = r]
    [] q.stage = "answer" /\ r.type \in {"FRNXDomain", "FRNXRRset"} -> [Forget(q, "peek") EXCEPT !.stage = "SOA", !.first = r]
    [] q.stage = "answer" /\ r.type \in {"FRCname", "FRServFail"} -> [Forget(q, "done") EXCEPT !.first = r]
    [] q.stage = "NS" /\ r.type = "FRSuccess" -> [q EXCEPT !.pc = "additional", !.r = r]
    [] q.stage = "SOA" /\ r.type = "FRSuccess" -> Forget(q, "done")
    [] OTHER -> Forget(q, "panic")
Result(r) ==
  /\ azQuery' = Resulted([azQuery EXCEPT !.ver = AskedObject.ver, !.z = AskedObject.z], r)
  /\ azPanic' = (azQuery'.pc = "panic" \/ (r.type = "FRSuccess" /\ r.rrset.rdatas = {}))
  /\ UNCHANGED <<azZones, azTable, azUpdate, azSeen>>
FindEmpty ==
  /\ azQuery.pc = "empty"
  /\ azQuery.heldEmpty \/ azQuery.held \in AskedObject.cleaned
  /\ Result(Found("FRServFail", NoSet, <<>>))
FindAnswer ==
  /\ azQuery.pc = "empty"
  /\ ~azQuery.heldEmpty /\ azQuery.held \notin AskedObject.cleaned
  /\ Result(IF azQuery.stage = "answer" THEN find(AskedObject.z, azQuery.name, azQuery.type, FALSE)
            ELSE find(AskedObject.z, Origin, azQuery.stage, FALSE))

(* GetAdditional searches the version of the result, which a cleaning may  *)
(* be taking apart.                                                        *)
AskedType == IF azQuery.stage = "answer" THEN azQuery.type ELSE azQuery.stage
AdditionalOutcomes ==
  (IF azQuery.ver \in AskedObject.cleaned THEN {} ELSE {GetAdditional(azQuery.z, AskedType, azQuery.r)})
    \cup (IF azQuery.ver \in AskedObject.cleaned \cup AskedObject.pending THEN {{}} ELSE {})
WantsAuthority == azQuery.stage = "answer" /\ azQuery.r.type = "FRSuccess" /\ ~(azQuery.name = Origin /\ azQuery.type = "NS")
Additional ==
  /\ azQuery.pc = "additional"
  /\ \E a \in AdditionalOutcomes :
       azQuery' = [Forget(azQuery, IF WantsAuthority THEN "peek" ELSE "done") EXCEPT
                                  !.stage = IF WantsAuthority THEN "NS" ELSE @, !.additional = @ \cup a]
  /\ azPanic' = (azQuery.ver \notin AskedObject.cleaned /\ AdditionalPanics(azQuery.z, AskedType, azQuery.r))
  /\ UNCHANGED <<azZones, azTable, azUpdate, azSeen>>
AdditionalTornDown ==
  /\ azQuery.pc = "additional" /\ azQuery.ver \in AskedObject.pending
  /\ azPanic' = TRUE
  /\ UNCHANGED <<azZones, azTable, azQuery, azUpdate, azSeen>>
Answered ==
  /\ azQuery.pc = "done"
  /\ azQuery' = NoQuery /\ azSeen' = {}
  /\ azZones' = [azZones EXCEPT ![azQuery.obj].pending = {}, ![azQuery.obj].cleaned = {}]
  /\ UNCHANGED <<azTable, azUpdate, azPanic>>

-----------------------------------------------------------------------------
(* HandleUpdate, addAuthRrs and deleteAuthRrs run one list of operations;  *)
(* updateAuthRrs deletes the old records in a transaction of its own, but  *)
(* not SOA and CNAME sets, which the new ones replace.                     *)
Deletes(rrs) == [i \in DOMAIN rrs |-> [op |-> "delete", rr |-> rrs[i]]]
Adds(rrs) == [i \in DOMAIN rrs |-> [op |-> "add", rr |-> rrs[i]]]
updateAuthRrs(old, new) ==
  IF old # <<>> /\ Head(old).type \notin {"SOA", "CNAME"} THEN <<Deletes(old), Adds(new)>> ELSE <<Adds(new)>>
(* getUpdator: no update of a zone that has masters. *)
getUpdator(lists) == IF azTable = 0 \/ azZones[azTable].slave THEN NoUpdate ELSE [pc |-> "tx", obj |-> azTable, lists |-> lists]
StartUpdate(lists) ==
  /\ azUpdate.pc = "idle"
  /\ azUpdate' = getUpdator(lists)
  /\ UNCHANGED <<azZones, azTable, azQuery, azSeen, azPanic>>
ContinueUpdate ==
  /\ azUpdate.pc = "get"
  /\ azUpdate' = getUpdator(azUpdate.lists)
  /\ UNCHANGED <<azZones, azTable, azQuery, azSeen, azPanic>>

(* increaseSerialNumber writes to the SOA record that the copy shares with *)
(* the live version; it needs one.                                         *)
SerialPanics(z) == ~Has(z, Origin, "SOA") \/ z.data[Origin]["SOA"].rdatas = {}
increaseSerialNumber(z) == [z EXCEPT !.data[Origin]["SOA"].rdatas = {s + 1 : s \in @}]
Serialled(tx) == IF tx.soa THEN tx.z ELSE increaseSerialNumber(tx.z)
LiveSerialled(o, tx) == IF tx.soa THEN o ELSE [o EXCEPT !.z = increaseSerialNumber(@)]
Read(o) == azQuery.pc # "idle" /\ azQuery.obj = o
Committed(o, tx) ==
  IF validate(Serialled(tx)) # "nil" THEN LiveSerialled(o, tx)
  ELSE [o EXCEPT !.ver = @ + 1, !.z = Serialled(tx), !.pending = IF Read(azUpdate.obj) THEN @ \cup {o.ver} ELSE @]
Commit(tx) ==
  /\ azZones' = [azZones EXCEPT ![azUpdate.obj] = Committed(@, tx)]
  /\ azSeen' = IF Read(azUpdate.obj) THEN azSeen \cup {azZones'[azUpdate.obj].z.data} ELSE azSeen
  /\ azUpdate' = IF validate(Serialled(tx)) = "nil" /\ Len(azUpdate.lists) > 1
                 THEN [azUpdate EXCEPT !.pc = "get", !.lists = Tail(@)] ELSE NoUpdate
  /\ azPanic' = FALSE
  /\ UNCHANGED <<azTable, azQuery>>
RollBack ==
  /\ azUpdate' = NoUpdate
  /\ azPanic' = FALSE
  /\ UNCHANGED <<azZones, azTable, azQuery, azSeen>>
PanicInTx == azPanic' = TRUE /\ UNCHANGED <<azZones, azTable, azQuery, azUpdate, azSeen>>
FinishTx(tx) ==
  CASE tx.err = "panic" \/ (tx.err = "nil" /\ tx.modified /\ ~tx.soa /\ SerialPanics(tx.z)) -> PanicInTx
    [] tx.err = "nil" /\ tx.modified /\ (tx.soa \/ ~SerialPanics(tx.z)) -> Commit(tx)
    [] OTHER -> RollBack
SerialOfZone(o) == IF Has(o.z, Origin, "SOA") /\ o.z.data[Origin]["SOA"].rdatas # {} THEN SerialOf(o.z.data[Origin]["SOA"]) ELSE -1
handleDynamicRRsets ==
  /\ azUpdate.pc = "tx" /\ Changes < AzChanges /\ SerialOfZone(azZones[azUpdate.obj]) < AzSerials
  /\ FinishTx(RunOps(TxBegin(azZones[azUpdate.obj].z), Head(azUpdate.lists)))
CleanVersion(o) ==
  /\ \E v \in azZones[o].pending :
       azZones' = [azZones EXCEPT ![o].pending = @ \ {v}, ![o].cleaned = @ \cup {v}]
  /\ UNCHANGED <<azTable, azQuery, azUpdate, azSeen, azPanic>>

(* The commands.  updateAuthZone takes the zone out and puts it back in,   *)
(* loaded again when it has masters now.                                   *)
addAuthZone(c, slave) ==
  /\ azUpdate.pc = "idle" /\ Changes < AzChanges
  /\ azZones' = Append(azZones, NewDynamicZone(Load(c), slave))
  /\ azTable' = Len(azZones')
  /\ UNCHANGED <<azQuery, azUpdate, azSeen, azPanic>>
deleteAuthZone ==
  /\ azUpdate.pc = "idle" /\ azTable # 0
  /\ azTable' = 0
  /\ UNCHANGED <<azZones, azQuery, azUpdate, azSeen, azPanic>>
updateAuthZone(c, slave) ==
  /\ azUpdate.pc = "idle" /\ azTable # 0 /\ (slave => Changes < AzChanges)
  /\ azZones' = [azZones EXCEPT ![azTable].slave = slave] \o (IF slave THEN <<NewDynamicZone(Load(c), TRUE)>> ELSE <<>>)
  /\ azTable' = 0
  /\ azUpdate' = [pc |-> "insert", obj |-> IF slave THEN Len(azZones') ELSE azTable, lists |-> <<>>]
  /\ UNCHANGED <<azQuery, azSeen, azPanic>>
InsertUpdated ==
  /\ azUpdate.pc = "insert"
  /\ azTable' = azUpdate.obj
  /\ azUpdate' = NoUpdate
  /\ UNCHANGED <<azZones, azQuery, azSeen, azPanic>>
ReloadConfig(c, slave) ==
  /\ Changes < AzChanges
  /\ azZones' = Append(azZones, NewDynamicZone(Load(c), slave))
  /\ azTable' = Len(azZones')
  /\ UNCHANGED <<azQuery, azUpdate, azSeen, azPanic>>

AzNext ==
  /\ ~azPanic
  /\ \/ \E q \in AzQuestions : Ask(q)
     \/ FindPeek \/ FindEmpty \/ FindAnswer \/ Additional \/ AdditionalTornDown \/ Answered
     \/ \E ops \in AzUpdates : StartUpdate(<<ops>>)
     \/ \E u \in AzReplaces : StartUpdate(updateAuthRrs(u.old, u.new))
     \/ ContinueUpdate \/ handleDynamicRRsets \/ InsertUpdated \/ deleteAuthZone
     \/ \E o \in DOMAIN azZones : CleanVersion(o)
     \/ \E c \in AzContents, slave \in BOOLEAN : addAuthZone(c, slave) \/ updateAuthZone(c, slave) \/ ReloadConfig(c, slave)
AzSpec == AzInit /\ [][AzNext]_azVars

-----------------------------------------------------------------------------
(* fsm.Event: the destination of an event in the current state, or that    *)
(* the event is not possible there.                                        *)
IxfrTransitions == [
  init |-> [get_wrapper_soa |-> "start"],
  start |-> [get_mid_soa |-> "delete_section"],
  delete_section |-> [get_mid_soa |-> "add_section", get_none_soa |-> "delete_section"],
  add_section |-> [get_mid_soa |-> "delete_section", get_wrapper_soa |-> "done", get_none_soa |-> "add_section"],
  done |-> <<>>]
AxfrTransitions == [
  init |-> [get_wrapper_soa |-> "start"],
  start |-> [get_none_soa |-> "add_section"],
  add_section |-> [get_none_soa |-> "add_section", get_wrapper_soa |-> "done"],
  done |-> <<>>]
Event(m, table, event) ==
  IF m.err # "nil" THEN m
  ELSE IF event \in DOMAIN table[m.st] THEN [m EXCEPT !.st = table[m.st][event]]
  ELSE [m EXCEPT !.err = "InvalidEvent"]
Cancelled(m, c, err) == IF m.err = "nil" /\ c THEN [m EXCEPT !.err = err] ELSE m

(* The machine of a transfer: its state, the serial numbers it follows,    *)
(* the copy it updates and how often it raised the serial number, which    *)
(* the copy shares with the live zone.  Errors of the updates are ignored. *)
Machine(z, current, latest) == [st |-> "init", latest |-> latest, current |-> current, z |-> z, raised |-> 0, err |-> "nil"]
Updated(m, r) == IF r.err = "panic" THEN [m EXCEPT !.err = "panic"] ELSE [m EXCEPT !.z = r.z]

IxfrWrapper(m, serial) ==
  Event(IF m.st = "init" THEN [m EXCEPT !.latest = serial]
        ELSE Cancelled(m, m.st = "add_section" /\ serial # m.latest, "WrapperSOAIsNotInPair"), IxfrTransitions, "get_wrapper_soa")
IxfrMid(m, serial) ==
  IF m.st \in {"start", "add_section"}
  THEN Event(Cancelled(m, serial # m.current, "SerialNumberIsWrong"), IxfrTransitions, "get_mid_soa")
  ELSE IF m.st = "delete_section" /\ serial = m.current + 1
  THEN Event([m EXCEPT !.z = increaseSerialNumber(@), !.raised = @ + 1, !.current = @ + 1], IxfrTransitions, "get_mid_soa")
  ELSE Event(Cancelled(m, m.st = "delete_section", "SerialNumberIsWrong"), IxfrTransitions, "get_mid_soa")
IxfrOther(m, rr) ==
  Event(IF m.st = "delete_section" THEN Updated(m, deleteRRset(m.z, rr))
        ELSE IF m.st = "add_section" THEN Updated(m, addRRset(m.z, rr)) ELSE m, IxfrTransitions, "get_none_soa")

(* runIXFRFSM: the first and the last SOA record are the wrappers.         *)
Serials(item) == IF "soa" \in DOMAIN item THEN item.soa ELSE <<>>
RECURSIVE IxfrSerials(_, _, _, _)
IxfrSerials(m, serials, first, last) ==
  IF serials = <<>> \/ m.err # "nil" THEN m
  ELSE IxfrSerials(IF first \/ (last /\ Len(serials) = 1) THEN IxfrWrapper(m, Head(serials)) ELSE IxfrMid(m, Head(serials)),
                   Tail(serials), FALSE, last)
RECURSIVE IxfrFrom(_, _, _)
IxfrFrom(m, answers, i) ==
  IF i > Len(answers) \/ m.err # "nil" THEN m
  ELSE IxfrFrom(IF Serials(answers[i]) # <<>> THEN IxfrSerials(m, Serials(answers[i]), i = 1, i = Len(answers))
                ELSE IxfrOther(m, answers[i].rr), answers, i + 1)
runIXFRFSM(m, answers) == IxfrFrom(m, answers, 1)

(* runAXFRFSM: SOA sets in the middle are passed over, and every SOA set   *)
(* must have one record.                                                   *)
SoaRR(serial) == [name |-> Origin, type |-> "SOA", ttl |-> 1, rdatas |-> {serial}]
AxfrWrapper(m, serial) ==
  Event(IF m.st = "init" /\ serial = m.latest THEN Updated(m, addRRset(m.z, SoaRR(serial)))
        ELSE Cancelled(m, m.st \in {"init", "add_section"} /\ serial # m.latest, "SerialNumberIsWrong"), AxfrTransitions, "get_wrapper_soa")
AxfrOther(m, rr) ==
  Event(IF m.st \in {"start", "add_section"} THEN Updated(m, addRRset(m.z, rr)) ELSE m, AxfrTransitions, "get_none_soa")
AxfrSoa(m, serials, wrapper) ==
  IF Len(serials) # 1 THEN [m EXCEPT !.err = "SOAShouldHasOneRR"]
  ELSE IF wrapper THEN AxfrWrapper(m, Head(serials)) ELSE m
RECURSIVE AxfrFrom(_, _, _)
AxfrFrom(m, answers, i) ==
  IF i > Len(answers) \/ m.err # "nil" THEN m
  ELSE AxfrFrom(IF Serials(answers[i]) # <<>> THEN AxfrSoa(m, Serials(answers[i]), i = 1 \/ i = Len(answers))
                ELSE AxfrOther(m, answers[i].rr), answers, i + 1)
runAXFRFSM(m, answers) == AxfrFrom(m, answers, 1)

-----------------------------------------------------------------------------
(* The answers of a master: the changes since a serial number, all the     *)
(* records, the beginning of either when it does not fit in one message,   *)
(* nothing, or a message that cannot be read.                              *)
Soa(serials) == [soa |-> serials]
Records(S) == LET RECURSIVE list(_)
                  list(T) == IF T = {} THEN <<>> ELSE LET r == CHOOSE r \in T : TRUE IN <<[rr |-> r]>> \o list(T \ {r})
              IN list(S)
RECURSIVE ChangesSince(_, _)
ChangesSince(s, latest) ==
  Records(XfHistory[s] \ XfHistory[s + 1]) \o <<Soa(<<s + 1>>)>> \o Records(XfHistory[s + 1] \ XfHistory[s])
    \o (IF s + 1 = latest THEN <<>> ELSE <<Soa(<<s + 1>>)>> \o ChangesSince(s + 1, latest))
RECURSIVE Joined(_)
Joined(a) ==
  IF Len(a) < 2 THEN a
  ELSE IF Serials(a[1]) # <<>> /\ Serials(a[2]) # <<>> THEN Joined(<<Soa(a[1].soa \o a[2].soa)>> \o SubSeq(a, 3, Len(a)))
  ELSE <<a[1]>> \o Joined(Tail(a))
IxfrAnswer(current, latest) == Joined(<<Soa(<<latest, current>>)>> \o ChangesSince(current, latest) \o <<Soa(<<latest>>)>>)
AxfrAnswer(latest) == Joined(<<Soa(<<latest>>)>> \o Records(XfHistory[latest]) \o <<Soa(<<latest>>)>>)
Beginnings(a) == {SubSeq(a, 1, n) : n \in {Len(a) \div 2, Len(a)}}
MasterAnswers(job) ==
  {<<>>} \cup Beginnings(AxfrAnswer(xfSerial))
    \cup (IF job.type = "IXFR" /\ job.current < xfSerial THEN Beginnings(IxfrAnswer(job.current, xfSerial)) ELSE {})

-----------------------------------------------------------------------------
NoJob == [pc |-> "idle"]
XfInit == xfFlight = FALSE /\ xfJob = NoJob /\ xfSerial = 1

(* The master changes its zone; XfHistory bounds how often. *)
MasterChanges ==
  /\ xfSerial < Len(XfHistory)
  /\ xfSerial' = xfSerial + 1
  /\ UNCHANGED <<azVars, xfFlight, xfJob>>

(* HandleNotify: a zone is put in inFlightIXFR before it is known whether  *)
(* there is anything to transfer, and is taken out by the transfer only.   *)
HandleNotify(known) ==
  /\ azTable # 0
  /\ IF xfFlight THEN UNCHANGED <<xfFlight, xfJob>>
     ELSE /\ xfFlight' = TRUE
          /\ xfJob' = IF azZones[azTable].slave /\ known THEN [pc |-> "find", obj |-> azTable, latest |-> xfSerial] ELSE xfJob
  /\ UNCHANGED <<azVars, xfSerial>>
EndJob == xfJob' = NoJob /\ xfFlight' = FALSE

(* doXFR: the serial number of the zone, or none when it is empty, decides *)
(* what is asked for.                                                      *)
JobZone == azZones[xfJob.obj]
JobRequest(type) == [pc |-> "fetch", obj |-> xfJob.obj, latest |-> xfJob.latest, type |-> type,
                     current |-> IF type = "IXFR" THEN SerialOfZone(JobZone) ELSE 0]
doXFR ==
  /\ xfJob.pc = "find"
  /\ IF isEmpty(JobZone.z) THEN xfJob' = JobRequest("AXFR") /\ UNCHANGED xfFlight
     ELSE IF SerialOfZone(JobZone) >= xfJob.latest THEN EndJob
     ELSE xfJob' = JobRequest("IXFR") /\ UNCHANGED xfFlight
  /\ UNCHANGED <<azVars, xfSerial>>
FetchFails == xfJob.pc = "fetch" /\ EndJob /\ UNCHANGED <<azVars, xfSerial>>
FetchUnreadable ==
  /\ xfJob.pc = "fetch"
  /\ azPanic' = TRUE
  /\ UNCHANGED <<azZones, azTable, azQuery, azUpdate, azSeen, xfVars>>
FetchAnswer ==
  /\ xfJob.pc = "fetch"
  /\ \E a \in MasterAnswers(xfJob) : xfJob' = [xfJob EXCEPT !.pc = "update"] @@ [answers |-> a]
  /\ UNCHANGED <<azVars, xfFlight, xfSerial>>

(* updateZoneUseXFR: one transaction; an IXFR that fails is tried again as *)
(* AXFR with the same answer.                                              *)
RECURSIVE Raised(_, _)
Raised(o, n) == IF n = 0 THEN o ELSE Raised([o EXCEPT !.z = increaseSerialNumber(@)], n - 1)
Transferred(m) ==
  IF m.err = "nil" /\ validate(m.z) = "nil" THEN [JobZone EXCEPT !.ver = @ + 1, !.z = m.z] ELSE Raised(JobZone, m.raised)
FinishTransfer(m) ==
  /\ azPanic' = (m.err = "panic")
  /\ azZones' = [azZones EXCEPT ![xfJob.obj] = Transferred(m)]
  /\ IF m.err # "nil" /\ xfJob.type = "IXFR" THEN xfJob' = [xfJob EXCEPT !.type = "AXFR"] /\ UNCHANGED xfFlight ELSE EndJob
  /\ UNCHANGED <<azTable, azQuery, azUpdate, azSeen, xfSerial>>
updateZoneUseXFR ==
  /\ xfJob.pc = "update" /\ Changes < AzChanges
  /\ FinishTransfer(IF xfJob.type = "IXFR" THEN runIXFRFSM(Machine(JobZone.z, xfJob.current, xfJob.latest), xfJob.answers)
                    ELSE runAXFRFSM(Machine(JobZone.z, xfJob.current, xfJob.latest), xfJob.answers))

XfNext ==
  /\ ~azPanic
  /\ \/ MasterChanges \/ doXFR \/ FetchFails \/ FetchUnreadable \/ FetchAnswer \/ updateZoneUseXFR
     \/ \E known \in BOOLEAN : HandleNotify(known)
     \/ InsertUpdated /\ UNCHANGED xfVars
     \/ \E c \in AzContents, slave \in BOOLEAN : updateAuthZone(c, slave) /\ UNCHANGED xfVars
XfSpec == AzInit /\ XfInit /\ [][XfNext]_<<azVars, xfVars>>

-----------------------------------------------------------------------------
(* What the records d of a zone say about a name and a type: the topmost   *)
(* delegation at or above it, its own records, that names exist below it,  *)
(* or the records of a wildcard.  The wildcard is the one at the closest   *)
(* name above that exists; the tree may pass over names that exist only    *)
(* because others are below them.                                          *)
CutsIn(d, n) == {c \in (Above(n) \cup {n}) \ {Origin} : c \in DOMAIN d /\ "NS" \in DOMAIN d[c]}
Exists(d, n) == \E m \in DOMAIN d : m = n \/ IsUnder(m, n)
Enclosers(d, n) == {a \in Above(n) : Exists(d, a) /\ \A b \in Above(n) : IsUnder(b, a) => b \notin DOMAIN d}
Says(r) == [type |-> r.type, rrset |-> r.rrset]
Expected(d, n, t) ==
  IF ~InZone(n) THEN {Says(Found("FRNXDomain", NoSet, <<>>))}
  ELSE IF CutsIn(d, n) # {} THEN {Says(Found("FRDelegation", d[Shortest(CutsIn(d, n))]["NS"], <<>>))}
  ELSE IF n \in DOMAIN d THEN {Says(InRecords(d[n], t, <<>>))}
  ELSE IF Exists(d, n) THEN {Says(Found("FRNXRRset", NoSet, <<>>))}
  ELSE {Says(IF <<Star>> \o a \in DOMAIN d THEN InRecords(d[<<Star>> \o a], t, <<>>) ELSE Found("FRNXDomain", NoSet, <<>>))
          : a \in Enclosers(d, n)}
AddressesIn(d) == UNION {{d[n][t] : t \in DOMAIN d[n] \cap {"A", "AAAA"}} : n \in DOMAIN d}

(* A question that Process does not give up on is answered from one        *)
(* version the zone had while it was asked, as that version's records say, *)
(* whatever updates, flags of the tree and wildcard marks came before; the *)
(* addresses it adds were in such a version too (memoryzone.go find,       *)
(* dynamiczone.go Find and GetAdditional).                                 *)
AzAnswered ==
  azQuery.pc # "idle" /\ ~azPanic =>
    /\ azQuery.first.type \notin {"none", "FRServFail"} =>
         \E d \in azSeen : Says(azQuery.first) \in Expected(d, azQuery.name, azQuery.type)
    /\ azQuery.additional \subseteq UNION {AddressesIn(d) : d \in azSeen}

(* The serial number a zone object shows never goes back, through updates  *)
(* that are committed, refused or rolled back, and through SOA records     *)
(* that clients send (addRRset, increaseSerialNumber).                     *)
AzSerialGrows == \A o \in DOMAIN azZones : SerialOfZone(azZones'[o]) >= SerialOfZone(azZones[o])
=============================================================================
