----------------------------- MODULE RestStore ------------------------------
(***************************************************************************)
(* The resource store of gorest: Go structures become tables, their tags   *)
(* become constraints, and a transaction of the replicated store runs      *)
(* every write on a master and then on a slave PostgreSQL database.        *)
(* A structure is a name and a sequence of fields [name, type, tags]; an   *)
(* id is a number, 0 the empty one; the database is external.              *)
(***************************************************************************)
EXTENDS Naturals, Sequences, FiniteSets, FiniteSetsExt, SequencesExt, TLC

CONSTANTS
    RsStructs,      \* the structures registered, in order
    RsRows,         \* type -> id -> row, the content at the start
    RsStatements,   \* the calls a client can make in a transaction
    RsClients,
    RsSteps,        \* bound: calls of one transaction
    RsTxs,          \* bound: transactions
    RsFaults        \* bound: connections lost

VARIABLES
    rsMeta,         \* type -> descriptor, of the structures registered
    rsDb,           \* store -> type -> id -> row, committed
    rsTx,           \* client -> its transaction
    rsLeft,         \* [txs, faults, ids, clock]
    rsExcused       \* one of the ways the copies may part was met

rsVars == <<rsMeta, rsDb, rsTx, rsLeft, rsExcused>>

RsStores == {"master", "slave"}

(****************************** The schema *********************************)

SmallInt == {"int8", "int16", "uint8", "uint16", "int32"}
BigInt == {"int", "uint32", "int64"}
SuperInt == {"uint", "uint64"}

(* A type is [kind, of]: `of' is the element of a slice or a type's name.  *)
Scalar(k) ==
    CASE k \in SmallInt -> "integer"
      [] k \in BigInt -> "bigint"
      [] k \in SuperInt -> "numeric"
      [] k = "float32" -> "float4"
      [] k = "string" -> "text"
      [] OTHER -> "unsupported"

parseField(t) ==
    CASE t.kind = "bool" -> "boolean"
      [] t.kind = "struct" -> IF t.of = "time.Time" THEN "timestamp" ELSE IF t.of = "net.IPNet" THEN "inet" ELSE "unsupported"
      [] t.kind = "net.IP" -> "cidr"
      [] t.kind = "slice" -> CASE t.of = "net.IP" -> "cidr[]"
                               [] t.of = "net.IPNet" -> "inet[]"
                               [] Scalar(t.of) = "unsupported" -> "unsupported"
                               [] OTHER -> "array of " \o Scalar(t.of)
      [] OTHER -> Scalar(t.kind)

Names(s, test(_)) == LET kept == SelectSeq(s, test) IN [i \in 1 .. Len(kept) |-> kept[i].name]
tagContains(f, tag) == tag \in f.tags

(* A field that is neither an owner nor a reference and whose type has no  *)
(* column is left out with a warning.                                      *)
IsOwner(f) == tagContains(f, "ownby")
IsRefer(f) == ~IsOwner(f) /\ tagContains(f, "referto")
IsColumn(f) == ~IsOwner(f) /\ ~IsRefer(f) /\ parseField(f.type) # "unsupported"

Describe(st, fs) ==
    [typ |-> st.name,
     fields |-> <<"id", "create_time">> \o Names(fs, IsColumn),
     unique |-> ToSet(Names(fs, LAMBDA f : IsColumn(f) /\ tagContains(f, "suk"))),
     positive |-> ToSet(Names(fs, LAMBDA f : IsColumn(f) /\ tagContains(f, "positive"))),
     owners |-> ToSet(Names(fs, IsOwner)), refers |-> ToSet(Names(fs, IsRefer)),
     pks |-> {"id"} \union ToSet(Names(fs, LAMBDA f : tagContains(f, "pk"))),
     uks |-> ToSet(Names(fs, LAMBDA f : ~tagContains(f, "pk") /\ tagContains(f, "uk")))]

genDescriptor(st) ==
    LET fs == SelectSeq(st.fields, LAMBDA f : ~tagContains(f, "-") \/ f.name \in {"id", "create_time"})
    IN IF \E i \in 1 .. Len(fs) : fs[i].name \in {"id", "create_time"}
       THEN {} ELSE {Describe(st, fs)}

Register(meta, st) ==
    LET ds == genDescriptor(st)
        known(d) == d.owners \union d.refers \subseteq DOMAIN meta
    IN IF st.name \in DOMAIN meta \/ ds = {} \/ \E d \in ds : ~known(d)
       THEN meta ELSE [t \in DOMAIN meta \union {st.name} |-> IF t = st.name THEN CHOOSE d \in ds : TRUE ELSE meta[t]]

NewResourceMeta == FoldLeft(Register, <<>>, RsStructs)
Has(t) == t \in DOMAIN rsMeta
GetDescriptor(t) == rsMeta[t]

(* createTableSql: the columns of the table, and what it refuses.          *)
createTableSql(d) == ToSet(d.fields) \union d.owners \union d.refers

(**************************** The database *********************************)

Columns(t) == createTableSql(GetDescriptor(t))

(* The committed rows with the transaction's own writes over them.         *)
View(st, tx) ==
    [t \in DOMAIN rsDb[st] |->
        LET own == {w \in DOMAIN tx.writes[st] : w[1] = t}
            gone == {w[2] : w \in {x \in own : tx.writes[st][x] = <<>>}}
            kept == (DOMAIN rsDb[st][t] \union {w[2] : w \in own}) \ gone
        IN [i \in kept |-> IF <<t, i>> \in own THEN tx.writes[st][<<t, i>>][1] ELSE rsDb[st][t][i]]]

Same(a, b, cols) == cols # {} /\ \A c \in cols : a[c] = b[c]

(* What the table's constraints say of a row, written under its id.        *)
Fits(rows, t, i, row) ==
    LET d == GetDescriptor(t)
    IN /\ \A o \in d.owners \union d.refers : row[o] \in DOMAIN rows[o]
       /\ \A p \in d.positive : row[p] > 0
       /\ \A j \in DOMAIN rows[t] \ {i} :
            /\ \A u \in d.unique : rows[t][j][u] # row[u]
            /\ ~Same(rows[t][j], row, d.pks) /\ ~Same(rows[t][j], row, d.uks)

Fields(t) == ToSet(GetDescriptor(t).fields)

(* The rows that go with a set of rows: theirs by ownership, transitively. *)
Owned(rows, set) ==
    set \union UNION {{<<t, i>> : i \in {j \in DOMAIN rows[t] : \E o \in GetDescriptor(t).owners : <<o, rows[t][j][o]>> \in set}} :
                        t \in DOMAIN rows}
Cascade(rows, set) == Owned(rows, Owned(rows, Owned(rows, set)))

Referred(rows, set) ==
    \E t \in DOMAIN rows : \E i \in DOMAIN rows[t] : \E r \in GetDescriptor(t).refers :
        <<r, rows[t][i][r]>> \in set /\ <<t, i>> \notin set

(* A row another open transaction has written, or leans on, is locked.     *)
Leans(t, row) == {<<o, row[o]>> : o \in GetDescriptor(t).owners \union GetDescriptor(t).refers}
Written(st, c) == UNION {DOMAIN rsTx[x].writes[st] : x \in RsClients \ {c}}
Leaned(st, c) ==
    UNION {UNION {Leans(w[1], rsTx[x].writes[st][w][1]) : w \in {y \in DOMAIN rsTx[x].writes[st] : rsTx[x].writes[st][y] # <<>>}} :
            x \in RsClients \ {c}}
Locked(st, c, rows) == \E w \in DOMAIN rows :
    \/ w \in Written(st, c) \union Leaned(st, c)
    \/ rows[w] # <<>> /\ Leans(w[1], rows[w][1]) \cap Written(st, c) # {}

(****************************** Statements *********************************)

(* A call's conditions: column -> value, beside the keys that say how the  *)
(* others are meant.  A text is a sequence of letters.                     *)
Reserved == {"search", "match_list", "orderby", "limit", "offset"}
Like(text, part) == \E i \in 0 .. Len(text) - Len(part) : SubSeq(text, i + 1, i + Len(part)) = part

getSqlWhereState(conds, keys, row) ==
    \A k \in keys :
        IF "search" \in DOMAIN conds /\ k \in conds["search"] THEN Like(row[k], conds[k])
        ELSE IF "match_list" \in DOMAIN conds /\ k \in conds["match_list"] THEN row[k] \in conds[k]
        ELSE row[k] = conds[k]

(* What each kind of call takes out of its conditions; a key that is left  *)
(* and is no column makes the statement fail.                              *)
Paged(conds) == {"limit", "offset"} \subseteq DOMAIN conds
selectKeys(conds) == DOMAIN conds \ ({"search", "match_list", "orderby"} \union IF Paged(conds) THEN {"limit", "offset"} ELSE {})
countKeys(conds) == DOMAIN conds \ {"search", "match_list"}

Matching(rows, t, conds, keys) == {i \in DOMAIN rows[t] : getSqlWhereState(conds, keys, rows[t][i])}
Exactly(rows, t, conds) == {i \in DOMAIN rows[t] : \A k \in DOMAIN conds : rows[t][i][k] = conds[k]}

selectSqlAndArgs(rows, q) ==
    LET found == Matching(rows, q.typ, q.conds, selectKeys(q.conds))
        before(i, j) == IF "orderby" \in DOMAIN q.conds /\ rows[q.typ][i][q.conds["orderby"]] # rows[q.typ][j][q.conds["orderby"]]
                        THEN rows[q.typ][i][q.conds["orderby"]] < rows[q.typ][j][q.conds["orderby"]] ELSE i < j
        all == SetToSortSeq(found, before)
    IN IF Paged(q.conds) THEN SubSeq(all, q.conds["offset"] + 1, Min({q.conds["offset"] + q.conds["limit"], Len(all)})) ELSE all

(* The rows of the owned table the relation's table joins to the owner.    *)
joinSelectSqlAndArgs(rows, q) ==
    {i \in DOMAIN rows[q.typ] : \E r \in DOMAIN rows[q.rel] : rows[q.rel][r][q.typ] = i /\ rows[q.rel][r][q.owner] = q.id}

existsSqlAndArgs(rows, q) == Exactly(rows, q.typ, q.conds) # {}
countSqlAndArgs(rows, q) == Cardinality(Matching(rows, q.typ, q.conds, countKeys(q.conds)))

(* The conditions a statement leaves to SQL name columns of the table.     *)
Sound(q) ==
    LET cols == Columns(q.typ)
    IN CASE q.op = "get" -> selectKeys(q.conds) \subseteq cols
         [] q.op = "count" -> countKeys(q.conds) \subseteq cols
         [] q.op \in {"exists", "delete"} -> DOMAIN q.conds \subseteq cols
         [] q.op = "update" -> DOMAIN q.conds \subseteq cols /\ DOMAIN q.conds # {} /\ DOMAIN q.set \subseteq cols
         [] OTHER -> TRUE

(* The types a call names must be registered.                              *)
Known(q) == Has(q.typ) /\ (q.op = "owned" => Has(q.rel))

(* A write: what it does to rows, <<>> for a deletion; {} when refused.    *)
insertSqlArgsAndID(rows, q) ==
    IF q.id \notin DOMAIN rows[q.typ] /\ Fits(rows, q.typ, q.id, q.row) THEN {<<q.typ, q.id>> :> <<q.row>>} ELSE {}

updateSqlAndArgs(rows, q) ==
    LET hit == Exactly(rows, q.typ, q.conds)
        new(i) == [c \in DOMAIN rows[q.typ][i] |-> IF c \in DOMAIN q.set THEN q.set[c] ELSE rows[q.typ][i][c]]
        after == [rows EXCEPT ![q.typ] = [i \in DOMAIN @ |-> IF i \in hit THEN new(i) ELSE @[i]]]
    IN IF \A i \in hit : Fits(after, q.typ, i, new(i)) THEN {[w \in {<<q.typ, i>> : i \in hit} |-> <<new(w[2])>>]} ELSE {}

deleteSqlAndArgs(rows, q) ==
    LET hit == Cascade(rows, {<<q.typ, i>> : i \in Exactly(rows, q.typ, q.conds)})
    IN IF Referred(rows, hit) THEN {} ELSE {[w \in hit |-> <<>>]}

Effects(rows, q) ==
    CASE q.op = "insert" -> insertSqlArgsAndID(rows, q)
      [] q.op = "update" -> updateSqlAndArgs(rows, q)
      [] q.op = "delete" -> deleteSqlAndArgs(rows, q)
      [] OTHER -> {<<>>}

Result(rows, q) ==
    CASE q.op = "get" -> selectSqlAndArgs(rows, q)
      [] q.op = "owned" -> joinSelectSqlAndArgs(rows, q)
      [] q.op = "exists" -> existsSqlAndArgs(rows, q)
      [] q.op = "count" -> countSqlAndArgs(rows, q)
      [] OTHER -> <<>>

(***************************** Transactions ********************************)

(* `ahead' holds the transactions whose commit the master had made and the *)
(* slave had not when this one's write ran on the master; `crossed' says   *)
(* that one of them was still at it when the write came to the slave, or   *)
(* that another made both of its commits meanwhile.                        *)
RsIdle == [at |-> "idle", q |-> <<>>, bad |-> {}, calls |-> 0, took |-> FALSE,
           writes |-> [st \in RsStores |-> <<>>], seen |-> <<>>, ahead |-> {}, crossed |-> FALSE]

(* NewReplicateStore: both databases have the tables of the types.         *)
RsInit ==
    /\ rsMeta = NewResourceMeta
    /\ rsDb = [st \in RsStores |-> [t \in DOMAIN rsMeta |-> RsRows[t]]]
    /\ rsTx = [c \in RsClients |-> RsIdle]
    /\ rsLeft = [txs |-> RsTxs, faults |-> RsFaults, ids |-> 0, clock |-> 0]
    /\ rsExcused = FALSE

SetTx(c, tx) == rsTx' = [rsTx EXCEPT ![c] = tx]
Excuse(b) == rsExcused' = (rsExcused \/ b)

(* ReplicateStore.Begin; a slave that cannot begin rolls the master back.  *)
Begin(c) ==
    /\ rsTx[c].at = "idle" /\ rsLeft.txs > 0
    /\ rsLeft' = [rsLeft EXCEPT !.txs = @ - 1]
    /\ SetTx(c, [RsIdle EXCEPT !.at = "open"])
    /\ UNCHANGED <<rsDb, rsExcused>>

BeginFails(c) ==
    /\ rsTx[c].at = "idle" /\ rsLeft.txs > 0 /\ rsLeft.faults > 0
    /\ rsLeft' = [rsLeft EXCEPT !.txs = @ - 1, !.faults = @ - 1]
    /\ UNCHANGED <<rsDb, rsTx, rsExcused>>

(* The calls of RStoreTx on one store: one waits for locked rows, and      *)
(* whatever PostgreSQL refuses leaves the transaction unable to do more.   *)
Failing(tx, st) == [tx EXCEPT !.at = "open", !.q = <<>>, !.bad = @ \union {st}]
Returns(tx) == [tx EXCEPT !.at = "open", !.q = <<>>]

(* RStoreTx.Insert puts the time of the call on the resource, on the       *)
(* master and again on the slave, at the same moment of the clock or later.*)
SetCreationTimestamp(q, now) == IF q.op = "insert" THEN [q EXCEPT !.row = [create_time |-> now] @@ @] ELSE q

Moments(st, q) ==
    CASE q.op # "insert" -> {rsLeft.clock}
      [] st = "master" -> {rsLeft.clock + 1}
      [] OTHER -> {rsLeft.clock, rsLeft.clock + 1}

Waits(c, st) == \E ws \in Effects(View(st, rsTx[c]), SetCreationTimestamp(rsTx[c].q, rsLeft.clock)) : Locked(st, c, ws)

Runs(c, st, after(_, _)) ==
    \E now \in Moments(st, rsTx[c].q) :
        LET tx == rsTx[c]
            q == SetCreationTimestamp(tx.q, now)
        IN /\ rsLeft' = [rsLeft EXCEPT !.clock = now]
           /\ IF st \in tx.bad \/ ~Sound(q) \/ Effects(View(st, tx), q) = {} THEN SetTx(c, Failing(tx, st))
              ELSE \E ws \in Effects(View(st, tx), q) :
                    /\ ~Locked(st, c, ws)
                    /\ SetTx(c, after([tx EXCEPT !.writes[st] = ws @@ @, !.seen = Result(View(st, tx), q)], ws))

(* A call of the transaction.  The types it names must be registered.      *)
Call(c, q) ==
    /\ rsTx[c].at = "open" /\ rsTx[c].calls < RsSteps
    /\ SetTx(c, IF Known(q) THEN [rsTx[c] EXCEPT !.at = "master", !.q = q, !.seen = <<>>, !.calls = @ + 1]
                ELSE [rsTx[c] EXCEPT !.calls = @ + 1])
    /\ UNCHANGED <<rsDb, rsLeft, rsExcused>>

(* A resource without an id is given one.                                  *)
Generated(q, n) == [q EXCEPT !.id = n, !.row.id = n]
NeedsId(q) == q.op = "insert" /\ q.id = 0

WithId(c) ==
    /\ rsTx[c].at = "master" /\ NeedsId(rsTx[c].q)
    /\ rsLeft' = [rsLeft EXCEPT !.ids = @ + 1]
    /\ SetTx(c, [rsTx[c] EXCEPT !.q = Generated(@, 9 + rsLeft.ids)])
    /\ UNCHANGED <<rsDb, rsExcused>>

(* Variant: the slave is given the rows that a deletion names only when    *)
(* there is a single one.                                                  *)
ToSlaveSingle(tx, ws) == IF Cardinality(DOMAIN ws) # 1 THEN Returns(tx) ELSE [tx EXCEPT !.at = "slave"]

(* What the master answers decides: a write that changed rows goes to the  *)
(* slave as well, with the id the master's Insert left in the resource.    *)
ToSlave(tx, ws) == IF DOMAIN ws = {} THEN Returns(tx) ELSE [tx EXCEPT !.at = "slave"]

Committing(c) == {x \in RsClients \ {c} : rsTx[x].at = "commit"}
ByTime(q) == q.op \in {"update", "delete"} /\ "create_time" \in DOMAIN q.conds

OnMaster(c) ==
    /\ rsTx[c].at = "master" /\ ~NeedsId(rsTx[c].q)
    /\ Runs(c, "master", LAMBDA tx, ws : ToSlave([tx EXCEPT !.ahead = Committing(c), !.crossed = FALSE], ws))
    /\ Excuse(ByTime(rsTx[c].q)) /\ UNCHANGED rsDb

OnSlave(c) ==
    /\ rsTx[c].at = "slave"
    /\ Runs(c, "slave", LAMBDA tx, ws : [Returns(tx) EXCEPT !.ahead = {}, !.crossed = FALSE])
    /\ Excuse(rsTx[c].crossed \/ rsTx[c].ahead # {}) /\ UNCHANGED rsDb

(* PostgreSQL ends one of two transactions that wait for each other.       *)
Deadlock(c) ==
    /\ rsTx[c].at \in RsStores /\ ~NeedsId(rsTx[c].q) /\ Waits(c, rsTx[c].at)
    /\ \E x \in RsClients \ {c} : rsTx[x].at \in RsStores /\ ~NeedsId(rsTx[x].q) /\ Waits(x, rsTx[x].at)
    /\ SetTx(c, Failing(rsTx[c], rsTx[c].at))
    /\ UNCHANGED <<rsDb, rsLeft, rsExcused>>

(* The connection to one database is lost, and its transaction with it.    *)
Lose(c, st) ==
    /\ rsTx[c].at # "idle" /\ rsLeft.faults > 0
    /\ rsLeft' = [rsLeft EXCEPT !.faults = @ - 1]
    /\ SetTx(c, [rsTx[c] EXCEPT !.bad = @ \union {st}, !.writes[st] = <<>>])
    /\ UNCHANGED <<rsDb, rsExcused>>

(* WithTx: an error of its function rolls both back.  The function may     *)
(* return one of its own, and a function that hides the error of a call    *)
(* has the transaction committed nevertheless.                             *)
Rollback(c) ==
    /\ rsTx[c].at = "open"
    /\ SetTx(c, RsIdle) /\ UNCHANGED <<rsDb, rsLeft, rsExcused>>

(* The commit of a transaction an error has ended rolls it back.           *)
Committed(c, st) ==
    IF st \in rsTx[c].bad THEN rsDb ELSE [rsDb EXCEPT ![st] = View(st, rsTx[c])]

CommitMaster(c) ==
    /\ rsTx[c].at = "open"
    /\ rsDb' = Committed(c, "master")
    /\ SetTx(c, [rsTx[c] EXCEPT !.at = "commit", !.writes["master"] = <<>>, !.seen = <<>>, !.took = "master" \notin rsTx[c].bad])
    /\ UNCHANGED <<rsLeft, rsExcused>>

(* Commit goes on to the slave whatever the master said, and WithTx drops  *)
(* the error it returns.                                                   *)
Passed(tx, c) ==
    IF tx.at # "slave" THEN tx
    ELSE [tx EXCEPT !.ahead = @ \ {c}, !.crossed = @ \/ c \notin tx.ahead]

CommitSlave(c) ==
    /\ rsTx[c].at = "commit"
    /\ rsDb' = Committed(c, "slave")
    /\ rsTx' = [x \in RsClients |-> IF x = c THEN RsIdle ELSE Passed(rsTx[x], c)]
    /\ Excuse(rsTx[c].took # ("slave" \notin rsTx[c].bad))
    /\ UNCHANGED rsLeft

RsStep(c) ==
    \/ Begin(c) \/ BeginFails(c) \/ WithId(c) \/ OnMaster(c) \/ OnSlave(c) \/ Deadlock(c)
    \/ Rollback(c) \/ CommitMaster(c) \/ CommitSlave(c)
    \/ \E q \in RsStatements : Call(c, q)
    \/ \E st \in RsStores : Lose(c, st)

RsNext == (\E c \in RsClients : RsStep(c)) /\ UNCHANGED rsMeta

RsSpec == RsInit /\ [][RsNext]_rsVars

(******************************* Properties ********************************)

Resource(row) == [c \in DOMAIN row \ {"create_time"} |-> row[c]]

Copies(master, slave) ==
    \A t \in DOMAIN master :
        /\ DOMAIN master[t] = DOMAIN slave[t]
        /\ \A i \in DOMAIN master[t] :
            /\ Resource(master[t][i]) = Resource(slave[t][i])
            /\ master[t][i].create_time <= slave[t][i].create_time

(* Between transactions the two databases hold the same resources, and no  *)
(* resource is younger on the master than on the slave: ReplicateTx sends  *)
(* a write to the slave only after the master took it, with its id, and    *)
(* commits or rolls back both.  They differ in the creation time, which    *)
(* each Insert takes for itself, and they part for good in three ways      *)
(* only: exactly one of the two commits of a transaction failed (WithTx    *)
(* drops that error); a write ran on the master and on the slave on        *)
(* different sides of another transaction's commit; an update or a         *)
(* deletion picked its rows by their creation time.                        *)
RsReplicasAgree ==
    (~rsExcused /\ \A c \in RsClients : rsTx[c].at = "idle") => Copies(rsDb["master"], rsDb["slave"])
====
