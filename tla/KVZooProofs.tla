----------------------------- MODULE KVZooProofs ----------------------------
(***************************************************************************)
(* Proofs about the replicated database of KVZoo, for any number of nodes, *)
(* clients, tables and keys.  First types, transaction ids and their       *)
(* owners, whatever fails and whatever clients do.  Then the agreement of  *)
(* the nodes while no call fails and no table is deleted: an invariant,    *)
(* the steps up to the point where a client has its transaction, and the   *)
(* steps of a transaction.                                                 *)
(***************************************************************************)
EXTENDS KVZoo, TLAPS

(* A leaf is for Zenon unless it cites another prover. *)
USE ZenonT(40)

-----------------------------------------------------------------------------
(***************************************************************************)
(* Types, transaction ids and their owners.                                *)
(***************************************************************************)

Calling == {"create", "delete", "begin", "write", "commit", "rollback"}

OpName == Calling \cup {"idle", "open"}

Cli == [op : OpName, at : 0 .. N, wait : BOOLEAN,
        table : Table \cup {None}, ids : [Node -> Int], write : Write \cup {None}]

TypeOK ==
  /\ data \in [Node -> Content]
  /\ openedTables \in [Node -> SUBSET Table]
  /\ tx \in [Node -> Tx \cup {None}]
  /\ nextTxId \in [Node -> Nat]
  /\ tables \in SUBSET Table
  /\ cli \in [Client -> Cli]

(* What an operation knows: its node, its table, its write. *)
RecOK(r, T) ==
  /\ r \in Cli
  /\ IF r.op \in Calling THEN r.at \in Node ELSE r.at = 0
  /\ r.op \in {"create", "delete"} => r.table \in Table
  /\ r.op \in {"begin", "open", "write", "commit", "rollback"} => r.table \in T
  /\ r.op = "write" => r.write \in Write
  /\ r.wait => r.op \in {"create", "delete", "begin"}

CallOK == \A c \in Client : RecOK(cli[c], tables)

(* An id is never given twice, so that a client finds no transaction of    *)
(* another one.                                                            *)
IdsOK ==
  \A n \in Node :
    /\ tx[n] # None => /\ tx[n].id \in 1 .. nextTxId[n]
                       /\ tx[n].content[tx[n].table] \in Bucket
    /\ \A c \in Client : /\ cli[c].ids[n] <= nextTxId[n]
                         /\ Finds(c, n) => tx[n].owner = c

OwnerInv == TypeOK /\ CallOK /\ IdsOK

(* There is at least one node. *)
LEMMA NNat == N \in Nat /\ N >= 1
BY KVAssumption, SMTT(40)

(* The states of an operation, among them the ones that call nodes. *)
LEMMA OpNames ==
  /\ Calling \subseteq OpName /\ "idle" \in OpName /\ "open" \in OpName
  /\ "create" \in OpName /\ "delete" \in OpName /\ "begin" \in OpName
  /\ "write" \in OpName /\ "commit" \in OpName /\ "rollback" \in OpName
BY DEF OpName, Calling

(* The record of a client that has no transaction. *)
LEMMA IdleIs ==
  /\ Idle.op = "idle" /\ Idle.at = 0 /\ Idle.wait = FALSE /\ Idle.table = None
  /\ Idle.ids = [n \in Node |-> InvalidTxID] /\ Idle.write = None
  /\ Idle \in Cli
  /\ \A T : RecOK(Idle, T)
<1>1. /\ Idle.op = "idle" /\ Idle.at = 0 /\ Idle.wait = FALSE /\ Idle.table = None
      /\ Idle.ids = [n \in Node |-> InvalidTxID] /\ Idle.write = None
  BY DEF Idle
<1>2. Idle.ids \in [Node -> Int]
  BY <1>1, SMTT(40) DEF InvalidTxID
<1>3. Idle \in Cli
  BY <1>2, NNat, OpNames, SMTT(40) DEF Idle, Cli, InvalidTxID
<1> QED
  BY <1>1, <1>3 DEF RecOK, Calling

(* The record of a client whose operation has ended, field by field. *)
LEMMA ToOpen ==
  ASSUME NEW r \in Cli
  PROVE  LET q == [r EXCEPT !.op = "open", !.at = 0]
         IN  /\ q \in Cli /\ q.op = "open" /\ q.at = 0
             /\ q.wait = r.wait /\ q.table = r.table /\ q.ids = r.ids /\ q.write = r.write
<1>1. "open" \in OpName /\ 0 \in 0 .. N
  BY OpNames, NNat, SMTT(40)
<1> QED
  BY <1>1 DEF Cli

(* The record of a client that rolls back, field by field. *)
LEMMA ToRollback ==
  ASSUME NEW r \in Cli
  PROVE  LET q == [r EXCEPT !.op = "rollback", !.at = 1]
         IN  /\ q \in Cli /\ q.op = "rollback" /\ q.at = 1
             /\ q.wait = r.wait /\ q.table = r.table /\ q.ids = r.ids /\ q.write = r.write
<1>1. "rollback" \in OpName /\ 1 \in 0 .. N
  BY OpNames, NNat, SMTT(40)
<1> QED
  BY <1>1 DEF Cli

(* What a client is in after a call. *)
LEMMA RepliedIs ==
  ASSUME NEW r \in Cli, r.at \in Node, r.op \in Calling
  PROVE  /\ Replied(r) \in Cli
         /\ r.at < N => /\ Replied(r).op = r.op /\ Replied(r).at = r.at + 1
         /\ r.at < N \/ r.op \in {"begin", "write", "commit"} =>
              /\ Replied(r).wait = FALSE /\ Replied(r).table = r.table
              /\ Replied(r).ids = r.ids /\ Replied(r).write = r.write
         /\ r.at = N =>
              /\ r.op \in {"begin", "write"} => Replied(r).op = "open" /\ Replied(r).at = 0
              /\ r.op = "commit" => Replied(r).op = "rollback" /\ Replied(r).at = 1
              /\ r.op \in {"create", "delete", "rollback"} => Replied(r) = Idle
<1> USE NNat DEF Node
<1>1. CASE r.at < N
  <2>1. Replied(r) = [r EXCEPT !.at = r.at + 1, !.wait = FALSE]
    BY <1>1 DEF Replied
  <2>2. r.at + 1 \in 0 .. N
    BY <1>1, SMTT(40)
  <2>3. Replied(r) \in Cli
    BY <2>1, <2>2 DEF Cli
  <2>4. /\ Replied(r).op = r.op /\ Replied(r).at = r.at + 1 /\ Replied(r).wait = FALSE
        /\ Replied(r).table = r.table /\ Replied(r).ids = r.ids /\ Replied(r).write = r.write
    BY <2>1 DEF Cli
  <2> QED
    BY <1>1, <2>3, <2>4, SMTT(40)
<1>2. CASE r.at = N
  <2> DEFINE q == [r EXCEPT !.wait = FALSE]
  <2>1. Replied(r) = Returned(q)
    BY <1>2, SMTT(40) DEF Replied
  <2>2. q \in Cli /\ q.op = r.op /\ q.wait = FALSE /\ q.table = r.table /\ q.ids = r.ids /\ q.write = r.write
    BY DEF Cli
  <2> HIDE DEF q
  <2>3. CASE r.op \in {"begin", "write"}
    <3>1. Replied(r) = [q EXCEPT !.op = "open", !.at = 0]
      BY <2>1, <2>2, <2>3 DEF Returned
    <3>2. /\ Replied(r) \in Cli /\ Replied(r).op = "open" /\ Replied(r).at = 0
          /\ Replied(r).wait = q.wait /\ Replied(r).table = q.table
          /\ Replied(r).ids = q.ids /\ Replied(r).write = q.write
      BY <2>2, <3>1, ToOpen
    <3> QED
      BY <1>2, <2>2, <2>3, <3>2, SMTT(40)
  <2>4. CASE r.op = "commit"
    <3>1. Replied(r) = [q EXCEPT !.op = "rollback", !.at = 1]
      BY <2>1, <2>2, <2>4 DEF Returned
    <3>2. /\ Replied(r) \in Cli /\ Replied(r).op = "rollback" /\ Replied(r).at = 1
          /\ Replied(r).wait = q.wait /\ Replied(r).table = q.table
          /\ Replied(r).ids = q.ids /\ Replied(r).write = q.write
      BY <2>2, <3>1, ToRollback
    <3> QED
      BY <1>2, <2>2, <2>4, <3>2, SMTT(40)
  <2>5. CASE r.op \in {"create", "delete", "rollback"}
    <3>1. Replied(r) = Idle
      BY <2>1, <2>2, <2>5 DEF Returned
    <3> QED
      BY <1>2, <2>5, <3>1, IdleIs, SMTT(40)
  <2> QED
    BY <2>3, <2>4, <2>5 DEF Calling
<1>3. r.at < N \/ r.at = N
  BY SMTT(40)
<1> QED
  BY <1>1, <1>2, <1>3

(* A failure counts on the first node only; a write or a commit is then rolled back. *)
LEMMA FailedIs ==
  ASSUME NEW r \in Cli, r.at \in Node, r.op \in Calling
  PROVE  /\ r.at > 1 => Failed(r) = Replied(r)
         /\ r.at = 1 /\ r.op \in {"write", "commit"} =>
              /\ Failed(r) \in Cli /\ Failed(r).op = "rollback" /\ Failed(r).at = 1
              /\ Failed(r).wait = r.wait /\ Failed(r).table = r.table
              /\ Failed(r).ids = r.ids /\ Failed(r).write = r.write
         /\ r.at = 1 /\ r.op \notin {"write", "commit"} => Failed(r) = Idle
<1> USE NNat DEF Node
<1>1. CASE r.at = 1 /\ r.op \in {"write", "commit"}
  <2>1. Failed(r) = [r EXCEPT !.op = "rollback", !.at = 1]
    BY <1>1, SMTT(40) DEF Failed
  <2>2. /\ Failed(r) \in Cli /\ Failed(r).op = "rollback" /\ Failed(r).at = 1
        /\ Failed(r).wait = r.wait /\ Failed(r).table = r.table
        /\ Failed(r).ids = r.ids /\ Failed(r).write = r.write
    BY <2>1, ToRollback
  <2> QED
    BY <1>1, <2>2, SMTT(40)
<1> QED
  BY <1>1, SMTT(40) DEF Failed

(* After a call a client knows what it has to; it is not where it was.     *)
LEMMA NextRecOK ==
  ASSUME NEW T \in SUBSET Table, NEW r, RecOK(r, T), r.op \in Calling,
         NEW q \in {Replied(r), Failed(r)}
  PROVE  /\ RecOK(q, T)
         /\ q.ids = r.ids \/ q.ids = Idle.ids
         /\ q # r
<1> USE NNat DEF Node
<1>1. r \in Cli /\ r.at \in Node
  BY DEF RecOK
<1>2. CASE q = Replied(r)
  <2>1. CASE r.at < N
    <3>1. /\ q \in Cli /\ q.op = r.op /\ q.at = r.at + 1 /\ q.wait = FALSE
          /\ q.table = r.table /\ q.ids = r.ids /\ q.write = r.write
      BY <1>1, <1>2, <2>1, RepliedIs
    <3>2. q.at \in Node /\ q.at # r.at
      BY <1>1, <2>1, <3>1, SMTT(40)
    <3> QED
      BY <3>1, <3>2 DEF RecOK
  <2>2. CASE r.at = N /\ r.op \in {"begin", "write", "commit"}
    <3>1. q \in Cli /\ q.wait = FALSE /\ q.table = r.table /\ q.ids = r.ids /\ q.write = r.write
      BY <1>1, <1>2, <2>2, RepliedIs
    <3>2. \/ q.op = "open" /\ q.at = 0 /\ r.op \in {"begin", "write"}
          \/ q.op = "rollback" /\ q.at = 1 /\ r.op = "commit"
      BY <1>1, <1>2, <2>2, RepliedIs
    <3> QED
      BY <3>1, <3>2, SMTT(40) DEF RecOK, Calling
  <2>3. CASE r.at = N /\ r.op \in {"create", "delete", "rollback"}
    BY <1>1, <1>2, <2>3, RepliedIs, IdleIs
  <2>4. r.op \in {"begin", "write", "commit"} \/ r.op \in {"create", "delete", "rollback"}
    BY DEF Calling
  <2> QED
    BY <1>1, <2>1, <2>2, <2>3, <2>4, SMTT(40)
<1>3. CASE q = Failed(r) /\ r.at = 1
  BY <1>1, <1>3, FailedIs, IdleIs, NNat DEF RecOK, Calling
<1> QED
  BY <1>1, <1>2, <1>3, FailedIs, NNat, SMTT(40)

(* What the operations on a file's content return. *)
LEMMA ContentFacts ==
  ASSUME NEW d \in Content, NEW t \in Table
  PROVE  /\ Empty \in Bucket
         /\ WithTable(d, t) \in Content /\ WithTable(d, t)[t] \in Bucket
         /\ WithoutTable(d, t) \in Content
<1>1. Empty \in Bucket
  BY DEF Empty, Bucket
<1>2. WithTable(d, t) \in Content
  BY <1>1 DEF WithTable, Content
<1>3. WithTable(d, t)[t] = IF d[t] = None THEN Empty ELSE d[t]
  BY KVAssumption DEF WithTable
<1>4. WithTable(d, t)[t] \in Bucket
  BY <1>1, <1>3 DEF Content
<1>5. WithoutTable(d, t) \in Content
  BY DEF WithoutTable, Content
<1> QED
  BY <1>1, <1>2, <1>4, <1>5

(* A write changes one key of one table. *)
LEMMA WrittenFacts ==
  ASSUME NEW d \in Content, NEW t \in Table, d[t] \in Bucket, NEW w \in Write
  PROVE  /\ Written(d, t, w) \in Content
         /\ Written(d, t, w)[t] \in Bucket
         /\ Written(d, t, w)[t] = [d[t] EXCEPT ![w.key] = IF w.kind = "delete" THEN None ELSE w.val]
         /\ \A u \in Table \ {t} : Written(d, t, w)[u] = d[u]
<1> DEFINE v == IF w.kind = "delete" THEN None ELSE w.val
           b == [d[t] EXCEPT ![w.key] = v]
<1>1. v \in Value \cup {None} /\ w.key \in Key
  BY DEF Write
<1>2. b \in Bucket
  BY <1>1 DEF Bucket
<1>3. Written(d, t, w) = [d EXCEPT ![t] = b]
  BY DEF Written
<1> HIDE DEF b
<1>4. /\ Written(d, t, w) \in Content /\ Written(d, t, w)[t] = b
      /\ \A u \in Table \ {t} : Written(d, t, w)[u] = d[u]
  BY <1>2, <1>3 DEF Content
<1> QED
  BY <1>2, <1>4 DEF b

(* A transaction after a write. *)
Rewritten(x, w) == [x EXCEPT !.content = Written(x.content, x.table, w)]

(* A write changes the content of the transaction and nothing else of it. *)
LEMMA RewrittenIs ==
  ASSUME NEW x \in Tx, x.content[x.table] \in Bucket, NEW w \in Write
  PROVE  LET y == Rewritten(x, w)
         IN  /\ y \in Tx /\ y.id = x.id /\ y.owner = x.owner /\ y.table = x.table
             /\ y.content = Written(x.content, x.table, w)
             /\ y.content[y.table] \in Bucket
<1>1. x.content \in Content /\ x.table \in Table
  BY DEF Tx
<1>2. Written(x.content, x.table, w) \in Content /\ Written(x.content, x.table, w)[x.table] \in Bucket
  BY <1>1, WrittenFacts
<1> QED
  BY <1>2 DEF Rewritten, Tx

(* A step that begins no transaction. *)
LEMMA KeepsOwner ==
  ASSUME OwnerInv, NEW c \in Client, NEW rec,
         cli' = [cli EXCEPT ![c] = rec],
         RecOK(rec, tables'), rec.ids = cli[c].ids \/ rec.ids = Idle.ids,
         data' \in [Node -> Content], openedTables' \in [Node -> SUBSET Table],
         tables' \in SUBSET Table, tables \subseteq tables',
         nextTxId' = nextTxId,
         tx' \in [Node -> Tx \cup {None}],
         \A n \in Node : tx'[n] # None =>
           /\ tx[n] # None /\ tx'[n].id = tx[n].id /\ tx'[n].owner = tx[n].owner
           /\ tx'[n].content[tx'[n].table] \in Bucket
  PROVE  OwnerInv'
<1>1. cli' \in [Client -> Cli] /\ cli'[c] = rec /\ \A d \in Client \ {c} : cli'[d] = cli[d]
  BY DEF OwnerInv, TypeOK, RecOK
<1>2. TypeOK'
  BY <1>1 DEF OwnerInv, TypeOK
<1>3. CallOK'
  <2>1. \A d \in Client \ {c} : RecOK(cli[d], tables')
    BY DEF OwnerInv, CallOK, RecOK
  <2> QED
    BY <1>1, <2>1 DEF CallOK
<1>4. IdsOK'
  <2> SUFFICES ASSUME NEW n \in Node
               PROVE  /\ tx'[n] # None => /\ tx'[n].id \in 1 .. nextTxId'[n]
                                          /\ tx'[n].content[tx'[n].table] \in Bucket
                      /\ \A d \in Client : /\ cli'[d].ids[n] <= nextTxId'[n]
                                           /\ Finds(d, n)' => tx'[n].owner = d
    BY DEF IdsOK
  <2>1. nextTxId[n] \in Nat
    BY DEF OwnerInv, TypeOK
  <2>2. /\ tx[n] # None => tx[n].id \in 1 .. nextTxId[n]
        /\ \A d \in Client : /\ cli[d].ids[n] <= nextTxId[n]
                             /\ Finds(d, n) => tx[n].owner = d
    BY DEF OwnerInv, IdsOK
  <2>3. Idle.ids[n] = -1
    BY IdleIs DEF InvalidTxID
  <2>4. \A d \in Client : cli'[d].ids[n] = cli[d].ids[n] \/ cli'[d].ids[n] = -1
    BY <1>1, <2>3
  <2> QED
    BY <2>1, <2>2, <2>4, SMTT(40) DEF Finds
<1> QED
  BY <1>2, <1>3, <1>4 DEF OwnerInv

(* A step that changes the record of one client only. *)
LEMMA ClientOnly ==
  ASSUME OwnerInv, NEW c \in Client, NEW rec,
         cli' = [cli EXCEPT ![c] = rec],
         RecOK(rec, tables), rec.ids = cli[c].ids \/ rec.ids = Idle.ids,
         UNCHANGED <<data, openedTables, tx, nextTxId, tables>>
  PROVE  OwnerInv'
<1>1. TypeOK /\ IdsOK
  BY DEF OwnerInv
<1>2. \A n \in Node : tx[n] # None => tx[n].content[tx[n].table] \in Bucket
  BY <1>1 DEF IdsOK
<1>3. RecOK(rec, tables')
  OBVIOUS
<1> QED
  BY <1>1, <1>2, <1>3, KeepsOwner DEF TypeOK

(* The record a client starts an operation on a table with. *)
StartRec(o, t) == [Idle EXCEPT !.op = o, !.at = 1, !.table = t]

(* The record of an operation that starts with the first node. *)
LEMMA StartIs ==
  ASSUME NEW o \in Calling, NEW t \in Table
  PROVE  /\ StartRec(o, t) \in Cli /\ StartRec(o, t).op = o /\ StartRec(o, t).at = 1
         /\ StartRec(o, t).wait = FALSE /\ StartRec(o, t).table = t
         /\ StartRec(o, t).ids = Idle.ids
<1>1. o \in OpName /\ 1 \in 0 .. N
  BY OpNames, NNat, SMTT(40)
<1> QED
  BY <1>1, IdleIs DEF Cli, StartRec

(* The record of a client whose handler waits for the file of a node. *)
LEMMA WaitIs ==
  ASSUME NEW r \in Cli
  PROVE  LET q == [r EXCEPT !.wait = TRUE]
         IN  /\ q \in Cli /\ q.op = r.op /\ q.at = r.at /\ q.wait = TRUE
             /\ q.table = r.table /\ q.ids = r.ids /\ q.write = r.write
BY DEF Cli

(* The record of a write that starts with the first node. *)
LEMMA StartWriteIs ==
  ASSUME NEW r \in Cli, NEW w \in Write
  PROVE  LET q == [r EXCEPT !.op = "write", !.at = 1, !.write = w]
         IN  /\ q \in Cli /\ q.op = "write" /\ q.at = 1 /\ q.write = w
             /\ q.wait = r.wait /\ q.table = r.table /\ q.ids = r.ids
<1>1. "write" \in OpName /\ 1 \in 0 .. N
  BY OpNames, NNat, SMTT(40)
<1> QED
  BY <1>1 DEF Cli

(* The record of an operation that starts over with the first node. *)
LEMMA StartEndIs ==
  ASSUME NEW r \in Cli, NEW o \in OpName
  PROVE  LET q == [r EXCEPT !.op = o, !.at = 1]
         IN  /\ q \in Cli /\ q.op = o /\ q.at = 1
             /\ q.wait = r.wait /\ q.table = r.table /\ q.ids = r.ids /\ q.write = r.write
<1>1. 1 \in 0 .. N
  BY NNat, SMTT(40)
<1> QED
  BY <1>1 DEF Cli

(* The record of a client that has got the id of a transaction. *)
LEMMA NewIdIs ==
  ASSUME NEW r \in Cli, NEW n \in Node, NEW id \in Int
  PROVE  LET q == [r EXCEPT !.ids[n] = id]
         IN  /\ q \in Cli /\ q.op = r.op /\ q.at = r.at /\ q.wait = r.wait
             /\ q.table = r.table /\ q.write = r.write
             /\ q.ids = [r.ids EXCEPT ![n] = id] /\ r.ids \in [Node -> Int]
BY DEF Cli

(* The steps that open an operation. *)
LEMMA OwnerStart ==
  ASSUME OwnerInv, NEW c \in Client,
         \/ \E t \in Table, op \in {"create", "delete"} : StartTable(c, op, t)
         \/ \E t \in Table : StartBegin(c, t)
         \/ \E w \in Write : StartWrite(c, w)
         \/ \E op \in {"commit", "rollback"} : StartEnd(c, op)
  PROVE  OwnerInv'
<1>0. 1 \in Node /\ cli[c] \in Cli /\ RecOK(cli[c], tables) /\ tables \in SUBSET Table
  BY NNat, SMTT(40) DEF OwnerInv, TypeOK, CallOK, Node
<1>1. CASE \E t \in Table, op \in {"create", "delete"} : StartTable(c, op, t)
  <2> PICK t \in Table, op \in {"create", "delete"} : StartTable(c, op, t)
    BY <1>1
  <2> DEFINE q == StartRec(op, t)
  <2>1. op \in Calling
    BY DEF Calling
  <2>2. /\ q \in Cli /\ q.op = op /\ q.at = 1 /\ q.wait = FALSE /\ q.table = t
        /\ q.ids = Idle.ids
    BY <2>1, StartIs, ZenonT(40)
  <2>3. cli' = [cli EXCEPT ![c] = q] /\ UNCHANGED <<data, openedTables, tx, nextTxId, tables>>
    BY Zenon DEF StartTable, Set, StartRec
  <2> HIDE DEF q
  <2>4. RecOK(q, tables)
    BY <1>0, <2>2 DEF RecOK, Calling
  <2> QED
    BY <2>2, <2>3, <2>4, ClientOnly
<1>2. CASE \E t \in Table : StartBegin(c, t)
  <2> PICK t \in Table : StartBegin(c, t)
    BY <1>2
  <2> DEFINE q == StartRec("begin", t)
  <2>1. "begin" \in Calling
    BY DEF Calling
  <2>2. /\ q \in Cli /\ q.op = "begin" /\ q.at = 1 /\ q.wait = FALSE /\ q.table = t
        /\ q.ids = Idle.ids
    BY <2>1, StartIs, ZenonT(40)
  <2>3. /\ cli' = [cli EXCEPT ![c] = q] /\ UNCHANGED <<data, openedTables, tx, nextTxId, tables>>
        /\ t \in tables
    BY Zenon DEF StartBegin, Set, StartRec
  <2> HIDE DEF q
  <2>4. RecOK(q, tables)
    BY <1>0, <2>2, <2>3 DEF RecOK, Calling
  <2> QED
    BY <2>2, <2>3, <2>4, ClientOnly
<1>3. CASE \E w \in Write : StartWrite(c, w)
  <2> PICK w \in Write : StartWrite(c, w)
    BY <1>3
  <2> DEFINE q == [cli[c] EXCEPT !.op = "write", !.at = 1, !.write = w]
  <2>2. /\ q \in Cli /\ q.op = "write" /\ q.at = 1 /\ q.write = w
        /\ q.wait = cli[c].wait /\ q.table = cli[c].table /\ q.ids = cli[c].ids
    BY <1>0, StartWriteIs
  <2>3. /\ cli' = [cli EXCEPT ![c] = q] /\ UNCHANGED <<data, openedTables, tx, nextTxId, tables>>
        /\ cli[c].op = "open"
    BY DEF StartWrite, Set
  <2> HIDE DEF q
  <2>4. RecOK(q, tables)
    BY <1>0, <2>2, <2>3 DEF RecOK, Calling
  <2> QED
    BY <2>2, <2>3, <2>4, ClientOnly
<1>4. CASE \E op \in {"commit", "rollback"} : StartEnd(c, op)
  <2> PICK op \in {"commit", "rollback"} : StartEnd(c, op)
    BY <1>4
  <2> DEFINE q == [cli[c] EXCEPT !.op = op, !.at = 1]
  <2>1. op \in OpName
    BY OpNames
  <2>2. /\ q \in Cli /\ q.op = op /\ q.at = 1
        /\ q.wait = cli[c].wait /\ q.table = cli[c].table /\ q.ids = cli[c].ids /\ q.write = cli[c].write
    BY <1>0, <2>1, StartEndIs
  <2>3. /\ cli' = [cli EXCEPT ![c] = q] /\ UNCHANGED <<data, openedTables, tx, nextTxId, tables>>
        /\ cli[c].op = "open"
    BY DEF StartEnd, Set
  <2> HIDE DEF q
  <2>4. RecOK(q, tables)
    BY <1>0, <2>2, <2>3 DEF RecOK, Calling
  <2> QED
    BY <2>2, <2>3, <2>4, ClientOnly
<1> QED
  BY <1>1, <1>2, <1>3, <1>4

(* The steps of a handler, but for those that begin a transaction. *)
LEMMA OwnerServe ==
  ASSUME OwnerInv, NEW c \in Client, NEW n \in Node,
         \/ CreateCall(c, n) \/ CreateInFile(c, n) \/ BeginCall(c, n)
         \/ NotServed(c, n) \/ WriteCall(c, n) \/ CommitCall(c, n) \/ RollbackCall(c, n)
         \/ DeleteCall(c, n) \/ DeleteInFile(c, n) \/ CommitFails(c, n) \/ CallFails(c, n)
  PROVE  OwnerInv'
<1> DEFINE r == cli[c]
<1>0. /\ r \in Cli /\ RecOK(r, tables) /\ tables \in SUBSET Table /\ TypeOK
  BY DEF OwnerInv, TypeOK, CallOK
<1>1. \A m \in Node : tx[m] # None => tx[m].content[tx[m].table] \in Bucket
  BY DEF OwnerInv, IdsOK
<1>2. r.op \in Calling /\ r.at = n
  <2>1. CASE CallFails(c, n)
    BY <1>0, <2>1, NNat, SMTT(40) DEF CallFails, RecOK, Node
  <2> QED
    BY <2>1 DEF CreateCall, CreateInFile, BeginCall, NotServed, WriteCall, CommitCall, RollbackCall,
    DeleteCall, DeleteInFile, CommitFails, Calls, Waits, InTransaction, Calling
<1>3. \A q \in {Replied(r), Failed(r)} : RecOK(q, tables) /\ (q.ids = r.ids \/ q.ids = Idle.ids)
  BY <1>0, <1>2, NextRecOK
<1>4. ASSUME r.op \in {"create", "delete", "begin"}
      PROVE  LET q == [r EXCEPT !.wait = TRUE] IN RecOK(q, tables) /\ q.ids = r.ids
  BY <1>0, <1>4, WaitIs DEF RecOK
<1>5. ASSUME GotTable(c, n)
      PROVE  /\ tables' \in SUBSET Table /\ tables \subseteq tables'
             /\ \A q : RecOK(q, tables) => RecOK(q, tables')
  BY <1>0, <1>5 DEF GotTable, RecOK
<1> HIDE DEF r
<1>6. CASE CreateCall(c, n)
  <2>1. r.op = "create" /\ UNCHANGED <<data, openedTables, tx, nextTxId>>
    BY <1>6 DEF CreateCall, Calls, r
  <2>2. CASE r.table \in openedTables[n]
    <3>1. cli' = [cli EXCEPT ![c] = Replied(r)] /\ GotTable(c, n)
      BY <1>6, <2>2 DEF CreateCall, Set, r
    <3> QED
      BY <1>0, <1>1, <1>3, <1>5, <2>1, <3>1, KeepsOwner DEF TypeOK, r
  <2>3. CASE r.table \notin openedTables[n]
    <3>1. cli' = [cli EXCEPT ![c] = [r EXCEPT !.wait = TRUE]] /\ UNCHANGED tables
      BY <1>6, <2>3 DEF CreateCall, Set, r
    <3> QED
      BY <1>4, <2>1, <3>1, ClientOnly DEF r
  <2> QED
    BY <2>2, <2>3
<1>7. CASE CreateInFile(c, n)
  <2>1. /\ r.op = "create" /\ UNCHANGED <<tx, nextTxId>> /\ GotTable(c, n)
        /\ cli' = [cli EXCEPT ![c] = Replied(r)]
        /\ data' = [data EXCEPT ![n] = WithTable(data[n], r.table)]
        /\ openedTables' = [openedTables EXCEPT ![n] = openedTables[n] \cup {r.table}]
    BY <1>7 DEF CreateInFile, Waits, Set, r
  <2>2. r.table \in Table /\ data[n] \in Content
    BY <1>0, <2>1 DEF RecOK, TypeOK
  <2>3. WithTable(data[n], r.table) \in Content
    BY <2>2, ContentFacts
  <2>4. data' \in [Node -> Content] /\ openedTables' \in [Node -> SUBSET Table]
    BY <1>0, <2>1, <2>2, <2>3 DEF TypeOK
  <2> QED
    BY <1>0, <1>1, <1>3, <1>5, <2>1, <2>4, KeepsOwner DEF TypeOK, r
<1>8. CASE BeginCall(c, n)
  <2>1. r.op = "begin" /\ UNCHANGED <<data, openedTables, tx, nextTxId, tables>>
    BY <1>8 DEF BeginCall, Calls, r
  <2>2. \/ cli' = [cli EXCEPT ![c] = [r EXCEPT !.wait = TRUE]]
        \/ cli' = [cli EXCEPT ![c] = Failed(r)]
    BY <1>8 DEF BeginCall, Set, r
  <2> QED
    BY <1>3, <1>4, <2>1, <2>2, ClientOnly DEF r
<1>9. CASE NotServed(c, n)
  <2>1. UNCHANGED <<data, openedTables, tx, nextTxId, tables>>
    BY <1>9 DEF NotServed
  <2>2. \/ cli' = [cli EXCEPT ![c] = Replied(r)]
        \/ cli' = [cli EXCEPT ![c] = Failed(r)]
    BY <1>9 DEF NotServed, Set, r
  <2> QED
    BY <1>3, <2>1, <2>2, ClientOnly DEF r
<1>10. CASE WriteCall(c, n)
  <2>1. UNCHANGED <<data, openedTables, nextTxId, tables>> /\ tx[n] # None
    BY <1>10 DEF WriteCall, Finds
  <2>2. \/ cli' = [cli EXCEPT ![c] = Replied(r)]
        \/ cli' = [cli EXCEPT ![c] = Failed(r)]
    BY <1>10 DEF WriteCall, Set, r
  <2>3. tx' = tx \/ tx' = [tx EXCEPT ![n] = Rewritten(tx[n], r.write)]
    BY <1>10 DEF WriteCall, Rewritten, r
  <2>4. r.write \in Write /\ tx[n] \in Tx
    BY <1>0, <1>10, <2>1 DEF WriteCall, Calls, RecOK, TypeOK, r
  <2>5. /\ Rewritten(tx[n], r.write) \in Tx
        /\ Rewritten(tx[n], r.write).id = tx[n].id /\ Rewritten(tx[n], r.write).owner = tx[n].owner
        /\ Rewritten(tx[n], r.write).content[Rewritten(tx[n], r.write).table] \in Bucket
    BY <1>1, <2>1, <2>4, RewrittenIs
  <2>6. /\ tx' \in [Node -> Tx \cup {None}]
        /\ \A m \in Node : tx'[m] = tx[m] \/ (m = n /\ tx'[m] = Rewritten(tx[n], r.write))
    <3>1. tx \in [Node -> Tx \cup {None}]
      BY <1>0 DEF TypeOK
    <3>2. CASE tx' = tx
      BY <3>1, <3>2
    <3>3. CASE tx' = [tx EXCEPT ![n] = Rewritten(tx[n], r.write)]
      BY <2>5, <3>1, <3>3
    <3> QED
      BY <2>3, <3>2, <3>3
  <2> QED
    BY <1>0, <1>1, <1>3, <2>1, <2>2, <2>5, <2>6, KeepsOwner DEF TypeOK, r
<1>11. CASE CommitCall(c, n) \/ RollbackCall(c, n) \/ CommitFails(c, n)
  <2>1. UNCHANGED <<openedTables, nextTxId, tables>> /\ tx' = [tx EXCEPT ![n] = None] /\ tx[n] # None
    BY <1>11 DEF CommitCall, RollbackCall, CommitFails, Finds
  <2>2. \/ cli' = [cli EXCEPT ![c] = Replied(r)]
        \/ cli' = [cli EXCEPT ![c] = Failed(r)]
    BY <1>11 DEF CommitCall, RollbackCall, CommitFails, Set, r
  <2>3. tx[n].content \in Content
    BY <1>0, <2>1 DEF TypeOK, Tx
  <2>4. data' \in [Node -> Content]
    BY <1>0, <1>11, <2>3 DEF CommitCall, RollbackCall, CommitFails, TypeOK
  <2>5. /\ tx' \in [Node -> Tx \cup {None}]
        /\ \A m \in Node : tx'[m] # None => tx'[m] = tx[m]
    BY <1>0, <2>1 DEF TypeOK
  <2> QED
    BY <1>0, <1>1, <1>3, <2>1, <2>2, <2>4, <2>5, KeepsOwner DEF TypeOK, r
<1>12. CASE DeleteCall(c, n)
  <2>1. /\ r.op = "delete" /\ UNCHANGED <<data, tx, nextTxId, tables>>
        /\ cli' = [cli EXCEPT ![c] = [r EXCEPT !.wait = TRUE]]
        /\ openedTables' = [openedTables EXCEPT ![n] = openedTables[n] \ {r.table}]
    BY <1>12 DEF DeleteCall, Calls, Set, r
  <2>2. openedTables' \in [Node -> SUBSET Table]
    BY <1>0, <2>1 DEF TypeOK
  <2> QED
    BY <1>0, <1>1, <1>4, <2>1, <2>2, KeepsOwner DEF TypeOK, r
<1>13. CASE DeleteInFile(c, n)
  <2>1. r.op = "delete" /\ UNCHANGED <<openedTables, tx, nextTxId, tables>>
    BY <1>13 DEF DeleteInFile, Waits, r
  <2>2. \/ cli' = [cli EXCEPT ![c] = Replied(r)]
        \/ cli' = [cli EXCEPT ![c] = Failed(r)]
    BY <1>13 DEF DeleteInFile, Set, r
  <2>3. data' = data \/ data' = [data EXCEPT ![n] = WithoutTable(data[n], r.table)]
    BY <1>13 DEF DeleteInFile, r
  <2>4. WithoutTable(data[n], r.table) \in Content
    BY <1>0, <2>1, ContentFacts DEF RecOK, TypeOK
  <2>5. data' \in [Node -> Content]
    BY <1>0, <2>3, <2>4 DEF TypeOK
  <2> QED
    BY <1>0, <1>1, <1>3, <2>1, <2>2, <2>5, KeepsOwner DEF TypeOK, r
<1>14. CASE CallFails(c, n)
  <2>1. UNCHANGED <<data, openedTables, tx, nextTxId>> /\ cli' = [cli EXCEPT ![c] = Failed(r)]
    BY <1>14 DEF CallFails, Set, r
  <2>2. UNCHANGED tables \/ GotTable(c, n)
    BY <1>14 DEF CallFails
  <2> QED
    BY <1>0, <1>1, <1>3, <1>5, <2>1, <2>2, KeepsOwner DEF TypeOK, r
<1> QED
  BY <1>6, <1>7, <1>8, <1>9, <1>10, <1>11, <1>12, <1>13, <1>14

(* A transaction begins under an id that nobody has. *)
LEMMA OwnerBegin ==
  ASSUME OwnerInv, NEW c \in Client, NEW n \in Node, BeginInFile(c, n)
  PROVE  OwnerInv'
<1> DEFINE r == cli[c]
           id == NewId(n)
           q == [r EXCEPT !.ids[n] = id]
           x == [id |-> id, owner |-> c, table |-> r.table, content |-> WithTable(data[n], r.table)]
<1>0. r \in Cli /\ RecOK(r, tables) /\ tables \in SUBSET Table /\ TypeOK /\ IdsOK
  BY DEF OwnerInv, TypeOK, CallOK
<1>1. id \in Nat /\ id = nextTxId[n] + 1 /\ nextTxId[n] \in Nat
  BY <1>0, SMTT(40) DEF TypeOK, NewId
<1>2. /\ r.op = "begin" /\ r.at = n /\ UNCHANGED <<data, openedTables, tables>> /\ tx[n] = None
      /\ nextTxId' = [nextTxId EXCEPT ![n] = id]
      /\ tx' = [tx EXCEPT ![n] = x]
      /\ cli' = [cli EXCEPT ![c] = Replied(q)]
  BY DEF BeginInFile, Waits, Set
<1> HIDE DEF id
<1>3. /\ q \in Cli /\ q.op = r.op /\ q.at = r.at /\ q.wait = r.wait
      /\ q.table = r.table /\ q.write = r.write
      /\ q.ids = [r.ids EXCEPT ![n] = id] /\ r.ids \in [Node -> Int]
  BY <1>0, <1>1, NewIdIs, SMTT(40)
<1>4. r.table \in Table
  BY <1>0, <1>2 DEF RecOK
<1>5. /\ x \in Tx /\ x.id = id /\ x.owner = c /\ x.table = r.table
      /\ x.content = WithTable(data[n], r.table) /\ x.content[r.table] \in Bucket
  BY <1>0, <1>1, <1>4, ContentFacts, SMTT(60) DEF TypeOK, Tx
<1> HIDE DEF q, x, r
<1>6. q.op \in Calling /\ q.at \in Node /\ RecOK(q, tables)
  BY <1>0, <1>2, <1>3 DEF RecOK, Calling
<1>7. RecOK(Replied(q), tables) /\ Replied(q).ids = [r.ids EXCEPT ![n] = id]
  <2>1. RecOK(Replied(q), tables)
    BY <1>0, <1>6, NextRecOK
  <2>2. Replied(q).ids = q.ids
    BY <1>2, <1>3, <1>6, RepliedIs, NNat DEF Node
  <2> QED
    BY <2>1, <2>2, <1>3
<1>8. cli' \in [Client -> Cli] /\ cli'[c] = Replied(q) /\ \A d \in Client \ {c} : cli'[d] = cli[d]
  BY <1>0, <1>2, <1>7 DEF TypeOK, RecOK
<1>9. TypeOK'
  BY <1>0, <1>1, <1>2, <1>5, <1>8 DEF TypeOK
<1>10. CallOK'
  BY <1>2, <1>7, <1>8 DEF OwnerInv, CallOK
<1>11. IdsOK'
  <2> SUFFICES ASSUME NEW m \in Node
               PROVE  /\ tx'[m] # None => /\ tx'[m].id \in 1 .. nextTxId'[m]
                                          /\ tx'[m].content[tx'[m].table] \in Bucket
                      /\ \A d \in Client : /\ cli'[d].ids[m] <= nextTxId'[m]
                                           /\ Finds(d, m)' => tx'[m].owner = d
    BY DEF IdsOK
  <2>1. /\ tx[m] # None => tx[m].id \in 1 .. nextTxId[m] /\ tx[m].content[tx[m].table] \in Bucket
        /\ \A d \in Client : /\ cli[d].ids[m] <= nextTxId[m]
                             /\ Finds(d, m) => tx[m].owner = d
    BY <1>0 DEF IdsOK
  <2>2. cli'[c].ids[m] = IF m = n THEN id ELSE cli[c].ids[m]
    BY <1>3, <1>7, <1>8 DEF r
  <2>3. CASE m = n
    <3>1. nextTxId'[m] = id /\ tx'[m] = x
      BY <1>0, <1>2, <2>3 DEF TypeOK
    <3>2. \A d \in Client : cli[d].ids[m] \in Int
      BY <1>0 DEF TypeOK, Cli
    <3>3. \A d \in Client \ {c} : cli'[d].ids[m] <= nextTxId[m]
      BY <1>8, <2>1
    <3> QED
      BY <1>1, <1>5, <1>8, <2>2, <2>3, <3>1, <3>2, <3>3, SMTT(60) DEF Finds
  <2>4. CASE m # n
    <3>1. nextTxId'[m] = nextTxId[m] /\ tx'[m] = tx[m]
      BY <1>0, <1>2, <2>4 DEF TypeOK
    <3>2. \A d \in Client : cli'[d].ids[m] = cli[d].ids[m]
      BY <1>8, <2>2, <2>4
    <3> QED
      BY <2>1, <3>1, <3>2 DEF Finds
  <2> QED
    BY <2>3, <2>4
<1> QED
  BY <1>9, <1>10, <1>11 DEF OwnerInv

(* No transaction is open at the start. *)
LEMMA OwnerInitially == Init => OwnerInv
<1> SUFFICES ASSUME Init PROVE OwnerInv
  OBVIOUS
<1>1. [t \in Table |-> None] \in Content
  BY DEF Content
<1>2. TypeOK
  BY <1>1, IdleIs DEF Init, TypeOK
<1>3. CallOK
  BY IdleIs DEF Init, CallOK
<1>4. IdsOK
  BY IdleIs, SMTT(40) DEF Init, IdsOK, Finds, InvalidTxID
<1> QED
  BY <1>2, <1>3, <1>4 DEF OwnerInv

(* Every step keeps the invariant of owned transactions. *)
LEMMA OwnerStep == OwnerInv /\ [Next]_vars => OwnerInv'
<1> SUFFICES ASSUME OwnerInv, [Next]_vars PROVE OwnerInv'
  OBVIOUS
<1>1. CASE Next
  <2>1. PICK c \in Client :
          \/ \E t \in Table, op \in {"create", "delete"} : StartTable(c, op, t)
          \/ \E t \in Table : StartBegin(c, t)
          \/ \E w \in Write : StartWrite(c, w)
          \/ \E op \in {"commit", "rollback"} : StartEnd(c, op)
          \/ \E n \in Node : Serve(c, n) \/ ServeDelete(c, n) \/ CommitFails(c, n) \/ CallFails(c, n)
    BY <1>1 DEF Next, CalmNext
  <2>2. CASE \E n \in Node : Serve(c, n) \/ ServeDelete(c, n) \/ CommitFails(c, n) \/ CallFails(c, n)
    BY <2>2, OwnerServe, OwnerBegin DEF Serve, ServeDelete
  <2> QED
    BY <2>1, <2>2, OwnerStart
<1>2. CASE UNCHANGED vars
  BY <1>2 DEF vars, OwnerInv, TypeOK, CallOK, IdsOK, Finds
<1> QED
  BY <1>1, <1>2

(* A transaction is changed and ended by its owner alone (OwnTransaction), *)
(* whatever clients do and whichever calls fail: WriteCall, CommitCall,    *)
(* RollbackCall and CommitFails reach a transaction by its id, and only    *)
(* its owner has that.                                                     *)
THEOREM TransactionsAreOwned == Spec => OwnTransaction
<1>1. ASSUME OwnerInv, Next PROVE OwnerActs
  <2> SUFFICES ASSUME NEW m \in Node, tx[m] # None, tx'[m] # tx[m]
               PROVE  cli'[tx[m].owner] # cli[tx[m].owner]
    BY DEF OwnerActs
  <2>0. TypeOK /\ CallOK /\ IdsOK
    BY <1>1 DEF OwnerInv
  <2>1. PICK c \in Client, n \in Node :
          BeginInFile(c, n) \/ WriteCall(c, n) \/ CommitCall(c, n) \/ RollbackCall(c, n) \/ CommitFails(c, n)
    BY <1>1, ZenonT(60) DEF Next, CalmNext, Serve, ServeDelete, StartTable, StartBegin, StartWrite, StartEnd,
         CreateCall, CreateInFile, BeginCall, NotServed, DeleteCall, DeleteInFile, CallFails
  <2>2. tx' = tx \/ \E y : tx' = [tx EXCEPT ![n] = y]
    BY <2>1 DEF BeginInFile, WriteCall, CommitCall, RollbackCall, CommitFails
  <2>3. m = n
    BY <2>0, <2>2 DEF TypeOK
  <2>4. WriteCall(c, n) \/ CommitCall(c, n) \/ RollbackCall(c, n) \/ CommitFails(c, n)
    BY <2>1, <2>3 DEF BeginInFile
  <2>5. tx[n].owner = c
    BY <2>0, <2>4 DEF WriteCall, CommitCall, RollbackCall, CommitFails, IdsOK
  <2>6. /\ cli[c].op \in Calling
        /\ \/ cli' = [cli EXCEPT ![c] = Replied(cli[c])]
           \/ cli' = [cli EXCEPT ![c] = Failed(cli[c])]
    BY <2>4 DEF WriteCall, CommitCall, RollbackCall, CommitFails, Calls, Set, Calling
  <2>7. Replied(cli[c]) # cli[c] /\ Failed(cli[c]) # cli[c]
    BY <2>0, <2>6, NextRecOK DEF CallOK, TypeOK
  <2>8. cli'[c] # cli[c]
    BY <2>0, <2>6, <2>7 DEF TypeOK
  <2> QED
    BY <2>3, <2>5, <2>8
<1>2. OwnerInv /\ [Next]_vars => [OwnerActs]_vars
  BY <1>1
<1> QED
  BY <1>2, OwnerInitially, OwnerStep, PTL DEF Spec, OwnTransaction

-----------------------------------------------------------------------------
(***************************************************************************)
(* Where an operation is, what it holds and what the nodes contain, while  *)
(* no call fails and no table is deleted (CalmSpec).                       *)
(***************************************************************************)

Owned(c, n) == tx[n] # None /\ tx[n].owner = c

(* Begin takes the nodes in order, Commit and Rollback leave them in the   *)
(* same order; the Rollback after a Commit has nothing to leave.           *)
HeldBy(c) ==
  /\ cli[c].op # "delete"
  /\ cli[c].op \in {"idle", "create"} => \A n \in Node : ~Owned(c, n)
  /\ cli[c].op = "begin" => \A n \in Node : Owned(c, n) <=> n < cli[c].at
  /\ cli[c].op \in {"open", "write"} => \A n \in Node : Owned(c, n)
  /\ cli[c].op = "commit" => \A n \in Node : Owned(c, n) <=> n >= cli[c].at
  /\ cli[c].op = "rollback" =>
       \/ \A n \in Node : Owned(c, n) <=> n >= cli[c].at
       \/ cli[c].at = 1 /\ \A n \in Node : ~Owned(c, n)
  /\ \A n \in Node : Owned(c, n) => Finds(c, n) /\ tx[n].table = cli[c].table

(* What transaction c has in its table on node n. *)
Has(c, n) == tx[n].content[cli[c].table]

(* The contents of a transaction's table on the nodes it has still to      *)
(* visit and on those it has visited.                                      *)
VisitsBy(c) ==
  \A n \in Node :
    /\ cli[c].op = "open" => Has(c, n) = Has(c, 1)
    /\ cli[c].op = "commit" => IF cli[c].at = 1 THEN Has(c, n) = Has(c, 1)
                               ELSE n >= cli[c].at => Has(c, n) = data[1][cli[c].table]
    /\ cli[c].op = "write" =>
         IF cli[c].at = 1 \/ n < cli[c].at THEN Has(c, n) = Has(c, 1)
         ELSE /\ WriteAllowed(tx[n].content, cli[c].table, cli[c].write)
              /\ Written(tx[n].content, cli[c].table, cli[c].write)[cli[c].table] = Has(c, 1)

(* A table that clients have, or that its creator has made on a node, is   *)
(* open there, and the file has it and the tables it is nested in.         *)
TablesOpen ==
  \A n \in Node :
    /\ tables \subseteq openedTables[n]
    /\ \A c \in Client : cli[c].op = "create" /\ n < cli[c].at => cli[c].table \in openedTables[n]
    /\ \A t \in openedTables[n] : \A u \in Up[t] : data[n][u] # None

(* A transaction differs from the file in its own table alone, and not at  *)
(* all before Begin has returned.                                          *)
Kept ==
  \A n \in Node : tx[n] # None =>
    \A u \in Table :
      u # tx[n].table \/ cli[tx[n].owner].op = "begin" => tx[n].content[u] = data[n][u]

(* The creation of table u, and a commit of it, that has been at the       *)
(* master and has still to come to node n.                                 *)
Creates(c, n, u) ==
  /\ cli[c].op = "create" /\ u \in Up[cli[c].table]
  /\ 1 < cli[c].at /\ cli[c].at <= n
Commits(c, n, u) ==
  /\ cli[c].op = "commit" /\ u = cli[c].table
  /\ 1 < cli[c].at /\ cli[c].at <= n

(* The master is first: a slave lacks a table only while its creation is   *)
(* on its way there, and then nobody has written to it.                    *)
Lags ==
  \A n \in Node, u \in Table :
    /\ data[1][u] = None => data[n][u] = None
    /\ data[1][u] # None /\ data[n][u] = None =>
         data[1][u] = Empty /\ \E c \in Client : Creates(c, n, u)

(* A slave has an older version of a table only while a commit is on its   *)
(* way there.                                                              *)
Follows ==
  \A n \in Node, u \in Table :
    \/ data[n][u] = data[1][u]
    \/ data[n][u] = None
    \/ \E c \in Client : Commits(c, n, u)

AgreeInv ==
  /\ OwnerInv
  /\ \A c \in Client : HeldBy(c) /\ VisitsBy(c)
  /\ TablesOpen /\ Kept /\ Lags /\ Follows

(* It implies what the runs check. *)
LEMMA AgreeInvImplies == AgreeInv => ReplicasAgree
<1> SUFFICES ASSUME AgreeInv PROVE ReplicasAgree
  OBVIOUS
<1>1. ASSUME \A c \in Client : cli[c].op \in {"create", "delete", "commit"} => cli[c].at = 1,
             NEW n \in Node
      PROVE  data[n] = data[1]
  <2>1. data[n] \in Content /\ data[1] \in Content
    BY NNat, SMTT(40) DEF AgreeInv, OwnerInv, TypeOK, Node
  <2>2. ASSUME NEW u \in Table PROVE data[n][u] = data[1][u]
    <3>1. \A c \in Client : ~Creates(c, n, u) /\ ~Commits(c, n, u)
      BY <1>1, SMTT(40) DEF Creates, Commits
    <3> QED
      BY <3>1 DEF AgreeInv, Lags, Follows
  <2> QED
    BY <2>1, <2>2, SMTT(40) DEF Content
<1>2. ASSUME NEW c \in Client, cli[c].op = "open", NEW n \in Node
      PROVE  Finds(c, n) /\ tx[n].content[cli[c].table] = tx[1].content[cli[c].table]
  BY <1>2 DEF AgreeInv, HeldBy, VisitsBy, Has
<1> QED
  BY <1>1, <1>2 DEF ReplicasAgree

(* A client whose operation stays where it is and whose transactions stay  *)
(* as they are.                                                            *)
LEMMA OtherClient ==
  ASSUME AgreeInv, NEW d \in Client, cli'[d] = cli[d],
         \A n \in Node : Owned(d, n) => tx'[n] = tx[n],
         \A n \in Node : Owned(d, n)' => Owned(d, n),
         cli[d].op = "commit" /\ cli[d].at > 1 => data'[1][cli[d].table] = data[1][cli[d].table]
  PROVE  HeldBy(d)' /\ VisitsBy(d)'
<1>0. HeldBy(d) /\ VisitsBy(d)
  BY DEF AgreeInv
<1>1. \A n \in Node : Owned(d, n)' <=> Owned(d, n)
  BY DEF Owned
<1>2. \A n \in Node : Owned(d, n) => (Finds(d, n)' <=> Finds(d, n))
  BY DEF Finds
<1>3. HeldBy(d)'
  BY <1>0, <1>1, <1>2 DEF HeldBy
<1>4. \A n \in Node : Owned(d, n) => Has(d, n)' = Has(d, n)
  BY DEF Has
<1>5. 1 \in Node /\ (cli[d].op \in Calling => cli[d].at \in Node)
  BY NNat, SMTT(40) DEF AgreeInv, OwnerInv, CallOK, RecOK, Node
<1>6. VisitsBy(d)'
  <2> SUFFICES ASSUME NEW n \in Node
               PROVE  /\ cli[d].op = "open" => Has(d, n)' = Has(d, 1)'
                      /\ cli[d].op = "commit" =>
                           IF cli[d].at = 1 THEN Has(d, n)' = Has(d, 1)'
                           ELSE n >= cli[d].at => Has(d, n)' = data'[1][cli[d].table]
                      /\ cli[d].op = "write" =>
                           IF cli[d].at = 1 \/ n < cli[d].at THEN Has(d, n)' = Has(d, 1)'
                           ELSE /\ WriteAllowed(tx'[n].content, cli[d].table, cli[d].write)
                                /\ Written(tx'[n].content, cli[d].table, cli[d].write)[cli[d].table] = Has(d, 1)'
    BY DEF VisitsBy
  <2>1. CASE cli[d].op = "open"
    BY <1>0, <1>4, <1>5, <2>1 DEF HeldBy, VisitsBy
  <2>2. CASE cli[d].op = "commit"
    <3>1. \A m \in Node : Owned(d, m) <=> m >= cli[d].at
      BY <1>0, <2>2 DEF HeldBy
    <3>2. cli[d].at \in Node
      BY <1>5, <2>2 DEF Calling
    <3>3. CASE cli[d].at = 1
      <4>1. Owned(d, n) /\ Owned(d, 1)
        BY <1>5, <3>1, <3>3, SMTT(40) DEF Node
      <4> QED
        BY <1>0, <1>4, <1>5, <2>2, <3>3, <4>1 DEF VisitsBy
    <3>4. CASE cli[d].at > 1
      BY <1>0, <1>4, <2>2, <3>1, <3>4, SMTT(40) DEF VisitsBy
    <3> QED
      BY <2>2, <3>2, <3>3, <3>4, SMTT(40) DEF Node
  <2>3. CASE cli[d].op = "write"
    <3>1. Owned(d, n) /\ Owned(d, 1)
      BY <1>0, <1>5, <2>3 DEF HeldBy
    <3>2. tx'[n] = tx[n] /\ Has(d, n)' = Has(d, n) /\ Has(d, 1)' = Has(d, 1)
      BY <1>4, <1>5, <3>1
    <3> QED
      BY <1>0, <2>3, <3>2 DEF VisitsBy
  <2> QED
    BY <2>1, <2>2, <2>3
<1> QED
  BY <1>3, <1>6

(* A step that leaves the files alone, and the operations on their way     *)
(* from the master to the slaves.                                          *)
LEMMA KeepsFiles ==
  ASSUME AgreeInv, UNCHANGED <<data, openedTables, tables>>,
         \A d \in Client : cli[d].op \in {"create", "commit"} =>
           /\ cli'[d].op = cli[d].op /\ cli'[d].at = cli[d].at /\ cli'[d].table = cli[d].table,
         \A d \in Client : cli'[d].op = "create" => cli[d].op = "create" \/ cli'[d].at = 1
  PROVE  TablesOpen' /\ Lags' /\ Follows'
<1>1. \A d \in Client, n \in Node, u \in Table :
        (Creates(d, n, u) => Creates(d, n, u)') /\ (Commits(d, n, u) => Commits(d, n, u)')
  BY DEF Creates, Commits
<1>2. TablesOpen'
  BY SMTT(40) DEF AgreeInv, TablesOpen, Node
<1>3. Lags'
  BY <1>1 DEF AgreeInv, Lags
<1>4. Follows'
  BY <1>1 DEF AgreeInv, Follows
<1> QED
  BY <1>2, <1>3, <1>4

(* A step that leaves the open transactions and the files alone. *)
LEMMA KeepsKept ==
  ASSUME AgreeInv, UNCHANGED <<data, tx>>,
         \A d \in Client : cli'[d].op = "begin" => cli[d].op \in {"begin", "idle"}
  PROVE  Kept'
<1> SUFFICES ASSUME NEW n \in Node, tx[n] # None, NEW u \in Table,
                    u # tx[n].table \/ cli'[tx[n].owner].op = "begin"
             PROVE  tx[n].content[u] = data[n][u]
  BY DEF Kept
<1>1. tx[n].owner \in Client
  BY DEF AgreeInv, OwnerInv, TypeOK, Tx
<1>2. cli[tx[n].owner].op # "idle"
  BY <1>1 DEF AgreeInv, HeldBy, Owned
<1> QED
  BY <1>1, <1>2 DEF AgreeInv, Kept

(* What holds after every step holds after a calm one. *)
LEMMA CalmIsNext == CalmNext => Next
BY DEF Next

(* The steps that start an operation. *)
LEMMA AgreeStart ==
  ASSUME AgreeInv, OwnerInv', NEW c \in Client,
         \/ \E t \in Table : StartTable(c, "create", t) \/ StartBegin(c, t)
         \/ \E w \in Write : StartWrite(c, w)
         \/ \E op \in {"commit", "rollback"} : StartEnd(c, op)
  PROVE  AgreeInv'
<1>0. TypeOK /\ cli[c] \in Cli /\ HeldBy(c) /\ VisitsBy(c) /\ 1 \in Node
  BY NNat, SMTT(40) DEF AgreeInv, OwnerInv, TypeOK, Node
<1>1. PICK q \in Cli :
        /\ cli' = [cli EXCEPT ![c] = q]
        /\ UNCHANGED <<data, openedTables, tx, nextTxId, tables>>
        /\ q.at = 1
        /\ \/ cli[c].op = "idle" /\ q.op \in {"create", "begin"}
           \/ /\ cli[c].op = "open" /\ q.op \in {"write", "commit", "rollback"}
              /\ q.table = cli[c].table /\ q.ids = cli[c].ids
  <2>1. CASE \E t \in Table : StartTable(c, "create", t) \/ StartBegin(c, t)
    <3> PICK t \in Table : StartTable(c, "create", t) \/ StartBegin(c, t)
      BY <2>1
    <3>1. PICK o \in {"create", "begin"} :
            /\ cli' = [cli EXCEPT ![c] = StartRec(o, t)]
            /\ UNCHANGED <<data, openedTables, tx, nextTxId, tables>> /\ cli[c].op = "idle"
      BY Zenon DEF StartTable, StartBegin, Set, IsIdle, StartRec
    <3>2. o \in Calling
      BY DEF Calling
    <3> DEFINE z == StartRec(o, t)
    <3>3. /\ z \in Cli /\ z.op = o /\ z.at = 1 /\ z.wait = FALSE /\ z.table = t
          /\ z.ids = Idle.ids
      BY <3>2, StartIs, ZenonT(40)
    <3>4. cli' = [cli EXCEPT ![c] = z] /\ cli[c].op = "idle" /\ UNCHANGED <<data, openedTables, tx, nextTxId, tables>>
      BY <3>1
    <3> HIDE DEF z
    <3> QED
      BY <3>3, <3>4
  <2>2. CASE \E w \in Write : StartWrite(c, w)
    <3> PICK w \in Write : StartWrite(c, w)
      BY <2>2
    <3> DEFINE z == [cli[c] EXCEPT !.op = "write", !.at = 1, !.write = w]
    <3>1. z \in Cli /\ z.op = "write" /\ z.at = 1 /\ z.table = cli[c].table /\ z.ids = cli[c].ids
      BY <1>0, StartWriteIs
    <3>2. cli' = [cli EXCEPT ![c] = z] /\ cli[c].op = "open" /\ UNCHANGED <<data, openedTables, tx, nextTxId, tables>>
      BY DEF StartWrite, Set
    <3> HIDE DEF z
    <3> QED
      BY <3>1, <3>2
  <2>3. CASE \E op \in {"commit", "rollback"} : StartEnd(c, op)
    <3> PICK op \in {"commit", "rollback"} : StartEnd(c, op)
      BY <2>3
    <3>1. op \in OpName
      BY OpNames
    <3> DEFINE z == [cli[c] EXCEPT !.op = op, !.at = 1]
    <3>2. z \in Cli /\ z.op = op /\ z.at = 1 /\ z.table = cli[c].table /\ z.ids = cli[c].ids
      BY <1>0, <3>1, StartEndIs
    <3>3. cli' = [cli EXCEPT ![c] = z] /\ cli[c].op = "open" /\ UNCHANGED <<data, openedTables, tx, nextTxId, tables>>
      BY DEF StartEnd, Set
    <3> HIDE DEF z
    <3> QED
      BY <3>2, <3>3
  <2> QED
    BY <2>1, <2>2, <2>3
<1>2. cli'[c] = q /\ \A d \in Client \ {c} : cli'[d] = cli[d]
  BY <1>0, <1>1 DEF TypeOK
<1>3. \A d \in Client \ {c} : HeldBy(d)' /\ VisitsBy(d)'
  BY <1>1, <1>2, OtherClient DEF Owned
<1>4. \A n \in Node : Owned(c, n)' <=> Owned(c, n)
  BY <1>1 DEF Owned
<1>5. HeldBy(c)'
  <2>1. CASE cli[c].op = "idle"
    BY <1>0, <1>1, <1>2, <1>4, <2>1, SMTT(60) DEF HeldBy, Node
  <2>2. CASE cli[c].op = "open"
    <3>1. \A n \in Node : Owned(c, n)' /\ Finds(c, n)' /\ tx'[n].table = cli'[c].table
      BY <1>0, <1>1, <1>2, <1>4, <2>2, SMTT(40) DEF HeldBy, Finds
    <3>2. q.op \in {"write", "commit", "rollback"} /\ q.at = 1
      BY <1>1, <2>2
    <3> QED
      BY <1>2, <3>1, <3>2, SMTT(60) DEF HeldBy, Node
  <2> QED
    BY <1>1, <2>1, <2>2
<1>6. VisitsBy(c)'
  <2>1. CASE cli[c].op = "idle"
    BY <1>1, <1>2, <2>1 DEF VisitsBy
  <2>2. CASE cli[c].op = "open"
    <3>1. \A n \in Node : Has(c, n)' = Has(c, 1)'
      BY <1>0, <1>1, <1>2, <2>2, SMTT(60) DEF VisitsBy, Has
    <3>2. q.op \in {"write", "commit", "rollback"} /\ q.at = 1
      BY <1>1, <2>2
    <3> QED
      BY <1>2, <3>1, <3>2 DEF VisitsBy
  <2> QED
    BY <1>1, <2>1, <2>2
<1>7. TablesOpen' /\ Lags' /\ Follows'
  BY <1>1, <1>2, KeepsFiles
<1>8. Kept'
  BY <1>1, <1>2, KeepsKept
<1> QED
  BY <1>2, <1>3, <1>5, <1>6, <1>7, <1>8 DEF AgreeInv

(* A handler waits for the file, or nothing happens. *)
LEMMA AgreeWait ==
  ASSUME AgreeInv, OwnerInv', UNCHANGED <<data, openedTables, tx, tables>>,
         \A d \in Client : /\ cli'[d].op = cli[d].op /\ cli'[d].at = cli[d].at /\ cli'[d].table = cli[d].table
                           /\ cli'[d].ids = cli[d].ids /\ cli'[d].write = cli[d].write
  PROVE  AgreeInv'
<1>1. \A d \in Client : HeldBy(d)'
  BY SMTT(60) DEF AgreeInv, HeldBy, Owned, Finds
<1>2. ASSUME NEW d \in Client PROVE VisitsBy(d)'
  <2>1. VisitsBy(d)
    BY DEF AgreeInv
  <2> QED
    BY <2>1, SMTT(40) DEF VisitsBy, Has
<1>3. TablesOpen' /\ Lags' /\ Follows'
  BY KeepsFiles
<1>4. Kept'
  BY KeepsKept
<1> QED
  BY <1>1, <1>2, <1>3, <1>4 DEF AgreeInv

(* CreateOrGetTable of a node that has the table: c goes on.  It was not   *)
(* what kept the node behind.                                              *)
LEMMA AgreeCreated ==
  ASSUME AgreeInv, OwnerInv', NEW c \in Client, NEW n \in Node, cli[c].op = "create", cli[c].at = n,
         cli' = [cli EXCEPT ![c] = Replied(cli[c])], GotTable(c, n),
         UNCHANGED tx,
         data' = [data EXCEPT ![n] = WithTable(data[n], cli[c].table)],
         openedTables' = [openedTables EXCEPT ![n] = openedTables[n] \cup {cli[c].table}],
         tx[n] = None \/ data' = data
  PROVE  AgreeInv'
<1> DEFINE r == cli[c]
           t == cli[c].table
           q == Replied(r)
<1>0. /\ TypeOK /\ r \in Cli /\ t \in Table /\ HeldBy(c) /\ 1 \in Node
      /\ data[1] \in Content /\ data[n] \in Content
  BY NNat, SMTT(40) DEF AgreeInv, OwnerInv, TypeOK, CallOK, RecOK, Node
<1>1. r.op \in Calling /\ Up[t] \subseteq Table /\ None \notin Bucket
  BY <1>0, KVAssumption DEF Calling
<1>2. /\ n < N => q.op = "create" /\ q.at = n + 1 /\ q.table = t
      /\ n = N => q = Idle
  BY <1>0, <1>1, RepliedIs
<1>3. cli'[c] = q /\ \A d \in Client \ {c} : cli'[d] = cli[d]
  BY <1>0 DEF TypeOK
<1> HIDE DEF r, t, q
<1>4. n < N \/ n = N
  BY NNat, SMTT(40) DEF Node
<1>5. Empty # None
  BY <1>0, <1>1, ContentFacts
<1>6. /\ \A m \in Node \ {n} : data'[m] = data[m] /\ openedTables'[m] = openedTables[m]
      /\ openedTables'[n] = openedTables[n] \cup {t}
      /\ \A u \in Table : data'[n][u] = IF u \in Up[t] /\ data[n][u] = None THEN Empty ELSE data[n][u]
  BY <1>0 DEF TypeOK, WithTable, t
<1>7. \A m \in Node, u \in Table : data[m][u] # None => data'[m][u] = data[m][u]
  BY <1>6, SMTT(40)
<1>8. ASSUME NEW d \in Client \ {c} PROVE HeldBy(d)' /\ VisitsBy(d)'
  <2>1. ASSUME cli[d].op = "commit" PROVE data'[1][cli[d].table] = data[1][cli[d].table]
    <3>1. cli[d].table \in tables /\ cli[d].table \in Table
      BY <2>1 DEF AgreeInv, OwnerInv, CallOK, RecOK, TypeOK
    <3>2. data[1][cli[d].table] # None
      BY <1>0, <3>1, KVAssumption DEF AgreeInv, TablesOpen
    <3> QED
      BY <1>0, <1>7, <3>1, <3>2
  <2> QED
    BY <1>3, <2>1, OtherClient DEF Owned
<1>9. \A m \in Node : ~Owned(c, m)'
  BY <1>0 DEF HeldBy, Owned
<1>10. cli'[c].op \in {"create", "idle"}
  BY <1>2, <1>3, <1>4, IdleIs
<1>11. HeldBy(c)' /\ VisitsBy(c)'
  BY <1>9, <1>10 DEF HeldBy, VisitsBy
<1>12. \A m \in Node : m <= n => t \in openedTables'[m]
  <2>1. \A m \in Node : m < n => t \in openedTables[m]
    BY DEF AgreeInv, TablesOpen, t
  <2> QED
    BY <1>6, <2>1, NNat, SMTT(60) DEF Node
<1>13. TablesOpen'
  <2> SUFFICES ASSUME NEW m \in Node
               PROVE  /\ tables' \subseteq openedTables'[m]
                      /\ \A d \in Client : cli'[d].op = "create" /\ m < cli'[d].at => cli'[d].table \in openedTables'[m]
                      /\ \A v \in openedTables'[m] : \A u \in Up[v] : data'[m][u] # None
    BY DEF TablesOpen
  <2>0. /\ tables \subseteq openedTables[m]
        /\ \A d \in Client : cli[d].op = "create" /\ m < cli[d].at => cli[d].table \in openedTables[m]
        /\ \A v \in openedTables[m] : \A u \in Up[v] : data[m][u] # None
    BY DEF AgreeInv, TablesOpen
  <2>1. openedTables[m] \subseteq openedTables'[m]
    BY <1>6
  <2>2. tables' \subseteq openedTables'[m]
    <3>1. tables' = tables \/ (n = N /\ tables' = tables \cup {t})
      BY DEF GotTable, t
    <3>2. n = N => t \in openedTables'[m]
      BY <1>12, NNat, SMTT(40) DEF Node
    <3> QED
      BY <2>0, <2>1, <3>1, <3>2
  <2>3. ASSUME NEW d \in Client, cli'[d].op = "create", m < cli'[d].at
        PROVE  cli'[d].table \in openedTables'[m]
    <3>1. CASE d = c
      <4>1. n < N /\ cli'[d].table = t /\ cli'[d].at = n + 1
        BY <1>2, <1>3, <1>4, <2>3, <3>1, IdleIs
      <4>2. m <= n
        BY <2>3, <4>1, SMTT(40) DEF Node
      <4> QED
        BY <1>12, <4>1, <4>2
    <3>2. CASE d # c
      BY <1>3, <2>0, <2>1, <2>3, <3>2
    <3> QED
      BY <3>1, <3>2
  <2>4. ASSUME NEW v \in openedTables'[m], NEW u \in Up[v] PROVE data'[m][u] # None
    <3>1. v \in Table /\ u \in Table
      BY <1>0, <1>6, KVAssumption, SMTT(60) DEF TypeOK
    <3>2. CASE v \in openedTables[m]
      BY <1>7, <2>0, <3>1, <3>2
    <3>3. CASE v \notin openedTables[m]
      <4>1. m = n /\ v = t
        BY <1>6, <3>3
      <4> QED
        BY <1>5, <1>6, <3>1, <4>1, SMTT(60)
    <3> QED
      BY <3>2, <3>3
  <2> QED
    BY <2>2, <2>3, <2>4
<1>14. Kept'
  <2> SUFFICES ASSUME NEW m \in Node, tx[m] # None, NEW u \in Table,
                      u # tx[m].table \/ cli'[tx[m].owner].op = "begin"
               PROVE  tx[m].content[u] = data'[m][u]
    BY SMTT(60) DEF Kept
  <2>1. data'[m] = data[m]
    BY <1>6
  <2>2. tx[m].owner \in Client /\ tx[m].owner # c
    BY <1>0 DEF TypeOK, Tx, HeldBy, Owned
  <2> QED
    BY <1>3, <2>1, <2>2, SMTT(60) DEF AgreeInv, Kept
<1>15. ASSUME NEW d \in Client, NEW m \in Node, NEW u \in Table, Commits(d, m, u) PROVE Commits(d, m, u)'
  BY <1>3, <1>15 DEF Commits
<1>16. ASSUME NEW d \in Client, NEW m \in Node, NEW u \in Table, Creates(d, m, u), data'[m][u] = None
       PROVE  Creates(d, m, u)'
  <2>1. CASE d = c
    <3>1. u \in Up[t] /\ 1 < n /\ n <= m
      BY <1>16, <2>1 DEF Creates, t
    <3>2. m # n
      BY <1>5, <1>6, <1>16, <3>1, SMTT(60)
    <3>3. n < N /\ n + 1 <= m
      BY <3>1, <3>2, NNat, SMTT(60) DEF Node
    <3> QED
      BY <1>2, <1>3, <2>1, <3>1, <3>3, NNat, SMTT(40) DEF Creates, Node
  <2>2. CASE d # c
    BY <1>3, <1>16, <2>2 DEF Creates
  <2> QED
    BY <2>1, <2>2
<1>17. ASSUME n = 1 PROVE Lags' /\ Follows'
  <2>1. ASSUME NEW m \in Node, NEW u \in Table
        PROVE  /\ data'[1][u] = None => data'[m][u] = None
               /\ data'[1][u] # None /\ data'[m][u] = None =>
                    data'[1][u] = Empty /\ \E d \in Client : Creates(d, m, u)'
               /\ \/ data'[m][u] = data'[1][u]
                  \/ data'[m][u] = None
                  \/ \E d \in Client : Commits(d, m, u)'
    <3>0. /\ data[1][u] = None => data[m][u] = None
          /\ data[1][u] # None /\ data[m][u] = None =>
               data[1][u] = Empty /\ \E d \in Client : Creates(d, m, u)
          /\ data[m][u] = data[1][u] \/ data[m][u] = None \/ \E d \in Client : Commits(d, m, u)
      BY DEF AgreeInv, Lags, Follows
    <3>1. CASE m = 1
      BY <3>1
    <3>2. CASE m # 1 /\ u \in Up[t] /\ data[1][u] = None
      <4>1. data'[1][u] = Empty /\ data'[m][u] = None
        BY <1>0, <1>6, <1>17, <3>0, <3>2
      <4>2. Creates(c, m, u)'
        BY <1>2, <1>3, <1>17, <3>2, NNat, SMTT(60) DEF Creates, Node
      <4> QED
        BY <1>5, <4>1, <4>2
    <3>3. CASE m # 1 /\ ~(u \in Up[t] /\ data[1][u] = None)
      <4>1. data'[1][u] = data[1][u] /\ data'[m][u] = data[m][u]
        BY <1>0, <1>6, <1>17, <3>3, SMTT(60)
      <4> QED
        BY <1>15, <1>16, <3>0, <4>1
    <3> QED
      BY <3>1, <3>2, <3>3
  <2>2. Lags'
    <3> SUFFICES ASSUME NEW m \in Node, NEW u \in Table
                 PROVE  /\ data'[1][u] = None => data'[m][u] = None
                        /\ data'[1][u] # None /\ data'[m][u] = None =>
                             data'[1][u] = Empty /\ \E d \in Client : Creates(d, m, u)'
      BY DEF Lags, Empty
    <3> QED
      BY <2>1
  <2>3. Follows'
    BY <2>1 DEF Follows
  <2> QED
    BY <2>2, <2>3
<1>18. ASSUME n # 1 PROVE Lags' /\ Follows'
  <2>1. ASSUME NEW m \in Node, NEW u \in Table
        PROVE  /\ data'[1][u] = None => data'[m][u] = None
               /\ data'[1][u] # None /\ data'[m][u] = None =>
                    data'[1][u] = Empty /\ \E d \in Client : Creates(d, m, u)'
               /\ \/ data'[m][u] = data'[1][u]
                  \/ data'[m][u] = None
                  \/ \E d \in Client : Commits(d, m, u)'
    <3>0. /\ data[1][u] = None => data[m][u] = None
          /\ data[1][u] # None /\ data[m][u] = None =>
               data[1][u] = Empty /\ \E d \in Client : Creates(d, m, u)
          /\ data[m][u] = data[1][u] \/ data[m][u] = None \/ \E d \in Client : Commits(d, m, u)
      BY DEF AgreeInv, Lags, Follows
    <3>1. data'[1] = data[1]
      BY <1>0, <1>6, <1>18
    <3>2. CASE m = n /\ u \in Up[t] /\ data[m][u] = None
      <4>1. t \in openedTables[1]
        BY <1>0, <1>18, NNat, SMTT(60) DEF AgreeInv, TablesOpen, Node, t
      <4>2. data[1][u] # None
        BY <1>0, <3>2, <4>1 DEF AgreeInv, TablesOpen
      <4> QED
        BY <1>5, <1>6, <3>0, <3>1, <3>2, <4>2
    <3>3. CASE ~(m = n /\ u \in Up[t] /\ data[m][u] = None)
      <4>1. data'[m][u] = data[m][u]
        BY <1>6, <3>3, SMTT(60)
      <4> QED
        BY <1>15, <1>16, <3>0, <3>1, <4>1
    <3> QED
      BY <3>2, <3>3
  <2>2. Lags'
    <3> SUFFICES ASSUME NEW m \in Node, NEW u \in Table
                 PROVE  /\ data'[1][u] = None => data'[m][u] = None
                        /\ data'[1][u] # None /\ data'[m][u] = None =>
                             data'[1][u] = Empty /\ \E d \in Client : Creates(d, m, u)'
      BY DEF Lags, Empty
    <3> QED
      BY <2>1
  <2>3. Follows'
    BY <2>1 DEF Follows
  <2> QED
    BY <2>2, <2>3
<1> QED
  BY <1>3, <1>8, <1>11, <1>13, <1>14, <1>17, <1>18 DEF AgreeInv

(* BeginTransaction: c has one node more. *)
LEMMA AgreeBegin ==
  ASSUME AgreeInv, OwnerInv', NEW c \in Client, NEW n \in Node, BeginInFile(c, n)
  PROVE  AgreeInv'
<1> DEFINE r == cli[c]
           t == cli[c].table
           id == NewId(n)
           q == [r EXCEPT !.ids[n] = id]
           x == [id |-> id, owner |-> c, table |-> t, content |-> WithTable(data[n], t)]
<1>0. /\ TypeOK /\ r \in Cli /\ RecOK(r, tables) /\ HeldBy(c) /\ 1 \in Node /\ data[n] \in Content
      /\ TablesOpen /\ Kept /\ Lags /\ Follows
  BY NNat, SMTT(40) DEF AgreeInv, OwnerInv, TypeOK, CallOK, Node
<1>1. id \in Nat
  BY <1>0, SMTT(40) DEF TypeOK, NewId
<1>2. /\ r.op = "begin" /\ r.at = n /\ UNCHANGED <<data, openedTables, tables>> /\ tx[n] = None
      /\ tx' = [tx EXCEPT ![n] = x]
      /\ cli' = [cli EXCEPT ![c] = Replied(q)]
  BY DEF BeginInFile, Waits, Set
<1>3. t \in tables /\ t \in Table
  BY <1>0, <1>2 DEF RecOK, TypeOK
<1> HIDE DEF id
<1>4. /\ q \in Cli /\ q.op = r.op /\ q.at = r.at /\ q.wait = r.wait
      /\ q.table = r.table /\ q.write = r.write
      /\ q.ids = [r.ids EXCEPT ![n] = id] /\ r.ids \in [Node -> Int]
  BY <1>0, <1>1, NewIdIs, SMTT(40)
<1>5. \A u \in Up[t] : data[n][u] # None
  BY <1>0, <1>3 DEF TablesOpen
<1>6. WithTable(data[n], t) = data[n]
  BY <1>0, <1>5 DEF WithTable, Content
<1>7. x # None /\ x.id = id /\ x.owner = c /\ x.table = t /\ x.content = data[n]
  <2>1. x \in Tx
    BY <1>0, <1>1, <1>3, <1>6, SMTT(40) DEF Tx
  <2> QED
    BY <2>1, <1>6, KVAssumption
<1> HIDE DEF q, x
<1>8. tx'[n] = x /\ \A m \in Node \ {n} : tx'[m] = tx[m]
  BY <1>0, <1>2 DEF TypeOK
<1>9. cli'[c] = Replied(q) /\ \A d \in Client \ {c} : cli'[d] = cli[d]
  BY <1>0, <1>2 DEF TypeOK
<1>10. q.at \in Node /\ q.op \in Calling
  BY <1>2, <1>4 DEF Calling
<1>11. /\ Replied(q).table = t /\ Replied(q).ids = [r.ids EXCEPT ![n] = id]
       /\ n < N => Replied(q).op = "begin" /\ Replied(q).at = n + 1
       /\ n = N => Replied(q).op = "open"
  <2>1. q \in Cli /\ q.at = n /\ q.op = "begin"
    BY <1>2, <1>4
  <2>2. Replied(q).table = q.table /\ Replied(q).ids = q.ids
    BY <1>10, <2>1, RepliedIs, ZenonT(40)
  <2>3. n < N => Replied(q).op = "begin" /\ Replied(q).at = n + 1
    BY <1>10, <2>1, RepliedIs, ZenonT(40)
  <2>4. n = N => Replied(q).op = "open"
    BY <1>10, <2>1, RepliedIs, ZenonT(40)
  <2> QED
    BY <1>4, <2>2, <2>3, <2>4
<1>12. n < N \/ n = N
  BY NNat, SMTT(40) DEF Node
<1>13. ASSUME NEW d \in Client \ {c} PROVE HeldBy(d)' /\ VisitsBy(d)'
  <2>1. \A m \in Node : Owned(d, m) => tx'[m] = tx[m]
    BY <1>2, <1>8 DEF Owned
  <2>2. \A m \in Node : Owned(d, m)' => Owned(d, m)
    BY <1>7, <1>8 DEF Owned
  <2> QED
    BY <1>2, <1>9, <2>1, <2>2, OtherClient
<1>14. \A m \in Node : Owned(c, m) <=> m < n
  BY <1>0, <1>2 DEF HeldBy
<1>15. \A m \in Node : Owned(c, m)' <=> m <= n
  <2>1. Owned(c, n)'
    BY <1>7, <1>8 DEF Owned
  <2>2. \A m \in Node \ {n} : Owned(c, m)' <=> Owned(c, m)
    BY <1>8 DEF Owned
  <2> QED
    BY <1>14, <2>1, <2>2, NNat, SMTT(40) DEF Node
<1>16. ASSUME NEW m \in Node, m <= n PROVE Finds(c, m)' /\ tx'[m].table = cli'[c].table
  <2>1. CASE m = n
    BY <1>4, <1>7, <1>8, <1>9, <1>11, <2>1, SMTT(60) DEF Finds
  <2>2. CASE m # n
    <3>1. Owned(c, m)
      BY <1>14, <1>16, <2>2, NNat, SMTT(40) DEF Node
    <3>2. Finds(c, m) /\ tx[m].table = t
      BY <1>0, <3>1 DEF HeldBy
    <3>3. cli'[c].ids[m] = r.ids[m]
      BY <1>4, <1>9, <1>11, <2>2, SMTT(60)
    <3> QED
      BY <1>8, <1>9, <1>11, <2>2, <3>2, <3>3 DEF Finds
  <2> QED
    BY <2>1, <2>2
<1>17. HeldBy(c)'
  <2>1. CASE n < N
    <3>1. cli'[c].op = "begin" /\ cli'[c].at = n + 1
      BY <1>9, <1>11, <2>1
    <3>2. \A m \in Node : m <= n <=> m < n + 1
      BY NNat, SMTT(40) DEF Node
    <3> QED
      BY <1>15, <1>16, <3>1, <3>2 DEF HeldBy
  <2>2. CASE n = N
    <3>1. cli'[c].op = "open"
      BY <1>9, <1>11, <2>2
    <3>2. \A m \in Node : m <= n
      BY <2>2, NNat, SMTT(40) DEF Node
    <3> QED
      BY <1>15, <1>16, <3>1, <3>2 DEF HeldBy
  <2> QED
    BY <1>12, <2>1, <2>2
<1>18. ASSUME NEW m \in Node, m <= n PROVE tx'[m].content[t] = data[1][t]
  <2>1. tx'[m].content[t] = data[m][t]
    <3>1. CASE m = n
      BY <1>7, <1>8, <3>1
    <3>2. CASE m # n
      <4>1. Owned(c, m)
        BY <1>14, <1>18, <3>2, NNat, SMTT(40) DEF Node
      <4> QED
        BY <1>0, <1>2, <1>3, <1>8, <3>2, <4>1, SMTT(60) DEF Kept, Owned
    <3> QED
      BY <3>1, <3>2
  <2>2. data[m][t] # None
    BY <1>0, <1>3, KVAssumption DEF TablesOpen
  <2>3. \A d \in Client : ~Commits(d, m, t)
    <3> SUFFICES ASSUME NEW d \in Client, Commits(d, m, t) PROVE FALSE
      OBVIOUS
    <3>1. Owned(d, m) /\ d # c
      BY <1>2 DEF Commits, AgreeInv, HeldBy
    <3>2. m = n \/ Owned(c, m)
      BY <1>14, <1>18, NNat, SMTT(40) DEF Node
    <3> QED
      BY <1>2, <3>1, <3>2 DEF Owned
  <2> QED
    BY <1>0, <1>3, <2>1, <2>2, <2>3 DEF Follows
<1>19. VisitsBy(c)'
  <2>1. CASE n < N
    BY <1>9, <1>11, <2>1 DEF VisitsBy
  <2>2. CASE n = N
    <3>1. \A m \in Node : m <= n
      BY <2>2, NNat, SMTT(40) DEF Node
    <3>2. \A m \in Node : Has(c, m)' = Has(c, 1)'
      BY <1>0, <1>9, <1>11, <1>18, <3>1, SMTT(60) DEF Has
    <3> QED
      BY <1>9, <1>11, <2>2, <3>2 DEF VisitsBy
  <2> QED
    BY <1>12, <2>1, <2>2
<1>20. TablesOpen' /\ Lags' /\ Follows'
  <2>1. cli'[c].op \in {"begin", "open"}
    BY <1>9, <1>11, <1>12
  <2> QED
    BY <1>2, <1>9, <2>1, KeepsFiles
<1>21. Kept'
  <2> SUFFICES ASSUME NEW m \in Node, tx'[m] # None, NEW u \in Table,
                      u # tx'[m].table \/ cli'[tx'[m].owner].op = "begin"
               PROVE  tx'[m].content[u] = data[m][u]
    BY <1>2, SMTT(60) DEF Kept
  <2>1. CASE m = n
    BY <1>7, <1>8, <2>1
  <2>2. CASE m # n
    <3>1. tx'[m] = tx[m] /\ tx[m].owner \in Client
      BY <1>0, <1>8, <2>2 DEF TypeOK, Tx
    <3>2. cli'[tx[m].owner].op = "begin" => cli[tx[m].owner].op = "begin"
      BY <1>2, <1>9, <3>1
    <3> QED
      BY <1>0, <3>1, <3>2 DEF Kept
  <2> QED
    BY <2>1, <2>2
<1> QED
  BY <1>9, <1>13, <1>17, <1>19, <1>20, <1>21 DEF AgreeInv

-----------------------------------------------------------------------------
(* Facts about a client in a transaction that the next lemmas share. *)
LEMMA InTransactionFacts ==
  ASSUME AgreeInv, NEW c \in Client, InTransaction(c)
  PROVE  /\ cli[c] \in Cli /\ cli[c].at \in Node /\ cli[c].op \in Calling
         /\ cli[c].table \in tables /\ cli[c].table \in Table
         /\ 1 \in Node /\ TypeOK /\ HeldBy(c) /\ VisitsBy(c) /\ TablesOpen /\ Kept /\ Lags /\ Follows
         /\ \A n \in Node : Owned(c, n) <=> Finds(c, n)
<1>1. RecOK(cli[c], tables) /\ tables \in SUBSET Table /\ TypeOK /\ IdsOK
  BY DEF AgreeInv, OwnerInv, TypeOK, CallOK
<1>2. cli[c].op \in Calling
  BY DEF InTransaction, Calling
<1>3. \A n \in Node : Owned(c, n) <=> Finds(c, n)
  BY <1>1, SMTT(60) DEF AgreeInv, HeldBy, Finds, Owned, IdsOK
<1> QED
  BY <1>1, <1>2, <1>3, NNat, SMTT(60) DEF AgreeInv, RecOK, InTransaction, Node

(* The proxy leaves out no node, and only the Rollback after a Commit does *)
(* not find its transaction.                                               *)
LEMMA AgreeNotServed ==
  ASSUME AgreeInv, OwnerInv', NEW c \in Client, NEW n \in Node, NotServed(c, n)
  PROVE  AgreeInv'
<1>0. /\ InTransaction(c) /\ cli[c].at = n /\ UNCHANGED <<data, openedTables, tx, nextTxId, tables>>
      /\ Skipped(c, n) \/ (~Finds(c, n) /\ cli' = [cli EXCEPT ![c] = Failed(cli[c])])
  BY DEF NotServed, Set
<1>1. /\ cli[c] \in Cli /\ cli[c].at \in Node /\ cli[c].op \in Calling
      /\ TypeOK /\ HeldBy(c) /\ \A m \in Node : Owned(c, m) <=> Finds(c, m)
  BY <1>0, InTransactionFacts
<1>2. Owned(c, n) => ~Skipped(c, n)
  <2>1. tx[n] # None => tx[n].id \in 1 .. nextTxId[n]
    BY DEF AgreeInv, OwnerInv, IdsOK
  <2> QED
    BY <1>1, <2>1, SMTT(40) DEF Skipped, InvalidTxID, Finds
<1>3. cli[c].op \in {"write", "commit"} => Owned(c, n)
  BY <1>0, <1>1, NNat, SMTT(60) DEF HeldBy, Node
<1>4. cli[c].op = "rollback" /\ ~Owned(c, n) => n = 1 /\ \A m \in Node : ~Owned(c, m)
  BY <1>0, <1>1, NNat, SMTT(60) DEF HeldBy, Node
<1>5. cli[c].op = "rollback" /\ n = 1 /\ (\A m \in Node : ~Owned(c, m)) /\ ~Skipped(c, n)
  BY <1>0, <1>1, <1>2, <1>3, <1>4, SMTT(60) DEF InTransaction, Skipped
<1>6. Failed(cli[c]) = Idle
  BY <1>0, <1>1, <1>5, FailedIs, SMTT(60)
<1>7. cli'[c] = Idle /\ \A d \in Client \ {c} : cli'[d] = cli[d]
  BY <1>0, <1>1, <1>5, <1>6 DEF TypeOK
<1>8. \A d \in Client \ {c} : HeldBy(d)' /\ VisitsBy(d)'
  BY <1>0, <1>7, OtherClient DEF Owned
<1>9. HeldBy(c)' /\ VisitsBy(c)'
  BY <1>0, <1>5, <1>7, IdleIs DEF HeldBy, VisitsBy, Owned
<1>10. TablesOpen' /\ Lags' /\ Follows'
  BY <1>0, <1>5, <1>7, IdleIs, KeepsFiles
<1>11. Kept'
  BY <1>0, <1>7, IdleIs, KeepsKept
<1> QED
  BY <1>7, <1>8, <1>9, <1>10, <1>11 DEF AgreeInv

(* Whether a write succeeds, and what it makes of the table, depends on    *)
(* the table alone.                                                        *)
LEMMA SameTableSameWrite ==
  ASSUME NEW d \in Content, NEW e \in Content, NEW t \in Table, d[t] \in Bucket, d[t] = e[t], NEW w \in Write
  PROVE  /\ WriteAllowed(d, t, w) <=> WriteAllowed(e, t, w)
         /\ Written(d, t, w)[t] = Written(e, t, w)[t]
<1>1. WriteAllowed(d, t, w) <=> WriteAllowed(e, t, w)
  BY DEF WriteAllowed
<1>2. /\ Written(d, t, w)[t] = [d[t] EXCEPT ![w.key] = IF w.kind = "delete" THEN None ELSE w.val]
      /\ Written(e, t, w)[t] = [e[t] EXCEPT ![w.key] = IF w.kind = "delete" THEN None ELSE w.val]
  BY WrittenFacts, SMTT(40)
<1> QED
  BY <1>1, <1>2

(* The order of the nodes. *)
LEMMA NodeOrder ==
  ASSUME NEW m \in Node, NEW n \in Node
  PROVE  /\ ~(n < n) /\ (n < N \/ n = N)
         /\ m <= 1 => m = 1
         /\ m <= n /\ m # n => m < n
         /\ m > n => m # n /\ ~(m < n)
BY NNat, SMTT(40) DEF Node

(* The transactions that a step leaves to c are still the ones it asks for. *)
LEMMA StillHeld ==
  ASSUME NEW c \in Client, HeldBy(c), cli'[c].table = cli[c].table, cli'[c].ids = cli[c].ids,
         \A m \in Node : Owned(c, m)' => Owned(c, m) /\ tx'[m] = tx[m]
  PROVE  \A m \in Node : Owned(c, m)' => Finds(c, m)' /\ tx'[m].table = cli'[c].table
<1> SUFFICES ASSUME NEW m \in Node, Owned(c, m)'
             PROVE  Finds(c, m)' /\ tx'[m].table = cli'[c].table
  OBVIOUS
<1>1. Owned(c, m) /\ tx'[m] = tx[m]
  OBVIOUS
<1>2. Finds(c, m) /\ tx[m].table = cli[c].table
  BY <1>1 DEF HeldBy
<1> QED
  BY <1>1, <1>2 DEF Finds

(* What a write has done on the nodes it has visited, and will do on the rest. *)
LEMMA WriteVisits ==
  ASSUME NEW c \in Client, NEW m \in Node, NEW n \in Node, VisitsBy(c), cli[c].op = "write", cli[c].at = n
  PROVE  /\ n = 1 \/ m < n => Has(c, m) = Has(c, 1)
         /\ ~(n = 1 \/ m < n) =>
              /\ WriteAllowed(tx[m].content, cli[c].table, cli[c].write)
              /\ Written(tx[m].content, cli[c].table, cli[c].write)[cli[c].table] = Has(c, 1)
BY DEF VisitsBy

(* A write at the master decides; at a slave it does what it did there. *)
LEMMA AgreeWrite ==
  ASSUME AgreeInv, OwnerInv', NEW c \in Client, NEW n \in Node, WriteCall(c, n)
  PROVE  AgreeInv'
<1> DEFINE r == cli[c]
           t == cli[c].table
           w == cli[c].write
           y == Rewritten(tx[n], w)
<1>0. r.op = "write" /\ r.at = n /\ Finds(c, n) /\ UNCHANGED <<data, openedTables, nextTxId, tables>>
  BY DEF WriteCall, Calls
<1>1. InTransaction(c)
  BY <1>0 DEF InTransaction
<1>2. /\ r \in Cli /\ r.op \in Calling /\ t \in tables /\ t \in Table /\ 1 \in Node
      /\ TypeOK /\ HeldBy(c) /\ VisitsBy(c) /\ Kept
  BY <1>1, InTransactionFacts
<1>3. \A m \in Node : Owned(c, m) /\ Finds(c, m) /\ tx[m].table = t
  BY <1>0, <1>2 DEF HeldBy
<1>4. /\ w \in Write
      /\ \A m \in Node : tx[m] \in Tx /\ tx[m].content \in Content /\ tx[m].content[t] \in Bucket
  <2>1. w \in Write
    BY <1>0 DEF AgreeInv, OwnerInv, CallOK, RecOK
  <2>2. \A m \in Node : tx[m] \in Tx /\ tx[m].content \in Content
    BY <1>2, <1>3 DEF TypeOK, Owned, Tx
  <2>3. \A m \in Node : tx[m].content[t] \in Bucket
    BY <1>3 DEF AgreeInv, OwnerInv, IdsOK, Owned
  <2> QED
    BY <2>1, <2>2, <2>3
<1>5. CASE ~WriteAllowed(tx[n].content, t, w)
  <2>1. UNCHANGED tx /\ cli' = [cli EXCEPT ![c] = Failed(r)]
    BY <1>3, <1>5 DEF WriteCall, Set
  <2>2. n = 1
    BY <1>0, <1>2, <1>5, NodeOrder, WriteVisits
  <2>3. Failed(r).op = "rollback" /\ Failed(r).at = 1 /\ Failed(r).table = t /\ Failed(r).ids = r.ids
    BY <1>0, <1>2, <2>2, FailedIs
  <2>4. cli'[c] = Failed(r) /\ \A d \in Client \ {c} : cli'[d] = cli[d]
    BY <1>2, <2>1 DEF TypeOK
  <2>5. \A d \in Client \ {c} : HeldBy(d)' /\ VisitsBy(d)'
    BY <1>0, <2>1, <2>4, OtherClient DEF Owned
  <2>6. \A m \in Node : Owned(c, m)' /\ Finds(c, m)' /\ tx'[m].table = cli'[c].table
    BY <1>3, <2>1, <2>3, <2>4, SMTT(60) DEF Owned, Finds
  <2>7. HeldBy(c)' /\ VisitsBy(c)'
    <3>1. \A m \in Node : m >= 1
      BY SMTT(40) DEF Node
    <3> QED
      BY <2>3, <2>4, <2>6, <3>1 DEF HeldBy, VisitsBy
  <2>8. TablesOpen' /\ Lags' /\ Follows'
    BY <1>0, <2>3, <2>4, KeepsFiles
  <2>9. Kept'
    BY <1>0, <2>1, <2>3, <2>4, KeepsKept
  <2> QED
    BY <2>4, <2>5, <2>7, <2>8, <2>9 DEF AgreeInv
<1>6. CASE WriteAllowed(tx[n].content, t, w)
  <2>1. cli' = [cli EXCEPT ![c] = Replied(r)] /\ tx' = [tx EXCEPT ![n] = y]
    BY <1>3, <1>6 DEF WriteCall, Set, Rewritten
  <2>2. /\ y \in Tx /\ y.id = tx[n].id /\ y.owner = tx[n].owner /\ y.table = tx[n].table
        /\ y.content = Written(tx[n].content, t, w)
    BY <1>3, <1>4, RewrittenIs, SMTT(60)
  <2>3. y # None
    BY <2>2, KVAssumption
  <2> HIDE DEF y
  <2>4. tx'[n] = y /\ \A m \in Node \ {n} : tx'[m] = tx[m]
    BY <1>2, <2>1 DEF TypeOK
  <2>5. cli'[c] = Replied(r) /\ \A d \in Client \ {c} : cli'[d] = cli[d]
    BY <1>2, <2>1 DEF TypeOK
  <2>6. /\ Replied(r).table = t /\ Replied(r).ids = r.ids /\ Replied(r).write = w
        /\ n < N => Replied(r).op = "write" /\ Replied(r).at = n + 1
        /\ n = N => Replied(r).op = "open"
    BY <1>0, <1>2, RepliedIs
  <2>7. n < N \/ n = N
    BY NodeOrder
  <2>8. ASSUME NEW d \in Client \ {c} PROVE HeldBy(d)' /\ VisitsBy(d)'
    <3>1. \A m \in Node : ~Owned(d, m) /\ ~Owned(d, m)'
      BY <1>3, <2>2, <2>4, SMTT(60) DEF Owned
    <3> QED
      BY <1>0, <2>5, <3>1, OtherClient
  <2>9. \A m \in Node : Owned(c, m)' /\ Finds(c, m)' /\ tx'[m].table = cli'[c].table
    BY <1>3, <2>2, <2>3, <2>4, <2>5, <2>6, SMTT(60) DEF Owned, Finds
  <2>10. HeldBy(c)'
    BY <2>5, <2>6, <2>7, <2>9 DEF HeldBy
  <2>11. \A u \in Table \ {t} : y.content[u] = tx[n].content[u]
    <3>1. \A u \in Table \ {t} : Written(tx[n].content, t, w)[u] = tx[n].content[u]
      BY <1>4 DEF Written, Content
    <3> QED
      BY <2>2, <3>1
  <2>12. \A m \in Node : Has(c, m) = tx[m].content[t] /\ Has(c, m)' = tx'[m].content[t]
    BY <2>5, <2>6 DEF Has
  <2>13. ASSUME NEW m \in Node, m <= n PROVE Has(c, m)' = Has(c, 1)'
    <3>1. CASE n = 1
      BY <2>13, <3>1, NodeOrder
    <3>2. CASE n # 1 /\ m = n
      <4>1. Written(tx[n].content, t, w)[t] = Has(c, 1)
        BY <1>0, <1>2, <3>2, NodeOrder, WriteVisits
      <4> QED
        <5>1. tx'[m] = y /\ tx'[1] = tx[1]
          BY <1>2, <2>4, <3>2
        <5>2. Has(c, m)' = y.content[t] /\ Has(c, 1)' = Has(c, 1)
          BY <1>2, <2>12, <5>1
        <5> QED
          BY <2>2, <4>1, <5>2
    <3>3. CASE n # 1 /\ m # n
      <4>1. Has(c, m) = Has(c, 1)
        <5>1. m < n
          BY <2>13, <3>3, NodeOrder
        <5> QED
          BY <1>0, <1>2, <5>1, WriteVisits
      <4> QED
        <5>1. tx'[m] = tx[m] /\ tx'[1] = tx[1]
          BY <1>2, <2>4, <3>3
        <5> QED
          BY <1>2, <2>12, <4>1, <5>1
    <3> QED
      BY <3>1, <3>2, <3>3
  <2>14. ASSUME NEW m \in Node, m > n
         PROVE  WriteAllowed(tx'[m].content, t, w) /\ Written(tx'[m].content, t, w)[t] = Has(c, 1)'
    <3>0. tx'[m] = tx[m]
      BY <2>4, <2>14, NodeOrder
    <3>1. CASE n = 1
      <4>1. tx[m].content[t] = tx[n].content[t]
        <5>1. Has(c, m) = Has(c, 1)
          BY <1>0, <1>2, <3>1, WriteVisits
        <5> QED
          BY <2>12, <3>1, <5>1
      <4>2. /\ WriteAllowed(tx[m].content, t, w) <=> WriteAllowed(tx[n].content, t, w)
            /\ Written(tx[m].content, t, w)[t] = Written(tx[n].content, t, w)[t]
        BY <1>2, <1>4, <4>1, SameTableSameWrite
      <4> QED
        BY <1>6, <2>2, <2>4, <2>12, <3>0, <3>1, <4>2
    <3>2. CASE n # 1
      <4>1. WriteAllowed(tx[m].content, t, w) /\ Written(tx[m].content, t, w)[t] = Has(c, 1)
        BY <1>0, <1>2, <2>14, <3>2, NodeOrder, WriteVisits
      <4> QED
        BY <1>2, <2>4, <2>12, <3>0, <3>2, <4>1
    <3> QED
      BY <3>1, <3>2
  <2>15. VisitsBy(c)'
    <3>1. CASE n < N
      <4>1. cli'[c].op = "write" /\ cli'[c].at = n + 1 /\ cli'[c].at # 1 /\ cli'[c].table = t /\ cli'[c].write = w
        BY <2>5, <2>6, <3>1, NNat, SMTT(60) DEF Node
      <4>2. \A m \in Node : IF m < n + 1 THEN m <= n ELSE m > n
        BY NNat, SMTT(40) DEF Node
      <4> QED
        BY <2>13, <2>14, <4>1, <4>2 DEF VisitsBy
    <3>2. CASE n = N
      <4>1. \A m \in Node : m <= n
        BY <3>2, NNat, SMTT(40) DEF Node
      <4> QED
        BY <2>5, <2>6, <2>13, <3>2, <4>1 DEF VisitsBy
    <3> QED
      BY <2>7, <3>1, <3>2
  <2>16. TablesOpen' /\ Lags' /\ Follows'
    <3>1. cli'[c].op \in {"write", "open"}
      BY <2>5, <2>6, <2>7
    <3> QED
      BY <1>0, <2>5, <3>1, KeepsFiles
  <2>17. Kept'
    <3> SUFFICES ASSUME NEW m \in Node, tx'[m] # None, NEW u \in Table,
                        u # tx'[m].table \/ cli'[tx'[m].owner].op = "begin"
                 PROVE  tx'[m].content[u] = data[m][u]
      BY <1>0 DEF Kept
    <3>1. tx'[m].owner = c /\ cli'[c].op # "begin" /\ tx'[m].table = t
      BY <2>5, <2>6, <2>7, <2>9 DEF Owned
    <3>2. u # t /\ tx[m] # None /\ tx[m].table = t
      BY <1>3, <3>1 DEF Owned
    <3> QED
      BY <1>2, <2>4, <2>11, <3>2 DEF Kept
  <2> QED
    BY <2>5, <2>8, <2>10, <2>15, <2>16, <2>17 DEF AgreeInv
<1> QED
  BY <1>5, <1>6


(* A call that ends a transaction at a node leaves the others as they are. *)
LEMMA KeepsKeptElsewhere ==
  ASSUME AgreeInv, NEW n \in Node, tx'[n] = None,
         \A m \in Node \ {n} : tx'[m] = tx[m] /\ data'[m] = data[m],
         \A d \in Client : cli'[d].op = "begin" => cli[d].op = "begin"
  PROVE  Kept'
<1> SUFFICES ASSUME NEW m \in Node, tx'[m] # None, NEW u \in Table,
                    u # tx'[m].table \/ cli'[tx'[m].owner].op = "begin"
             PROVE  tx'[m].content[u] = data'[m][u]
  BY DEF Kept
<1>1. tx'[m] = tx[m] /\ data'[m] = data[m]
  OBVIOUS
<1>2. tx[m] # None /\ tx[m].owner \in Client
  BY <1>1 DEF AgreeInv, OwnerInv, TypeOK, Tx
<1>3. u # tx[m].table \/ cli[tx[m].owner].op = "begin"
  BY <1>1, <1>2
<1> QED
  BY <1>1, <1>2, <1>3 DEF AgreeInv, Kept

(* A rollback takes the nodes in order. *)
LEMMA AgreeRollback ==
  ASSUME AgreeInv, OwnerInv', NEW c \in Client, NEW n \in Node, RollbackCall(c, n)
  PROVE  AgreeInv'
<1> DEFINE r == cli[c]
           q == Replied(r)
<1>0. /\ r.op = "rollback" /\ r.at = n /\ Finds(c, n) /\ UNCHANGED <<data, openedTables, nextTxId, tables>>
      /\ tx' = [tx EXCEPT ![n] = None] /\ cli' = [cli EXCEPT ![c] = q]
  BY DEF RollbackCall, Calls, Set
<1>1. InTransaction(c)
  BY <1>0 DEF InTransaction
<1>2. r \in Cli /\ r.op \in Calling /\ TypeOK /\ HeldBy(c) /\ Owned(c, n)
  BY <1>0, <1>1, InTransactionFacts
<1>3. \A m \in Node : Owned(c, m) <=> m >= n
  BY <1>0, <1>2 DEF HeldBy
<1>4. /\ n < N => q.op = "rollback" /\ q.at = n + 1 /\ q.table = r.table /\ q.ids = r.ids
      /\ n = N => q = Idle
  BY <1>0, <1>2, RepliedIs
<1>5. n < N \/ n = N
  BY NodeOrder
<1> HIDE DEF q
<1>6. cli'[c] = q /\ \A d \in Client \ {c} : cli'[d] = cli[d]
  BY <1>0, <1>2 DEF TypeOK
<1>7. tx'[n] = None /\ \A m \in Node \ {n} : tx'[m] = tx[m]
  BY <1>0, <1>2 DEF TypeOK
<1>8. q.op \in {"rollback", "idle"}
  BY <1>4, <1>5, IdleIs
<1>9. ASSUME NEW d \in Client \ {c} PROVE HeldBy(d)' /\ VisitsBy(d)'
  <2>1. \A m \in Node : (Owned(d, m) => tx'[m] = tx[m]) /\ (Owned(d, m)' => Owned(d, m))
    BY <1>2, <1>7 DEF Owned
  <2> QED
    BY <1>0, <1>6, <2>1, OtherClient
<1>10. \A m \in Node : Owned(c, m)' <=> m >= n /\ m # n
  BY <1>3, <1>7 DEF Owned
<1>11. HeldBy(c)'
  <2>1. CASE n < N
    <3>1. \A m \in Node : Owned(c, m)' <=> m >= n + 1
      BY <1>10, NNat, SMTT(40) DEF Node
    <3>2. \A m \in Node : Owned(c, m)' => Finds(c, m)' /\ tx'[m].table = cli'[c].table
      <4>1. cli'[c].table = cli[c].table /\ cli'[c].ids = cli[c].ids
        BY <1>4, <1>6, <2>1
      <4>2. \A m \in Node : Owned(c, m)' => Owned(c, m) /\ tx'[m] = tx[m]
        BY <1>3, <1>7, <1>10
      <4> QED
        BY <1>2, <4>1, <4>2, StillHeld
    <3> QED
      BY <1>4, <1>6, <2>1, <3>1, <3>2 DEF HeldBy
  <2>2. CASE n = N
    <3>1. \A m \in Node : ~Owned(c, m)'
      BY <1>10, <2>2, NNat, SMTT(40) DEF Node
    <3> QED
      BY <1>4, <1>6, <2>2, <3>1, IdleIs DEF HeldBy
  <2> QED
    BY <1>5, <2>1, <2>2
<1>12. VisitsBy(c)'
  BY <1>6, <1>8 DEF VisitsBy
<1>13. TablesOpen' /\ Lags' /\ Follows'
  BY <1>0, <1>6, <1>8, KeepsFiles
<1>14. Kept'
  BY <1>0, <1>6, <1>7, <1>8, KeepsKeptElsewhere
<1> QED
  BY <1>6, <1>9, <1>11, <1>12, <1>13, <1>14 DEF AgreeInv


(* A commit makes each node equal to the master, in order; there is no     *)
(* other one on its way, for it would own the last node as well.           *)
LEMMA AgreeCommit ==
  ASSUME AgreeInv, OwnerInv', NEW c \in Client, NEW n \in Node, CommitCall(c, n)
  PROVE  AgreeInv'
<1> DEFINE r == cli[c]
           t == cli[c].table
           q == Replied(r)
<1>0. /\ r.op = "commit" /\ r.at = n /\ Finds(c, n) /\ UNCHANGED <<openedTables, nextTxId, tables>>
      /\ tx' = [tx EXCEPT ![n] = None] /\ data' = [data EXCEPT ![n] = tx[n].content]
      /\ cli' = [cli EXCEPT ![c] = q]
  BY DEF CommitCall, Calls, Set
<1>1. InTransaction(c)
  BY <1>0 DEF InTransaction
<1>2. /\ r \in Cli /\ r.op \in Calling /\ t \in tables /\ t \in Table /\ 1 \in Node
      /\ TypeOK /\ HeldBy(c) /\ VisitsBy(c) /\ TablesOpen /\ Kept /\ Lags /\ Follows /\ Owned(c, n)
  BY <1>0, <1>1, InTransactionFacts
<1>3. \A m \in Node : Owned(c, m) <=> m >= n
  BY <1>0, <1>2 DEF HeldBy
<1>4. /\ n < N => q.op = "commit" /\ q.at = n + 1
      /\ n = N => q.op = "rollback" /\ q.at = 1
      /\ q.table = t /\ q.ids = r.ids
  BY <1>0, <1>2, RepliedIs
<1>5. n < N \/ n = N
  BY NodeOrder
<1> HIDE DEF q
<1>6. cli'[c] = q /\ \A d \in Client \ {c} : cli'[d] = cli[d]
  BY <1>0, <1>2 DEF TypeOK
<1>7. /\ tx'[n] = None /\ data'[n] = tx[n].content
      /\ \A m \in Node \ {n} : tx'[m] = tx[m] /\ data'[m] = data[m]
  BY <1>0, <1>2 DEF TypeOK
<1>8. q.op \in {"commit", "rollback"}
  BY <1>4, <1>5
<1>9. ASSUME NEW d \in Client \ {c} PROVE cli[d].op # "commit"
  <2>1. SUFFICES ASSUME cli[d].op = "commit" PROVE FALSE
    OBVIOUS
  <2>2. cli[d].at \in Node /\ HeldBy(d)
    BY <2>1 DEF AgreeInv, OwnerInv, CallOK, RecOK, Calling
  <2>3. N \in Node /\ N >= n /\ N >= cli[d].at
    BY <2>2, NNat, SMTT(40) DEF Node
  <2>4. Owned(c, N) /\ Owned(d, N)
    BY <1>3, <2>1, <2>2, <2>3 DEF HeldBy
  <2> QED
    BY <2>4 DEF Owned
<1>10. /\ tx[n].table = t /\ tx[n] # None
       /\ \A m \in Node : data[m][t] # None
  <2>1. tx[n].table = t /\ tx[n] # None
    BY <1>2 DEF HeldBy, Owned
  <2>2. t \in Up[t]
    BY <1>2, KVAssumption
  <2> QED
    BY <1>2, <2>1, <2>2 DEF TablesOpen
<1>11. tx[n].content[t] # None
  <2>1. tx[n].content[t] \in Bucket
    BY <1>10 DEF AgreeInv, OwnerInv, IdsOK
  <2> QED
    BY <2>1, KVAssumption
<1>12. \A m \in Node, u \in Table \ {t} : data'[m][u] = data[m][u]
  <2>1. \A u \in Table \ {t} : tx[n].content[u] = data[n][u]
    BY <1>2, <1>10 DEF Kept
  <2> QED
    BY <1>7, <2>1
<1>13. \A m \in Node : data'[m][t] # None
  BY <1>7, <1>10, <1>11
<1>14. \A m \in Node : Has(c, m) = tx[m].content[t]
  BY DEF Has
<1>15. \A m \in Node : m >= n => tx[m].content[t] = data'[1][t]
  <2>1. CASE n = 1
    BY <1>0, <1>2, <1>7, <1>14, <2>1 DEF VisitsBy
  <2>2. CASE n # 1
    <3>1. data'[1] = data[1]
      BY <1>2, <1>7, <2>2
    <3> QED
      BY <1>0, <1>2, <1>14, <2>2, <3>1 DEF VisitsBy
  <2> QED
    BY <2>1, <2>2
<1> HIDE DEF r, t
<1>16. ASSUME NEW d \in Client \ {c} PROVE HeldBy(d)' /\ VisitsBy(d)'
  <2>1. \A m \in Node : (Owned(d, m) => tx'[m] = tx[m]) /\ (Owned(d, m)' => Owned(d, m))
    BY <1>2, <1>7 DEF Owned
  <2> QED
    BY <1>6, <1>9, <2>1, OtherClient
<1>17. \A m \in Node : Owned(c, m)' <=> m >= n /\ m # n
  BY <1>3, <1>7 DEF Owned
<1>18. HeldBy(c)'
  <2>0. \A m \in Node : Owned(c, m)' => Finds(c, m)' /\ tx'[m].table = cli'[c].table
    <3>1. cli'[c].table = cli[c].table /\ cli'[c].ids = cli[c].ids
      BY <1>4, <1>6 DEF r, t
    <3>2. \A m \in Node : Owned(c, m)' => Owned(c, m) /\ tx'[m] = tx[m]
      BY <1>3, <1>7, <1>17
    <3> QED
      BY <1>2, <3>1, <3>2, StillHeld
  <2>1. CASE n < N
    <3>1. \A m \in Node : Owned(c, m)' <=> m >= n + 1
      BY <1>17, NNat, SMTT(40) DEF Node
    <3> QED
      BY <1>4, <1>6, <2>0, <2>1, <3>1 DEF HeldBy
  <2>2. CASE n = N
    <3>1. \A m \in Node : ~Owned(c, m)'
      BY <1>17, <2>2, NNat, SMTT(40) DEF Node
    <3> QED
      BY <1>4, <1>6, <2>0, <2>2, <3>1 DEF HeldBy
  <2> QED
    BY <1>5, <2>1, <2>2
<1>19. VisitsBy(c)'
  <2>1. CASE n < N
    <3>1. cli'[c].op = "commit" /\ cli'[c].at = n + 1 /\ cli'[c].at # 1 /\ cli'[c].table = t
      BY <1>4, <1>6, <2>1, NNat, SMTT(40) DEF Node
    <3>2. \A m \in Node : m >= n + 1 => tx'[m].content[t] = data'[1][t]
      BY <1>7, <1>15, NNat, SMTT(40) DEF Node
    <3> QED
      BY <3>1, <3>2 DEF VisitsBy, Has
  <2>2. CASE n = N
    BY <1>4, <1>6, <2>2 DEF VisitsBy
  <2> QED
    BY <1>5, <2>1, <2>2
<1>20. \A d \in Client : cli'[d].op = "create" <=> cli[d].op = "create"
  BY <1>0, <1>6, <1>8 DEF r
<1>21. TablesOpen'
  <2>1. \A d \in Client, m \in Node : cli'[d].op = "create" /\ m < cli'[d].at => cli'[d].table \in openedTables'[m]
    BY <1>0, <1>2, <1>6, <1>8 DEF TablesOpen
  <2>2. \A m \in Node : tables' \subseteq openedTables'[m]
    BY <1>0, <1>2 DEF TablesOpen
  <2>3. ASSUME NEW m \in Node, NEW v \in openedTables'[m], NEW u \in Up[v] PROVE data'[m][u] # None
    <3>1. data[m][u] # None /\ v \in Table
      BY <1>0, <1>2 DEF TablesOpen, TypeOK
    <3>2. u \in Table
      BY <3>1, KVAssumption
    <3> QED
      BY <1>12, <1>13, <3>1, <3>2
  <2> QED
    BY <2>1, <2>2, <2>3 DEF TablesOpen
<1>22. Lags'
  <2> SUFFICES ASSUME NEW m \in Node, NEW u \in Table
               PROVE  /\ data'[1][u] = None => data'[m][u] = None
                      /\ data'[1][u] # None /\ data'[m][u] = None =>
                           data'[1][u] = Empty /\ \E d \in Client : Creates(d, m, u)'
    BY DEF Lags
  <2>1. CASE u = t
    BY <1>2, <1>13, <2>1
  <2>2. CASE u # t
    <3>1. data'[1][u] = data[1][u] /\ data'[m][u] = data[m][u]
      BY <1>2, <1>12, <2>2
    <3>2. \A d \in Client : Creates(d, m, u) => Creates(d, m, u)'
      BY <1>0, <1>6 DEF Creates, r
    <3> QED
      BY <1>2, <3>1, <3>2 DEF Lags
  <2> QED
    BY <2>1, <2>2
<1>23. Follows'
  <2> SUFFICES ASSUME NEW m \in Node, NEW u \in Table
               PROVE  \/ data'[m][u] = data'[1][u]
                      \/ data'[m][u] = None
                      \/ \E d \in Client : Commits(d, m, u)'
    BY DEF Follows
  <2>0. \A d \in Client : Commits(d, m, u) => d = c /\ u = t /\ n <= m
    BY <1>0, <1>9 DEF Commits, r, t
  <2>1. CASE u # t
    <3>1. data'[1][u] = data[1][u] /\ data'[m][u] = data[m][u]
      BY <1>2, <1>12, <2>1
    <3> QED
      BY <1>2, <2>0, <2>1, <3>1 DEF Follows
  <2>2. CASE u = t /\ m < n
    <3>1. data'[1][u] = data[1][u] /\ data'[m][u] = data[m][u]
      BY <1>2, <1>7, <2>2, NNat, SMTT(60) DEF Node
    <3>2. ~(n <= m)
      BY <2>2, NNat, SMTT(40) DEF Node
    <3> QED
      BY <1>2, <1>10, <2>0, <2>2, <3>1, <3>2 DEF Follows
  <2>3. CASE u = t /\ m = n
    BY <1>7, <1>15, <2>3, NNat, SMTT(60) DEF Node
  <2>4. CASE u = t /\ m > n
    <3>1. n < N /\ 1 < n + 1 /\ n + 1 <= m
      BY <2>4, NNat, SMTT(40) DEF Node
    <3>2. Commits(c, m, u)'
      BY <1>4, <1>6, <2>4, <3>1 DEF Commits
    <3> QED
      BY <3>2
  <2>5. m < n \/ m = n \/ m > n
    BY NNat, SMTT(40) DEF Node
  <2> QED
    BY <2>1, <2>2, <2>3, <2>4, <2>5
<1>24. Kept'
  BY <1>6, <1>7, <1>8, KeepsKeptElsewhere
<1> QED
  BY <1>6, <1>16, <1>18, <1>19, <1>21, <1>22, <1>23, <1>24 DEF AgreeInv


(* CreateOrGetTable and the table lookup of BeginTransaction. *)
LEMMA AgreeLookup ==
  ASSUME AgreeInv, OwnerInv', NEW c \in Client, NEW n \in Node, CreateCall(c, n) \/ BeginCall(c, n)
  PROVE  AgreeInv'
<1> DEFINE t == cli[c].table
           waiting == [cli[c] EXCEPT !.wait = TRUE]
<1>0. /\ TypeOK /\ cli[c] \in Cli /\ TablesOpen /\ data[n] \in Content
      /\ cli[c].op \in {"create", "begin"} => t \in Table
      /\ cli[c].op = "begin" => t \in openedTables[n]
  BY DEF AgreeInv, OwnerInv, TypeOK, CallOK, RecOK, TablesOpen
<1>1. /\ waiting.op = cli[c].op /\ waiting.at = cli[c].at /\ waiting.table = cli[c].table
      /\ waiting.ids = cli[c].ids /\ waiting.write = cli[c].write
  BY <1>0, WaitIs
<1> HIDE DEF waiting
<1>2. ASSUME cli' = [cli EXCEPT ![c] = waiting], UNCHANGED <<data, openedTables, tx, tables>> PROVE AgreeInv'
  <2>1. \A d \in Client : cli'[d] = IF d = c THEN waiting ELSE cli[d]
    BY <1>0, <1>2 DEF TypeOK
  <2> QED
    BY <1>1, <1>2, <2>1, AgreeWait
<1>3. CASE CreateCall(c, n) /\ t \in openedTables[n]
  <2>1. /\ cli[c].op = "create" /\ cli[c].at = n /\ GotTable(c, n)
        /\ cli' = [cli EXCEPT ![c] = Replied(cli[c])] /\ UNCHANGED <<tx, data, openedTables>>
    BY <1>3 DEF CreateCall, Calls, Set
  <2>2. t \in Table /\ \A u \in Up[t] : data[n][u] # None
    BY <1>0, <1>3, <2>1 DEF TablesOpen
  <2>3. WithTable(data[n], t) = data[n]
    BY <1>0, <2>2 DEF WithTable, Content
  <2>4. data' = [data EXCEPT ![n] = WithTable(data[n], t)]
    BY <1>0, <2>1, <2>3 DEF TypeOK
  <2>5. openedTables' = [openedTables EXCEPT ![n] = openedTables[n] \cup {t}]
    BY <1>0, <1>3, <2>1 DEF TypeOK
  <2> QED
    BY <2>1, <2>4, <2>5, AgreeCreated
<1>4. CASE CreateCall(c, n) /\ t \notin openedTables[n]
  BY <1>2, <1>4 DEF CreateCall, Set, waiting
<1>5. CASE BeginCall(c, n)
  <2>1. t \in openedTables[n]
    BY <1>0, <1>5 DEF BeginCall, Calls
  <2> QED
    BY <1>2, <1>5, <2>1 DEF BeginCall, Set, waiting
<1> QED
  BY <1>3, <1>4, <1>5

(* The replicas start with the same tables and no transaction. *)
LEMMA AgreeInitially == Init => AgreeInv
<1> SUFFICES ASSUME Init PROVE AgreeInv
  OBVIOUS
<1>1. OwnerInv
  BY OwnerInitially
<1>2. /\ \A c \in Client : cli[c] = Idle
      /\ \A n \in Node : tx[n] = None /\ openedTables[n] = {} /\ \A u \in Table : data[n][u] = None
      /\ tables = {} /\ 1 \in Node
  BY NNat, SMTT(40) DEF Init, Node
<1>3. \A c \in Client : HeldBy(c) /\ VisitsBy(c)
  BY <1>2, IdleIs DEF HeldBy, VisitsBy, Owned
<1>4. TablesOpen
  BY <1>2, IdleIs DEF TablesOpen
<1>5. Kept
  BY <1>2 DEF Kept
<1>6. Lags /\ Follows
  BY <1>2 DEF Lags, Follows
<1> QED
  BY <1>1, <1>3, <1>4, <1>5, <1>6 DEF AgreeInv

(* Every step without a failing replica keeps the invariant. *)
LEMMA AgreeStep == AgreeInv /\ [CalmNext]_vars => AgreeInv'
<1> SUFFICES ASSUME AgreeInv, [CalmNext]_vars PROVE AgreeInv'
  OBVIOUS
<1>1. OwnerInv'
  BY CalmIsNext, OwnerStep DEF AgreeInv
<1>2. CASE UNCHANGED vars
  BY <1>1, <1>2, AgreeWait DEF vars
<1>3. CASE CalmNext
  <2>1. PICK c \in Client :
          \/ \E t \in Table : StartTable(c, "create", t) \/ StartBegin(c, t)
          \/ \E w \in Write : StartWrite(c, w)
          \/ \E op \in {"commit", "rollback"} : StartEnd(c, op)
          \/ \E n \in Node : Serve(c, n)
    BY <1>3 DEF CalmNext
  <2>2. CASE \E n \in Node : Serve(c, n)
    <3>1. PICK n \in Node : Serve(c, n)
      BY <2>2
    <3>2. CASE CreateCall(c, n) \/ BeginCall(c, n)
      BY <1>1, <3>2, AgreeLookup
    <3>3. CASE CreateInFile(c, n)
      BY <1>1, <3>3, AgreeCreated DEF CreateInFile, Waits, Set
    <3>4. CASE BeginInFile(c, n)
      BY <1>1, <3>4, AgreeBegin
    <3>5. CASE NotServed(c, n)
      BY <1>1, <3>5, AgreeNotServed
    <3>6. CASE WriteCall(c, n)
      BY <1>1, <3>6, AgreeWrite
    <3>7. CASE CommitCall(c, n)
      BY <1>1, <3>7, AgreeCommit
    <3>8. CASE RollbackCall(c, n)
      BY <1>1, <3>8, AgreeRollback
    <3> QED
      BY <3>1, <3>2, <3>3, <3>4, <3>5, <3>6, <3>7, <3>8 DEF Serve
  <2> QED
    BY <1>1, <2>1, <2>2, AgreeStart
<1> QED
  BY <1>2, <1>3

(* ProxyTable and ProxyTransaction: for any number of nodes, tables, keys  *)
(* and clients, as long as no call fails and no table is deleted, the      *)
(* nodes have the same content whenever no operation is between two of     *)
(* them, and an open transaction sees the same table on all of them.       *)
THEOREM ReplicasStayEqual == CalmSpec => []ReplicasAgree
<1>1. Init => AgreeInv
  BY AgreeInitially
<1>2. AgreeInv /\ [CalmNext]_vars => AgreeInv'
  BY AgreeStep
<1>3. AgreeInv => ReplicasAgree
  BY AgreeInvImplies
<1> QED
  BY <1>1, <1>2, <1>3, PTL DEF CalmSpec
=============================================================================
