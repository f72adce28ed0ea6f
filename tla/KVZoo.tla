-------------------------------- MODULE KVZoo --------------------------------
(***************************************************************************)
(* The replicated key-value database kvzoo: the client's proxy             *)
(* (client/proxy.go), the servers (server/service.go) and their storage    *)
(* (backend/bolt/bolt.go).                                                 *)
(*                                                                         *)
(* Every operation of the proxy is a call to the master, node 1, and then  *)
(* to one slave after the other.  The master's error is the caller's; a    *)
(* slave's error is logged.  A server keeps its tables in one bolt file,   *)
(* which has one write transaction at a time: a second one waits in Begin. *)
(*                                                                         *)
(* A client is a goroutine of the application.  It follows the pattern of  *)
(* every user of the database: get the table, Begin, defer Rollback, read  *)
(* and write, Commit.  Get and List change nothing and are left out.       *)
(***************************************************************************)
EXTENDS Integers, FiniteSets

CONSTANTS Client,       \* goroutines using the database
          N,            \* number of nodes, the master included
          Table, Key, Value,
          Up,           \* Up[t]: table t and the tables it is nested in
          Faults,       \* the failures that may happen, see KVAssumption
          MaxTx,        \* bound: transactions begun
          None          \* no transaction, no table, no value

Node == 1 .. N

Bucket == [Key -> Value \cup {None}]

(* The content of a bolt file. *)
Content == [Table -> Bucket \cup {None}]

(* An entry of KVService.openedTxs. *)
Tx == [id : Int, owner : Client, table : Table, content : Content]

ASSUME KVAssumption ==
  /\ N \in Nat /\ N > 0
  /\ MaxTx \in Nat
  /\ Up \in [Table -> SUBSET Table]
  /\ \A t \in Table : t \in Up[t]
  /\ Faults \subseteq {"master",    \* a call to the master fails
                       "slave"}     \* a call to a slave fails
  /\ None \notin Value \cup Bucket \cup Tx

(* Add, Update or Delete of a key. *)
Write == [kind : {"add", "update", "delete"}, key : Key, val : Value]

(* InvalidTxID *)
InvalidTxID == -1

VARIABLES
  data,         \* data[n]: the committed content of node n's file
  openedTables, \* KVService.openedTables of each node
  tx,           \* tx[n]: the write transaction of node n, with the content
                \*   it has written; the only entry of KVService.openedTxs
  nextTxId,     \* KVService.nextTxId of each node
  tables,       \* the tables the application got from CreateOrGetTable
  cli           \* the operation each client is in: op, the node called (at),
                \*   whether its handler there waits for the file (wait),
                \*   the table, ProxyTransaction.ids, the write

vars == <<data, openedTables, tx, nextTxId, tables, cli>>

-----------------------------------------------------------------------------
(***************************************************************************)
(* Storage.                                                                *)
(***************************************************************************)

Empty == [k \in Key |-> None]

(* createOrGetBucket: a table is made with those it is nested in. *)
WithTable(d, t) ==
  [u \in Table |-> IF u \in Up[t] /\ d[u] = None THEN Empty ELSE d[u]]

(* DeleteBucket deletes the nested tables as well. *)
WithoutTable(d, t) == [u \in Table |-> IF t \in Up[u] THEN None ELSE d[u]]

(* TableTX.Add, Update and Delete: whether they succeed, what they write.  *)
WriteAllowed(d, t, w) ==
  CASE w.kind = "add"    -> d[t][w.key] = None
    [] w.kind = "update" -> d[t][w.key] # None
    [] w.kind = "delete" -> TRUE

Written(d, t, w) ==
  [d EXCEPT ![t][w.key] = IF w.kind = "delete" THEN None ELSE w.val]

-----------------------------------------------------------------------------
(***************************************************************************)
(* The client's walk over the nodes.                                       *)
(***************************************************************************)

Idle == [op |-> "idle", at |-> 0, wait |-> FALSE, table |-> None,
         ids |-> [n \in Node |-> InvalidTxID], write |-> None]

IsIdle(c) == cli[c].op = "idle"

Set(c, rec) == cli' = [cli EXCEPT ![c] = rec]

(* What the client does when an operation has returned.  After Commit the  *)
(* deferred Rollback runs.                                                 *)
Returned(rec) ==
  CASE rec.op \in {"begin", "write"} -> [rec EXCEPT !.op = "open", !.at = 0]
    [] rec.op = "commit"             -> [rec EXCEPT !.op = "rollback", !.at = 1]
    [] OTHER                         -> Idle

(* The call to a node came back: the loop goes on to the next slave.       *)
RepliedButLast(rec) ==                                          \* (wrong)
  IF rec.at < N - 1 THEN [rec EXCEPT !.at = @ + 1, !.wait = FALSE]
                    ELSE Returned([rec EXCEPT !.wait = FALSE])
Replied(rec) ==
  IF rec.at < N THEN [rec EXCEPT !.at = @ + 1, !.wait = FALSE]
                ELSE Returned([rec EXCEPT !.wait = FALSE])

(* The call to a node failed.  The master's error ends the operation: a    *)
(* Begin has no transaction then, and a failed write or Commit is followed *)
(* by the deferred Rollback.                                               *)
FailedForgets(rec) == IF rec.at > 1 THEN Replied(rec) ELSE Idle \* (wrong)
Failed(rec) ==
  IF rec.at > 1 THEN Replied(rec)
  ELSE IF rec.op \in {"write", "commit"}
  THEN [rec EXCEPT !.op = "rollback", !.at = 1]
  ELSE Idle

(* The client is calling operation op of node n. *)
Calls(c, op, n) == cli[c].op = op /\ cli[c].at = n /\ ~cli[c].wait

(* CreateOrGetTable returns a table once every node was called. *)
GotTable(c, n) ==
  tables' = IF cli[c].op = "create" /\ n = N THEN tables \cup {cli[c].table}
                                             ELSE tables

(* The proxy leaves out a node that did not begin the transaction. *)
InTransaction(c) == cli[c].op \in {"write", "commit", "rollback"}
Skipped(c, n) == InTransaction(c) /\ n > 1 /\ cli[c].ids[n] = InvalidTxID

MayFail(n) == (IF n = 1 THEN "master" ELSE "slave") \in Faults

(* A call that does not reach the server. *)
CallFails(c, n) ==
  /\ MayFail(n)
  /\ cli[c].at = n /\ ~cli[c].wait /\ ~Skipped(c, n)
  /\ Set(c, Failed(cli[c]))
  /\ IF n = 1 THEN UNCHANGED tables ELSE GotTable(c, n)
  /\ UNCHANGED <<data, openedTables, tx, nextTxId>>

(* KVService.tableLock.  Begin holds it shared and CreateOrGetTable holds  *)
(* it exclusively while they wait for the file.                            *)
Waits(c, op, n) == cli[c].op = op /\ cli[c].at = n /\ cli[c].wait
NoTableReader(n) == \A c \in Client : ~Waits(c, "begin", n)
NoTableWriter(n) == \A c \in Client : ~Waits(c, "create", n)

-----------------------------------------------------------------------------
(***************************************************************************)
(* Tables.                                                                 *)
(***************************************************************************)

StartTable(c, op, t) ==
  /\ IsIdle(c)
  /\ Set(c, [Idle EXCEPT !.op = op, !.at = 1, !.table = t])
  /\ UNCHANGED <<data, openedTables, tx, nextTxId, tables>>

(* KVService.CreateOrGetTable: an open table needs no storage. *)
CreateCall(c, n) ==
  LET t == cli[c].table
  IN  /\ Calls(c, "create", n)
      /\ NoTableReader(n) /\ NoTableWriter(n)
      /\ Set(c, IF t \in openedTables[n] THEN Replied(cli[c])
                                         ELSE [cli[c] EXCEPT !.wait = TRUE])
      /\ IF t \in openedTables[n] THEN GotTable(c, n) ELSE UNCHANGED tables
      /\ UNCHANGED <<data, openedTables, tx, nextTxId>>

CreateInFile(c, n) ==
  LET t == cli[c].table
  IN  /\ Waits(c, "create", n)
      /\ tx[n] = None
      /\ data' = [data EXCEPT ![n] = WithTable(data[n], t)]
      /\ openedTables' = [openedTables EXCEPT ![n] = @ \cup {t}]
      /\ Set(c, Replied(cli[c]))
      /\ GotTable(c, n)
      /\ UNCHANGED <<tx, nextTxId>>

(* KVService.DeleteTable: the table is forgotten, tables nested in it are  *)
(* not; then, without tableLock, its bucket is deleted.                    *)
DeleteCall(c, n) ==
  /\ Calls(c, "delete", n)
  /\ NoTableReader(n) /\ NoTableWriter(n)
  /\ openedTables' = [openedTables EXCEPT ![n] = @ \ {cli[c].table}]
  /\ Set(c, [cli[c] EXCEPT !.wait = TRUE])
  /\ UNCHANGED <<data, tx, nextTxId, tables>>

DeleteInFile(c, n) ==
  LET t == cli[c].table
  IN  /\ Waits(c, "delete", n)
      /\ tx[n] = None
      /\ IF data[n][t] = None
         THEN UNCHANGED data /\ Set(c, Failed(cli[c]))
         ELSE /\ data' = [data EXCEPT ![n] = WithoutTable(data[n], t)]
              /\ Set(c, Replied(cli[c]))
      /\ UNCHANGED <<openedTables, tx, nextTxId, tables>>

-----------------------------------------------------------------------------
(***************************************************************************)
(* Transactions.                                                           *)
(***************************************************************************)

Started == nextTxId[1] + Cardinality({c \in Client : cli[c].op = "begin"})

(* ProxyTable.Begin, of a table the client got from the database before.   *)
StartBegin(c, t) ==
  /\ IsIdle(c)
  /\ Started < MaxTx
  /\ t \in tables
  /\ Set(c, [Idle EXCEPT !.op = "begin", !.at = 1, !.table = t])
  /\ UNCHANGED <<data, openedTables, tx, nextTxId, tables>>

(* KVService.BeginTransaction looks the table up ... *)
BeginCall(c, n) ==
  /\ Calls(c, "begin", n)
  /\ NoTableWriter(n)
  /\ Set(c, IF cli[c].table \in openedTables[n]
            THEN [cli[c] EXCEPT !.wait = TRUE] ELSE Failed(cli[c]))
  /\ UNCHANGED <<data, openedTables, tx, nextTxId, tables>>

(* ... waits for the file, makes the table if it is gone, and registers    *)
(* the transaction under a new id.                                         *)
SameId(n) == nextTxId[n]                                        \* (wrong)
NewId(n) == nextTxId[n] + 1

BeginInFile(c, n) ==
  LET id == NewId(n)
  IN  /\ Waits(c, "begin", n)
      /\ tx[n] = None
      /\ nextTxId' = [nextTxId EXCEPT ![n] = id]
      /\ tx' = [tx EXCEPT ![n] = [id |-> id, owner |-> c, table |-> cli[c].table,
                                  content |-> WithTable(data[n], cli[c].table)]]
      /\ Set(c, Replied([cli[c] EXCEPT !.ids[n] = id]))
      /\ UNCHANGED <<data, openedTables, tables>>

(* The application writes, commits or gives up. *)
StartWrite(c, w) ==
  /\ cli[c].op = "open"
  /\ Set(c, [cli[c] EXCEPT !.op = "write", !.at = 1, !.write = w])
  /\ UNCHANGED <<data, openedTables, tx, nextTxId, tables>>

StartEnd(c, op) ==
  /\ op \in {"commit", "rollback"}
  /\ cli[c].op = "open"
  /\ Set(c, [cli[c] EXCEPT !.op = op, !.at = 1])
  /\ UNCHANGED <<data, openedTables, tx, nextTxId, tables>>

(* openedTxs[id] of a node. *)
Finds(c, n) == tx[n] # None /\ tx[n].id = cli[c].ids[n]

(* The proxy leaves the node out, or the id is not in openedTxs. *)
NotServed(c, n) ==
  /\ InTransaction(c)
  /\ cli[c].at = n
  /\ \/ Skipped(c, n) /\ Set(c, Replied(cli[c]))
     \/ ~Skipped(c, n) /\ ~Finds(c, n) /\ Set(c, Failed(cli[c]))
  /\ UNCHANGED <<data, openedTables, tx, nextTxId, tables>>

(* KVService.Add, Update and Delete. *)
WriteCall(c, n) ==
  LET w == cli[c].write
      t == tx[n].table
  IN  /\ Calls(c, "write", n)
      /\ ~Skipped(c, n) /\ Finds(c, n)
      /\ IF WriteAllowed(tx[n].content, t, w)
         THEN /\ tx' = [tx EXCEPT ![n].content = Written(@, t, w)]
              /\ Set(c, Replied(cli[c]))
         ELSE UNCHANGED tx /\ Set(c, Failed(cli[c]))
      /\ UNCHANGED <<data, openedTables, nextTxId, tables>>

(* KVService.CommitTransaction *)
CommitCall(c, n) ==
  /\ Calls(c, "commit", n)
  /\ ~Skipped(c, n) /\ Finds(c, n)
  /\ tx' = [tx EXCEPT ![n] = None]
  /\ data' = [data EXCEPT ![n] = tx[n].content]
  /\ Set(c, Replied(cli[c]))
  /\ UNCHANGED <<openedTables, nextTxId, tables>>

(* When the file cannot be written the transaction is forgotten as well.   *)
CommitFails(c, n) ==
  /\ MayFail(n)
  /\ Calls(c, "commit", n)
  /\ ~Skipped(c, n) /\ Finds(c, n)
  /\ tx' = [tx EXCEPT ![n] = None]
  /\ Set(c, Failed(cli[c]))
  /\ UNCHANGED <<data, openedTables, nextTxId, tables>>

(* KVService.RollbackTransaction *)
RollbackCall(c, n) ==
  /\ Calls(c, "rollback", n)
  /\ ~Skipped(c, n) /\ Finds(c, n)
  /\ tx' = [tx EXCEPT ![n] = None]
  /\ Set(c, Replied(cli[c]))
  /\ UNCHANGED <<data, openedTables, nextTxId, tables>>

-----------------------------------------------------------------------------

(* A step of the handler that client c is calling on node n. *)
Serve(c, n) ==
  \/ CreateCall(c, n) \/ CreateInFile(c, n) \/ BeginCall(c, n) \/ BeginInFile(c, n)
  \/ NotServed(c, n) \/ WriteCall(c, n) \/ CommitCall(c, n) \/ RollbackCall(c, n)

ServeDelete(c, n) == DeleteCall(c, n) \/ DeleteInFile(c, n)

Init ==
  /\ data = [n \in Node |-> [t \in Table |-> None]]
  /\ openedTables = [n \in Node |-> {}]
  /\ tx = [n \in Node |-> None]
  /\ nextTxId = [n \in Node |-> 0]
  /\ tables = {}
  /\ cli = [c \in Client |-> Idle]

(* Clients get tables and use them; every call succeeds. *)
CalmNext ==
  \E c \in Client :
    \/ \E t \in Table : StartTable(c, "create", t) \/ StartBegin(c, t)
    \/ \E w \in Write : StartWrite(c, w)
    \/ \E op \in {"commit", "rollback"} : StartEnd(c, op)
    \/ \E n \in Node : Serve(c, n)

(* Tables are deleted as well, and calls fail. *)
Next ==
  \/ CalmNext
  \/ \E c \in Client :
       \/ \E t \in Table : StartTable(c, "delete", t)
       \/ \E n \in Node : ServeDelete(c, n) \/ CommitFails(c, n) \/ CallFails(c, n)

Spec == Init /\ [][Next]_vars
CalmSpec == Init /\ [][CalmNext]_vars

(* A handler goes on if it can again and again: bolt's mutex and tableLock *)
(* are handed to a waiter in the end.  An open transaction is ended.       *)
Fairness ==
  \A c \in Client :
    /\ SF_vars(\E n \in Node : Serve(c, n) \/ ServeDelete(c, n))
    /\ SF_vars(\E op \in {"commit", "rollback"} : StartEnd(c, op))

FairSpec == Spec /\ Fairness
CalmFairSpec == CalmSpec /\ Fairness

-----------------------------------------------------------------------------
(***************************************************************************)
(* Properties.                                                             *)
(***************************************************************************)

(* Master and slaves hold the same data whenever no operation is on its    *)
(* way from one to the other, and an open transaction is open on every     *)
(* node with the same content: what Get and List of the master show is     *)
(* what the slaves will commit.  Replication keeps the order of            *)
(* transactions although nothing orders the calls of different clients to  *)
(* a slave.  So it is while no call fails and no table is deleted          *)
(* (CalmSpec).                                                             *)
ReplicasAgree ==
  /\ (\A c \in Client : cli[c].op \in {"create", "delete", "commit"} => cli[c].at = 1)
       => \A n \in Node : data[n] = data[1]
  /\ \A c \in Client : cli[c].op = "open" =>
       \A n \in Node :
         /\ Finds(c, n)
         /\ tx[n].content[cli[c].table] = tx[1].content[cli[c].table]

(* Whoever changes or ends a transaction is the client that began it. *)
OwnerActs == \A n \in Node : tx[n] # None /\ tx'[n] # tx[n] => cli'[tx[n].owner] # cli[tx[n].owner]

(* A transaction is changed and ended by the client that began it alone:   *)
(* the Rollback every user defers hits no other transaction, although it   *)
(* comes after the Commit, when another client may have begun.             *)
OwnTransaction == [][OwnerActs]_vars

(* A client that begins a transaction gets it. *)
BeginEnds ==
  \A c \in Client : cli[c].op = "begin" ~> cli[c].op # "begin"
=============================================================================
