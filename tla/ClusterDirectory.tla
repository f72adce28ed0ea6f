-------------------------- MODULE ClusterDirectory --------------------------
(***************************************************************************)
(* What the cluster manager promises its callers: a directory of clusters, *)
(* at most one per name, each following the state diagram of               *)
(* docs/design/clustermanager/clustermanager.md from the moment it is      *)
(* listed until it is deleted.  Locks, goroutines, the database and the    *)
(* order of the manager's steps do not appear; ClusterManager is shown to  *)
(* implement this module.                                                  *)
(***************************************************************************)

CONSTANTS Name,         \* cluster names
          Gen           \* tells apart the objects that bear one name in turn

VARIABLES clusters,     \* the listed objects
          status        \* the status of each object; "Init" before it exists

dirVars == <<clusters, status>>

Obj == Name \X Gen
NameOf(c) == c[1]

Statuses == {"Init", "Creating", "Running", "Unreachable", "Updating",
             "CreateFailed", "Deleting", "Deleted"}

(* The arrows of the diagram between the states of a listed cluster. *)
Succ == [Init         |-> {},
         Creating     |-> {"Running", "CreateFailed"},
         Running      |-> {"Updating", "Unreachable", "Deleting"},
         Unreachable  |-> {"Running", "Deleting"},
         Updating     |-> {"Running"},
         CreateFailed |-> {"Creating", "Deleting"},
         Deleting     |-> {"Deleted"},
         Deleted      |-> {}]

-----------------------------------------------------------------------------

Init ==
  /\ clusters = {}
  /\ status = [c \in Obj |-> "Init"]

(* A create request: the name is not in use. *)
Add(c) ==
  /\ status[c] = "Init"
  /\ \A d \in clusters : NameOf(d) # NameOf(c)
  /\ clusters' = clusters \cup {c}
  /\ status' = [status EXCEPT ![c] = "Creating"]

(* One arrow of the diagram. *)
Move(c) ==
  /\ c \in clusters
  /\ \E s \in Succ[status[c]] : status' = [status EXCEPT ![c] = s]
  /\ UNCHANGED clusters

(* A deleted cluster, and no other, leaves the list. *)
Drop(c) ==
  /\ c \in clusters
  /\ status[c] = "Deleted"
  /\ clusters' = clusters \ {c}
  /\ UNCHANGED status

(* The server restarts: what it lists then are objects loaded from the     *)
(* database, at most one per name, Running or CreateFailed.                *)
Reload ==
  /\ status' \in [Obj -> {"Init", "Running", "CreateFailed"}]
  /\ clusters' = {c \in Obj : status'[c] # "Init"}
  /\ \A c, d \in clusters' : NameOf(c) = NameOf(d) => c = d

Next ==
  \/ \E c \in Obj : Add(c) \/ Move(c) \/ Drop(c)
  \/ Reload

Spec == Init /\ [][Next]_dirVars
=============================================================================
