------------------------- MODULE ApplicationProofs --------------------------
(***************************************************************************)
(* Proofs about the application operator: for any applications, manifests  *)
(* and number of restarts, a resource it created never outlives the        *)
(* object of its application, whatever calls fail, unless a restart came   *)
(* before the operator had stored what it had created.                     *)
(***************************************************************************)
EXTENDS Applications, TLAPS

(* A leaf is for Zenon unless it cites another prover. *)
USE ZenonT(40)

-----------------------------------------------------------------------------
(***************************************************************************)
(* Applications.  A resource that is there is one the operator has just    *)
(* created or remembers, and its application's object has the finalizer;   *)
(* a resource whose deletion was not yet seen is remembered too.           *)
(***************************************************************************)

ApAppEvent == [kind : {"create", "deleting"}, app : ApApplications, fresh : BOOLEAN]
ApResEvent == [kind : {"create", "update", "delete"}, res : ApResources, rep : Int, ready : Int]
ApResource == [is : {"resource"}, rep : Int, ready : Int, going : BOOLEAN, by : ApApplications]

ApObjOK(a, o) ==
  o # ApNone => {"is", "deleting", "fin", "state", "res", "ready"} \subseteq DOMAIN o /\ DOMAIN o.res \subseteq ApIn(a)

(* The operation under way. *)
ApOpOK(o) ==
  o # ApFree =>
    /\ {"at", "app", "fresh"} \subseteq DOMAIN o /\ o.app \in ApApplications \ DOMAIN apApps
    /\ o.at \in {"crds", "finalizer", "resources", "failed"}
    /\ o.at \in {"resources", "failed"} =>
         /\ {"n", "res", "count"} \subseteq DOMAIN o /\ o.n \in Nat \ {0}
         /\ DOMAIN o.res \subseteq {ApManifests[o.app][i] : i \in DOMAIN ApManifests[o.app] \cap 1..(o.n - 1)}
         /\ apObj[o.app] # ApNone /\ apObj[o.app].fin

(* Resources that were created and not yet remembered. *)
ApMade(o) == IF o # ApFree /\ o.at \in {"resources", "failed"} THEN DOMAIN o.res ELSE {}

(* The deletions of a resource that were not yet seen. *)
ApGone(q, r) == {i \in DOMAIN q : q[i].kind = "delete" /\ q[i].res = r}

ApKnown(a, r) == r \in ApMade(apOp) \/ (a \in DOMAIN apApps /\ r \in apApps[a])

ApTypes ==
  /\ apObj = [a \in ApApplications |-> apObj[a]] /\ \A a \in ApApplications : ApObjOK(a, apObj[a])
  /\ apRes \in [ApResources -> {ApNone} \cup ApResource]
  /\ \A r \in ApResources : apRes[r] # ApNone => r \in ApIn(apRes[r].by)
  /\ DOMAIN apApps \subseteq ApApplications /\ \A a \in DOMAIN apApps : apApps[a] \subseteq ApIn(a)
  /\ \A r \in DOMAIN apOwner : apOwner[r] \in ApApplications /\ r \in ApIn(apOwner[r])
  /\ apAppQ \in Seq(ApAppEvent) /\ apResQ \in Seq(ApResEvent) /\ ApOpOK(apOp)

(* What holds for a resource that is there, and for one that went. *)
ApThere(a, r) ==
  apRes[r] # ApNone /\ apRes[r].by = a /\ IsSupported(r) /\ a \notin apLost =>
    /\ apObj[a] # ApNone /\ apObj[a].fin
    /\ ApGone(apResQ, r) = {} /\ ApKnown(a, r)
    /\ r \notin ApMade(apOp) /\ a \notin apUnsaved => r \in DOMAIN apObj[a].res

ApWent(a, r) ==
  r \in ApIn(a) /\ a \notin apLost =>
    /\ ApGone(apResQ, r) # {} => ApKnown(a, r)
    /\ \A i, j \in ApGone(apResQ, r) : i = j

ApInv ==
  /\ ApTypes
  /\ \A a \in ApApplications, r \in ApResources : ApThere(a, r) /\ ApWent(a, r)

(* A function on 1..n is a sequence. *)
LEMMA ApIsSeq == ASSUME NEW S, NEW n \in Nat, NEW r \in [1..n -> S] PROVE r \in Seq(S)
  BY SMTT(40)

(* Queues: the first event is taken, one is added, copies become stale. *)
LEMMA ApTaken ==
  ASSUME NEW S, NEW q \in Seq(S), q # <<>> PROVE Head(q) \in S /\ Tail(q) \in Seq(S)
  BY SMTT(40)

(* Events that became stale are still events. *)
LEMMA ApStaleQueue == ASSUME NEW q \in Seq(ApAppEvent), NEW a PROVE Stale(q, a) \in Seq(ApAppEvent)
<1>1. DOMAIN q = 1..Len(q) /\ Len(q) \in Nat
  BY SMTT(40)
<1>2. \A i \in 1..Len(q) : q[i] \in ApAppEvent
  BY SMTT(40)
<1>3. \A i \in 1..Len(q) : (IF q[i].app = a THEN [q[i] EXCEPT !.fresh = FALSE] ELSE q[i]) \in ApAppEvent
  BY <1>2 DEF ApAppEvent
<1> QED
  BY <1>1, <1>3, ApIsSeq DEF Stale

(* Another event adds a deletion of a resource only when it is one. *)
LEMMA ApGoneAppend ==
  ASSUME NEW q \in Seq(ApResEvent), NEW e \in ApResEvent, NEW r
  PROVE  /\ Append(q, e) \in Seq(ApResEvent)
         /\ ApGone(Append(q, e), r) \subseteq ApGone(q, r) \cup (IF e.kind = "delete" /\ e.res = r THEN {Len(q) + 1} ELSE {})
<1>1. DOMAIN q = 1..Len(q) /\ Len(q) \in Nat
  BY SMTT(40)
<1>2. /\ Append(q, e) \in Seq(ApResEvent) /\ Len(Append(q, e)) = Len(q) + 1
      /\ \A i \in 1..Len(q) : Append(q, e)[i] = q[i]
      /\ Append(q, e)[Len(q) + 1] = e
  BY <1>1, SMTT(40)
<1>3. DOMAIN Append(q, e) = 1..(Len(q) + 1)
  BY <1>2, SMTT(40)
<1>4. ASSUME NEW i \in ApGone(Append(q, e), r)
      PROVE  i \in ApGone(q, r) \/ (i = Len(q) + 1 /\ e.kind = "delete" /\ e.res = r)
  <2>1. i \in 1..(Len(q) + 1) /\ Append(q, e)[i].kind = "delete" /\ Append(q, e)[i].res = r
    BY <1>3 DEF ApGone
  <2>2. CASE i \in 1..Len(q)
    BY <1>1, <1>2, <2>1, <2>2 DEF ApGone
  <2>3. CASE i = Len(q) + 1
    BY <1>2, <2>1, <2>3
  <2> QED
    BY <1>1, <2>1, <2>2, <2>3, SMTT(40)
<1> QED
  BY <1>2, <1>4

(* The deletions that are left once the first event is taken were there    *)
(* before.                                                                 *)
LEMMA ApGoneTail ==
  ASSUME NEW q \in Seq(ApResEvent), q # <<>>, NEW r
  PROVE  /\ \A i \in ApGone(Tail(q), r) : i + 1 \in ApGone(q, r) /\ i \in Nat \ {0}
         /\ Head(q).kind = "delete" /\ Head(q).res = r => 1 \in ApGone(q, r)
<1>1. DOMAIN q = 1..Len(q) /\ Len(q) \in Nat /\ Len(q) > 0
  BY SMTT(40)
<1>2. Tail(q) \in Seq(ApResEvent) /\ Len(Tail(q)) = Len(q) - 1 /\ \A i \in 1..(Len(q) - 1) : Tail(q)[i] = q[i + 1]
  BY <1>1, SMTT(40)
<1>3. DOMAIN Tail(q) = 1..(Len(q) - 1)
  BY <1>2, SMTT(40)
<1>4. ASSUME NEW i \in ApGone(Tail(q), r) PROVE i + 1 \in ApGone(q, r) /\ i \in Nat \ {0}
  <2>1. i \in 1..(Len(q) - 1) /\ Tail(q)[i].kind = "delete" /\ Tail(q)[i].res = r
    BY <1>3 DEF ApGone
  <2> QED
    BY <1>1, <1>2, <2>1, SMTT(40) DEF ApGone
<1>5. Head(q).kind = "delete" /\ Head(q).res = r => 1 \in ApGone(q, r)
  BY <1>1, SMTT(40) DEF ApGone
<1> QED
  BY <1>4, <1>5

(* Less is pending after an event was taken. *)
LEMMA ApGoneLess ==
  ASSUME NEW q \in Seq(ApResEvent), q # <<>>, NEW r
  PROVE  /\ ApGone(q, r) = {} => ApGone(Tail(q), r) = {}
         /\ (\A i, j \in ApGone(q, r) : i = j) => \A i, j \in ApGone(Tail(q), r) : i = j
<1>1. \A i \in ApGone(Tail(q), r) : i + 1 \in ApGone(q, r) /\ i \in Nat \ {0}
  BY ApGoneTail
<1>2. ASSUME \A i, j \in ApGone(q, r) : i = j, NEW i \in ApGone(Tail(q), r), NEW j \in ApGone(Tail(q), r) PROVE i = j
  <2>1. i + 1 = j + 1 /\ i \in Nat /\ j \in Nat
    BY <1>1, <1>2
  <2> QED
    BY <2>1, SMTT(40)
<1> QED
  BY <1>1, <1>2

(* A step after which less is there and less is pending, and that leaves   *)
(* what the operator knows, keeps the invariant.                           *)
ApCalm ==
  /\ UNCHANGED <<apApps, apUnsaved, apLost>> /\ ApMade(apOp)' = ApMade(apOp)
  /\ \A r \in ApResources :
       /\ apRes'[r] # ApNone => apRes[r] # ApNone /\ apRes'[r].by = apRes[r].by
       /\ ApGone(apResQ, r) = {} => ApGone(apResQ, r)' = {}
       /\ (\A i, j \in ApGone(apResQ, r) : i = j) => (\A i, j \in ApGone(apResQ, r)' : i = j)
  /\ \A a \in ApApplications :
       apObj[a] # ApNone /\ apObj[a].fin =>
         apObj'[a] # ApNone /\ apObj'[a].fin /\ DOMAIN apObj[a].res \subseteq DOMAIN apObj'[a].res

(* A step that leaves resources, memory and operation as they are, and     *)
(* every finalizer, keeps the invariant.                                   *)
LEMMA ApCalmKeeps == ASSUME ApSetting, ApInv, ApTypes', ApCalm PROVE ApInv'
<1>1. \A a, r : ApKnown(a, r)' = ApKnown(a, r)
  BY DEF ApCalm, ApKnown
<1>2. ASSUME NEW a \in ApApplications, NEW r \in ApResources PROVE ApThere(a, r)'
  <2> SUFFICES ASSUME apRes'[r] # ApNone, apRes'[r].by = a, IsSupported(r), a \notin apLost'
               PROVE  /\ apObj'[a] # ApNone /\ apObj'[a].fin
                      /\ ApGone(apResQ, r)' = {} /\ ApKnown(a, r)'
                      /\ r \notin ApMade(apOp)' /\ a \notin apUnsaved' => r \in DOMAIN apObj'[a].res
    BY DEF ApThere
  <2>1. apRes[r] # ApNone /\ apRes[r].by = a /\ a \notin apLost
    BY DEF ApCalm
  <2>2. /\ apObj[a] # ApNone /\ apObj[a].fin /\ ApGone(apResQ, r) = {} /\ ApKnown(a, r)
        /\ r \notin ApMade(apOp) /\ a \notin apUnsaved => r \in DOMAIN apObj[a].res
    BY <2>1 DEF ApInv, ApThere
  <2>3. /\ apObj'[a] # ApNone /\ apObj'[a].fin /\ DOMAIN apObj[a].res \subseteq DOMAIN apObj'[a].res
        /\ ApGone(apResQ, r)' = {}
    BY <2>2 DEF ApCalm
  <2>4. r \notin ApMade(apOp)' /\ a \notin apUnsaved' => r \in DOMAIN apObj'[a].res
    BY <2>2, <2>3 DEF ApCalm
  <2> QED
    BY <1>1, <2>2, <2>3, <2>4
<1>3. ASSUME NEW a \in ApApplications, NEW r \in ApResources PROVE ApWent(a, r)'
  <2>1. apLost' = apLost
    BY DEF ApCalm
  <2>2. ApWent(a, r)
    BY DEF ApInv
  <2>3. /\ ApGone(apResQ, r) = {} => ApGone(apResQ, r)' = {}
        /\ (\A i, j \in ApGone(apResQ, r) : i = j) => (\A i, j \in ApGone(apResQ, r)' : i = j)
    BY DEF ApCalm
  <2>4. ApKnown(a, r)' = ApKnown(a, r)
    BY <1>1
  <2> QED
    BY <2>1, <2>2, <2>3, <2>4 DEF ApWent
<1> QED
  BY <1>2, <1>3 DEF ApInv

(* There is an object, or none, for every application. *)
LEMMA ApObjects == ASSUME ApTypes PROVE DOMAIN apObj = ApApplications
  BY DEF ApTypes

(* One object changes. *)
LEMMA ApOneObject ==
  ASSUME ApTypes, NEW a \in ApApplications, NEW o, ApObjOK(a, o), apObj' = [apObj EXCEPT ![a] = o]
  PROVE  /\ apObj' = [b \in ApApplications |-> apObj'[b]] /\ \A b \in ApApplications : ApObjOK(b, apObj'[b])
         /\ apObj'[a] = o /\ \A b \in ApApplications : b # a => apObj'[b] = apObj[b]
<1>1. apObj' = [b \in ApApplications |-> IF b = a THEN o ELSE apObj[b]]
  BY DEF ApTypes
<1> QED
  BY <1>1 DEF ApTypes

(* One object is written and the queues may grow. *)
LEMMA ApWriteTypes ==
  ASSUME ApTypes, NEW a \in ApApplications, NEW o, ApObjOK(a, o), apObj' = [apObj EXCEPT ![a] = o],
         apAppQ' \in Seq(ApAppEvent), apResQ' \in Seq(ApResEvent), ApOpOK(apOp)', UNCHANGED <<apRes, apApps, apOwner>>
  PROVE  ApTypes'
<1>1. apObj' = [b \in ApApplications |-> apObj'[b]] /\ \A b \in ApApplications : ApObjOK(b, apObj'[b])
  BY ApOneObject
<1> QED
  BY <1>1 DEF ApTypes

(* Objects keep their finalizer and their resources. *)
ApFinKept ==
  \A a \in ApApplications :
     apObj[a] # ApNone /\ apObj[a].fin =>
       apObj'[a] # ApNone /\ apObj'[a].fin /\ DOMAIN apObj[a].res \subseteq DOMAIN apObj'[a].res

(* The operation under way stays what it was when only its copy became     *)
(* stale.                                                                  *)
LEMMA ApOpKept ==
  ASSUME ApTypes, ApFinKept, DOMAIN apApps' \subseteq DOMAIN apApps,
         \/ apOp' = apOp
         \/ apOp # ApFree /\ apOp' = [apOp EXCEPT !.fresh = FALSE]
  PROVE  ApOpOK(apOp)' /\ ApMade(apOp)' = ApMade(apOp)
<1>0. ApOpOK(apOp)
  BY DEF ApTypes
<1>1. CASE apOp' = apOp
  <2>1. ApMade(apOp)' = ApMade(apOp)
    BY <1>1 DEF ApMade
  <2>2. CASE apOp = ApFree
    BY <1>1, <2>1, <2>2 DEF ApOpOK
  <2>3. CASE apOp # ApFree
    BY <1>0, <1>1, <2>1, <2>3, SMTT(40) DEF ApOpOK, ApFinKept
  <2> QED
    BY <2>2, <2>3
<1>2. CASE apOp # ApFree /\ apOp' = [apOp EXCEPT !.fresh = FALSE]
  <2>1. {"at", "app", "fresh"} \subseteq DOMAIN apOp
    BY <1>0, <1>2 DEF ApOpOK
  <2>2. /\ DOMAIN apOp' = DOMAIN apOp /\ apOp'.at = apOp.at /\ apOp'.app = apOp.app
        /\ "n" \in DOMAIN apOp => apOp'.n = apOp.n
        /\ "res" \in DOMAIN apOp => apOp'.res = apOp.res
    BY <1>2, <2>1
  <2>3. apOp.at # "free"
    BY <1>0, <1>2 DEF ApOpOK
  <2>4. apOp' # ApFree
    BY <2>2, <2>3, SMTT(40) DEF ApFree
  <2>5. ApMade(apOp)' = ApMade(apOp)
    BY <1>0, <1>2, <2>2, <2>4 DEF ApMade, ApOpOK
  <2>6. ApOpOK(apOp)'
    BY <1>0, <1>2, <2>2, <2>4, SMTT(40) DEF ApOpOK, ApFinKept
  <2> QED
    BY <2>5, <2>6
<1> QED
  BY <1>1, <1>2

(* A request creates an application. *)
LEMMA ApCreate == ASSUME ApSetting, ApInv, NEW a \in ApApplications, createApplication(a) PROVE ApInv'
<1>0. ApTypes
  BY DEF ApInv
<1> DEFINE o == [is |-> "app", deleting |-> FALSE, fin |-> FALSE, state |-> ApNoState, res |-> <<>>, count |-> 0, ready |-> 0]
           e == [kind |-> "create", app |-> a, fresh |-> TRUE]
<1>1. /\ apObj' = [apObj EXCEPT ![a] = o] /\ apAppQ' = Append(apAppQ, e) /\ apObj[a] = ApNone
      /\ UNCHANGED <<apRes, apApps, apOwner, apResQ, apOp, apUnsaved, apLost>>
  BY DEF createApplication
<1>2. ApObjOK(a, o)
  <2>1. DOMAIN <<>> = {}
    BY SMTT(40)
  <2> QED
    BY <2>1 DEF ApObjOK
<1>3. e \in ApAppEvent
  BY DEF ApAppEvent
<1>4. apAppQ' \in Seq(ApAppEvent) /\ apResQ' \in Seq(ApResEvent)
  BY <1>0, <1>1, <1>3, SMTT(40) DEF ApTypes
<1> HIDE DEF o, e
<1>5. ApFinKept
  BY <1>0, <1>1, <1>2, ApOneObject DEF ApFinKept
<1>6. ApOpOK(apOp)' /\ ApMade(apOp)' = ApMade(apOp)
  BY <1>0, <1>1, <1>5, ApOpKept
<1>7. ApTypes'
  BY <1>0, <1>1, <1>2, <1>4, <1>6, ApWriteTypes
<1>8. ApCalm
  BY <1>1, <1>5, <1>6 DEF ApCalm, ApFinKept, ApGone
<1> QED
  BY <1>7, <1>8, ApCalmKeeps

(* A request deletes an application. *)
LEMMA ApDeletes == ASSUME ApSetting, ApInv, NEW a \in ApApplications, Deletes(a) PROVE ApInv'
<1>0. ApTypes /\ apAppQ \in Seq(ApAppEvent) /\ apResQ \in Seq(ApResEvent) /\ ApObjOK(a, apObj[a])
  BY DEF ApInv, ApTypes
<1>1. apObj[a] # ApNone /\ UNCHANGED <<apRes, apApps, apOwner, apResQ, apUnsaved, apLost>>
  BY DEF Deletes
<1>2. CASE apObj[a].fin /\ apObj[a].deleting
  <2>1. UNCHANGED <<apObj, apAppQ, apOp>>
    BY <1>2 DEF Deletes
  <2>2. ApTypes'
    BY <1>0, <1>1, <2>1 DEF ApTypes, ApObjOK, ApOpOK
  <2>3. ApCalm
    BY <1>1, <2>1 DEF ApCalm, ApMade, ApGone
  <2> QED
    BY <2>2, <2>3, ApCalmKeeps
<1>3. CASE ~(apObj[a].fin /\ apObj[a].deleting)
  <2> DEFINE o == IF apObj[a].fin THEN [apObj[a] EXCEPT !.deleting = TRUE] ELSE ApNone
             e == [kind |-> "deleting", app |-> a, fresh |-> TRUE]
  <2>1. /\ apObj' = [apObj EXCEPT ![a] = o]
        /\ apAppQ' = IF apObj[a].fin THEN Append(Stale(apAppQ, a), e) ELSE Stale(apAppQ, a)
        /\ apOp' = IF apOp # ApFree /\ apOp.app = a THEN [apOp EXCEPT !.fresh = FALSE] ELSE apOp
    BY <1>3 DEF Deletes
  <2>2. ApObjOK(a, o) /\ (apObj[a].fin => o # ApNone /\ o.fin /\ o.res = apObj[a].res)
    <3>1. CASE ~apObj[a].fin
      BY <3>1 DEF ApObjOK
    <3>2. CASE apObj[a].fin
      <4>1. {"is", "deleting", "fin", "state", "res", "ready"} \subseteq DOMAIN apObj[a] /\ DOMAIN apObj[a].res \subseteq ApIn(a)
        BY <1>0, <1>1 DEF ApObjOK
      <4>2. o = [apObj[a] EXCEPT !.deleting = TRUE]
        BY <3>2
      <4> HIDE DEF o
      <4>3. DOMAIN o = DOMAIN apObj[a] /\ o.res = apObj[a].res /\ o.fin = apObj[a].fin
        BY <4>1, <4>2
      <4>4. o # ApNone
        BY <4>1, <4>3, SMTT(40) DEF ApNone
      <4> QED
        BY <3>2, <4>1, <4>3, <4>4 DEF ApObjOK
    <3> QED
      BY <3>1, <3>2
  <2>3. e \in ApAppEvent
    BY DEF ApAppEvent
  <2>4. apAppQ' \in Seq(ApAppEvent) /\ apResQ' \in Seq(ApResEvent)
    BY <1>0, <1>1, <2>1, <2>3, ApStaleQueue, SMTT(40)
  <2> HIDE DEF o, e
  <2>5. ApFinKept
    BY <1>0, <2>1, <2>2, ApOneObject DEF ApFinKept
  <2>6. ApOpOK(apOp)' /\ ApMade(apOp)' = ApMade(apOp)
    BY <1>0, <1>1, <2>1, <2>5, ApOpKept
  <2>7. ApTypes'
    BY <1>0, <1>1, <2>1, <2>2, <2>4, <2>6, ApWriteTypes
  <2>8. ApCalm
    BY <1>1, <2>5, <2>6 DEF ApCalm, ApFinKept, ApGone
  <2> QED
    BY <2>7, <2>8, ApCalmKeeps
<1> QED
  BY <1>2, <1>3

(* Nothing the invariant speaks of changes. *)
LEMMA ApStutter ==
  ASSUME ApSetting, ApInv, UNCHANGED <<apObj, apRes, apApps, apOwner, apAppQ, apResQ, apOp, apUnsaved, apLost>> PROVE ApInv'
<1>1. ApTypes'
  BY DEF ApInv, ApTypes, ApObjOK, ApOpOK
<1>2. ApCalm
  BY DEF ApCalm, ApMade, ApGone
<1> QED
  BY <1>1, <1>2, ApCalmKeeps

(* The server creates a system application when it starts. *)
LEMMA ApEnsured == ASSUME ApSetting, ApInv, NEW a \in ApSystem, ensureApplicationSucceedOrDie(a) PROVE ApInv'
<1>1. a \in ApApplications
  BY DEF ApSetting
<1>2. Deletes(a) \/ UNCHANGED <<apObj, apRes, apApps, apOwner, apAppQ, apResQ, apOp, apUnsaved, apLost>>
  BY DEF ensureApplicationSucceedOrDie
<1> QED
  BY <1>1, <1>2, ApDeletes, ApStutter

(* One resource changes and keeps its application, or goes. *)
LEMMA ApOneResource ==
  ASSUME ApTypes, NEW r \in ApResources, NEW x, x = ApNone \/ (x \in ApResource /\ apRes[r] # ApNone /\ x.by = apRes[r].by),
         apRes' = [apRes EXCEPT ![r] = x], apResQ' \in Seq(ApResEvent), UNCHANGED <<apObj, apApps, apOwner, apAppQ, apOp>>
  PROVE  /\ ApTypes' /\ ApMade(apOp)' = ApMade(apOp) /\ apRes'[r] = x
         /\ \A s \in ApResources : apRes'[s] # ApNone => apRes[s] # ApNone /\ apRes'[s].by = apRes[s].by
<1>1. apRes' = [s \in ApResources |-> IF s = r THEN x ELSE apRes[s]]
  BY DEF ApTypes
<1>2. apRes' \in [ApResources -> {ApNone} \cup ApResource]
  BY <1>1 DEF ApTypes
<1>3. \A s \in ApResources : apRes'[s] # ApNone => apRes[s] # ApNone /\ apRes'[s].by = apRes[s].by
  BY <1>1
<1>4. (\A s \in ApResources : apRes[s] # ApNone => s \in ApIn(apRes[s].by))'
  BY <1>3, SMTT(40) DEF ApTypes, ApIn
<1>5. ApOpOK(apOp)' /\ ApMade(apOp)' = ApMade(apOp)
  BY SMTT(40) DEF ApTypes, ApOpOK, ApMade
<1>6. \A b \in ApApplications : ApObjOK(b, apObj[b])'
  BY DEF ApTypes, ApObjOK
<1> QED
  BY <1>1, <1>2, <1>3, <1>4, <1>5, <1>6 DEF ApTypes

(* The fields of a resource. *)
LEMMA ApResourceFields == ASSUME NEW x \in ApResource PROVE {"is", "rep", "ready", "going", "by"} = DOMAIN x /\ x # ApNone
<1>1. x.is = "resource" /\ {"is", "rep", "ready", "going", "by"} = DOMAIN x
  BY DEF ApResource
<1> QED
  BY <1>1, SMTT(40) DEF ApNone

(* A controller gives a resource its replicas. *)
LEMMA ApScheduled == ASSUME ApSetting, ApInv, NEW r \in ApResources, Scheduled(r) PROVE ApInv'
<1>0. ApTypes /\ apResQ \in Seq(ApResEvent)
  BY DEF ApInv, ApTypes
<1>1. /\ apRes[r] # ApNone /\ apRes' = [apRes EXCEPT ![r] = [apRes[r] EXCEPT !.rep = 1]]
      /\ UNCHANGED <<apObj, apApps, apOwner, apAppQ, apResQ, apOp, apUnsaved, apLost>>
  BY DEF Scheduled
<1>2. apRes[r] \in ApResource
  BY <1>0, <1>1 DEF ApTypes
<1>3. [apRes[r] EXCEPT !.rep = 1] \in ApResource /\ [apRes[r] EXCEPT !.rep = 1].by = apRes[r].by
  BY <1>2, SMTT(40) DEF ApResource
<1>4. /\ ApTypes' /\ ApMade(apOp)' = ApMade(apOp)
      /\ \A s \in ApResources : apRes'[s] # ApNone => apRes[s] # ApNone /\ apRes'[s].by = apRes[s].by
  BY <1>0, <1>1, <1>3, ApOneResource
<1>5. ApCalm
  BY <1>1, <1>4 DEF ApCalm, ApGone
<1> QED
  BY <1>4, <1>5, ApCalmKeeps

(* Replicas of a resource become ready or fail. *)
LEMMA ApReadyChanges == ASSUME ApSetting, ApInv, NEW r \in ApResources, ReadyChanges(r) PROVE ApInv'
<1>0. ApTypes /\ apResQ \in Seq(ApResEvent)
  BY DEF ApInv, ApTypes
<1> DEFINE x == [apRes[r] EXCEPT !.ready = 1 - apRes[r].ready]
           e == ResEvent("update", r, x)
<1>1. /\ apRes[r] # ApNone /\ apRes' = [apRes EXCEPT ![r] = x] /\ apResQ' = Append(apResQ, ResEvent("update", r, apRes'[r]))
      /\ UNCHANGED <<apObj, apApps, apOwner, apAppQ, apOp, apUnsaved, apLost>>
  BY DEF ReadyChanges
<1>2. apRes[r] \in ApResource
  BY <1>0, <1>1 DEF ApTypes
<1>3. x \in ApResource /\ x.by = apRes[r].by
  BY <1>2, SMTT(40) DEF ApResource
<1>4. e \in ApResEvent /\ e.kind = "update"
  BY <1>3 DEF ApResEvent, ResEvent, ApResource
<1> HIDE DEF x
<1>5. apRes'[r] = x
  BY <1>0, <1>1 DEF ApTypes
<1>6. apResQ' = Append(apResQ, e)
  BY <1>1, <1>5
<1> HIDE DEF e
<1>7. /\ apResQ' \in Seq(ApResEvent)
      /\ \A s \in ApResources : ApGone(apResQ, s)' \subseteq ApGone(apResQ, s)
  BY <1>0, <1>4, <1>6, ApGoneAppend
<1>8. /\ ApTypes' /\ ApMade(apOp)' = ApMade(apOp)
      /\ \A s \in ApResources : apRes'[s] # ApNone => apRes[s] # ApNone /\ apRes'[s].by = apRes[s].by
  BY <1>0, <1>1, <1>3, <1>7, ApOneResource
<1>9. ApCalm
  BY <1>1, <1>7, <1>8 DEF ApCalm
<1> QED
  BY <1>8, <1>9, ApCalmKeeps

(* A resource whose deletion was asked for goes, and the event says so. *)
LEMMA ApGoes == ASSUME ApSetting, ApInv, NEW r \in ApResources, Goes(r) PROVE ApInv'
<1>0. ApTypes /\ apResQ \in Seq(ApResEvent)
  BY DEF ApInv, ApTypes
<1> DEFINE e == ResEvent("delete", r, [rep |-> 0, ready |-> 0])
<1>1. /\ apRes[r] # ApNone /\ apRes' = [apRes EXCEPT ![r] = ApNone]
      /\ apResQ' = IF IsSupported(r) THEN Append(apResQ, e) ELSE apResQ
      /\ UNCHANGED <<apObj, apApps, apOwner, apAppQ, apOp, apUnsaved, apLost>>
  BY DEF Goes
<1>2. apRes[r] \in ApResource /\ apRes[r].by \in ApApplications /\ r \in ApIn(apRes[r].by)
  BY <1>0, <1>1 DEF ApTypes, ApResource
<1>3. e \in ApResEvent /\ e.kind = "delete" /\ e.res = r
  BY SMTT(40) DEF ResEvent, ApResEvent
<1> HIDE DEF e
<1>4. apResQ' \in Seq(ApResEvent)
  BY <1>0, <1>1, <1>3, ApGoneAppend
<1>5. /\ ApTypes' /\ ApMade(apOp)' = ApMade(apOp) /\ apRes'[r] = ApNone
      /\ \A s \in ApResources : apRes'[s] # ApNone => apRes[s] # ApNone /\ apRes'[s].by = apRes[s].by
  BY <1>0, <1>1, <1>4, ApOneResource
<1>6. CASE ~IsSupported(r)
  <2>1. ApCalm
    BY <1>1, <1>5, <1>6 DEF ApCalm, ApGone
  <2> QED
    BY <1>5, <2>1, ApCalmKeeps
<1>7. CASE IsSupported(r)
  <2>1. \A s \in ApResources : s # r => ApGone(apResQ, s)' \subseteq ApGone(apResQ, s)
    BY <1>0, <1>1, <1>3, <1>7, ApGoneAppend
  <2>2. ApGone(apResQ, r)' \subseteq ApGone(apResQ, r) \cup {Len(apResQ) + 1}
    BY <1>0, <1>1, <1>3, <1>7, ApGoneAppend
  <2>3. \A b, s : ApKnown(b, s)' = ApKnown(b, s)
    BY <1>1, <1>5 DEF ApKnown
  <2>4. ASSUME NEW a \in ApApplications, NEW s \in ApResources PROVE ApThere(a, s)'
    <3>1. CASE s = r
      BY <1>5, <3>1 DEF ApThere
    <3>2. CASE s # r
      <4>1. ApThere(a, s) /\ ApKnown(a, s)' = ApKnown(a, s) /\ ApGone(apResQ, s)' \subseteq ApGone(apResQ, s)
        BY <2>1, <2>3, <3>2 DEF ApInv
      <4>2. apRes'[s] # ApNone => apRes[s] # ApNone /\ apRes'[s].by = apRes[s].by
        BY <1>5
      <4> QED
        BY <1>1, <1>5, <4>1, <4>2 DEF ApThere
    <3> QED
      BY <3>1, <3>2
  <2>5. ASSUME NEW a \in ApApplications, NEW s \in ApResources PROVE ApWent(a, s)'
    <3>0. ApWent(a, s) /\ ApThere(a, s) /\ ApKnown(a, s)' = ApKnown(a, s)
      BY <2>3 DEF ApInv
    <3>1. CASE s = r
      <4>1. r \in ApIn(a) => a = apRes[r].by
        BY <1>2 DEF ApSetting
      <4>2. r \in ApIn(a) /\ a \notin apLost => ApGone(apResQ, r) = {} /\ ApKnown(a, r)
        BY <1>1, <1>7, <3>0, <3>1, <4>1 DEF ApThere
      <4> QED
        BY <1>1, <2>2, <3>0, <3>1, <4>2 DEF ApWent
    <3>2. CASE s # r
      <4>1. ApGone(apResQ, s)' \subseteq ApGone(apResQ, s)
        BY <2>1, <3>2
      <4> QED
        BY <1>1, <3>0, <4>1 DEF ApWent
    <3> QED
      BY <3>1, <3>2
  <2> QED
    BY <1>5, <2>4, <2>5 DEF ApInv
<1> QED
  BY <1>6, <1>7

(* What the operator takes and writes. *)
LEMMA ApHeadApp ==
  ASSUME ApTypes, NEW k, Take(k)
  PROVE  /\ apOp = ApFree /\ Head(apAppQ) \in ApAppEvent /\ Head(apAppQ).app \in ApApplications /\ Head(apAppQ).kind = k
         /\ Tail(apAppQ) \in Seq(ApAppEvent)
<1>1. apAppQ \in Seq(ApAppEvent)
  BY DEF ApTypes
<1>2. apOp = ApFree /\ apAppQ # <<>> /\ Head(apAppQ).kind = k
  BY DEF Take
<1>3. Head(apAppQ) \in ApAppEvent /\ Tail(apAppQ) \in Seq(ApAppEvent)
  BY <1>1, <1>2, ApTaken
<1> QED
  BY <1>2, <1>3 DEF ApAppEvent

(* A changed object that keeps its resources, with the finalizer or        *)
(* without.                                                                *)
ApSame(o, p) == p # ApNone /\ DOMAIN o \subseteq DOMAIN p /\ DOMAIN o.res = DOMAIN p.res /\ (o.fin => p.fin)

(* An object written with the same resources and finalizer is as good as   *)
(* the one before.                                                         *)
LEMMA ApSameOK == ASSUME NEW a, NEW o, ApObjOK(a, o), o # ApNone, NEW p, ApSame(o, p) PROVE ApObjOK(a, p)
  BY DEF ApObjOK, ApSame

(* Such a write takes no finalizer away. *)
LEMMA ApSameFin ==
  ASSUME ApTypes, NEW a \in ApApplications, NEW p, apObj[a] # ApNone, ApSame(apObj[a], p), apObj' = [apObj EXCEPT ![a] = p]
  PROVE  ApFinKept
<1>1. ApObjOK(a, apObj[a])
  BY DEF ApTypes
<1>2. ApObjOK(a, p)
  BY <1>1, ApSameOK
<1>3. apObj'[a] = p /\ \A b \in ApApplications : b # a => apObj'[b] = apObj[b]
  BY <1>2, ApOneObject
<1> QED
  BY <1>3 DEF ApFinKept, ApSame

(* A new state, or a finalizer that is added, is such a write. *)
LEMMA ApStateSame ==
  ASSUME NEW a, NEW o, o # ApNone, ApObjOK(a, o), NEW s
  PROVE  ApSame(o, [o EXCEPT !.state = s]) /\ ApSame(o, [o EXCEPT !.fin = TRUE])
<1>1. {"is", "deleting", "fin", "state", "res", "ready"} \subseteq DOMAIN o
  BY DEF ApObjOK
<1> DEFINE p == [o EXCEPT !.state = s]
           t == [o EXCEPT !.fin = TRUE]
<1>2. DOMAIN p = DOMAIN o /\ p.res = o.res /\ p.fin = o.fin
  BY <1>1
<1>3. DOMAIN t = DOMAIN o /\ t.res = o.res /\ t.fin = TRUE
  BY <1>1
<1> HIDE DEF p, t
<1>4. p # ApNone /\ t # ApNone
  BY <1>1, <1>2, <1>3, SMTT(40) DEF ApNone
<1>5. ApSame(o, p)
  BY <1>2, <1>4 DEF ApSame
<1>6. ApSame(o, t)
  BY <1>3, <1>4 DEF ApSame
<1> QED
  BY <1>5, <1>6 DEF p, t

(* So are new counts of a resource the object already lists. *)
LEMMA ApUpdatedSame ==
  ASSUME NEW a, NEW o, o # ApNone, ApObjOK(a, o), NEW r \in DOMAIN o.res, NEW v, NEW w
  PROVE  ApSame(o, [o EXCEPT !.res[r] = v, !.ready = w])
<1>1. {"is", "deleting", "fin", "state", "res", "ready"} \subseteq DOMAIN o
  BY DEF ApObjOK
<1> DEFINE p == [o EXCEPT !.res[r] = v, !.ready = w]
<1>2. DOMAIN p = DOMAIN o /\ DOMAIN p.res = DOMAIN o.res /\ p.fin = o.fin
  BY <1>1
<1> HIDE DEF p
<1>3. p # ApNone
  BY <1>1, <1>2, SMTT(40) DEF ApNone
<1>4. ApSame(o, p)
  BY <1>2, <1>3 DEF ApSame
<1> QED
  BY <1>4 DEF p

(* Nothing is made before the finalizer is there. *)
LEMMA ApNothingMade == ASSUME NEW o, o = ApFree \/ o.at \in {"crds", "finalizer"} PROVE ApMade(o) = {}
  BY DEF ApMade, ApFree

(* A step that writes one object and takes an event. *)
LEMMA ApWrites ==
  ASSUME ApSetting, ApInv, NEW a \in ApApplications, NEW p, apObj[a] # ApNone, ApSame(apObj[a], p),
         apObj' = [apObj EXCEPT ![a] = p], apAppQ' \in Seq(ApAppEvent), apResQ' \in Seq(ApResEvent),
         ApOpOK(apOp)', ApMade(apOp)' = ApMade(apOp),
         \A r \in ApResources : /\ ApGone(apResQ, r) = {} => ApGone(apResQ, r)' = {}
                                /\ (\A i, j \in ApGone(apResQ, r) : i = j) => (\A i, j \in ApGone(apResQ, r)' : i = j),
         UNCHANGED <<apRes, apApps, apOwner, apUnsaved, apLost>>
  PROVE  ApInv'
<1>0. ApTypes /\ ApObjOK(a, apObj[a])
  BY DEF ApInv, ApTypes
<1>1. ApObjOK(a, p)
  BY <1>0, ApSameOK
<1>2. ApFinKept
  BY <1>0, ApSameFin
<1>3. ApTypes'
  BY <1>0, <1>1, ApWriteTypes
<1>4. ApCalm
  BY <1>2 DEF ApCalm, ApFinKept
<1> QED
  BY <1>3, <1>4, ApCalmKeeps

(* A step that takes an event or ends an operation, and writes nothing. *)
LEMMA ApDrops ==
  ASSUME ApSetting, ApInv, apAppQ' \in Seq(ApAppEvent), apResQ' \in Seq(ApResEvent),
         ApOpOK(apOp)', ApMade(apOp)' = ApMade(apOp),
         \A r \in ApResources : /\ ApGone(apResQ, r) = {} => ApGone(apResQ, r)' = {}
                                /\ (\A i, j \in ApGone(apResQ, r) : i = j) => (\A i, j \in ApGone(apResQ, r)' : i = j),
         UNCHANGED <<apObj, apRes, apApps, apOwner, apUnsaved, apLost>>
  PROVE  ApInv'
<1>1. ApTypes
  BY DEF ApInv
<1>2. ApTypes'
  BY <1>1, SMTT(40) DEF ApTypes, ApObjOK, ApIn
<1>3. ApCalm
  BY DEF ApCalm
<1> QED
  BY <1>2, <1>3, ApCalmKeeps

(* The operator starts on a new application. *)
LEMMA ApOnCreate == ASSUME ApSetting, ApInv, OnCreateApplication PROVE ApInv'
<1>0. ApTypes /\ Take("create") /\ apResQ \in Seq(ApResEvent)
  BY DEF ApInv, ApTypes, OnCreateApplication
<1> DEFINE e == Head(apAppQ)
<1>1. PICK a : a = e.app
  OBVIOUS
<1>2. /\ apOp = ApFree /\ a \in ApApplications /\ Tail(apAppQ) \in Seq(ApAppEvent) /\ ApObjOK(a, apObj[a])
      /\ UNCHANGED <<apRes, apApps, apOwner, apResQ, apUnsaved, apLost>>
  BY <1>0, <1>1, ApHeadApp DEF OnCreateApplication, ApFrame, ApTypes
<1>3. \A r \in ApResources : ApGone(apResQ, r)' = ApGone(apResQ, r)
  BY <1>2 DEF ApGone
<1>4. CASE /\ a \notin DOMAIN apApps /\ apObj[a] # ApNone /\ WriteApp(a, [apObj[a] EXCEPT !.state = "create"])
           /\ apAppQ' = Stale(Tail(apAppQ), a) /\ apOp' = [at |-> "crds", app |-> a, fresh |-> TRUE]
  <2>1. apAppQ' \in Seq(ApAppEvent)
    BY <1>2, <1>4, ApStaleQueue
  <2>2. ApOpOK(apOp)' /\ ApMade(apOp)' = {}
    <3>1. DOMAIN apOp' = {"at", "app", "fresh"} /\ apOp'.at = "crds" /\ apOp'.app = a
      BY <1>4
    <3>2. ApMade(apOp') = {}
      BY <3>1, ApNothingMade
    <3>3. ApMade(apOp)' = {}
      BY <3>2 DEF ApMade
    <3> QED
      BY <1>2, <1>4, <3>1, <3>3 DEF ApOpOK
  <2>3. ApMade(apOp) = {}
    BY <1>2, ApNothingMade
  <2>4. ApSame(apObj[a], [apObj[a] EXCEPT !.state = "create"])
    BY <1>2, <1>4, ApStateSame
  <2>5. apObj' = [apObj EXCEPT ![a] = [apObj[a] EXCEPT !.state = "create"]]
    BY <1>4 DEF WriteApp
  <2> QED
    BY <1>0, <1>2, <1>3, <1>4, <2>1, <2>2, <2>3, <2>4, <2>5, ApWrites
<1>5. CASE apAppQ' = Tail(apAppQ) /\ UNCHANGED <<apObj, apOp>>
  <2>1. ApOpOK(apOp)' /\ ApMade(apOp)' = ApMade(apOp)
    BY <1>2, <1>5 DEF ApOpOK, ApMade
  <2> QED
    BY <1>0, <1>2, <1>3, <1>5, <2>1, ApDrops
<1> QED
  BY <1>1, <1>4, <1>5 DEF OnCreateApplication

(* The definitions a chart needs are installed, or installing them fails. *)
LEMMA ApPreInstall == ASSUME ApSetting, ApInv, preInstallChartCRDs PROVE ApInv'
<1>0. ApTypes /\ apAppQ \in Seq(ApAppEvent) /\ apResQ \in Seq(ApResEvent) /\ ApOpOK(apOp)
  BY DEF ApInv, ApTypes
<1>1. apOp.at = "crds" /\ UNCHANGED <<apObj, apRes, apApps, apOwner, apAppQ, apResQ, apUnsaved, apLost>>
  BY DEF preInstallChartCRDs, ApFrame
<1>2. apOp # ApFree
  BY <1>1, SMTT(40) DEF ApFree
<1>3. {"at", "app", "fresh"} \subseteq DOMAIN apOp /\ apOp.app \in ApApplications \ DOMAIN apApps
  BY <1>0, <1>2 DEF ApOpOK
<1>4. ApMade(apOp) = {}
  BY <1>1, ApNothingMade
<1>5. ApOpOK(apOp)' /\ ApMade(apOp)' = {}
  <2>1. CASE apOp' = ApFree
    BY <2>1 DEF ApOpOK, ApMade
  <2>2. CASE apOp' = [apOp EXCEPT !.at = "finalizer"]
    <3>1. DOMAIN apOp' = DOMAIN apOp /\ apOp'.at = "finalizer" /\ apOp'.app = apOp.app
      BY <1>3, <2>2
    <3>2. ApMade(apOp)' = {}
      BY <3>1 DEF ApMade
    <3> QED
      BY <1>1, <1>3, <3>1, <3>2 DEF ApOpOK
  <2> QED
    BY <2>1, <2>2 DEF preInstallChartCRDs
<1>6. \A r \in ApResources : ApGone(apResQ, r)' = ApGone(apResQ, r)
  BY <1>1 DEF ApGone
<1> QED
  BY <1>0, <1>1, <1>4, <1>5, <1>6, ApDrops

(* The finalizer is written before any resource is created. *)
LEMMA ApAddFinalizer == ASSUME ApSetting, ApInv, addFinalizer PROVE ApInv'
<1>0. ApTypes /\ apAppQ \in Seq(ApAppEvent) /\ apResQ \in Seq(ApResEvent) /\ ApOpOK(apOp)
  BY DEF ApInv, ApTypes
<1>1. apOp.at = "finalizer" /\ UNCHANGED <<apRes, apApps, apOwner, apResQ, apUnsaved, apLost>>
  BY DEF addFinalizer, ApFrame
<1>2. apOp # ApFree
  BY <1>1, SMTT(40) DEF ApFree
<1>3. PICK a : a = apOp.app
  OBVIOUS
<1>4. a \in ApApplications \ DOMAIN apApps /\ ApObjOK(a, apObj[a])
  BY <1>0, <1>2, <1>3 DEF ApOpOK, ApTypes
<1>5. ApMade(apOp) = {}
  BY <1>1, ApNothingMade
<1>6. \A r \in ApResources : ApGone(apResQ, r)' = ApGone(apResQ, r)
  BY <1>1 DEF ApGone
<1>7. CASE /\ apObj[a] # ApNone /\ WriteApp(a, [apObj[a] EXCEPT !.fin = TRUE]) /\ apAppQ' = Stale(apAppQ, a)
           /\ apOp' = [at |-> "resources", app |-> a, fresh |-> TRUE, n |-> 1, res |-> <<>>, count |-> 0]
  <2>1. apAppQ' \in Seq(ApAppEvent)
    BY <1>0, <1>7, ApStaleQueue
  <2> DEFINE p == [apObj[a] EXCEPT !.fin = TRUE]
  <2>2. ApSame(apObj[a], p)
    BY <1>4, <1>7, ApStateSame
  <2>3. apObj' = [apObj EXCEPT ![a] = p]
    BY <1>7 DEF WriteApp
  <2>4. p.fin
    BY <1>4, <1>7 DEF ApObjOK
  <2> HIDE DEF p
  <2>5. ApObjOK(a, p)
    BY <1>4, <1>7, <2>2, ApSameOK
  <2>6. apObj'[a] = p /\ p # ApNone
    BY <1>0, <1>4, <2>2, <2>3, <2>5, ApOneObject DEF ApSame
  <2>7. DOMAIN <<>> = {}
    BY SMTT(40)
  <2>8. ApMade(apOp)' = {}
    BY <1>7, <2>7 DEF ApMade
  <2>9. ApOpOK(apOp)'
    BY <1>1, <1>4, <1>7, <2>4, <2>6, <2>7, SMTT(40) DEF ApOpOK
  <2> QED
    BY <1>0, <1>1, <1>4, <1>5, <1>6, <1>7, <2>1, <2>2, <2>3, <2>8, <2>9, ApWrites
<1>8. CASE apOp' = ApFree /\ UNCHANGED <<apObj, apAppQ>>
  <2>1. ApOpOK(apOp)' /\ ApMade(apOp)' = {}
    BY <1>8 DEF ApOpOK, ApMade
  <2> QED
    BY <1>0, <1>1, <1>5, <1>6, <1>8, <2>1, ApDrops
<1> QED
  BY <1>3, <1>7, <1>8 DEF addFinalizer

(* The status of an application follows its resources. *)
LEMMA ApUpdate == ASSUME ApSetting, ApInv, updateAppStatus PROVE ApInv'
<1>0. ApTypes /\ apAppQ \in Seq(ApAppEvent) /\ apResQ \in Seq(ApResEvent)
  BY DEF ApInv, ApTypes
<1>1. /\ apOp = ApFree /\ apResQ # <<>> /\ apResQ' = Tail(apResQ)
      /\ UNCHANGED <<apRes, apApps, apOwner, apOp, apUnsaved, apLost>>
  BY DEF updateAppStatus, ApFrame
<1>2. apResQ' \in Seq(ApResEvent)
  BY <1>0, <1>1, ApTaken
<1>3. \A r \in ApResources : /\ ApGone(apResQ, r) = {} => ApGone(apResQ, r)' = {}
                             /\ (\A i, j \in ApGone(apResQ, r) : i = j) => (\A i, j \in ApGone(apResQ, r)' : i = j)
  BY <1>0, <1>1, ApGoneLess
<1>4. ApOpOK(apOp)' /\ ApMade(apOp)' = ApMade(apOp)
  BY <1>1 DEF ApOpOK, ApMade
<1>5. PICK e : e = Head(apResQ)
  OBVIOUS
<1>6. PICK a : a = apOwner[e.res]
  OBVIOUS
<1>7. CASE UNCHANGED <<apObj, apAppQ>>
  BY <1>0, <1>1, <1>2, <1>3, <1>4, <1>7, ApDrops
<1>8. CASE /\ e.res \in DOMAIN apOwner /\ apObj[a] # ApNone /\ e.res \in DOMAIN apObj[a].res
           /\ WriteApp(a, Updated(apObj[a], e)) /\ apAppQ' = Stale(apAppQ, a)
  <2>1. a \in ApApplications /\ ApObjOK(a, apObj[a])
    BY <1>0, <1>6, <1>8 DEF ApTypes
  <2>2. apAppQ' \in Seq(ApAppEvent)
    BY <1>0, <1>8, ApStaleQueue
  <2>3. ApSame(apObj[a], Updated(apObj[a], e))
    BY <1>8, <2>1, ApUpdatedSame DEF Updated
  <2>4. apObj' = [apObj EXCEPT ![a] = Updated(apObj[a], e)]
    BY <1>8 DEF WriteApp
  <2> QED
    BY <1>0, <1>1, <1>2, <1>3, <1>4, <1>8, <2>1, <2>2, <2>3, <2>4, ApWrites
<1> QED
  BY <1>5, <1>6, <1>7, <1>8 DEF updateAppStatus

(* The operation after one more resource, named so that it is matched. *)
ApOneMore(o, r) ==
  [o EXCEPT !.n = @ + 1,
            !.res = IF IsSupported(r) THEN Learns(@, {r}, [rep |-> 0, ready |-> 0]) ELSE @,
            !.count = IF IsWorkload(r) THEN @ + 1 ELSE @]

(* The record of an operation that has created one more resource, field    *)
(* by field.                                                               *)
LEMMA ApOneMoreFields ==
  ASSUME NEW o, NEW r, {"at", "app", "fresh", "n", "res", "count"} \subseteq DOMAIN o
  PROVE  /\ DOMAIN ApOneMore(o, r) = DOMAIN o
         /\ ApOneMore(o, r).at = o.at /\ ApOneMore(o, r).app = o.app /\ ApOneMore(o, r).n = o.n + 1
         /\ DOMAIN ApOneMore(o, r).res = IF IsSupported(r) THEN DOMAIN o.res \cup {r} ELSE DOMAIN o.res
<1>1. /\ DOMAIN ApOneMore(o, r) = DOMAIN o
      /\ ApOneMore(o, r).at = o.at /\ ApOneMore(o, r).app = o.app /\ ApOneMore(o, r).n = o.n + 1
      /\ ApOneMore(o, r).res = IF IsSupported(r) THEN Learns(o.res, {r}, [rep |-> 0, ready |-> 0]) ELSE o.res
  BY DEF ApOneMore
<1>2. DOMAIN Learns(o.res, {r}, [rep |-> 0, ready |-> 0]) = DOMAIN o.res \cup {r}
  BY DEF Learns
<1> QED
  BY <1>1, <1>2

(* One resource of the manifest is created, was there already, or fails. *)
LEMMA ApCreateResource == ASSUME ApSetting, ApInv, createAppResources PROVE ApInv'
<1>0. ApTypes /\ apAppQ \in Seq(ApAppEvent) /\ apResQ \in Seq(ApResEvent) /\ ApOpOK(apOp)
  BY DEF ApInv, ApTypes
<1>1. PICK a, n, ms : a = apOp.app /\ n = apOp.n /\ ms = ApManifests[a]
  OBVIOUS
<1>2. apOp.at = "resources" /\ n <= Len(ms) /\ UNCHANGED <<apObj, apApps, apOwner, apAppQ, apUnsaved, apLost>>
  BY <1>1 DEF createAppResources, ApFrame
<1>3. apOp # ApFree
  BY <1>2, SMTT(40) DEF ApFree
<1>4. /\ {"at", "app", "fresh", "n", "res", "count"} \subseteq DOMAIN apOp /\ a \in ApApplications \ DOMAIN apApps
      /\ n \in Nat \ {0} /\ DOMAIN apOp.res \subseteq {ms[i] : i \in DOMAIN ms \cap 1..(n - 1)}
      /\ apObj[a] # ApNone /\ apObj[a].fin
  BY <1>0, <1>1, <1>2, <1>3 DEF ApOpOK
<1>5. ms \in Seq(ApResources) /\ \A i, j \in DOMAIN ms : ms[i] = ms[j] => i = j
  BY <1>1, <1>4, SMTT(40) DEF ApSetting
<1>6. n \in DOMAIN ms /\ ms[n] \in ApResources
  BY <1>2, <1>4, <1>5, SMTT(40)
<1>7. PICK r : r = ms[n]
  OBVIOUS
<1>8. r \in ApResources /\ r \in ApIn(a) /\ r \notin DOMAIN apOp.res
  <2>1. r \in ApResources /\ r \in ApIn(a)
    BY <1>1, <1>6, <1>7 DEF ApIn
  <2>2. SUFFICES ASSUME r \in DOMAIN apOp.res PROVE FALSE
    BY <2>1
  <2>3. PICK i \in DOMAIN ms \cap 1..(n - 1) : r = ms[i]
    BY <1>4, <2>2
  <2>4. i = n
    BY <1>5, <1>6, <1>7, <2>3
  <2> QED
    BY <1>4, <2>3, <2>4, SMTT(40)
<1>9. ApMade(apOp) = DOMAIN apOp.res
  BY <1>2, <1>3 DEF ApMade
<1>10. CASE apOp' = [apOp EXCEPT !.at = "failed"] /\ UNCHANGED <<apRes, apResQ>>
  <2>1. /\ DOMAIN apOp' = DOMAIN apOp /\ apOp'.at = "failed" /\ apOp'.app = a /\ apOp'.n = n /\ apOp'.res = apOp.res
    BY <1>1, <1>4, <1>10
  <2>2. apOp' # ApFree
    BY <2>1, SMTT(40) DEF ApFree
  <2>3. ApMade(apOp)' = ApMade(apOp)
    BY <1>9, <2>1, <2>2 DEF ApMade
  <2>4. ApOpOK(apOp)'
    BY <1>1, <1>2, <1>4, <2>1 DEF ApOpOK
  <2>5. \A s \in ApResources : ApGone(apResQ, s)' = ApGone(apResQ, s)
    BY <1>10 DEF ApGone
  <2> QED
    BY <1>0, <1>2, <1>10, <2>3, <2>4, <2>5, ApDrops
<1> DEFINE new == [is |-> "resource", rep |-> IF ApKind[r] = "deployment" THEN 1 ELSE 0, ready |-> 0, going |-> FALSE, by |-> a]
           e == ResEvent("create", r, new)
<1>11. CASE /\ apRes[r] = ApNone /\ apRes' = [apRes EXCEPT ![r] = new]
            /\ apResQ' = IF IsSupported(r) THEN Append(apResQ, e) ELSE apResQ
            /\ apOp' = ApOneMore(apOp, r)
  <2>1. new \in ApResource /\ new.by = a
    BY <1>4, SMTT(40) DEF ApResource
  <2>2. e \in ApResEvent /\ e.kind = "create"
    BY <1>8, SMTT(40) DEF ApResEvent, ResEvent
  <2> HIDE DEF new, e
  <2>3. apResQ' \in Seq(ApResEvent) /\ \A s \in ApResources : ApGone(apResQ, s)' \subseteq ApGone(apResQ, s)
    BY <1>0, <1>11, <2>2, ApGoneAppend
  <2>4. apRes' = [s \in ApResources |-> IF s = r THEN new ELSE apRes[s]]
    BY <1>0, <1>11 DEF ApTypes
  <2>5. /\ DOMAIN apOp' = DOMAIN apOp /\ apOp'.at = "resources" /\ apOp'.app = a /\ apOp'.n = n + 1
        /\ DOMAIN apOp'.res = IF IsSupported(r) THEN DOMAIN apOp.res \cup {r} ELSE DOMAIN apOp.res
    BY <1>1, <1>2, <1>4, <1>11, ApOneMoreFields
  <2>6. apOp' # ApFree
    BY <2>5, SMTT(40) DEF ApFree
  <2>7. /\ ApMade(apOp)' = IF IsSupported(r) THEN ApMade(apOp) \cup {r} ELSE ApMade(apOp)
        /\ r \notin ApMade(apOp)
    BY <1>8, <1>9, <2>5, <2>6 DEF ApMade
  <2>8. ApOpOK(apOp)'
    <3>1. DOMAIN apOp'.res \subseteq {ms[i] : i \in DOMAIN ms \cap 1..((n + 1) - 1)}
      <4>1. ASSUME NEW s \in DOMAIN apOp.res PROVE s \in {ms[i] : i \in DOMAIN ms \cap 1..((n + 1) - 1)}
        <5>1. PICK i \in DOMAIN ms \cap 1..(n - 1) : s = ms[i]
          BY <1>4
        <5>2. i \in DOMAIN ms \cap 1..((n + 1) - 1)
          BY <1>4, SMTT(40)
        <5> QED
          BY <5>1, <5>2
      <4>2. r \in {ms[i] : i \in DOMAIN ms \cap 1..((n + 1) - 1)}
        <5>1. n \in DOMAIN ms \cap 1..((n + 1) - 1)
          BY <1>4, <1>6, SMTT(40)
        <5> QED
          BY <1>7, <5>1
      <4> QED
        BY <2>5, <4>1, <4>2
    <3>2. n + 1 \in Nat \ {0}
      BY <1>4, SMTT(40)
    <3> QED
      <4>1. ApManifests[apOp'.app] = ms /\ apOp'.n - 1 = (n + 1) - 1
        BY <1>1, <2>5
      <4>2. DOMAIN apOp'.res \subseteq {ApManifests[apOp'.app][i] : i \in DOMAIN ApManifests[apOp'.app] \cap 1..(apOp'.n - 1)}
        BY <3>1, <4>1
      <4>3. apOp'.app \in (ApApplications \ DOMAIN apApps)' /\ apOp'.n \in Nat \ {0} /\ apObj'[apOp'.app] # ApNone /\ apObj'[apOp'.app].fin
        BY <1>2, <1>4, <2>5, <3>2
      <4> QED
        BY <1>4, <2>5, <4>2, <4>3 DEF ApOpOK
  <2>9. ApTypes'
    <3>1. apRes' \in [ApResources -> {ApNone} \cup ApResource]
      BY <1>0, <2>1, <2>4 DEF ApTypes
    <3>2. (\A s \in ApResources : apRes[s] # ApNone => s \in ApIn(apRes[s].by))'
      BY <1>0, <1>8, <2>1, <2>4 DEF ApTypes, ApIn
    <3>3. \A b \in ApApplications : ApObjOK(b, apObj[b])'
      BY <1>0, <1>2 DEF ApTypes, ApObjOK
    <3> QED
      BY <1>0, <1>2, <2>3, <2>8, <3>1, <3>2, <3>3 DEF ApTypes
  <2>10. \A b, s : ApKnown(b, s) => ApKnown(b, s)'
    BY <1>2, <2>7 DEF ApKnown
  <2>11. ASSUME NEW b \in ApApplications, NEW s \in ApResources PROVE ApThere(b, s)'
    <3>0. ApThere(b, s) /\ ApWent(b, s) /\ (ApKnown(b, s) => ApKnown(b, s)') /\ ApGone(apResQ, s)' \subseteq ApGone(apResQ, s)
      BY <2>3, <2>10 DEF ApInv
    <3>1. CASE s # r
      BY <1>2, <2>4, <2>7, <3>0, <3>1 DEF ApThere
    <3>2. CASE s = r /\ IsSupported(r) /\ b = a /\ a \notin apLost
      <4>1. ~ApKnown(a, r)
        BY <1>4, <2>7 DEF ApKnown
      <4>2. ApGone(apResQ, r)' = {}
        BY <1>8, <3>0, <3>2, <4>1 DEF ApWent
      <4>3. r \in ApMade(apOp)' /\ ApKnown(a, r)'
        BY <2>7, <3>2 DEF ApKnown
      <4> QED
        BY <1>2, <1>4, <3>2, <4>2, <4>3 DEF ApThere
    <3>3. CASE s = r /\ ~(IsSupported(r) /\ b = a /\ a \notin apLost)
      BY <1>2, <2>1, <2>4, <3>3 DEF ApThere
    <3> QED
      BY <3>1, <3>2, <3>3
  <2>12. ASSUME NEW b \in ApApplications, NEW s \in ApResources PROVE ApWent(b, s)'
    <3>0. ApWent(b, s) /\ (ApKnown(b, s) => ApKnown(b, s)') /\ ApGone(apResQ, s)' \subseteq ApGone(apResQ, s)
      BY <2>3, <2>10 DEF ApInv
    <3> QED
      BY <1>2, <3>0 DEF ApWent
  <2> QED
    BY <2>9, <2>11, <2>12 DEF ApInv
<1> QED
  BY <1>1, <1>7, <1>10, <1>11 DEF createAppResources, ApOneMore

(* The status that is stored, named so that it is matched. *)
ApSaved(o, s, rs, c) == [o EXCEPT !.state = s, !.res = rs, !.count = c]

(* The object that lists the resources an operation has created. *)
LEMMA ApSavedOK ==
  ASSUME NEW a, NEW o, o # ApNone, ApObjOK(a, o), NEW s, NEW rs, NEW c, DOMAIN rs \subseteq ApIn(a)
  PROVE  /\ ApObjOK(a, ApSaved(o, s, rs, c)) /\ ApSaved(o, s, rs, c) # ApNone
         /\ (o.fin => ApSaved(o, s, rs, c).fin) /\ ApSaved(o, s, rs, c).res = rs
<1>1. {"is", "deleting", "fin", "state", "res", "ready"} \subseteq DOMAIN o
  BY DEF ApObjOK
<1>2. DOMAIN ApSaved(o, s, rs, c) = DOMAIN o /\ ApSaved(o, s, rs, c).fin = o.fin /\ ApSaved(o, s, rs, c).res = rs
  BY <1>1 DEF ApSaved
<1>3. ApSaved(o, s, rs, c) # ApNone
  BY <1>1, <1>2, SMTT(40) DEF ApNone
<1> QED
  BY <1>1, <1>2, <1>3 DEF ApObjOK

(* The resources created are written to the object and remembered. *)
LEMMA ApStore == ASSUME ApSetting, ApInv, storeStatus PROVE ApInv'
<1>0. ApTypes /\ apAppQ \in Seq(ApAppEvent) /\ apResQ \in Seq(ApResEvent) /\ ApOpOK(apOp)
  BY DEF ApInv, ApTypes
<1>1. PICK a, rs : a = apOp.app /\ rs = apOp.res
  OBVIOUS
<1>2. /\ apOp.at \in {"resources", "failed"} /\ Add(a, DOMAIN rs) /\ apOp' = ApFree /\ UNCHANGED <<apRes, apResQ, apLost>>
  BY <1>1 DEF storeStatus, ApFrame
<1>3. apOp # ApFree
  BY <1>2, SMTT(40) DEF ApFree
<1>4. /\ a \in ApApplications \ DOMAIN apApps /\ DOMAIN rs \subseteq ApIn(a) /\ apObj[a] # ApNone /\ apObj[a].fin
      /\ ApObjOK(a, apObj[a])
  BY <1>0, <1>1, <1>2, <1>3, SMTT(40) DEF ApOpOK, ApIn, ApTypes
<1>5. ApMade(apOp) = DOMAIN rs /\ ApMade(apOp)' = {} /\ ApOpOK(apOp)'
  BY <1>1, <1>2, <1>3 DEF ApMade, ApOpOK
<1>6. /\ DOMAIN apApps' = DOMAIN apApps \cup {a} /\ apApps'[a] = DOMAIN rs
      /\ \A b \in DOMAIN apApps : apApps'[b] = apApps[b]
  BY <1>2, <1>4 DEF Add, Learns
<1>7. /\ DOMAIN apOwner' = DOMAIN apOwner \cup DOMAIN rs /\ \A r \in DOMAIN rs : apOwner'[r] = a
      /\ \A r \in DOMAIN apOwner \ DOMAIN rs : apOwner'[r] = apOwner[r]
  BY <1>2 DEF Add, Learns
<1>8. ASSUME NEW o, ApObjOK(a, o), o # ApNone, o.fin, apObj' = [apObj EXCEPT ![a] = o], apAppQ' \in Seq(ApAppEvent),
             apUnsaved \subseteq apUnsaved', apUnsaved' \subseteq apUnsaved \cup {a}, a \in apUnsaved' \/ o.res = rs
      PROVE  ApInv'
  <2>1. /\ apObj' = [b \in ApApplications |-> apObj'[b]] /\ \A b \in ApApplications : ApObjOK(b, apObj'[b])
        /\ apObj'[a] = o /\ \A b \in ApApplications : b # a => apObj'[b] = apObj[b]
    BY <1>0, <1>4, <1>8, ApOneObject
  <2>2. ApTypes'
    <3>1. \A r \in DOMAIN apOwner' : apOwner'[r] \in ApApplications /\ r \in ApIn(apOwner'[r])
      BY <1>0, <1>4, <1>7 DEF ApTypes
    <3>2. DOMAIN apApps' \subseteq ApApplications /\ \A b \in DOMAIN apApps' : apApps'[b] \subseteq ApIn(b)
      BY <1>0, <1>4, <1>6 DEF ApTypes
    <3>3. (\A s \in ApResources : apRes[s] # ApNone => s \in ApIn(apRes[s].by))' /\ apRes' \in [ApResources -> {ApNone} \cup ApResource]
      BY <1>0, <1>2 DEF ApTypes, ApIn
    <3>4. (\A r \in DOMAIN apOwner : apOwner[r] \in ApApplications /\ r \in ApIn(apOwner[r]))'
      BY <3>1 DEF ApIn
    <3>5. (apObj = [b \in ApApplications |-> apObj[b]] /\ \A b \in ApApplications : ApObjOK(b, apObj[b]))'
      BY <2>1 DEF ApObjOK
    <3> QED
      BY <1>0, <1>2, <1>5, <1>8, <3>2, <3>3, <3>4, <3>5 DEF ApTypes
  <2>3. \A b \in ApApplications : \A s \in ApIn(b) : ApKnown(b, s) => ApKnown(b, s)'
    <3>1. ASSUME NEW b \in ApApplications, NEW s \in ApIn(b), ApKnown(b, s) PROVE b \in DOMAIN apApps' /\ s \in apApps'[b]
      <4>1. CASE s \in DOMAIN rs
        <5>1. b = a
          BY <1>4, <4>1 DEF ApSetting
        <5> QED
          BY <1>6, <4>1, <5>1
      <4>2. CASE s \notin DOMAIN rs
        BY <1>5, <1>6, <3>1, <4>2 DEF ApKnown
      <4> QED
        BY <4>1, <4>2
    <3> QED
      BY <3>1 DEF ApKnown
  <2>4. \A s \in ApResources : ApGone(apResQ, s)' = ApGone(apResQ, s)
    BY <1>2 DEF ApGone
  <2>5. ASSUME NEW b \in ApApplications, NEW s \in ApResources PROVE ApThere(b, s)'
    <3> SUFFICES ASSUME apRes[s] # ApNone, apRes[s].by = b, IsSupported(s), b \notin apLost
                 PROVE  /\ apObj'[b] # ApNone /\ apObj'[b].fin /\ ApGone(apResQ, s)' = {} /\ ApKnown(b, s)'
                        /\ b \notin apUnsaved' => s \in DOMAIN apObj'[b].res
      BY <1>2 DEF ApThere
    <3>1. s \in ApIn(b)
      BY <1>0 DEF ApTypes
    <3>2. /\ apObj[b] # ApNone /\ apObj[b].fin /\ ApGone(apResQ, s) = {} /\ ApKnown(b, s)
          /\ s \notin ApMade(apOp) /\ b \notin apUnsaved => s \in DOMAIN apObj[b].res
      BY DEF ApInv, ApThere
    <3>3. CASE b = a
      <4>1. s \in DOMAIN rs
        BY <1>4, <1>5, <3>2, <3>3 DEF ApKnown
      <4> QED
        BY <1>8, <2>1, <2>3, <2>4, <3>1, <3>2, <3>3, <4>1
    <3>4. CASE b # a
      <4>1. s \notin ApMade(apOp)
        BY <1>4, <1>5, <3>1, <3>4 DEF ApSetting
      <4> QED
        BY <1>8, <2>1, <2>3, <2>4, <3>1, <3>2, <3>4, <4>1
    <3> QED
      BY <3>3, <3>4
  <2>6. ASSUME NEW b \in ApApplications, NEW s \in ApResources PROVE ApWent(b, s)'
    <3>1. ApWent(b, s) /\ ApGone(apResQ, s)' = ApGone(apResQ, s) /\ (s \in ApIn(b) /\ ApKnown(b, s) => ApKnown(b, s)')
      BY <2>3, <2>4 DEF ApInv
    <3> QED
      BY <1>2, <3>1 DEF ApWent
  <2> QED
    BY <2>2, <2>5, <2>6 DEF ApInv
<1>9. CASE apUnsaved' = apUnsaved \cup {a} /\ UNCHANGED <<apObj, apAppQ>>
  <2>1. apObj' = [apObj EXCEPT ![a] = apObj[a]]
    BY <1>0, <1>4, <1>9 DEF ApTypes
  <2> QED
    BY <1>0, <1>4, <1>8, <1>9, <2>1
<1>10. CASE \E s : WriteApp(a, ApSaved(apObj[a], s, rs, apOp.count)) /\ apAppQ' = Stale(apAppQ, a) /\ UNCHANGED apUnsaved
  <2>1. PICK s : WriteApp(a, ApSaved(apObj[a], s, rs, apOp.count)) /\ apAppQ' = Stale(apAppQ, a) /\ UNCHANGED apUnsaved
    BY <1>10
  <2>2. PICK o : o = ApSaved(apObj[a], s, rs, apOp.count)
    OBVIOUS
  <2>3. ApObjOK(a, o) /\ o # ApNone /\ (apObj[a].fin => o.fin) /\ o.res = rs
    BY <1>4, <2>2, ApSavedOK, SMTT(40)
  <2>4. apAppQ' \in Seq(ApAppEvent) /\ apObj' = [apObj EXCEPT ![a] = o]
    BY <1>0, <2>1, <2>2, ApStaleQueue DEF WriteApp
  <2>5. apUnsaved \subseteq apUnsaved' /\ apUnsaved' \subseteq apUnsaved \cup {a}
    BY <2>1
  <2>6. o.fin
    BY <1>4, <2>3
  <2> QED
    BY <1>8, <2>3, <2>4, <2>5, <2>6
<1> QED
  BY <1>1, <1>9, <1>10 DEF storeStatus, ApSaved

(* Objects and resources change together. *)
LEMMA ApTypesOf ==
  ASSUME ApTypes, (apObj = [b \in ApApplications |-> apObj[b]] /\ \A b \in ApApplications : ApObjOK(b, apObj[b]))',
         apRes' \in [ApResources -> {ApNone} \cup ApResource],
         \A s \in ApResources : apRes'[s] # ApNone => apRes[s] # ApNone /\ apRes'[s].by = apRes[s].by,
         DOMAIN apApps' \subseteq DOMAIN apApps, \A b \in DOMAIN apApps' : apApps'[b] \subseteq apApps[b],
         DOMAIN apOwner' \subseteq DOMAIN apOwner, \A r \in DOMAIN apOwner' : apOwner'[r] = apOwner[r],
         apAppQ' \in Seq(ApAppEvent), apResQ' \in Seq(ApResEvent), apOp' = ApFree
  PROVE  ApTypes'
<1>1. (\A s \in ApResources : apRes[s] # ApNone => s \in ApIn(apRes[s].by))'
  BY SMTT(40) DEF ApTypes, ApIn
<1>2. (\A r \in DOMAIN apOwner : apOwner[r] \in ApApplications /\ r \in ApIn(apOwner[r]))'
  BY SMTT(40) DEF ApTypes, ApIn
<1>3. DOMAIN apApps' \subseteq ApApplications /\ \A b \in DOMAIN apApps' : apApps'[b] \subseteq ApIn(b)
  BY DEF ApTypes
<1>4. ApOpOK(apOp)'
  BY DEF ApOpOK
<1> QED
  BY <1>1, <1>2, <1>3, <1>4 DEF ApTypes

(* The deletion of some resources is asked for; none goes yet. *)
LEMMA ApAsk ==
  ASSUME ApTypes, NEW rs,
         apRes' = [r \in ApResources |-> IF r \in rs /\ apRes[r] # ApNone THEN [apRes[r] EXCEPT !.going = TRUE] ELSE apRes[r]]
  PROVE  /\ apRes' \in [ApResources -> {ApNone} \cup ApResource]
         /\ \A s \in ApResources : apRes'[s] # ApNone => apRes[s] # ApNone /\ apRes'[s].by = apRes[s].by
<1>1. ASSUME NEW r \in ApResources
      PROVE  /\ apRes'[r] \in {ApNone} \cup ApResource
             /\ apRes'[r] # ApNone => apRes[r] # ApNone /\ apRes'[r].by = apRes[r].by
  <2>0. apRes[r] \in {ApNone} \cup ApResource
    BY DEF ApTypes
  <2>1. CASE r \in rs /\ apRes[r] # ApNone
    <3>1. apRes[r] \in ApResource /\ apRes'[r] = [apRes[r] EXCEPT !.going = TRUE]
      BY <2>0, <2>1
    <3>2. apRes'[r] \in ApResource /\ apRes'[r].by = apRes[r].by
      BY <3>1 DEF ApResource
    <3> QED
      BY <2>1, <3>2
  <2>2. CASE ~(r \in rs /\ apRes[r] # ApNone)
    BY <2>0, <2>2
  <2> QED
    BY <2>1, <2>2
<1> QED
  BY <1>1

(* One object is written or goes. *)
LEMMA ApDeletedObject ==
  ASSUME ApTypes, NEW a \in ApApplications, NEW o, ApObjOK(a, o), apObj' = [apObj EXCEPT ![a] = o]
  PROVE  (apObj = [b \in ApApplications |-> apObj[b]] /\ \A b \in ApApplications : ApObjOK(b, apObj[b]))'
<1>1. apObj' = [b \in ApApplications |-> apObj'[b]] /\ \A b \in ApApplications : ApObjOK(b, apObj'[b])
  BY ApOneObject
<1> QED
  BY <1>1 DEF ApObjOK

(* No object changes. *)
LEMMA ApObjectsKept ==
  ASSUME ApTypes, apObj' = apObj PROVE (apObj = [b \in ApApplications |-> apObj[b]] /\ \A b \in ApApplications : ApObjOK(b, apObj[b]))'
  BY DEF ApTypes, ApObjOK

(* The operator handles the deletion of an application. *)
LEMMA ApOnDelete == ASSUME ApSetting, ApInv, OnDeleteApplication PROVE ApInv'
<1>0. ApTypes /\ Take("deleting") /\ apResQ \in Seq(ApResEvent)
  BY DEF ApInv, ApTypes, OnDeleteApplication
<1>1. PICK a : a = Head(apAppQ).app
  OBVIOUS
<1>2. /\ apOp = ApFree /\ a \in ApApplications /\ Tail(apAppQ) \in Seq(ApAppEvent) /\ ApObjOK(a, apObj[a])
      /\ UNCHANGED <<apOwner, apResQ, apOp, apLost>>
  BY <1>0, <1>1, ApHeadApp DEF OnDeleteApplication, ApFrame, ApTypes
<1>3. \A r \in ApResources : ApGone(apResQ, r)' = ApGone(apResQ, r)
  BY <1>2 DEF ApGone
<1>4. ApMade(apOp) = {} /\ ApMade(apOp)' = {} /\ ApOpOK(apOp)'
  BY <1>2 DEF ApMade, ApOpOK
<1>5. Stale(Tail(apAppQ), a) \in Seq(ApAppEvent)
  BY <1>2, ApStaleQueue
<1> DEFINE Ask(rs) == apRes' = [r \in ApResources |-> IF r \in rs /\ apRes[r] # ApNone THEN [apRes[r] EXCEPT !.going = TRUE] ELSE apRes[r]]
<1>6. CASE apAppQ' = Tail(apAppQ) /\ UNCHANGED <<apObj, apRes, apApps, apUnsaved>>
  BY <1>0, <1>2, <1>3, <1>4, <1>6, ApDrops
<1>7. CASE /\ \E rs : Ask(rs)
           /\ \/ apObj' = apObj
              \/ apObj[a] # ApNone /\ apObj' = [apObj EXCEPT ![a] = [apObj[a] EXCEPT !.state = "failed"]]
           /\ apAppQ' \in {Tail(apAppQ), Stale(Tail(apAppQ), a)} /\ UNCHANGED <<apApps, apUnsaved>>
  <2>1. PICK rs : Ask(rs)
    BY <1>7
  <2>2. /\ apRes' \in [ApResources -> {ApNone} \cup ApResource]
        /\ \A s \in ApResources : apRes'[s] # ApNone => apRes[s] # ApNone /\ apRes'[s].by = apRes[s].by
    BY <1>0, <2>1, ApAsk
  <2>3. apAppQ' \in Seq(ApAppEvent)
    BY <1>2, <1>5, <1>7
  <2>4. /\ (apObj = [b \in ApApplications |-> apObj[b]] /\ \A b \in ApApplications : ApObjOK(b, apObj[b]))'
        /\ ApFinKept
    <3>1. CASE apObj' = apObj
      <4>1. ApFinKept
        BY <3>1 DEF ApFinKept
      <4> QED
        BY <1>0, <3>1, <4>1, ApObjectsKept
    <3>2. CASE apObj[a] # ApNone /\ apObj' = [apObj EXCEPT ![a] = [apObj[a] EXCEPT !.state = "failed"]]
      <4>1. PICK p : p = [apObj[a] EXCEPT !.state = "failed"]
        OBVIOUS
      <4>2. ApSame(apObj[a], p)
        BY <1>2, <3>2, <4>1, ApStateSame
      <4>3. ApObjOK(a, p)
        BY <1>2, <3>2, <4>2, ApSameOK
      <4> QED
        BY <1>0, <1>2, <3>2, <4>1, <4>2, <4>3, ApDeletedObject, ApSameFin
    <3> QED
      BY <1>7, <3>1, <3>2
  <2>5. ApTypes'
    BY <1>0, <1>2, <1>7, <2>2, <2>3, <2>4, ApTypesOf
  <2>6. ApCalm
    BY <1>2, <1>3, <1>4, <1>7, <2>2, <2>4 DEF ApCalm, ApFinKept
  <2> QED
    BY <2>5, <2>6, ApCalmKeeps
<1>8. CASE /\ \E rs : Ask(rs)
           /\ a \in DOMAIN apApps /\ apApps[a] = {} /\ apObj' = [apObj EXCEPT ![a] = ApNone] /\ apApps' = Forgets(apApps, {a})
           /\ apAppQ' = Stale(Tail(apAppQ), a) /\ apUnsaved' = apUnsaved \ {a}
  <2>1. PICK rs : Ask(rs)
    BY <1>8
  <2>2. /\ apRes' \in [ApResources -> {ApNone} \cup ApResource]
        /\ \A s \in ApResources : apRes'[s] # ApNone => apRes[s] # ApNone /\ apRes'[s].by = apRes[s].by
    BY <1>0, <2>1, ApAsk
  <2>3. ApObjOK(a, ApNone)
    BY DEF ApObjOK
  <2>4. /\ (apObj = [b \in ApApplications |-> apObj[b]] /\ \A b \in ApApplications : ApObjOK(b, apObj[b]))'
        /\ \A b \in ApApplications : b # a => apObj'[b] = apObj[b]
    BY <1>0, <1>2, <1>8, <2>3, ApDeletedObject, ApOneObject
  <2>5. DOMAIN apApps' = DOMAIN apApps \ {a} /\ \A b \in DOMAIN apApps' : apApps'[b] = apApps[b]
    BY <1>8 DEF Forgets
  <2>6. ApTypes'
    BY <1>0, <1>2, <1>5, <1>8, <2>2, <2>4, <2>5, ApTypesOf
  <2>7. \A s : ~ApKnown(a, s)
    BY <1>4, <1>8 DEF ApKnown
  <2>8. \A b, s : b # a => ApKnown(b, s)' = ApKnown(b, s)
    BY <1>4, <2>5 DEF ApKnown
  <2>9. ASSUME NEW b \in ApApplications, NEW s \in ApResources PROVE ApThere(b, s)' /\ ApWent(b, s)'
    <3>0. ApThere(b, s) /\ ApWent(b, s) /\ ApGone(apResQ, s)' = ApGone(apResQ, s) /\ apLost' = apLost
          /\ (apRes'[s] # ApNone => apRes[s] # ApNone /\ apRes'[s].by = apRes[s].by)
      BY <1>2, <1>3, <2>2 DEF ApInv
    <3>1. CASE b = a
      BY <2>7, <3>0, <3>1 DEF ApThere, ApWent
    <3>2. CASE b # a
      <4>1. ApKnown(b, s)' = ApKnown(b, s) /\ apObj'[b] = apObj[b] /\ (b \in apUnsaved' <=> b \in apUnsaved)
        BY <1>8, <2>4, <2>8, <3>2
      <4>2. ApThere(b, s)'
        BY <1>4, <3>0, <4>1 DEF ApThere
      <4>3. ApWent(b, s)'
        BY <3>0, <4>1 DEF ApWent
      <4> QED
        BY <4>2, <4>3
    <3> QED
      BY <3>1, <3>2
  <2> QED
    BY <2>6, <2>9 DEF ApInv
<1> QED
  BY <1>1, <1>6, <1>7, <1>8 DEF OnDeleteApplication, Finalizes

(* The deletion of r, which application a owns, is seen. *)
LEMMA ApSeen ==
  ASSUME ApSetting, ApInv, apOp = ApFree, apResQ # <<>>, Head(apResQ).kind = "delete",
         NEW r, r = Head(apResQ).res, r \in DOMAIN apOwner, NEW a, a = apOwner[r], a \in DOMAIN apApps,
         NEW o, ApObjOK(a, o), apObj' = [apObj EXCEPT ![a] = o],
         apResQ' = Tail(apResQ), apAppQ' = Stale(apAppQ, a), apOwner' = Forgets(apOwner, {r}),
         \/ apApps[a] \ {r} = {} /\ apApps' = Forgets(apApps, {a}) /\ apUnsaved' = apUnsaved \ {a}
         \/ apApps' = Learns(apApps, {a}, apApps[a] \ {r}) /\ apObj[a] # ApNone /\ ApSame(apObj[a], o) /\ apUnsaved' = apUnsaved,
         UNCHANGED <<apRes, apOp, apLost>>
  PROVE  ApInv'
<1>0. ApTypes /\ apAppQ \in Seq(ApAppEvent) /\ apResQ \in Seq(ApResEvent)
  BY DEF ApInv, ApTypes
<1>1. a \in ApApplications /\ r \in ApIn(a)
  BY <1>0 DEF ApTypes
<1>2. apAppQ' \in Seq(ApAppEvent) /\ apResQ' \in Seq(ApResEvent)
  BY <1>0, ApStaleQueue, ApTaken
<1>3. 1 \in ApGone(apResQ, r) /\ \A s : \A i \in ApGone(apResQ, s)' : i + 1 \in ApGone(apResQ, s) /\ i \in Nat \ {0}
  BY <1>0, ApGoneTail
<1>4. ApMade(apOp) = {} /\ ApMade(apOp)' = {}
  BY DEF ApMade
<1>5. /\ (apObj = [b \in ApApplications |-> apObj[b]] /\ \A b \in ApApplications : ApObjOK(b, apObj[b]))'
      /\ apObj'[a] = o /\ \A b \in ApApplications : b # a => apObj'[b] = apObj[b]
  BY <1>0, <1>1, ApDeletedObject, ApOneObject
<1>6. DOMAIN apOwner' \subseteq DOMAIN apOwner /\ \A s \in DOMAIN apOwner' : apOwner'[s] = apOwner[s]
  BY DEF Forgets
<1>7. /\ DOMAIN apApps' \subseteq DOMAIN apApps /\ \A b \in DOMAIN apApps' : apApps'[b] \subseteq apApps[b]
      /\ \A b \in DOMAIN apApps : b # a => b \in DOMAIN apApps' /\ apApps'[b] = apApps[b]
      /\ a \in DOMAIN apApps' => apApps'[a] = apApps[a] \ {r}
      /\ a \notin DOMAIN apApps' => apApps[a] \ {r} = {}
      /\ a \in DOMAIN apApps' => apObj[a] # ApNone /\ ApSame(apObj[a], o) /\ apUnsaved' = apUnsaved
      /\ \A b : b # a => (b \in apUnsaved' <=> b \in apUnsaved)
  <2>1. CASE apApps[a] \ {r} = {} /\ apApps' = Forgets(apApps, {a}) /\ apUnsaved' = apUnsaved \ {a}
    BY <2>1 DEF Forgets
  <2>2. CASE /\ apApps' = Learns(apApps, {a}, apApps[a] \ {r})
             /\ apObj[a] # ApNone /\ ApSame(apObj[a], o) /\ apUnsaved' = apUnsaved
    BY <2>2 DEF Learns
  <2> QED
    BY <2>1, <2>2
<1>8. ApTypes'
  <2>1. /\ apRes' \in [ApResources -> {ApNone} \cup ApResource]
        /\ \A s \in ApResources : apRes'[s] # ApNone => apRes[s] # ApNone /\ apRes'[s].by = apRes[s].by
    BY <1>0 DEF ApTypes
  <2> QED
    BY <1>0, <1>2, <1>5, <1>6, <1>7, <2>1, ApTypesOf
<1>9. ASSUME NEW b \in ApApplications, NEW s \in ApResources PROVE ApThere(b, s)' /\ ApWent(b, s)'
  <2>0. /\ ApThere(b, s) /\ ApWent(b, s)
        /\ \A i \in ApGone(apResQ, s)' : i + 1 \in ApGone(apResQ, s) /\ i \in Nat \ {0}
    BY <1>3 DEF ApInv
  <2>1. ApGone(apResQ, s) = {} => ApGone(apResQ, s)' = {}
    BY <2>0
  <2>2. (\A i, j \in ApGone(apResQ, s) : i = j) => (\A i, j \in ApGone(apResQ, s)' : i = j)
    <3> SUFFICES ASSUME \A i, j \in ApGone(apResQ, s) : i = j, NEW i \in ApGone(apResQ, s)', NEW j \in ApGone(apResQ, s)'
                 PROVE  i = j
      OBVIOUS
    <3>1. i + 1 = j + 1 /\ i \in Nat /\ j \in Nat
      BY <2>0
    <3> QED
      BY <3>1, SMTT(40)
  <2>3. CASE b # a
    <3>1. ApKnown(b, s)' = ApKnown(b, s) /\ apObj'[b] = apObj[b] /\ (b \in apUnsaved' <=> b \in apUnsaved)
      BY <1>4, <1>5, <1>7, <2>3 DEF ApKnown
    <3>2. ApThere(b, s)'
      BY <1>4, <2>0, <2>1, <3>1 DEF ApThere
    <3>3. ApWent(b, s)'
      BY <2>0, <2>1, <2>2, <3>1 DEF ApWent
    <3> QED
      BY <3>2, <3>3
  <2>4. CASE b = a /\ s = r
    <3>1. a \notin apLost => ~(apRes[s] # ApNone /\ apRes[s].by = a /\ IsSupported(s))
      BY <1>3, <2>0, <2>4 DEF ApThere
    <3>2. a \notin apLost => ApGone(apResQ, s)' = {}
      <4> SUFFICES ASSUME a \notin apLost, NEW i \in ApGone(apResQ, s)' PROVE FALSE
        OBVIOUS
      <4>1. i + 1 = 1 /\ i \in Nat \ {0}
        BY <1>1, <1>3, <2>0, <2>4 DEF ApWent
      <4> QED
        BY <4>1, SMTT(40)
    <3> QED
      BY <2>4, <3>1, <3>2 DEF ApThere, ApWent
  <2>5. CASE b = a /\ s # r
    <3>1. ApKnown(a, s) => a \in DOMAIN apApps' /\ ApKnown(a, s)'
      BY <1>4, <1>7, <2>5 DEF ApKnown
    <3>2. a \in DOMAIN apApps' => /\ apObj'[a] # ApNone /\ DOMAIN apObj'[a].res = DOMAIN apObj[a].res
                                  /\ (apObj[a].fin => apObj'[a].fin) /\ apUnsaved' = apUnsaved
      BY <1>5, <1>7 DEF ApSame
    <3>3. ApThere(b, s)'
      BY <1>4, <2>0, <2>1, <2>5, <3>1, <3>2 DEF ApThere
    <3>4. ApWent(b, s)'
      BY <2>0, <2>1, <2>2, <2>5, <3>1 DEF ApWent
    <3> QED
      BY <3>3, <3>4
  <2> QED
    BY <2>3, <2>4, <2>5
<1> QED
  BY <1>8, <1>9 DEF ApInv

(* What is left of an object after its resource went. *)
ApCleared(o, r) ==
  IF r \in DOMAIN o.res
  THEN [o EXCEPT !.res[r] = [rep |-> 0, ready |-> 0], !.ready = IF IsWorkload(r) /\ IsReady(o.res[r]) THEN @ - 1 ELSE @]
  ELSE o

(* A resource whose deletion was seen is no longer listed. *)
LEMMA ApClearedOK ==
  ASSUME NEW a, NEW o, o # ApNone, ApObjOK(a, o), NEW r
  PROVE  /\ ApSame(o, ApCleared(o, r)) /\ ApObjOK(a, ApCleared(o, r))
         /\ ApObjOK(a, [ApCleared(o, r) EXCEPT !.fin = FALSE])
<1>1. ApSame(o, ApCleared(o, r))
  <2>1. CASE r \in DOMAIN o.res
    BY <2>1, ApUpdatedSame DEF ApCleared
  <2>2. CASE r \notin DOMAIN o.res
    BY <2>2 DEF ApCleared, ApSame
  <2> QED
    BY <2>1, <2>2
<1>2. ApObjOK(a, ApCleared(o, r)) /\ ApCleared(o, r) # ApNone
  BY <1>1, ApSameOK DEF ApSame
<1>3. PICK c : c = ApCleared(o, r)
  OBVIOUS
<1>4. ApObjOK(a, [c EXCEPT !.fin = FALSE])
  <2>1. {"is", "deleting", "fin", "state", "res", "ready"} \subseteq DOMAIN c /\ DOMAIN c.res \subseteq ApIn(a)
    BY <1>2, <1>3 DEF ApObjOK
  <2>2. DOMAIN [c EXCEPT !.fin = FALSE] = DOMAIN c /\ [c EXCEPT !.fin = FALSE].res = c.res
    BY <2>1
  <2> QED
    BY <2>1, <2>2 DEF ApObjOK
<1> QED
  BY <1>1, <1>2, <1>3, <1>4

(* The operator handles the deletion of a resource. *)
LEMMA ApOnDeleteResource == ASSUME ApSetting, ApInv, OnDeleteAppResource PROVE ApInv'
<1>0. ApTypes /\ apAppQ \in Seq(ApAppEvent) /\ apResQ \in Seq(ApResEvent)
  BY DEF ApInv, ApTypes
<1>1. PICK r, a : r = Head(apResQ).res /\ a = apOwner[r]
  OBVIOUS
<1>2. /\ apOp = ApFree /\ apResQ # <<>> /\ Head(apResQ).kind = "delete" /\ apResQ' = Tail(apResQ)
      /\ UNCHANGED <<apRes, apOp, apLost>>
  BY DEF OnDeleteAppResource, ApFrame
<1>3. apResQ' \in Seq(ApResEvent) /\ ApOpOK(apOp)' /\ ApMade(apOp)' = ApMade(apOp)
  BY <1>0, <1>2, ApTaken DEF ApOpOK, ApMade
<1>4. \A s \in ApResources : /\ ApGone(apResQ, s) = {} => ApGone(apResQ, s)' = {}
                             /\ (\A i, j \in ApGone(apResQ, s) : i = j) => (\A i, j \in ApGone(apResQ, s)' : i = j)
  BY <1>0, <1>2, ApGoneLess
<1>5. CASE UNCHANGED <<apObj, apApps, apOwner, apAppQ, apUnsaved>>
  BY <1>0, <1>2, <1>3, <1>4, <1>5, ApDrops
<1>6. CASE /\ r \in DOMAIN apOwner /\ a \in DOMAIN apApps /\ apObj[a] # ApNone
           /\ apOwner' = Forgets(apOwner, {r}) /\ apAppQ' = Stale(apAppQ, a)
           /\ \/ /\ apApps[a] \ {r} = {} /\ apApps' = Forgets(apApps, {a}) /\ apUnsaved' = apUnsaved \ {a}
                 /\ apObj' = [apObj EXCEPT ![a] = IF apObj[a].deleting THEN ApNone ELSE [ApCleared(apObj[a], r) EXCEPT !.fin = FALSE]]
              \/ /\ apApps' = Learns(apApps, {a}, apApps[a] \ {r}) /\ WriteApp(a, ApCleared(apObj[a], r))
                 /\ apUnsaved' = apUnsaved
  <2>1. ApObjOK(a, apObj[a]) /\ ApObjOK(a, ApNone)
    BY <1>0, <1>6 DEF ApTypes, ApObjOK
  <2>2. /\ ApSame(apObj[a], ApCleared(apObj[a], r)) /\ ApObjOK(a, ApCleared(apObj[a], r))
        /\ ApObjOK(a, [ApCleared(apObj[a], r) EXCEPT !.fin = FALSE])
    BY <1>6, <2>1, ApClearedOK
  <2>3. CASE /\ apApps[a] \ {r} = {} /\ apApps' = Forgets(apApps, {a}) /\ apUnsaved' = apUnsaved \ {a}
             /\ apObj' = [apObj EXCEPT ![a] = IF apObj[a].deleting THEN ApNone ELSE [ApCleared(apObj[a], r) EXCEPT !.fin = FALSE]]
    <3>1. PICK o : o = IF apObj[a].deleting THEN ApNone ELSE [ApCleared(apObj[a], r) EXCEPT !.fin = FALSE]
      OBVIOUS
    <3>2. ApObjOK(a, o) /\ apObj' = [apObj EXCEPT ![a] = o]
      BY <2>1, <2>2, <2>3, <3>1
    <3> QED
      BY <1>1, <1>2, <1>6, <2>3, <3>2, ApSeen
  <2>4. CASE /\ apApps' = Learns(apApps, {a}, apApps[a] \ {r}) /\ WriteApp(a, ApCleared(apObj[a], r)) /\ apUnsaved' = apUnsaved
    <3>1. apObj' = [apObj EXCEPT ![a] = ApCleared(apObj[a], r)]
      BY <2>4 DEF WriteApp
    <3> QED
      BY <1>1, <1>2, <1>6, <2>2, <2>4, <3>1, ApSeen
  <2> QED
    BY <1>6, <2>3, <2>4
<1> QED
  BY <1>1, <1>5, <1>6 DEF OnDeleteAppResource, Finalizes, ApCleared

(* A finite set in some order is a sequence of its members. *)
LEMMA ApOrdered == ASSUME NEW S, Cardinality(S) \in Nat, Orders(S) # {} PROVE InSomeOrder(S) \in Seq(S)
<1>1. InSomeOrder(S) \in Orders(S)
  BY DEF InSomeOrder
<1>2. InSomeOrder(S) \in [1..Cardinality(S) -> S]
  BY <1>1 DEF Orders
<1> QED
  BY <1>2, ApIsSeq

(* The server restarts and learns from the objects what it created. *)
LEMMA ApRestarted == ASSUME ApSetting, ApInv, ApRestart PROVE ApInv'
<1>0. ApTypes /\ ApOpOK(apOp)
  BY DEF ApInv, ApTypes
<1> DEFINE P == {a \in ApApplications : apObj[a] # ApNone}
           R == {r \in ApResources : apRes[r] # ApNone /\ IsSupported(r)}
           apps == InSomeOrder(P)
           ress == InSomeOrder(R)
<1>1. /\ apApps' = [a \in P |-> DOMAIN apObj[a].res]
      /\ apOwner' = [r \in UNION {DOMAIN apObj[a].res : a \in P} |-> CHOOSE a \in P : r \in DOMAIN apObj[a].res]
      /\ apAppQ' = [i \in DOMAIN apps |-> [kind |-> "create", app |-> apps[i], fresh |-> TRUE]]
      /\ apResQ' = [i \in DOMAIN ress |-> ResEvent("create", ress[i], apRes[ress[i]])]
      /\ apLost' = apLost \cup apUnsaved \cup (IF apOp.at \in {"resources", "failed"} THEN {apOp.app} ELSE {})
      /\ apOp' = ApFree /\ UNCHANGED <<apObj, apRes, apUnsaved>>
  BY DEF ApRestart
<1>2. apps \in Seq(P) /\ ress \in Seq(R)
  <2>1. Cardinality(P) \in Nat /\ Orders(P) # {} /\ Cardinality(R) \in Nat /\ Orders(R) # {}
    BY DEF ApSetting
  <2> QED
    BY <2>1, ApOrdered
<1> HIDE DEF apps, ress
<1>3. apAppQ' \in Seq(ApAppEvent)
  <2>1. DOMAIN apps = 1..Len(apps) /\ Len(apps) \in Nat /\ \A i \in 1..Len(apps) : apps[i] \in P
    BY <1>2, SMTT(40)
  <2>2. \A i \in 1..Len(apps) : [kind |-> "create", app |-> apps[i], fresh |-> TRUE] \in ApAppEvent
    BY <2>1 DEF ApAppEvent
  <2> QED
    BY <1>1, <2>1, <2>2, ApIsSeq
<1>4. apResQ' \in Seq(ApResEvent) /\ \A i \in DOMAIN apResQ' : apResQ'[i].kind = "create"
  <2>1. DOMAIN ress = 1..Len(ress) /\ Len(ress) \in Nat /\ \A i \in 1..Len(ress) : ress[i] \in R
    BY <1>2, SMTT(40)
  <2>2. ASSUME NEW i \in 1..Len(ress)
        PROVE  /\ ResEvent("create", ress[i], apRes[ress[i]]) \in ApResEvent
               /\ ResEvent("create", ress[i], apRes[ress[i]]).kind = "create"
    <3>1. ress[i] \in ApResources /\ apRes[ress[i]] \in ApResource
      BY <1>0, <2>1 DEF ApTypes
    <3> QED
      BY <3>1 DEF ApResEvent, ResEvent, ApResource
  <2>3. apResQ' = [i \in 1..Len(ress) |-> ResEvent("create", ress[i], apRes[ress[i]])]
    BY <1>1, <2>1
  <2>4. \A i \in DOMAIN apResQ' : apResQ'[i].kind = "create"
    BY <2>2, <2>3
  <2>5. apResQ' \in Seq(ApResEvent)
    BY <2>1, <2>2, <2>3, ApIsSeq
  <2> QED
    BY <2>4, <2>5
<1>5. \A s : ApGone(apResQ, s)' = {}
  BY <1>4 DEF ApGone
<1>6. ApMade(apOp)' = {} /\ ApOpOK(apOp)'
  BY <1>1 DEF ApMade, ApOpOK
<1>7. ApTypes'
  <2>1. (apObj = [b \in ApApplications |-> apObj[b]] /\ \A b \in ApApplications : ApObjOK(b, apObj[b]))'
    BY <1>0, <1>1, ApObjectsKept
  <2>2. (\A s \in ApResources : apRes[s] # ApNone => s \in ApIn(apRes[s].by))' /\ apRes' \in [ApResources -> {ApNone} \cup ApResource]
    BY <1>0, <1>1 DEF ApTypes, ApIn
  <2>3. DOMAIN apApps' \subseteq ApApplications /\ \A b \in DOMAIN apApps' : apApps'[b] \subseteq ApIn(b)
    BY <1>0, <1>1 DEF ApTypes, ApObjOK
  <2>4. ASSUME NEW r \in DOMAIN apOwner' PROVE apOwner'[r] \in ApApplications /\ r \in ApIn(apOwner'[r])
    <3>1. \E a \in P : r \in DOMAIN apObj[a].res
      BY <1>1
    <3>2. apOwner'[r] \in P /\ r \in DOMAIN apObj[apOwner'[r]].res
      BY <1>1, <3>1
    <3> QED
      BY <1>0, <3>2 DEF ApTypes, ApObjOK
  <2>5. (\A r \in DOMAIN apOwner : apOwner[r] \in ApApplications /\ r \in ApIn(apOwner[r]))'
    BY <2>4 DEF ApIn
  <2> QED
    BY <1>3, <1>4, <1>6, <2>1, <2>2, <2>3, <2>5 DEF ApTypes
<1>8. ASSUME NEW b \in ApApplications, NEW s \in ApResources PROVE ApThere(b, s)' /\ ApWent(b, s)'
  <2>1. ApGone(apResQ, s)' = {}
    BY <1>5
  <2>2. ApWent(b, s)'
    BY <2>1 DEF ApWent
  <2>3. ASSUME apRes[s] # ApNone, apRes[s].by = b, IsSupported(s), b \notin apLost'
        PROVE  apObj[b] # ApNone /\ apObj[b].fin /\ s \in DOMAIN apObj[b].res
    <3>1. b \notin apLost /\ b \notin apUnsaved /\ s \in ApIn(b)
      BY <1>0, <1>1, <2>3 DEF ApTypes
    <3>2. s \notin ApMade(apOp)
      <4> SUFFICES ASSUME s \in ApMade(apOp) PROVE FALSE
        OBVIOUS
      <4>1. apOp # ApFree /\ apOp.at \in {"resources", "failed"} /\ s \in DOMAIN apOp.res
        BY DEF ApMade
      <4>2. apOp.app \in ApApplications /\ s \in ApIn(apOp.app)
        BY <1>0, <4>1 DEF ApOpOK, ApIn
      <4>3. b = apOp.app
        BY <3>1, <4>2 DEF ApSetting
      <4> QED
        BY <1>1, <2>3, <4>1, <4>3
    <3>3. ApThere(b, s)
      BY DEF ApInv
    <3> QED
      BY <2>3, <3>1, <3>2, <3>3 DEF ApThere
  <2>4. ASSUME apObj[b] # ApNone, s \in DOMAIN apObj[b].res PROVE ApKnown(b, s)'
    BY <1>1, <2>4 DEF ApKnown
  <2>5. ApThere(b, s)'
    BY <1>1, <2>1, <2>3, <2>4 DEF ApThere
  <2> QED
    BY <2>2, <2>5
<1> QED
  BY <1>7, <1>8 DEF ApInv

(* There is no application at the start. *)
LEMMA ApInvInit == ASSUME ApSetting, ApInit PROVE ApInv
<1>1. DOMAIN <<>> = {} /\ <<>> \in Seq(ApAppEvent) /\ <<>> \in Seq(ApResEvent)
  BY SMTT(40)
<1>2. ApTypes
  BY <1>1 DEF ApInit, ApTypes, ApObjOK, ApOpOK
<1>3. \A s : ApGone(apResQ, s) = {}
  BY <1>1 DEF ApInit, ApGone
<1>4. ASSUME NEW b \in ApApplications, NEW s \in ApResources PROVE ApThere(b, s) /\ ApWent(b, s)
  BY <1>3 DEF ApInit, ApThere, ApWent
<1> QED
  BY <1>2, <1>4 DEF ApInv

(* Every step keeps the invariant. *)
LEMMA ApInvStep == ASSUME ApSetting, ApInv, [ApNext]_apVars PROVE ApInv'
<1>1. CASE UNCHANGED apVars
  BY <1>1, ApStutter DEF apVars
<1>2. CASE \E a \in ApApplications : createApplication(a) \/ DeleteApplication(a)
  BY <1>2, ApCreate, ApDeletes DEF DeleteApplication
<1>3. CASE \E a \in ApSystem : ensureApplicationSucceedOrDie(a)
  BY <1>3, ApEnsured
<1>4. CASE \E r \in ApResources : Scheduled(r) \/ ReadyChanges(r) \/ Goes(r)
  BY <1>4, ApScheduled, ApReadyChanges, ApGoes
<1>5. CASE OnCreateApplication \/ preInstallChartCRDs \/ addFinalizer \/ createAppResources \/ storeStatus
  BY <1>5, ApOnCreate, ApPreInstall, ApAddFinalizer, ApCreateResource, ApStore
<1>6. CASE OnDeleteApplication \/ updateAppStatus \/ OnDeleteAppResource \/ ApRestart
  BY <1>6, ApOnDelete, ApUpdate, ApOnDeleteResource, ApRestarted
<1> QED
  BY <1>1, <1>2, <1>3, <1>4, <1>5, <1>6 DEF ApNext

(* The invariant leaves no orphan. *)
LEMMA ApInvOrphan == ASSUME ApInv PROVE ApNoOrphan
<1> SUFFICES ASSUME NEW r \in ApResources, apRes[r] # ApNone, IsSupported(r), apRes[r].by \notin apLost
             PROVE  apObj[apRes[r].by] # ApNone
  BY DEF ApNoOrphan
<1>1. apRes[r].by \in ApApplications
  BY DEF ApInv, ApTypes, ApResource
<1> QED
  BY <1>1 DEF ApInv, ApThere

(* A resource of a kind the operator follows never outlives its            *)
(* application's object, whatever fails and whenever the operator          *)
(* restarts, unless a restart came before the status was stored.           *)
THEOREM NoOrphanIsLeft == ApSpec => []ApNoOrphan
<1>1. ApInit => ApInv
  BY ApInvInit, ApAssumption
<1>2. ApInv /\ [ApNext]_apVars => ApInv'
  BY ApInvStep, ApAssumption
<1>3. ApInv => ApNoOrphan
  BY ApInvOrphan, ApAssumption
<1> QED
  BY <1>1, <1>2, <1>3, PTL DEF ApSpec
=============================================================================
