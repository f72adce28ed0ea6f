--------------------------- MODULE WorkloadProofs ---------------------------
(***************************************************************************)
(* Proofs about what requests make in the clusters: workloads with their   *)
(* claims, and workflows with their secrets and accounts, for any number   *)
(* of requests, objects and failing calls.  The components share no state; *)
(* each has a section of its own.                                          *)
(***************************************************************************)
EXTENDS Workloads, Workflows, TLAPS

(* A leaf is for Zenon unless it cites another prover. *)
USE ZenonT(40)

-----------------------------------------------------------------------------
(***************************************************************************)
(* Workloads.  As long as no call fails, the claims an operation has made  *)
(* are in the list of its request, and in what it has still to delete once *)
(* it undoes them; an operation that has nothing of its own left may end.  *)
(***************************************************************************)

WlSet(s) == {s[k] : k \in DOMAIN s}

WlHas(n) == {c \in AllClaims : maker[c] = n}

(* The claims of a list, as a creation makes and undoes them. *)
WlListed(ts) == {<<ts[k], NoOwner>> : k \in DOMAIN ts}

(* What an operation knows, and what claims it has made. *)
WlPhase(o) ==
  /\ {"at", "n"} \subseteq DOMAIN o
  /\ o.at \in {"claims", "create"} =>
       /\ {"w", "ts", "purge", "i", "todo"} \subseteq DOMAIN o /\ o.w \in WlNames
       /\ o.ts \in Seq(WlClaimNames) /\ o.i \in Nat \ {0} /\ WlHas(o.n) \subseteq WlListed(o.ts)
       /\ WlKindOf[o.w] = "statefulset" => WlHas(o.n) = {}
  /\ o.at = "claims" => WlKindOf[o.w] # "statefulset"
  /\ o.at = "update" => {"w", "ts"} \subseteq DOMAIN o /\ o.w \in WlNames /\ o.ts \in Seq(WlClaimNames)
  /\ o.at \in {"delete", "deletePVC"} => "todo" \in DOMAIN o
  /\ o.at = "deletePVC" => WlHas(o.n) = {} \/ (o.todo \in Seq(AllClaims) /\ WlHas(o.n) \subseteq WlSet(o.todo))
  /\ o.at \notin {"claims", "create", "deletePVC"} => WlHas(o.n) = {}

WlOpOK(t) ==
  wlOp[t].at # "idle" =>
    /\ wlOp[t].n \in 1..wlOps /\ WlPhase(wlOp[t])
    /\ \A u \in WlThreads \ {t} : wlOp[u].at # "idle" => wlOp[u].n # wlOp[t].n

WlObjOK(v) ==
  v.exists => {"exists", "history"} \subseteq DOMAIN v /\ v.history \in Seq(Seq(WlClaimNames)) /\ v.history # <<>>

WlBusy == {wlOp[t].n : t \in {u \in WlThreads : wlOp[u].at # "idle"}}

WlBody ==
  /\ wlOps \in Nat /\ wlDone \subseteq 1..wlOps
  /\ objs = [w \in WlNames |-> objs[w]] /\ \A w \in WlNames : WlObjOK(objs[w])
  /\ claims \subseteq AllClaims /\ maker = [c \in AllClaims |-> maker[c]]
  /\ \A c \in AllClaims : maker[c] # None => c \in claims /\ maker[c] \in wlDone \cup WlBusy
  /\ wlOp = [t \in WlThreads |-> wlOp[t]] /\ \A t \in WlThreads : WlOpOK(t)

WlInv == wlFaults \in Nat /\ (wlFaults = 0 => WlBody)

(* The invariant says that no claim is left behind. *)
LEMMA WlInvImplies == WlInv => WlNoLeak
  BY SMTT(40) DEF WlInv, WlBody, WlNoLeak, WlBusy, InFlight

(* An operation of which other operations take no claims but to delete     *)
(* them knows what it knew.                                                *)
LEMMA WlPhaseKept ==
  ASSUME NEW o, WlPhase(o), \A c \in AllClaims : maker'[c] = o.n => maker[c] = o.n
  PROVE  WlPhase(o)'
<1>1. WlHas(o.n)' \subseteq WlHas(o.n)
  BY DEF WlHas
<1> QED
  BY <1>1 DEF WlPhase

(* An operation that goes on, or ends when none of its claims is left or   *)
(* it has succeeded.                                                       *)
LEMMA WlMoves ==
  ASSUME WlBody, NEW t \in WlThreads, wlOp[t].at # "idle", NEW n, n = wlOp[t].n, NEW q,
         wlOp' = [wlOp EXCEPT ![t] = q], wlOps' = wlOps, wlDone' \in {wlDone, wlDone \cup {n}},
         objs' = [w \in WlNames |-> objs'[w]], \A w \in WlNames : WlObjOK(objs'[w]),
         claims' \subseteq AllClaims, maker' = [c \in AllClaims |-> maker'[c]],
         \A c \in AllClaims : maker'[c] \in {maker[c], None, n} /\ (maker'[c] # None => c \in claims'),
         \/ q = WlIdle /\ (WlHas(n)' = {} \/ n \in wlDone')
         \/ q.at # "idle" /\ q.n = n /\ WlPhase(q)'
  PROVE  WlBody'
<1>1. wlOp'[t] = q /\ (\A u \in WlThreads \ {t} : wlOp'[u] = wlOp[u]) /\ wlOp' = [u \in WlThreads |-> wlOp'[u]]
  BY DEF WlBody
<1>2. n \in 1..wlOps /\ wlOps \in Nat
  BY DEF WlBody, WlOpOK
<1>3. wlDone' \subseteq 1..wlOps'
  BY <1>2 DEF WlBody
<1>4. q = WlIdle => q.at = "idle"
  BY SMTT(40) DEF WlIdle
<1>5. ASSUME NEW u \in WlThreads PROVE WlOpOK(u)'
  <2>1. CASE u = t /\ q.at # "idle"
    <3>1. wlOp'[u] = q /\ q.n = n /\ WlPhase(q)'
      BY <1>1, <1>4, <2>1
    <3>2. WlPhase(wlOp[u])'
      BY <3>1
    <3>3. ASSUME NEW x \in WlThreads \ {u}, wlOp'[x].at # "idle" PROVE wlOp'[x].n # n
      BY <1>1, <2>1, <3>3 DEF WlBody, WlOpOK
    <3> QED
      BY <1>2, <3>1, <3>2, <3>3 DEF WlOpOK
  <2>2. CASE u # t /\ wlOp[u].at # "idle"
    <3>1. PICK o : o = wlOp[u]
      OBVIOUS
    <3>2. /\ o.n \in 1..wlOps /\ WlPhase(o) /\ wlOp'[u] = o /\ o.n # n
          /\ \A x \in WlThreads \ {u} : wlOp[x].at # "idle" => wlOp[x].n # o.n
      BY <1>1, <2>2, <3>1 DEF WlBody, WlOpOK
    <3>3. \A c \in AllClaims : maker'[c] = o.n => maker[c] = o.n
      BY <1>2, <3>2, SMTT(40) DEF None
    <3>4. WlPhase(o)'
      BY <3>2, <3>3, WlPhaseKept
    <3>5. WlPhase(wlOp[u])'
      BY <3>2, <3>4
    <3>6. ASSUME NEW x \in WlThreads \ {u}, wlOp'[x].at # "idle" PROVE wlOp'[x].n # o.n
      BY <1>1, <1>4, <3>2, <3>6
    <3> QED
      BY <3>2, <3>5, <3>6 DEF WlOpOK
  <2>3. CASE wlOp'[u].at = "idle"
    BY <2>3 DEF WlOpOK
  <2> QED
    BY <1>1, <2>1, <2>2, <2>3
<1>6. ASSUME NEW c \in AllClaims, maker'[c] # None PROVE maker'[c] \in wlDone' \cup WlBusy'
  <2>1. CASE maker'[c] = n
    <3>1. c \in WlHas(n)'
      BY <2>1 DEF WlHas
    <3>2. n \in wlDone' \/ (q.at # "idle" /\ q.n = n)
      BY <3>1
    <3> QED
      BY <1>1, <2>1, <3>2 DEF WlBusy
  <2>2. CASE maker'[c] = maker[c] /\ maker[c] # n
    <3>1. maker[c] \in wlDone \cup WlBusy
      BY <1>6, <2>2 DEF WlBody
    <3>2. CASE maker[c] \in wlDone
      BY <2>2, <3>2, SMTT(40)
    <3>3. CASE maker[c] \in WlBusy
      <4>1. PICK u \in WlThreads : wlOp[u].at # "idle" /\ wlOp[u].n = maker[c]
        BY <3>3 DEF WlBusy
      <4>2. u # t /\ wlOp'[u] = wlOp[u]
        BY <1>1, <2>2, <4>1
      <4> QED
        BY <2>2, <4>1, <4>2 DEF WlBusy
    <3> QED
      BY <3>1, <3>2, <3>3
  <2> QED
    BY <1>6, <2>1, <2>2
<1> QED
  BY <1>1, <1>2, <1>3, <1>5, <1>6 DEF WlBody

(* It ends, with nothing of its own left, and changes nothing else. *)
LEMMA WlEnds ==
  ASSUME WlBody, NEW t \in WlThreads, wlOp[t].at # "idle", WlHas(wlOp[t].n) = {},
         wlOp' = [wlOp EXCEPT ![t] = WlIdle], UNCHANGED <<claims, maker, wlOps, wlDone>>,
         objs' = [w \in WlNames |-> objs'[w]], \A w \in WlNames : WlObjOK(objs'[w])
  PROVE  WlBody'
<1>1. PICK n : n = wlOp[t].n
  OBVIOUS
<1>2. WlHas(n)' = {}
  BY <1>1 DEF WlHas
<1>3. PICK q : q = WlIdle
  OBVIOUS
<1>4. /\ claims' \subseteq AllClaims /\ maker' = [c \in AllClaims |-> maker'[c]]
      /\ \A c \in AllClaims : maker'[c] \in {maker[c], None, n} /\ (maker'[c] # None => c \in claims')
  BY DEF WlBody
<1> QED
  BY <1>1, <1>2, <1>3, <1>4, WlMoves

(* A new operation has made no claim. *)
LEMMA WlStarts ==
  ASSUME WlBody, NEW t \in WlThreads, NEW op, Start(t, op), UNCHANGED <<objs, claims, maker, wlDone>>,
         op.n = wlOps + 1, op.at # "idle", WlHas(op.n) = {} => WlPhase(op)
  PROVE  WlBody'
<1>1. /\ wlOp'[t] = op /\ (\A u \in WlThreads \ {t} : wlOp'[u] = wlOp[u]) /\ wlOp' = [u \in WlThreads |-> wlOp'[u]]
      /\ wlOp[t].at = "idle" /\ wlOps' = wlOps + 1 /\ wlOps \in Nat
  BY SMTT(40) DEF WlBody, Start, WlIdle
<1>2. \A u \in WlThreads : wlOp[u].at # "idle" => wlOp[u].n \in 1..wlOps
  BY DEF WlBody, WlOpOK
<1>3. WlHas(op.n) = {}
  <2>1. ASSUME NEW c \in AllClaims, maker[c] = op.n PROVE FALSE
    BY <1>1, <1>2, <2>1, SMTT(40) DEF WlBody, WlBusy, None
  <2> QED
    BY <2>1 DEF WlHas
<1>4. ASSUME NEW u \in WlThreads PROVE WlOpOK(u)'
  <2>1. PICK o : o = wlOp'[u]
    OBVIOUS
  <2>2. ASSUME o.at # "idle" PROVE WlPhase(o)
    BY <1>1, <1>3, <2>1, <2>2 DEF WlBody, WlOpOK
  <2>3. ASSUME o.at # "idle" PROVE WlPhase(o)'
    BY <2>2, <2>3, WlPhaseKept
  <2>4. ASSUME o.at # "idle" PROVE WlPhase(wlOp[u])'
    BY <2>1, <2>3, <2>4
  <2>5. ASSUME NEW x \in WlThreads \ {u}, o.at # "idle", wlOp'[x].at # "idle" PROVE wlOp'[x].n # o.n
    <3>1. CASE u = t
      BY <1>1, <1>2, <2>1, <2>5, <3>1, SMTT(40)
    <3>2. CASE x = t
      BY <1>1, <1>2, <2>1, <2>5, <3>2, SMTT(40)
    <3>3. CASE u # t /\ x # t
      BY <1>1, <2>1, <2>5, <3>3 DEF WlBody, WlOpOK
    <3> QED
      BY <3>1, <3>2, <3>3
  <2>6. ASSUME o.at # "idle" PROVE o.n \in 1..wlOps'
    BY <1>1, <1>2, <2>1, <2>6, SMTT(40)
  <2> QED
    BY <2>1, <2>4, <2>5, <2>6 DEF WlOpOK
<1>5. WlBusy \subseteq WlBusy'
  BY <1>1, SMTT(40) DEF WlBusy
<1>6. wlDone' \subseteq 1..wlOps'
  BY <1>1, SMTT(40) DEF WlBody
<1>7. \A c \in AllClaims : maker'[c] # None => c \in claims' /\ maker'[c] \in wlDone' \cup WlBusy'
  BY <1>5 DEF WlBody
<1> QED
  BY <1>1, <1>4, <1>6, <1>7, SMTT(40) DEF WlBody

(* A request that is one call changes no claim and no operation. *)
LEMMA WlAtOnce ==
  ASSUME WlBody, UNCHANGED <<wlOp, maker, wlDone>>, wlOps' \in {wlOps, wlOps + 1},
         claims \subseteq claims', claims' \subseteq AllClaims,
         objs' = [w \in WlNames |-> objs'[w]], \A w \in WlNames : WlObjOK(objs'[w])
  PROVE  WlBody'
<1>1. wlOps \in Nat /\ wlOps' \in Nat /\ 1..wlOps \subseteq 1..wlOps'
  BY SMTT(40) DEF WlBody
<1>2. ASSUME NEW u \in WlThreads PROVE WlOpOK(u)'
  <2>1. PICK o : o = wlOp[u]
    OBVIOUS
  <2>2. ASSUME o.at # "idle" PROVE WlPhase(o)'
    <3>1. WlPhase(o)
      BY <2>1, <2>2 DEF WlBody, WlOpOK
    <3> QED
      BY <3>1, WlPhaseKept
  <2>3. ASSUME o.at # "idle" PROVE WlPhase(wlOp[u])'
    BY <2>1, <2>2, <2>3
  <2> QED
    BY <1>1, <2>1, <2>3 DEF WlBody, WlOpOK
<1>3. WlBusy' = WlBusy
  BY DEF WlBusy
<1>4. \A c \in AllClaims : maker'[c] # None => c \in claims' /\ maker'[c] \in wlDone' \cup WlBusy'
  BY <1>3 DEF WlBody
<1> QED
  BY <1>1, <1>2, <1>4 DEF WlBody

(* Create: the request is converted. *)
LEMMA WlCreating ==
  ASSUME WlSetting, WlBody, NEW t \in WlThreads, NEW kind, createPodTempateSpec(t, kind) PROVE WlBody'
<1>1. PICK w \in Of(kind), ts \in WlLists, purge \in BOOLEAN :
        Start(t, [at |-> IF kind = "statefulset" THEN "create" ELSE "claims", n |-> wlOps + 1,
                  w |-> w, ts |-> ts, purge |-> purge, i |-> 1, todo |-> <<>>])
  BY DEF createPodTempateSpec
<1>2. PICK label : label = IF kind = "statefulset" THEN "create" ELSE "claims"
  OBVIOUS
<1>3. PICK op : op = [at |-> label, n |-> wlOps + 1, w |-> w, ts |-> ts, purge |-> purge, i |-> 1, todo |-> <<>>]
  OBVIOUS
<1>4. Start(t, op)
  BY <1>1, <1>2, <1>3
<1>5. /\ {"at", "n", "w", "ts", "purge", "i", "todo"} \subseteq DOMAIN op /\ op.n = wlOps + 1
      /\ op.w = w /\ op.ts = ts /\ op.i = 1 /\ op.at = label
  BY <1>3
<1>6. w \in WlNames /\ ts \in Seq(WlClaimNames) /\ label \in {"create", "claims"}
  BY <1>2 DEF Of, WlSetting
<1>7. label = "claims" => WlKindOf[w] # "statefulset"
  BY <1>2 DEF Of
<1>8. WlHas(op.n) = {} => WlPhase(op)
  BY <1>5, <1>6, <1>7, SMTT(40) DEF WlPhase
<1> QED
  BY <1>4, <1>5, <1>6, <1>8, WlStarts DEF createPodTempateSpec

(* An update, a deletion or the deletion of a claim begins. *)
LEMMA WlOtherStarts ==
  ASSUME WlSetting, WlBody, NEW t \in WlThreads, NEW kind,
         updateWorkload(t, kind) \/ deleteWorkload(t, kind) \/ isUsed(t)
  PROVE  WlBody'
<1>1. CASE updateWorkload(t, kind)
  <2>1. PICK w \in Of(kind), ts \in WlLists :
          Start(t, [at |-> "update", n |-> wlOps + 1, w |-> w, ts |-> ts, version |-> objs[w].version])
    BY <1>1 DEF updateWorkload
  <2>2. PICK op : op = [at |-> "update", n |-> wlOps + 1, w |-> w, ts |-> ts, version |-> objs[w].version]
    OBVIOUS
  <2>3. /\ {"at", "n", "w", "ts"} \subseteq DOMAIN op /\ op.n = wlOps + 1 /\ op.w = w /\ op.ts = ts
        /\ op.at = "update"
    BY <2>2
  <2>4. WlHas(op.n) = {} => WlPhase(op)
    BY <2>3 DEF WlPhase, Of, WlSetting
  <2> QED
    BY <1>1, <2>1, <2>2, <2>3, <2>4, WlStarts DEF updateWorkload
<1>2. CASE deleteWorkload(t, kind)
  <2>0. PICK w \in Of(kind) :
          Start(t, [at |-> "delete", n |-> wlOps + 1, w |-> w, purge |-> objs[w].purge,
                    todo |-> WlInOrder(Mounted(w, objs[w].ts))])
    BY <1>2 DEF deleteWorkload
  <2>1. PICK todo : todo = WlInOrder(Mounted(w, objs[w].ts))
    OBVIOUS
  <2>2. PICK op : op = [at |-> "delete", n |-> wlOps + 1, w |-> w, purge |-> objs[w].purge, todo |-> todo]
    OBVIOUS
  <2>3. {"at", "n", "w", "todo"} \subseteq DOMAIN op /\ op.n = wlOps + 1 /\ op.at = "delete"
    BY <2>2
  <2>4. WlHas(op.n) = {} => WlPhase(op)
    BY <2>3 DEF WlPhase
  <2> QED
    BY <1>2, <2>0, <2>1, <2>2, <2>3, <2>4, WlStarts DEF deleteWorkload
<1>3. CASE isUsed(t)
  <2>1. PICK c \in claims : Start(t, [at |-> "deleteClaim", n |-> wlOps + 1, c |-> c])
    BY <1>3 DEF isUsed
  <2>2. PICK op : op = [at |-> "deleteClaim", n |-> wlOps + 1, c |-> c]
    OBVIOUS
  <2>3. {"at", "n"} \subseteq DOMAIN op /\ op.n = wlOps + 1 /\ op.at = "deleteClaim"
    BY <2>2
  <2>4. WlHas(op.n) = {} => WlPhase(op)
    BY <2>3 DEF WlPhase
  <2> QED
    BY <1>3, <2>1, <2>2, <2>3, <2>4, WlStarts DEF isUsed
<1> QED
  BY <1>1, <1>2, <1>3

(* What an operation that is under way knows. *)
LEMMA WlKnows ==
  ASSUME WlBody, NEW t \in WlThreads, wlOp[t].at # "idle", NEW o, o = wlOp[t]
  PROVE  WlPhase(o) /\ o.n \in 1..wlOps /\ wlOps \in Nat
  BY DEF WlBody, WlOpOK

(* The claims of a list are claims. *)
LEMMA WlListItem ==
  ASSUME NEW ts \in Seq(WlClaimNames), NEW i \in 1..Len(ts)
  PROVE  <<ts[i], NoOwner>> \in WlListed(ts) /\ <<ts[i], NoOwner>> \in AllClaims
<1>1. ts[i] \in WlClaimNames /\ i \in DOMAIN ts
  BY SMTT(40)
<1> QED
  BY <1>1, SMTT(40) DEF WlListed, AllClaims

(* The list of claims a clean-up works on. *)
LEMMA WlListClaims ==
  ASSUME NEW ts \in Seq(WlClaimNames), NEW todo, todo = [k \in DOMAIN ts |-> <<ts[k], NoOwner>>]
  PROVE  todo \in Seq(AllClaims) /\ WlSet(todo) = WlListed(ts)
<1>1. DOMAIN ts = 1..Len(ts) /\ Len(ts) \in Nat
  BY SMTT(40)
<1>2. todo = [k \in 1..Len(ts) |-> todo[k]] /\ \A k \in 1..Len(ts) : todo[k] \in AllClaims
  BY <1>1, WlListItem
<1>3. todo \in Seq(AllClaims)
  BY <1>1, <1>2, SMTT(40)
<1>4. WlSet(todo) = WlListed(ts)
  BY DEF WlSet, WlListed
<1> QED
  BY <1>3, <1>4

WlCleansUp(t) ==
  wlOp' = [wlOp EXCEPT ![t].at = "deletePVC", ![t].todo = [k \in DOMAIN wlOp[t].ts |-> <<wlOp[t].ts[k], NoOwner>>]]

(* The clean-up after a creation, when all it made is in its list. *)
LEMMA WlUndoes ==
  ASSUME WlBody, NEW t \in WlThreads, wlOp[t].at \in {"claims", "create"}, WlCleansUp(t),
         UNCHANGED <<objs, claims, maker, wlDone, wlOps>>
  PROVE  WlBody'
<1>1. PICK o : o = wlOp[t]
  OBVIOUS
<1>2. /\ WlPhase(o) /\ {"at", "n", "todo"} \subseteq DOMAIN o /\ o.ts \in Seq(WlClaimNames)
      /\ WlHas(o.n) \subseteq WlListed(o.ts)
  BY <1>1, WlKnows DEF WlPhase
<1>3. PICK todo : todo = [k \in DOMAIN o.ts |-> <<o.ts[k], NoOwner>>]
  OBVIOUS
<1>4. todo \in Seq(AllClaims) /\ WlSet(todo) = WlListed(o.ts)
  BY <1>2, <1>3, WlListClaims
<1>6. PICK q : q = [o EXCEPT !.at = "deletePVC", !.todo = todo]
  OBVIOUS
<1>7. {"at", "n", "todo"} \subseteq DOMAIN q /\ q.at = "deletePVC" /\ q.n = o.n /\ q.todo = todo
  BY <1>2, <1>6
<1>8. wlOp' = [wlOp EXCEPT ![t] = q]
  BY <1>1, <1>3, <1>6 DEF WlBody, WlCleansUp
<1>9. WlHas(o.n)' = WlHas(o.n)
  BY DEF WlHas
<1>10. WlPhase(q)'
  BY <1>2, <1>4, <1>7, <1>9 DEF WlPhase
<1>11. PICK n : n = o.n
  OBVIOUS
<1>12. /\ claims' \subseteq AllClaims /\ maker' = [c \in AllClaims |-> maker'[c]]
       /\ \A c \in AllClaims : maker'[c] \in {maker[c], None, n} /\ (maker'[c] # None => c \in claims')
  BY DEF WlBody
<1>13. objs' = [w \in WlNames |-> objs'[w]] /\ \A w \in WlNames : WlObjOK(objs'[w])
  BY DEF WlBody
<1> QED
  BY <1>1, <1>7, <1>8, <1>10, <1>11, <1>12, <1>13, WlMoves

(* createPVCs. *)
LEMMA WlMakesClaims == ASSUME WlBody, NEW t \in WlThreads, createPVCs(t) PROVE WlBody'
<1>1. PICK o : o = wlOp[t]
  OBVIOUS
<1>2. PICK n : n = o.n
  OBVIOUS
<1>3. /\ o.at = "claims" /\ WlPhase(o) /\ n \in Nat \ {0}
  <2>1. wlOp[t].at = "claims"
    BY DEF createPVCs
  <2>2. WlPhase(o) /\ o.n \in 1..wlOps /\ wlOps \in Nat
    BY <1>1, <2>1, WlKnows
  <2> QED
    BY <1>1, <1>2, <2>1, <2>2, SMTT(40)
<1>4. /\ {"at", "n", "w", "ts", "purge", "i", "todo"} \subseteq DOMAIN o /\ o.w \in WlNames
      /\ o.ts \in Seq(WlClaimNames) /\ o.i \in Nat \ {0} /\ WlHas(n) \subseteq WlListed(o.ts)
      /\ WlKindOf[o.w] # "statefulset"
  BY <1>2, <1>3 DEF WlPhase
<1>5. UNCHANGED <<objs, wlDone, wlOps>>
  BY DEF createPVCs
<1>6. objs' = [w \in WlNames |-> objs'[w]] /\ \A w \in WlNames : WlObjOK(objs'[w])
  BY <1>5 DEF WlBody
<1>7. CASE Goto(t, "create") /\ UNCHANGED <<claims, maker>>
  <2>1. PICK q : q = [o EXCEPT !.at = "create"]
    OBVIOUS
  <2>2. /\ {"at", "n", "w", "ts", "purge", "i", "todo"} \subseteq DOMAIN q /\ q.at = "create" /\ q.n = n
        /\ q.w = o.w /\ q.ts = o.ts /\ q.i = o.i
    BY <1>2, <1>4, <2>1
  <2>3. wlOp' = [wlOp EXCEPT ![t] = q]
    BY <1>1, <1>7, <2>1 DEF Goto, WlBody
  <2>4. WlHas(n)' = WlHas(n)
    BY <1>7 DEF WlHas
  <2>5. WlPhase(q)'
    BY <1>4, <2>2, <2>4 DEF WlPhase
  <2>6. /\ claims' \subseteq AllClaims /\ maker' = [c \in AllClaims |-> maker'[c]]
        /\ \A c \in AllClaims : maker'[c] \in {maker[c], None, n} /\ (maker'[c] # None => c \in claims')
    BY <1>7 DEF WlBody
  <2> QED
    BY <1>1, <1>2, <1>3, <1>5, <1>6, <2>2, <2>3, <2>5, <2>6, WlMoves
<1>8. ASSUME NEW c, c = <<o.ts[o.i], NoOwner>>, o.i <= Len(o.ts), claims' = claims \cup {c},
             maker' = [maker EXCEPT ![c] = n], wlOp' = [wlOp EXCEPT ![t].i = @ + 1]
      PROVE  WlBody'
  <2>1. c \in WlListed(o.ts) /\ c \in AllClaims
    <3>1. PICK ts : ts = o.ts
      OBVIOUS
    <3>2. PICK i : i = o.i
      OBVIOUS
    <3>3. ts \in Seq(WlClaimNames) /\ i \in 1..Len(ts)
      BY <1>4, <1>8, <3>1, <3>2, SMTT(40)
    <3> QED
      BY <1>8, <3>1, <3>2, <3>3, WlListItem
  <2>2. PICK q : q = [o EXCEPT !.i = o.i + 1]
    OBVIOUS
  <2>3. /\ {"at", "n", "w", "ts", "purge", "i", "todo"} \subseteq DOMAIN q /\ q.at = "claims" /\ q.n = n
        /\ q.w = o.w /\ q.ts = o.ts /\ q.i \in Nat \ {0}
    BY <1>2, <1>3, <1>4, <2>2, SMTT(40)
  <2>4. wlOp' = [wlOp EXCEPT ![t] = q]
    BY <1>1, <1>8, <2>2 DEF WlBody
  <2>5. WlHas(n)' \subseteq WlListed(o.ts)
    BY <1>4, <1>8, <2>1 DEF WlHas, WlBody
  <2>6. WlPhase(q)'
    BY <1>4, <1>8, <2>3, <2>5 DEF WlPhase
  <2>7. /\ claims' \subseteq AllClaims /\ maker' = [x \in AllClaims |-> maker'[x]]
        /\ \A x \in AllClaims : maker'[x] \in {maker[x], None, n} /\ (maker'[x] # None => x \in claims')
    BY <1>8, <2>1 DEF WlBody
  <2> QED
    BY <1>1, <1>2, <1>3, <1>5, <1>6, <2>3, <2>4, <2>6, <2>7, WlMoves
<1>9. CASE WlCleansUp(t) /\ UNCHANGED <<claims, maker>>
  BY <1>1, <1>3, <1>5, <1>9, WlUndoes
<1> QED
  BY <1>1, <1>2, <1>7, <1>8, <1>9 DEF createPVCs, WlCleansUp

(* The history of a workload, when it is made and when it grows. *)
LEMMA WlOneItem == ASSUME NEW S, NEW x \in S PROVE <<x>> \in Seq(S) /\ <<x>> # <<>>
  BY SMTT(40)

(* One more claim in a list of claims. *)
LEMMA WlGrows ==
  ASSUME NEW S, NEW h \in Seq(S), NEW x \in S PROVE Append(h, x) \in Seq(S) /\ Append(h, x) # <<>>
<1>1. Append(h, x) \in Seq(S) /\ Len(Append(h, x)) = Len(h) + 1
  BY SMTT(40)
<1>2. Len(h) \in Nat
  BY SMTT(40)
<1>3. Len(<<>>) = 0
  OBVIOUS
<1> QED
  BY <1>1, <1>2, <1>3, SMTT(40)

(* createDeployment, createDaemonSet, createStatefulSet. *)
LEMMA WlMakesObject == ASSUME WlBody, NEW t \in WlThreads, NEW kind, createWorkload(t, kind) PROVE WlBody'
<1>1. PICK o : o = wlOp[t]
  OBVIOUS
<1>2. PICK n : n = o.n
  OBVIOUS
<1>3. o.at = "create" /\ WlKindOf[o.w] = kind /\ UNCHANGED <<claims, maker, wlOps>>
  BY <1>1 DEF createWorkload
<1>4. WlPhase(o)
  BY <1>1, <1>3, WlKnows
<1>5. /\ o.w \in WlNames /\ o.ts \in Seq(WlClaimNames) /\ (kind = "statefulset" => WlHas(n) = {})
  BY <1>2, <1>3, <1>4 DEF WlPhase
<1>6. ASSUME NEW v, v = [exists |-> TRUE, ts |-> o.ts, purge |-> o.purge, version |-> 1, replicas |-> 1, history |-> <<o.ts>>],
             objs' = [objs EXCEPT ![o.w] = v], wlDone' = wlDone \cup {n}, wlOp' = [wlOp EXCEPT ![t] = WlIdle]
      PROVE  WlBody'
  <2>1. {"exists", "history"} \subseteq DOMAIN v /\ v.history = <<o.ts>>
    BY <1>6
  <2>2. PICK ts : ts = o.ts
    OBVIOUS
  <2>3. ts \in Seq(WlClaimNames) /\ v.history = <<ts>>
    BY <1>5, <2>1, <2>2
  <2>4. WlObjOK(v)
    BY <2>1, <2>3, WlOneItem DEF WlObjOK
  <2>5. objs' = [w \in WlNames |-> objs'[w]] /\ \A w \in WlNames : WlObjOK(objs'[w])
    BY <1>5, <1>6, <2>4 DEF WlBody
  <2>6. PICK q : q = WlIdle
    OBVIOUS
  <2>7. /\ claims' \subseteq AllClaims /\ maker' = [c \in AllClaims |-> maker'[c]]
        /\ \A c \in AllClaims : maker'[c] \in {maker[c], None, n} /\ (maker'[c] # None => c \in claims')
    BY <1>3 DEF WlBody
  <2> QED
    BY <1>1, <1>2, <1>3, <1>6, <2>5, <2>6, <2>7, WlMoves
<1>7. CASE wlOp' = [wlOp EXCEPT ![t] = WlIdle] /\ kind = "statefulset" /\ UNCHANGED <<objs, wlDone>>
  <2>1. objs' = [w \in WlNames |-> objs'[w]] /\ \A w \in WlNames : WlObjOK(objs'[w])
    BY <1>7 DEF WlBody
  <2> QED
    BY <1>1, <1>2, <1>3, <1>5, <1>7, <2>1, WlEnds
<1>8. CASE WlCleansUp(t) /\ UNCHANGED <<objs, wlDone>>
  BY <1>1, <1>3, <1>8, WlUndoes
<1>9. \/ /\ objs' = [objs EXCEPT ![o.w] = [exists |-> TRUE, ts |-> o.ts, purge |-> o.purge, version |-> 1,
                                          replicas |-> 1, history |-> <<o.ts>>]]
         /\ wlDone' = wlDone \cup {n} /\ wlOp' = [wlOp EXCEPT ![t] = WlIdle]
      \/ wlOp' = [wlOp EXCEPT ![t] = WlIdle] /\ kind = "statefulset" /\ UNCHANGED <<objs, wlDone>>
      \/ WlCleansUp(t) /\ UNCHANGED <<objs, wlDone>>
  BY <1>1, <1>2 DEF createWorkload, WlCleansUp
<1> QED
  BY <1>6, <1>7, <1>8, <1>9

(* Kubernetes makes the claims of a stateful set. *)
LEMMA WlKubernetesMakes == ASSUME WlBody, StatefulSetClaims PROVE WlBody'
<1>1. PICK w \in WlNames : objs[w].exists /\ WlKindOf[w] = "statefulset" /\ claims' = claims \cup Mounted(w, objs[w].history[1])
  BY DEF StatefulSetClaims
<1>2. PICK h : h = objs[w].history
  OBVIOUS
<1>3. h \in Seq(Seq(WlClaimNames)) /\ h # <<>>
  BY <1>1, <1>2 DEF WlBody, WlObjOK
<1>4. PICK ts : ts = h[1]
  OBVIOUS
<1>5. ts \in Seq(WlClaimNames)
  BY <1>3, <1>4, SMTT(40)
<1>6. Mounted(w, ts) \subseteq AllClaims
  <2>1. \A k \in DOMAIN ts : ts[k] \in WlClaimNames
    BY <1>5, SMTT(40)
  <2>2. \A k \in DOMAIN ts : <<ts[k], w>> \in AllClaims
    BY <2>1, SMTT(40) DEF AllClaims
  <2> QED
    BY <1>1, <2>2 DEF Mounted
<1>7. objs' = [x \in WlNames |-> objs'[x]] /\ \A x \in WlNames : WlObjOK(objs'[x])
  BY DEF StatefulSetClaims, WlBody
<1>8. claims \subseteq claims' /\ claims' \subseteq AllClaims
  BY <1>1, <1>2, <1>4, <1>6 DEF WlBody
<1>9. UNCHANGED <<wlOp, maker, wlDone, wlOps>>
  BY DEF StatefulSetClaims
<1> QED
  BY <1>7, <1>8, <1>9, WlAtOnce

(* Taking the first of a list. *)
LEMMA WlFirst ==
  ASSUME NEW s \in Seq(AllClaims), s # <<>>
  PROVE  /\ Head(s) \in AllClaims /\ Tail(s) \in Seq(AllClaims)
         /\ \A c \in WlSet(s) : c = Head(s) \/ c \in WlSet(Tail(s))
<1>1. Head(s) \in AllClaims /\ Tail(s) \in Seq(AllClaims)
  BY SMTT(40)
<1>2. Len(s) \in Nat /\ Len(s) > 0 /\ DOMAIN s = 1..Len(s)
  BY SMTT(40)
<1>3. Len(Tail(s)) = Len(s) - 1 /\ \A i \in 1..(Len(s) - 1) : Tail(s)[i] = s[i + 1]
  BY <1>2, SMTT(40)
<1>4. DOMAIN Tail(s) = 1..(Len(s) - 1)
  BY <1>1, <1>3, SMTT(40)
<1>5. ASSUME NEW c \in WlSet(s), c # Head(s) PROVE c \in WlSet(Tail(s))
  <2>1. PICK i \in 1..Len(s) : c = s[i]
    BY <1>2, <1>5 DEF WlSet
  <2>2. i # 1
    BY <1>5, <2>1, SMTT(40)
  <2>3. i - 1 \in 1..(Len(s) - 1) /\ Tail(s)[i - 1] = c
    BY <1>2, <1>3, <2>1, <2>2, SMTT(40)
  <2> QED
    BY <1>4, <2>3 DEF WlSet
<1> QED
  BY <1>1, <1>5

(* deletePVC. *)
LEMMA WlDeletesClaims == ASSUME WlBody, NEW t \in WlThreads, deletePVC(t) PROVE WlBody'
<1>1. PICK o : o = wlOp[t]
  OBVIOUS
<1>2. PICK n : n = o.n
  OBVIOUS
<1>3. o.at = "deletePVC" /\ UNCHANGED <<objs, wlDone, wlOps>>
  BY <1>1 DEF deletePVC
<1>4. WlPhase(o) /\ n \in Nat \ {0}
  BY <1>1, <1>2, <1>3, WlKnows, SMTT(40)
<1>5. /\ {"at", "n", "todo"} \subseteq DOMAIN o
      /\ WlHas(n) = {} \/ (o.todo \in Seq(AllClaims) /\ WlHas(n) \subseteq WlSet(o.todo))
  BY <1>2, <1>3, <1>4 DEF WlPhase
<1>6. objs' = [w \in WlNames |-> objs'[w]] /\ \A w \in WlNames : WlObjOK(objs'[w])
  BY <1>3 DEF WlBody
<1>7. CASE o.todo = <<>> /\ wlOp' = [wlOp EXCEPT ![t] = WlIdle] /\ UNCHANGED <<claims, maker>>
  <2>1. WlHas(n) = {}
    BY <1>5, <1>7, SMTT(40) DEF WlSet
  <2> QED
    BY <1>1, <1>2, <1>3, <1>6, <1>7, <2>1, WlEnds
<1>8. ASSUME NEW s, s = o.todo, s # <<>>, wlOp' = [wlOp EXCEPT ![t].todo = Tail(@)], NEW c, c = Head(s),
             \/ c \in claims /\ claims' = claims \ {c} /\ maker' = [maker EXCEPT ![c] = None]
             \/ c \notin claims /\ UNCHANGED <<claims, maker>>
      PROVE  WlBody'
  <2>1. PICK r : r = Tail(s)
    OBVIOUS
  <2>2. PICK q : q = [o EXCEPT !.todo = r]
    OBVIOUS
  <2>3. {"at", "n", "todo"} \subseteq DOMAIN q /\ q.at = "deletePVC" /\ q.n = n /\ q.todo = r
    BY <1>2, <1>3, <1>5, <2>2
  <2>4. wlOp' = [wlOp EXCEPT ![t] = q]
    BY <1>1, <1>8, <2>1, <2>2 DEF WlBody
  <2>5. /\ \A x \in AllClaims : maker'[x] \in {maker[x], None}
        /\ \A x \in AllClaims : maker'[x] # None => maker'[x] = maker[x] /\ x \in claims' /\ x # c
        /\ claims' \subseteq AllClaims /\ maker' = [x \in AllClaims |-> maker'[x]]
    BY <1>8 DEF WlBody
  <2>6. WlHas(n)' \subseteq WlHas(n) /\ c \notin WlHas(n)'
    BY <1>4, <2>5, SMTT(40) DEF WlHas, None
  <2>7. CASE WlHas(n) = {}
    <3>1. WlHas(n)' = {}
      BY <2>6, <2>7
    <3>2. WlPhase(q)'
      BY <2>3, <3>1 DEF WlPhase
    <3> QED
      BY <1>1, <1>2, <1>3, <1>6, <2>3, <2>4, <2>5, <3>2, WlMoves
  <2>8. CASE s \in Seq(AllClaims) /\ WlHas(n) \subseteq WlSet(s)
    <3>1. r \in Seq(AllClaims) /\ \A x \in WlSet(s) : x = c \/ x \in WlSet(r)
      BY <1>8, <2>1, <2>8, WlFirst
    <3>2. WlHas(n)' \subseteq WlSet(r)
      BY <2>6, <2>8, <3>1
    <3>3. WlPhase(q)'
      BY <2>3, <3>1, <3>2 DEF WlPhase
    <3> QED
      BY <1>1, <1>2, <1>3, <1>6, <2>3, <2>4, <2>5, <3>3, WlMoves
  <2> QED
    BY <1>5, <1>8, <2>7, <2>8
<1>9. \/ o.todo = <<>> /\ wlOp' = [wlOp EXCEPT ![t] = WlIdle] /\ UNCHANGED <<claims, maker>>
      \/ /\ o.todo # <<>> /\ wlOp' = [wlOp EXCEPT ![t].todo = Tail(@)]
         /\ \/ /\ Head(o.todo) \in claims /\ claims' = claims \ {Head(o.todo)}
               /\ maker' = [maker EXCEPT ![Head(o.todo)] = None]
            \/ Head(o.todo) \notin claims /\ UNCHANGED <<claims, maker>>
  BY <1>1 DEF deletePVC
<1> QED
  BY <1>7, <1>8, <1>9

(* An object is written: its history grows. *)
LEMMA WlWritten ==
  ASSUME WlBody, NEW w \in WlNames, objs[w].exists, NEW ts \in Seq(WlClaimNames),
         objs' = [objs EXCEPT ![w].ts = ts, ![w].version = @ + 1, ![w].history = Append(@, ts)]
  PROVE  objs' = [x \in WlNames |-> objs'[x]] /\ \A x \in WlNames : WlObjOK(objs'[x])
<1>1. PICK v : v = objs[w]
  OBVIOUS
<1>2. PICK h : h = v.history
  OBVIOUS
<1>3. {"exists", "history"} \subseteq DOMAIN v /\ h \in Seq(Seq(WlClaimNames)) /\ v.exists
  BY <1>1, <1>2 DEF WlBody, WlObjOK
<1>4. PICK g : g = Append(h, ts)
  OBVIOUS
<1>5. g \in Seq(Seq(WlClaimNames)) /\ g # <<>>
  BY <1>3, <1>4, WlGrows
<1>6. PICK z : z = [v EXCEPT !.ts = ts, !.version = @ + 1, !.history = g]
  OBVIOUS
<1>7. {"exists", "history"} \subseteq DOMAIN z /\ z.history = g
  BY <1>3, <1>6
<1>8. WlObjOK(z)
  BY <1>5, <1>7 DEF WlObjOK
<1>9. objs' = [objs EXCEPT ![w] = z]
  BY <1>1, <1>2, <1>4, <1>6 DEF WlBody
<1> QED
  BY <1>8, <1>9 DEF WlBody

(* The second half of an update. *)
LEMMA WlUpdates == ASSUME WlBody, NEW t \in WlThreads, WriteUpdate(t) PROVE WlBody'
<1>1. PICK o : o = wlOp[t]
  OBVIOUS
<1>2. o.at = "update" /\ wlOp' = [wlOp EXCEPT ![t] = WlIdle] /\ UNCHANGED <<claims, maker, wlDone, wlOps>>
  BY <1>1 DEF WriteUpdate
<1>3. WlPhase(o)
  BY <1>1, <1>2, WlKnows
<1>4. o.w \in WlNames /\ o.ts \in Seq(WlClaimNames) /\ WlHas(o.n) = {}
  BY <1>2, <1>3 DEF WlPhase
<1>5. PICK ts : ts = o.ts
  OBVIOUS
<1>6. PICK w : w = o.w
  OBVIOUS
<1>7. \/ objs[w].exists /\ objs' = [objs EXCEPT ![w].ts = ts, ![w].version = @ + 1, ![w].history = Append(@, ts)]
      \/ UNCHANGED objs
  BY <1>1, <1>5, <1>6 DEF WriteUpdate
<1>8. objs' = [x \in WlNames |-> objs'[x]] /\ \A x \in WlNames : WlObjOK(objs'[x])
  <2>1. CASE UNCHANGED objs
    BY <2>1 DEF WlBody
  <2>2. w \in WlNames /\ ts \in Seq(WlClaimNames)
    BY <1>4, <1>5, <1>6
  <2> QED
    BY <1>7, <2>1, <2>2, WlWritten
<1> QED
  BY <1>1, <1>2, <1>4, <1>8, WlEnds

(* A rollback and a change of the number of pods are one call each. *)
LEMMA WlRollsBack == ASSUME WlBody, NEW t \in WlThreads, NEW kind, rollback(t, kind) PROVE WlBody'
<1>0. PICK w \in Of(kind) :
        /\ objs[w].exists
        /\ \E v \in 1..(Len(objs[w].history) - 1) :
             objs' = [objs EXCEPT ![w].ts = objs[w].history[v], ![w].version = @ + 1,
                                  ![w].history = Append(@, objs[w].history[v])]
  BY DEF rollback
<1>1. PICK v \in 1..(Len(objs[w].history) - 1) :
        objs' = [objs EXCEPT ![w].ts = objs[w].history[v], ![w].version = @ + 1,
                             ![w].history = Append(@, objs[w].history[v])]
  BY <1>0
<1>2. PICK h : h = objs[w].history
  OBVIOUS
<1>3. w \in WlNames /\ h \in Seq(Seq(WlClaimNames))
  BY <1>0, <1>2 DEF WlBody, WlObjOK, Of
<1>4. PICK ts : ts = h[v]
  OBVIOUS
<1>5. ts \in Seq(WlClaimNames)
  <2>1. v \in 1..Len(h)
    BY <1>1, <1>2, <1>3, SMTT(40)
  <2> QED
    BY <1>3, <1>4, <2>1, SMTT(40)
<1>6. objs' = [objs EXCEPT ![w].ts = ts, ![w].version = @ + 1, ![w].history = Append(@, ts)]
  BY <1>1, <1>2, <1>4
<1>7. objs' = [x \in WlNames |-> objs'[x]] /\ \A x \in WlNames : WlObjOK(objs'[x])
  BY <1>0, <1>3, <1>5, <1>6, WlWritten
<1>8. UNCHANGED <<wlOp, claims, maker, wlDone>> /\ wlOps' = wlOps + 1
  BY DEF rollback
<1> QED
  BY <1>7, <1>8, WlAtOnce DEF WlBody

(* A request sets the number of pods; no claim changes. *)
LEMMA WlScales == ASSUME WlBody, NEW t \in WlThreads, NEW kind, setPodCount(t, kind) PROVE WlBody'
<1>1. PICK w \in Of(kind), n \in 0..2 :
        objs' = objs \/ objs' = [objs EXCEPT ![w].replicas = n, ![w].version = @ + 1]
  BY DEF setPodCount
<1>2. UNCHANGED <<wlOp, claims, maker, wlDone>> /\ wlOps' = wlOps + 1
  BY DEF setPodCount
<1>3. objs' = [x \in WlNames |-> objs'[x]] /\ \A x \in WlNames : WlObjOK(objs'[x])
  <2>1. CASE objs' = objs
    BY <2>1 DEF WlBody
  <2>2. CASE objs' = [objs EXCEPT ![w].replicas = n, ![w].version = @ + 1]
    <3>1. PICK z : z = [objs[w] EXCEPT !.replicas = n, !.version = @ + 1]
      OBVIOUS
    <3>2. w \in WlNames /\ WlObjOK(objs[w])
      BY DEF WlBody, Of
    <3>3. DOMAIN z = DOMAIN objs[w] /\ z.history = objs[w].history /\ z.exists = objs[w].exists
      BY <3>1, SMTT(40)
    <3>4. WlObjOK(z)
      BY <3>2, <3>3 DEF WlObjOK
    <3>5. objs' = [objs EXCEPT ![w] = z]
      BY <2>2, <3>1, <3>2 DEF WlBody
    <3> QED
      BY <3>4, <3>5 DEF WlBody
  <2> QED
    BY <1>1, <2>1, <2>2
<1> QED
  BY <1>2, <1>3, WlAtOnce DEF WlBody

(* The second half of a deletion. *)
LEMMA WlDeletes == ASSUME WlBody, NEW t \in WlThreads, DoDelete(t) PROVE WlBody'
<1>1. PICK o : o = wlOp[t]
  OBVIOUS
<1>2. PICK n : n = o.n
  OBVIOUS
<1>3. o.at = "delete" /\ UNCHANGED <<claims, maker, wlDone, wlOps>>
  BY <1>1 DEF DoDelete
<1>4. WlPhase(o)
  BY <1>1, <1>3, WlKnows
<1>5. {"at", "n", "todo"} \subseteq DOMAIN o /\ WlHas(n) = {}
  BY <1>2, <1>3, <1>4 DEF WlPhase
<1>6. objs' = objs \/ objs' = [objs EXCEPT ![o.w] = Absent]
  BY <1>1 DEF DoDelete
<1>7. WlObjOK(Absent)
  BY DEF WlObjOK, Absent
<1>8. objs' = [x \in WlNames |-> objs'[x]] /\ \A x \in WlNames : WlObjOK(objs'[x])
  BY <1>6, <1>7 DEF WlBody
<1>9. CASE wlOp' = [wlOp EXCEPT ![t] = WlIdle]
  BY <1>1, <1>2, <1>3, <1>5, <1>8, <1>9, WlEnds
<1>10. CASE wlOp' = [wlOp EXCEPT ![t].at = "deletePVC"]
  <2>1. PICK q : q = [o EXCEPT !.at = "deletePVC"]
    OBVIOUS
  <2>2. {"at", "n", "todo"} \subseteq DOMAIN q /\ q.at = "deletePVC" /\ q.n = n
    BY <1>2, <1>5, <2>1
  <2>3. wlOp' = [wlOp EXCEPT ![t] = q]
    BY <1>1, <1>10, <2>1 DEF WlBody
  <2>4. WlHas(n)' = {}
    BY <1>3, <1>5 DEF WlHas
  <2>5. WlPhase(q)'
    BY <2>2, <2>4 DEF WlPhase
  <2>6. /\ claims' \subseteq AllClaims /\ maker' = [c \in AllClaims |-> maker'[c]]
        /\ \A c \in AllClaims : maker'[c] \in {maker[c], None, n} /\ (maker'[c] # None => c \in claims')
    BY <1>3 DEF WlBody
  <2> QED
    BY <1>1, <1>2, <1>3, <1>8, <2>2, <2>3, <2>5, <2>6, WlMoves
<1> QED
  BY <1>1, <1>9, <1>10 DEF DoDelete

(* A claim is deleted by request. *)
LEMMA WlDeletesClaim == ASSUME WlBody, NEW t \in WlThreads, deletePersistentVolumeClaim(t) PROVE WlBody'
<1>1. PICK o : o = wlOp[t]
  OBVIOUS
<1>2. PICK n : n = o.n
  OBVIOUS
<1>3. PICK c : c = o.c
  OBVIOUS
<1>4. /\ o.at = "deleteClaim" /\ UNCHANGED <<objs, wlDone, wlOps>>
      /\ claims' = claims \ {c} /\ maker' = [maker EXCEPT ![c] = None] /\ wlOp' = [wlOp EXCEPT ![t] = WlIdle]
  BY <1>1, <1>3 DEF deletePersistentVolumeClaim
<1>5. WlPhase(o) /\ n \in Nat \ {0}
  BY <1>1, <1>2, <1>4, WlKnows, SMTT(40)
<1>6. WlHas(n) = {}
  BY <1>2, <1>4, <1>5 DEF WlPhase
<1>7. /\ claims' \subseteq AllClaims /\ maker' = [x \in AllClaims |-> maker'[x]]
      /\ \A x \in AllClaims : maker'[x] \in {maker[x], None, n} /\ (maker'[x] # None => x \in claims')
  BY <1>4 DEF WlBody
<1>8. WlHas(n)' = {}
  BY <1>4, <1>5, <1>6 DEF WlHas, WlBody, None
<1>9. PICK q : q = WlIdle
  OBVIOUS
<1>10. objs' = [w \in WlNames |-> objs'[w]] /\ \A w \in WlNames : WlObjOK(objs'[w])
  BY <1>4 DEF WlBody
<1> QED
  BY <1>1, <1>2, <1>4, <1>7, <1>8, <1>9, <1>10, WlMoves

(* A volume is deleted by request; no claim is touched. *)
LEMMA WlDeletesVolume == ASSUME WlBody, NEW t \in WlThreads, deletePersistentVolume(t) PROVE WlBody'
<1>1. UNCHANGED <<objs, wlOp, claims, maker, wlDone>> /\ wlOps' = wlOps + 1
  BY DEF deletePersistentVolume
<1>2. objs' = [x \in WlNames |-> objs'[x]] /\ \A x \in WlNames : WlObjOK(objs'[x])
  BY <1>1 DEF WlBody
<1> QED
  BY <1>1, <1>2, WlAtOnce DEF WlBody

(* Every step. *)
LEMMA WlStepping == ASSUME WlSetting, WlBody, WlNext, ~(\E t \in WlThreads : WlFail(t)) PROVE WlBody'
<1>1. CASE StatefulSetClaims
  BY <1>1, WlKubernetesMakes
<1>2. ASSUME NEW t \in WlThreads,
             \/ DeploymentCreate(t) \/ createDeployment(t) \/ DeploymentUpdate(t)
             \/ DeploymentRollback(t) \/ DeploymentSetPodCount(t) \/ DeploymentDelete(t)
             \/ StatefulSetCreate(t) \/ createStatefulSet(t) \/ StatefulSetUpdate(t)
             \/ StatefulSetRollback(t) \/ StatefulSetSetPodCount(t) \/ StatefulSetDelete(t)
             \/ DaemonSetCreate(t) \/ createDaemonSet(t) \/ DaemonSetUpdate(t)
             \/ DaemonSetRollback(t) \/ DaemonSetDelete(t)
      PROVE  WlBody'
  <2>1. CASE DeploymentCreate(t) \/ StatefulSetCreate(t) \/ DaemonSetCreate(t)
    BY <2>1, WlCreating DEF DeploymentCreate, StatefulSetCreate, DaemonSetCreate
  <2>2. CASE createDeployment(t) \/ createStatefulSet(t) \/ createDaemonSet(t)
    BY <2>2, WlMakesObject DEF createDeployment, createStatefulSet, createDaemonSet
  <2>3. CASE DeploymentUpdate(t) \/ StatefulSetUpdate(t) \/ DaemonSetUpdate(t)
    BY <2>3, WlOtherStarts DEF DeploymentUpdate, StatefulSetUpdate, DaemonSetUpdate
  <2>4. CASE DeploymentDelete(t) \/ StatefulSetDelete(t) \/ DaemonSetDelete(t)
    BY <2>4, WlOtherStarts DEF DeploymentDelete, StatefulSetDelete, DaemonSetDelete
  <2>5. CASE DeploymentRollback(t) \/ StatefulSetRollback(t) \/ DaemonSetRollback(t)
    BY <2>5, WlRollsBack DEF DeploymentRollback, StatefulSetRollback, DaemonSetRollback
  <2>6. CASE DeploymentSetPodCount(t) \/ StatefulSetSetPodCount(t)
    BY <2>6, WlScales DEF DeploymentSetPodCount, StatefulSetSetPodCount
  <2> QED
    BY <1>2, <2>1, <2>2, <2>3, <2>4, <2>5, <2>6
<1>3. ASSUME NEW t \in WlThreads,
             \/ createPVCs(t) \/ deletePVC(t) \/ WriteUpdate(t) \/ DoDelete(t)
             \/ isUsed(t) \/ deletePersistentVolumeClaim(t) \/ deletePersistentVolume(t)
      PROVE  WlBody'
  BY <1>3, WlMakesClaims, WlDeletesClaims, WlUpdates, WlDeletes, WlOtherStarts, WlDeletesClaim, WlDeletesVolume
<1> QED
  BY <1>1, <1>2, <1>3 DEF WlNext

(* Only a failing call counts as one. *)
LEMMA WlNoFault == ASSUME WlNext, ~(\E t \in WlThreads : WlFail(t)) PROVE UNCHANGED wlFaults
<1>1. CASE StatefulSetClaims
  BY <1>1 DEF StatefulSetClaims
<1>2. ASSUME NEW t \in WlThreads, NEW kind,
             \/ createPodTempateSpec(t, kind) \/ createWorkload(t, kind) \/ updateWorkload(t, kind)
             \/ rollback(t, kind) \/ setPodCount(t, kind) \/ deleteWorkload(t, kind)
      PROVE  UNCHANGED wlFaults
  <2>1. CASE createPodTempateSpec(t, kind) \/ updateWorkload(t, kind) \/ deleteWorkload(t, kind)
    BY <2>1 DEF createPodTempateSpec, updateWorkload, deleteWorkload
  <2>2. CASE createWorkload(t, kind)
    BY <2>2 DEF createWorkload
  <2>3. CASE rollback(t, kind) \/ setPodCount(t, kind)
    BY <2>3 DEF rollback, setPodCount
  <2> QED
    BY <1>2, <2>1, <2>2, <2>3
<1>3. ASSUME NEW t \in WlThreads,
             \/ createPVCs(t) \/ deletePVC(t) \/ WriteUpdate(t) \/ DoDelete(t)
             \/ isUsed(t) \/ deletePersistentVolumeClaim(t) \/ deletePersistentVolume(t)
      PROVE  UNCHANGED wlFaults
  <2>1. CASE createPVCs(t) \/ deletePVC(t)
    BY <2>1 DEF createPVCs, deletePVC
  <2>2. CASE WriteUpdate(t) \/ DoDelete(t)
    BY <2>2 DEF WriteUpdate, DoDelete
  <2>3. CASE isUsed(t) \/ deletePersistentVolumeClaim(t) \/ deletePersistentVolume(t)
    BY <2>3 DEF isUsed, deletePersistentVolumeClaim, deletePersistentVolume
  <2> QED
    BY <1>3, <2>1, <2>2, <2>3
<1> QED
  BY <1>1, <1>2, <1>3 DEF WlNext, DeploymentCreate, createDeployment, DeploymentUpdate,
     DeploymentRollback, DeploymentSetPodCount, DeploymentDelete, StatefulSetCreate, createStatefulSet,
     StatefulSetUpdate, StatefulSetRollback, StatefulSetSetPodCount, StatefulSetDelete, DaemonSetCreate,
     createDaemonSet, DaemonSetUpdate, DaemonSetRollback, DaemonSetDelete

(* The invariant holds at the start. *)
LEMMA WlBegins == WlInit => WlInv
<1> SUFFICES ASSUME WlInit PROVE WlInv
  OBVIOUS
<1>1. \A t \in WlThreads : wlOp[t] = WlIdle
  BY DEF WlInit
<1>2. \A t \in WlThreads : WlOpOK(t)
  BY <1>1, SMTT(40) DEF WlOpOK, WlIdle
<1>3. \A w \in WlNames : WlObjOK(objs[w])
  BY DEF WlInit, WlObjOK, Absent
<1>4. \A c \in AllClaims : maker[c] = None
  BY DEF WlInit
<1> QED
  BY <1>2, <1>3, <1>4 DEF WlInit, WlInv, WlBody

(* While no call of the API has failed, a claim that a handler has made    *)
(* belongs to a creation under way or to one that succeeded, whatever      *)
(* number of requests create, update, roll back, scale or delete workloads *)
(* and claims meanwhile.                                                   *)
THEOREM NoClaimIsLeft == WlSpec => []WlNoLeak
<1>1. ASSUME WlInv, [WlNext]_wlVars PROVE WlInv'
  <2>1. CASE UNCHANGED wlVars
    <3>1. WlBody => WlBody'
      <4>1. UNCHANGED <<wlOp, claims, maker, wlDone, objs, wlOps>>
        BY <2>1 DEF wlVars
      <4> SUFFICES ASSUME WlBody PROVE WlBody'
        OBVIOUS
      <4>2. objs' = [x \in WlNames |-> objs'[x]] /\ \A x \in WlNames : WlObjOK(objs'[x])
        BY <4>1 DEF WlBody
      <4> QED
        BY <4>1, <4>2, WlAtOnce DEF WlBody
    <3> QED
      BY <1>1, <2>1, <3>1 DEF WlInv, wlVars
  <2>2. CASE \E t \in WlThreads : WlFail(t)
    <3>1. wlFaults' = wlFaults + 1
      BY <2>2 DEF WlFail
    <3> QED
      BY <1>1, <3>1, SMTT(40) DEF WlInv
  <2>3. CASE WlNext /\ ~(\E t \in WlThreads : WlFail(t))
    <3>1. UNCHANGED wlFaults
      BY <2>3, WlNoFault
    <3> QED
      BY <1>1, <2>3, <3>1, WlStepping, WlAssumption DEF WlInv
  <2> QED
    BY <1>1, <2>1, <2>2, <2>3
<1> QED
  BY <1>1, WlBegins, WlInvImplies, PTL DEF WlSpec

-----------------------------------------------------------------------------
(***************************************************************************)
(* Workflows.  A request changes nothing of a workflow of another name:    *)
(* its secrets, account and resource bear its own name, and the binding    *)
(* all share is only written as it was read.  A creation that found        *)
(* nothing of its name and is alone with it knows what it has made so far. *)
(***************************************************************************)

CiFields == {"at", "op", "name", "git", "id", "created", "alone"}

(* The secrets a creation has made, as the cluster and as the account knows them. *)
CiOwn(r) == r.created \ {"account"}
CiMine(r) == {Secret(r.name, kind, r.id) : kind \in CiOwn(r)}
CiNamed(r) == {<<kind, r.id>> : kind \in CiOwn(r)}

(* How far a creation is that is alone with its name. *)
CiPhase(r) ==
  /\ r.at \in {"create", "git"} => r.created = {} /\ SecretsOf(r.name) = {}
  /\ r.at = "docker" => r.created \subseteq {"git"} /\ SecretsOf(r.name) = CiMine(r)
  /\ r.at = "account" => "docker" \in r.created /\ "account" \notin r.created /\ SecretsOf(r.name) = CiMine(r)
  /\ r.at \in {"bind", "resource"} =>
       "docker" \in r.created /\ SecretsOf(r.name) = CiMine(r) /\ ciSa[r.name] = CiNamed(r)
  /\ r.at = "resource" => r.name \in ciBound

CiReqOK(s) ==
  ciReq[s] # CiIdle =>
    /\ CiFields \subseteq DOMAIN ciReq[s]
    /\ ciReq[s].name \in CiNames \ ciMade
    /\ ciReq[s].alone =>
         /\ \A t \in CiSlots \ {s} : ciReq[t] # CiIdle => ciReq[t].name # ciReq[s].name
         /\ CiPhase(ciReq[s])

(* What CiComplete asks of a workflow. *)
CiIsWhole(n) ==
  /\ ciRes[n] # CiNone /\ n \in ciBound
  /\ ciSa[n] = {<<x.kind, x.id>> : x \in SecretsOf(n)}
  /\ \E x \in SecretsOf(n) : x.kind = "docker"

CiInv ==
  /\ ciReq = [s \in CiSlots |-> ciReq[s]]
  /\ ciSa = [n \in CiNames |-> ciSa[n]]
  /\ ciRes = [n \in CiNames |-> ciRes[n]]
  /\ ciMade \subseteq CiNames
  /\ \A s \in CiSlots : CiReqOK(s)
  /\ \A n \in ciMade : CiIsWhole(n)

(* A step of request s leaves the workflows of other names as they are. *)
CiOthers(s) ==
  /\ ciSa' = [n \in CiNames |-> ciSa'[n]]
  /\ ciRes' = [n \in CiNames |-> ciRes'[n]]
  /\ \A m \in CiNames : m # ciReq[s].name =>
       /\ SecretsOf(m)' = SecretsOf(m)
       /\ ciSa'[m] = ciSa[m] /\ ciRes'[m] = ciRes[m]
       /\ m \in ciBound' <=> m \in ciBound

(* The name, the kind and the number of a secret. *)
LEMMA CiSecretFields ==
  ASSUME NEW n, NEW kind, NEW id
  PROVE  Secret(n, kind, id).wf = n /\ Secret(n, kind, id).kind = kind /\ Secret(n, kind, id).id = id
  BY DEF Secret

(* The invariant says that the workflows are complete. *)
LEMMA CiInvImplies == CiInv => CiComplete
  BY DEF CiInv, CiComplete, CiIsWhole

(* A request at another label is the same request. *)
LEMMA CiRelabel ==
  ASSUME NEW r, NEW label, CiFields \subseteq DOMAIN r
  PROVE  /\ DOMAIN [r EXCEPT !.at = label] = DOMAIN r
         /\ [r EXCEPT !.at = label].at = label
         /\ \A f \in CiFields \ {"at"} : [r EXCEPT !.at = label][f] = r[f]
  BY DEF CiFields

(* A request that changes only what bears its name, and is still what it   *)
(* was, or ends.                                                           *)
LEMMA CiKeeps ==
  ASSUME CiInv, NEW s \in CiSlots, ciReq[s] # CiIdle, NEW q,
         ciReq' = [ciReq EXCEPT ![s] = q], ciMade' = ciMade, CiOthers(s),
         \/ q = CiIdle
         \/ /\ CiFields \subseteq DOMAIN q /\ q.name = ciReq[s].name /\ q.alone = ciReq[s].alone
            /\ q.alone => CiPhase(q)'
  PROVE  CiInv'
<1>1. ciReq'[s] = q /\ \A t \in CiSlots \ {s} : ciReq'[t] = ciReq[t]
  BY DEF CiInv
<1>2. ciReq' = [t \in CiSlots |-> ciReq'[t]]
  BY DEF CiInv
<1>3. ciReq[s].name \in CiNames \ ciMade
  BY DEF CiInv, CiReqOK
<1>4. ASSUME NEW n \in ciMade PROVE CiIsWhole(n)'
  <2>1. n \in CiNames /\ n # ciReq[s].name /\ CiIsWhole(n)
    BY <1>3 DEF CiInv
  <2>2. /\ SecretsOf(n)' = SecretsOf(n) /\ ciSa'[n] = ciSa[n] /\ ciRes'[n] = ciRes[n]
        /\ n \in ciBound' <=> n \in ciBound
    BY <2>1 DEF CiOthers
  <2> QED
    BY <2>1, <2>2 DEF CiIsWhole
<1>5. CiReqOK(s)'
  <2>1. ASSUME ciReq'[s] # CiIdle PROVE
             /\ CiFields \subseteq DOMAIN q /\ q.name = ciReq[s].name /\ q.alone = ciReq[s].alone
             /\ q.alone => CiPhase(q)'
    BY <1>1, <2>1
  <2>2. ASSUME ciReq'[s] # CiIdle, q.alone, NEW t \in CiSlots \ {s}, ciReq'[t] # CiIdle PROVE ciReq'[t].name # q.name
    <3>1. ciReq[s].alone
      BY <2>1, <2>2
    <3>2. CiReqOK(s) /\ ciReq[t] # CiIdle /\ ciReq'[t] = ciReq[t]
      BY <1>1, <2>2 DEF CiInv
    <3>3. ciReq[t].name # ciReq[s].name
      BY <3>1, <3>2 DEF CiReqOK
    <3> QED
      BY <2>1, <2>2, <3>2, <3>3
  <2>3. ASSUME ciReq'[s] # CiIdle, q.alone PROVE CiPhase(ciReq[s])'
    BY <1>1, <2>1, <2>3
  <2>4. ASSUME ciReq'[s] # CiIdle
        PROVE  CiFields \subseteq DOMAIN ciReq'[s] /\ ciReq'[s].name \in CiNames \ ciMade' /\ ciReq'[s].alone = q.alone
    BY <1>1, <1>3, <2>1, <2>4
  <2> QED
    BY <1>1, <2>2, <2>3, <2>4 DEF CiReqOK
<1>6. ASSUME NEW t \in CiSlots \ {s} PROVE CiReqOK(t)'
  <2>1. CiReqOK(t) /\ ciReq'[t] = ciReq[t]
    BY <1>1 DEF CiInv
  <2>2. ASSUME ciReq[t] # CiIdle, ciReq[t].alone PROVE CiPhase(ciReq[t])'
    <3> PICK r : r = ciReq[t]
      OBVIOUS
    <3>1. r.name \in CiNames /\ r.name # ciReq[s].name /\ CiPhase(r)
      BY <2>1, <2>2 DEF CiReqOK
    <3>2. /\ SecretsOf(r.name)' = SecretsOf(r.name) /\ ciSa'[r.name] = ciSa[r.name]
          /\ r.name \in ciBound' <=> r.name \in ciBound
      BY <3>1 DEF CiOthers
    <3>3. CiPhase(r)'
      BY <3>1, <3>2 DEF CiPhase
    <3> QED
      BY <2>1, <3>3
  <2>3. ASSUME ciReq[t] # CiIdle, ciReq[t].alone, NEW u \in CiSlots \ {t}, ciReq'[u] # CiIdle
        PROVE  ciReq'[u].name # ciReq[t].name
    BY <1>1, <2>1, <2>3, SMTT(40) DEF CiReqOK
  <2> QED
    BY <2>1, <2>2, <2>3 DEF CiReqOK
<1> QED
  BY <1>2, <1>4, <1>5, <1>6 DEF CiInv, CiOthers

(* It ends. *)
LEMMA CiKeepsEnd ==
  ASSUME CiInv, NEW s \in CiSlots, ciReq[s] # CiIdle, CiEnds(s), ciMade' = ciMade, CiOthers(s)
  PROVE  CiInv'
  BY CiKeeps DEF CiEnds

(* It goes on to a label that a creation alone with its name has not, or is not alone. *)
LEMMA CiKeepsOn ==
  ASSUME CiInv, NEW s \in CiSlots, ciReq[s] # CiIdle, NEW label, CiGoes(s, label), ciMade' = ciMade, CiOthers(s),
         NEW q, q = [ciReq[s] EXCEPT !.at = label],
         \/ label \notin {"create", "git", "docker", "account", "bind", "resource"}
         \/ q.alone => CiPhase(q)'
  PROVE  CiInv'
<1>1. ciReq' = [ciReq EXCEPT ![s] = q]
  BY DEF CiGoes
<1>2. CiFields \subseteq DOMAIN ciReq[s]
  BY DEF CiInv, CiReqOK
<1>3. /\ CiFields \subseteq DOMAIN q /\ q.at = label
      /\ q.name = ciReq[s].name /\ q.alone = ciReq[s].alone
  BY <1>2, CiRelabel DEF CiFields
<1>4. label \notin {"create", "git", "docker", "account", "bind", "resource"} => CiPhase(q)'
  BY <1>3 DEF CiPhase
<1> QED
  BY <1>1, <1>3, <1>4, CiKeeps

(* A request at a label is under way. *)
LEMMA CiBusy == ASSUME NEW s, ciReq[s].at # "idle" PROVE ciReq[s] # CiIdle
  BY SMTT(40) DEF CiIdle

(* A step that changes no object. *)
LEMMA CiSame == ASSUME CiInv, NEW s \in CiSlots, UNCHANGED ciObjs PROVE CiOthers(s)
  BY DEF CiInv, CiOthers, ciObjs, SecretsOf

(* A step that changes secrets of its own workflow. *)
LEMMA CiSecretsChange ==
  ASSUME CiInv, NEW s \in CiSlots, UNCHANGED <<ciRes, ciSa, ciBound>>,
         \A x : x.wf # ciReq[s].name => (x \in ciSecrets' <=> x \in ciSecrets)
  PROVE  CiOthers(s)
<1>1. ASSUME NEW m \in CiNames, m # ciReq[s].name PROVE SecretsOf(m)' = SecretsOf(m)
  BY <1>1 DEF SecretsOf
<1> QED
  BY <1>1 DEF CiInv, CiOthers

(* A step that changes the account of its own workflow, and its secrets. *)
LEMMA CiAccountChange ==
  ASSUME CiInv, NEW s \in CiSlots, UNCHANGED <<ciRes, ciBound>>,
         NEW v, ciSa' = [ciSa EXCEPT ![ciReq[s].name] = v] \/ UNCHANGED ciSa,
         \A x : x.wf # ciReq[s].name => (x \in ciSecrets' <=> x \in ciSecrets)
  PROVE  CiOthers(s)
<1>1. ASSUME NEW m \in CiNames, m # ciReq[s].name PROVE SecretsOf(m)' = SecretsOf(m)
  BY <1>1 DEF SecretsOf
<1>2. ciSa' = [n \in CiNames |-> ciSa'[n]] /\ \A m \in CiNames : m # ciReq[s].name => ciSa'[m] = ciSa[m]
  BY DEF CiInv
<1> QED
  BY <1>1, <1>2 DEF CiInv, CiOthers

(* A step that changes the resource of its own workflow. *)
LEMMA CiResourceChange ==
  ASSUME CiInv, NEW s \in CiSlots, UNCHANGED <<ciSecrets, ciSa, ciBound>>,
         NEW v, ciRes' = [ciRes EXCEPT ![ciReq[s].name] = v] \/ UNCHANGED ciRes
  PROVE  CiOthers(s)
<1>1. ciRes' = [n \in CiNames |-> ciRes'[n]] /\ \A m \in CiNames : m # ciReq[s].name => ciRes'[m] = ciRes[m]
  BY DEF CiInv
<1> QED
  BY <1>1 DEF CiInv, CiOthers, SecretsOf

(* What a creation knows when it is alone with its name. *)
LEMMA CiKnows ==
  ASSUME CiInv, NEW s \in CiSlots, ciReq[s] # CiIdle, NEW r, r = ciReq[s]
  PROVE  /\ CiFields \subseteq DOMAIN r /\ r.name \in CiNames \ ciMade
         /\ r.alone => CiPhase(r)
  BY DEF CiInv, CiReqOK

-----------------------------------------------------------------------------
(* A request arrives. *)
LEMMA CiArriving == ASSUME CiSetting, CiInv, NEW s \in CiSlots, CiArrives(s) PROVE CiInv'
<1> PICK op \in CiOps, n \in CiNames, git \in BOOLEAN :
      /\ LET same == {t \in CiSlots : ciReq[t] # CiIdle /\ ciReq[t].name = n}
         IN ciReq' = [t \in CiSlots |->
               IF t = s THEN [at |-> op, op |-> op, name |-> n, git |-> git, id |-> ciCount + 1, created |-> {},
                              alone |-> same = {} /\ SecretsOf(n) = {}]
               ELSE IF t \in same THEN [ciReq[t] EXCEPT !.alone = FALSE] ELSE ciReq[t]]
      /\ ciMade' = ciMade \ {n}
  BY DEF CiArrives
<1>1. UNCHANGED <<ciRes, ciSecrets, ciSa, ciBound>> /\ ciReq[s] = CiIdle
  BY DEF CiArrives, ciObjs
<1>2. op \in {"create", "update", "delete", "empty", "task"}
  BY DEF CiSetting
<1> DEFINE same == {t \in CiSlots : ciReq[t] # CiIdle /\ ciReq[t].name = n}
           new == [at |-> op, op |-> op, name |-> n, git |-> git, id |-> ciCount + 1, created |-> {},
                   alone |-> same = {} /\ SecretsOf(n) = {}]
<1>3. ciReq'[s] = new /\ ciReq' = [t \in CiSlots |-> ciReq'[t]]
  OBVIOUS
<1>4. /\ \A t \in same : ciReq'[t] = [ciReq[t] EXCEPT !.alone = FALSE]
      /\ \A t \in CiSlots \ ({s} \cup same) : ciReq'[t] = ciReq[t]
  BY <1>1
<1>5. CiFields \subseteq DOMAIN new /\ new.at = op /\ new.name = n /\ new.created = {}
      /\ (new.alone <=> same = {} /\ SecretsOf(n) = {})
  BY DEF CiFields
<1> HIDE DEF new
<1>6. ASSUME NEW m \in ciMade' PROVE CiIsWhole(m)'
  BY <1>1, <1>6 DEF CiInv, CiIsWhole, SecretsOf
<1>7. CiReqOK(s)'
  <2>1. PICK q : q = new
    OBVIOUS
  <2>2. ASSUME new.alone PROVE CiPhase(ciReq[s])'
    <3>1. SecretsOf(n) = {} /\ q.name = n /\ q.created = {} /\ q.at = op
      BY <1>5, <2>1, <2>2
    <3>2. CiPhase(q)'
      BY <1>1, <1>2, <3>1 DEF CiPhase, SecretsOf
    <3> QED
      BY <1>3, <2>1, <3>2
  <2>3. ASSUME new.alone, NEW t \in CiSlots \ {s}, ciReq'[t] # CiIdle PROVE ciReq'[t].name # n
    <3>1. same = {}
      BY <1>5, <2>3
    <3>2. ciReq'[t] = ciReq[t]
      BY <1>4, <3>1
    <3> QED
      BY <2>3, <3>1, <3>2
  <2>4. /\ CiFields \subseteq DOMAIN ciReq'[s] /\ ciReq'[s].name = n /\ n \in CiNames \ ciMade'
        /\ ciReq'[s].alone = new.alone
    BY <1>3, <1>5
  <2> QED
    BY <2>2, <2>3, <2>4 DEF CiReqOK
<1>8. ASSUME NEW t \in same PROVE CiReqOK(t)'
  <2>1. /\ t # s /\ CiFields \subseteq DOMAIN ciReq[t] /\ ciReq[t].name \in CiNames \ ciMade
        /\ ciReq[t].name = n
    BY <1>1, <1>8 DEF CiInv, CiReqOK
  <2>2. /\ CiFields \subseteq DOMAIN ciReq'[t] /\ ciReq'[t].name = n /\ ciReq'[t].alone = FALSE
    BY <1>4, <1>8, <2>1 DEF CiFields
  <2> QED
    BY <2>1, <2>2 DEF CiReqOK
<1>9. ASSUME NEW t \in CiSlots \ ({s} \cup same) PROVE CiReqOK(t)'
  <2>1. CiReqOK(t) /\ ciReq'[t] = ciReq[t] /\ (ciReq[t] # CiIdle => ciReq[t].name # n)
    BY <1>4, <1>9 DEF CiInv
  <2>2. ASSUME ciReq[t] # CiIdle, ciReq[t].alone PROVE CiPhase(ciReq[t])'
    <3> PICK r : r = ciReq[t]
      OBVIOUS
    <3>1. CiPhase(r)
      BY <2>1, <2>2 DEF CiReqOK
    <3>2. CiPhase(r)'
      BY <1>1, <3>1 DEF CiPhase, SecretsOf
    <3> QED
      BY <2>1, <3>2
  <2>3. ASSUME ciReq[t] # CiIdle, ciReq[t].alone, NEW u \in CiSlots \ {t}, ciReq'[u] # CiIdle
        PROVE  ciReq'[u].name # ciReq[t].name
    <3>1. CASE u = s
      BY <1>3, <1>5, <2>1, <2>3, <3>1
    <3>2. CASE u \in same
      <4>1. CiFields \subseteq DOMAIN ciReq[u]
        BY <3>2 DEF CiInv, CiReqOK
      <4>2. ciReq'[u].name = n
        BY <1>4, <3>2, <4>1 DEF CiFields
      <4> QED
        BY <2>1, <2>3, <4>2
    <3>3. CASE u \notin same /\ u # s
      BY <1>4, <2>1, <2>3, <3>3 DEF CiReqOK
    <3> QED
      BY <3>1, <3>2, <3>3
  <2> QED
    BY <2>1, <2>2, <2>3 DEF CiReqOK
<1> QED
  BY <1>1, <1>3, <1>6, <1>7, <1>8, <1>9 DEF CiInv

(* preCheckDeploymentExist. *)
LEMMA CiPreChecking == ASSUME CiInv, NEW s \in CiSlots, preCheckDeploymentExist(s) PROVE CiInv'
<1>1. /\ ciReq[s] # CiIdle /\ ciReq[s].at = "create" /\ ciMade' = ciMade /\ CiOthers(s)
      /\ UNCHANGED <<ciSecrets, ciSa, ciBound>>
  BY CiBusy, CiSame DEF preCheckDeploymentExist, CiAt, CiFrame, ciObjs
<1>2. CASE CiEnds(s)
  BY <1>1, <1>2, CiKeepsEnd
<1>3. ASSUME NEW label \in {"git", "docker"}, CiGoes(s, label) PROVE CiInv'
  <2>1. PICK r : r = ciReq[s]
    OBVIOUS
  <2>2. PICK q : q = [r EXCEPT !.at = label]
    OBVIOUS
  <2>3. CiFields \subseteq DOMAIN r /\ (r.alone => CiPhase(r))
    BY <1>1, <2>1, CiKnows
  <2>4. q.at = label /\ q.name = r.name /\ q.created = r.created /\ q.alone = r.alone
    BY <2>2, <2>3, CiRelabel DEF CiFields
  <2>5. ASSUME q.alone PROVE CiPhase(q)'
    <3>1. r.created = {} /\ SecretsOf(r.name) = {}
      BY <1>1, <2>1, <2>3, <2>4, <2>5 DEF CiPhase
    <3>2. SecretsOf(q.name)' = {} /\ CiMine(q) = {}
      BY <1>1, <2>4, <3>1 DEF SecretsOf, CiMine, CiOwn
    <3> QED
      BY <1>3, <2>4, <3>1, <3>2 DEF CiPhase
  <2> QED
    BY <1>1, <1>3, <2>1, <2>2, <2>5, CiKeepsOn
<1> QED
  BY <1>2, <1>3 DEF preCheckDeploymentExist

(* A request that has created something. *)
CiMakes(s, next, kind) == ciReq' = [ciReq EXCEPT ![s].at = next, ![s].created = @ \cup {kind}]

CiHasMade(s, r, q, next, kind) ==
  /\ ciReq' = [ciReq EXCEPT ![s] = q] /\ CiFields \subseteq DOMAIN q
  /\ q.at = next /\ q.created = r.created \cup {kind}
  /\ q.name = r.name /\ q.id = r.id /\ q.alone = r.alone

(* What a request that creates an object knows of it afterwards. *)
LEMMA CiCreates ==
  ASSUME CiInv, NEW s \in CiSlots, ciReq[s] # CiIdle, NEW next, NEW kind, NEW r, r = ciReq[s], CiMakes(s, next, kind)
  PROVE  \E q : CiHasMade(s, r, q, next, kind)
<1>1. CiFields \subseteq DOMAIN r
  BY DEF CiInv, CiReqOK
<1> DEFINE q == [r EXCEPT !.at = next, !.created = r.created \cup {kind}]
<1>2. ciReq' = [ciReq EXCEPT ![s] = q]
  BY DEF CiInv, CiMakes
<1>3. /\ CiFields \subseteq DOMAIN q
      /\ q.at = next /\ q.created = r.created \cup {kind}
      /\ q.name = r.name /\ q.id = r.id /\ q.alone = r.alone
  BY <1>1 DEF CiFields
<1> QED
  BY <1>2, <1>3 DEF CiHasMade

(* createGitSecret, createDockerSecret: one more secret, of the request's name and number. *)
LEMMA CiOneMore ==
  ASSUME NEW n, NEW kind, NEW id, ciSecrets' = ciSecrets \cup {Secret(n, kind, id)}
  PROVE  /\ \A x : x.wf # n => (x \in ciSecrets' <=> x \in ciSecrets)
         /\ SecretsOf(n)' = SecretsOf(n) \cup {Secret(n, kind, id)}
  BY SMTT(40) DEF Secret, SecretsOf

(* One of the two secrets of a workflow is created. *)
LEMMA CiMakesSecret ==
  ASSUME CiInv, NEW s \in CiSlots, NEW kind, NEW next, NEW fail,
         \/ ciReq[s].at = "git" /\ kind = "git" /\ next = "docker" /\ fail = ""
         \/ ciReq[s].at = "docker" /\ kind = "docker" /\ next = "account" /\ fail = "failBack",
         Creates(s, kind, next, fail), UNCHANGED <<ciRes, ciSa, ciBound>>, ciMade' = ciMade
  PROVE  CiInv'
<1>1. PICK r : r = ciReq[s]
  OBVIOUS
<1>2. ciReq[s] # CiIdle
  BY CiBusy
<1>3. CASE UNCHANGED ciSecrets /\ IF fail = "" THEN CiEnds(s) ELSE CiGoes(s, fail)
  <2>1. CiOthers(s)
    BY <1>3 DEF CiInv, CiOthers, SecretsOf
  <2>2. CASE CiEnds(s)
    BY <1>2, <2>1, <2>2, CiKeepsEnd
  <2>3. CASE fail = "failBack" /\ CiGoes(s, fail)
    <3>1. PICK q : q = [ciReq[s] EXCEPT !.at = fail]
      OBVIOUS
    <3> QED
      BY <1>2, <2>1, <2>3, <3>1, CiKeepsOn
  <2> QED
    BY <1>3, <2>2, <2>3
<1>4. CASE /\ ciSecrets' = ciSecrets \cup {Secret(r.name, kind, r.id)}
           /\ ciReq' = [ciReq EXCEPT ![s].at = next, ![s].created = @ \cup {kind}]
  <2>0. CiMakes(s, next, kind)
    BY <1>4 DEF CiMakes
  <2>q. PICK q : CiHasMade(s, r, q, next, kind)
    BY <1>1, <1>2, <2>0, CiCreates
  <2>1. /\ ciReq' = [ciReq EXCEPT ![s] = q] /\ CiFields \subseteq DOMAIN q
        /\ q.at = next /\ q.created = r.created \cup {kind}
        /\ q.name = r.name /\ q.id = r.id /\ q.alone = r.alone
    BY <2>q DEF CiHasMade
  <2>2. /\ \A x : x.wf # r.name => (x \in ciSecrets' <=> x \in ciSecrets)
        /\ SecretsOf(r.name)' = SecretsOf(r.name) \cup {Secret(r.name, kind, r.id)}
    BY <1>4, CiOneMore
  <2>3. CiOthers(s)
    BY <1>1, <2>2, CiSecretsChange
  <2>4. ASSUME q.alone PROVE CiPhase(q)'
    <3>1. CiPhase(r)
      BY <1>1, <1>2, <2>1, <2>4, CiKnows
    <3>2. r.created \subseteq {"git"} /\ SecretsOf(r.name) = CiMine(r) /\ (kind = "git" => r.created = {})
      BY <1>1, <3>1 DEF CiPhase, CiMine, CiOwn
    <3>3. CiMine(q) = CiMine(r) \cup {Secret(r.name, kind, r.id)}
      <4>1. CiOwn(q) = CiOwn(r) \cup {kind}
        BY <2>1 DEF CiOwn
      <4> QED
        BY <2>1, <4>1 DEF CiMine
    <3>4. SecretsOf(q.name)' = CiMine(q)
      BY <2>1, <2>2, <3>2, <3>3
    <3> QED
      BY <2>1, <3>2, <3>4 DEF CiPhase
  <2> QED
    BY <1>1, <1>2, <2>1, <2>3, <2>4, CiKeeps
<1> QED
  BY <1>1, <1>3, <1>4 DEF Creates

(* createServiceAccount: the account names the secrets that were made. *)
LEMMA CiMakesAccount == ASSUME CiInv, NEW s \in CiSlots, createServiceAccount(s) PROVE CiInv'
<1>1. PICK r : r = ciReq[s]
  OBVIOUS
<1>2. /\ ciReq[s] # CiIdle /\ r.at = "account" /\ ciMade' = ciMade
      /\ UNCHANGED <<ciRes, ciSecrets, ciBound>>
  BY <1>1, CiBusy DEF createServiceAccount, CiAt, CiFrame
<1>3. r.name \in CiNames
  BY <1>1, <1>2, CiKnows
<1>4. CASE CiGoes(s, "failBack") /\ UNCHANGED ciSa
  <2>1. PICK q : q = [ciReq[s] EXCEPT !.at = "failBack"]
    OBVIOUS
  <2>2. CiOthers(s)
    BY <1>2, <1>4 DEF CiInv, CiOthers, SecretsOf
  <2> QED
    BY <1>2, <1>4, <2>1, <2>2, CiKeepsOn, SMTT(40)
<1>5. CASE /\ ciSa' = [ciSa EXCEPT ![r.name] = {<<kind, r.id>> : kind \in r.created}]
           /\ ciReq' = [ciReq EXCEPT ![s].at = "bind", ![s].created = @ \cup {"account"}]
  <2>0. CiMakes(s, "bind", "account")
    BY <1>5 DEF CiMakes
  <2>q. PICK q : CiHasMade(s, r, q, "bind", "account")
    BY <1>1, <1>2, <2>0, CiCreates
  <2>1. /\ ciReq' = [ciReq EXCEPT ![s] = q] /\ CiFields \subseteq DOMAIN q
        /\ q.at = "bind" /\ q.created = r.created \cup {"account"}
        /\ q.name = r.name /\ q.id = r.id /\ q.alone = r.alone
    BY <2>q DEF CiHasMade
  <2>2. CiOthers(s)
    BY <1>1, <1>2, <1>5, CiAccountChange
  <2>3. ciSa'[r.name] = {<<kind, r.id>> : kind \in r.created}
    BY <1>3, <1>5 DEF CiInv
  <2>4. ASSUME q.alone PROVE CiPhase(q)'
    <3>1. "docker" \in r.created /\ "account" \notin r.created /\ SecretsOf(r.name) = CiMine(r)
      BY <1>1, <1>2, <2>1, <2>4, CiKnows DEF CiPhase
    <3>2. CiOwn(q) = r.created /\ CiOwn(r) = r.created
      BY <2>1, <3>1 DEF CiOwn
    <3>3. CiMine(q) = CiMine(r) /\ ciSa'[q.name] = CiNamed(q)
      BY <2>1, <2>3, <3>2, SMTT(40) DEF CiMine, CiNamed
    <3>4. SecretsOf(q.name)' = CiMine(q)
      BY <1>2, <2>1, <3>1, <3>3 DEF SecretsOf
    <3> QED
      BY <2>1, <3>1, <3>3, <3>4 DEF CiPhase
  <2> QED
    BY <1>1, <1>2, <2>1, <2>2, <2>4, CiKeeps
<1> QED
  BY <1>1, <1>4, <1>5, SMTT(40) DEF createServiceAccount

(* What a request keeps when it notes something, and when it forgets it. *)
LEMMA CiNotes ==
  ASSUME NEW r, NEW field, NEW value, CiFields \subseteq DOMAIN r, field \notin CiFields
  PROVE  /\ CiFields \subseteq DOMAIN Noting(r, field, value)
         /\ \A f \in CiFields : Noting(r, field, value)[f] = r[f]
  BY DEF Noting

(* A request that forgets what it has read keeps the other fields. *)
LEMMA CiForgets ==
  ASSUME NEW r, CiFields \subseteq DOMAIN r
  PROVE  /\ CiFields \subseteq DOMAIN Forgot(r)
         /\ \A f \in CiFields : Forgot(r)[f] = r[f]
  BY DEF Forgot, CiFields

(* getBinding. *)
LEMMA CiReadsBinding == ASSUME CiInv, NEW s \in CiSlots, getBinding(s) PROVE CiInv'
<1>1. PICK r : r = ciReq[s]
  OBVIOUS
<1>2. PICK q : q = Noting(r, "read", ciBound)
  OBVIOUS
<1>3. /\ ciReq[s] # CiIdle /\ ciMade' = ciMade /\ CiOthers(s) /\ UNCHANGED <<ciSecrets, ciSa, ciBound>>
      /\ ciReq' = [ciReq EXCEPT ![s] = q]
  BY <1>1, <1>2, CiBusy, CiSame DEF getBinding, CiFrame, ciObjs
<1>4. CiFields \subseteq DOMAIN r /\ (r.alone => CiPhase(r))
  BY <1>1, <1>3, CiKnows
<1>5. CiFields \subseteq DOMAIN q /\ \A f \in CiFields : q[f] = r[f]
  BY <1>2, <1>4, CiNotes, SMTT(40) DEF CiFields
<1>6. q.at = r.at /\ q.name = r.name /\ q.id = r.id /\ q.created = r.created /\ q.alone = r.alone
  BY <1>5 DEF CiFields
<1>7. ASSUME q.alone PROVE CiPhase(q)'
  <2>1. CiPhase(r)
    BY <1>4, <1>6, <1>7
  <2>2. CiMine(q) = CiMine(r) /\ CiNamed(q) = CiNamed(r)
    BY <1>6 DEF CiMine, CiNamed, CiOwn
  <2> QED
    BY <1>3, <1>6, <2>1, <2>2 DEF CiPhase, SecretsOf
<1> QED
  BY <1>1, <1>3, <1>5, <1>6, <1>7, CiKeeps

(* The request goes on from the binding. *)
CiLeaves(s, r, label) == ciReq' = [ciReq EXCEPT ![s] = [Forgot(r) EXCEPT !.at = label]]

(* A request leaves a step; the binding may have gained its account. *)
LEMMA CiLeavesBinding ==
  ASSUME CiInv, NEW s \in CiSlots, ciReq[s] # CiIdle, NEW r, r = ciReq[s], NEW label, CiLeaves(s, r, label),
         ciMade' = ciMade, CiOthers(s),
         \/ label \notin {"create", "git", "docker", "account", "bind", "resource"}
         \/ /\ label = "resource" /\ r.at = "bind" /\ r.name \in ciBound'
            /\ UNCHANGED <<ciSecrets, ciSa>>
  PROVE  CiInv'
<1>1. CiFields \subseteq DOMAIN r /\ (r.alone => CiPhase(r))
  BY CiKnows
<1>2. PICK p : p = Forgot(r)
  OBVIOUS
<1>3. PICK q : q = [p EXCEPT !.at = label]
  OBVIOUS
<1>4. CiFields \subseteq DOMAIN p /\ \A f \in CiFields : p[f] = r[f]
  BY <1>1, <1>2, CiForgets
<1>5. CiFields \subseteq DOMAIN q /\ q.at = label /\ \A f \in CiFields \ {"at"} : q[f] = p[f]
  BY <1>3, <1>4, CiRelabel
<1>6. q.name = r.name /\ q.id = r.id /\ q.created = r.created /\ q.alone = r.alone
  BY <1>4, <1>5 DEF CiFields
<1>7. ciReq' = [ciReq EXCEPT ![s] = q]
  BY <1>2, <1>3 DEF CiLeaves
<1>8. ASSUME q.alone PROVE CiPhase(q)'
  <2>1. CiPhase(r)
    BY <1>1, <1>6, <1>8
  <2>2. CiMine(q) = CiMine(r) /\ CiNamed(q) = CiNamed(r)
    BY <1>6 DEF CiMine, CiNamed, CiOwn
  <2> QED
    BY <1>5, <1>6, <2>1, <2>2 DEF CiPhase, SecretsOf
<1> QED
  BY <1>5, <1>6, <1>7, <1>8, CiKeeps

(* updateBinding: only the binding that was read is written, with one      *)
(* subject more or less.                                                   *)
LEMMA CiWritesBinding == ASSUME CiInv, NEW s \in CiSlots, updateBinding(s) PROVE CiInv'
<1>1. PICK r : r = ciReq[s]
  OBVIOUS
<1>2. /\ r.at \in {"bind", "unbind", "unbindFailBack"} /\ ciMade' = ciMade
      /\ UNCHANGED <<ciRes, ciSecrets, ciSa>>
  BY <1>1 DEF updateBinding, WritesBinding, CiFrame
<1>3. ciReq[s] # CiIdle
  BY <1>1, <1>2, CiBusy
<1>4. CASE /\ r.read = ciBound /\ ciBound' = Subjects(r)
           /\ \/ r.at = "bind" /\ CiLeaves(s, r, "resource")
              \/ r.at = "unbind" /\ CiLeaves(s, r, "dropAccount")
              \/ r.at = "unbindFailBack" /\ CiEnds(s)
  <2>1. CiOthers(s)
    BY <1>1, <1>2, <1>4 DEF CiInv, CiOthers, SecretsOf, Subjects
  <2>2. r.at = "bind" => r.name \in ciBound'
    BY <1>4 DEF Subjects
  <2> QED
    BY <1>1, <1>2, <1>3, <1>4, <2>1, <2>2, CiKeepsEnd, CiLeavesBinding
<1>5. CASE UNCHANGED ciBound /\ (CiLeaves(s, r, "failBack") \/ CiEnds(s))
  <2>1. CiOthers(s)
    BY <1>2, <1>5 DEF CiInv, CiOthers, SecretsOf
  <2> QED
    BY <1>1, <1>2, <1>3, <1>5, <2>1, CiKeepsEnd, CiLeavesBinding
<1> QED
  BY <1>1, <1>2, <1>4, <1>5 DEF updateBinding, WritesBinding, CiLeaves

(* A step that ends the request, or takes it to a label that no creation has. *)
LEMMA CiMovesOn ==
  ASSUME CiInv, NEW s \in CiSlots, ciReq[s] # CiIdle, ciMade' = ciMade, CiOthers(s),
         \/ CiEnds(s)
         \/ \E label : /\ CiGoes(s, label)
                       /\ label \notin {"create", "git", "docker", "account", "bind", "resource"}
  PROVE  CiInv'
<1>1. ASSUME NEW label, CiGoes(s, label), label \notin {"create", "git", "docker", "account", "bind", "resource"}
      PROVE  CiInv'
  <2>1. PICK q : q = [ciReq[s] EXCEPT !.at = label]
    OBVIOUS
  <2> QED
    BY <1>1, <2>1, CiKeepsOn
<1> QED
  BY <1>1, CiKeepsEnd

(* createResource: a creation that was alone has made a complete workflow. *)
LEMMA CiMakesResource == ASSUME CiInv, NEW s \in CiSlots, createResource(s) PROVE CiInv'
<1>1. PICK r : r = ciReq[s]
  OBVIOUS
<1>2. ciReq[s] # CiIdle /\ r.at = "resource" /\ UNCHANGED <<ciSecrets, ciSa, ciBound>>
  BY <1>1, CiBusy DEF createResource, CiAt
<1>3. CASE CiGoes(s, "failBack") /\ UNCHANGED <<ciRes, ciMade>>
  <2>1. CiOthers(s)
    BY <1>2, <1>3 DEF CiInv, CiOthers, SecretsOf
  <2> QED
    BY <1>2, <1>3, <2>1, CiMovesOn, SMTT(40)
<1>4. CASE /\ ciRes' = [ciRes EXCEPT ![r.name] = Res(r.git, TRUE, 0)]
           /\ ciMade' = (IF r.alone THEN ciMade \cup {r.name} ELSE ciMade)
           /\ CiEnds(s)
  <2>1. CiOthers(s)
    BY <1>1, <1>2, <1>4, CiResourceChange
  <2>2. CASE ~r.alone
    BY <1>2, <1>4, <2>1, <2>2, CiMovesOn
  <2>3. CASE r.alone
    <3>1. /\ r.name \in CiNames /\ CiPhase(r)
          /\ \A t \in CiSlots \ {s} : ciReq[t] # CiIdle => ciReq[t].name # r.name
      BY <1>1, <1>2, <2>3 DEF CiInv, CiReqOK
    <3>2. CiIsWhole(r.name)'
      <4>1. ciRes'[r.name] # CiNone
        BY <1>4, <3>1 DEF CiInv, Res, CiNone
      <4>2. /\ "docker" \in CiOwn(r) /\ SecretsOf(r.name) = CiMine(r) /\ ciSa[r.name] = CiNamed(r)
            /\ r.name \in ciBound
        BY <1>2, <3>1 DEF CiPhase, CiOwn
      <4>3. CiNamed(r) = {<<x.kind, x.id>> : x \in CiMine(r)}
        <5>1. ASSUME NEW kind \in CiOwn(r) PROVE <<kind, r.id>> \in {<<x.kind, x.id>> : x \in CiMine(r)}
          <6>1. PICK x : x = Secret(r.name, kind, r.id)
            OBVIOUS
          <6>2. x \in CiMine(r) /\ x.kind = kind /\ x.id = r.id
            BY <5>1, <6>1, CiSecretFields, SMTT(40) DEF CiMine
          <6> QED
            BY <6>2
        <5>2. ASSUME NEW x \in CiMine(r) PROVE <<x.kind, x.id>> \in CiNamed(r)
          <6>1. PICK kind \in CiOwn(r) : x = Secret(r.name, kind, r.id)
            BY <5>2 DEF CiMine
          <6>2. x.kind = kind /\ x.id = r.id
            BY <6>1, CiSecretFields, SMTT(40)
          <6> QED
            BY <6>2 DEF CiNamed
        <5> QED
          BY <5>1, <5>2 DEF CiNamed
      <4>4. \E x \in CiMine(r) : x.kind = "docker"
        <5>1. Secret(r.name, "docker", r.id) \in CiMine(r)
          BY <4>2 DEF CiMine
        <5> QED
          BY <5>1, CiSecretFields, SMTT(40)
      <4>5. SecretsOf(r.name)' = CiMine(r)
        BY <1>2, <4>2 DEF SecretsOf
      <4> QED
        BY <1>2, <4>1, <4>2, <4>3, <4>4, <4>5 DEF CiIsWhole
    <3>3. ciReq'[s] = CiIdle /\ \A t \in CiSlots \ {s} : ciReq'[t] = ciReq[t]
      BY <1>4 DEF CiEnds, CiInv
    <3>4. ciReq' = [t \in CiSlots |-> ciReq'[t]]
      BY <1>4 DEF CiEnds, CiInv
    <3>5. ASSUME NEW n \in ciMade PROVE CiIsWhole(n)'
      <4>1. n \in CiNames /\ n # ciReq[s].name /\ CiIsWhole(n)
        BY <1>2 DEF CiInv, CiReqOK
      <4>2. /\ SecretsOf(n)' = SecretsOf(n) /\ ciSa'[n] = ciSa[n] /\ ciRes'[n] = ciRes[n]
            /\ n \in ciBound' <=> n \in ciBound
        BY <2>1, <4>1 DEF CiOthers
      <4> QED
        BY <4>1, <4>2 DEF CiIsWhole
    <3>6. ASSUME NEW t \in CiSlots PROVE CiReqOK(t)'
      <4>1. CASE t = s
        BY <3>3, <4>1 DEF CiReqOK
      <4>2. CASE t # s /\ ciReq[t] # CiIdle
        <5>1. /\ ciReq'[t] = ciReq[t] /\ CiFields \subseteq DOMAIN ciReq[t]
              /\ ciReq[t].name \in CiNames \ ciMade'
          BY <1>4, <2>3, <3>1, <3>3, <4>2 DEF CiInv, CiReqOK
        <5>2. ASSUME ciReq[t].alone PROVE CiPhase(ciReq[t])'
          <6> PICK p : p = ciReq[t]
            OBVIOUS
          <6>1. CiPhase(p)
            BY <4>2, <5>2 DEF CiInv, CiReqOK
          <6>2. CiPhase(p)'
            BY <1>2, <6>1 DEF CiPhase, SecretsOf
          <6> QED
            BY <5>1, <6>2
        <5>3. ASSUME ciReq[t].alone, NEW u \in CiSlots \ {t}, ciReq'[u] # CiIdle
              PROVE  ciReq'[u].name # ciReq[t].name
          BY <3>3, <4>2, <5>3 DEF CiInv, CiReqOK
        <5> QED
          BY <5>1, <5>2, <5>3 DEF CiReqOK
      <4>3. CASE t # s /\ ciReq[t] = CiIdle
        BY <3>3, <4>3 DEF CiReqOK
      <4> QED
        BY <4>1, <4>2, <4>3
    <3>7. ciMade' = ciMade \cup {r.name}
      BY <1>4, <2>3
    <3> QED
      BY <2>1, <3>1, <3>2, <3>4, <3>5, <3>6, <3>7 DEF CiInv, CiOthers
  <2> QED
    BY <2>2, <2>3
<1> QED
  BY <1>1, <1>3, <1>4 DEF createResource

(* workFlowCreateFailBack takes away what the request made. *)
LEMMA CiFailsBack == ASSUME CiInv, NEW s \in CiSlots, workFlowCreateFailBack(s) PROVE CiInv'
<1>1. PICK r : r = ciReq[s]
  OBVIOUS
<1>2. PICK gone \in SUBSET r.created :
        /\ ciSecrets' = {x \in ciSecrets : ~(x.wf = r.name /\ x.id = r.id /\ x.kind \in gone)}
        /\ ciSa' = IF "account" \in gone THEN [ciSa EXCEPT ![r.name] = {}] ELSE ciSa
  BY <1>1 DEF workFlowCreateFailBack
<1>3. /\ ciReq[s] # CiIdle /\ ciMade' = ciMade /\ CiGoes(s, "unbindFailBack") /\ UNCHANGED <<ciRes, ciBound>>
  BY CiBusy DEF workFlowCreateFailBack, CiAt, CiFrame
<1>4. \A x : x.wf # ciReq[s].name => (x \in ciSecrets' <=> x \in ciSecrets)
  BY <1>1, <1>2
<1>5. CiOthers(s)
  BY <1>1, <1>2, <1>3, <1>4, CiAccountChange
<1> QED
  BY <1>3, <1>5, CiMovesOn, SMTT(40)

(* The steps of an update. *)
LEMMA CiUpdating ==
  ASSUME CiInv, NEW s \in CiSlots,
         updateWorkFlow(s) \/ updateWorkFlowSecrets(s) \/ updateAccount(s) \/ updateGitPipelineResource(s)
  PROVE  CiInv'
<1>1. CASE updateWorkFlow(s)
  <2>1. ciReq[s] # CiIdle /\ ciMade' = ciMade /\ CiOthers(s)
    BY <1>1, CiBusy, CiSame DEF updateWorkFlow, CiAt, CiFrame
  <2> QED
    BY <1>1, <2>1, CiMovesOn, SMTT(40) DEF updateWorkFlow
<1>2. CASE updateWorkFlowSecrets(s)
  <2>1. PICK r : r = ciReq[s]
    OBVIOUS
  <2>2. ciReq[s] # CiIdle /\ ciMade' = ciMade /\ UNCHANGED <<ciRes, ciSa, ciBound>>
    BY <1>2, CiBusy DEF updateWorkFlowSecrets, CiAt, CiFrame
  <2>3. CASE UNCHANGED ciSecrets /\ (CiEnds(s) \/ CiGoes(s, "updateResource"))
    <3>1. CiOthers(s)
      BY <2>2, <2>3 DEF CiInv, CiOthers, SecretsOf
    <3> QED
      BY <2>2, <2>3, <3>1, CiMovesOn, SMTT(40)
  <2>4. CASE ciSecrets' = ciSecrets \cup {Secret(r.name, "git", r.id)} /\ CiGoes(s, "joinAccount")
    <3>1. \A x : x.wf # ciReq[s].name => (x \in ciSecrets' <=> x \in ciSecrets)
      BY <2>1, <2>4, CiOneMore
    <3>2. CiOthers(s)
      BY <2>2, <3>1, CiSecretsChange
    <3> QED
      BY <2>2, <2>4, <3>2, CiMovesOn, SMTT(40)
  <2>5. ASSUME NEW g \in SecretsOf(r.name) \cup {Secret(r.name, "none", 0)}, ciSecrets' = ciSecrets \ {g},
               ciReq' = [ciReq EXCEPT ![s].at = "leaveAccount", ![s].id = g.id]
        PROVE  CiInv'
    <3>1. g.wf = r.name
      BY CiSecretFields, SMTT(40) DEF SecretsOf
    <3>2. \A x : x.wf # ciReq[s].name => (x \in ciSecrets' <=> x \in ciSecrets)
      BY <2>1, <2>5, <3>1
    <3>3. CiOthers(s)
      BY <2>2, <3>2, CiSecretsChange
    <3>4. CiFields \subseteq DOMAIN r
      BY <2>1, <2>2, CiKnows
    <3>5. PICK q : q = [r EXCEPT !.at = "leaveAccount", !.id = g.id]
      OBVIOUS
    <3>6. CiFields \subseteq DOMAIN q /\ q.at = "leaveAccount" /\ q.name = r.name /\ q.alone = r.alone
      BY <3>4, <3>5 DEF CiFields
    <3>7. CiPhase(q)'
      BY <3>6 DEF CiPhase
    <3>8. ciReq' = [ciReq EXCEPT ![s] = q]
      BY <2>1, <2>5, <3>5 DEF CiInv
    <3> QED
      BY <2>1, <2>2, <3>3, <3>6, <3>7, <3>8, CiKeeps
  <2> QED
    BY <1>2, <2>1, <2>3, <2>4, <2>5 DEF updateWorkFlowSecrets
<1>3. CASE updateAccount(s)
  <2>1. ciReq[s] # CiIdle /\ ciMade' = ciMade /\ UNCHANGED <<ciRes, ciSecrets, ciBound>>
    BY <1>3, CiBusy DEF updateAccount, CiAt, CiFrame
  <2>2. \/ CiGoes(s, "updateResource") /\ \E v : ciSa' = [ciSa EXCEPT ![ciReq[s].name] = v]
        \/ CiEnds(s) /\ UNCHANGED ciSa
    BY <1>3 DEF updateAccount
  <2>3. CiOthers(s)
    BY <2>1, <2>2, CiAccountChange
  <2> QED
    BY <2>1, <2>2, <2>3, CiMovesOn, SMTT(40)
<1>4. CASE updateGitPipelineResource(s)
  <2>1. /\ ciReq[s] # CiIdle /\ ciMade' = ciMade /\ UNCHANGED <<ciSecrets, ciSa, ciBound>> /\ CiEnds(s)
        /\ (\E v : ciRes' = [ciRes EXCEPT ![ciReq[s].name] = v]) \/ UNCHANGED ciRes
    BY <1>4, CiBusy DEF updateGitPipelineResource, CiAt, CiFrame
  <2>2. CiOthers(s)
    BY <2>1, CiResourceChange
  <2> QED
    BY <2>1, <2>2, CiMovesOn
<1> QED
  BY <1>1, <1>2, <1>3, <1>4

(* The steps of a deletion. *)
LEMMA CiDeleting ==
  ASSUME CiInv, NEW s \in CiSlots,
         \/ forgetLatest(s) \/ deletePipelineRunsByWorkFlowName(s) \/ deletePipelineResource(s)
         \/ deleteServiceAccount(s) \/ deleteWorkFlowSecrets(s) \/ deleteWorkFlowDeploymentAndPVCs(s)
  PROVE  CiInv'
<1>1. CASE forgetLatest(s) \/ deletePipelineResource(s)
  <2>1. /\ ciReq[s] # CiIdle /\ ciMade' = ciMade /\ UNCHANGED <<ciSecrets, ciSa, ciBound>>
        /\ CiEnds(s) \/ CiGoes(s, "deleteRuns") \/ CiGoes(s, "unbind")
    BY <1>1, CiBusy DEF forgetLatest, deletePipelineResource, CiAt, CiFrame
  <2>2. (\E v : ciRes' = [ciRes EXCEPT ![ciReq[s].name] = v]) \/ UNCHANGED ciRes
    BY <1>1 DEF forgetLatest, deletePipelineResource
  <2>3. CiOthers(s)
    BY <2>1, <2>2, CiResourceChange
  <2> QED
    BY <2>1, <2>3, CiMovesOn, SMTT(40)
<1>2. CASE deletePipelineRunsByWorkFlowName(s) \/ deleteWorkFlowDeploymentAndPVCs(s)
  <2>1. /\ ciReq[s] # CiIdle /\ ciMade' = ciMade /\ UNCHANGED <<ciRes, ciSecrets, ciSa, ciBound>>
        /\ CiEnds(s) \/ CiGoes(s, "dropResource")
    BY <1>2, CiBusy DEF deletePipelineRunsByWorkFlowName, deleteWorkFlowDeploymentAndPVCs, CiAt, CiFrame
  <2>2. CiOthers(s)
    BY <2>1 DEF CiInv, CiOthers, SecretsOf
  <2> QED
    BY <2>1, <2>2, CiMovesOn, SMTT(40)
<1>3. CASE deleteServiceAccount(s)
  <2>1. /\ ciReq[s] # CiIdle /\ ciMade' = ciMade /\ UNCHANGED <<ciRes, ciSecrets, ciBound>>
        /\ CiEnds(s) \/ CiGoes(s, "dropSecrets")
        /\ ciSa' = [ciSa EXCEPT ![ciReq[s].name] = {}] \/ UNCHANGED ciSa
    BY <1>3, CiBusy DEF deleteServiceAccount, CiAt, CiFrame
  <2>2. CiOthers(s)
    BY <2>1, CiAccountChange
  <2> QED
    BY <2>1, <2>2, CiMovesOn, SMTT(40)
<1>4. CASE deleteWorkFlowSecrets(s)
  <2>1. /\ ciReq[s] # CiIdle /\ ciMade' = ciMade /\ UNCHANGED <<ciRes, ciSa, ciBound>>
        /\ CiEnds(s) \/ CiGoes(s, "dropDeployment")
        /\ \E gone \in SUBSET SecretsOf(ciReq[s].name) : ciSecrets' = ciSecrets \ gone
    BY <1>4, CiBusy DEF deleteWorkFlowSecrets, CiAt, CiFrame
  <2>2. \A x : x.wf # ciReq[s].name => (x \in ciSecrets' <=> x \in ciSecrets)
    BY <2>1 DEF SecretsOf
  <2>3. CiOthers(s)
    BY <2>1, <2>2, CiSecretsChange
  <2> QED
    BY <2>1, <2>3, CiMovesOn, SMTT(40)
<1> QED
  BY <1>1, <1>2, <1>3, <1>4

(* The steps of a task. *)
LEMMA CiRunning ==
  ASSUME CiInv, NEW s \in CiSlots,
         createWorkFlowTask(s) \/ createPipelineRun(s) \/ updateWorkFlowLastestIDAnnotation(s)
  PROVE  CiInv'
<1>1. CASE createWorkFlowTask(s)
  <2>1. ciReq[s] # CiIdle /\ ciMade' = ciMade /\ CiOthers(s)
    BY <1>1, CiBusy, CiSame DEF createWorkFlowTask, CiAt, CiFrame
  <2>2. CASE CiEnds(s)
    BY <2>1, <2>2, CiKeepsEnd
  <2>3. ASSUME NEW run, ciReq' = [ciReq EXCEPT ![s] = Noting([ciReq[s] EXCEPT !.at = "run"], "run", run)]
        PROVE  CiInv'
    <3>1. PICK r : r = ciReq[s]
      OBVIOUS
    <3>2. CiFields \subseteq DOMAIN r
      BY <2>1, <3>1, CiKnows
    <3>3. PICK p : p = [r EXCEPT !.at = "run"]
      OBVIOUS
    <3>4. CiFields \subseteq DOMAIN p /\ p.at = "run" /\ p.name = r.name /\ p.alone = r.alone
      BY <3>2, <3>3, CiRelabel DEF CiFields
    <3>5. PICK q : q = Noting(p, "run", run)
      OBVIOUS
    <3>6. CiFields \subseteq DOMAIN q /\ \A f \in CiFields : q[f] = p[f]
      BY <3>4, <3>5 DEF Noting, CiFields
    <3>7. q.at = "run" /\ q.name = r.name /\ q.alone = r.alone
      BY <3>4, <3>6 DEF CiFields
    <3>8. CiPhase(q)'
      BY <3>7 DEF CiPhase
    <3>9. ciReq' = [ciReq EXCEPT ![s] = q]
      BY <2>3, <3>1, <3>3, <3>5
    <3> QED
      BY <2>1, <3>1, <3>6, <3>7, <3>8, <3>9, CiKeeps
  <2> QED
    BY <1>1, <2>2, <2>3 DEF createWorkFlowTask
<1>2. CASE createPipelineRun(s)
  <2>1. /\ ciReq[s] # CiIdle /\ ciMade' = ciMade /\ UNCHANGED <<ciRes, ciSecrets, ciSa, ciBound>>
        /\ CiEnds(s) \/ CiGoes(s, "latest")
    BY <1>2, CiBusy DEF createPipelineRun, CiAt, CiFrame
  <2>2. CiOthers(s)
    BY <2>1 DEF CiInv, CiOthers, SecretsOf
  <2> QED
    BY <2>1, <2>2, CiMovesOn, SMTT(40)
<1>3. CASE updateWorkFlowLastestIDAnnotation(s)
  <2>1. /\ ciReq[s] # CiIdle /\ ciMade' = ciMade /\ UNCHANGED <<ciSecrets, ciSa, ciBound>> /\ CiEnds(s)
        /\ (\E v : ciRes' = [ciRes EXCEPT ![ciReq[s].name] = v]) \/ UNCHANGED ciRes
    BY <1>3, CiBusy DEF updateWorkFlowLastestIDAnnotation, CiAt, CiFrame
  <2>2. CiOthers(s)
    BY <2>1, CiResourceChange
  <2> QED
    BY <2>1, <2>2, CiMovesOn
<1> QED
  BY <1>1, <1>2, <1>3

(* The invariant is about six of the variables. *)
LEMMA CiUnchanged ==
  ASSUME CiInv, UNCHANGED <<ciRes, ciSecrets, ciSa, ciBound, ciReq, ciMade>> PROVE CiInv'
<1>1. ASSUME NEW r, CiPhase(r) PROVE CiPhase(r)'
  BY <1>1 DEF CiPhase, SecretsOf
<1>2. ASSUME NEW s \in CiSlots PROVE CiReqOK(s)'
  <2>1. PICK r : r = ciReq[s]
    OBVIOUS
  <2>2. ASSUME ciReq[s] # CiIdle, ciReq[s].alone PROVE CiPhase(ciReq[s])'
    <3>1. CiPhase(r)
      BY <2>1, <2>2 DEF CiInv, CiReqOK
    <3>2. CiPhase(r)'
      BY <1>1, <3>1
    <3> QED
      BY <2>1, <3>2
  <2> QED
    BY <2>2 DEF CiInv, CiReqOK
<1>3. ASSUME NEW n \in ciMade' PROVE CiIsWhole(n)'
  BY <1>3 DEF CiInv, CiIsWhole, SecretsOf
<1> QED
  BY <1>2, <1>3 DEF CiInv

(* Every step of a request keeps the invariant. *)
LEMMA CiStepping == ASSUME CiSetting, CiInv, NEW s \in CiSlots, CiStep(s) PROVE CiInv'
<1>1. CASE createGitSecret(s) \/ createDockerSecret(s)
  <2>1. CASE createGitSecret(s)
    BY <2>1, CiMakesSecret DEF createGitSecret, CiAt, CiFrame
  <2>2. CASE createDockerSecret(s)
    BY <2>2, CiMakesSecret DEF createDockerSecret, CiAt, CiFrame
  <2> QED
    BY <1>1, <2>1, <2>2
<1> QED
  BY <1>1, CiArriving, CiPreChecking, CiMakesAccount, CiReadsBinding, CiWritesBinding, CiMakesResource,
     CiFailsBack, CiUpdating, CiDeleting, CiRunning DEF CiStep

(* The workflows found at the start are complete. *)
LEMMA CiStarting == ASSUME CiSetting, CiInit PROVE CiInv
<1>1. PICK start \in CiStarts :
       /\ ciRes = [n \in CiNames |-> IF n \in start THEN Res(FALSE, TRUE, 0) ELSE CiNone]
       /\ ciSecrets = {Secret(n, "docker", 0) : n \in start}
       /\ ciSa = [n \in CiNames |-> IF n \in start THEN {<<"docker", 0>>} ELSE {}]
       /\ ciBound = start /\ ciMade = start /\ ciReq = [s \in CiSlots |-> CiIdle]
  BY DEF CiInit
<1>2. start \subseteq CiNames
  BY DEF CiSetting
<1>3. ASSUME NEW n \in start PROVE CiIsWhole(n)
  <2>1. ciRes[n] = Res(FALSE, TRUE, 0) /\ ciSa[n] = {<<"docker", 0>>}
    BY <1>1, <1>2
  <2>2. Res(FALSE, TRUE, 0) # CiNone
    BY DEF Res, CiNone
  <2>3. PICK x : x = Secret(n, "docker", 0)
    OBVIOUS
  <2>4. x.wf = n /\ x.kind = "docker" /\ x.id = 0 /\ x \in ciSecrets
    BY <1>1, <2>3, CiSecretFields, SMTT(40)
  <2>5. ASSUME NEW y \in ciSecrets, y.wf = n PROVE y = x
    <3>1. PICK m \in start : y = Secret(m, "docker", 0)
      BY <1>1, <2>5
    <3> QED
      BY <2>3, <2>5, <3>1, CiSecretFields, SMTT(40)
  <2>6. SecretsOf(n) = {x}
    BY <2>4, <2>5 DEF SecretsOf
  <2> QED
    BY <1>1, <2>1, <2>2, <2>4, <2>6 DEF CiIsWhole
<1> QED
  BY <1>1, <1>2, <1>3 DEF CiInv, CiReqOK

(***************************************************************************)
(* A workflow that was created, and that no request has been about since,  *)
(* is complete: whatever requests for other workflows do at the same time, *)
(* addWorkFlowSaToCRB never loses its account from the binding they share, *)
(* and workFlowCreateFailBack and deleteWorkFlow take away only what bears *)
(* the name they are about.  For any names, requests at once, number of    *)
(* requests and changes by Tekton.                                         *)
(***************************************************************************)
THEOREM WorkflowsAreComplete == CiSpec => []CiComplete
<1>1. CiInit => CiInv
  BY CiStarting, CiAssumption
<1>2. CiInv /\ [CiNext]_ciVars => CiInv'
  <2>1. ASSUME CiInv, CiNext PROVE CiInv'
    <3>1. CASE Tekton
      <4>1. UNCHANGED <<ciRes, ciSecrets, ciSa, ciBound, ciReq, ciMade>>
        BY <3>1 DEF Tekton
      <4> QED
        BY <2>1, <4>1, CiUnchanged
    <3> QED
      BY <2>1, <3>1, CiStepping, CiAssumption DEF CiNext
  <2>2. ASSUME CiInv, UNCHANGED ciVars PROVE CiInv'
    BY <2>2, CiUnchanged DEF ciVars
  <2> QED
    BY <2>1, <2>2
<1> QED
  BY <1>1, <1>2, CiInvImplies, PTL DEF CiSpec
=============================================================================
