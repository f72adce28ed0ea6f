-------------------------- MODULE ServerStateProofs -------------------------
(***************************************************************************)
(* Proofs about what the server keeps itself: user quotas and the audit    *)
(* log in its database, charts on its disk, for any number of requests,    *)
(* users, namespaces, charts and failing calls.  The components share no   *)
(* state; each has a section of its own.                                   *)
(***************************************************************************)
EXTENDS Tenancy, Charts, TLAPS

(* A leaf is for Zenon unless it cites another prover. *)
USE ZenonT(40)

-----------------------------------------------------------------------------
(***************************************************************************)
(* Quotas and the audit log.  The transaction that an approval or a        *)
(* deletion keeps open over its calls to the cluster is held by one        *)
(* request, and while it is, the quota it has read is the quota there is;  *)
(* what the approval has set in the cluster stays unless another request   *)
(* touches the namespace.  The lock of the audit log is held by one        *)
(* request between dropping the oldest entry and adding the new one; the   *)
(* entries are an interval between the first and the current number, each  *)
(* off by at most one when a commit has failed and taken effect.           *)
(***************************************************************************)

TnAsking == {"authorize", "audit", "log", "handle"}
TnGranting == {"namespace", "limit", "relimit", "commit"}
TnHolding == TnGranting \cup {"unnamespace", "forget"}

(* What a request is to the transaction, the quota, the cluster and the log. *)
TnReqOK(s, r) ==
    /\ "at" \in DOMAIN r
    /\ r.at \in TnAsking =>
         /\ "op" \in DOMAIN r
         /\ r.op = "approval" => /\ "ns" \in DOMAIN r /\ "cluster" \in DOMAIN r
                                 /\ r.ns \in TnNamespaces /\ r.cluster \in TnClusters
    /\ r.at \in TnHolding => tnTx = s
    /\ r.at \in TnGranting =>
         /\ "ns" \in DOMAIN r /\ "cluster" \in DOMAIN r /\ "quota" \in DOMAIN r
         /\ r.ns \in TnNamespaces /\ r.cluster \in TnClusters
         /\ r.quota = tnQuota[r.ns] /\ tnQuota[r.ns].status = "processing"
    /\ r.at = "commit" => (<<r.cluster, r.ns>> \in tnTouched \/ tnNs[r.cluster][r.ns] = r.quota.storage)
    /\ r.at = "log" => tnLog.lock = s

TnQuotaOK(q) == q.status = "processing" => DOMAIN q = {"status", "user", "storage", "cluster"}

TnTables ==
    /\ DOMAIN tnReq = TnSlots /\ DOMAIN tnQuota = TnNamespaces
    /\ DOMAIN tnNs = TnClusters /\ \A c \in TnClusters : DOMAIN tnNs[c] = TnNamespaces
    /\ \A n \in TnNamespaces : TnQuotaOK(tnQuota[n])

(* The saved entries, and why there is always room for the next. *)
TnLogFits(log) ==
    /\ DOMAIN log = {"saved", "first", "current", "lock"}
    /\ log.first \in Nat /\ log.current \in Nat /\ log.first <= log.current
    /\ \E lo \in {log.first, log.first + 1}, hi \in {log.current, log.current + 1} : log.saved = lo .. hi
    /\ log.current - log.first <= TnMaxLogs - 1
    /\ (log.lock # NoSlot \/ log.current + 1 \in log.saved) => log.current - log.first <= TnMaxLogs - 2

TnInv ==
    /\ TnTables
    /\ \A s \in TnSlots : TnReqOK(s, tnReq[s])
    /\ TnLogFits(tnLog)

(* A step keeps the invariant and does what TnAsAsked says. *)
TnGood == TnInv' /\ TnAsAsked

(* The invariant says that the log is kept. *)
LEMMA TnInvImplies == ASSUME TnSetting PROVE TnInv => TnLogKept
<1> SUFFICES ASSUME TnInv PROVE TnLogKept
  OBVIOUS
<1> DEFINE f == tnLog.first
           c == tnLog.current
<1>1. /\ f \in Nat /\ c \in Nat /\ f <= c /\ TnMaxLogs \in Nat
      /\ c - f <= TnMaxLogs - 1 /\ (c + 1 \in tnLog.saved => c - f <= TnMaxLogs - 2)
  BY DEF TnInv, TnLogFits, TnSetting
<1>2. PICK lo \in {f, f + 1}, hi \in {c, c + 1} : tnLog.saved = lo .. hi
  BY DEF TnInv, TnLogFits
<1> HIDE DEF f, c
<1>3. lo \in Nat /\ hi \in Nat /\ hi - lo + 1 <= TnMaxLogs
  BY <1>1, <1>2, SMTT(40)
<1>5. \A i, j \in tnLog.saved : j - i < TnMaxLogs
  BY <1>1, <1>2, <1>3, SMTT(40)
<1>6. \A i, j \in tnLog.saved : \A k \in i .. j : k \in tnLog.saved
  BY <1>2, <1>3, SMTT(40)
<1>7. tnLog.saved # {} => hi \in tnLog.saved /\ hi >= c
  BY <1>1, <1>2, <1>3, SMTT(40)
<1>8. \A i \in tnLog.saved : i \in f .. c + 1
  BY <1>1, <1>2, <1>3, SMTT(40)
<1> QED
  BY <1>5, <1>6, <1>7, <1>8 DEF TnLogKept, f, c

(* The fields of a joined record, and of one whose label changes. *)
LEMMA TnJoined ==
  ASSUME NEW f, NEW g
  PROVE  /\ DOMAIN Joined(f, g) = DOMAIN f \cup DOMAIN g
         /\ \A x \in DOMAIN f : Joined(f, g)[x] = f[x]
         /\ \A x \in DOMAIN g : x \notin DOMAIN f => Joined(f, g)[x] = g[x]
  BY DEF Joined

(* A record whose label changes keeps its other fields. *)
LEMMA TnRelabelled ==
  ASSUME NEW r, "at" \in DOMAIN r, NEW label
  PROVE  LET n == [r EXCEPT !.at = label] IN
         /\ DOMAIN n = DOMAIN r /\ n.at = label
         /\ "op" \in DOMAIN r => n.op = r.op
         /\ "ns" \in DOMAIN r => n.ns = r.ns
         /\ "cluster" \in DOMAIN r => n.cluster = r.cluster
         /\ "quota" \in DOMAIN r => n.quota = r.quota
  OBVIOUS

(* A request that holds nothing. *)
TnFree(r) ==
    /\ "at" \in DOMAIN r /\ r.at \notin TnHolding \cup {"log"}
    /\ r.at \in TnAsking =>
         /\ "op" \in DOMAIN r
         /\ r.op = "approval" => /\ "ns" \in DOMAIN r /\ "cluster" \in DOMAIN r
                                 /\ r.ns \in TnNamespaces /\ r.cluster \in TnClusters

(* A slot without a request holds nothing. *)
LEMMA TnIdleIsFree == TnFree(TnIdle)
  BY DEF TnFree, TnIdle, TnHolding, TnGranting, TnAsking

(* Who holds nothing meets the invariant before and after any step. *)
LEMMA TnFreeIsOK == ASSUME NEW s, NEW r, TnFree(r) PROVE TnReqOK(s, r) /\ TnReqOK(s, r)'
  BY DEF TnFree, TnReqOK, TnHolding, TnGranting, TnAsking

(* A request that passes on keeps what it asks for. *)
LEMMA TnPassesOn ==
  ASSUME TnInv, NEW s \in TnSlots, NEW label, tnReq[s].at \in TnAsking, label \notin TnHolding \cup {"log"}
  PROVE  TnFree([tnReq[s] EXCEPT !.at = label])
<1> DEFINE r == tnReq[s]
           n == [r EXCEPT !.at = label]
<1>1. TnReqOK(s, r)
  BY DEF TnInv
<1>2. "at" \in DOMAIN r
  BY <1>1 DEF TnReqOK
<1>3. /\ DOMAIN n = DOMAIN r /\ n.at = label
      /\ "op" \in DOMAIN r => n.op = r.op
      /\ "ns" \in DOMAIN r => n.ns = r.ns
      /\ "cluster" \in DOMAIN r => n.cluster = r.cluster
  BY <1>2, TnRelabelled
<1> HIDE DEF n
<1>4. TnFree(n)
  BY <1>1, <1>2, <1>3 DEF TnReqOK, TnFree
<1> QED
  BY <1>4 DEF n

(* Steps that change neither the quotas, the clusters, the log nor the     *)
(* transaction.                                                            *)
LEMMA TnQuiet ==
  ASSUME TnInv, NEW s \in TnSlots, NEW r, tnReq' = [tnReq EXCEPT ![s] = r], TnFree(r),
         UNCHANGED <<tnQuota, tnNs, tnTouched, tnLog, tnTx>>
  PROVE  TnGood
<1>1. DOMAIN tnReq' = TnSlots /\ tnReq'[s] = r /\ \A u \in TnSlots : u # s => tnReq'[u] = tnReq[u]
  BY DEF TnInv, TnTables
<1>2. ASSUME NEW u \in TnSlots PROVE TnReqOK(u, tnReq[u])'
  <2>1. CASE u = s
    BY <1>1, <2>1, TnFreeIsOK, SMTT(40) DEF TnReqOK
  <2>2. CASE u # s
    BY <1>1, <2>2 DEF TnInv, TnReqOK
  <2> QED
    BY <2>1, <2>2
<1>3. TnTables'
  BY <1>1 DEF TnInv, TnTables, TnQuotaOK
<1>4. TnAsAsked
  BY DEF TnAsAsked
<1> QED
  BY <1>2, <1>3, <1>4 DEF TnGood, TnInv

(* Steps of the request that has, or could have, the transaction. *)
LEMMA TnAlone ==
  ASSUME TnSetting, TnInv, NEW s \in TnSlots, tnTx \in {s, NoSlot}, UNCHANGED tnLog,
         NEW r, tnReq' = [tnReq EXCEPT ![s] = r], TnReqOK(s, r)', TnTables'
  PROVE  TnInv'
<1>1. tnReq'[s] = r /\ \A u \in TnSlots : u # s => tnReq'[u] = tnReq[u]
  BY DEF TnInv, TnTables
<1>2. ASSUME NEW u \in TnSlots PROVE TnReqOK(u, tnReq[u])'
  <2>1. CASE u = s
    BY <1>1, <2>1 DEF TnReqOK
  <2>2. CASE u # s
    <3>1. TnReqOK(u, tnReq[u])
      BY DEF TnInv
    <3>2. tnReq[u].at \notin TnHolding
      BY <2>2, <3>1 DEF TnReqOK, TnSetting
    <3> QED
      BY <1>1, <2>2, <3>1, <3>2 DEF TnReqOK, TnHolding, TnGranting
  <2> QED
    BY <2>1, <2>2
<1> QED
  BY <1>2 DEF TnInv

(* A request touches a namespace on its own account. *)
LEMMA TnTouches ==
  ASSUME TnInv, NEW s \in TnSlots, NEW r, tnReq' = [tnReq EXCEPT ![s] = r], TnFree(r),
         NEW c, NEW n, NEW limit, SetNs(c, n, limit) \/ UNCHANGED tnNs, tnTouched' = tnTouched \cup {<<c, n>>},
         UNCHANGED <<tnQuota, tnLog, tnTx>>
  PROVE  TnGood
<1>1. DOMAIN tnReq' = TnSlots /\ tnReq'[s] = r /\ \A u \in TnSlots : u # s => tnReq'[u] = tnReq[u]
  BY DEF TnInv, TnTables
<1>2. /\ DOMAIN tnNs' = TnClusters /\ \A d \in TnClusters : DOMAIN tnNs'[d] = TnNamespaces
      /\ \A d \in TnClusters, m \in TnNamespaces : <<d, m>> # <<c, n>> => tnNs'[d][m] = tnNs[d][m]
  BY SMTT(40) DEF TnInv, TnTables, SetNs
<1>3. ASSUME NEW u \in TnSlots PROVE TnReqOK(u, tnReq[u])'
  <2>1. CASE u = s
    BY <1>1, <2>1, TnFreeIsOK, SMTT(40) DEF TnReqOK
  <2>2. CASE u # s
    <3>1. TnReqOK(u, tnReq[u]) /\ tnReq'[u] = tnReq[u]
      BY <1>1, <2>2 DEF TnInv
    <3>2. tnReq[u].at = "commit" => (<<tnReq[u].cluster, tnReq[u].ns>> \in tnTouched' \/ tnNs'[tnReq[u].cluster][tnReq[u].ns] = tnReq[u].quota.storage)
      BY <1>2, <3>1 DEF TnReqOK, TnGranting
    <3> QED
      BY <3>1, <3>2 DEF TnReqOK
  <2> QED
    BY <2>1, <2>2
<1>4. TnTables'
  BY <1>1, <1>2 DEF TnInv, TnTables, TnQuotaOK
<1>5. TnAsAsked
  BY DEF TnAsAsked
<1> QED
  BY <1>3, <1>4, <1>5 DEF TnGood, TnInv

(* A request ends and leaves quotas, clusters and log alone. *)
LEMMA TnEnds ==
  ASSUME TnInv, NEW s \in TnSlots, Ends(s), UNCHANGED <<tnQuota, tnNs, tnTouched, tnLog, tnTx>>
  PROVE  TnGood
  BY TnQuiet, TnIdleIsFree DEF Ends

(* A request passes on and leaves quotas, clusters and log alone. *)
LEMMA TnGoes ==
  ASSUME TnInv, NEW s \in TnSlots, NEW label, GoesTo(s, label), UNCHANGED <<tnQuota, tnNs, tnTouched, tnLog, tnTx>>,
         tnReq[s].at \in TnAsking, label \notin TnHolding \cup {"log"}
  PROVE  TnGood
<1>1. tnReq' = [tnReq EXCEPT ![s] = [tnReq[s] EXCEPT !.at = label]]
  BY DEF GoesTo
<1> QED
  BY <1>1, TnPassesOn, TnQuiet

(* A label that nobody asks or holds anything under. *)
LEMMA TnRelabelledFree ==
  ASSUME TnInv, NEW s \in TnSlots, NEW label, label \notin TnHolding \cup {"log"} \cup TnAsking
  PROVE  TnFree([tnReq[s] EXCEPT !.at = label])
<1> DEFINE n == [tnReq[s] EXCEPT !.at = label]
<1>1. "at" \in DOMAIN tnReq[s]
  BY DEF TnInv, TnReqOK
<1>2. DOMAIN n = DOMAIN tnReq[s] /\ n.at = label
  BY <1>1, TnRelabelled
<1> HIDE DEF n
<1>3. TnFree(n)
  BY <1>1, <1>2 DEF TnFree
<1> QED
  BY <1>3 DEF n

(* A request arrives with what it asks for. *)
LEMMA ArrivesWell == ASSUME TnInv, NEW s \in TnSlots, Arrives(s) PROVE TnGood
<1>1. PICK u \in Everyone, a \in Asked : tnReq' = [tnReq EXCEPT ![s] = Joined([at |-> "authorize", user |-> u], a)]
  BY DEF Arrives
<1> DEFINE f == [at |-> "authorize", user |-> u]
           r == Joined(f, a)
<1>2. DOMAIN f = {"at", "user"} /\ f.at = "authorize"
  OBVIOUS
<1>5. tnReq' = [tnReq EXCEPT ![s] = r]
  BY <1>1
<1> HIDE DEF f
<1>3. /\ "op" \in DOMAIN a
      /\ a.op = "approval" => /\ "ns" \in DOMAIN a /\ "cluster" \in DOMAIN a
                              /\ a.ns \in TnNamespaces /\ a.cluster \in TnClusters
  BY DEF Asked
<1>4. /\ DOMAIN r = DOMAIN f \cup DOMAIN a /\ r.at = "authorize"
      /\ "op" \in DOMAIN a => r.op = a.op
      /\ "ns" \in DOMAIN a => r.ns = a.ns
      /\ "cluster" \in DOMAIN a => r.cluster = a.cluster
  <2>1. /\ DOMAIN r = DOMAIN f \cup DOMAIN a
        /\ \A x \in DOMAIN f : r[x] = f[x]
        /\ \A x \in DOMAIN a : x \notin DOMAIN f => r[x] = a[x]
    BY TnJoined
  <2> HIDE DEF r
  <2> QED
    BY <1>2, <2>1
<1> HIDE DEF r
<1>6. TnFree(r)
  BY <1>2, <1>3, <1>4 DEF TnFree, TnHolding, TnGranting
<1> QED
  BY <1>5, <1>6, TnQuiet DEF Arrives, tnWorld

(* Authentication, authorization and the handlers of users. *)
LEMMA TnUserSteps ==
  ASSUME TnInv, NEW s \in TnSlots,
         \/ authorizationHandler(s) \/ createUser(s) \/ authorizeUser(s) \/ deleteUser(s) \/ deauthorizeUser(s)
         \/ resetPassword(s) \/ updateUser(s) \/ saveProjects(s) \/ isExistsInUserQuotaTable(s)
  PROVE  TnGood
<1>1. ASSUME authorizationHandler(s) PROVE TnGood
  <2>1. UNCHANGED <<tnQuota, tnNs, tnTouched, tnLog, tnTx>> /\ (GoesTo(s, "audit") \/ Ends(s)) /\ tnReq[s].at \in TnAsking
    BY <1>1 DEF authorizationHandler, tnWorld, Is, TnAsking
  <2> QED
    BY <2>1, TnEnds, TnGoes DEF TnHolding, TnGranting
<1>2. ASSUME createUser(s) PROVE TnGood
  <2>1. UNCHANGED <<tnQuota, tnNs, tnTouched, tnLog, tnTx>> /\ (GoesTo(s, "createUser") \/ Ends(s)) /\ tnReq[s].at \in TnAsking
    BY <1>2 DEF createUser, tnWorld, Handles, Is, TnAsking
  <2> QED
    BY <2>1, TnEnds, TnGoes DEF TnHolding, TnGranting
<1>3. ASSUME deleteUser(s) PROVE TnGood
  <2>1. UNCHANGED <<tnQuota, tnNs, tnTouched, tnLog, tnTx>> /\ (GoesTo(s, "deleteUser") \/ Ends(s)) /\ tnReq[s].at \in TnAsking
    BY <1>3 DEF deleteUser, tnWorld, Handles, Is, TnAsking
  <2> QED
    BY <2>1, TnEnds, TnGoes DEF TnHolding, TnGranting
<1>4. ASSUME isExistsInUserQuotaTable(s) PROVE TnGood
  <2>1. UNCHANGED <<tnQuota, tnNs, tnTouched, tnLog, tnTx>> /\ (GoesTo(s, "deleteNamespace") \/ Ends(s)) /\ tnReq[s].at \in TnAsking
    BY <1>4 DEF isExistsInUserQuotaTable, tnWorld, Handles, Is, TnAsking
  <2> QED
    BY <2>1, TnEnds, TnGoes DEF TnHolding, TnGranting
<1>5. ASSUME authorizeUser(s) \/ deauthorizeUser(s) \/ resetPassword(s) \/ updateUser(s) \/ saveProjects(s) PROVE TnGood
  <2>1. UNCHANGED <<tnQuota, tnNs, tnTouched, tnLog, tnTx>> /\ Ends(s)
    BY <1>5 DEF authorizeUser, deauthorizeUser, resetPassword, updateUser, saveProjects, tnWorld
  <2> QED
    BY <2>1, TnEnds
<1> QED
  BY <1>1, <1>2, <1>3, <1>4, <1>5

(* The projects of the owner are read after the transaction. *)
LEMMA getProjectsWell == ASSUME TnInv, NEW s \in TnSlots, getProjects(s) PROVE TnGood
<1> DEFINE u == tnReq[s].quota.user
           p == <<IF Is(s, "grantProject") THEN tnReq[s].cluster ELSE tnReq[s].quota.cluster, tnReq[s].ns>>
           ps == IF Is(s, "grantProject") THEN tnProj[u] \cup {p} ELSE tnProj[u] \ {p}
           r == [at |-> "saveProjects", user |-> u, projects |-> ps]
<1>1. UNCHANGED <<tnQuota, tnNs, tnTouched, tnLog, tnTx>> /\ (Ends(s) \/ tnReq' = [tnReq EXCEPT ![s] = r])
  BY DEF getProjects, tnWorld
<1> HIDE DEF u, ps
<1>2. TnFree(r)
  BY DEF TnFree, TnHolding, TnGranting, TnAsking
<1> QED
  BY <1>1, <1>2, TnEnds, TnQuiet

(* Namespaces and limits that requests change on their own account, and    *)
(* the rollback of an approval.                                            *)
LEMMA TnNamespaceSteps ==
  ASSUME TnInv, NEW s \in TnSlots,
         \/ createNamespace(s) \/ deleteNamespace(s) \/ createResourceQuota(s) \/ deleteResourceQuota(s)
         \/ rollbackResource(s)
  PROVE  TnGood
<1> DEFINE c == tnReq[s].cluster
           n == tnReq[s].ns
<1>1. ASSUME Ends(s), Outside(s), UNCHANGED <<tnNs, tnTouched>> PROVE TnGood
  BY <1>1, TnEnds DEF Outside, Kept
<1>2. ASSUME Ends(s), Outside(s), NEW limit, SetNs(c, n, limit) \/ UNCHANGED tnNs, tnTouched' = tnTouched \cup {<<c, n>>}
      PROVE TnGood
  BY <1>2, TnTouches, TnIdleIsFree DEF Outside, Kept, Ends
<1>3. ASSUME createNamespace(s) PROVE TnGood
  BY <1>1, <1>2, <1>3 DEF createNamespace, Touch
<1>4. ASSUME deleteNamespace(s) PROVE TnGood
  BY <1>1, <1>2, <1>4 DEF deleteNamespace, Touch
<1>5. ASSUME createResourceQuota(s) PROVE TnGood
  BY <1>1, <1>2, <1>5 DEF createResourceQuota, Touch
<1>6. ASSUME deleteResourceQuota(s) PROVE TnGood
  BY <1>1, <1>2, <1>6 DEF deleteResourceQuota, Touch
<1>7. ASSUME rollbackResource(s) PROVE TnGood
  <2>1. Ends(s) /\ Outside(s) /\ tnTouched' = tnTouched \cup {<<c, n>>}
    BY <1>7 DEF rollbackResource, Outside
  <2>2. \E limit : SetNs(c, n, limit) \/ UNCHANGED tnNs
    BY <1>7 DEF rollbackResource
  <2> QED
    BY <1>2, <2>1, <2>2
<1> QED
  BY <1>3, <1>4, <1>5, <1>6, <1>7

(*************************** The audit log *********************************)

(* A request that holds the lock of the log, or leaves it free. *)
LEMMA TnLogs ==
  ASSUME TnSetting, TnInv, NEW s \in TnSlots, tnLog.lock \in {s, NoSlot}, NEW r, tnReq' = [tnReq EXCEPT ![s] = r],
         TnReqOK(s, r)', TnLogFits(tnLog'), UNCHANGED <<tnQuota, tnNs, tnTouched, tnTx>>
  PROVE  TnGood
<1>1. DOMAIN tnReq' = TnSlots /\ tnReq'[s] = r /\ \A u \in TnSlots : u # s => tnReq'[u] = tnReq[u]
  BY DEF TnInv, TnTables
<1>2. ASSUME NEW u \in TnSlots PROVE TnReqOK(u, tnReq[u])'
  <2>1. CASE u = s
    BY <1>1, <2>1 DEF TnReqOK
  <2>2. CASE u # s
    <3>1. TnReqOK(u, tnReq[u]) /\ tnReq'[u] = tnReq[u]
      BY <1>1, <2>2 DEF TnInv
    <3>2. tnReq[u].at # "log"
      BY <2>2, <3>1 DEF TnReqOK, TnSetting
    <3>3. tnQuota' = tnQuota /\ tnNs' = tnNs /\ tnTouched' = tnTouched /\ tnTx' = tnTx
      OBVIOUS
    <3> QED
      BY <3>1, <3>2, <3>3 DEF TnReqOK
  <2> QED
    BY <2>1, <2>2
<1>3. TnTables'
  BY <1>1 DEF TnInv, TnTables, TnQuotaOK
<1>4. TnAsAsked
  BY DEF TnAsAsked
<1> QED
  BY <1>2, <1>3, <1>4 DEF TnGood, TnInv

(* A request that has the lock of the log. *)
LEMMA TnLogging ==
  ASSUME TnInv, NEW s \in TnSlots, tnReq[s].at = "audit", tnLog'.lock = s,
         NEW n, n = [tnReq[s] EXCEPT !.at = "log"]
  PROVE  TnReqOK(s, n)'
<1> DEFINE r == tnReq[s]
<1>1. TnReqOK(s, r)
  BY DEF TnInv
<1>2. "at" \in DOMAIN r
  BY <1>1 DEF TnReqOK
<1>3. /\ DOMAIN n = DOMAIN r /\ n.at = "log"
      /\ "op" \in DOMAIN r => n.op = r.op
      /\ "ns" \in DOMAIN r => n.ns = r.ns
      /\ "cluster" \in DOMAIN r => n.cluster = r.cluster
  BY <1>2, TnRelabelled
<1> QED
  BY <1>1, <1>2, <1>3 DEF TnReqOK, TnHolding, TnGranting, TnAsking

(* What the log holds between the steps, written out. *)
LEMMA TnLogShape ==
  ASSUME TnSetting, TnInv
  PROVE  /\ DOMAIN tnLog = {"saved", "first", "current", "lock"}
         /\ tnLog.first \in Nat /\ tnLog.current \in Nat /\ tnLog.first <= tnLog.current
         /\ TnMaxLogs \in Nat /\ TnMaxLogs >= 2
         /\ tnLog.current - tnLog.first <= TnMaxLogs - 1
         /\ tnLog.lock # NoSlot => tnLog.current - tnLog.first <= TnMaxLogs - 2
         /\ tnLog.current + 1 \in tnLog.saved => tnLog.current - tnLog.first <= TnMaxLogs - 2
         /\ \E lo \in {tnLog.first, tnLog.first + 1}, hi \in {tnLog.current, tnLog.current + 1} :
               /\ tnLog.saved = lo .. hi
               /\ lo \in Nat /\ hi \in Nat
               /\ hi = tnLog.current + 1 <=> tnLog.current + 1 \in tnLog.saved
<1>1. /\ DOMAIN tnLog = {"saved", "first", "current", "lock"}
      /\ tnLog.first \in Nat /\ tnLog.current \in Nat /\ tnLog.first <= tnLog.current
      /\ TnMaxLogs \in Nat /\ TnMaxLogs >= 2
      /\ tnLog.current - tnLog.first <= TnMaxLogs - 1
      /\ tnLog.lock # NoSlot => tnLog.current - tnLog.first <= TnMaxLogs - 2
      /\ tnLog.current + 1 \in tnLog.saved => tnLog.current - tnLog.first <= TnMaxLogs - 2
  BY DEF TnSetting, TnInv, TnLogFits
<1>2. PICK lo \in {tnLog.first, tnLog.first + 1}, hi \in {tnLog.current, tnLog.current + 1} : tnLog.saved = lo .. hi
  BY DEF TnInv, TnLogFits
<1>3. /\ lo \in Nat /\ hi \in Nat
      /\ hi = tnLog.current + 1 <=> tnLog.current + 1 \in tnLog.saved
  BY <1>1, <1>2, SMTT(40)
<1> QED
  BY <1>1, <1>2, <1>3

(* The oldest entry leaves a full log, or the log has room already. *)
LEMMA TrimWell == ASSUME TnSetting, TnInv, NEW s \in TnSlots, Trim(s) PROVE TnGood
<1> DEFINE f == tnLog.first
           c == tnLog.current
<1>1. tnReq[s].at = "audit" /\ tnLog.lock = NoSlot /\ UNCHANGED <<tnQuota, tnNs, tnTouched, tnTx>>
  BY DEF Trim, Is, tnWorld
<1>2. PICK m : m = [tnReq[s] EXCEPT !.at = "log"]
  OBVIOUS
<1>3. ASSUME GoesTo(s, "log"), tnLog'.lock = s, TnLogFits(tnLog') PROVE TnGood
  <2>1. TnReqOK(s, m)'
    BY <1>1, <1>2, <1>3, TnLogging
  <2>2. tnReq' = [tnReq EXCEPT ![s] = m]
    BY <1>2, <1>3 DEF GoesTo
  <2> QED
    BY <1>1, <1>3, <2>1, <2>2, TnLogs
<1>4. ASSUME Ends(s), TnLogFits(tnLog') PROVE TnGood
  <2>1. PICK i : i = TnIdle
    OBVIOUS
  <2>2. TnReqOK(s, i)'
    BY <2>1, TnIdleIsFree, TnFreeIsOK
  <2>3. tnReq' = [tnReq EXCEPT ![s] = i]
    BY <1>4, <2>1 DEF Ends
  <2> QED
    BY <1>1, <1>4, <2>2, <2>3, TnLogs
<1>5. CASE ~(c - f > TnMaxLogs - 2)
  <2>1. tnLog' = [tnLog EXCEPT !.lock = s] /\ GoesTo(s, "log")
    BY <1>5 DEF Trim
  <2>2. DOMAIN tnLog = {"saved", "first", "current", "lock"}
    BY TnLogShape
  <2>3. DOMAIN tnLog' = DOMAIN tnLog /\ tnLog'.saved = tnLog.saved /\ tnLog'.first = f /\ tnLog'.current = c /\ tnLog'.lock = s
    BY <2>1, <2>2
  <2>4. c - f <= TnMaxLogs - 2
    BY <1>5, TnLogShape, SMTT(40)
  <2>5. TnLogFits(tnLog')
    BY <2>3, <2>4 DEF TnInv, TnLogFits
  <2> QED
    BY <1>3, <2>1, <2>3, <2>5
<1>6. CASE c - f > TnMaxLogs - 2
  <2>1. PICK o \in Commits :
           LET saved == IF o.there THEN tnLog.saved \ {f} ELSE tnLog.saved
           IN IF o.ok THEN tnLog' = [tnLog EXCEPT !.saved = saved, !.first = f + 1, !.lock = s] /\ GoesTo(s, "log")
              ELSE tnLog' = [tnLog EXCEPT !.saved = saved] /\ Ends(s)
    BY <1>6 DEF Trim
  <2> DEFINE saved == IF o.there THEN tnLog.saved \ {f} ELSE tnLog.saved
  <2>2. /\ DOMAIN tnLog = {"saved", "first", "current", "lock"}
        /\ f \in Nat /\ c \in Nat /\ f <= c /\ TnMaxLogs \in Nat /\ TnMaxLogs >= 2 /\ c - f = TnMaxLogs - 1
        /\ c + 1 \notin tnLog.saved
    BY <1>6, TnLogShape, SMTT(40)
  <2>3. PICK lo \in {f, f + 1} : tnLog.saved = lo .. c
    <3>1. PICK lo \in {f, f + 1}, hi \in {c, c + 1} : tnLog.saved = lo .. hi /\ (hi = c + 1 <=> c + 1 \in tnLog.saved)
      BY TnLogShape
    <3>2. hi = c
      BY <2>2, <3>1
    <3> QED
      BY <3>1, <3>2
  <2>4. o.ok => o.there
    BY SMTT(40) DEF Commits
  <2>5. saved = IF o.there THEN f + 1 .. c ELSE lo .. c
    <3> HIDE DEF f, c
    <3>1. (lo .. c) \ {f} = f + 1 .. c
      BY <2>2, <2>3, SMTT(40)
    <3> QED
      BY <2>3, <3>1
  <2> HIDE DEF saved, f, c
  <2>6. CASE o.ok
    <3>1. /\ DOMAIN tnLog' = DOMAIN tnLog /\ tnLog'.saved = saved /\ tnLog'.first = f + 1 /\ tnLog'.current = c
          /\ tnLog'.lock = s /\ GoesTo(s, "log")
      BY <2>1, <2>2, <2>6 DEF saved, c
    <3>2. TnLogFits(tnLog')
      BY <2>2, <2>4, <2>5, <2>6, <3>1, SMTT(40) DEF TnLogFits
    <3> QED
      BY <1>3, <3>1, <3>2
  <2>7. CASE ~o.ok
    <3>1. /\ DOMAIN tnLog' = DOMAIN tnLog /\ tnLog'.saved = saved /\ tnLog'.first = f /\ tnLog'.current = c
          /\ tnLog'.lock = NoSlot /\ Ends(s)
      BY <1>1, <2>1, <2>2, <2>7 DEF saved, c, f
    <3>2. TnLogFits(tnLog')
      BY <2>2, <2>3, <2>5, <3>1, SMTT(40) DEF TnLogFits
    <3> QED
      BY <1>4, <3>1, <3>2
  <2> QED
    BY <2>6, <2>7
<1> QED
  BY <1>5, <1>6

(* The new entry follows the newest one, or the request is refused. *)
LEMMA AddLogWell == ASSUME TnSetting, TnInv, NEW s \in TnSlots, AddLog(s) PROVE TnGood
<1> DEFINE f == tnLog.first
           c == tnLog.current
<1>1. tnReq[s].at = "log" /\ tnLog.lock = s /\ UNCHANGED <<tnQuota, tnNs, tnTouched, tnTx>>
  BY DEF AddLog, Is, tnWorld, TnInv, TnReqOK
<1>2. /\ DOMAIN tnLog = {"saved", "first", "current", "lock"}
      /\ f \in Nat /\ c \in Nat /\ f <= c /\ TnMaxLogs \in Nat /\ TnMaxLogs >= 2 /\ c - f <= TnMaxLogs - 2
  BY <1>1, TnLogShape DEF TnSetting
<1>3. ASSUME NEW i, TnFree(i), tnReq' = [tnReq EXCEPT ![s] = i], TnLogFits(tnLog') PROVE TnGood
  BY <1>1, <1>3, TnFreeIsOK, TnLogs
<1>4. Ends(s) \/ GoesTo(s, "handle")
  BY DEF AddLog
<1>5. TnFree([tnReq[s] EXCEPT !.at = "handle"])
  BY <1>1, TnPassesOn DEF TnAsking, TnHolding, TnGranting
<1>6. \E i : TnFree(i) /\ tnReq' = [tnReq EXCEPT ![s] = i]
  BY <1>4, <1>5, TnIdleIsFree DEF Ends, GoesTo
<1>7. TnLogFits(tnLog')
  <2>1. PICK lo \in {f, f + 1}, hi \in {c, c + 1} :
           tnLog.saved = lo .. hi /\ lo \in Nat /\ hi \in Nat /\ (hi = c + 1 <=> c + 1 \in tnLog.saved)
    BY TnLogShape
  <2>2. CASE c + 1 \in tnLog.saved
    <3>1. tnLog' = [tnLog EXCEPT !.lock = NoSlot]
      BY <2>2 DEF AddLog
    <3>2. DOMAIN tnLog' = DOMAIN tnLog /\ tnLog'.saved = tnLog.saved /\ tnLog'.first = f /\ tnLog'.current = c /\ tnLog'.lock = NoSlot
      BY <1>2, <3>1
    <3> QED
      BY <1>2, <2>1, <3>2, SMTT(40) DEF TnLogFits
  <2>3. CASE c + 1 \notin tnLog.saved
    <3>1. PICK o \in Commits :
             tnLog' = [tnLog EXCEPT !.saved = IF o.there THEN tnLog.saved \cup {c + 1} ELSE tnLog.saved,
                                    !.current = IF o.ok THEN c + 1 ELSE c, !.lock = NoSlot]
      BY <2>3 DEF AddLog
    <3> DEFINE saved == IF o.there THEN tnLog.saved \cup {c + 1} ELSE tnLog.saved
    <3>2. /\ DOMAIN tnLog' = DOMAIN tnLog /\ tnLog'.saved = saved /\ tnLog'.first = f
          /\ tnLog'.current = (IF o.ok THEN c + 1 ELSE c) /\ tnLog'.lock = NoSlot
      BY <1>2, <3>1
    <3>3. (o.ok => o.there) /\ hi = c
      BY <2>1, <2>3, SMTT(40) DEF Commits
    <3>4. saved = IF o.there THEN lo .. c + 1 ELSE lo .. c
      <4>1. tnLog.saved = lo .. c /\ lo \in Nat /\ lo <= c + 1
        BY <1>2, <2>1, <3>3, SMTT(40)
      <4> HIDE DEF f, c
      <4>2. (lo .. c) \cup {c + 1} = lo .. c + 1
        BY <1>2, <4>1, SMTT(40)
      <4> QED
        BY <4>1, <4>2
    <3> HIDE DEF saved, f, c
    <3>5. CASE o.ok
      BY <1>2, <2>1, <3>2, <3>3, <3>4, <3>5, SMTT(40) DEF TnLogFits
    <3>6. CASE ~o.ok
      BY <1>2, <2>1, <3>2, <3>3, <3>4, <3>6, SMTT(40) DEF TnLogFits
    <3> QED
      BY <3>5, <3>6
  <2> QED
    BY <2>2, <2>3
<1> QED
  BY <1>3, <1>6, <1>7

(**************************** User quotas **********************************)

(* Quotas that one transaction changes: none becomes approved. *)
LEMMA TnInTx ==
  ASSUME TnSetting, TnInv, NEW s \in TnSlots, NEW allowed, NEW q, InTx(s, allowed, q),
         allowed /\ tnReq[s].ns \in TnNamespaces => q.status # "approval" /\ TnQuotaOK(q)
  PROVE  TnGood
<1>1. tnTx = NoSlot /\ UNCHANGED <<tnNs, tnTouched, tnLog, tnTx>> /\ tnReq' = [tnReq EXCEPT ![s] = TnIdle]
  BY DEF InTx, Free, Ends
<1>2. tnQuota' = tnQuota \/ (allowed /\ tnQuota' = [tnQuota EXCEPT ![tnReq[s].ns] = q])
  BY DEF InTx
<1>3. /\ DOMAIN tnQuota' = TnNamespaces
      /\ \A n \in TnNamespaces : \/ tnQuota'[n] = tnQuota[n]
                                 \/ tnQuota'[n] = q /\ q.status # "approval" /\ TnQuotaOK(q)
  BY <1>2 DEF TnInv, TnTables
<1>4. DOMAIN tnReq' = TnSlots
  BY <1>1 DEF TnInv, TnTables
<1>5. TnTables'
  BY <1>1, <1>3, <1>4 DEF TnInv, TnTables, TnQuotaOK
<1>6. TnInv'
  <2>1. PICK i : i = TnIdle
    OBVIOUS
  <2>2. TnReqOK(s, i)'
    BY <2>1, TnIdleIsFree, TnFreeIsOK
  <2> QED
    BY <1>1, <1>5, <2>1, <2>2, TnAlone
<1>7. TnAsAsked
  BY <1>3 DEF TnAsAsked
<1> QED
  BY <1>6, <1>7 DEF TnGood

(* A quota is asked for, asked for again or rejected. *)
LEMMA TnQuotaSteps == ASSUME TnSetting, TnInv, NEW s \in TnSlots, createQuota(s) \/ updateQuota(s) \/ reject(s) PROVE TnGood
<1> DEFINE r == tnReq[s]
           q == tnQuota[r.ns]
<1>1. ASSUME NEW u, NEW x, NEW c, NEW p, p = [status |-> "processing", user |-> u, storage |-> x, cluster |-> c]
      PROVE  p.status # "approval" /\ TnQuotaOK(p)
  BY <1>1 DEF TnQuotaOK
<1>2. Processing(r).status # "approval" /\ TnQuotaOK(Processing(r))
  BY <1>1 DEF Processing
<1>3. CASE createQuota(s)
  BY <1>2, <1>3, TnInTx DEF createQuota
<1>4. CASE updateQuota(s)
  BY <1>2, <1>4, TnInTx DEF updateQuota
<1>5. CASE reject(s)
  <2>1. InTx(s, r.user = Admin /\ q.status = "processing", [q EXCEPT !.status = "rejection"])
    BY <1>5 DEF reject
  <2>2. ASSUME q.status = "processing", r.ns \in TnNamespaces
        PROVE  [q EXCEPT !.status = "rejection"].status # "approval" /\ TnQuotaOK([q EXCEPT !.status = "rejection"])
    <3>1. DOMAIN q = {"status", "user", "storage", "cluster"}
      BY <2>2 DEF TnInv, TnTables, TnQuotaOK
    <3> DEFINE z == [q EXCEPT !.status = "rejection"]
    <3>2. z.status = "rejection"
      BY <3>1
    <3>3. TnQuotaOK(z)
      BY <3>2 DEF TnQuotaOK
    <3> QED
      BY <3>2, <3>3
  <2> QED
    BY <2>1, <2>2, TnInTx
<1> QED
  BY <1>3, <1>4, <1>5

(* The calls to the cluster within an approval. *)
LEMMA TnGrants ==
  ASSUME TnSetting, TnInv, NEW s \in TnSlots, tnReq[s].at \in TnGranting, UNCHANGED <<tnQuota, tnTouched, tnLog>>,
         NEW limit, SetNs(tnReq[s].cluster, tnReq[s].ns, limit) \/ UNCHANGED tnNs,
         \/ GoesTo(s, "limit") /\ UNCHANGED tnTx
         \/ GoesTo(s, "commit") /\ UNCHANGED tnTx /\ limit = tnReq[s].quota.storage /\ SetNs(tnReq[s].cluster, tnReq[s].ns, limit)
         \/ Leaves(s)
  PROVE  TnGood
<1> DEFINE r == tnReq[s]
<1>1. TnReqOK(s, r) /\ tnTx = s
  BY DEF TnInv, TnReqOK, TnHolding
<1>2. DOMAIN tnNs' = TnClusters /\ \A d \in TnClusters : DOMAIN tnNs'[d] = TnNamespaces
  BY DEF TnInv, TnTables, SetNs
<1>3. DOMAIN tnReq' = TnSlots
  BY DEF TnInv, TnTables, GoesTo, Leaves, Ends
<1>4. TnTables'
  BY <1>2, <1>3 DEF TnInv, TnTables, TnQuotaOK
<1>5. TnAsAsked
  BY DEF TnAsAsked
<1>6. CASE Leaves(s)
  <2>1. PICK i : i = TnIdle
    OBVIOUS
  <2>2. TnReqOK(s, i)'
    BY <2>1, TnIdleIsFree, TnFreeIsOK
  <2>3. tnReq' = [tnReq EXCEPT ![s] = i]
    BY <1>6, <2>1 DEF Leaves, Ends
  <2> QED
    BY <1>1, <1>4, <1>5, <2>2, <2>3, TnAlone DEF TnGood
<1>7. ASSUME NEW label \in {"limit", "commit"}, GoesTo(s, label), UNCHANGED tnTx,
             label = "commit" => tnNs'[r.cluster][r.ns] = r.quota.storage
      PROVE  TnGood
  <2>1. PICK n : n = [r EXCEPT !.at = label]
    OBVIOUS
  <2>2. /\ DOMAIN n = DOMAIN r /\ n.at = label
        /\ "ns" \in DOMAIN r => n.ns = r.ns
        /\ "cluster" \in DOMAIN r => n.cluster = r.cluster
        /\ "quota" \in DOMAIN r => n.quota = r.quota
    BY <1>1, <2>1, TnRelabelled DEF TnReqOK
  <2>3. TnReqOK(s, n)'
    BY <1>1, <1>7, <2>2 DEF TnReqOK, TnHolding, TnGranting, TnAsking
  <2>4. tnReq' = [tnReq EXCEPT ![s] = n]
    BY <1>7, <2>1 DEF GoesTo
  <2> QED
    BY <1>1, <1>4, <1>5, <2>3, <2>4, TnAlone DEF TnGood
<1>8. SetNs(r.cluster, r.ns, limit) => tnNs'[r.cluster][r.ns] = limit
  BY <1>1, SMTT(40) DEF SetNs, TnReqOK, TnInv, TnTables
<1> QED
  BY <1>6, <1>7, <1>8

(* The cluster gets the namespace and the limit asked for, or the approval ends. *)
LEMMA TnGrantSteps ==
  ASSUME TnSetting, TnInv, NEW s \in TnSlots, grantNamespace(s) \/ grantLimit(s) \/ updateResourceQuota(s)
  PROVE  TnGood
<1>1. UNCHANGED <<tnQuota, tnTouched, tnLog>> /\ tnReq[s].at \in TnGranting
  BY DEF grantNamespace, grantLimit, updateResourceQuota, Kept, Is, TnGranting
<1>2. CASE grantNamespace(s)
  BY <1>1, <1>2, TnGrants DEF grantNamespace
<1>3. CASE grantLimit(s)
  BY <1>1, <1>3, TnGrants DEF grantLimit
<1>4. CASE updateResourceQuota(s)
  BY <1>1, <1>4, TnGrants DEF updateResourceQuota
<1> QED
  BY <1>2, <1>3, <1>4

(* An approval begins: it has the transaction and the quota there is. *)
LEMMA beginApprovalWell == ASSUME TnSetting, TnInv, NEW s \in TnSlots, beginApproval(s) PROVE TnGood
<1> DEFINE r == tnReq[s]
           q == tnQuota[r.ns]
           k == IF tnNs[r.cluster][r.ns] = Gone THEN "namespace" ELSE "relimit"
           o == tnNs[r.cluster][r.ns]
<1>1. tnTx = NoSlot /\ UNCHANGED <<tnQuota, tnLog, tnNs>> /\ r.at = "handle" /\ r.op = "approval"
  BY DEF beginApproval, Kept, Handles, Is, Free
<1>2. CASE r.user # Admin \/ q.status # "processing"
  BY <1>1, <1>2, TnEnds DEF beginApproval, Begins
<1>3. CASE ~(r.user # Admin \/ q.status # "processing")
  <2>0. PICK f : f = [at |-> k, quota |-> q, old |-> o]
    OBVIOUS
  <2>1. PICK n : n = Joined(f, r)
    OBVIOUS
  <2>2. tnReq' = [tnReq EXCEPT ![s] = n] /\ tnTx' = s
    BY <1>3, <2>0, <2>1 DEF beginApproval, Begins
  <2>3. TnReqOK(s, r)
    BY DEF TnInv
  <2>4. "ns" \in DOMAIN r /\ "cluster" \in DOMAIN r /\ r.ns \in TnNamespaces /\ r.cluster \in TnClusters
    BY <1>1, <2>3 DEF TnReqOK, TnAsking
  <2>5. DOMAIN f = {"at", "quota", "old"} /\ f.at = k /\ f.quota = q /\ k \in {"namespace", "relimit"}
    BY <2>0
  <2> HIDE DEF k, o
  <2>6. /\ DOMAIN n = DOMAIN f \cup DOMAIN r
        /\ \A x \in DOMAIN f : n[x] = f[x]
        /\ \A x \in DOMAIN r : x \notin DOMAIN f => n[x] = r[x]
    BY <2>1 DEF Joined
  <2>7. /\ {"at", "quota", "ns", "cluster"} \subseteq DOMAIN n
        /\ n.at \in {"namespace", "relimit"} /\ n.quota = q /\ n.ns = r.ns /\ n.cluster = r.cluster
    BY <2>4, <2>5, <2>6
  <2>8. TnReqOK(s, n)'
    BY <1>1, <1>3, <2>2, <2>4, <2>7 DEF TnReqOK, TnHolding, TnGranting, TnAsking
  <2>9. TnTables'
    BY <1>1, <2>2 DEF TnInv, TnTables, TnQuotaOK
  <2>10. TnAsAsked
    BY <1>1 DEF TnAsAsked
  <2> QED
    BY <1>1, <2>2, <2>8, <2>9, <2>10, TnAlone DEF TnGood
<1> QED
  BY <1>2, <1>3

(* The commit: the quota is the one read, the limit the one asked for. *)
LEMMA commitApprovalWell == ASSUME TnSetting, TnInv, NEW s \in TnSlots, commitApproval(s) PROVE TnGood
<1> DEFINE r == tnReq[s]
<1>1. UNCHANGED <<tnNs, tnTouched, tnLog>> /\ r.at = "commit" /\ tnTx \in {s, NoSlot}
  BY DEF commitApproval, Is, Mine
<1>2. TnReqOK(s, r)
  BY DEF TnInv
<1>3. /\ r.ns \in TnNamespaces /\ r.cluster \in TnClusters
      /\ r.quota = tnQuota[r.ns] /\ tnQuota[r.ns].status = "processing"
      /\ <<r.cluster, r.ns>> \in tnTouched \/ tnNs[r.cluster][r.ns] = r.quota.storage
  BY <1>1, <1>2 DEF TnReqOK, TnGranting
<1>4. DOMAIN r.quota = {"status", "user", "storage", "cluster"}
  BY <1>3 DEF TnInv, TnTables, TnQuotaOK
<1>5. PICK z : z = [r.quota EXCEPT !.status = "approval", !.cluster = r.cluster]
  OBVIOUS
<1>6. z.status = "approval" /\ z.cluster = r.cluster
  BY <1>4, <1>5
<1>7. /\ tnQuota' = tnQuota \/ tnQuota' = [tnQuota EXCEPT ![r.ns] = z]
      /\ GoesTo(s, "rollback") \/ GoesTo(s, "grantProject") \/ Ends(s)
  BY <1>5 DEF commitApproval
<1>8. /\ DOMAIN tnQuota' = TnNamespaces
      /\ \A n \in TnNamespaces : tnQuota'[n] = tnQuota[n] \/ (n = r.ns /\ tnQuota'[n] = z)
  BY <1>7 DEF TnInv, TnTables
<1>9. TnAsAsked
  BY <1>3, <1>6, <1>8 DEF TnAsAsked
<1>10. PICK n : tnReq' = [tnReq EXCEPT ![s] = n] /\ TnFree(n)
  BY <1>7, TnIdleIsFree, TnRelabelledFree DEF GoesTo, Ends, TnHolding, TnGranting, TnAsking
<1>11. TnReqOK(s, n)'
  BY <1>10, TnFreeIsOK
<1>12. DOMAIN tnReq' = TnSlots
  BY <1>10 DEF TnInv, TnTables
<1>13. TnTables'
  BY <1>1, <1>6, <1>8, <1>12 DEF TnInv, TnTables, TnQuotaOK
<1> QED
  BY <1>1, <1>9, <1>10, <1>11, <1>13, TnAlone DEF TnGood

(******************************* Deletion **********************************)

(* The deletion of a quota begins. *)
LEMMA beginDeleteWell == ASSUME TnSetting, TnInv, NEW s \in TnSlots, beginDelete(s) PROVE TnGood
<1> DEFINE r == tnReq[s]
           q == tnQuota[r.ns]
           k == IF q.cluster = "" THEN "forget" ELSE "unnamespace"
<1>1. tnTx = NoSlot /\ UNCHANGED <<tnQuota, tnNs, tnTouched, tnLog>>
  BY DEF beginDelete, tnWorld, Free
<1>2. CASE Ends(s) /\ UNCHANGED tnTx
  BY <1>1, <1>2, TnEnds
<1>3. CASE tnReq' = [tnReq EXCEPT ![s] = Joined([at |-> k, quota |-> q], r)] /\ tnTx' = s
  <2>1. PICK f : f = [at |-> k, quota |-> q]
    OBVIOUS
  <2>2. PICK n : n = Joined(f, r)
    OBVIOUS
  <2>3. "at" \in DOMAIN f /\ f.at \in {"forget", "unnamespace"}
    BY <2>1
  <2>4. "at" \in DOMAIN n /\ n.at = f.at
    BY <2>2, <2>3 DEF Joined
  <2>5. TnReqOK(s, n)'
    BY <1>3, <2>3, <2>4 DEF TnReqOK, TnHolding, TnGranting, TnAsking
  <2>6. tnReq' = [tnReq EXCEPT ![s] = n]
    BY <1>3, <2>1, <2>2
  <2>7. TnTables'
    BY <1>1, <2>6 DEF TnInv, TnTables, TnQuotaOK
  <2>8. TnAsAsked
    BY <1>1 DEF TnAsAsked
  <2> QED
    BY <1>1, <2>5, <2>6, <2>7, <2>8, TnAlone DEF TnGood
<1> QED
  BY <1>2, <1>3 DEF beginDelete

(* The namespace is deleted within the transaction. *)
LEMMA dropNamespaceWell == ASSUME TnSetting, TnInv, NEW s \in TnSlots, dropNamespace(s) PROVE TnGood
<1> DEFINE r == tnReq[s]
<1>1. UNCHANGED <<tnQuota, tnTouched, tnLog>> /\ r.at = "unnamespace"
  BY DEF dropNamespace, Kept, Is
<1>2. tnTx = s /\ "at" \in DOMAIN r
  BY <1>1 DEF TnInv, TnReqOK, TnHolding
<1>3. tnNs' = tnNs \/ SetNs(r.quota.cluster, r.ns, Gone)
  BY DEF dropNamespace
<1>4. DOMAIN tnNs' = TnClusters /\ \A d \in TnClusters : DOMAIN tnNs'[d] = TnNamespaces
  BY <1>3 DEF TnInv, TnTables, SetNs
<1>5. PICK n : tnReq' = [tnReq EXCEPT ![s] = n] /\ (TnFree(n) \/ ("at" \in DOMAIN n /\ n.at = "forget" /\ tnTx' = s))
  <2>1. CASE Leaves(s)
    BY <2>1, TnIdleIsFree DEF Leaves, Ends
  <2>2. CASE GoesTo(s, "forget") /\ UNCHANGED tnTx
    <3>1. PICK n : n = [r EXCEPT !.at = "forget"]
      OBVIOUS
    <3>2. DOMAIN n = DOMAIN r /\ n.at = "forget"
      BY <1>2, <3>1, TnRelabelled
    <3>3. tnReq' = [tnReq EXCEPT ![s] = n]
      BY <2>2, <3>1 DEF GoesTo
    <3> QED
      BY <1>2, <2>2, <3>2, <3>3
  <2> QED
    BY <2>1, <2>2 DEF dropNamespace
<1>6. TnReqOK(s, n)'
  <2>1. CASE TnFree(n)
    BY <2>1, TnFreeIsOK
  <2>2. CASE "at" \in DOMAIN n /\ n.at = "forget" /\ tnTx' = s
    BY <2>2 DEF TnReqOK, TnHolding, TnGranting, TnAsking
  <2> QED
    BY <1>5, <2>1, <2>2
<1>7. TnTables'
  BY <1>1, <1>4, <1>5 DEF TnInv, TnTables, TnQuotaOK
<1>8. TnAsAsked
  BY <1>1 DEF TnAsAsked
<1> QED
  BY <1>1, <1>2, <1>5, <1>6, <1>7, <1>8, TnAlone DEF TnGood

(* The quota is deleted and the transaction ends. *)
LEMMA commitDeleteWell == ASSUME TnSetting, TnInv, NEW s \in TnSlots, commitDelete(s) PROVE TnGood
<1> DEFINE r == tnReq[s]
<1>1. UNCHANGED <<tnNs, tnTouched, tnLog>> /\ tnTx = s
  BY DEF commitDelete
<1>2. /\ tnQuota' = tnQuota \/ tnQuota' = [tnQuota EXCEPT ![r.ns] = NoQuota]
      /\ GoesTo(s, "dropProject") \/ Ends(s)
  BY DEF commitDelete
<1>3. /\ DOMAIN tnQuota' = TnNamespaces
      /\ \A n \in TnNamespaces : tnQuota'[n] = tnQuota[n] \/ tnQuota'[n] = NoQuota
  BY <1>2 DEF TnInv, TnTables
<1>4. TnAsAsked
  BY <1>3, SMTT(40) DEF TnAsAsked, NoQuota
<1>5. PICK n : tnReq' = [tnReq EXCEPT ![s] = n] /\ TnFree(n)
  BY <1>2, TnIdleIsFree, TnRelabelledFree DEF GoesTo, Ends, TnHolding, TnGranting, TnAsking
<1>6. TnReqOK(s, n)'
  BY <1>5, TnFreeIsOK
<1>7. DOMAIN tnReq' = TnSlots
  BY <1>5 DEF TnInv, TnTables
<1>8. TnTables'
  BY <1>1, <1>3, <1>7, SMTT(40) DEF TnInv, TnTables, TnQuotaOK, NoQuota
<1> QED
  BY <1>1, <1>4, <1>5, <1>6, <1>8, TnAlone DEF TnGood

(********************** The process starts again ***************************)

(* The requests are lost and the log is loaded from its table. *)
LEMMA RestartWell == ASSUME TnSetting, TnInv, Restart PROVE TnGood
<1>1. /\ tnReq' = [s \in TnSlots |-> TnIdle] /\ tnLog' = initDB
      /\ UNCHANGED <<tnQuota, tnNs, tnTouched>>
  BY DEF Restart, tnWorld
<1>2. ASSUME NEW u \in TnSlots PROVE TnReqOK(u, tnReq[u])'
  <2>1. tnReq'[u] = TnIdle
    BY <1>1
  <2> QED
    BY <2>1, TnIdleIsFree, TnFreeIsOK DEF TnReqOK
<1>3. TnTables'
  BY <1>1 DEF TnInv, TnTables, TnQuotaOK
<1>4. TnLogFits(tnLog')
  <2>1. CASE tnLog.saved = {}
    <3>1. tnLog' = [saved |-> {}, first |-> 0, current |-> 0, lock |-> NoSlot]
      BY <1>1, <2>1 DEF initDB
    <3>2. DOMAIN tnLog' = {"saved", "first", "current", "lock"} /\ tnLog'.saved = {} /\ tnLog'.first = 0 /\ tnLog'.current = 0
          /\ tnLog'.lock = NoSlot
      BY <3>1
    <3>3. {} = 0 + 1 .. 0
      BY SMTT(40)
    <3> QED
      BY <3>2, <3>3, SMTT(40) DEF TnLogFits, TnSetting
  <2>2. CASE tnLog.saved # {}
    <3> DEFINE f == tnLog.first
               c == tnLog.current
    <3>1. PICK lo \in {f, f + 1}, hi \in {c, c + 1} :
             tnLog.saved = lo .. hi /\ lo \in Nat /\ hi \in Nat /\ (hi = c + 1 <=> c + 1 \in tnLog.saved)
      BY TnLogShape
    <3>2. /\ f \in Nat /\ c \in Nat /\ f <= c /\ TnMaxLogs \in Nat /\ TnMaxLogs >= 2
          /\ c - f <= TnMaxLogs - 1 /\ (c + 1 \in tnLog.saved => c - f <= TnMaxLogs - 2)
      BY TnLogShape
    <3> HIDE DEF f, c
    <3>3. lo <= hi /\ hi - lo <= TnMaxLogs - 1
      BY <2>2, <3>1, <3>2, SMTT(40)
    <3> DEFINE least == CHOOSE i \in lo .. hi : \A j \in lo .. hi : i <= j
               most == CHOOSE i \in lo .. hi : \A j \in lo .. hi : i >= j
    <3>4. least = lo
      <4>1. lo \in lo .. hi /\ \A j \in lo .. hi : lo <= j
        BY <3>1, <3>3, SMTT(40)
      <4>2. least \in lo .. hi /\ \A j \in lo .. hi : least <= j
        BY <4>1
      <4> HIDE DEF least
      <4> QED
        BY <3>1, <4>1, <4>2, SMTT(40)
    <3>5. most = hi
      <4>1. hi \in lo .. hi /\ \A j \in lo .. hi : hi >= j
        BY <3>1, <3>3, SMTT(40)
      <4>2. most \in lo .. hi /\ \A j \in lo .. hi : most >= j
        BY <4>1
      <4> HIDE DEF most
      <4> QED
        BY <3>1, <4>1, <4>2, SMTT(40)
    <3>6. tnLog' = [saved |-> lo .. hi, lock |-> NoSlot, first |-> least, current |-> most]
      BY <1>1, <2>2, <3>1 DEF initDB
    <3> HIDE DEF least, most
    <3>7. DOMAIN tnLog' = {"saved", "first", "current", "lock"} /\ tnLog'.saved = lo .. hi /\ tnLog'.first = lo /\ tnLog'.current = hi
          /\ tnLog'.lock = NoSlot
      BY <3>4, <3>5, <3>6
    <3> QED
      BY <3>1, <3>2, <3>3, <3>7, SMTT(40) DEF TnLogFits
  <2> QED
    BY <2>1, <2>2
<1>5. TnAsAsked
  BY <1>1 DEF TnAsAsked
<1> QED
  BY <1>2, <1>3, <1>4, <1>5 DEF TnGood, TnInv

(* Each of the histories the program can start from. *)
LEMMA TnInitInv == ASSUME TnSetting PROVE TnInit => TnInv
<1> SUFFICES ASSUME TnInit PROVE TnInv
  OBVIOUS
<1>1. PICK h \in Histories :
        LET has == h \in {"granted", "again"}
            asks == h \in {"asked", "again"}
            logs == IF h = "new" THEN 0 ELSE TnMaxLogs - 1
            u == CHOOSE x \in TnUsers : TRUE
            n0 == CHOOSE x \in TnNamespaces : TRUE
            c0 == CHOOSE x \in TnClusters : TRUE
            old == CHOOSE x \in TnStorage : TRUE
            new == IF h = "again" THEN CHOOSE x \in TnStorage : x # old ELSE old
        IN /\ tnQuota = [n \in TnNamespaces |->
                 IF h = "new" \/ n # n0 THEN NoQuota
                 ELSE [status |-> IF asks THEN "processing" ELSE "approval", user |-> u, storage |-> new,
                       cluster |-> IF has THEN c0 ELSE ""]]
           /\ tnNs = [c \in TnClusters |-> [n \in TnNamespaces |-> IF has /\ c = c0 /\ n = n0 THEN old ELSE Gone]]
           /\ tnLog = [saved |-> 1 .. logs, first |-> 0, current |-> logs, lock |-> NoSlot]
           /\ tnReq = [s \in TnSlots |-> TnIdle]
  BY DEF TnInit
<1> DEFINE logs == IF h = "new" THEN 0 ELSE TnMaxLogs - 1
<1>2. \A s \in TnSlots : TnReqOK(s, tnReq[s])
  BY <1>1, TnIdleIsFree, TnFreeIsOK
<1>3. TnTables
  BY <1>1 DEF TnTables, TnQuotaOK, NoQuota
<1>4. TnLogFits(tnLog)
  <2>1. logs \in Nat /\ logs <= TnMaxLogs - 1
    BY SMTT(40) DEF TnSetting
  <2>4. tnLog = [saved |-> 1 .. logs, first |-> 0, current |-> logs, lock |-> NoSlot]
    BY <1>1
  <2> HIDE DEF logs
  <2>5. DOMAIN tnLog = {"saved", "first", "current", "lock"} /\ tnLog.saved = 1 .. logs /\ tnLog.first = 0 /\ tnLog.current = logs
        /\ tnLog.lock = NoSlot
    BY <2>4
  <2> QED
    BY <2>1, <2>5, SMTT(40) DEF TnLogFits, TnSetting
<1> QED
  BY <1>2, <1>3, <1>4 DEF TnInv

(* Every step keeps the invariant and approves what was asked for. *)
LEMMA TnNextGood == ASSUME TnSetting, TnInv, [TnNext]_tnVars PROVE TnGood
<1>1. CASE UNCHANGED tnVars
  <2>1. UNCHANGED <<tnReq, tnQuota, tnNs, tnTouched, tnLog, tnTx>>
    BY <1>1 DEF tnVars
  <2> QED
    BY <2>1 DEF TnGood, TnInv, TnTables, TnQuotaOK, TnReqOK, TnLogFits, TnAsAsked
<1>2. CASE Restart
  BY <1>2, RestartWell
<1>3. ASSUME NEW s \in TnSlots, TnStep(s) PROVE TnGood
  BY <1>3, ArrivesWell, TnUserSteps, getProjectsWell, TnNamespaceSteps, TrimWell, AddLogWell, TnQuotaSteps, TnGrantSteps,
     beginApprovalWell, commitApprovalWell, beginDeleteWell, dropNamespaceWell, commitDeleteWell DEF TnStep
<1> QED
  BY <1>1, <1>2, <1>3 DEF TnNext

(* An approval that commits finds the quota still asked for, and the       *)
(* namespace limited to the storage asked for unless another request has   *)
(* touched it: approval keeps its transaction open over the calls to the   *)
(* cluster, for any number of requests, users, namespaces and clusters and *)
(* whichever calls and commits fail.                                       *)
THEOREM ApprovedAsAsked == TnSpec => TnApprovedAsAsked
<1>1. TnInit => TnInv
  BY TnInitInv, TnAssumption
<1>2. TnInv /\ [TnNext]_tnVars => TnInv'
  BY TnNextGood, TnAssumption DEF TnGood
<1>3. TnInv /\ [TnNext]_tnVars => [TnAsAsked]_tnVars
  BY TnNextGood, TnAssumption DEF TnGood
<1> QED
  BY <1>1, <1>2, <1>3, PTL DEF TnSpec, TnApprovedAsAsked

(* The saved audit log is a run of consecutive entries, never more than    *)
(* the maximum, that ends with the newest one, whatever the maximum is:    *)
(* DefaultDriver.Add drops the oldest entry before it adds the new one and *)
(* survives commits that fail, or that only seem to, and restarts.         *)
THEOREM AuditLogKept == TnSpec => []TnLogKept
<1>1. TnInit => TnInv
  BY TnInitInv, TnAssumption
<1>2. TnInv /\ [TnNext]_tnVars => TnInv'
  BY TnNextGood, TnAssumption DEF TnGood
<1>3. TnInv => TnLogKept
  BY TnInvImplies, TnAssumption
<1> QED
  BY <1>1, <1>2, <1>3, PTL DEF TnSpec

-----------------------------------------------------------------------------
(***************************************************************************)
(* Charts.  Every directory that can be seen is a version as it was        *)
(* packed, and the hidden one holds the files of the archive that the      *)
(* goroutine has unpacked so far; a broken download leaves it hidden, and  *)
(* the next one begins with an empty one.                                  *)
(***************************************************************************)

(* The files before the n-th. *)
Part(c, v, n) == [f \in {ChRepo[c][v][i] : i \in 1 .. n - 1} |-> v]

ChTodoOK(todo) == \A p \in todo : p[1] \in DOMAIN ChRepo /\ p[2] \in DOMAIN ChRepo[p[1]]

ChJob == {"at", "todo", "chart", "version", "n"}

ChSyncOK(s) ==
    \/ s.at = "idle"
    \/ s.at = "chart" /\ ChTodoOK(s.todo)
    \/ /\ s.at \in {"first", "file", "rename"} /\ DOMAIN s = ChJob /\ ChTodoOK(s.todo)
       /\ s.chart \in DOMAIN ChRepo /\ s.version \in DOMAIN ChRepo[s.chart]
       /\ s.at = "first" => s.n = 1
       /\ s.at = "file" => /\ s.n \in 1 .. Len(ChRepo[s.chart][s.version]) + 1
                           /\ Hidden \in DOMAIN chDisk[s.chart]
                           /\ chDisk[s.chart][Hidden] = Part(s.chart, s.version, s.n)
       /\ s.at = "rename" => /\ Hidden \in DOMAIN chDisk[s.chart]
                             /\ chDisk[s.chart][Hidden] = Whole(s.chart, s.version)

ChDiskOK ==
    /\ chDisk = [c \in DOMAIN ChRepo |-> chDisk[c]]
    /\ \A c \in DOMAIN ChRepo : \A d \in Visible(c) : d \in DOMAIN ChRepo[c] /\ chDisk[c][d] = Whole(c, d)

ChInv == ChDiskOK /\ ChSyncOK(chSync) /\ ChWhole

(* The next file of the archive is unpacked; after the last one the version is whole. *)
LEMMA ChNextFile ==
  ASSUME ChPacked, NEW c \in DOMAIN ChRepo, NEW v \in DOMAIN ChRepo[c]
  PROVE  /\ Part(c, v, 1) = ChNone
         /\ \A n \in 1 .. Len(ChRepo[c][v]) : With(Part(c, v, n), ChRepo[c][v][n], v) = Part(c, v, n + 1)
         /\ Part(c, v, Len(ChRepo[c][v]) + 1) = Whole(c, v)
<1> DEFINE a == ChRepo[c][v]
<1>1. a \in Seq(STRING)
  BY DEF ChPacked
<1>2. Len(a) \in Nat /\ DOMAIN a = 1 .. Len(a)
  BY <1>1, SMTT(40)
<1> HIDE DEF a
<1>3. Part(c, v, 1) = ChNone
  BY SMTT(40) DEF Part, ChNone
<1>4. ASSUME NEW n \in 1 .. Len(a)
      PROVE  With(Part(c, v, n), a[n], v) = Part(c, v, n + 1)
  <2> DEFINE F(m) == {a[i] : i \in 1 .. m - 1}
  <2>1. F(n) \cup {a[n]} = F(n + 1)
    BY <1>2, <1>4, SMTT(40)
  <2>2. Part(c, v, n) = [f \in F(n) |-> v] /\ Part(c, v, n + 1) = [f \in F(n + 1) |-> v]
    BY DEF Part, a
  <2> HIDE DEF F
  <2> QED
    BY <2>1, <2>2 DEF With
<1>5. Part(c, v, Len(a) + 1) = Whole(c, v)
  <2>1. 1 .. (Len(a) + 1) - 1 = DOMAIN a
    BY <1>2, SMTT(40)
  <2> QED
    BY <2>1 DEF Part, Whole, a
<1> QED
  BY <1>3, <1>4, <1>5 DEF a

(* A change of the hidden directory, or of none, leaves what can be seen. *)
LEMMA ChHiddenChanges ==
  ASSUME ChDiskOK, NEW c \in DOMAIN ChRepo, NEW dir,
         chDisk' = [chDisk EXCEPT ![c] = With(@, Hidden, dir)]
  PROVE  ChDiskOK' /\ Hidden \in DOMAIN chDisk'[c] /\ chDisk'[c][Hidden] = dir
<1>1. /\ chDisk' = [b \in DOMAIN ChRepo |-> chDisk'[b]]
      /\ chDisk'[c] = With(chDisk[c], Hidden, dir)
      /\ \A b \in DOMAIN ChRepo : b # c => chDisk'[b] = chDisk[b]
  BY DEF ChDiskOK
<1>2. /\ DOMAIN chDisk'[c] = DOMAIN chDisk[c] \cup {Hidden}
      /\ chDisk'[c][Hidden] = dir
      /\ \A d \in DOMAIN chDisk[c] : d # Hidden => chDisk'[c][d] = chDisk[c][d]
  BY <1>1 DEF With
<1>3. ASSUME NEW b \in DOMAIN ChRepo, NEW d \in Visible(b)'
      PROVE  d \in DOMAIN ChRepo[b] /\ chDisk'[b][d] = Whole(b, d)
  <2>1. d \in Visible(b) /\ chDisk'[b][d] = chDisk[b][d]
    BY <1>1, <1>2 DEF Visible
  <2> QED
    BY <2>1 DEF ChDiskOK
<1> QED
  BY <1>1, <1>2, <1>3 DEF ChDiskOK

(* The disk holds no chart of the repository at the start. *)
LEMMA ChInitially == ChInit => ChInv
  BY SMTT(40) DEF ChInit, ChInv, ChDiskOK, ChSyncOK, ChIdle, ChNone, Visible, ChWhole

(* What a request reads can be seen. *)
LEMMA ChReads == ASSUME ChPacked, ChInv, List \/ CreateFromChart PROVE ChInv'
<1>1. ChDiskOK' /\ ChSyncOK(chSync)'
  <2>1. UNCHANGED <<chDisk, chSync>>
    BY DEF List, CreateFromChart
  <2> QED
    BY <2>1 DEF ChInv, ChDiskOK, ChSyncOK, Visible
<1>2. CASE List
  <2>1. ASSUME NEW s \in chSeen' PROVE s[2] \in DOMAIN ChRepo[s[1]] /\ s[3] = Whole(s[1], s[2])
    <3>1. PICK c \in getLocalCharts(FALSE) : \E d \in listVersions(c, FALSE) : s = <<c, d, chDisk[c][d]>>
      BY <1>2, <2>1 DEF List
    <3>2. PICK d \in listVersions(c, FALSE) : s = <<c, d, chDisk[c][d]>>
      BY <3>1
    <3>3. c \in DOMAIN ChRepo /\ d \in Visible(c)
      BY <3>1, <3>2 DEF getLocalCharts, listVersions
    <3> QED
      BY <3>2, <3>3 DEF ChInv, ChDiskOK
  <2> QED
    BY <1>1, <2>1 DEF ChInv, ChWhole
<1>3. CASE CreateFromChart
  <2>0. PICK c \in DOMAIN ChRepo :
          \E d \in DOMAIN ChRepo[c] :
             chSeen' = {} \/ (d \in DOMAIN chDisk[c] /\ chSeen' = {<<c, d, chDisk[c][d]>>})
    BY <1>3 DEF CreateFromChart
  <2>1. PICK d \in DOMAIN ChRepo[c] :
          chSeen' = {} \/ (d \in DOMAIN chDisk[c] /\ chSeen' = {<<c, d, chDisk[c][d]>>})
    BY <2>0
  <2>2. d \in DOMAIN chDisk[c] => chDisk[c][d] = Whole(c, d)
    BY DEF ChPacked, ChInv, ChDiskOK, Visible
  <2> QED
    BY <1>1, <2>1, <2>2, SMTT(40) DEF ChInv, ChWhole
<1> QED
  BY <1>2, <1>3

(* The goroutine's record of the version it copies. *)
LEMMA ChMoves ==
  ASSUME NEW s, DOMAIN s = ChJob, NEW at, NEW n
  PROVE  /\ LET r == [s EXCEPT !.at = at] IN
              DOMAIN r = ChJob /\ r.at = at /\ r.todo = s.todo /\ r.chart = s.chart /\ r.version = s.version /\ r.n = s.n
         /\ LET r == [s EXCEPT !.n = n] IN
              DOMAIN r = ChJob /\ r.at = s.at /\ r.todo = s.todo /\ r.chart = s.chart /\ r.version = s.version /\ r.n = n
  BY DEF ChJob

(* The list of charts is fetched, or the next version is picked. *)
LEMMA ChLoads == ASSUME ChInv, loadCloudCharts \/ Pick PROVE ChInv'
<1>1. ChDiskOK' /\ ChWhole'
  BY DEF ChInv, loadCloudCharts, Pick, ChDiskOK, Visible, ChWhole
<1>2. CASE UNCHANGED chSync
  <2>1. UNCHANGED chDisk
    BY DEF loadCloudCharts, Pick
  <2>2. ChSyncOK(chSync)'
    BY <1>2, <2>1 DEF ChInv, ChSyncOK
  <2> QED
    BY <1>1, <2>2 DEF ChInv
<1>3. CASE loadCloudCharts /\ ~UNCHANGED chSync
  <2>1. PICK index \in SUBSET UNION {{<<c, d>> : d \in DOMAIN ChRepo[c]} : c \in DOMAIN ChRepo} :
          chSync' = [at |-> "chart", todo |-> {p \in index : p[2] \notin listVersions(p[1], TRUE)}]
    BY <1>3 DEF loadCloudCharts
  <2>2. ChTodoOK({p \in index : p[2] \notin listVersions(p[1], TRUE)})
    BY SMTT(40) DEF ChTodoOK
  <2>3. chSync'.at = "chart" /\ ChTodoOK(chSync'.todo)
    BY <2>1, <2>2
  <2>4. ChSyncOK(chSync)'
    BY <2>3 DEF ChSyncOK
  <2> QED
    BY <1>1, <2>4 DEF ChInv
<1>4. CASE Pick
  <2>1. ChTodoOK(chSync.todo)
    BY <1>4 DEF ChInv, ChSyncOK, Pick
  <2>2. CASE chSync' = ChIdle
    BY <1>1, <2>2 DEF ChInv, ChSyncOK, ChIdle
  <2>3. CASE \E p \in chSync.todo :
               chSync' = [at |-> "first", todo |-> chSync.todo \ {p}, chart |-> p[1], version |-> p[2], n |-> 1]
    <3>1. PICK p \in chSync.todo :
               chSync' = [at |-> "first", todo |-> chSync.todo \ {p}, chart |-> p[1], version |-> p[2], n |-> 1]
      BY <2>3
    <3>2. /\ chSync'.at = "first" /\ chSync'.todo = chSync.todo \ {p} /\ chSync'.chart = p[1]
          /\ chSync'.version = p[2] /\ chSync'.n = 1 /\ DOMAIN chSync' = ChJob
      BY <3>1 DEF ChJob
    <3>3. ChTodoOK(chSync.todo \ {p}) /\ p[1] \in DOMAIN ChRepo /\ p[2] \in DOMAIN ChRepo[p[1]]
      BY <2>1 DEF ChTodoOK
    <3>4. ChSyncOK(chSync)'
      BY <3>2, <3>3 DEF ChSyncOK
    <3> QED
      BY <1>1, <3>4 DEF ChInv
  <2> QED
    BY <1>4, <2>2, <2>3 DEF Pick
<1> QED
  BY <1>2, <1>3, <1>4

(* The download or the rename fails: what has been unpacked stays hidden. *)
LEMMA ChBreaksOff == ASSUME ChInv, chSync' = ChIdle, UNCHANGED <<chDisk, chSeen>> PROVE ChInv'
<1>1. ChDiskOK' /\ ChWhole'
  BY DEF ChInv, ChDiskOK, Visible, ChWhole
<1> QED
  BY <1>1 DEF ChInv, ChSyncOK, ChIdle

(* A download starts in an emptied hidden directory, or fails. *)
LEMMA ChOpens == ASSUME ChPacked, ChInv, Download PROVE ChInv'
<1> DEFINE s == chSync
           r == [s EXCEPT !.at = "file"]
<1>1. CASE chSync' = ChIdle /\ UNCHANGED chDisk
  BY <1>1, ChBreaksOff DEF Download
<1>2. CASE /\ chDisk' = [chDisk EXCEPT ![s.chart] = Opened(@)]
           /\ chSync' = r
  <2>1. /\ DOMAIN s = ChJob /\ ChTodoOK(s.todo) /\ s.n = 1
        /\ s.chart \in DOMAIN ChRepo /\ s.version \in DOMAIN ChRepo[s.chart]
    BY DEF ChInv, ChSyncOK, Download
  <2>2. /\ DOMAIN r = ChJob /\ r.at = "file" /\ r.todo = s.todo /\ r.chart = s.chart /\ r.version = s.version /\ r.n = s.n
    BY <2>1, ChMoves, SMTT(40)
  <2>3. chDisk' = [chDisk EXCEPT ![s.chart] = With(@, Hidden, ChNone)]
    BY <1>2 DEF Opened
  <2>4. ChDiskOK' /\ Hidden \in DOMAIN chDisk'[s.chart] /\ chDisk'[s.chart][Hidden] = ChNone
    BY <2>1, <2>3, ChHiddenChanges DEF ChInv
  <2>5. Part(s.chart, s.version, 1) = ChNone
    BY <2>1, ChNextFile
  <2>6. 1 \in 1 .. Len(ChRepo[s.chart][s.version]) + 1
    BY <2>1, SMTT(40) DEF ChPacked
  <2>7. chSync' = r
    BY <1>2
  <2> HIDE DEF r
  <2>8. ChSyncOK(chSync)'
    BY <2>1, <2>2, <2>4, <2>5, <2>6, <2>7 DEF ChSyncOK
  <2>9. ChWhole'
    BY DEF ChInv, ChWhole, Download
  <2> QED
    BY <2>4, <2>8, <2>9 DEF ChInv
<1> QED
  BY <1>1, <1>2 DEF Download

(* A file of the archive is written, the download breaks off, or the archive is complete. *)
LEMMA ChUnpacks == ASSUME ChPacked, ChInv, expandFile PROVE ChInv'
<1> DEFINE s == chSync
           a == ChRepo[s.chart][s.version]
<1>1. /\ DOMAIN s = ChJob /\ ChTodoOK(s.todo) /\ s.at = "file"
      /\ s.chart \in DOMAIN ChRepo /\ s.version \in DOMAIN ChRepo[s.chart]
      /\ s.n \in 1 .. Len(a) + 1 /\ Hidden \in DOMAIN chDisk[s.chart]
      /\ chDisk[s.chart][Hidden] = Part(s.chart, s.version, s.n)
  BY DEF ChInv, ChSyncOK, expandFile
<1>2. Len(a) \in Nat
  BY <1>1, SMTT(40) DEF ChPacked
<1>3. ChWhole'
  BY DEF ChInv, ChWhole, expandFile
<1>4. CASE chSync' = ChIdle /\ UNCHANGED chDisk
  BY <1>4, ChBreaksOff DEF expandFile
<1>5. CASE s.n > Len(a) /\ chSync' = [s EXCEPT !.at = "rename"] /\ UNCHANGED chDisk
  <2> DEFINE r == [s EXCEPT !.at = "rename"]
  <2>1. /\ DOMAIN r = ChJob /\ r.at = "rename" /\ r.todo = s.todo /\ r.chart = s.chart /\ r.version = s.version
    BY <1>1, ChMoves, SMTT(40)
  <2>2. chSync' = r
    BY <1>5
  <2> HIDE DEF r
  <2>3. s.n = Len(a) + 1
    BY <1>1, <1>2, <1>5, SMTT(40)
  <2>4. chDisk[s.chart][Hidden] = Whole(s.chart, s.version)
    BY <1>1, <2>3, ChNextFile
  <2>5. ChSyncOK(chSync)'
    BY <1>1, <1>5, <2>1, <2>2, <2>4 DEF ChSyncOK
  <2>6. ChDiskOK'
    BY <1>5 DEF ChInv, ChDiskOK, Visible
  <2> QED
    BY <1>3, <2>5, <2>6 DEF ChInv
<1>6. CASE /\ s.n <= Len(a)
           /\ chDisk' = [chDisk EXCEPT ![s.chart][Hidden] = With(@, a[s.n], s.version)]
           /\ chSync' = [s EXCEPT !.n = @ + 1]
  <2> DEFINE r == [s EXCEPT !.n = s.n + 1]
             dir == Part(s.chart, s.version, s.n + 1)
  <2>1. /\ DOMAIN r = ChJob /\ r.at = s.at /\ r.todo = s.todo /\ r.chart = s.chart /\ r.version = s.version /\ r.n = s.n + 1
    BY <1>1, ChMoves, SMTT(40)
  <2>2. chSync' = r
    BY <1>6
  <2> HIDE DEF r
  <2>3. s.n \in 1 .. Len(a) /\ s.n + 1 \in 1 .. Len(a) + 1
    BY <1>1, <1>2, <1>6, SMTT(40)
  <2>4. With(chDisk[s.chart][Hidden], a[s.n], s.version) = dir
    BY <1>1, <2>3, ChNextFile
  <2> HIDE DEF dir
  <2>5. chDisk' = [chDisk EXCEPT ![s.chart] = [@ EXCEPT ![Hidden] = dir]]
    BY <1>6, <2>4
  <2>6. /\ chDisk' = [b \in DOMAIN ChRepo |-> chDisk'[b]]
        /\ chDisk'[s.chart] = [chDisk[s.chart] EXCEPT ![Hidden] = dir]
        /\ \A b \in DOMAIN ChRepo : b # s.chart => chDisk'[b] = chDisk[b]
    BY <1>1, <2>5 DEF ChInv, ChDiskOK
  <2>7. /\ DOMAIN chDisk'[s.chart] = DOMAIN chDisk[s.chart]
        /\ chDisk'[s.chart][Hidden] = dir
        /\ \A d \in DOMAIN chDisk[s.chart] : d # Hidden => chDisk'[s.chart][d] = chDisk[s.chart][d]
    BY <1>1, <2>6
  <2>8. ASSUME NEW b \in DOMAIN ChRepo, NEW d \in Visible(b)'
        PROVE  d \in DOMAIN ChRepo[b] /\ chDisk'[b][d] = Whole(b, d)
    <3>1. d \in Visible(b) /\ chDisk'[b][d] = chDisk[b][d]
      BY <2>6, <2>7 DEF Visible
    <3> QED
      BY <3>1 DEF ChInv, ChDiskOK
  <2>9. ChDiskOK'
    BY <2>6, <2>8 DEF ChDiskOK
  <2>10. ChSyncOK(chSync)'
    BY <1>1, <2>1, <2>2, <2>3, <2>7 DEF ChSyncOK, dir
  <2> QED
    BY <1>3, <2>9, <2>10 DEF ChInv
<1> QED
  BY <1>4, <1>5, <1>6 DEF expandFile, Archive

(* The rename shows a version that is whole. *)
LEMMA ChShows == ASSUME ChPacked, ChInv, Rename PROVE ChInv'
<1> DEFINE c == chSync.chart
           v == chSync.version
           f == chDisk[c]
<1>1. /\ ChTodoOK(chSync.todo) /\ c \in DOMAIN ChRepo /\ v \in DOMAIN ChRepo[c]
      /\ Hidden \in DOMAIN f /\ f[Hidden] = Whole(c, v)
  BY DEF ChInv, ChSyncOK, Rename
<1>2. CASE chSync' = ChIdle /\ UNCHANGED chDisk
  BY <1>2, ChBreaksOff DEF Rename
<1>3. CASE /\ chDisk' = [chDisk EXCEPT ![c] = With(Drop(@, Hidden), v, @[Hidden])]
           /\ chSync' = [at |-> "chart", todo |-> chSync.todo]
  <2>1. /\ chDisk' = [b \in DOMAIN ChRepo |-> chDisk'[b]]
        /\ chDisk'[c] = With(Drop(f, Hidden), v, f[Hidden])
        /\ \A b \in DOMAIN ChRepo : b # c => chDisk'[b] = chDisk[b]
    BY <1>1, <1>3 DEF ChInv, ChDiskOK
  <2>2. /\ DOMAIN chDisk'[c] = (DOMAIN f \ {Hidden}) \cup {v}
        /\ chDisk'[c][v] = Whole(c, v)
        /\ \A d \in DOMAIN f \ {Hidden} : d # v => chDisk'[c][d] = f[d]
    BY <1>1, <2>1 DEF With, Drop
  <2>3. ASSUME NEW b \in DOMAIN ChRepo, NEW d \in Visible(b)'
        PROVE  d \in DOMAIN ChRepo[b] /\ chDisk'[b][d] = Whole(b, d)
    <3>1. CASE b = c /\ d = v
      BY <1>1, <2>2, <3>1
    <3>2. CASE ~(b = c /\ d = v)
      <4>1. d \in Visible(b) /\ chDisk'[b][d] = chDisk[b][d]
        BY <2>1, <2>2, <3>2 DEF Visible
      <4> QED
        BY <4>1 DEF ChInv, ChDiskOK
    <3> QED
      BY <3>1, <3>2
  <2>4. ChDiskOK'
    BY <2>1, <2>3 DEF ChDiskOK
  <2>5. ChSyncOK(chSync)'
    BY <1>1, <1>3 DEF ChSyncOK
  <2>6. ChWhole'
    BY DEF ChInv, ChWhole, Rename
  <2> QED
    BY <2>4, <2>5, <2>6 DEF ChInv
<1> QED
  BY <1>2, <1>3 DEF Rename

(* Whatever a request lists or an application is made from is a version    *)
(* exactly as the repository packed it, for any repository, any number of  *)
(* synchronisations and of downloads that break off at any file, and       *)
(* requests at any moment.                                                 *)
THEOREM ChartsAreWhole == ChSpec => []ChWhole
<1>1. ChInv /\ [ChNext]_chVars => ChInv'
  <2> SUFFICES ASSUME ChInv, [ChNext]_chVars PROVE ChInv'
    OBVIOUS
  <2>1. CASE UNCHANGED chVars
    BY <2>1 DEF chVars, ChInv, ChDiskOK, ChSyncOK, Visible, ChWhole
  <2> QED
    BY <2>1, ChReads, ChLoads, ChOpens, ChUnpacks, ChShows, ChAssumption DEF ChNext
<1>2. ChInv => ChWhole
  BY DEF ChInv
<1> QED
  BY <1>1, <1>2, ChInitially, ChAssumption, PTL DEF ChSpec
=============================================================================
