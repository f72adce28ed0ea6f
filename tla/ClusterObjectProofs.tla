------------------------- MODULE ClusterObjectProofs ------------------------
(***************************************************************************)
(* Proofs about what requests keep in the clusters: the config maps that   *)
(* requests share and the storages, for any number of requests,            *)
(* goroutines, objects and failing calls.  The components share no state;  *)
(* each has a section of its own.                                          *)
(***************************************************************************)
EXTENDS SharedMaps, Storage, TLAPS

(* A leaf is for Zenon unless it cites another prover. *)
USE ZenonT(40)

-----------------------------------------------------------------------------
(***************************************************************************)
(* UDP ingresses.  While no writer replaces a map it has not read, what    *)
(* clients were told is the map, and what a handler has computed from the  *)
(* current map turns the one as its answer turns the other.                *)
(***************************************************************************)

Entries(m) == {<<p, m[p]>> : p \in DOMAIN m}

UdThread == UdThreads \cup {UdLoop}

(* Told, of what clients were told before. *)
ToldAfter(asked, op, new) ==
  CASE op.kind = "create" -> asked \cup {<<op.port, new[op.port]>>}
    [] op.kind = "delete" -> {a \in asked : a[1] # op.port}
    [] op.kind = "clear" -> {a \in asked : a[1] \notin op.port}

(* What a thread's operation is to the map. *)
UdOpOK(o) ==
  o.at \in {"get", "put"} =>
    /\ o.read \in 0 .. udVersion
    /\ o.read = udVersion /\ udAsked = Entries(udMap) => ToldAfter(udAsked, o.op, o.new) = Entries(o.new)

UdInv ==
  /\ udVersion \in Nat
  /\ udOp = [t \in UdThread |-> udOp[t]]
  /\ \A t \in UdThread : UdOpOK(udOp[t])
  /\ ~udRaced => udAsked = Entries(udMap)

(* Reading the entries of a namespace. *)
LEMMA UdInvImplies == UdInv => UdToldIsThere
<1> SUFFICES ASSUME UdInv, ~udRaced, NEW s \in UdServices
             PROVE  {<<p, udMap[p]>> : p \in getTransportLayerIngress(s[1])} = {a \in udAsked : a[2][1] = s[1]}
  BY DEF UdToldIsThere
<1>1. udAsked = Entries(udMap)
  BY DEF UdInv
<1> QED
  BY <1>1, SMTT(40) DEF Entries, getTransportLayerIngress

(* createUDPIngress, deleteTransportLayerIngress and                       *)
(* clearTransportLayerIngress compute the new map from the one they read.  *)
LEMMA UdReads ==
  ASSUME UdInv, NEW t \in UdThread, NEW new, NEW op, UdRead(t, new, op),
         udAsked = Entries(udMap) => ToldAfter(udAsked, op, new) = Entries(new)
  PROVE  UdInv'
<1> DEFINE o == [at |-> "get", op |-> op, new |-> new, read |-> udVersion]
<1>1. /\ udOp' = [udOp EXCEPT ![t] = o] /\ UNCHANGED <<udMap, udVersion, udAsked, udRaced>>
  BY DEF UdRead
<1>2. UdOpOK(o)
  BY SMTT(40) DEF UdOpOK, UdInv
<1>3. /\ o.at = "get" /\ o.op = op /\ o.new = new /\ o.read = udVersion
  OBVIOUS
<1> HIDE DEF o
<1>4. udOp'[t] = o /\ \A u \in UdThread \ {t} : udOp'[u] = udOp[u]
  BY <1>1 DEF UdInv
<1>5. udOp' = [u \in UdThread |-> udOp'[u]]
  BY <1>1 DEF UdInv
<1>6. \A u \in UdThread : UdOpOK(udOp[u])'
  BY <1>1, <1>2, <1>4 DEF UdInv, UdOpOK
<1> QED
  BY <1>1, <1>5, <1>6 DEF UdInv

(* What the deletion of an ingress or of a service computes. *)
LEMMA UdDeleted ==
  ASSUME NEW m, NEW gone
  PROVE  {a \in Entries(m) : a[1] \notin gone} = Entries(UdWithout(m, gone))
BY SMTT(40) DEF Entries, UdWithout

(* No operation runs and nothing was told. *)
LEMMA UdInitially == UdInit => UdInv
BY SMTT(40) DEF UdInit, UdInv, UdThread, UdOpOK, UdIdle, Entries, Empty

(* Every step of the ingress handlers and of the clearing goroutine keeps the invariant. *)
LEMMA UdStep == UdInv /\ [UdNext]_udVars => UdInv'
<1> SUFFICES ASSUME UdInv, [UdNext]_udVars PROVE UdInv'
  OBVIOUS
<1>1. ASSUME NEW t \in UdThreads, createUDPIngress(t) PROVE UdInv'
  <2> PICK p \in UdPorts \ DOMAIN udMap, s \in UdServices :
        UdRead(t, [q \in DOMAIN udMap \cup {p} |-> IF q = p THEN s ELSE udMap[q]], [kind |-> "create", port |-> p])
    BY <1>1 DEF createUDPIngress
  <2> DEFINE new == [q \in DOMAIN udMap \cup {p} |-> IF q = p THEN s ELSE udMap[q]]
             op == [kind |-> "create", port |-> p]
  <2>1. ToldAfter(udAsked, op, new) = udAsked \cup {<<p, new[p]>>}
    BY DEF ToldAfter
  <2>2. Entries(udMap) \cup {<<p, new[p]>>} = Entries(new)
    BY DEF Entries
  <2>3. UdRead(t, new, op)
    OBVIOUS
  <2> HIDE DEF new, op
  <2> QED
    BY <2>1, <2>2, <2>3, UdReads DEF UdThread
<1>2. ASSUME NEW t \in UdThreads, deleteTransportLayerIngress(t) PROVE UdInv'
  <2> PICK p \in DOMAIN udMap : UdRead(t, UdWithout(udMap, {p}), [kind |-> "delete", port |-> p])
    BY <1>2 DEF deleteTransportLayerIngress
  <2> DEFINE new == UdWithout(udMap, {p})
             op == [kind |-> "delete", port |-> p]
  <2>1. ToldAfter(udAsked, op, new) = {a \in udAsked : a[1] \notin {p}}
    BY DEF ToldAfter
  <2>2. {a \in Entries(udMap) : a[1] \notin {p}} = Entries(new)
    BY UdDeleted
  <2>3. UdRead(t, new, op)
    OBVIOUS
  <2> HIDE DEF new, op
  <2> QED
    BY <2>1, <2>2, <2>3, UdReads DEF UdThread
<1>3. ASSUME clearTransportLayerIngress PROVE UdInv'
  <2> PICK e \in udEvents :
        LET gone == {p \in DOMAIN udMap : Covers(e, udMap[p])} IN
          IF gone = {} THEN UNCHANGED <<udMap, udVersion, udOp, udAsked, udFaults, udRaced>>
          ELSE UdRead(UdLoop, UdWithout(udMap, gone), [kind |-> "clear", port |-> gone])
    BY <1>3 DEF clearTransportLayerIngress
  <2> DEFINE gone == {p \in DOMAIN udMap : Covers(e, udMap[p])}
             new == UdWithout(udMap, gone)
             op == [kind |-> "clear", port |-> gone]
  <2>1. CASE gone = {}
    BY <2>1 DEF UdInv, UdOpOK
  <2>2. CASE gone # {}
    <3> HIDE DEF gone
    <3>1. ToldAfter(udAsked, op, new) = {a \in udAsked : a[1] \notin gone}
      BY DEF ToldAfter
    <3>2. {a \in Entries(udMap) : a[1] \notin gone} = Entries(new)
      BY UdDeleted
    <3>3. UdRead(UdLoop, new, op)
      BY <2>2 DEF gone
    <3> HIDE DEF new, op
    <3> QED
      BY <3>1, <3>2, <3>3, UdReads DEF UdThread
  <2> QED
    BY <2>1, <2>2
<1>4. ASSUME PublishDelete PROVE UdInv'
  BY <1>4 DEF PublishDelete, UdInv, UdOpOK
<1>5. ASSUME NEW t \in UdThread, UdGet(t) PROVE UdInv'
  <2> DEFINE o == [at |-> "put", op |-> udOp[t].op, new |-> udOp[t].new, read |-> udOp[t].read, version |-> udVersion]
  <2>1. /\ udOp' = [udOp EXCEPT ![t] = o] /\ UNCHANGED <<udMap, udVersion, udAsked, udRaced>> /\ udOp[t].at = "get"
    BY <1>5 DEF UdGet
  <2>2. o.at = "put" /\ o.op = udOp[t].op /\ o.new = udOp[t].new /\ o.read = udOp[t].read
    OBVIOUS
  <2> HIDE DEF o
  <2>3. /\ udOp'[t] = o /\ \A u \in UdThread \ {t} : udOp'[u] = udOp[u]
        /\ udOp' = [u \in UdThread |-> udOp'[u]]
    BY <2>1 DEF UdInv
  <2>4. \A u \in UdThread : UdOpOK(udOp[u])'
    BY <2>1, <2>2, <2>3 DEF UdInv, UdOpOK
  <2> QED
    BY <2>1, <2>3, <2>4 DEF UdInv

<1>6. ASSUME NEW t \in UdThread, UdPut(t) PROVE UdInv'
  <2>1. udOp' = [udOp EXCEPT ![t] = UdIdle] /\ udOp[t].at = "put"
    BY <1>6 DEF UdPut
  <2>2. /\ udOp'[t] = UdIdle /\ \A u \in UdThread \ {t} : udOp'[u] = udOp[u]
        /\ udOp' = [u \in UdThread |-> udOp'[u]]
    BY <2>1 DEF UdInv
  <2>3. CASE /\ udMap' = udOp[t].new /\ udVersion' = udVersion + 1
             /\ udAsked' = ToldAfter(udAsked, udOp[t].op, udOp[t].new)
             /\ udRaced' = (udRaced \/ udOp[t].read # udVersion)
    <3>1. \A u \in UdThread : UdOpOK(udOp[u])'
      BY <2>2, <2>3, SMTT(40) DEF UdInv, UdOpOK, UdIdle
    <3>2. ~udRaced' => udAsked' = Entries(udMap)'
      <4> SUFFICES ASSUME ~udRaced' PROVE udAsked' = Entries(udOp[t].new)
        BY <2>3 DEF Entries
      <4>1. udOp[t].read = udVersion /\ udAsked = Entries(udMap)
        BY <2>3 DEF UdInv
      <4>2. UdOpOK(udOp[t])
        BY DEF UdInv
      <4> QED
        BY <2>1, <2>3, <4>1, <4>2 DEF UdOpOK
    <3> QED
      BY <2>2, <2>3, <3>1, <3>2, SMTT(40) DEF UdInv
  <2>4. CASE UNCHANGED <<udMap, udVersion, udAsked, udRaced>>
    <3>1. \A u \in UdThread : UdOpOK(udOp[u])'
      BY <2>2, <2>4, SMTT(40) DEF UdInv, UdOpOK, UdIdle
    <3> QED
      BY <2>2, <2>4, <3>1 DEF UdInv
  <2> QED
    BY <1>6, <2>3, <2>4 DEF UdPut, Told, ToldAfter
<1>7. ASSUME NEW t \in UdThread, UdFail(t) PROVE UdInv'
  <2>1. udOp' = [udOp EXCEPT ![t] = UdIdle] /\ UNCHANGED <<udMap, udVersion, udAsked, udRaced>>
    BY <1>7 DEF UdFail
  <2>2. /\ udOp'[t] = UdIdle /\ \A u \in UdThread \ {t} : udOp'[u] = udOp[u]
        /\ udOp' = [u \in UdThread |-> udOp'[u]]
    BY <2>1 DEF UdInv
  <2>3. \A u \in UdThread : UdOpOK(udOp[u])'
    BY <2>1, <2>2 DEF UdInv, UdOpOK, UdIdle
  <2> QED
    BY <2>1, <2>2, <2>3 DEF UdInv
<1>8. CASE UNCHANGED udVars
  BY <1>8 DEF udVars, UdInv, UdOpOK
<1> QED
  BY <1>1, <1>2, <1>3, <1>4, <1>5, <1>6, <1>7, <1>8 DEF UdNext, UdThread

(* updateConfigMap: for any number of ports, services, handlers and        *)
(* failing calls, an ingress whose creation was answered is listed in its  *)
(* namespace until it is deleted, unless a writer has replaced a map that  *)
(* changed after it was read.                                              *)
THEOREM IngressesAreListed == UdSpec => []UdToldIsThere
<1>1. UdInit => UdInv
  BY UdInitially
<1>2. UdInv /\ [UdNext]_udVars => UdInv'
  BY UdStep
<1>3. UdInv => UdToldIsThere
  BY UdInvImplies
<1> QED
  BY <1>1, <1>2, <1>3, PTL DEF UdSpec

-----------------------------------------------------------------------------
(***************************************************************************)
(* Autoscalers.  As long as the operations on an autoscaler do not overlap *)
(* and none fails after it has written the config map, the rules that name *)
(* the autoscaler are those of its object, or, between the write of the    *)
(* rules and the write of the object, those of the operation under way;    *)
(* an operation writes the config map only if no other has written it      *)
(* since it read it, and so changes no other autoscaler's rules.           *)
(***************************************************************************)

HaFields == {"at", "op", "h", "target", "metrics", "old", "new", "version", "written", "after", "cm"}

(* What an operation under way is to the config map. *)
HaOpOK(o) ==
  o.at # "idle" =>
    /\ DOMAIN o = HaFields
    /\ o.h \in HpaNames
    /\ o.at \in {"readRules", "writeRules", "restartAdapter", "writeHpa"}
    /\ \A r \in o.old \cup o.new : r[2] = o.h
    /\ o.new = IF o.op = "delete" THEN {} ELSE Alias(o.h, o.metrics)
    /\ o.cm \in 0 .. cmVersion
    /\ (o.at = "writeRules" /\ o.cm = cmVersion) => o.after = (rules \ o.old) \cup o.new
    /\ o.at \in {"readRules", "writeRules"} => ~o.written
    /\ o.at = "restartAdapter" => o.written
    /\ (o.at = "writeHpa" /\ ~o.written) => (o.old = {} /\ o.new = {})

On(o, h) == o.at # "idle" /\ o.h = h

Rows(h) == {r \in rules : r[2] = h}

(* The rules of an autoscaler whose operations neither overlapped nor failed half-way. *)
HaCalm(h) ==
  /\ \A t, u \in AllThreads : On(haOp[t], h) /\ On(haOp[u], h) => t = u
  /\ (\A t \in AllThreads : ~On(haOp[t], h)) => Rows(h) = AliasesOf(h)
  /\ \A t \in AllThreads : On(haOp[t], h) =>
       /\ haOp[t].old = AliasesOf(h)
       /\ Rows(h) = IF haOp[t].written THEN haOp[t].new ELSE haOp[t].old

HaInv ==
  /\ cmVersion \in Nat
  /\ haOp = [t \in AllThreads |-> haOp[t]]
  /\ hpas = [h \in HpaNames |-> hpas[h]]
  /\ \A t \in AllThreads : HaOpOK(haOp[t])
  /\ \A h \in HpaNames \ disturbed : HaCalm(h)

(* An autoscaler at rest has the rules of its object. *)
LEMMA HaInvImplies == HaInv => HaIsolated
<1> SUFFICES ASSUME HaInv, NEW h \in HpaNames, h \notin disturbed, ~Busy(h)
             PROVE  {r \in rules : r[2] = h} = AliasesOf(h)
  BY DEF HaIsolated
<1> QED
  BY DEF HaInv, HaCalm, Busy, On, Rows

(* createHPA, updateHPA and deleteHPA, and the deletion that follows a     *)
(* workload's, begin with the rules of the object as the old ones.         *)
LEMMA HaBegins ==
  ASSUME HaInv, NEW t \in AllThreads, NEW o,
         haOp[t] = HaIdle, haOp' = [haOp EXCEPT ![t] = o],
         disturbed' = IF Busy(o.h) THEN disturbed \cup {o.h} ELSE disturbed,
         UNCHANGED <<hpas, rules, cmVersion>>,
         HaOpOK(o), o.at = "readRules", o.old = AliasesOf(o.h)
  PROVE  HaInv'
<1>1. /\ haOp' = [u \in AllThreads |-> haOp'[u]]
      /\ haOp'[t] = o
      /\ \A u \in AllThreads : u # t => haOp'[u] = haOp[u]
  BY DEF HaInv
<1>2. /\ haOp[t].at = "idle" /\ o.at # "idle" /\ ~o.written /\ o.h \in HpaNames
  BY SMTT(40) DEF HaOpOK, HaIdle
<1>3. \A u \in AllThreads : HaOpOK(haOp[u])'
  BY <1>1, SMTT(40) DEF HaOpOK, HaInv
<1>4. ASSUME NEW h \in HpaNames \ disturbed'
      PROVE  HaCalm(h)'
  <2>1. HaCalm(h)
    BY DEF HaInv
  <2>2. AliasesOf(h)' = AliasesOf(h) /\ Rows(h)' = Rows(h)
    BY DEF AliasesOf, Rows
  <2>3. CASE h # o.h
    BY <2>1, <2>2, <2>3, <1>1, <1>2 DEF HaCalm, On
  <2>4. CASE h = o.h
    <3>1. \A u \in AllThreads : ~On(haOp[u], h)
      BY <2>4 DEF Busy, On
    <3>2. Rows(h) = AliasesOf(h)
      BY <2>1, <3>1 DEF HaCalm
    <3>3. \A u \in AllThreads : u # t => ~On(haOp'[u], h)
      BY <1>1, <3>1
    <3> QED
      BY <2>2, <2>4, <3>2, <3>3, <1>1, <1>2 DEF HaCalm, On
  <2> QED
    BY <2>3, <2>4
<1> QED
  BY <1>1, <1>3, <1>4 DEF HaInv

(* A step of an operation that writes nothing. *)
LEMMA HaAdvances ==
  ASSUME HaInv, NEW t \in AllThreads, NEW o, haOp' = [haOp EXCEPT ![t] = o],
         UNCHANGED <<hpas, rules, cmVersion, disturbed>>,
         haOp[t].at # "idle", o.at # "idle", HaOpOK(o),
         o.h = haOp[t].h, o.old = haOp[t].old, o.new = haOp[t].new, o.written = haOp[t].written
  PROVE  HaInv'
<1>1. /\ haOp' = [u \in AllThreads |-> haOp'[u]]
      /\ haOp'[t] = o
      /\ \A u \in AllThreads : u # t => haOp'[u] = haOp[u]
  BY DEF HaInv
<1>2. \A u \in AllThreads : HaOpOK(haOp[u])'
  BY <1>1, SMTT(40) DEF HaOpOK, HaInv
<1>3. ASSUME NEW h \in HpaNames \ disturbed'
      PROVE  HaCalm(h)'
  <2>1. HaCalm(h)
    BY DEF HaInv
  <2>2. AliasesOf(h)' = AliasesOf(h) /\ Rows(h)' = Rows(h)
    BY DEF AliasesOf, Rows
  <2>3. \A u \in AllThreads : /\ On(haOp'[u], h) = On(haOp[u], h)
                              /\ haOp'[u].old = haOp[u].old /\ haOp'[u].new = haOp[u].new
                              /\ haOp'[u].written = haOp[u].written
    BY <1>1 DEF On
  <2> QED
    BY <2>1, <2>2, <2>3, SMTT(40) DEF HaCalm
<1> QED
  BY <1>1, <1>2, <1>3 DEF HaInv

(* A handler that answers with an error before it has written the config   *)
(* map leaves the rules as they were.                                      *)
LEMMA HaGivesUp ==
  ASSUME HaInv, NEW t \in AllThreads, GiveUp(t), haOp[t].at # "idle", UNCHANGED <<hpas, rules, cmVersion>>
  PROVE  HaInv'
<1>1. /\ haOp' = [u \in AllThreads |-> haOp'[u]]
      /\ haOp'[t] = HaIdle
      /\ \A u \in AllThreads : u # t => haOp'[u] = haOp[u]
  BY DEF HaInv, GiveUp
<1>2. HaIdle.at = "idle"
  BY DEF HaIdle
<1>3. \A u \in AllThreads : HaOpOK(haOp[u])'
  BY <1>1, <1>2, SMTT(40) DEF HaOpOK, HaInv
<1>4. ASSUME NEW h \in HpaNames \ disturbed'
      PROVE  HaCalm(h)'
  <2>1. HaCalm(h)
    BY DEF HaInv, GiveUp
  <2>2. AliasesOf(h)' = AliasesOf(h) /\ Rows(h)' = Rows(h)
    BY DEF AliasesOf, Rows
  <2>3. CASE haOp[t].h # h
    BY <2>1, <2>2, <2>3, <1>1, <1>2, SMTT(40) DEF HaCalm, On
  <2>4. CASE haOp[t].h = h
    <3>1. ~haOp[t].written
      BY <2>4 DEF GiveUp
    <3>2. On(haOp[t], h)
      BY <2>4 DEF On
    <3>3. Rows(h) = AliasesOf(h)
      BY <2>1, <3>1, <3>2, SMTT(40) DEF HaCalm
    <3>4. \A u \in AllThreads : ~On(haOp'[u], h)
      BY <2>1, <3>2, <1>1, <1>2 DEF HaCalm, On
    <3> QED
      BY <2>2, <3>3, <3>4 DEF HaCalm
  <2> QED
    BY <2>3, <2>4
<1> QED
  BY <1>1, <1>3, <1>4 DEF HaInv

(* The fields of an operation that moved on. *)
LEMMA HaMoves ==
  ASSUME NEW o, DOMAIN o = HaFields, NEW at
  PROVE  LET n == [o EXCEPT !.at = at] IN
         /\ DOMAIN n = HaFields /\ n.at = at /\ n.op = o.op /\ n.h = o.h /\ n.metrics = o.metrics
         /\ n.old = o.old /\ n.new = o.new /\ n.written = o.written /\ n.after = o.after /\ n.cm = o.cm
  BY DEF HaFields

(* The record of an operation that has read the rules, field by field. *)
LEMMA HaReadIt ==
  ASSUME NEW o, DOMAIN o = HaFields, NEW after, NEW cm
  PROVE  LET n == [o EXCEPT !.at = "writeRules", !.after = after, !.cm = cm] IN
         /\ DOMAIN n = HaFields /\ n.at = "writeRules" /\ n.op = o.op /\ n.h = o.h /\ n.metrics = o.metrics
         /\ n.old = o.old /\ n.new = o.new /\ n.written = o.written /\ n.after = after /\ n.cm = cm
  BY DEF HaFields

(* The record of an operation that has written the rules, field by field. *)
LEMMA HaWroteIt ==
  ASSUME NEW o, DOMAIN o = HaFields
  PROVE  LET n == [o EXCEPT !.at = "restartAdapter", !.written = TRUE] IN
         /\ DOMAIN n = HaFields /\ n.at = "restartAdapter" /\ n.op = o.op /\ n.h = o.h /\ n.metrics = o.metrics
         /\ n.old = o.old /\ n.new = o.new /\ n.written = TRUE /\ n.after = o.after /\ n.cm = o.cm
  BY DEF HaFields

(* updatePrometheusAdapterConfigMap reads the config map. *)
LEMMA HaReads == ASSUME HaInv, NEW t \in AllThreads, ReadRules(t) PROVE HaInv'
<1> DEFINE o == haOp[t]
<1>1. HaOpOK(o) /\ o.at = "readRules" /\ DOMAIN o = HaFields
  BY DEF ReadRules, HaInv, HaOpOK
<1>2. CASE /\ o.old = {} /\ o.new = {}
           /\ haOp' = [haOp EXCEPT ![t].at = "writeHpa"]
           /\ UNCHANGED disturbed
  <2> DEFINE n == [o EXCEPT !.at = "writeHpa"]
  <2>1. /\ DOMAIN n = HaFields /\ n.at = "writeHpa" /\ n.op = o.op /\ n.h = o.h /\ n.metrics = o.metrics
        /\ n.old = o.old /\ n.new = o.new /\ n.written = o.written /\ n.after = o.after /\ n.cm = o.cm
    BY <1>1, HaMoves
  <2>2. haOp' = [haOp EXCEPT ![t] = n]
    BY <1>2
  <2> HIDE DEF n
  <2>3. HaOpOK(n)
    BY <1>1, <1>2, <2>1 DEF HaOpOK
  <2> QED
    BY <1>1, <1>2, <2>1, <2>2, <2>3, HaAdvances DEF ReadRules
<1>3. CASE /\ haOp' = [haOp EXCEPT ![t] = [o EXCEPT !.at = "writeRules", !.after = RulesAfter(o), !.cm = cmVersion]]
           /\ UNCHANGED disturbed
  <2> DEFINE n == [o EXCEPT !.at = "writeRules", !.after = RulesAfter(o), !.cm = cmVersion]
  <2>1. /\ DOMAIN n = HaFields /\ n.at = "writeRules" /\ n.op = o.op /\ n.h = o.h /\ n.metrics = o.metrics
        /\ n.old = o.old /\ n.new = o.new /\ n.written = o.written /\ n.after = RulesAfter(o) /\ n.cm = cmVersion
    BY <1>1, HaReadIt, SMTT(40)
  <2>2. haOp' = [haOp EXCEPT ![t] = n]
    BY <1>3
  <2> HIDE DEF n
  <2>3. HaOpOK(n)
    BY <1>1, <2>1, SMTT(40) DEF HaOpOK, RulesAfter, HaInv
  <2> QED
    BY <1>1, <1>3, <2>1, <2>2, <2>3, HaAdvances DEF ReadRules
<1>4. CASE GiveUp(t)
  BY <1>1, <1>4, HaGivesUp DEF ReadRules
<1> QED
  BY <1>2, <1>3, <1>4 DEF ReadRules

(* The config map is written if it did not change since it was read: the   *)
(* rules of every other autoscaler are the ones it had.                    *)
LEMMA HaWrites == ASSUME HaInv, NEW t \in AllThreads, WriteRules(t) PROVE HaInv'
<1> DEFINE o == haOp[t]
<1>1. HaOpOK(o) /\ o.at = "writeRules" /\ DOMAIN o = HaFields /\ cmVersion \in Nat
  BY DEF WriteRules, HaInv, HaOpOK
<1>2. CASE GiveUp(t) /\ UNCHANGED <<rules, cmVersion>>
  BY <1>1, <1>2, HaGivesUp DEF WriteRules
<1>3. CASE /\ o.cm = cmVersion
           /\ rules' = o.after /\ cmVersion' = cmVersion + 1
           /\ haOp' = [haOp EXCEPT ![t].at = "restartAdapter", ![t].written = TRUE]
           /\ UNCHANGED disturbed
  <2> DEFINE n == [o EXCEPT !.at = "restartAdapter", !.written = TRUE]
  <2>1. /\ DOMAIN n = HaFields /\ n.at = "restartAdapter" /\ n.op = o.op /\ n.h = o.h /\ n.metrics = o.metrics
        /\ n.old = o.old /\ n.new = o.new /\ n.written = TRUE /\ n.after = o.after /\ n.cm = o.cm
    BY <1>1, HaWroteIt
  <2>2. haOp' = [haOp EXCEPT ![t] = n]
    BY <1>3
  <2> HIDE DEF n
  <2>3. /\ haOp' = [u \in AllThreads |-> haOp'[u]]
        /\ haOp'[t] = n
        /\ \A u \in AllThreads : u # t => haOp'[u] = haOp[u]
    BY <2>2 DEF HaInv
  <2>4. rules' = (rules \ o.old) \cup o.new
    BY <1>1, <1>3 DEF HaOpOK
  <2>5. \A u \in AllThreads : HaOpOK(haOp[u])'
    <3>1. HaOpOK(haOp[t])'
      <4>1. o.h \in HpaNames /\ o.cm \in 0 .. cmVersion' /\ (\A r \in o.old \cup o.new : r[2] = o.h)
            /\ o.new = IF o.op = "delete" THEN {} ELSE Alias(o.h, o.metrics)
        BY <1>1, <1>3, SMTT(40) DEF HaOpOK
      <4>2. haOp'[t] = n
        BY <2>3
      <4> QED
        BY <4>1, <4>2, <2>1 DEF HaOpOK
    <3>2. ASSUME NEW u \in AllThreads, u # t
          PROVE  HaOpOK(haOp[u])'
      BY <1>1, <1>3, <2>3, <3>2, SMTT(40) DEF HaOpOK, HaInv
    <3> QED
      BY <3>1, <3>2
  <2>6. ASSUME NEW h \in HpaNames \ disturbed'
        PROVE  HaCalm(h)'
    <3>1. HaCalm(h) /\ AliasesOf(h)' = AliasesOf(h)
      BY <1>3 DEF HaInv, AliasesOf, WriteRules
    <3>2. CASE o.h # h
      <4>1. Rows(h)' = Rows(h)
        BY <1>1, <2>4, <3>2 DEF Rows, HaOpOK
      <4> QED
        BY <2>1, <2>3, <3>1, <3>2, <4>1, SMTT(40) DEF HaCalm, On
    <3>3. CASE o.h = h
      <4>1. On(o, h) /\ ~o.written
        BY <1>1, <3>3 DEF On, HaOpOK
      <4>2. Rows(h) = o.old
        BY <3>1, <4>1 DEF HaCalm
      <4>3. Rows(h)' = o.new
        BY <1>1, <2>4, <3>3, <4>2 DEF Rows, HaOpOK
      <4>4. \A u \in AllThreads : u # t => ~On(haOp'[u], h)
        BY <2>3, <3>1, <4>1 DEF HaCalm
      <4>5. On(n, h) /\ n.old = AliasesOf(h)'
        BY <2>1, <3>1, <3>3, <4>1 DEF On, HaCalm
      <4> QED
        BY <2>1, <2>3, <4>3, <4>4, <4>5 DEF HaCalm
    <3> QED
      BY <3>2, <3>3
  <2> QED
    BY <1>1, <1>3, <2>3, <2>5, <2>6, SMTT(40) DEF HaInv, WriteRules
<1> QED
  BY <1>2, <1>3 DEF WriteRules

(* The object is written last: its metrics are then the rules. *)
LEMMA HaEnds == ASSUME HaInv, NEW t \in AllThreads, WriteHpa(t) PROVE HaInv'
<1> DEFINE o == haOp[t]
           new == IF o.op = "delete" THEN NoHpa
                  ELSE [exists |-> TRUE, target |-> o.target, metrics |-> o.metrics, version |-> o.version + 1]
<1>1. HaOpOK(o) /\ o.at = "writeHpa" /\ o.h \in HpaNames
  BY DEF WriteHpa, HaInv, HaOpOK
<1>2. CASE GiveUp(t) /\ UNCHANGED hpas
  BY <1>1, <1>2, HaGivesUp DEF WriteHpa
<1>3. CASE /\ hpas' = [hpas EXCEPT ![o.h] = new]
           /\ haOp' = [haOp EXCEPT ![t] = HaIdle]
           /\ UNCHANGED disturbed
  <2>1. /\ haOp' = [u \in AllThreads |-> haOp'[u]]
        /\ haOp'[t] = HaIdle /\ HaIdle.at = "idle"
        /\ \A u \in AllThreads : u # t => haOp'[u] = haOp[u]
    BY <1>3 DEF HaInv, HaIdle
  <2>2. IF o.op = "delete" THEN new.exists = FALSE ELSE new.exists = TRUE /\ new.metrics = o.metrics
    BY DEF NoHpa
  <2> HIDE DEF new
  <2>3. /\ hpas' = [h \in HpaNames |-> hpas'[h]]
        /\ hpas'[o.h] = new
        /\ \A h \in HpaNames : h # o.h => hpas'[h] = hpas[h]
    BY <1>1, <1>3 DEF HaInv
  <2>4. UNCHANGED <<rules, cmVersion>>
    BY DEF WriteHpa
  <2>5. \A u \in AllThreads : HaOpOK(haOp[u])'
    BY <2>1, <2>4, SMTT(40) DEF HaOpOK, HaInv
  <2>6. ASSUME NEW h \in HpaNames \ disturbed'
        PROVE  HaCalm(h)'
    <3>1. HaCalm(h) /\ Rows(h)' = Rows(h)
      BY <1>3, <2>4 DEF HaInv, Rows
    <3>2. CASE o.h # h
      <4>1. AliasesOf(h)' = AliasesOf(h)
        BY <2>3, <3>2 DEF AliasesOf
      <4> QED
        BY <2>1, <3>1, <3>2, <4>1, SMTT(40) DEF HaCalm, On
    <3>3. CASE o.h = h
      <4>1. On(o, h)
        BY <1>1, <3>3 DEF On
      <4>2. Rows(h) = o.new
        BY <1>1, <3>1, <4>1 DEF HaCalm, HaOpOK
      <4>3. AliasesOf(h)' = o.new
        BY <1>1, <2>2, <2>3, <3>3 DEF AliasesOf, HaOpOK
      <4>4. \A u \in AllThreads : ~On(haOp'[u], h)
        BY <2>1, <3>1, <4>1 DEF HaCalm, On
      <4> QED
        BY <3>1, <4>2, <4>3, <4>4 DEF HaCalm
    <3> QED
      BY <3>2, <3>3
  <2> QED
    BY <1>3, <2>1, <2>3, <2>4, <2>5, <2>6 DEF HaInv
<1> QED
  BY <1>2, <1>3 DEF WriteHpa

(* A deletion begins with the rules of its object. *)
LEMMA HaDeletes ==
  ASSUME HaInv, NEW h \in HpaNames
  PROVE  /\ HaOpOK(DeleteOp(h)) /\ DeleteOp(h).at = "readRules"
         /\ DeleteOp(h).h = h /\ DeleteOp(h).old = AliasesOf(h)
<1> DEFINE o == DeleteOp(h)
<1>1. /\ DOMAIN o = HaFields /\ o.at = "readRules" /\ o.h = h /\ o.op = "delete"
      /\ o.old = AliasesOf(h) /\ o.new = {} /\ o.written = FALSE /\ o.cm = 0
  BY DEF DeleteOp, HaFields
<1> HIDE DEF o
<1>2. \A r \in AliasesOf(h) : r[2] = h
  BY SMTT(40) DEF AliasesOf, Alias
<1>3. HaOpOK(o)
  BY <1>1, <1>2, SMTT(40) DEF HaOpOK, HaInv
<1> QED
  BY <1>1, <1>3 DEF o

(* No operation runs at the start. *)
LEMMA HaInitially == HaInit => HaInv
<1> SUFFICES ASSUME HaInit PROVE HaInv
  OBVIOUS
<1>1. HaIdle.at = "idle" /\ NoHpa.exists = FALSE
  BY DEF HaIdle, NoHpa
<1>2. \A t \in AllThreads : haOp[t].at = "idle"
  BY <1>1 DEF HaInit
<1>3. \A h \in HpaNames : HaCalm(h)
  BY <1>1, <1>2 DEF HaInit, HaCalm, On, Rows, AliasesOf
<1> QED
  BY <1>2, <1>3 DEF HaInit, HaInv, HaOpOK

(* Every step of the autoscaler handlers keeps the invariant. *)
LEMMA HaStep == HaInv /\ [HaNext]_haVars => HaInv'
<1> SUFFICES ASSUME HaInv, [HaNext]_haVars PROVE HaInv'
  OBVIOUS
<1>1. ASSUME NEW t \in HaThreads, createHPA(t) PROVE HaInv'
  <2>1. PICK h \in HpaNames, w \in Targets, ms \in SUBSET MetricNames :
          /\ \A g \in HpaNames : hpas[g].exists => g # h /\ hpas[g].target # w
          /\ Begin(t, [at |-> "readRules", op |-> "create", h |-> h, target |-> w, metrics |-> ms,
                       old |-> {}, new |-> Alias(h, ms), version |-> 0, written |-> FALSE, after |-> {}, cm |-> 0])
    BY <1>1 DEF createHPA
  <2> DEFINE o == [at |-> "readRules", op |-> "create", h |-> h, target |-> w, metrics |-> ms,
                   old |-> {}, new |-> Alias(h, ms), version |-> 0, written |-> FALSE, after |-> {}, cm |-> 0]
  <2>2. /\ DOMAIN o = HaFields /\ o.at = "readRules" /\ o.h = h /\ o.op = "create" /\ o.metrics = ms
        /\ o.old = {} /\ o.new = Alias(h, ms) /\ o.written = FALSE /\ o.cm = 0
    BY DEF HaFields
  <2>3. Begin(t, o)
    BY <2>1
  <2> HIDE DEF o
  <2>4. AliasesOf(h) = {} /\ \A r \in Alias(h, ms) : r[2] = h
    BY <2>1, SMTT(40) DEF AliasesOf, Alias
  <2>5. HaOpOK(o) /\ o.old = AliasesOf(o.h)
    BY <2>2, <2>4, SMTT(40) DEF HaOpOK, HaInv
  <2> QED
    BY <2>2, <2>3, <2>5, HaBegins DEF Begin, AllThreads
<1>2. ASSUME NEW t \in HaThreads, updateHPA(t) PROVE HaInv'
  <2>1. PICK h \in HpaNames, ms \in SUBSET MetricNames :
          Begin(t, [at |-> "readRules", op |-> "update", h |-> h, target |-> hpas[h].target, metrics |-> ms,
                    old |-> AliasesOf(h), new |-> Alias(h, ms), version |-> hpas[h].version, written |-> FALSE,
                    after |-> {}, cm |-> 0])
    BY <1>2 DEF updateHPA
  <2> DEFINE o == [at |-> "readRules", op |-> "update", h |-> h, target |-> hpas[h].target, metrics |-> ms,
                   old |-> AliasesOf(h), new |-> Alias(h, ms), version |-> hpas[h].version, written |-> FALSE,
                   after |-> {}, cm |-> 0]
  <2>2. /\ DOMAIN o = HaFields /\ o.at = "readRules" /\ o.h = h /\ o.op = "update" /\ o.metrics = ms
        /\ o.old = AliasesOf(h) /\ o.new = Alias(h, ms) /\ o.written = FALSE /\ o.cm = 0
    BY DEF HaFields
  <2>3. Begin(t, o)
    BY <2>1
  <2> HIDE DEF o
  <2>4. \A r \in AliasesOf(h) \cup Alias(h, ms) : r[2] = h
    BY SMTT(40) DEF AliasesOf, Alias
  <2>5. HaOpOK(o) /\ o.old = AliasesOf(o.h)
    BY <2>2, <2>4, SMTT(40) DEF HaOpOK, HaInv
  <2> QED
    BY <2>2, <2>3, <2>5, HaBegins DEF Begin, AllThreads
<1>3. ASSUME NEW t \in HaThreads, deleteHPA(t) PROVE HaInv'
  <2>1. PICK h \in HpaNames : Begin(t, DeleteOp(h))
    BY <1>3 DEF deleteHPA
  <2> QED
    BY <2>1, HaDeletes, HaBegins DEF Begin, AllThreads
<1>4. ASSUME WorkloadDeleted PROVE HaInv'
  BY <1>4, SMTT(40) DEF WorkloadDeleted, HaInv, HaOpOK, HaCalm, Rows, AliasesOf
<1>5. ASSUME deleteHPAWhenDeleteWorkload PROVE HaInv'
  <2>1. CASE UNCHANGED <<haOp, disturbed>>
    BY <1>5, <2>1 DEF deleteHPAWhenDeleteWorkload, HaInv, HaOpOK, HaCalm, Rows, AliasesOf
  <2>2. CASE \E h \in HpaNames :
               /\ haOp' = [haOp EXCEPT ![Loop] = DeleteOp(h)]
               /\ disturbed' = IF Busy(h) THEN disturbed \cup {h} ELSE disturbed
    <3>1. PICK h \in HpaNames :
            /\ haOp' = [haOp EXCEPT ![Loop] = DeleteOp(h)]
            /\ disturbed' = IF Busy(h) THEN disturbed \cup {h} ELSE disturbed
      BY <2>2
    <3> QED
      <4>1. haOp[Loop] = HaIdle /\ UNCHANGED <<hpas, rules, cmVersion>>
        BY <1>5 DEF deleteHPAWhenDeleteWorkload
      <4>2. HaOpOK(DeleteOp(h)) /\ DeleteOp(h).at = "readRules" /\ DeleteOp(h).h = h /\ DeleteOp(h).old = AliasesOf(h)
        BY HaDeletes
      <4> QED
        BY <3>1, <4>1, <4>2, HaBegins DEF AllThreads
  <2> QED
    BY <1>5, <2>1, <2>2 DEF deleteHPAWhenDeleteWorkload
<1>6. ASSUME NEW t \in AllThreads, RestartAdapter(t) PROVE HaInv'
  <2> DEFINE o == haOp[t]
             n == [o EXCEPT !.at = "writeHpa"]
  <2>1. HaOpOK(o) /\ o.at = "restartAdapter" /\ DOMAIN o = HaFields
    BY <1>6 DEF RestartAdapter, HaInv, HaOpOK
  <2>2. /\ DOMAIN n = HaFields /\ n.at = "writeHpa" /\ n.op = o.op /\ n.h = o.h /\ n.metrics = o.metrics
        /\ n.old = o.old /\ n.new = o.new /\ n.written = o.written /\ n.after = o.after /\ n.cm = o.cm
    BY <2>1, HaMoves
  <2>3. haOp' = [haOp EXCEPT ![t] = n]
    BY <1>6 DEF RestartAdapter
  <2> HIDE DEF n
  <2>4. HaOpOK(n)
    BY <2>1, <2>2 DEF HaOpOK
  <2> QED
    BY <1>6, <2>1, <2>2, <2>3, <2>4, HaAdvances DEF RestartAdapter
<1>7. ASSUME NEW t \in AllThreads, Fail(t) PROVE HaInv'
  BY <1>7, HaGivesUp DEF Fail
<1>8. ASSUME UNCHANGED haVars PROVE HaInv'
  BY <1>8, SMTT(40) DEF haVars, HaInv, HaOpOK, HaCalm, Rows, AliasesOf
<1> QED
  BY <1>1, <1>2, <1>3, <1>4, <1>5, <1>6, <1>7, <1>8, HaReads, HaWrites, HaEnds DEF HaNext

(* Operations on one autoscaler never change the rules of another, however *)
(* handlers and the event loop interleave and whatever call fails: unless  *)
(* its own operations overlapped or one failed after writing the config    *)
(* map, an autoscaler at rest has exactly the rules of its custom metrics. *)
THEOREM RulesAreIsolated == HaSpec => []HaIsolated
<1> QED
  BY HaInitially, HaStep, HaInvImplies, PTL DEF HaSpec

(* Both at once: handlers that rewrite a config map keep the entries that  *)
(* others put there.                                                       *)
THEOREM SharedMapsAreKept == HaSpec /\ UdSpec => []SharedMapsKept
<1>1. HaIsolated /\ UdToldIsThere => SharedMapsKept
  BY DEF SharedMapsKept
<1> QED
  BY <1>1, IngressesAreListed, RulesAreIsolated, PTL

-----------------------------------------------------------------------------
(***************************************************************************)
(* Storages.  A handler that has found a storage unused, or the change     *)
(* harmless, holds a copy of the object; as long as nobody has written the *)
(* object since, what the handler found is still so.  Only Update's write  *)
(* of the object asks for that: the writes of a secret and the mark of a   *)
(* deletion on an older check are ActsOnOldCheck.                          *)
(***************************************************************************)

StKeys == Kinds \X StNames

(* A key is the kind and the name of a storage. *)
LEMMA StKeyPair == ASSUME NEW k \in StKeys PROVE k = <<k[1], k[2]>>
  BY SMT DEF StKeys

(* The update may be written over the object. *)
StHarmless(k, o, w) ==
    /\ k[1] = "iscsi" => ((o.target # w.target \/ o.chap # w.chap) => ~o.used)
    /\ k[1] = "nfs" => ~o.used
    /\ k[1] # "iscsi" => w.chap = FALSE

StReqOK(r) ==
    \/ /\ r.at = "idle" /\ DOMAIN r = {"at"}
    \/ /\ r.at \in {"create", "update", "validate", "createSecret", "createObject"}
       /\ DOMAIN r = {"at", "type", "want"}
       /\ r.type \in Types /\ r.want.name \in StNames
       /\ r.type # "iscsi" => r.want.chap = FALSE
    \/ /\ r.at = "delete" /\ DOMAIN r = {"at", "name"} /\ r.name \in StNames
    \/ /\ r.at \in {"deleteSecret", "deleteObject"} /\ DOMAIN r = {"at", "key", "fresh"} /\ r.key \in StKeys
       /\ r.fresh => ~stObjs[r.key].used
       /\ r.at = "deleteSecret" => r.key[1] = "iscsi"
    \/ /\ r.at \in {"updateSecret", "updateObject"} /\ DOMAIN r = {"at", "want", "key", "fresh", "read"}
       /\ r.key \in StKeys
       /\ r.fresh => (stObjs[r.key] # NoObject /\ StHarmless(r.key, stObjs[r.key], r.want))
       /\ r.at = "updateSecret" => (r.key = <<"iscsi", r.want.name>> /\ (r.fresh => ~stObjs[r.key].used))

StInv ==
    /\ stObjs = [k \in StKeys |-> stObjs[k]]
    /\ \A k \in StKeys : StObjOK(k, stObjs[k])
    /\ stReq = [s \in StSlots |-> stReq[s]]
    /\ \A s \in StSlots : StReqOK(stReq[s])

(* The absent object, and the request that asks for nothing. *)
LEMMA StNoObject == DOMAIN NoObject = {"is"} /\ StReqOK(StIdle)
  BY DEF NoObject, StIdle, StReqOK

(* A request goes on without writing an object. *)
LEMMA StGoesOn ==
  ASSUME StInv, NEW s \in StSlots, NEW r, stReq' = [stReq EXCEPT ![s] = r], StReqOK(r), UNCHANGED stObjs
  PROVE  StInv'
<1>1. stReq' = [u \in StSlots |-> stReq'[u]] /\ stReq'[s] = r /\ \A u \in StSlots : u # s => stReq'[u] = stReq[u]
  BY DEF StInv
<1>2. ASSUME NEW u \in StSlots PROVE StReqOK(stReq[u])'
  <2>1. CASE u = s
    BY <1>1, <2>1 DEF StReqOK
  <2>2. CASE u # s
    <3>1. StReqOK(stReq[u]) /\ stReq'[u] = stReq[u]
      BY <1>1, <2>2 DEF StInv
    <3> QED
      BY <3>1 DEF StReqOK
  <2> QED
    BY <2>1, <2>2
<1> QED
  BY <1>1, <1>2 DEF StInv

(* A request that has moved to another call without new data. *)
LEMMA StMoved ==
  ASSUME NEW s \in StSlots, StReqOK(stReq[s]), NEW label,
         \/ stReq[s].at \in {"create", "validate", "createSecret"} /\ label \in {"validate", "createSecret", "createObject"}
         \/ stReq[s].at = "deleteSecret" /\ label = "deleteObject"
         \/ stReq[s].at = "updateSecret" /\ label = "updateObject"
  PROVE  StReqOK([stReq[s] EXCEPT !.at = label])
<1> DEFINE r == stReq[s]
           n == [r EXCEPT !.at = label]
<1>1. CASE r.at \in {"create", "validate", "createSecret"} /\ label \in {"validate", "createSecret", "createObject"}
  <2>1. DOMAIN r = {"at", "type", "want"}
    BY <1>1 DEF StReqOK
  <2>2. DOMAIN n = {"at", "type", "want"} /\ n.at = label /\ n.type = r.type /\ n.want = r.want
    BY <2>1
  <2> HIDE DEF n
  <2>3. StReqOK(n)
    BY <1>1, <2>2 DEF StReqOK
  <2> QED
    BY <2>3 DEF n
<1>2. CASE r.at = "deleteSecret" /\ label = "deleteObject"
  <2>1. DOMAIN r = {"at", "key", "fresh"}
    BY <1>2 DEF StReqOK
  <2>2. DOMAIN n = {"at", "key", "fresh"} /\ n.at = label /\ n.key = r.key /\ n.fresh = r.fresh
    BY <2>1
  <2> HIDE DEF n
  <2>3. StReqOK(n)
    BY <1>2, <2>2 DEF StReqOK
  <2> QED
    BY <2>3 DEF n
<1>3. CASE r.at = "updateSecret" /\ label = "updateObject"
  <2>1. DOMAIN r = {"at", "want", "key", "fresh", "read"}
    BY <1>3 DEF StReqOK
  <2>2. /\ DOMAIN n = {"at", "want", "key", "fresh", "read"}
        /\ n.at = label /\ n.want = r.want /\ n.key = r.key /\ n.fresh = r.fresh
    BY <2>1
  <2> HIDE DEF n
  <2>3. StReqOK(n)
    BY <1>3, <2>2 DEF StReqOK
  <2> QED
    BY <2>3 DEF n
<1> QED
  BY <1>1, <1>2, <1>3

(* A write of an object: the copies that others hold of it are stale. *)
LEMMA StWrites ==
  ASSUME StInv, NEW k \in StKeys, NEW o, StObjOK(k, o), NEW req, StWrite(k, o, req),
         \A s \in StSlots : StReqOK(req[s])
  PROVE  StInv'
<1>1. stObjs' = [j \in StKeys |-> stObjs'[j]] /\ stObjs'[k] = o /\ \A j \in StKeys : j # k => stObjs'[j] = stObjs[j]
  BY DEF StInv, StWrite
<1>2. \A j \in StKeys : StObjOK(j, stObjs[j])'
  BY <1>1, SMTT(40) DEF StInv, StObjOK
<1>3. stReq' = [s \in StSlots |-> stReq'[s]]
  BY DEF StWrite
<1>4. ASSUME NEW s \in StSlots PROVE StReqOK(stReq[s])'
  <2> DEFINE r == req[s]
             n == [r EXCEPT !.fresh = FALSE]
  <2>1. StReqOK(r)
    OBVIOUS
  <2>2. CASE "fresh" \in DOMAIN r /\ r.key = k
    <3>1. stReq'[s] = n
      BY <2>2 DEF StWrite
    <3>2. CASE r.at \in {"updateSecret", "updateObject"}
      <4>1. DOMAIN r = {"at", "want", "key", "fresh", "read"} /\ r.key \in StKeys
        BY <2>1, <3>2 DEF StReqOK
      <4>2. r.at = "updateSecret" => r.key = <<"iscsi", r.want.name>>
        BY <2>1, <3>2 DEF StReqOK
      <4>3. /\ DOMAIN n = {"at", "want", "key", "fresh", "read"}
            /\ n.at = r.at /\ n.want = r.want /\ n.key = r.key /\ n.fresh = FALSE
        BY <4>1
      <4> HIDE DEF n
      <4> QED
        BY <3>1, <3>2, <4>1, <4>2, <4>3 DEF StReqOK
    <3>3. CASE r.at \in {"deleteSecret", "deleteObject"}
      <4>1. DOMAIN r = {"at", "key", "fresh"} /\ r.key \in StKeys /\ (r.at = "deleteSecret" => r.key[1] = "iscsi")
        BY <2>1, <3>3 DEF StReqOK
      <4>2. DOMAIN n = {"at", "key", "fresh"} /\ n.at = r.at /\ n.key = r.key /\ n.fresh = FALSE
        BY <4>1
      <4> HIDE DEF n
      <4> QED
        BY <3>1, <3>3, <4>1, <4>2 DEF StReqOK
    <3>4. r.at \in {"updateSecret", "updateObject", "deleteSecret", "deleteObject"}
      BY <2>1, <2>2, SMTT(40) DEF StReqOK
    <3> QED
      BY <3>2, <3>3, <3>4
  <2>3. CASE ~("fresh" \in DOMAIN r /\ r.key = k)
    <3>1. stReq'[s] = r
      BY <2>3 DEF StWrite
    <3>2. CASE r.at \in {"updateSecret", "updateObject"}
      <4>1. DOMAIN r = {"at", "want", "key", "fresh", "read"} /\ r.key \in StKeys
        BY <2>1, <3>2 DEF StReqOK
      <4>2. stObjs'[r.key] = stObjs[r.key]
        BY <1>1, <2>3, <4>1
      <4> QED
        BY <2>1, <3>1, <3>2, <4>2 DEF StReqOK
    <3>3. CASE r.at \in {"deleteSecret", "deleteObject"}
      <4>1. DOMAIN r = {"at", "key", "fresh"} /\ r.key \in StKeys
        BY <2>1, <3>3 DEF StReqOK
      <4>2. stObjs'[r.key] = stObjs[r.key]
        BY <1>1, <2>3, <4>1
      <4> QED
        BY <2>1, <3>1, <3>3, <4>2 DEF StReqOK
    <3>4. CASE r.at \notin {"updateSecret", "updateObject", "deleteSecret", "deleteObject"}
      BY <2>1, <3>1, <3>4 DEF StReqOK
    <3> QED
      BY <3>2, <3>3, <3>4
  <2> QED
    BY <2>2, <2>3
<1> QED
  BY <1>1, <1>2, <1>3, <1>4 DEF StInv

(* The fields of an object the operator or a handler has changed. *)
LEMMA StEdited ==
  ASSUME NEW k, NEW o, o # NoObject, StObjOK(k, o), NEW v, NEW c
  PROVE  /\ StObjOK(k, [o EXCEPT !.phase = v]) /\ StObjOK(k, [o EXCEPT !.phase = v, !.config = c])
         /\ StObjOK(k, [o EXCEPT !.used = v]) /\ StObjOK(k, [o EXCEPT !.deleting = v])
  BY DEF StObjOK, StFields

(* Of an object that somebody uses, the target and the authentication stay. *)
StStays(o, n) == n # NoObject /\ n.target = o.target /\ n.chap = o.chap
StUnmarked(o, n) == n.deleting = o.deleting

(* Edits of the phase, of the use or of the deletion mark keep a storage   *)
(* as it is used; the first two do not mark it.                            *)
LEMMA StEditedStays ==
  ASSUME NEW k, NEW o, o # NoObject, StObjOK(k, o), NEW v, NEW c
  PROVE  /\ StStays(o, [o EXCEPT !.phase = v]) /\ StStays(o, [o EXCEPT !.phase = v, !.config = c])
         /\ StStays(o, [o EXCEPT !.used = v]) /\ StStays(o, [o EXCEPT !.deleting = v])
         /\ StUnmarked(o, [o EXCEPT !.phase = v]) /\ StUnmarked(o, [o EXCEPT !.phase = v, !.config = c])
         /\ StUnmarked(o, [o EXCEPT !.used = v])
  BY StNoObject DEF StObjOK, StFields, StStays, StUnmarked

(* Update's write: whoever has checked the object since it was last        *)
(* written changes neither while it is used.                               *)
LEMMA StWantedStays ==
  ASSUME NEW k, NEW o, o # NoObject, StObjOK(k, o), NEW w, StHarmless(k, o, w), NEW hosts, NEW target,
         target = IF k[1] = "cluster" THEN o.target ELSE w.target,
         k[1] \in Kinds
  PROVE  /\ StObjOK(k, [o EXCEPT !.hosts = hosts, !.target = target, !.chap = w.chap])
         /\ o.used => StStays(o, [o EXCEPT !.hosts = hosts, !.target = target, !.chap = w.chap])
         /\ StUnmarked(o, [o EXCEPT !.hosts = hosts, !.target = target, !.chap = w.chap])
<1> DEFINE n == [o EXCEPT !.hosts = hosts, !.target = target, !.chap = w.chap]
<1>1. DOMAIN o = StFields
  BY DEF StObjOK
<1>2. DOMAIN n = StFields /\ n.target = target /\ n.chap = w.chap /\ n.deleting = o.deleting
  BY <1>1 DEF StFields
<1> HIDE DEF n
<1>3. n # NoObject
  BY <1>2, StNoObject DEF StFields
<1>4. StObjOK(k, n)
  BY <1>2 DEF StObjOK, StHarmless
<1>5. o.used => StStays(o, n)
  BY <1>2, <1>3 DEF StStays, StHarmless, StObjOK, Kinds
<1>6. StUnmarked(o, n)
  BY <1>2 DEF StUnmarked
<1> QED
  BY <1>4, <1>5, <1>6 DEF n

(* A handler's and the operator's steps: the invariant, and what StLeavesUsed says. *)
StGood == StInv' /\ StLeavesUsed

(* The credentials of the storages in use are kept, unless a request acts on an old check. *)
StKept == \A k \in StKeys : (stObjs[k] # NoObject /\ stObjs[k].used) => (ActsOnOldCheck(k) \/ KeepsSecret(k))

LEMMA StSecretsAlone == ASSUME UNCHANGED stSecrets PROVE StKept
  BY DEF StKept, KeepsSecret, Authenticates

(* A request goes on and no object changes. *)
LEMMA StGoesOnWell ==
  ASSUME StInv, NEW s \in StSlots, NEW r, stReq' = [stReq EXCEPT ![s] = r], StReqOK(r), UNCHANGED stObjs, StKept
  PROVE  StGood
<1>1. StInv'
  BY StGoesOn
<1>2. \A k \in Existing : k \in StKeys /\ stObjs[k] # NoObject
  BY DEF StInv, Existing, Present
<1>3. StLeavesUsed
  BY <1>2 DEF StLeavesUsed, StKept
<1> QED
  BY <1>1, <1>3 DEF StGood

(* A write that keeps a used object as it is used. *)
LEMMA StWritesWell ==
  ASSUME StInv, NEW k \in StKeys, NEW o, StObjOK(k, o), NEW req, StWrite(k, o, req),
         \A s \in StSlots : StReqOK(req[s]),
         (stObjs[k] # NoObject /\ stObjs[k].used) =>
            (StStays(stObjs[k], o) /\ (ActsOnOldCheck(k) \/ StUnmarked(stObjs[k], o))),
         UNCHANGED stSecrets
  PROVE  StGood
<1>1. StInv'
  BY StWrites
<1>2. \A j \in StKeys : stObjs'[j] = IF j = k THEN o ELSE stObjs[j]
  BY DEF StInv, StWrite
<1>3. \A j \in Existing : j \in StKeys /\ stObjs[j] # NoObject
  BY DEF StInv, Existing, Present
<1>4. StLeavesUsed
  <2> SUFFICES ASSUME NEW j \in Existing, stObjs[j].used
               PROVE  /\ stObjs'[j] # NoObject
                      /\ stObjs'[j].target = stObjs[j].target /\ stObjs'[j].chap = stObjs[j].chap
                      /\ ActsOnOldCheck(j) \/ (KeepsSecret(j) /\ stObjs'[j].deleting = stObjs[j].deleting)
    BY DEF StLeavesUsed
  <2>1. KeepsSecret(j)
    BY DEF KeepsSecret, Authenticates
  <2>2. CASE j = k
    BY <1>2, <1>3, <2>1, <2>2 DEF StStays, StUnmarked
  <2>3. CASE j # k
    BY <1>2, <1>3, <2>1, <2>3
  <2> QED
    BY <2>2, <2>3
<1> QED
  BY <1>1, <1>4 DEF StGood

(* The requests stay well-formed when one of them ends. *)
LEMMA StSetOK ==
  ASSUME StInv, NEW s \in StSlots
  PROVE  \A u \in StSlots : StReqOK(StSet(s, StIdle)[u])
  BY StNoObject DEF StInv, StSet

(* The three ways a request goes on without writing an object. *)
LEMMA StEndsWell == ASSUME StInv, NEW s \in StSlots, StEnds(s), UNCHANGED <<stObjs, stSecrets>> PROVE StGood
  BY StGoesOnWell, StSecretsAlone, StNoObject DEF StEnds, StSet

(* A request goes on with a label that may follow its own. *)
LEMMA StOntoWell ==
  ASSUME StInv, NEW s \in StSlots, NEW label, StOnto(s, label), UNCHANGED stObjs, StKept,
         \/ stReq[s].at \in {"create", "validate", "createSecret"} /\ label \in {"validate", "createSecret", "createObject"}
         \/ stReq[s].at = "deleteSecret" /\ label = "deleteObject"
         \/ stReq[s].at = "updateSecret" /\ label = "updateObject"
  PROVE  StGood
<1>1. StReqOK([stReq[s] EXCEPT !.at = label])
  BY StMoved DEF StInv
<1>2. stReq' = [stReq EXCEPT ![s] = [stReq[s] EXCEPT !.at = label]]
  BY DEF StOnto
<1> QED
  BY <1>1, <1>2, StGoesOnWell

(* A request arrives with a storage that validation lets through. *)
LEMMA StArrivesWell == ASSUME StFound, StInv, NEW s \in StSlots, StArrives(s) PROVE StGood
<1>1. CASE \E o \in StOps, w \in Wants :
             /\ o[1] \in {"create", "update"} /\ Relevant(o[2], w)
             /\ stReq' = StSet(s, [at |-> o[1], type |-> o[2], want |-> w])
  <2>1. PICK o \in StOps, w \in Wants :
             /\ o[1] \in {"create", "update"} /\ Relevant(o[2], w)
             /\ stReq' = StSet(s, [at |-> o[1], type |-> o[2], want |-> w])
    BY <1>1
  <2> DEFINE r == [at |-> o[1], type |-> o[2], want |-> w]
  <2>2. r.at = o[1] /\ r.type = o[2] /\ r.want = w /\ DOMAIN r = {"at", "type", "want"}
    OBVIOUS
  <2>3. stReq' = [stReq EXCEPT ![s] = r]
    BY <2>1 DEF StSet
  <2> HIDE DEF r
  <2>4. o[2] \in Types /\ w.name \in StNames /\ (o[2] # "iscsi" => w.chap = FALSE)
    BY <2>1 DEF StFound, Wants, Relevant
  <2>5. StReqOK(r)
    BY <2>1, <2>2, <2>4 DEF StReqOK
  <2> QED
    BY <2>3, <2>5, StGoesOnWell, StSecretsAlone DEF StArrives, StWorld
<1>2. CASE \E o \in StOps, n \in StNames : o[1] = "delete" /\ stReq' = StSet(s, [at |-> "delete", name |-> n])
  <2>1. PICK n \in StNames : stReq' = [stReq EXCEPT ![s] = [at |-> "delete", name |-> n]]
    BY <1>2 DEF StSet
  <2>2. StReqOK([at |-> "delete", name |-> n])
    BY DEF StReqOK
  <2> QED
    BY <2>1, <2>2, StGoesOnWell, StSecretsAlone DEF StArrives, StWorld
<1> QED
  BY <1>1, <1>2 DEF StArrives

(* The creation of a storage: only where there is none. *)
LEMMA createObjectWell == ASSUME StInv, NEW s \in StSlots, createObject(s) PROVE StGood
<1>0. UNCHANGED stSecrets
  BY DEF createObject
<1> DEFINE r == stReq[s]
           k == <<Kind(r.type), r.want.name>>
           o == Object(r.type, r.want.hosts, r.want.target, r.want.chap)
<1>1. CASE StEnds(s) /\ UNCHANGED stObjs
  BY <1>0, <1>1, StEndsWell
<1>2. CASE ~Present(k) /\ StWrite(k, o, StSet(s, StIdle))
  <2>1. r.type \in Types /\ r.want.name \in StNames /\ (r.type # "iscsi" => r.want.chap = FALSE)
    BY DEF createObject, StAt, StInv, StReqOK
  <2>2. k \in StKeys /\ (k[1] # "iscsi" => r.type # "iscsi")
    BY <2>1 DEF StKeys, Kinds, Kind, Types
  <2>3. DOMAIN o = StFields /\ o.chap = r.want.chap
    BY DEF Object, StFields
  <2> HIDE DEF o, k
  <2>4. StObjOK(k, o)
    BY <2>1, <2>2, <2>3 DEF StObjOK
  <2>5. stObjs[k] = NoObject
    BY <1>2 DEF Present
  <2> QED
    BY <1>0, <1>2, <2>2, <2>4, <2>5, StWritesWell, StSetOK
<1> QED
  BY <1>1, <1>2 DEF createObject

(* The deletion of a storage: it is checked, its secret and then the object go. *)
LEMMA deleteStorageWell == ASSUME StInv, NEW s \in StSlots, deleteStorage(s) PROVE StGood
<1> DEFINE n == stReq[s].name
           k == IF GetStorage(<<"cluster", n>>) THEN <<"cluster", n>>
                ELSE IF GetStorage(<<"iscsi", n>>) THEN <<"iscsi", n>> ELSE <<"nfs", n>>
           label == IF stObjs[k].chap THEN "deleteSecret" ELSE "deleteObject"
           r == [at |-> label, key |-> k, fresh |-> TRUE]
<1>1. CASE StEnds(s)
  BY <1>1, StEndsWell DEF deleteStorage, StWorld
<1>2. CASE GetStorage(k) /\ ~stObjs[k].used /\ stReq' = StSet(s, r)
  <2>1. n \in StNames
    BY DEF deleteStorage, StAt, StInv, StReqOK
  <2>2. k \in StKeys
    BY <2>1 DEF StKeys, Kinds
  <2> HIDE DEF k
  <2>0. label = "deleteSecret" => k[1] = "iscsi"
    BY <1>2, <2>2 DEF StInv, StObjOK, GetStorage, Present
  <2>3. /\ r.at \in {"deleteSecret", "deleteObject"} /\ r.at = label /\ r.key = k /\ r.fresh = TRUE
        /\ DOMAIN r = {"at", "key", "fresh"}
    OBVIOUS
  <2>4. stReq' = [stReq EXCEPT ![s] = r]
    BY <1>2 DEF StSet
  <2> HIDE DEF r, label
  <2>5. StReqOK(r)
    BY <1>2, <2>0, <2>2, <2>3 DEF StReqOK
  <2> QED
    BY <2>4, <2>5, StGoesOnWell, StSecretsAlone DEF deleteStorage, StWorld
<1> QED
  BY <1>1, <1>2 DEF deleteStorage

(* A secret goes that was found unused: if it is used now, the check is old. *)
LEMMA deleteSecretWell == ASSUME StInv, NEW s \in StSlots, deleteSecret(s) PROVE StGood
<1> DEFINE r == stReq[s]
           n == r.key[2]
<1>1. CASE StEnds(s) /\ UNCHANGED stSecrets
  BY <1>1, StEndsWell DEF deleteSecret
<1>2. CASE stSecrets' = StWithout(stSecrets, n) /\ StOnto(s, "deleteObject")
  <2>1. /\ r.at = "deleteSecret" /\ DOMAIN r = {"at", "key", "fresh"} /\ r.key \in StKeys
        /\ r.key[1] = "iscsi" /\ (r.fresh => ~stObjs[r.key].used)
    BY DEF deleteSecret, StAt, StInv, StReqOK
  <2>2. stReq'[s] # r
    <3>1. stReq'[s] = [r EXCEPT !.at = "deleteObject"]
      BY <1>2 DEF StOnto, StInv
    <3> QED
      BY <2>1, <3>1
  <2>3. ASSUME NEW k \in StKeys, stObjs[k] # NoObject, stObjs[k].used PROVE ActsOnOldCheck(k) \/ KeepsSecret(k)
    <3>1. CASE k = r.key
      BY <2>1, <2>2, <2>3, <3>1 DEF ActsOnOldCheck
    <3>2. CASE k # r.key
      <4>1. k[1] = "iscsi" => k[2] # n
        BY <2>1, <3>2, StKeyPair
      <4> QED
        BY <1>2, <4>1 DEF KeepsSecret, Authenticates, StWithout
    <3> QED
      BY <3>1, <3>2
  <2>4. StKept
    BY <2>3 DEF StKept
  <2> QED
    BY <1>2, <2>1, <2>4, StOntoWell DEF deleteSecret
<1> QED
  BY <1>1, <1>2 DEF deleteSecret

(* Deleting an object: if it is used, the check is old. *)
LEMMA deleteObjectWell == ASSUME StInv, NEW s \in StSlots, deleteObject(s) PROVE StGood
<1> DEFINE k == stReq[s].key
           o == stObjs[k]
           n == [o EXCEPT !.deleting = TRUE]
<1>1. CASE StEnds(s) /\ UNCHANGED stObjs
  BY <1>1, StEndsWell DEF deleteObject
<1>2. CASE Present(k) /\ StWrite(k, n, StSet(s, StIdle))
  <2>1. k \in StKeys /\ stReq[s].at = "deleteObject" /\ (stReq[s].fresh => ~o.used)
    BY DEF deleteObject, StAt, StInv, StReqOK
  <2>2. o # NoObject /\ StObjOK(k, o)
    BY <1>2, <2>1 DEF StInv, Present
  <2>3. StObjOK(k, n) /\ StStays(o, n)
    BY <2>2, StEdited, StEditedStays
  <2>4. stReq'[s] = StIdle
    <3>1. StSet(s, StIdle)[s] = StIdle /\ DOMAIN StIdle = {"at"}
      BY DEF StSet, StIdle, StInv
    <3> QED
      BY <1>2, <3>1 DEF StWrite
  <2>5. o.used => ActsOnOldCheck(k)
    <3>1. stReq'[s] # stReq[s]
      <4>1. stReq'[s].at = "idle"
        BY <2>4, SMT DEF StIdle
      <4> QED
        BY <2>1, <4>1
    <3> QED
      BY <2>1, <3>1 DEF ActsOnOldCheck
  <2>6. UNCHANGED stSecrets
    BY DEF deleteObject
  <2> HIDE DEF n
  <2> QED
    BY <1>2, <2>1, <2>3, <2>5, <2>6, StWritesWell, StSetOK
<1> QED
  BY <1>1, <1>2 DEF deleteObject

(* updateStorage: the handler has found the change harmless, and holds a copy. *)
LEMMA updateStorageWell == ASSUME StInv, NEW s \in StSlots, updateStorage(s) PROVE StGood
<1> DEFINE r == stReq[s]
           w == r.want
           k == <<Kind(r.type), w.name>>
           o == stObjs[k]
           label == IF r.type # "iscsi" THEN "updateObject"
                    ELSE IF o.chap # w.chap \/ chapChange(o, w) THEN "updateSecret" ELSE "updateObject"
           n == [at |-> label, want |-> w, key |-> k, fresh |-> TRUE, read |-> o]
<1>1. CASE StEnds(s)
  BY <1>1, StEndsWell DEF updateStorage, StWorld
<1>2. CASE Present(k) /\ Allowed(r.type, o, w) /\ stReq' = StSet(s, n)
  <2>1. r.type \in Types /\ w.name \in StNames /\ (r.type # "iscsi" => w.chap = FALSE)
    BY DEF updateStorage, StAt, StInv, StReqOK
  <2>2. k \in StKeys /\ k[1] = Kind(r.type)
    BY <2>1 DEF StKeys, Kinds, Kind, Types
  <2>3. o # NoObject
    BY <1>2 DEF Present
  <2>4. label \in {"updateSecret", "updateObject"}
    OBVIOUS
  <2>0. label = "updateSecret" => (k = <<"iscsi", w.name>> /\ ~o.used)
    BY <1>2 DEF Allowed, updateIscsi, Kind
  <2> HIDE DEF k, label
  <2>5. /\ n.at = label /\ n.want = w /\ n.key = k /\ n.fresh = TRUE
        /\ DOMAIN n = {"at", "want", "key", "fresh", "read"}
    OBVIOUS
  <2>6. stReq' = [stReq EXCEPT ![s] = n]
    BY <1>2 DEF StSet
  <2> HIDE DEF n
  <2>7. StHarmless(k, o, w)
    <3>1. CASE r.type \in {"lvm", "cephfs"}
      BY <2>1, <2>2, <3>1 DEF StHarmless, Kind
    <3>2. CASE r.type = "iscsi"
      <4>1. k[1] = "iscsi" /\ updateIscsi(o, w)
        BY <1>2, <2>2, <3>2 DEF Allowed, Kind
      <4> QED
        BY <4>1 DEF StHarmless, updateIscsi
    <3>3. CASE r.type = "nfs"
      <4>1. k[1] = "nfs" /\ updateNfs(o, w)
        BY <1>2, <2>2, <3>3 DEF Allowed, Kind
      <4> QED
        BY <2>1, <3>3, <4>1 DEF StHarmless, updateNfs
    <3> QED
      BY <2>1, <3>1, <3>2, <3>3 DEF Types
  <2>8. StReqOK(n)
    BY <2>0, <2>2, <2>3, <2>4, <2>5, <2>7 DEF StReqOK
  <2> QED
    BY <2>6, <2>8, StGoesOnWell, StSecretsAlone DEF updateStorage, StWorld
<1> QED
  BY <1>1, <1>2 DEF updateStorage

(* The secret of a storage that was found unused: if it is used now, the check is old. *)
LEMMA updateIscsiSecretWell == ASSUME StInv, NEW s \in StSlots, updateIscsiSecret(s) PROVE StGood
<1> DEFINE r == stReq[s]
           n == r.want.name
<1>1. CASE StEnds(s) /\ UNCHANGED stSecrets
  BY <1>1, StEndsWell DEF updateIscsiSecret
<1>2. CASE /\ stSecrets' = IF r.want.chap THEN StWith(stSecrets, n, r.want.secret) ELSE StWithout(stSecrets, n)
           /\ StOnto(s, "updateObject")
  <2>1. /\ r.at = "updateSecret" /\ DOMAIN r = {"at", "want", "key", "fresh", "read"}
        /\ r.key = <<"iscsi", n>> /\ (r.fresh => ~stObjs[r.key].used)
    BY DEF updateIscsiSecret, StAt, StInv, StReqOK
  <2>2. stReq'[s] # r
    <3>1. stReq'[s] = [r EXCEPT !.at = "updateObject"]
      BY <1>2 DEF StOnto, StInv
    <3> QED
      BY <2>1, <3>1
  <2>3. ASSUME NEW k \in StKeys, stObjs[k] # NoObject, stObjs[k].used PROVE ActsOnOldCheck(k) \/ KeepsSecret(k)
    <3>1. CASE k = r.key
      BY <2>1, <2>2, <2>3, <3>1 DEF ActsOnOldCheck
    <3>2. CASE k # r.key
      <4>1. k[1] = "iscsi" => k[2] # n
        BY <2>1, <3>2, StKeyPair
      <4> QED
        BY <1>2, <4>1 DEF KeepsSecret, Authenticates, StWith, StWithout
    <3> QED
      BY <3>1, <3>2
  <2>4. StKept
    BY <2>3 DEF StKept
  <2> QED
    BY <1>2, <2>1, <2>4, StOntoWell DEF updateIscsiSecret
<1> QED
  BY <1>1, <1>2 DEF updateIscsiSecret

(* updateObject: written only over the object the handler has checked. *)
LEMMA updateObjectWell == ASSUME StInv, NEW s \in StSlots, updateObject(s) PROVE StGood
<1> DEFINE r == stReq[s]
           k == r.key
           o == stObjs[k]
           hosts == IF k[1] = "nfs" THEN o.hosts ELSE r.want.hosts
           target == IF k[1] = "cluster" THEN o.target ELSE r.want.target
           n == [o EXCEPT !.hosts = hosts, !.target = target, !.chap = r.want.chap]
<1>0. UNCHANGED stSecrets
  BY DEF updateObject
<1>1. CASE StEnds(s) /\ UNCHANGED stObjs
  BY <1>0, <1>1, StEndsWell
<1>2. CASE r.fresh /\ StWrite(k, Wanted(r), StSet(s, StIdle))
  <2>1. k \in StKeys /\ o # NoObject /\ StHarmless(k, o, r.want)
    BY <1>2 DEF updateObject, StAt, StInv, StReqOK
  <2>2. StObjOK(k, o) /\ k[1] \in Kinds
    BY <2>1 DEF StInv, StKeys
  <2>3. Wanted(r) = n
    BY DEF Wanted
  <2> DEFINE h == hosts
             t == target
  <2>4. t = IF k[1] = "cluster" THEN o.target ELSE r.want.target
    OBVIOUS
  <2>5. n = [o EXCEPT !.hosts = h, !.target = t, !.chap = r.want.chap]
    OBVIOUS
  <2> HIDE DEF h, t, n
  <2>6. StObjOK(k, n) /\ (o.used => StStays(o, n)) /\ StUnmarked(o, n)
    BY <2>1, <2>2, <2>4, <2>5, StWantedStays
  <2> QED
    BY <1>0, <1>2, <2>1, <2>3, <2>6, StWritesWell, StSetOK
<1> QED
  BY <1>1, <1>2 DEF updateObject

(* The operator's changes. *)
LEMMA ConfiguresWell == ASSUME StInv, Configures PROVE StGood
<1>1. PICK k \in Existing :
         LET o == stObjs[k] IN
         \/ o.phase = "" /\ StWrite(k, [o EXCEPT !.phase = "Creating"], stReq)
         \/ o.phase # "Running" /\ StWrite(k, [o EXCEPT !.phase = "Running", !.config = IF k[1] = "cluster" THEN o.hosts ELSE {}], stReq)
         \/ o.phase = "Running" /\ o.config \notin {{}, o.hosts} /\ StWrite(k, [o EXCEPT !.phase = "Updating"], stReq)
  BY DEF Configures
<1> DEFINE o == stObjs[k]
           c == IF k[1] = "cluster" THEN o.hosts ELSE {}
<1>2. k \in StKeys /\ o # NoObject /\ StObjOK(k, o) /\ \A s \in StSlots : StReqOK(stReq[s])
  BY DEF StInv, Existing, Present
<1>3. \/ StWrite(k, [o EXCEPT !.phase = "Creating"], stReq)
      \/ StWrite(k, [o EXCEPT !.phase = "Running", !.config = c], stReq)
      \/ StWrite(k, [o EXCEPT !.phase = "Updating"], stReq)
  BY <1>1
<1> HIDE DEF c
<1>4. ASSUME NEW v PROVE /\ StObjOK(k, [o EXCEPT !.phase = v]) /\ StStays(o, [o EXCEPT !.phase = v])
                         /\ StUnmarked(o, [o EXCEPT !.phase = v])
  BY <1>2, StEdited, StEditedStays
<1>5. /\ StObjOK(k, [o EXCEPT !.phase = "Running", !.config = c])
      /\ StStays(o, [o EXCEPT !.phase = "Running", !.config = c])
      /\ StUnmarked(o, [o EXCEPT !.phase = "Running", !.config = c])
  BY <1>2, StEdited, StEditedStays
<1>6. UNCHANGED stSecrets
  BY DEF Configures
<1> QED
  BY <1>2, <1>3, <1>4, <1>5, <1>6, StWritesWell

(* A pod starts to use a storage. *)
LEMMA ClaimsWell == ASSUME StInv, Claims PROVE StGood
<1>1. PICK k \in Existing : StWrite(k, [stObjs[k] EXCEPT !.used = ~stObjs[k].used], stReq)
  BY DEF Claims
<1> DEFINE o == stObjs[k]
           v == ~stObjs[k].used
<1>2. k \in StKeys /\ o # NoObject /\ StObjOK(k, o) /\ \A s \in StSlots : StReqOK(stReq[s])
  BY DEF StInv, Existing, Present
<1>3. StWrite(k, [o EXCEPT !.used = v], stReq)
  BY <1>1
<1> HIDE DEF v
<1>4. StObjOK(k, [o EXCEPT !.used = v]) /\ StStays(o, [o EXCEPT !.used = v]) /\ StUnmarked(o, [o EXCEPT !.used = v])
  BY <1>2, StEdited, StEditedStays
<1>5. UNCHANGED stSecrets
  BY DEF Claims
<1> QED
  BY <1>2, <1>3, <1>4, <1>5, StWritesWell

(* The finalizers of an unused storage that is being deleted are gone. *)
LEMMA RemovesWell == ASSUME StInv, Removes PROVE StGood
<1>1. PICK k \in Existing : ~stObjs[k].used /\ StWrite(k, NoObject, stReq)
  BY DEF Removes
<1>2. k \in StKeys /\ StObjOK(k, NoObject) /\ \A s \in StSlots : StReqOK(stReq[s])
  BY DEF StInv, Existing, Present, StObjOK
<1>3. UNCHANGED stSecrets
  BY DEF Removes
<1> QED
  BY <1>1, <1>2, <1>3, StWritesWell

(* The storages at the start are those an operator reports. *)
LEMMA StInitially == ASSUME StFound, StInit PROVE StInv
<1>1. PICK start \in StStarts :
        stObjs = [k \in Kinds \X StNames |-> IF k \in DOMAIN start THEN start[k] ELSE NoObject]
  BY DEF StInit
<1>2. \A k \in StKeys : StObjOK(k, stObjs[k])
  <2> TAKE k \in StKeys
  <2>1. CASE k \in DOMAIN start
    BY <1>1, <2>1 DEF StFound, StKeys
  <2>2. CASE k \notin DOMAIN start
    BY <1>1, <2>2 DEF StObjOK, StKeys
  <2> QED
    BY <2>1, <2>2
<1>3. stReq = [s \in StSlots |-> StIdle]
  BY DEF StInit
<1> QED
  BY <1>1, <1>2, <1>3, StNoObject DEF StInv, StKeys

(* Every step of a request keeps the invariant and used storages. *)
LEMMA StStepWell == ASSUME StFound, StInv, NEW s \in StSlots, StStep(s) PROVE StGood
<1>1. ASSUME createStorage(s) PROVE StGood
  BY <1>1, StEndsWell, StOntoWell, StSecretsAlone DEF createStorage, StAt, StWorld
<1>2. ASSUME validate(s) PROVE StGood
  <2>1. CASE StEnds(s)
    BY <1>2, <2>1, StEndsWell DEF validate, StWorld
  <2>2. CASE StOnto(s, IF stReq[s].want.chap THEN "createSecret" ELSE "createObject")
    <3>1. StOnto(s, "createSecret") \/ StOnto(s, "createObject")
      BY <2>2
    <3> QED
      BY <1>2, <3>1, StOntoWell, StSecretsAlone DEF validate, StAt, StWorld
  <2> QED
    BY <1>2, <2>1, <2>2 DEF validate
<1>3. ASSUME createSecret(s) PROVE StGood
  <2> DEFINE n == stReq[s].want.name
  <2>1. CASE StEnds(s) /\ UNCHANGED stSecrets
    BY <1>3, <2>1, StEndsWell DEF createSecret
  <2>2. CASE /\ n \notin DOMAIN stSecrets
             /\ stSecrets' = StWith(stSecrets, n, stReq[s].want.secret) /\ StOnto(s, "createObject")
    <3>1. StKept
      BY <2>2 DEF StKept, KeepsSecret, Authenticates, StWith
    <3> QED
      BY <1>3, <2>2, <3>1, StOntoWell DEF createSecret, StAt
  <2> QED
    BY <1>3, <2>1, <2>2 DEF createSecret
<1> QED
  BY <1>1, <1>2, <1>3, StArrivesWell, createObjectWell, deleteStorageWell, deleteSecretWell, deleteObjectWell,
     updateStorageWell, updateIscsiSecretWell, updateObjectWell DEF StStep

(* Every step keeps the invariant and used storages. *)
LEMMA StNextWell == ASSUME StFound, StInv, [StNext]_stVars PROVE StInv' /\ [StLeavesUsed]_stVars
<1>1. CASE StNext
  <2>1. ASSUME Attaches PROVE StGood
    <3>1. UNCHANGED <<stObjs, stSecrets, stReq>>
      BY <2>1 DEF Attaches
    <3>2. StInv'
      BY <3>1, SMTT(40) DEF StInv, StReqOK
    <3>3. StLeavesUsed
      BY <3>1 DEF StLeavesUsed, KeepsSecret, Authenticates, Existing, Present
    <3> QED
      BY <3>2, <3>3 DEF StGood
  <2>2. StGood
    BY <1>1, <2>1, ConfiguresWell, ClaimsWell, RemovesWell, StStepWell DEF StNext
  <2> QED
    BY <2>2 DEF StGood
<1>2. CASE UNCHANGED stVars
  BY <1>2, SMTT(40) DEF stVars, StInv, StReqOK
<1> QED
  BY <1>1, <1>2

(* While volume claims use a storage, no interleaving of requests, of the  *)
(* operator and of failing calls moves its target or has it authenticate   *)
(* itself or cease to: Update writes only over the object it has checked.  *)
(* Its credentials stay and it is not marked for deletion, unless by a     *)
(* request that found it unused before it was last written: neither the    *)
(* writes of the secret nor Delete looks again.  That a marked storage is  *)
(* there while it is used is the operator's part, a guard of Removes.      *)
THEOREM UsedStorageStays == StSpec => StUsedStays
<1>1. StInit => StInv
  BY StInitially, StAssumption
<1>2. StInv /\ [StNext]_stVars => StInv'
  BY StNextWell, StAssumption
<1>3. StInv /\ [StNext]_stVars => [StLeavesUsed]_stVars
  BY StNextWell, StAssumption
<1> QED
  BY <1>1, <1>2, <1>3, PTL DEF StSpec, StUsedStays
=============================================================================
