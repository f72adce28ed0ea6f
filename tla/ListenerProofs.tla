--------------------------- MODULE ListenerProofs ---------------------------
(***************************************************************************)
(* Proofs about what the server tells those who listen to it: for any      *)
(* number of listeners, the list of events is contiguous and sent in       *)
(* order, and no alarm passes a listener by.  The components share no      *)
(* state; each has a section of its own.                                   *)
(***************************************************************************)
EXTENDS EventLog, Alarm, FiniteSetTheorems, TLAPS

(* A leaf is for Zenon unless it cites another prover. *)
USE ZenonT(40)

-----------------------------------------------------------------------------
(***************************************************************************)
(* Events.  The invariant says what a publisher in each state knows.       *)
(* lastID is the last event the client received, except while a batch is   *)
(* being sent, when it is the last event of the batch; a batch holds       *)
(* consecutive events, and the list holds no event between the last one    *)
(* received and the first of the batch.                                    *)
(***************************************************************************)

(* No event of list s lies strictly between a and b. *)
NoneBetween(s, a, b) == \A i \in 1 .. Len(s) : ~(a < s[i] /\ s[i] < b)

(* A batch of consecutive events. *)
Consecutive(batch) ==
  /\ batch # <<>>
  /\ \A i \in 1 .. Len(batch) : batch[i] = batch[1] + i - 1

(* The batch p.batch follows the event a. *)
Follows(p, a, s) ==
  /\ Consecutive(p.batch)
  /\ a < p.batch[1]
  /\ NoneBetween(s, a, p.batch[1])

PubInv(p, got, s, top) ==
  /\ p.lastID <= top
  /\ p.pc \in {"none", "get", "check", "sleep", "asleep"} => got = p.lastID
  /\ p.pc = "check" /\ p.batch # <<>> =>
       Follows(p, p.lastID, s) /\ p.last = p.batch[1] + Len(p.batch) - 1
         /\ p.last <= top
  /\ p.pc = "send" =>
       Follows(p, got, s) /\ p.lastID = p.batch[1] + Len(p.batch) - 1

IInv ==
  /\ TypeOK
  /\ StartID <= Pushed
  /\ KeepsLatest
  /\ \A l \in Listener :
       /\ PubInv(pub[l], sent[l], eventList, Pushed)
       /\ client[l] = "none" => pub[l].pc = "none"

-----------------------------------------------------------------------------
(***************************************************************************)
(* The list.                                                               *)
(***************************************************************************)

(* The tail of a sequence. *)
LEMMA TailIs ==
  ASSUME NEW S, NEW s \in Seq(S), s # <<>>
  PROVE  /\ Head(s) = s[1] /\ Head(s) \in S /\ Tail(s) \in Seq(S)
         /\ Len(Tail(s)) = Len(s) - 1 /\ \A i \in 1 .. Len(Tail(s)) : Tail(s)[i] = s[i + 1]
BY SMTT(40)

(* A part of a sequence. *)
LEMMA SubSeqIs ==
  ASSUME NEW S, NEW s, NEW m \in Int, NEW n \in Int, \A i \in m .. n : s[i] \in S
  PROVE  /\ SubSeq(s, m, n) \in Seq(S) /\ Len(SubSeq(s, m, n)) = IF m <= n THEN n - m + 1 ELSE 0
         /\ \A i \in 1 .. n - m + 1 : SubSeq(s, m, n)[i] = s[m + i - 1]
BY SMTT(40)

(* What a contiguous list of n events up to p looks like to its readers.   *)
LEMMA Range_ ==
  ASSUME NEW p \in Nat, NEW n \in Nat, n <= p,
         NEW s, s = [i \in 1 .. n |-> p - n + i]
  PROVE  /\ s \in Seq(Nat) /\ Len(s) = n
         /\ \A i \in 1 .. n : s[i] = p - n + i
  BY SMTT(40)

(* A sequence is given by its length and its elements. *)
LEMMA IsRange ==
  ASSUME NEW p \in Nat, NEW n \in Nat, NEW s \in Seq(Nat), Len(s) = n,
         \A i \in 1 .. n : s[i] = p - n + i
  PROVE  s = [i \in 1 .. n |-> p - n + i]
  BY SMTT(40)

(* Pushing the next event and trimming keep the list contiguous. *)
LEMMA TrimAppend ==
  ASSUME NEW p \in Nat, NEW q \in Nat, q = p + 1, NEW n \in Nat, n <= p, n <= MaxSize,
         NEW s, s = [i \in 1 .. n |-> p - n + i]
  PROVE  LET m == IF n < MaxSize THEN n + 1 ELSE n
         IN  Trim(Append(s, q)) = [i \in 1 .. m |-> q - m + i]
<1> DEFINE t == Append(s, q)
<1>1. s \in Seq(Nat) /\ Len(s) = n /\ \A i \in 1 .. n : s[i] = p - n + i
  BY Range_, SMTT(40)
<1>2. /\ t \in Seq(Nat) /\ Len(t) = n + 1
      /\ \A i \in 1 .. n + 1 : t[i] = p - n + i
  BY <1>1, SMTT(40)
<1>3. CASE n < MaxSize
  <2>1. Trim(t) = t
    BY <1>2, <1>3, LogAssumption, SMTT(40) DEF Trim
  <2>2. t = [i \in 1 .. n + 1 |-> q - (n + 1) + i]
    BY <1>2, SMTT(40)
  <2> QED
    BY <1>3, <2>1, <2>2
<1>4. CASE ~(n < MaxSize)
  <2>1. Trim(t) = Tail(t) /\ t # <<>>
    BY <1>2, <1>4, LogAssumption, SMTT(40) DEF Trim
  <2> HIDE DEF t
  <2>2. Len(Tail(t)) = Len(t) - 1 /\ \A i \in 1 .. Len(Tail(t)) : Tail(t)[i] = t[i + 1]
    BY <1>2, <2>1, TailIs
  <2>3. Tail(t) \in Seq(Nat)
    BY <1>2, <2>1, TailIs
  <2>4. \A i \in 1 .. n : t[i + 1] = q - n + i
    BY <1>2, SMTT(40)
  <2>5. Tail(t) = [i \in 1 .. n |-> q - n + i]
    <3>1. Len(Tail(t)) = n /\ \A i \in 1 .. n : Tail(t)[i] = q - n + i
      BY <1>2, <2>2, <2>4, SMTT(40)
    <3> QED
      BY <2>3, <3>1, IsRange
  <2> USE DEF t
  <2>6. Trim(Append(s, q)) = [i \in 1 .. n |-> q - n + i]
    BY <2>1, <2>5
  <2> QED
    BY <1>4, <2>6
<1> QED
  BY <1>3, <1>4

(* Neither walk runs off a list that holds a newer event: each stops at    *)
(* the first newer one.                                                    *)
LEMMA FindsNext ==
  ASSUME NEW p \in Nat, NEW n \in Nat, n <= p,
         NEW s, s = [i \in 1 .. n |-> p - n + i],
         NEW id \in Nat, id <= p, ~NothingAfter(s, id)
  PROVE  /\ StartElem(s, id) \in 1 .. n
         /\ id < s[StartElem(s, id)]
         /\ \A j \in 1 .. StartElem(s, id) - 1 : s[j] <= id
         /\ StartElem(s, id) # Nil
<1>1. s \in Seq(Nat) /\ Len(s) = n /\ \A i \in 1 .. n : s[i] = p - n + i
  BY Range_, SMTT(40)
<1>2. n > 0
  BY <1>1, SMTT(40) DEF NothingAfter
<1>3. s[1] = p - n + 1 /\ s[n] = p
  BY <1>1, <1>2, SMTT(40)
<1>4. id < p
  <2>1. id >= s[1] => id # s[Len(s)]
    BY DEF NothingAfter
  <2> QED
    BY <1>1, <1>2, <1>3, <2>1, SMTT(40)
<1> DEFINE k == IF id < s[1] THEN 1 ELSE id - (p - n) + 1
<1>5. k \in 1 .. n /\ s[k] > id /\ \A j \in 1 .. k - 1 : s[j] <= id
  BY <1>1, <1>2, <1>3, <1>4, SMTT(40)
<1> DEFINE After(i) == s[i] > id /\ \A j \in 1 .. i - 1 : s[j] <= id
<1>6. /\ FromOutdated(s, id) \in 1 .. n
      /\ After(FromOutdated(s, id))
  <2>1. FromOutdated(s, id) = CHOOSE i \in 1 .. n : After(i)
    BY <1>1, <1>5 DEF FromOutdated
  <2>2. \E i \in 1 .. n : After(i)
    BY <1>5
  <2> HIDE DEF After
  <2> QED
    BY <2>1, <2>2
<1>7. CASE id < s[1] \/ id > s[Len(s)] \/ id - s[1] < s[Len(s)] - id
  <2>1. StartElem(s, id) = FromOutdated(s, id)
    BY <1>7 DEF StartElem
  <2> QED
    BY <1>6, <2>1, SMTT(40) DEF Nil
<1>8. CASE ~(id < s[1] \/ id > s[Len(s)] \/ id - s[1] < s[Len(s)] - id)
  <2>1. StartElem(s, id) = FromLatest(s, id)
    BY <1>8 DEF StartElem
  <2> DEFINE Last(i) == /\ i > 0 => s[i] <= id
                        /\ \A j \in i + 1 .. n : s[j] > id
             m == CHOOSE i \in 0 .. n : Last(i)
  <2>2. id >= s[1]
    BY <1>1, <1>2, <1>8, SMTT(40)
  <2>3. k - 1 \in 0 .. n /\ Last(k - 1)
    BY <1>1, <1>2, <1>3, <1>4, <2>2, SMTT(40)
  <2>4. m \in 0 .. n /\ Last(m)
    <3> HIDE DEF Last, k
    <3> QED
      BY <2>3
  <2> HIDE DEF m
  <2>5. m > 0
    <3>1. m = 0 => s[1] > id
      BY <1>2, <2>4, SMTT(40)
    <3> QED
      BY <1>1, <1>2, <2>2, <2>4, <3>1, SMTT(40)
  <2>6. m # n
    BY <1>2, <1>3, <1>4, <2>4, <2>5, SMTT(40)
  <2>7. FromLatest(s, id) = IF m = 0 \/ m = n THEN Nil ELSE m + 1
    BY <1>1, SMTT(40) DEF FromLatest, m
  <2>8. FromLatest(s, id) = m + 1
    BY <2>5, <2>6, <2>7, SMTT(40)
  <2>9. m + 1 \in 1 .. n /\ s[m + 1] > id
    BY <2>4, <2>6, SMTT(40)
  <2>10. \A j \in 1 .. m : s[j] <= id
    BY <1>1, <2>4, <2>5, SMTT(40)
  <2> QED
    BY <2>1, <2>4, <2>8, <2>9, <2>10, SMTT(40) DEF Nil
<1> QED
  BY <1>7, <1>8

(* A batch read from the list is consecutive, and its last id is right     *)
(* although it is counted.                                                 *)
LEMMA ReadsBatch ==
  ASSUME NEW p \in Nat, NEW n \in Nat, n <= p,
         NEW s, s = [i \in 1 .. n |-> p - n + i], NEW i \in 1 .. n
  PROVE  LET r == FromElem(s, i)
         IN  /\ r.batch \in Seq(Nat) /\ r.last \in Nat
             /\ Consecutive(r.batch)
             /\ r.batch[1] = s[i]
             /\ r.last = r.batch[1] + Len(r.batch) - 1
             /\ r.last <= p
<1> DEFINE c == IF Len(s) - i + 1 < BatchSize THEN Len(s) - i + 1 ELSE BatchSize
           b == SubSeq(s, i, i + c - 1)
<1>1. s \in Seq(Nat) /\ Len(s) = n /\ \A j \in 1 .. n : s[j] = p - n + j
  BY Range_
<1>2. c \in Nat /\ c > 0 /\ i + c - 1 <= n
  BY <1>1, LogAssumption, SMTT(40) DEF BatchSize
<1>3. FromElem(s, i).last = s[i] + c - 1 /\ FromElem(s, i).batch = b
  BY DEF FromElem
<1> HIDE DEF c
<1>4. /\ b \in Seq(Nat) /\ Len(b) = c
      /\ \A j \in 1 .. c : b[j] = s[i + j - 1]
  <2>1. \A j \in i .. i + c - 1 : s[j] \in Nat
    BY <1>1, <1>2, SMTT(40)
  <2>2. i + c - 1 \in Int /\ i \in Int
    BY <1>2, SMTT(40)
  <2> DEFINE e == i + c - 1
  <2>3. /\ SubSeq(s, i, e) \in Seq(Nat)
        /\ Len(SubSeq(s, i, e)) = IF i <= e THEN e - i + 1 ELSE 0
        /\ \A j \in 1 .. e - i + 1 : SubSeq(s, i, e)[j] = s[i + j - 1]
    <3> HIDE DEF e
    <3>1. e \in Int /\ \A j \in i .. e : s[j] \in Nat
      BY <2>1, <2>2 DEF e
    <3> QED
      BY <2>2, <3>1, SubSeqIs, SMTT(40)
  <2> QED
    BY <1>2, <2>3, SMTT(40)
<1> HIDE DEF b
<1>5. /\ b # <<>> /\ b[1] = s[i]
      /\ \A j \in 1 .. Len(b) : b[j] = b[1] + j - 1
  BY <1>1, <1>2, <1>4, SMTT(40)
<1>6. s[i] + c - 1 <= p /\ s[i] + c - 1 \in Nat
  BY <1>1, <1>2, SMTT(40)
<1> QED
  BY <1>3, <1>4, <1>5, <1>6 DEF Consecutive

-----------------------------------------------------------------------------
(***************************************************************************)
(* The steps of the publishers.                                            *)
(***************************************************************************)

PubRec == [pc : {"none", "get", "check", "sleep", "asleep", "send", "answer",
                 "done"},
           lastID : Nat, last : Nat, batch : Seq(Nat)]

Clients == {"none", "open", "stop", "gone", "answer", "closed"}

(* The list as the lemmas above want it. *)
LEMMA ListFacts ==
  ASSUME IInv
  PROVE  /\ Pushed \in Nat /\ Kept \in Nat /\ Kept <= Pushed /\ Kept <= MaxSize
         /\ eventList = [i \in 1 .. Kept |-> Pushed - Kept + i]
         /\ eventList \in Seq(Nat) /\ Len(eventList) = Kept
         /\ \A i \in 1 .. Kept : eventList[i] = Pushed - Kept + i
<1>1. Pushed \in Int
  BY SMTT(40) DEF IInv, TypeOK, Pushed
<1>2. /\ Pushed \in Nat /\ Kept \in Nat /\ Kept <= Pushed /\ Kept <= MaxSize
  BY <1>1, LogAssumption, SMTT(40) DEF IInv, Kept
<1>3. eventList = [i \in 1 .. Kept |-> Pushed - Kept + i]
  BY DEF IInv, KeepsLatest
<1> QED
  BY <1>2, <1>3, Range_

(* A step that changes one publisher and its client. *)
LEMMA OnePublisher ==
  ASSUME IInv, NEW l \in Listener, NEW rec \in PubRec,
         UNCHANGED <<eventID, eventList, adder>>,
         pub' = [pub EXCEPT ![l] = rec],
         client' \in [Listener -> Clients],
         sent' \in [Listener -> Nat],
         \A k \in Listener \ {l} : sent'[k] = sent[k] /\ client'[k] = client[k],
         client'[l] # "none",
         PubInv(rec, sent'[l], eventList, Pushed)
  PROVE  IInv'
<1>1. TypeOK'
  BY DEF IInv, TypeOK, PubRec, Clients
<1>2. Pushed' = Pushed /\ Kept' = Kept
  BY DEF Pushed, Kept
<1>3. (StartID <= Pushed)' /\ KeepsLatest'
  BY <1>2 DEF IInv, KeepsLatest
<1>4. ASSUME NEW k \in Listener
      PROVE  /\ PubInv(pub'[k], sent'[k], eventList', Pushed')
             /\ client'[k] = "none" => pub'[k].pc = "none"
  <2>1. CASE k = l
    <3>1. pub'[l] = rec
      BY DEF IInv, TypeOK
    <3> QED
      BY <1>2, <2>1, <3>1
  <2>2. CASE k # l
    <3>1. pub'[k] = pub[k] /\ sent'[k] = sent[k] /\ client'[k] = client[k]
      BY <2>2 DEF IInv, TypeOK
    <3>2. /\ PubInv(pub[k], sent[k], eventList, Pushed)
          /\ client[k] = "none" => pub[k].pc = "none"
      BY DEF IInv
    <3> QED
      BY <1>2, <3>1, <3>2
  <2> QED
    BY <2>1, <2>2
<1> QED
  BY <1>1, <1>3, <1>4 DEF IInv

(* getEventsAfterID finds an element, and what it returns is the batch     *)
(* that follows the last event sent.                                       *)
LEMMA GetEventsStep ==
  ASSUME IInv, NEW l \in Listener, GetEvents(l)
  PROVE  IInv'
<1> DEFINE id == pub[l].lastID
           i == StartElem(eventList, id)
           r == FromElem(eventList, i)
<1>1. /\ pub[l] \in PubRec /\ sent[l] \in Nat /\ pub[l].pc = "get"
      /\ PubInv(pub[l], sent[l], eventList, Pushed)
  BY DEF IInv, TypeOK, PubRec, GetEvents
<1>2. id \in Nat /\ id <= Pushed /\ sent[l] = id
  BY <1>1 DEF PubRec, PubInv
<1>3. UNCHANGED <<eventID, eventList, adder, client, sent>>
  BY DEF GetEvents
<1>4. client' \in [Listener -> Clients] /\ sent' \in [Listener -> Nat]
      /\ \A k \in Listener : sent'[k] = sent[k] /\ client'[k] = client[k]
      /\ client'[l] # "none"
  BY <1>1, <1>3 DEF IInv, TypeOK, Clients
<1>5. CASE NothingAfter(eventList, id)
  <2> DEFINE none == NoEvents
             rec == [pub[l] EXCEPT !.pc = "check", !.last = none.last,
                                   !.batch = none.batch]
  <2>1. pub' = [pub EXCEPT ![l] = rec]
    BY <1>5 DEF GetEvents, SetPub
  <2>2. none.last \in Nat /\ none.batch \in Seq(Nat) /\ none.batch = <<>>
    BY SMTT(40) DEF NoEvents
  <2> HIDE DEF none
  <2>4. rec \in PubRec /\ rec.pc = "check" /\ rec.lastID = id /\ rec.batch = none.batch
    BY <1>1, <2>2 DEF PubRec
  <2> HIDE DEF rec, id
  <2>3. PubInv(rec, sent'[l], eventList, Pushed)
    BY <1>2, <1>4, <2>2, <2>4 DEF PubInv
  <2> QED
    BY <1>3, <1>4, <2>1, <2>4, <2>3, OnePublisher
<1>6. CASE ~NothingAfter(eventList, id)
  <2>1. /\ i \in 1 .. Kept /\ id < eventList[i] /\ i # Nil
        /\ \A j \in 1 .. i - 1 : eventList[j] <= id
    <3> HIDE DEF id
    <3>1. /\ Pushed \in Nat /\ Kept \in Nat /\ Kept <= Pushed
          /\ eventList = [j \in 1 .. Kept |-> Pushed - Kept + j]
      BY ListFacts
    <3>2. id \in Nat /\ id <= Pushed
      BY <1>2
    <3> HIDE DEF Pushed, Kept
    <3> QED
      BY <1>6, <3>1, <3>2, FindsNext
  <2> DEFINE rec == [pub[l] EXCEPT !.pc = "check", !.last = r.last,
                                   !.batch = r.batch]
  <2>2. pub' = [pub EXCEPT ![l] = rec]
    BY <1>6, <2>1 DEF GetEvents, SetPub
  <2> HIDE DEF i, id
  <2>3. /\ r.batch \in Seq(Nat) /\ r.last \in Nat
        /\ Consecutive(r.batch)
        /\ r.batch[1] = eventList[i]
        /\ r.last = r.batch[1] + Len(r.batch) - 1
        /\ r.last <= Pushed
    BY <2>1, ListFacts, ReadsBatch
  <2> HIDE DEF r
  <2>4. /\ rec \in PubRec /\ rec.pc = "check" /\ rec.lastID = id
        /\ rec.batch = r.batch /\ rec.last = r.last
    BY <1>1, <2>3 DEF PubRec, id
  <2> HIDE DEF rec
  <2>5. NoneBetween(eventList, id, eventList[i])
    <3>1. \A j \in 1 .. Kept : j >= i => eventList[j] >= eventList[i]
      BY <2>1, ListFacts, SMTT(40)
    <3>2. \A j \in 1 .. Kept : eventList[j] \in Nat /\ Len(eventList) = Kept
      BY ListFacts, SMTT(40)
    <3>3. \A j \in 1 .. Kept : j < i => eventList[j] <= id
      BY <2>1, ListFacts, SMTT(40)
    <3>4. Len(eventList) = Kept /\ Kept \in Nat
      BY ListFacts
    <3> QED
      BY <1>2, <2>1, <3>1, <3>2, <3>3, <3>4, SMTT(40) DEF NoneBetween
  <2>6. PubInv(rec, sent'[l], eventList, Pushed)
    BY <1>2, <1>4, <2>1, <2>3, <2>4, <2>5 DEF PubInv, Follows
  <2> QED
    BY <1>3, <1>4, <2>2, <2>4, <2>6, OnePublisher
<1> QED
  BY <1>5, <1>6

(* Steps that change a publisher's pc and nothing else of it. *)
LEMMA QuietStep ==
  ASSUME IInv, NEW l \in Listener,
         TakeStop(l) \/ AnswerStop(l) \/ Sleep(l) \/ Open(l)
  PROVE  IInv'
<1>1. /\ pub[l] \in PubRec /\ sent[l] \in Nat /\ client[l] \in Clients
      /\ PubInv(pub[l], sent[l], eventList, Pushed)
      /\ client[l] = "none" => pub[l].pc = "none"
  BY DEF IInv, TypeOK, PubRec, Clients
<1>2. /\ UNCHANGED <<eventID, eventList, adder, sent>>
      /\ \E q \in {"answer", "done", "asleep", "get"} :
           /\ pub' = [pub EXCEPT ![l] = [pub[l] EXCEPT !.pc = q]]
           /\ q \in {"asleep", "get"} => pub[l].pc \in {"none", "sleep"}
  BY <1>1 DEF TakeStop, AnswerStop, Sleep, Open, SetPub
<1>3. PICK q \in {"answer", "done", "asleep", "get"} :
           /\ pub' = [pub EXCEPT ![l] = [pub[l] EXCEPT !.pc = q]]
           /\ q \in {"asleep", "get"} => pub[l].pc \in {"none", "sleep"}
  BY <1>2
<1>4. /\ client' \in [Listener -> Clients] /\ sent' \in [Listener -> Nat]
      /\ \A k \in Listener \ {l} : sent'[k] = sent[k] /\ client'[k] = client[k]
      /\ sent'[l] = sent[l] /\ client'[l] # "none"
  BY <1>1, <1>2 DEF IInv, TypeOK, Clients, TakeStop, AnswerStop, Sleep, Open
<1> DEFINE rec == [pub[l] EXCEPT !.pc = q]
<1>5. rec \in PubRec /\ rec.pc = q /\ rec.lastID = pub[l].lastID
  BY <1>1 DEF PubRec
<1> HIDE DEF rec
<1>6. PubInv(rec, sent'[l], eventList, Pushed)
  BY <1>1, <1>3, <1>4, <1>5 DEF PubInv
<1>7. pub' = [pub EXCEPT ![l] = rec]
  BY <1>3 DEF rec
<1> QED
  BY <1>2, <1>4, <1>5, <1>6, <1>7, OnePublisher

(* A publisher with a batch starts to send it; without one it will sleep. *)
LEMMA StartBatchStep ==
  ASSUME IInv, NEW l \in Listener, StartBatch(l)
  PROVE  IInv'
<1>1. /\ pub[l] \in PubRec /\ sent[l] \in Nat /\ pub[l].pc = "check"
      /\ PubInv(pub[l], sent[l], eventList, Pushed)
  BY DEF IInv, TypeOK, PubRec, StartBatch
<1>2. UNCHANGED <<eventID, eventList, adder, client, sent>>
  BY DEF StartBatch
<1>3. /\ client' \in [Listener -> Clients] /\ sent' \in [Listener -> Nat]
      /\ \A k \in Listener : sent'[k] = sent[k] /\ client'[k] = client[k]
      /\ client'[l] # "none"
  BY <1>1, <1>2 DEF IInv, TypeOK, Clients
<1>4. CASE pub[l].batch = <<>>
  <2> DEFINE rec == [pub[l] EXCEPT !.pc = "sleep"]
  <2>1. pub' = [pub EXCEPT ![l] = rec]
    BY <1>4 DEF StartBatch, SetPub
  <2>2. rec \in PubRec /\ rec.pc = "sleep" /\ rec.lastID = pub[l].lastID
    BY <1>1 DEF PubRec
  <2> HIDE DEF rec
  <2>3. PubInv(rec, sent'[l], eventList, Pushed)
    BY <1>1, <1>3, <2>2 DEF PubInv
  <2> QED
    BY <1>2, <1>3, <2>1, <2>2, <2>3, OnePublisher
<1>5. CASE pub[l].batch # <<>>
  <2> DEFINE rec == [pub[l] EXCEPT !.pc = "send", !.lastID = pub[l].last]
  <2>1. pub' = [pub EXCEPT ![l] = rec]
    BY <1>5 DEF StartBatch, SetPub
  <2>2. /\ rec \in PubRec /\ rec.pc = "send" /\ rec.lastID = pub[l].last
        /\ rec.batch = pub[l].batch
    BY <1>1 DEF PubRec
  <2> HIDE DEF rec
  <2>3. /\ Follows(pub[l], sent[l], eventList) /\ pub[l].last <= Pushed
        /\ pub[l].last = pub[l].batch[1] + Len(pub[l].batch) - 1
    BY <1>1, <1>5 DEF PubInv
  <2>4. PubInv(rec, sent'[l], eventList, Pushed)
    BY <1>3, <2>2, <2>3 DEF PubInv, Follows
  <2> QED
    BY <1>2, <1>3, <2>1, <2>2, <2>4, OnePublisher
<1> QED
  BY <1>4, <1>5

(* The event handed over is the first of the batch; the rest follows it.   *)
LEMMA SendStep ==
  ASSUME IInv, NEW l \in Listener, Send(l)
  PROVE  IInv'
<1> DEFINE b == pub[l].batch
           rest == Tail(b)
           q == AfterSend(rest)
           rec == [pub[l] EXCEPT !.batch = rest, !.pc = q]
<1>1. /\ pub[l] \in PubRec /\ sent[l] \in Nat /\ pub[l].pc = "send"
      /\ b \in Seq(Nat) /\ client[l] = "open"
      /\ PubInv(pub[l], sent[l], eventList, Pushed)
  BY DEF IInv, TypeOK, PubRec, Send
<1>2. /\ Follows(pub[l], sent[l], eventList) /\ b # <<>>
      /\ pub[l].lastID = b[1] + Len(b) - 1 /\ pub[l].lastID <= Pushed
      /\ \A i \in 1 .. Len(b) : b[i] = b[1] + i - 1
  BY <1>1 DEF PubInv, Follows, Consecutive
<1>3. /\ UNCHANGED <<eventID, eventList, adder, client>>
      /\ sent' = [sent EXCEPT ![l] = Head(b)]
      /\ pub' = [pub EXCEPT ![l] = rec]
  BY DEF Send, SetPub
<1> HIDE DEF b
<1>4. /\ Head(b) = b[1] /\ b[1] \in Nat /\ rest \in Seq(Nat)
      /\ Len(rest) = Len(b) - 1 /\ Len(b) \in Nat /\ Len(b) > 0
      /\ \A i \in 1 .. Len(rest) : rest[i] = b[i + 1]
  BY <1>1, <1>2, TailIs, SMTT(40)
<1>5. /\ client' \in [Listener -> Clients] /\ sent' \in [Listener -> Nat]
      /\ \A k \in Listener \ {l} : sent'[k] = sent[k] /\ client'[k] = client[k]
      /\ sent'[l] = b[1] /\ client'[l] # "none"
  BY <1>1, <1>3, <1>4 DEF IInv, TypeOK, Clients
<1> HIDE DEF rest
<1>6. q \in {"get", "send"} /\ (q = "get" <=> rest = <<>>)
  BY DEF AfterSend
<1> HIDE DEF q
<1>7. /\ rec \in PubRec /\ rec.pc = q /\ rec.batch = rest
      /\ rec.lastID = pub[l].lastID
  BY <1>1, <1>4, <1>6 DEF PubRec
<1> HIDE DEF rec
<1>8. CASE rest = <<>>
  <2>1. Len(b) = 1
    BY <1>4, <1>8, SMTT(40)
  <2>2. pub[l].lastID = b[1]
    BY <1>2, <1>4, <2>1, SMTT(40)
  <2>3. PubInv(rec, sent'[l], eventList, Pushed)
    BY <1>2, <1>5, <1>6, <1>7, <1>8, <2>2 DEF PubInv
  <2> QED
    BY <1>3, <1>5, <1>7, <2>3, OnePublisher
<1>9. CASE rest # <<>>
  <2>1. Len(rest) > 0
    BY <1>4, <1>9, SMTT(40)
  <2>2. rest[1] = b[1] + 1 /\ \A i \in 1 .. Len(rest) : rest[i] = rest[1] + i - 1
    <3>1. \A i \in 1 .. Len(rest) : i + 1 \in 1 .. Len(b) /\ rest[i] = b[i + 1]
      BY <1>4, SMTT(40)
    <3>2. \A i \in 1 .. Len(b) : b[i] = b[1] + i - 1
      BY <1>2
    <3>3. \A i \in 1 .. Len(rest) : rest[i] = b[1] + i
      BY <1>4, <3>1, <3>2, SMTT(40)
    <3>4. 1 \in 1 .. Len(rest)
      BY <1>4, <2>1, SMTT(40)
    <3>5. rest[1] = b[1] + 1
      BY <3>3, <3>4
    <3> QED
      BY <1>4, <3>3, <3>5, SMTT(40)
  <2>3. Consecutive(rest) /\ b[1] < rest[1]
    BY <1>4, <1>9, <2>2, SMTT(40) DEF Consecutive
  <2>4. NoneBetween(eventList, b[1], rest[1])
    BY <1>4, <2>2, ListFacts, SMTT(40) DEF NoneBetween
  <2>5. pub[l].lastID = rest[1] + Len(rest) - 1
    <3>1. pub[l].lastID = b[1] + Len(b) - 1
      BY <1>2
    <3>2. rest[1] = b[1] + 1 /\ Len(rest) = Len(b) - 1 /\ b[1] \in Nat /\ Len(b) \in Nat
      BY <1>4, <2>2
    <3> QED
      BY <3>1, <3>2, SMTT(40)
  <2>6. PubInv(rec, sent'[l], eventList, Pushed)
    BY <1>2, <1>5, <1>6, <1>7, <1>9, <2>3, <2>4, <2>5 DEF PubInv, Follows
  <2> QED
    BY <1>3, <1>5, <1>7, <2>6, OnePublisher
<1> QED
  BY <1>8, <1>9

-----------------------------------------------------------------------------
(***************************************************************************)
(* The steps of the adder and the theorems.                                *)
(***************************************************************************)

(* A new id leaves the list and every publisher alone. *)
LEMMA TakeIDStep ==
  ASSUME IInv, TakeID
  PROVE  IInv'
<1>1. Pushed' = Pushed /\ Kept' = Kept
  BY SMTT(40) DEF IInv, TypeOK, TakeID, Pushed, Kept
<1>2. TypeOK'
  BY SMTT(40) DEF IInv, TypeOK, TakeID
<1>3. UNCHANGED <<eventList, pub, client, sent>>
  BY DEF TakeID
<1> QED
  BY <1>1, <1>2, <1>3 DEF IInv, KeepsLatest

(* A client that leaves disturbs no publisher. *)
LEMMA LeaveStep ==
  ASSUME IInv, NEW l \in Listener, NEW how \in {"stop", "gone"}, Leave(l, how)
  PROVE  IInv'
<1>1. /\ UNCHANGED <<eventID, eventList, adder, pub, sent>>
      /\ client' = [client EXCEPT ![l] = how]
  BY DEF Leave
<1>2. Pushed' = Pushed /\ Kept' = Kept
  BY <1>1 DEF Pushed, Kept
<1>3. TypeOK'
  BY <1>1 DEF IInv, TypeOK
<1>4. \A k \in Listener : client'[k] = "none" => client[k] = "none"
  BY <1>1 DEF IInv, TypeOK
<1> QED
  BY <1>1, <1>2, <1>3, <1>4 DEF IInv, KeepsLatest

(* The event pushed is newer than every event some publisher knows of.     *)
LEMMA PushStep ==
  ASSUME IInv, Push
  PROVE  IInv'
<1>1. /\ adder = "push" /\ adder' = "wake" /\ eventID' = eventID
      /\ UNCHANGED <<pub, client, sent>>
      /\ eventList' = Trim(Append(eventList, eventID))
  BY DEF Push
<1>2. eventID \in Nat /\ eventID = Pushed + 1 /\ Pushed' = eventID
  BY <1>1, SMTT(40) DEF IInv, TypeOK, Pushed
<1>3. Kept' = IF Kept < MaxSize THEN Kept + 1 ELSE Kept
  BY <1>2, ListFacts, LogAssumption, SMTT(40) DEF Kept, IInv
<1>4. eventList' = [i \in 1 .. Kept' |-> Pushed' - Kept' + i]
  <2> DEFINE m == IF Kept < MaxSize THEN Kept + 1 ELSE Kept
  <2>1. /\ Pushed \in Nat /\ Kept \in Nat /\ Kept <= Pushed /\ Kept <= MaxSize
        /\ eventList = [i \in 1 .. Kept |-> Pushed - Kept + i]
    BY ListFacts
  <2>2. Trim(Append(eventList, eventID)) = [i \in 1 .. m |-> eventID - m + i]
    BY <1>2, <2>1, TrimAppend, SMTT(40)
  <2> QED
    BY <1>1, <1>2, <1>3, <2>2
<1>5. /\ Pushed \in Nat /\ Kept \in Nat /\ Kept <= Pushed
      /\ Pushed' \in Nat /\ Kept' \in Nat /\ Kept' <= Pushed'
      /\ Pushed' = Pushed + 1 /\ Kept' >= Kept /\ Kept' <= Kept + 1
  BY <1>2, <1>3, ListFacts, SMTT(40)
<1>6. eventList' \in Seq(Nat) /\ Len(eventList') = Kept'
      /\ \A i \in 1 .. Kept' : eventList'[i] = Pushed' - Kept' + i
  <2> DEFINE s == eventList'
             p == Pushed'
             n == Kept'
  <2>1. p \in Nat /\ n \in Nat /\ n <= p /\ s = [i \in 1 .. n |-> p - n + i]
    BY <1>4, <1>5
  <2> HIDE DEF s, p, n
  <2>2. s \in Seq(Nat) /\ Len(s) = n /\ \A i \in 1 .. n : s[i] = p - n + i
    BY <2>1, Range_
  <2> QED
    BY <2>2 DEF s, p, n
<1>7. TypeOK'
  BY <1>1, <1>2, <1>6 DEF IInv, TypeOK
<1>8. (StartID <= Pushed)' /\ KeepsLatest'
  <2>1. StartID \in Nat /\ StartID <= Pushed
    BY LogAssumption DEF IInv
  <2>2. StartID <= Pushed'
    BY <1>5, <2>1, SMTT(40)
  <2> QED
    BY <1>4, <2>2 DEF KeepsLatest
<1>9. ASSUME NEW a \in Nat, NEW b \in Nat, b <= Pushed,
             NoneBetween(eventList, a, b)
      PROVE  NoneBetween(eventList', a, b)
  <2> SUFFICES ASSUME NEW i \in 1 .. Kept', a < eventList'[i], eventList'[i] < b
               PROVE  FALSE
    BY <1>6 DEF NoneBetween
  <2>1. eventList'[i] = Pushed' - Kept' + i
    BY <1>6
  <2>2. PICK j \in 1 .. Kept : Pushed - Kept + j = Pushed' - Kept' + i
    <3> DEFINE p == Pushed
               n == Kept
               q == Pushed'
               m == Kept'
               j == q - m + i - p + n
    <3>1. /\ p \in Nat /\ n \in Nat /\ m \in Nat /\ q = p + 1 /\ n <= m /\ m <= n + 1
          /\ q - m + i < b /\ b <= p /\ b \in Nat /\ i \in 1 .. m
      BY <1>5, <1>9, <2>1
    <3> SUFFICES \E k \in 1 .. n : p - n + k = q - m + i
      OBVIOUS
    <3> HIDE DEF p, n, q, m
    <3>2. j \in 1 .. n /\ p - n + j = q - m + i
      BY <3>1, SMTT(40)
    <3> QED
      BY <3>2
  <2>3. eventList[j] = eventList'[i] /\ Len(eventList) = Kept
    BY <2>1, <2>2, ListFacts
  <2> QED
    BY <1>9, <2>2, <2>3 DEF NoneBetween
<1>10. ASSUME NEW l \in Listener
       PROVE  /\ PubInv(pub'[l], sent'[l], eventList', Pushed')
              /\ client'[l] = "none" => pub'[l].pc = "none"
  <2>1. /\ PubInv(pub[l], sent[l], eventList, Pushed)
        /\ client[l] = "none" => pub[l].pc = "none"
        /\ pub[l] \in PubRec /\ sent[l] \in Nat
    BY DEF IInv, TypeOK, PubRec
  <2>2. pub[l].lastID \in Nat /\ pub[l].last \in Nat /\ pub[l].batch \in Seq(Nat)
    BY <2>1 DEF PubRec
  <2>3. ASSUME NEW a \in Nat, Follows(pub[l], a, eventList),
               NEW e \in Nat, e = pub[l].batch[1] + Len(pub[l].batch) - 1, e <= Pushed
        PROVE  Follows(pub[l], a, eventList')
    <3>1. pub[l].batch # <<>>
      BY <2>3 DEF Follows, Consecutive
    <3>2. pub[l].batch[1] \in Nat /\ Len(pub[l].batch) \in Nat /\ Len(pub[l].batch) >= 1
      BY <2>2, <3>1, SMTT(40)
    <3>3. pub[l].batch[1] <= Pushed
      BY <1>5, <2>3, <3>2, SMTT(40)
    <3>4. NoneBetween(eventList, a, pub[l].batch[1])
      BY <2>3 DEF Follows
    <3>5. NoneBetween(eventList', a, pub[l].batch[1])
      BY <1>9, <3>2, <3>3, <3>4
    <3> QED
      BY <2>3, <3>5 DEF Follows
  <2>4. pub[l].pc = "check" /\ pub[l].batch # <<>> =>
          Follows(pub[l], pub[l].lastID, eventList')
    BY <2>1, <2>2, <2>3 DEF PubInv
  <2>5. pub[l].pc = "send" => Follows(pub[l], sent[l], eventList')
    BY <2>1, <2>2, <2>3 DEF PubInv
  <2>6. \A x \in Nat : x <= Pushed => x <= Pushed'
    BY <1>5, SMTT(40)
  <2>7. PubInv(pub[l], sent[l], eventList', Pushed')
    BY <2>1, <2>2, <2>4, <2>5, <2>6 DEF PubInv
  <2> QED
    BY <1>1, <2>1, <2>7
<1> QED
  BY <1>7, <1>8, <1>10 DEF IInv

(* A Broadcast only wakes publishers that sleep. *)
LEMMA BroadcastStep ==
  ASSUME IInv, Broadcast
  PROVE  IInv'
<1>1. /\ adder = "wake" /\ adder' = "idle"
      /\ UNCHANGED <<eventID, eventList, client, sent>>
      /\ pub' = [l \in Listener |-> IF pub[l].pc = "asleep"
                   THEN [pub[l] EXCEPT !.pc = "get"] ELSE pub[l]]
  BY DEF Broadcast
<1>2. Pushed' = Pushed /\ Kept' = Kept
  BY <1>1 DEF Pushed, Kept
<1>3. ASSUME NEW l \in Listener
      PROVE  /\ pub'[l] \in PubRec
             /\ PubInv(pub'[l], sent[l], eventList, Pushed)
             /\ client[l] = "none" => pub'[l].pc = "none"
  <2>1. /\ PubInv(pub[l], sent[l], eventList, Pushed)
        /\ client[l] = "none" => pub[l].pc = "none"
        /\ pub[l] \in PubRec
    BY DEF IInv, TypeOK, PubRec
  <2>2. CASE pub[l].pc = "asleep"
    <3> DEFINE rec == [pub[l] EXCEPT !.pc = "get"]
    <3>1. pub'[l] = rec
      BY <1>1, <2>2
    <3>2. rec \in PubRec /\ rec.pc = "get" /\ rec.lastID = pub[l].lastID
      BY <2>1 DEF PubRec
    <3> HIDE DEF rec
    <3>3. PubInv(rec, sent[l], eventList, Pushed)
      BY <2>1, <2>2, <3>2 DEF PubInv
    <3> QED
      BY <2>1, <2>2, <3>1, <3>2, <3>3
  <2>3. CASE pub[l].pc # "asleep"
    <3>1. pub'[l] = pub[l]
      BY <1>1, <2>3
    <3> QED
      BY <2>1, <3>1
  <2> QED
    BY <2>2, <2>3
<1>4. pub' \in [Listener -> PubRec]
  <2>1. pub' = [l \in Listener |-> pub'[l]]
    BY <1>1
  <2> QED
    BY <1>3, <2>1
<1>5. TypeOK'
  BY <1>1, <1>4 DEF IInv, TypeOK, PubRec
<1> QED
  BY <1>1, <1>2, <1>3, <1>5 DEF IInv, KeepsLatest

(* The invariant is inductive. *)
THEOREM Inductive == Spec => []IInv
<1>1. Init => IInv
  <2> SUFFICES ASSUME Init PROVE IInv
    OBVIOUS
  <2>1. TypeOK
    BY LogAssumption, SMTT(40) DEF Init, TypeOK
  <2>2. Pushed = StartID /\ Kept = 0
    BY LogAssumption, SMTT(40) DEF Init, Pushed, Kept
  <2>3. KeepsLatest
    <3>1. eventList = <<>> /\ 1 .. 0 = {}
      BY SMTT(40) DEF Init
    <3>2. [i \in {} |-> Pushed - Kept + i] = <<>>
      BY SMTT(40)
    <3> QED
      BY <2>2, <3>1, <3>2 DEF KeepsLatest
  <2>4. ASSUME NEW l \in Listener
        PROVE  /\ PubInv(pub[l], sent[l], eventList, Pushed)
               /\ client[l] = "none" => pub[l].pc = "none"
    <3>1. pub[l].pc = "none" /\ pub[l].lastID = 0 /\ sent[l] = 0
      BY DEF Init
    <3> QED
      BY <2>2, <3>1, LogAssumption, SMTT(40) DEF PubInv
  <2> QED
    BY <2>1, <2>2, <2>3, <2>4, LogAssumption, SMTT(40) DEF IInv
<1>2. IInv /\ [Next]_vars => IInv'
  <2> SUFFICES ASSUME IInv, [Next]_vars PROVE IInv'
    OBVIOUS
  <2>1. CASE TakeID
    BY <2>1, TakeIDStep
  <2>2. CASE Push
    BY <2>2, PushStep
  <2>3. CASE Broadcast
    BY <2>3, BroadcastStep
  <2>4. ASSUME NEW l \in Listener, Publish(l) PROVE IInv'
    BY <2>4, GetEventsStep, QuietStep, StartBatchStep, SendStep DEF Publish
  <2>5. ASSUME NEW l \in Listener, Open(l) PROVE IInv'
    BY <2>5, QuietStep
  <2>6. ASSUME NEW l \in Listener, NEW how \in {"stop", "gone"}, Leave(l, how)
        PROVE  IInv'
    BY <2>6, LeaveStep
  <2>7. CASE UNCHANGED vars
    BY <2>7 DEF vars, IInv, TypeOK, KeepsLatest, Pushed, Kept
  <2> QED
    BY <2>1, <2>2, <2>3, <2>4, <2>5, <2>6, <2>7 DEF Next
<1> QED
  BY <1>1, <1>2, PTL DEF Spec

(* No publisher of EventWatcher or LogWatcher dereferences a nil element,  *)
(* for any size of the list and any number of listeners.                   *)
THEOREM TypesAndNoPanic == Spec => []TypeOK
<1>1. IInv => TypeOK
  BY DEF IInv
<1> QED
  BY <1>1, Inductive, PTL

(* add keeps the latest events and leaves no gap between them.             *)
THEOREM ListIsContiguous == Spec => []KeepsLatest
<1>1. IInv => KeepsLatest
  BY DEF IInv
<1> QED
  BY <1>1, Inductive, PTL

(* publishEvent hands every client the events in order, each once, leaving *)
(* out only what the list has dropped.                                     *)
THEOREM DeliversInOrder == Spec => []InOrder
<1>1. IInv => InOrder
  <2> SUFFICES ASSUME IInv, NEW l \in Listener, pub[l].pc = "send"
               PROVE  /\ sent[l] < Head(pub[l].batch)
                      /\ \A i \in 1 .. Len(eventList) :
                           ~(sent[l] < eventList[i] /\ eventList[i] < Head(pub[l].batch))
    BY DEF InOrder
  <2>1. Follows(pub[l], sent[l], eventList) /\ pub[l].batch \in Seq(Nat)
    BY DEF IInv, TypeOK, PubInv
  <2>2. Head(pub[l].batch) = pub[l].batch[1]
    BY <2>1, SMTT(40) DEF Follows, Consecutive
  <2> QED
    BY <2>1, <2>2 DEF Follows, NoneBetween
<1> QED
  BY <1>1, Inductive, PTL

-----------------------------------------------------------------------------
(***************************************************************************)
(* Alarms.  No number in the list is beyond the next one, so a number that *)
(* the table does not have is larger than all of them; and as long as none *)
(* was given twice, a listener is not past the largest number given.       *)
(***************************************************************************)

AlAlarm == [uid : Nat, nr : Nat, cluster : AlClusters, what : AlWhats, ack : BOOLEAN, old : BOOLEAN]

AlFields == {"last", "from", "pend", "got", "at", "unack", "ackAt", "open"}

AlTypes ==
  /\ alList \in Seq(AlAlarm)
  /\ IsFiniteSet(DOMAIN alTable) /\ DOMAIN alTable \subseteq Nat
  /\ \A u \in DOMAIN alTable : alTable[u] \in AlAlarm /\ alTable[u].uid = u
  /\ alEvent \in Nat /\ alTop \in Nat /\ alRaised \in Nat /\ IsFiniteSet(alAdding)

(* A listener holds what it has to send and nothing else. *)
AlListens(l) ==
  /\ AlFields \subseteq DOMAIN l
  /\ l.last \in Nat /\ l.from \in Nat /\ l.pend \in Seq(AlAlarm)
  /\ l.at = "send" <=> l.pend # << >>

(* The alarms of a list are in the order of their numbers. *)
AlSorted(q) == \A i, j \in DOMAIN q : i < j => q[i].uid < q[j].uid

(* The alarms of the list are in the table, and no number is beyond the    *)
(* next one or the largest that was given.                                 *)
AlListed(q, table, event, top) ==
  \A i \in DOMAIN q :
    /\ q[i].uid \in DOMAIN table /\ table[q[i].uid].nr = q[i].nr
    /\ q[i].uid <= event + 1 /\ q[i].uid <= top

(* What was read for a listener. *)
AlRead(l) == l.got \cup {l.pend[j].nr : j \in DOMAIN l.pend}

AlPassed(q, l) == \A i \in DOMAIN q : q[i].uid \in (l.from + 1)..l.last => q[i].nr \in AlRead(l)

(* A function on 1..n is a sequence. *)
LEMMA AlIsSeq == ASSUME NEW S, NEW n \in Nat, NEW r \in [1..n -> S] PROVE r \in Seq(S)
BY SMTT(40)

(* A part of a sequence. *)
LEMMA AlPart ==
  ASSUME NEW S, NEW s, NEW m \in Int, NEW n \in Int, \A i \in m .. n : s[i] \in S
  PROVE  /\ SubSeq(s, m, n) \in Seq(S) /\ Len(SubSeq(s, m, n)) = IF m <= n THEN n - m + 1 ELSE 0
         /\ \A i \in 1 .. n - m + 1 : SubSeq(s, m, n)[i] = s[m + i - 1]
BY SMTT(40)

AlInv ==
  /\ AlTypes /\ AlListens(alListener) /\ AlSorted(alList) /\ AlListed(alList, alTable, alEvent, alTop)
  /\ ~ alReused => /\ alEvent + Cardinality(alAdding) <= alTop
                   /\ alListener.last <= alTop
                   /\ AlPassed(alList, alListener)
(* The numbers of a list are at least as far apart as their places.        *)
LEMMA AlSpread ==
  ASSUME NEW q \in Seq(AlAlarm), AlSorted(q), NEW i \in DOMAIN q, NEW j \in DOMAIN q, i <= j
  PROVE  q[i].uid + (j - i) <= q[j].uid
<1> DEFINE f == [k \in i..j |-> q[k].uid]
           S == i..j
           T == q[i].uid..q[j].uid
<1>0. DOMAIN q = 1..Len(q) /\ Len(q) \in Nat /\ \A k \in 1..Len(q) : q[k] \in AlAlarm
  BY SMTT(40)
<1>1. i \in Nat /\ j \in Nat /\ \A k \in S : k \in DOMAIN q /\ q[k].uid \in Nat
  BY <1>0, SMTT(40) DEF AlAlarm
<1>2. \A k \in S : q[k].uid \in T
  BY <1>1, SMTT(40) DEF AlSorted
<1>3. f \in Injection(S, T)
  <2>1. f \in [S -> T]
    BY <1>2
  <2>2. \A x, y \in S : f[x] = f[y] => x = y
    BY <1>1, SMTT(40) DEF AlSorted
  <2> QED
    BY <2>1, <2>2 DEF Injection, IsInjective
<1>4. IsFiniteSet(T) /\ Cardinality(T) = (IF q[i].uid > q[j].uid THEN 0 ELSE q[j].uid - q[i].uid + 1)
  <2>1. q[i].uid \in Int /\ q[j].uid \in Int
    BY <1>0, SMTT(40) DEF AlAlarm
  <2> QED
    BY <2>1, FS_Interval
<1>5. Cardinality(S) = j - i + 1
  <2>0. i \in Int /\ j \in Int
    BY <1>1, SMTT(40)
  <2>1. Cardinality(i..j) = IF i > j THEN 0 ELSE j - i + 1
    BY <2>0, FS_Interval
  <2> QED
    BY <1>1, <2>1, SMTT(40)
<1>6. Cardinality(S) <= Cardinality(T)
  <2> HIDE DEF f, S, T
  <2> QED
    BY <1>3, <1>4, FS_Injection
<1> QED
  BY <1>0, <1>1, <1>4, <1>5, <1>6, SMTT(40) DEF AlSorted

(* An alarm that is acknowledged or gets old keeps its numbers. *)
LEMMA AlMarked ==
  ASSUME NEW a \in AlAlarm
  PROVE  /\ [a EXCEPT !.ack = TRUE] \in AlAlarm /\ [a EXCEPT !.ack = TRUE].uid = a.uid /\ [a EXCEPT !.ack = TRUE].nr = a.nr
         /\ [a EXCEPT !.old = TRUE] \in AlAlarm /\ [a EXCEPT !.old = TRUE].uid = a.uid /\ [a EXCEPT !.old = TRUE].nr = a.nr
BY DEF AlAlarm

(* A listener whose numbers and alarms stay. *)
AlAlike(l, m) ==
  AlFields \subseteq DOMAIN m /\ m.last = l.last /\ m.from = l.from /\ m.pend = l.pend /\ m.got = l.got
  /\ (m.at = "send" <=> l.at = "send")

(* Such a listener has read the same. *)
LEMMA AlStaysAlike == ASSUME NEW l, AlListens(l), NEW m, AlAlike(l, m) PROVE AlListens(m) /\ AlRead(m) = AlRead(l)
BY DEF AlAlike, AlListens, AlRead

(* Whoever waits looks again. *)
LEMMA AlWoken == ASSUME NEW l, AlListens(l) PROVE AlAlike(l, AlBroadcast(l))
BY DEF AlAlike, AlListens, AlBroadcast, AlFields

(* Only the label of a loop, the number or the connection changes. *)
LEMMA AlFieldSet ==
  ASSUME NEW l, AlListens(l), NEW v, NEW f \in {"ackAt", "unack", "open"}
  PROVE  AlAlike(l, [l EXCEPT ![f] = v])
BY DEF AlAlike, AlListens, AlFields

(* What a listener has passed was read as long as the list gets no alarm.  *)
AlAmong(r, q) == \A i \in DOMAIN r : \E j \in DOMAIN q : r[i].uid = q[j].uid /\ r[i].nr = q[j].nr

(* A list with no other alarms has nothing more that a listener is past. *)
LEMMA AlPassedStays ==
  ASSUME NEW q, NEW r, AlAmong(r, q),
         NEW l, NEW m, m.last = l.last, m.from = l.from, AlRead(l) \subseteq AlRead(m), AlPassed(q, l)
  PROVE  AlPassed(r, m)
BY DEF AlPassed, AlAmong

(* A step that adds no alarm and moves no number: what is left of the list *)
(* is in order and in the table.                                           *)
LEMMA AlLess ==
  ASSUME AlInv, AlTypes', AlListens(alListener'), AlSorted(alList'), AlAmong(alList', alList),
         \A i \in DOMAIN alList' : alList'[i].uid \in DOMAIN alTable' /\ alTable'[alList'[i].uid].nr = alList'[i].nr,
         alListener'.last = alListener.last, alListener'.from = alListener.from, AlRead(alListener) \subseteq AlRead(alListener'),
         UNCHANGED <<alEvent, alAdding, alReused, alTop>>
  PROVE  AlInv'
<1>1. AlListed(alList', alTable', alEvent', alTop')
  BY DEF AlInv, AlListed, AlAmong
<1>2. ASSUME ~ alReused' PROVE AlPassed(alList', alListener')
  BY <1>2, AlPassedStays DEF AlInv
<1> QED
  BY <1>1, <1>2 DEF AlInv

(* Only what a listener does changes. *)
LEMMA AlHears ==
  ASSUME AlInv, AlListens(alListener'),
         alListener'.last = alListener.last, alListener'.from = alListener.from, AlRead(alListener) \subseteq AlRead(alListener'),
         UNCHANGED <<alList, alTable, alEvent, alAdding, alRaised, alReused, alTop>>
  PROVE  AlInv'
<1>1. AlTypes' /\ AlSorted(alList') /\ AlAmong(alList', alList)
  BY DEF AlInv, AlTypes, AlAmong
<1> QED
  BY <1>1, AlLess DEF AlInv, AlListed

(* A listener that only waits or looks again. *)
LEMMA AlHearsAlike ==
  ASSUME AlInv, AlAlike(alListener, alListener'), UNCHANGED <<alList, alTable, alEvent, alAdding, alRaised, alReused, alTop>>
  PROVE  AlInv'
<1>1. AlListens(alListener') /\ AlRead(alListener') = AlRead(alListener)
  BY AlStaysAlike DEF AlInv
<1> QED
  BY <1>1, AlHears DEF AlAlike

(* A loop goes to sleep, sends an acknowledgement, or its connection       *)
(* ends.                                                                   *)
LEMMA AlSleeps == ASSUME AlInv, AlSleep \/ publishAck \/ Disconnect PROVE AlInv'
<1>0. AlListens(alListener)
  BY DEF AlInv
<1>1. CASE AlSleep
  <2>1. AlAlike(alListener, alListener')
    BY <1>0, <1>1 DEF AlSleep, AlListens, AlAlike, AlFields
  <2> QED
    BY <1>1, <2>1, AlHearsAlike DEF AlSleep
<1>2. CASE publishAck
  <2>1. AlAlike(alListener, alListener')
    BY <1>0, <1>2, AlFieldSet DEF publishAck
  <2> QED
    BY <1>2, <2>1, AlHearsAlike DEF publishAck
<1>3. CASE Disconnect
  <2>1. AlAlike(alListener, alListener')
    BY <1>0, <1>3, AlFieldSet DEF Disconnect
  <2> QED
    BY <1>3, <2>1, AlHearsAlike DEF Disconnect
<1> QED
  BY <1>1, <1>2, <1>3

(* The first of the alarms to send is taken. *)
LEMMA AlTakes ==
  ASSUME NEW p \in Seq(AlAlarm), p # << >>
  PROVE  /\ Tail(p) \in Seq(AlAlarm) /\ Head(p) = p[1] /\ (Tail(p) = << >> <=> Len(p) = 1)
         /\ \A j \in DOMAIN p : j = 1 \/ (j - 1 \in DOMAIN Tail(p) /\ Tail(p)[j - 1] = p[j])
<1>1. Len(p) \in Nat \ {0} /\ DOMAIN p = 1..Len(p)
  BY SMTT(40)
<1>2. Tail(p) \in Seq(AlAlarm) /\ Len(Tail(p)) = Len(p) - 1 /\ \A i \in 1..Len(Tail(p)) : Tail(p)[i] = p[i + 1]
  BY <1>1, SMTT(40)
<1>3. Tail(p) = << >> <=> Len(p) = 1
  BY <1>1, <1>2, SMTT(40)
<1> QED
  BY <1>1, <1>2, <1>3, SMTT(40)

(* What a listener has read once it took the first alarm. *)
LEMMA AlTook ==
  ASSUME NEW l, AlFields \subseteq DOMAIN l, NEW p, NEW g, NEW a
  PROVE  LET m == [l EXCEPT !.pend = p, !.got = g, !.at = a]
         IN  AlFields \subseteq DOMAIN m /\ m.last = l.last /\ m.from = l.from /\ m.pend = p /\ m.got = g /\ m.at = a
BY DEF AlFields

(* The first alarm to send becomes one that was got. *)
LEMMA AlOpens == ASSUME AlInv, OpenAlarm PROVE AlInv'
<1> DEFINE l == alListener
           m == alListener'
<1>1. AlListens(l) /\ AlFields \subseteq DOMAIN l /\ l.at = "send" /\ l.pend # << >> /\ l.pend \in Seq(AlAlarm)
  BY DEF AlInv, AlListens, OpenAlarm
<1>2. /\ AlFields \subseteq DOMAIN m /\ m.last = l.last /\ m.from = l.from /\ m.pend = Tail(l.pend)
      /\ m.got = l.got \cup {Head(l.pend).nr} /\ m.at = (IF Len(l.pend) = 1 THEN "read" ELSE "send")
  <2>1. PICK p, g, a : p = Tail(l.pend) /\ g = l.got \cup {Head(l.pend).nr} /\ a = (IF Len(l.pend) = 1 THEN "read" ELSE "send")
    OBVIOUS
  <2>2. m = [l EXCEPT !.pend = p, !.got = g, !.at = a]
    BY <2>1 DEF OpenAlarm
  <2> QED
    BY <1>1, <2>1, <2>2, AlTook, SMTT(40)
<1>3. /\ Tail(l.pend) \in Seq(AlAlarm) /\ (Tail(l.pend) = << >> <=> Len(l.pend) = 1)
      /\ \A j \in DOMAIN l.pend : j = 1 \/ (j - 1 \in DOMAIN Tail(l.pend) /\ Tail(l.pend)[j - 1] = l.pend[j])
      /\ Head(l.pend) = l.pend[1]
  BY <1>1, AlTakes
<1>4. AlListens(m)
  BY <1>1, <1>2, <1>3 DEF AlListens
<1>5. AlRead(l) \subseteq AlRead(m)
  <2>1. ASSUME NEW j \in DOMAIN l.pend PROVE l.pend[j].nr \in AlRead(m)
    <3>1. CASE j = 1
      BY <1>2, <1>3, <3>1 DEF AlRead
    <3>2. CASE j # 1
      <4>1. j - 1 \in DOMAIN m.pend /\ m.pend[j - 1] = l.pend[j]
        BY <1>2, <1>3, <3>2
      <4> QED
        BY <4>1 DEF AlRead
    <3> QED
      BY <3>1, <3>2
  <2>2. l.got \subseteq AlRead(m)
    BY <1>2 DEF AlRead
  <2> QED
    BY <2>1, <2>2 DEF AlRead
<1> QED
  BY <1>2, <1>4, <1>5, AlHears DEF OpenAlarm

(* The end of an Add moves the number and wakes whoever waits. *)
LEMMA AlAddEnds == ASSUME AlInv, NEW s, AddEnds(s) PROVE AlInv'
<1>1. alEvent' = alEvent + 1 /\ s \in alAdding /\ alAdding' = alAdding \ {s} /\ UNCHANGED <<alList, alTable, alRaised, alReused, alTop>>
  BY DEF AddEnds
<1>2. AlAlike(alListener, alListener')
  BY AlWoken DEF AlInv, AddEnds
<1>3. AlListens(alListener') /\ AlRead(alListener') = AlRead(alListener)
  BY <1>2, AlStaysAlike DEF AlInv
<1>4. IsFiniteSet(alAdding') /\ Cardinality(alAdding') = Cardinality(alAdding) - 1 /\ Cardinality(alAdding) \in Nat
  BY <1>1, FS_RemoveElement, FS_CardinalityType DEF AlInv, AlTypes
<1>5. AlTypes'
  BY <1>1, <1>4, SMTT(40) DEF AlInv, AlTypes
<1>6. AlListed(alList', alTable', alEvent', alTop')
  <2>1. \A i \in DOMAIN alList : alList[i].uid \in Nat
    BY DEF AlInv, AlTypes, AlListed
  <2> QED
    BY <1>1, <2>1, SMTT(40) DEF AlInv, AlTypes, AlListed
<1>7. AlPassed(alList, alListener) => AlPassed(alList', alListener')
  BY <1>1, <1>2, <1>3 DEF AlPassed, AlAlike
<1>8. alEvent + Cardinality(alAdding) = alEvent' + Cardinality(alAdding')
  BY <1>1, <1>4, SMTT(40) DEF AlInv, AlTypes
<1> QED
  BY <1>1, <1>2, <1>3, <1>5, <1>6, <1>7, <1>8 DEF AlInv, AlAlike

(* A watcher starts, or a request marks an alarm in the table. *)
LEMMA AlCreated == ASSUME AlInv, NEW c, ClusterCreated(c) PROVE AlInv'
<1>1. AlAlike(alListener, alListener')
  BY DEF AlInv, AlListens, AlAlike, ClusterCreated
<1> QED
  BY <1>1, AlHearsAlike DEF ClusterCreated

(* A request acknowledges an alarm in the table. *)
LEMMA AlUpdates == ASSUME AlInv, NEW u \in DOMAIN alTable, Update(u) PROVE AlInv'
<1>1. alTable' = [alTable EXCEPT ![u].ack = TRUE] /\ UNCHANGED <<alList, alEvent, alAdding, alListener, alRaised, alReused, alTop>>
  BY DEF Update
<1>2. DOMAIN alTable' = DOMAIN alTable
  BY <1>1
<1>3. ASSUME NEW v \in DOMAIN alTable PROVE alTable'[v] \in AlAlarm /\ alTable'[v].uid = v /\ alTable'[v].nr = alTable[v].nr
  <2>1. alTable[v] \in AlAlarm /\ alTable[v].uid = v
    BY DEF AlInv, AlTypes
  <2>2. alTable'[v] = (IF v = u THEN [alTable[v] EXCEPT !.ack = TRUE] ELSE alTable[v])
    BY <1>1
  <2> QED
    BY <2>1, <2>2, AlMarked
<1>4. AlTypes'
  BY <1>1, <1>2, <1>3 DEF AlInv, AlTypes
<1>5. AlAmong(alList', alList) /\ AlListens(alListener') /\ AlSorted(alList')
  BY <1>1 DEF AlAmong, AlInv
<1>6. \A i \in DOMAIN alList' : alList'[i].uid \in DOMAIN alTable' /\ alTable'[alList'[i].uid].nr = alList'[i].nr
  BY <1>1, <1>2, <1>3 DEF AlInv, AlListed
<1> QED
  BY <1>1, <1>4, <1>5, <1>6, AlLess

(* A list whose alarms keep their numbers. *)
LEMMA AlRelisted ==
  ASSUME NEW q \in Seq(AlAlarm), AlSorted(q), NEW r, r = [i \in DOMAIN q |-> r[i]],
         \A i \in DOMAIN q : r[i] \in AlAlarm /\ r[i].uid = q[i].uid /\ r[i].nr = q[i].nr
  PROVE  r \in Seq(AlAlarm) /\ DOMAIN r = DOMAIN q /\ AlSorted(r) /\ AlAmong(r, q)
<1>1. DOMAIN q = 1..Len(q) /\ Len(q) \in Nat
  BY SMTT(40)
<1>2. r \in Seq(AlAlarm)
  BY <1>1, AlIsSeq
<1> QED
  BY <1>2 DEF AlSorted, AlAmong

(* The alarm is acknowledged in the list as well. *)
LEMMA AlUpdateEnds == ASSUME AlInv, UpdateEnds PROVE AlInv'
<1>1. /\ alList' = [i \in DOMAIN alList |-> IF i \in getAlarmFromList(alAck) THEN [alList[i] EXCEPT !.ack = TRUE] ELSE alList[i]]
      /\ UNCHANGED <<alTable, alEvent, alAdding, alRaised, alReused, alTop>>
  BY DEF UpdateEnds
<1>2. AlAlike(alListener, alListener')
  <2>1. AlListens(alListener)
    BY DEF AlInv
  <2>2. AlAlike(alListener, alListener)
    BY <2>1 DEF AlListens, AlAlike
  <2> QED
    BY <2>1, <2>2, AlWoken DEF UpdateEnds
<1>3. AlListens(alListener') /\ AlRead(alListener') = AlRead(alListener)
  BY <1>2, AlStaysAlike DEF AlInv
<1>4. alList \in Seq(AlAlarm) /\ AlSorted(alList)
  BY DEF AlInv, AlTypes
<1>5. \A i \in DOMAIN alList : alList'[i] \in AlAlarm /\ alList'[i].uid = alList[i].uid /\ alList'[i].nr = alList[i].nr
  <2>1. \A i \in DOMAIN alList : alList[i] \in AlAlarm
    BY <1>4, SMTT(40)
  <2> QED
    BY <1>1, <2>1, AlMarked
<1>6. alList' \in Seq(AlAlarm) /\ DOMAIN alList' = DOMAIN alList /\ AlSorted(alList') /\ AlAmong(alList', alList)
  BY <1>1, <1>4, <1>5, AlRelisted
<1>7. AlTypes'
  BY <1>1, <1>6 DEF AlInv, AlTypes
<1>8. \A i \in DOMAIN alList' : alList'[i].uid \in DOMAIN alTable' /\ alTable'[alList'[i].uid].nr = alList'[i].nr
  BY <1>1, <1>5, <1>6, SMTT(40) DEF AlInv, AlListed
<1> QED
  BY <1>1, <1>2, <1>3, <1>6, <1>7, <1>8, AlLess DEF AlAlike

(* An alarm gets old, in the list and in the table. *)
LEMMA AlAges == ASSUME AlInv, NEW k \in DOMAIN alList, Age(k) PROVE AlInv'
<1>1. PICK u : u = alList[k].uid
  OBVIOUS
<1>2. /\ alList' = [alList EXCEPT ![k].old = TRUE] /\ alTable' = [alTable EXCEPT ![u].old = TRUE]
      /\ UNCHANGED <<alEvent, alAdding, alListener, alRaised, alReused, alTop>>
  BY <1>1 DEF Age
<1>3. alList \in Seq(AlAlarm) /\ AlSorted(alList) /\ AlListens(alListener)
  BY DEF AlInv, AlTypes
<1>4. \A i \in DOMAIN alList : alList'[i] \in AlAlarm /\ alList'[i].uid = alList[i].uid /\ alList'[i].nr = alList[i].nr
  <2>1. \A i \in DOMAIN alList : alList[i] \in AlAlarm
    BY <1>3, SMTT(40)
  <2>2. \A i \in DOMAIN alList : alList'[i] = IF i = k THEN [alList[i] EXCEPT !.old = TRUE] ELSE alList[i]
    BY <1>2
  <2> QED
    BY <2>1, <2>2, AlMarked
<1>5. alList' \in Seq(AlAlarm) /\ DOMAIN alList' = DOMAIN alList /\ AlSorted(alList') /\ AlAmong(alList', alList)
  <2>1. alList' = [i \in DOMAIN alList |-> alList'[i]]
    BY <1>2, <1>3
  <2> QED
    BY <1>3, <1>4, <2>1, AlRelisted
<1>6. DOMAIN alTable' = DOMAIN alTable
  BY <1>2
<1>7. ASSUME NEW v \in DOMAIN alTable PROVE alTable'[v] \in AlAlarm /\ alTable'[v].uid = v /\ alTable'[v].nr = alTable[v].nr
  <2>1. alTable[v] \in AlAlarm /\ alTable[v].uid = v
    BY DEF AlInv, AlTypes
  <2>2. alTable'[v] = (IF v = u THEN [alTable[v] EXCEPT !.old = TRUE] ELSE alTable[v])
    BY <1>2
  <2> QED
    BY <2>1, <2>2, AlMarked
<1>8. AlTypes'
  BY <1>2, <1>5, <1>6, <1>7 DEF AlInv, AlTypes
<1>9. \A i \in DOMAIN alList' : alList'[i].uid \in DOMAIN alTable' /\ alTable'[alList'[i].uid].nr = alList'[i].nr
  BY <1>4, <1>5, <1>6, <1>7, SMTT(40) DEF AlInv, AlListed
<1> QED
  BY <1>2, <1>3, <1>5, <1>8, <1>9, AlLess

(* A listener begins with the number there is. *)
LEMMA AlJoins == ASSUME AlInv, AddListener PROVE AlInv'
<1>1. UNCHANGED <<alList, alTable, alEvent, alAdding, alRaised, alReused, alTop>>
  BY DEF AddListener
<1>2. /\ AlFields \subseteq DOMAIN alListener' /\ alListener'.last = alEvent /\ alListener'.from = alEvent
      /\ alListener'.pend = << >> /\ alListener'.at = "read"
  BY DEF AddListener, NoListener, AlFields
<1>3. AlListens(alListener')
  BY <1>2, SMTT(40) DEF AlListens, AlInv, AlTypes
<1>4. AlPassed(alList', alListener')
  <2>1. (alEvent + 1)..alEvent = {}
    BY SMTT(40) DEF AlInv, AlTypes
  <2> QED
    BY <1>2, <2>1 DEF AlPassed
<1>5. ~ alReused => alEvent <= alTop
  BY FS_CardinalityType, SMTT(40) DEF AlInv, AlTypes
<1>6. AlTypes'
  BY <1>1 DEF AlInv, AlTypes
<1> QED
  BY <1>1, <1>2, <1>3, <1>4, <1>5, <1>6 DEF AlInv

(* A listener that read nothing new, or all that is new. *)
LEMMA AlReads ==
  ASSUME NEW l, AlFields \subseteq DOMAIN l, NEW p, NEW n
  PROVE  LET m == [l EXCEPT !.at = "send", !.pend = p, !.last = n]
         IN  AlFields \subseteq DOMAIN m /\ m.last = n /\ m.from = l.from /\ m.pend = p /\ m.got = l.got /\ m.at = "send"
BY DEF AlFields

(* Those after the k-th. *)
AlRestIs(q, k, r) == r = SubSeq(q, k + 1, Len(q))

(* What follows the first k alarms of a list, place by place. *)
LEMMA AlRest ==
  ASSUME NEW q \in Seq(AlAlarm), NEW k \in 0..Len(q), NEW r, AlRestIs(q, k, r)
  PROVE  r \in Seq(AlAlarm) /\ Len(r) = Len(q) - k /\ DOMAIN r = 1..(Len(q) - k) /\ \A i \in 1..(Len(q) - k) : r[i] = q[k + i]
<1> DEFINE n == Len(q)
<1>1. n \in Nat /\ n >= k /\ k \in Nat /\ k + 1 \in Int /\ \A i \in (k + 1)..n : q[i] \in AlAlarm
  BY SMTT(40)
<1> HIDE DEF n
<1>2. /\ r \in Seq(AlAlarm) /\ Len(r) = IF k + 1 <= n THEN n - (k + 1) + 1 ELSE 0
      /\ \A i \in 1..(n - (k + 1) + 1) : r[i] = q[(k + 1) + i - 1]
  <2>1. r = SubSeq(q, k + 1, n)
    BY DEF n, AlRestIs
  <2> QED
    BY <1>1, <2>1, AlPart, SMTT(40)
<1>3. Len(r) = n - k /\ n - (k + 1) + 1 = n - k
  BY <1>1, <1>2, SMTT(40)
<1>4. \A i \in 1..(n - k) : r[i] = q[k + i]
  <2>1. ASSUME NEW i \in 1..(n - k) PROVE (k + 1) + i - 1 = k + i
    BY <1>1, SMTT(40)
  <2> QED
    BY <1>2, <1>3, <2>1
<1>5. DOMAIN r = 1..(n - k)
  <2>1. DOMAIN r = 1..Len(r)
    BY <1>2, SMTT(40)
  <2> QED
    BY <1>3, <2>1
<1> QED
  BY <1>2, <1>3, <1>4, <1>5 DEF n

(* Those after the k-th have larger numbers, and were all read. *)
AlAfter(q, k, last) == (k # 0 => q[k].uid <= last) /\ \A i \in (k + 1)..Len(q) : q[i].uid > last

AlGot(q, last, p) == \A i \in DOMAIN q : q[i].uid <= last \/ \E j \in DOMAIN p : p[j] = q[i]

(* Reading them counts no further than the last of them. *)
LEMMA AlAllRead ==
  ASSUME NEW q \in Seq(AlAlarm), AlSorted(q), NEW k \in 0..Len(q), NEW last \in Nat,
         AlAfter(q, k, last),
         NEW p, AlRestIs(q, k, p), p # << >>
  PROVE  /\ p \in Seq(AlAlarm) /\ last + Len(p) \in Nat /\ Len(q) \in DOMAIN q /\ last + Len(p) <= q[Len(q)].uid
         /\ AlGot(q, last, p)
<1>1. p \in Seq(AlAlarm) /\ Len(p) = Len(q) - k /\ DOMAIN p = 1..(Len(q) - k) /\ \A i \in 1..(Len(q) - k) : p[i] = q[k + i]
  BY AlRest
<1>2. Len(p) \in Nat \ {0}
  BY <1>1, SMTT(40)
<1>3. Len(q) \in Nat /\ DOMAIN q = 1..Len(q) /\ \A i \in DOMAIN q : q[i].uid \in Nat
  <2>1. Len(q) \in Nat /\ DOMAIN q = 1..Len(q) /\ \A i \in DOMAIN q : q[i] \in AlAlarm
    BY SMTT(40)
  <2> QED
    BY <2>1 DEF AlAlarm
<1>4. k + 1 \in DOMAIN q /\ Len(q) \in DOMAIN q /\ k + 1 <= Len(q)
  BY <1>1, <1>2, <1>3, SMTT(40)
<1>5. q[k + 1].uid + (Len(q) - (k + 1)) <= q[Len(q)].uid
  BY <1>4, AlSpread
<1>6. q[k + 1].uid > last
  BY <1>3, <1>4, SMTT(40) DEF AlAfter
<1>7. last + Len(p) <= q[Len(q)].uid
  <2>1. PICK a, b, n : a = q[k + 1].uid /\ b = q[Len(q)].uid /\ n = Len(q)
    OBVIOUS
  <2>2. a \in Nat /\ b \in Nat /\ n \in Nat /\ a > last /\ a + (n - (k + 1)) <= b /\ Len(p) = n - k
    BY <1>1, <1>3, <1>4, <1>5, <1>6, <2>1
  <2>3. last + (n - k) <= b
    BY <2>2, SMTT(40)
  <2> QED
    BY <2>1, <2>2, <2>3
<1>8. ASSUME NEW i \in DOMAIN q PROVE q[i].uid <= last \/ \E j \in DOMAIN p : p[j] = q[i]
  <2>1. CASE i <= k
    <3>0. i \in 1..Len(q)
      BY <1>3
    <3>1. k \in 1..Len(q) /\ k # 0 /\ i \in Nat
      BY <1>3, <2>1, <3>0, SMTT(40)
    <3>2. k \in DOMAIN q /\ q[k].uid <= last /\ q[k].uid \in Nat /\ q[i].uid \in Nat
      BY <1>3, <3>1 DEF AlAfter
    <3>3. i = k \/ q[i].uid < q[k].uid
      BY <2>1, <3>1, <3>2, SMTT(40) DEF AlSorted
    <3> QED
      BY <3>2, <3>3, SMTT(40)
  <2>2. CASE i > k
    <3>1. i - k \in 1..(Len(q) - k) /\ k + (i - k) = i
      BY <1>3, <2>2, SMTT(40)
    <3> QED
      BY <1>1, <3>1
  <2> QED
    BY <1>3, <2>1, <2>2, SMTT(40)
<1>9. last + Len(p) \in Nat
  BY <1>2, SMTT(40)
<1> QED
  BY <1>1, <1>4, <1>7, <1>8, <1>9 DEF AlGot

(* A loop reads the alarms after the last it knows of. *)
LEMMA AlPublishes == ASSUME AlInv, NEW k \in 0..Len(alList), publishEvent(k) PROVE AlInv'
<1> DEFINE l == alListener
           m == alListener'
<1>1. UNCHANGED <<alList, alTable, alEvent, alAdding, alRaised, alReused, alTop>>
  BY DEF publishEvent
<1>2. AlListens(l) /\ AlFields \subseteq DOMAIN l /\ l.pend = << >> /\ l.at = "read" /\ l.last \in Nat /\ l.from \in Nat
  BY DEF AlInv, AlListens, publishEvent
<1>3. AlAfter(alList, k, l.last)
  BY DEF publishEvent, getAlarmsAfterID, AlAfter
<1>4. alList \in Seq(AlAlarm) /\ AlSorted(alList)
  BY DEF AlInv, AlTypes
<1>5. PICK p, n : AlRestIs(alList, k, p) /\ n = l.last + Len(p)
  BY DEF AlRestIs
<1>6. CASE p = << >>
  <2>1. AlAlike(l, m)
    BY <1>2, <1>5, <1>6 DEF publishEvent, AlAlike, AlFields, AlRestIs
  <2> QED
    BY <1>1, <2>1, AlHearsAlike
<1>7. CASE p # << >>
  <2>1. /\ p \in Seq(AlAlarm) /\ n \in Nat /\ Len(alList) \in DOMAIN alList /\ n <= alList[Len(alList)].uid
        /\ \A i \in DOMAIN alList : alList[i].uid <= l.last \/ \E j \in DOMAIN p : p[j] = alList[i]
    <3>1. PICK q, c : q = alList /\ c = l.last
      OBVIOUS
    <3>2. q \in Seq(AlAlarm) /\ AlSorted(q) /\ k \in 0..Len(q) /\ c \in Nat /\ AlRestIs(q, k, p) 
      BY <1>2, <1>4, <1>5, <3>1
    <3>3. AlAfter(q, k, c)
      BY <1>3, <3>1
    <3>4. /\ p \in Seq(AlAlarm) /\ c + Len(p) \in Nat /\ Len(q) \in DOMAIN q /\ c + Len(p) <= q[Len(q)].uid
          /\ AlGot(q, c, p)
      BY <1>7, <3>2, <3>3, AlAllRead
    <3> QED
      BY <1>5, <3>1, <3>4 DEF AlGot
  <2>2. m = [l EXCEPT !.at = "send", !.pend = p, !.last = n]
    BY <1>5, <1>7 DEF publishEvent, AlRestIs
  <2>3. AlFields \subseteq DOMAIN m /\ m.last = n /\ m.from = l.from /\ m.pend = p /\ m.got = l.got /\ m.at = "send"
    BY <1>2, <2>2, AlReads, SMTT(40)
  <2>4. AlListens(m)
    BY <1>2, <1>7, <2>1, <2>3 DEF AlListens
  <2>5. n <= alTop
    <3>1. alList[Len(alList)].uid <= alTop /\ alList[Len(alList)].uid \in Nat /\ alTop \in Nat
      BY <1>4, <2>1 DEF AlInv, AlListed, AlTypes, AlAlarm
    <3> QED
      BY <2>1, <3>1, SMTT(40)
  <2>6. ASSUME ~ alReused PROVE AlPassed(alList, m)
    <3>1. ASSUME NEW i \in DOMAIN alList, alList[i].uid \in (m.from + 1)..m.last PROVE alList[i].nr \in AlRead(m)
      <4>1. CASE alList[i].uid <= l.last
        <5>1. alList[i].uid \in (l.from + 1)..l.last
          BY <1>2, <2>1, <2>3, <3>1, <4>1, SMTT(40)
        <5>2. alList[i].nr \in AlRead(l)
          BY <2>6, <5>1 DEF AlInv, AlPassed
        <5> QED
          BY <1>2, <2>3, <5>2, SMTT(40) DEF AlRead
      <4>2. CASE \E j \in DOMAIN p : p[j] = alList[i]
        BY <2>3, <4>2 DEF AlRead
      <4> QED
        BY <2>1, <4>1, <4>2
    <3> QED
      BY <3>1 DEF AlPassed
  <2>7. AlTypes'
    BY <1>1 DEF AlInv, AlTypes
  <2> QED
    BY <1>1, <2>3, <2>4, <2>5, <2>6, <2>7 DEF AlInv
<1> QED
  BY <1>6, <1>7

(* Numbers in increasing order, as many as there are. *)
LEMMA AlAscends ==
  ASSUME NEW S, IsFiniteSet(S), NEW f \in Ascending(S)
  PROVE  /\ Cardinality(S) \in Nat
         /\ \A i \in 1..Cardinality(S) : f[i] \in S
         /\ \A i, j \in 1..Cardinality(S) : i < j => f[i] < f[j]
BY FS_CardinalityType DEF Ascending

(* What is left of a list, in the order it had. *)
LEMMA AlChosen ==
  ASSUME NEW q \in Seq(AlAlarm), AlSorted(q), NEW S \in SUBSET DOMAIN q, NEW f \in Ascending(S),
         NEW r, r = [i \in 1..Cardinality(S) |-> q[f[i]]]
  PROVE  r \in Seq(AlAlarm) /\ AlSorted(r) /\ \A i \in DOMAIN r : f[i] \in S /\ r[i] = q[f[i]]
<1>1. DOMAIN q = 1..Len(q) /\ Len(q) \in Nat /\ \A i \in DOMAIN q : q[i] \in AlAlarm
  BY SMTT(40)
<1>2. IsFiniteSet(DOMAIN q)
  BY <1>1, FS_Interval, SMTT(40)
<1>3. IsFiniteSet(S)
  BY <1>2, FS_Subset
<1> DEFINE n == Cardinality(S)
<1>4. n \in Nat /\ (\A i \in 1..n : f[i] \in S) /\ \A i, j \in 1..n : i < j => f[i] < f[j]
  BY <1>3, AlAscends
<1>5. r = [i \in 1..n |-> q[f[i]]]
  OBVIOUS
<1> HIDE DEF n
<1>6. DOMAIN r = 1..n /\ \A i \in 1..n : r[i] = q[f[i]] /\ f[i] \in DOMAIN q
  BY <1>4, <1>5
<1>7. r \in Seq(AlAlarm)
  <2>1. \A i \in 1..n : q[f[i]] \in AlAlarm
    BY <1>1, <1>6
  <2> QED
    BY <1>4, <1>5, <2>1, AlIsSeq
<1>8. AlSorted(r)
  BY <1>4, <1>6 DEF AlSorted
<1> QED
  BY <1>4, <1>6, <1>7, <1>8

(* The alarms of a cluster go, but for those whose deletion fails. *)
LEMMA AlDeleted == ASSUME AlInv, NEW c, NEW fails, ClusterDeleted(c, fails) PROVE AlInv'
<1> DEFINE its == {alList[i].uid : i \in {j \in DOMAIN alList : alList[j].cluster = c}}
           left == {i \in DOMAIN alList : alList[i].uid \notin its \ fails}
<1>0. PICK gone, S : gone = its \ fails /\ S = left
  OBVIOUS
<1>1. alTable' = AlWithout(alTable, gone) /\ \E f \in Ascending(S) : alList' = [i \in 1..Cardinality(S) |-> alList[f[i]]]
  BY <1>0 DEF ClusterDeleted
<1>2. alListener' = AlBroadcast(alListener) /\ UNCHANGED <<alEvent, alAdding, alRaised, alReused, alTop>>
  BY DEF ClusterDeleted
<1>3. AlAlike(alListener, alListener')
  BY <1>2, AlWoken DEF AlInv
<1>4. AlListens(alListener') /\ AlRead(alListener') = AlRead(alListener)
  BY <1>3, AlStaysAlike DEF AlInv
<1>5. alList \in Seq(AlAlarm) /\ AlSorted(alList)
  BY DEF AlInv, AlTypes
<1>6. S = {i \in DOMAIN alList : alList[i].uid \notin gone}
  BY <1>0
<1>7. PICK f \in Ascending(S) : alList' = [i \in 1..Cardinality(S) |-> alList[f[i]]]
  BY <1>1
<1>8. alList' \in Seq(AlAlarm) /\ AlSorted(alList') /\ \A i \in DOMAIN alList' : f[i] \in S /\ alList'[i] = alList[f[i]]
  <2>1. S \in SUBSET DOMAIN alList
    BY <1>6
  <2>2. ASSUME NEW r, r = [i \in 1..Cardinality(S) |-> alList[f[i]]]
        PROVE  r \in Seq(AlAlarm) /\ AlSorted(r) /\ \A i \in DOMAIN r : f[i] \in S /\ r[i] = alList[f[i]]
    <3> HIDE DEF its, left
    <3> QED
      BY <1>5, <2>1, <2>2, AlChosen
  <2> QED
    BY <1>7, <2>2
<1>9. DOMAIN alTable' = DOMAIN alTable \ gone /\ \A u \in DOMAIN alTable' : alTable'[u] = alTable[u]
  BY <1>1 DEF AlWithout
<1>10. AlTypes'
  <2>1. IsFiniteSet(DOMAIN alTable')
    BY <1>9, FS_Subset DEF AlInv, AlTypes
  <2> QED
    BY <1>2, <1>8, <1>9, <2>1 DEF AlInv, AlTypes
<1>11. AlAmong(alList', alList)
  BY <1>6, <1>8 DEF AlAmong
<1>12. \A i \in DOMAIN alList' : alList'[i].uid \in DOMAIN alTable' /\ alTable'[alList'[i].uid].nr = alList'[i].nr
  BY <1>6, <1>8, <1>9, SMTT(40) DEF AlInv, AlListed
<1> QED
  BY <1>2, <1>3, <1>4, <1>8, <1>10, <1>11, <1>12, AlLess DEF AlAlike

(* The list is loaded from the table, and nobody listens. *)
LEMMA AlRestarted == ASSUME AlInv, AlRestart PROVE AlInv'
<1>1. /\ alAdding' = {} /\ alListener' = NoListener /\ UNCHANGED <<alTable, alRaised>>
  BY DEF AlRestart
<1>2. PICK n, S : n = Cardinality(S) /\ S = DOMAIN alTable
  OBVIOUS
<1>3. PICK f \in Ascending(S) : alList' = [i \in 1..n |-> alTable[f[i]]] /\ alEvent' = (IF S = {} THEN 0 ELSE f[n]) /\ alTop' = alEvent'
  BY <1>2 DEF AlRestart
<1>4. IsFiniteSet(S) /\ S \subseteq Nat /\ \A u \in S : alTable[u] \in AlAlarm /\ alTable[u].uid = u
  BY <1>2 DEF AlInv, AlTypes
<1>5. n \in Nat /\ (\A i \in 1..n : f[i] \in S) /\ \A i, j \in 1..n : i < j => f[i] < f[j]
  BY <1>2, <1>4, AlAscends
<1>6. DOMAIN alList' = 1..n /\ \A i \in 1..n : alList'[i] = alTable[f[i]] /\ alList'[i] \in AlAlarm /\ alList'[i].uid = f[i]
  BY <1>3, <1>4, <1>5
<1>7. alList' \in Seq(AlAlarm) /\ AlSorted(alList')
  <2>1. alList' \in Seq(AlAlarm)
    BY <1>3, <1>5, <1>6, AlIsSeq
  <2> QED
    BY <1>5, <1>6, <2>1, SMTT(40) DEF AlSorted
<1>8. alEvent' \in Nat /\ \A i \in 1..n : f[i] <= alEvent' /\ f[i] \in Nat
  <2>1. CASE S = {}
    BY <1>3, <1>5, <2>1
  <2>2. CASE S # {}
    <3>1. n # 0
      <4>1. Cardinality(S) = 0 <=> S = {}
        BY <1>4, FS_EmptySet
      <4> QED
        BY <1>2, <2>2, <4>1
    <3>2. n \in 1..n /\ alEvent' = f[n] /\ f[n] \in Nat
      <4>1. n \in 1..n /\ alEvent' = f[n]
        BY <1>3, <1>5, <2>2, <3>1, SMTT(40)
      <4> QED
        BY <1>4, <1>5, <4>1
    <3>3. \A i \in 1..n : f[i] \in Nat /\ (i = n \/ f[i] < f[n])
      <4>1. \A i \in 1..n : i = n \/ i < n
        BY <1>5, SMTT(40)
      <4>2. \A i \in 1..n : f[i] \in Nat
        BY <1>4, <1>5
      <4> QED
        BY <1>5, <3>2, <4>1, <4>2
    <3> QED
      BY <3>2, <3>3, SMTT(40)
  <2> QED
    BY <2>1, <2>2
<1>9. AlTypes'
  BY <1>1, <1>3, <1>7, <1>8, FS_EmptySet DEF AlInv, AlTypes
<1>10. AlListed(alList', alTable', alEvent', alTop')
  BY <1>1, <1>2, <1>3, <1>5, <1>6, <1>8, SMTT(40) DEF AlListed
<1>11. /\ AlFields \subseteq DOMAIN NoListener /\ NoListener.last = 0 /\ NoListener.from = 0 /\ NoListener.pend = << >>
       /\ NoListener.at = "none"
  BY DEF NoListener, AlFields
<1>12. AlListens(NoListener) /\ AlPassed(alList', NoListener)
  BY <1>11, SMTT(40) DEF AlListens, AlPassed
<1>13. alEvent' + Cardinality(alAdding') <= alTop' /\ NoListener.last <= alTop'
  BY <1>1, <1>3, <1>8, <1>11, FS_EmptySet, SMTT(40)
<1> QED
  BY <1>1, <1>7, <1>9, <1>10, <1>12, <1>13 DEF AlInv

(* A table has the alarms of a list. *)
AlHas(table, q) == \A i \in DOMAIN q : q[i].uid \in DOMAIN table /\ table[q[i].uid].nr = q[i].nr

(* An alarm with a larger number than all is added. *)
LEMMA AlPushed ==
  ASSUME NEW q \in Seq(AlAlarm), AlSorted(q), NEW a \in AlAlarm, \A i \in DOMAIN q : q[i].uid < a.uid,
         NEW table, AlHas(table, q)
  PROVE  /\ Append(q, a) \in Seq(AlAlarm) /\ AlSorted(Append(q, a)) /\ AlHas(AlWith(table, a), Append(q, a))
         /\ \A i \in DOMAIN Append(q, a) : (i \in DOMAIN q /\ Append(q, a)[i] = q[i]) \/ Append(q, a)[i] = a
<1>1. PICK r, n : r = Append(q, a) /\ n = Len(q)
  OBVIOUS
<1>2. n \in Nat /\ DOMAIN q = 1..n /\ r \in Seq(AlAlarm) /\ Len(r) = n + 1 /\ DOMAIN r = 1..(n + 1)
  BY <1>1, SMTT(40)
<1>3. r[n + 1] = a /\ \A i \in 1..n : r[i] = q[i]
  BY <1>1, SMTT(40)
<1>4. \A i \in DOMAIN r : i = n + 1 \/ i \in 1..n
  BY <1>2, SMTT(40)
<1>5. AlSorted(r)
  <2>1. SUFFICES ASSUME NEW i \in DOMAIN r, NEW j \in DOMAIN r, i < j PROVE r[i].uid < r[j].uid
    BY DEF AlSorted
  <2>2. i \in 1..n
    BY <1>2, <2>1, SMTT(40)
  <2>3. CASE j = n + 1
    BY <1>2, <1>3, <2>2, <2>3
  <2>4. CASE j \in 1..n
    BY <1>2, <1>3, <2>1, <2>2, <2>4 DEF AlSorted
  <2> QED
    BY <1>4, <2>3, <2>4
<1>6. AlHas(AlWith(table, a), r)
  <2>1. PICK t : t = AlWith(table, a)
    OBVIOUS
  <2>2. DOMAIN t = DOMAIN table \cup {a.uid} /\ \A u \in DOMAIN t : t[u] = IF u = a.uid THEN a ELSE table[u]
    BY <2>1 DEF AlWith
  <2>3. ASSUME NEW i \in 1..n PROVE q[i].uid # a.uid /\ q[i].uid \in DOMAIN table /\ table[q[i].uid].nr = q[i].nr
    <3>1. q[i] \in AlAlarm /\ q[i].uid < a.uid /\ i \in DOMAIN q
      BY <1>2, SMTT(40)
    <3> QED
      BY <3>1, SMTT(40) DEF AlHas, AlAlarm
  <2>4. ASSUME NEW i \in DOMAIN r PROVE r[i].uid \in DOMAIN t /\ t[r[i].uid].nr = r[i].nr
    BY <1>3, <1>4, <2>2, <2>3, SMTT(40)
  <2> QED
    BY <2>1, <2>4 DEF AlHas
<1> QED
  BY <1>1, <1>2, <1>3, <1>4, <1>5, <1>6

(* The first n of a list leave it, and as many numbers the table. *)
LEMMA AlCut ==
  ASSUME NEW q \in Seq(AlAlarm), AlSorted(q), NEW n \in 0..Len(q), NEW table, AlHas(table, q),
         NEW r, AlRestIs(q, n, r)
  PROVE  /\ r \in Seq(AlAlarm) /\ AlSorted(r) /\ AlHas(AlWithout(table, q[1].uid..(q[1].uid + n - 1)), r)
         /\ \A i \in DOMAIN r : n + i \in DOMAIN q /\ r[i] = q[n + i]
<1>1. r \in Seq(AlAlarm) /\ Len(r) = Len(q) - n /\ DOMAIN r = 1..(Len(q) - n) /\ \A i \in 1..(Len(q) - n) : r[i] = q[n + i]
  BY AlRest
<1>2. Len(q) \in Nat /\ DOMAIN q = 1..Len(q) /\ n \in Nat
  BY SMTT(40)
<1>3. \A i \in DOMAIN r : i \in Nat \ {0} /\ n + i \in DOMAIN q /\ r[i] = q[n + i]
  BY <1>1, <1>2, SMTT(40)
<1>4. AlSorted(r)
  <2>1. SUFFICES ASSUME NEW i \in DOMAIN r, NEW j \in DOMAIN r, i < j PROVE r[i].uid < r[j].uid
    BY DEF AlSorted
  <2>2. n + i < n + j /\ n + i \in DOMAIN q /\ n + j \in DOMAIN q
    BY <1>2, <1>3, <2>1, SMTT(40)
  <2> QED
    BY <1>3, <2>2 DEF AlSorted
<1>5. ASSUME NEW i \in DOMAIN r PROVE r[i].uid \notin q[1].uid..(q[1].uid + n - 1)
  <2>1. 1 \in DOMAIN q /\ n + i \in DOMAIN q /\ 1 <= n + i
    BY <1>2, <1>3, SMTT(40)
  <2>2. q[1].uid + ((n + i) - 1) <= q[n + i].uid
    BY <2>1, AlSpread
  <2>3. q[1].uid \in Nat /\ q[n + i].uid \in Nat
    <3>1. q[1] \in AlAlarm /\ q[n + i] \in AlAlarm
      BY <2>1, SMTT(40)
    <3> QED
      BY <3>1 DEF AlAlarm
  <2>4. q[n + i].uid \notin q[1].uid..(q[1].uid + n - 1)
    BY <1>2, <1>3, <2>2, <2>3, SMTT(40)
  <2> QED
    BY <1>3, <2>4
<1>6. AlHas(AlWithout(table, q[1].uid..(q[1].uid + n - 1)), r)
  BY <1>3, <1>5 DEF AlHas, AlWithout
<1> QED
  BY <1>1, <1>3, <1>4, <1>6

(* An alarm that is not stored only counts as raised. *)
LEMMA AlNotStored ==
  ASSUME AlInv, alRaised' \in Nat, UNCHANGED <<alList, alTable, alEvent, alAdding, alListener, alReused, alTop>>
  PROVE  AlInv'
<1>1. AlTypes' /\ AlListens(alListener')
  BY DEF AlInv, AlTypes
<1>2. AlSorted(alList') /\ AlAmong(alList', alList)
  BY DEF AlInv, AlAmong
<1>3. \A i \in DOMAIN alList' : alList'[i].uid \in DOMAIN alTable' /\ alTable'[alList'[i].uid].nr = alList'[i].nr
  BY DEF AlInv, AlListed
<1> QED
  BY <1>1, <1>2, <1>3, AlLess

(* An alarm with the next number is stored; n others leave. *)
AlStores(s, new, n) ==
  /\ alEvent + 1 \notin DOMAIN alTable /\ s \notin alAdding /\ n \in 0..Len(Append(alList, new))
  /\ AlRestIs(Append(alList, new), n, alList')
  /\ alTable' = AlWithout(AlWith(alTable, new), Append(alList, new)[1].uid..(Append(alList, new)[1].uid + n - 1))
  /\ alAdding' = alAdding \cup {s} /\ alReused' = (alReused \/ alEvent + 1 <= alTop)
  /\ alTop' = IF alEvent + 1 > alTop THEN alEvent + 1 ELSE alTop
  /\ UNCHANGED <<alEvent, alListener>>

(* An alarm is stored, in the table and at the end of the list. *)
LEMMA AlStored ==
  ASSUME AlInv, NEW s, NEW new \in AlAlarm, new.uid = alEvent + 1, NEW n, AlStores(s, new, n), alRaised' \in Nat
  PROVE  AlInv'
<1>0. AlTypes
  BY DEF AlInv
<1>1. PICK q, table : q = Append(alList, new) /\ table = AlWith(alTable, new)
  OBVIOUS
<1>2. PICK gone : gone = q[1].uid..(q[1].uid + n - 1)
  OBVIOUS
<1>3. /\ alEvent + 1 \notin DOMAIN alTable /\ s \notin alAdding /\ n \in 0..Len(q) /\ AlRestIs(q, n, alList')
      /\ alTable' = AlWithout(table, gone) /\ alAdding' = alAdding \cup {s}
      /\ alReused' = (alReused \/ alEvent + 1 <= alTop) /\ alTop' = (IF alEvent + 1 > alTop THEN alEvent + 1 ELSE alTop)
      /\ UNCHANGED <<alEvent, alListener>>
  BY <1>1, <1>2 DEF AlStores
<1>4. alList \in Seq(AlAlarm) /\ AlSorted(alList) /\ AlHas(alTable, alList) /\ alEvent \in Nat /\ alTop \in Nat
  BY DEF AlInv, AlTypes, AlListed, AlHas
<1>5. \A i \in DOMAIN alList : alList[i].uid \in Nat /\ alList[i].uid < new.uid /\ alList[i].uid <= alTop
  <2>1. \A i \in DOMAIN alList : alList[i] \in AlAlarm
    BY <1>4, SMTT(40)
  <2>2. \A i \in DOMAIN alList : alList[i].uid <= alEvent + 1 /\ alList[i].uid <= alTop /\ alList[i].uid # alEvent + 1
    BY <1>3 DEF AlInv, AlListed
  <2> QED
    BY <1>4, <2>1, <2>2, SMTT(40) DEF AlAlarm
<1>6. /\ q \in Seq(AlAlarm) /\ AlSorted(q) /\ AlHas(table, q)
      /\ \A i \in DOMAIN q : (i \in DOMAIN alList /\ q[i] = alList[i]) \/ q[i] = new
  BY <1>1, <1>4, <1>5, AlPushed
<1>7. /\ alList' \in Seq(AlAlarm) /\ AlSorted(alList') /\ AlHas(alTable', alList')
      /\ \A i \in DOMAIN alList' : n + i \in DOMAIN q /\ alList'[i] = q[n + i]
  BY <1>2, <1>3, <1>6, AlCut
<1>8. \A i \in DOMAIN alList' : (\E j \in DOMAIN alList : alList'[i] = alList[j]) \/ alList'[i] = new
  BY <1>6, <1>7
<1>9. alTop' \in Nat /\ alTop <= alTop' /\ new.uid <= alTop'
  BY <1>3, <1>4, SMTT(40)
<1>10. AlListed(alList', alTable', alEvent', alTop')
  <2>1. ASSUME NEW i \in DOMAIN alList' PROVE alList'[i].uid <= alEvent + 1 /\ alList'[i].uid <= alTop'
    BY <1>4, <1>5, <1>8, <1>9, SMTT(40)
  <2> QED
    BY <1>3, <1>7, <2>1 DEF AlListed, AlHas
<1>11. IsFiniteSet(alAdding) /\ IsFiniteSet(alAdding') /\ Cardinality(alAdding) \in Nat /\ Cardinality(alAdding') = Cardinality(alAdding) + 1
  <2>1. IsFiniteSet(alAdding)
    BY <1>0 DEF AlTypes
  <2> QED
    BY <1>3, <2>1, FS_AddElement, FS_CardinalityType
<1>12. AlTypes'
  <2>1. DOMAIN table = DOMAIN alTable \cup {new.uid} /\ \A u \in DOMAIN table : table[u] = IF u = new.uid THEN new ELSE alTable[u]
    BY <1>1 DEF AlWith
  <2>2. DOMAIN alTable' = DOMAIN table \ gone /\ \A u \in DOMAIN alTable' : alTable'[u] = table[u]
    BY <1>3 DEF AlWithout
  <2>3. IsFiniteSet(DOMAIN table)
    <3>1. IsFiniteSet(DOMAIN alTable)
      BY <1>0 DEF AlTypes
    <3> QED
      BY <2>1, <3>1, FS_AddElement, SMTT(40)
  <2>4. IsFiniteSet(DOMAIN alTable')
    BY <2>2, <2>3, FS_Subset
  <2>5. DOMAIN table \subseteq Nat /\ \A u \in DOMAIN table : table[u] \in AlAlarm /\ table[u].uid = u
    <3>1. DOMAIN alTable \subseteq Nat /\ \A u \in DOMAIN alTable : alTable[u] \in AlAlarm /\ alTable[u].uid = u
      BY <1>0 DEF AlTypes
    <3> QED
      BY <1>4, <2>1, <3>1, SMTT(40)
  <2> QED
    BY <1>3, <1>4, <1>7, <1>9, <1>11, <2>2, <2>4, <2>5 DEF AlTypes
<1>13. ASSUME ~ alReused' PROVE /\ alEvent' + Cardinality(alAdding') <= alTop' /\ alListener'.last <= alTop'
                                /\ AlPassed(alList', alListener')
  <2>1. ~ alReused /\ alEvent + 1 > alTop /\ alTop' = alEvent + 1
    <3>1. alReused' = (alReused \/ alEvent + 1 <= alTop)
      BY <1>3
    <3>2. ~ alReused /\ ~ (alEvent + 1 <= alTop)
      BY <1>13, <3>1, ZenonT(40)
    <3> QED
      BY <1>3, <1>4, <3>2, SMTT(40)
  <2>2. /\ alEvent + Cardinality(alAdding) <= alTop /\ alListener.last <= alTop /\ AlPassed(alList, alListener)
        /\ alListener.last \in Nat /\ alListener.from \in Nat
    BY <2>1 DEF AlInv, AlListens
  <2>3. alEvent' + Cardinality(alAdding') <= alTop'
    BY <1>3, <1>4, <1>11, <2>1, <2>2, SMTT(40)
  <2>4. new.uid \notin (alListener.from + 1)..alListener.last
    BY <1>4, <2>1, <2>2, SMTT(40)
  <2>5. AlPassed(alList', alListener)
    <3>1. SUFFICES ASSUME NEW i \in DOMAIN alList', alList'[i].uid \in (alListener.from + 1)..alListener.last
                   PROVE  alList'[i].nr \in AlRead(alListener)
      BY DEF AlPassed
    <3>2. PICK j \in DOMAIN alList : alList'[i] = alList[j]
      BY <1>8, <2>4, <3>1
    <3> QED
      BY <2>2, <3>1, <3>2 DEF AlPassed
  <2>6. alListener'.last <= alTop'
    BY <1>3, <1>4, <2>1, <2>2, SMTT(40)
  <2> QED
    BY <1>3, <2>3, <2>5, <2>6
<1> QED
  BY <1>3, <1>7, <1>10, <1>12, <1>13 DEF AlInv

(* An alarm is added, or is not stored because a call fails. *)
LEMMA AlAdds1 ==
  ASSUME AlInv, NEW s, NEW c \in AlClusters, NEW w \in AlWhats, NEW fails, NEW n \in Nat, AlAdd(s, c, w, fails, n)
  PROVE  AlInv'
<1> DEFINE uid == alEvent + 1
           x == [uid |-> uid, nr |-> alRaised + 1, cluster |-> c, what |-> w, ack |-> FALSE, old |-> FALSE]
           repeats == alList # << >> /\ isRepeat(alList[Len(alList)], c, w)
           stored == ~ repeats /\ fails # "insert" /\ uid \notin DOMAIN alTable
<1>0. alRaised \in Nat /\ alEvent \in Nat /\ alList \in Seq(AlAlarm)
  BY DEF AlInv, AlTypes
<1>1. alRaised' \in Nat
  <2>1. alRaised' = alRaised \/ alRaised' = alRaised + 1
    BY Zenon DEF AlAdd
  <2> QED
    BY <1>0, <2>1, SMTT(40)
<1>2. UNCHANGED <<alEvent, alListener>>
  BY DEF AlAdd
<1>3. CASE ~ stored
  <2>1. UNCHANGED <<alList, alTable, alAdding, alReused, alTop>>
    BY <1>3 DEF AlAdd
  <2> QED
    BY <1>1, <1>2, <2>1, AlNotStored
<1>4. CASE stored
  <2>1. PICK new : new = x
    OBVIOUS
  <2>2. new \in AlAlarm /\ new.uid = alEvent + 1
    BY <1>0, <2>1, SMTT(40) DEF AlAlarm
  <2>3. PICK q : q = Append(alList, new)
    OBVIOUS
  <2>4. /\ s \notin alAdding /\ alAdding' = alAdding \cup {s} /\ alReused' = (alReused \/ uid <= alTop)
        /\ alTop' = IF uid > alTop THEN uid ELSE alTop
    BY <1>4 DEF AlAdd
  <2>5. /\ alList' = deleteoldest(q, AlWith(alTable, new), n).list /\ alTable' = deleteoldest(q, AlWith(alTable, new), n).table
    BY <1>4, <2>1, <2>3 DEF AlAdd
  <2>6. AlRestIs(q, n, alList') /\ alTable' = AlWithout(AlWith(alTable, new), q[1].uid..(q[1].uid + n - 1))
    BY <2>5 DEF deleteoldest, AlRestIs
  <2>7. n \in 0..Len(q)
    <3>1. Len(q) \in Nat
      BY <1>0, <2>2, <2>3, SMTT(40)
    <3>2. n = 0 \/ (\E m \in (n + 1)..Len(q) : Outdated(q, m)) \/ n \in 1..Len(q)
      BY <1>4, <2>1, <2>3 DEF AlAdd
    <3> QED
      BY <3>1, <3>2, SMTT(40)
  <2>8. AlStores(s, new, n)
    BY <1>2, <1>4, <2>3, <2>4, <2>6, <2>7 DEF AlStores
  <2> QED
    BY <1>1, <2>2, <2>8, AlStored
<1> QED
  BY <1>3, <1>4

(* There is no alarm at the start. *)
LEMMA AlInvInit == ASSUME AlInit PROVE AlInv
<1>1. AlTypes
  BY FS_EmptySet, SMTT(40) DEF AlInit, AlTypes
<1>2. /\ AlFields \subseteq DOMAIN NoListener /\ NoListener.last = 0 /\ NoListener.from = 0 /\ NoListener.pend = << >>
      /\ NoListener.at = "none"
  BY DEF NoListener, AlFields
<1>3. AlListens(alListener)
  BY <1>2, SMTT(40) DEF AlInit, AlListens
<1>4. AlSorted(alList) /\ AlListed(alList, alTable, alEvent, alTop) /\ AlPassed(alList, alListener)
  BY SMTT(40) DEF AlInit, AlSorted, AlListed, AlPassed
<1>5. alEvent + Cardinality(alAdding) <= alTop /\ alListener.last <= alTop
  BY <1>2, FS_EmptySet, SMTT(40) DEF AlInit
<1> QED
  BY <1>1, <1>3, <1>4, <1>5 DEF AlInv

(* Every step keeps the invariant. *)
LEMMA AlInvStep == ASSUME AlInv, [AlNext]_alVars, AlMax \in Nat PROVE AlInv'
<1>1. ASSUME NEW s, NEW c \in AlClusters, NEW w \in AlWhats, NEW fails, NEW n \in 0..(AlMax + 1), AlAdd(s, c, w, fails, n) PROVE AlInv'
  <2>1. n \in Nat
    BY SMTT(40)
  <2> QED
    BY <1>1, <2>1, AlAdds1
<1>2. CASE UNCHANGED alVars
  <2>1. AlAlike(alListener, alListener')
    BY <1>2 DEF alVars, AlInv, AlListens, AlAlike
  <2> QED
    BY <1>2, <2>1, AlHearsAlike DEF alVars
<1> QED
  BY <1>1, <1>2, AlAddEnds, AlCreated, AlDeleted, AlUpdates, AlPublishes, AlUpdateEnds, AlJoins, AlSleeps, AlOpens, AlRestarted, AlAges DEF AlNext

(* Alarms (pkg/alarm): whatever sources raise alarms, clusters come and go,  *)
(* writes fail and the server restarts, the list has its alarms in order     *)
(* and in the table, and no alarm passes a listener by.                      *)
THEOREM NoAlarmIsSkipped == AlSpec => []AlNoneSkipped
<1>1. AlInit => AlInv
  BY AlInvInit
<1>2. AlInv /\ [AlNext]_alVars => AlInv'
  BY AlInvStep, AlAssumption
<1>3. AlInv => AlNoneSkipped
  BY DEF AlInv, AlNoneSkipped, AlSorted, AlListed, AlPassed, AlRead
<1> QED
  BY <1>1, <1>2, <1>3, PTL DEF AlSpec
=============================================================================
