------------------------------- MODULE Alarm -------------------------------
(***************************************************************************)
(* Alarms (pkg/alarm): a list of alarms in memory with a copy in a table,  *)
(* fed by the watchers of the clusters and by the event bus, acknowledged  *)
(* by requests, and sent to listeners together with the number of alarms   *)
(* that nobody acknowledged.                                               *)
(*                                                                         *)
(* Add gives an alarm the number after eventID while it holds the lock,    *)
(* and moves eventID only after it let go of it: the two halves of Add are *)
(* two steps.  Every alarm carries nr, which is not in the code, to tell   *)
(* it from another one that got the same number.                           *)
(***************************************************************************)
EXTENDS Integers, Sequences, FiniteSets

CONSTANTS
    AlClusters,  \* names of clusters
    AlWhats,     \* what alarms say
    AlMax,       \* MaxAlarmCount
    AlAdds,      \* alarms that are raised
    AlEvents     \* clusters and listeners that come and go, alarms that age, requests, failed writes
                 \* and restarts

ASSUME AlAssumption == AlMax \in Nat

VARIABLES
    alList,      \* AlarmCache.alarmList, oldest first: [uid, nr, cluster, what, ack, old]
    alTable,     \* the table of alarms: uid -> alarm
    alEvent,     \* AlarmCache.eventID
    alAdding,    \* sources whose Add has still to move eventID
    alWatch,     \* cluster -> "none", "on" (an EventCache), "late" (it was stopped while it handles
                 \*            an event)
    alAck,       \* the number a request wrote to the table and looks for in the list, or 0
    alListener,  \* [last, from, pend, got, at, unack, ackAt, open]
    alRaised,    \* how many alarms were raised
    alReused,    \* a number was given twice
    alTop,       \* the largest number given
    alHappened

alVars == <<alList, alTable, alEvent, alAdding, alWatch, alAck, alListener, alRaised, alReused, alTop, alHappened>>

Bus == "bus"

NoListener == [last |-> 0, from |-> 0, pend |-> << >>, got |-> {}, at |-> "none", unack |-> 0, ackAt |-> "none", open |-> FALSE]

(* cond.Broadcast: whoever waits looks again.                                *)
AlBroadcast(l) == [l EXCEPT !.at = IF @ = "wait" THEN "read" ELSE @, !.ackAt = IF @ = "wait" THEN "read" ELSE @]

(* The table without some rows, and with one more.                           *)
AlWithout(table, ids) == [u \in DOMAIN table \ ids |-> table[u]]

AlWith(table, a) == [u \in DOMAIN table \cup {a.uid} |-> IF u = a.uid THEN a ELSE table[u]]

(* The members of a set of numbers, in increasing order.                     *)
Ascending(S) == {f \in [1..Cardinality(S) -> S] : \A i, j \in 1..Cardinality(S) : i < j => f[i] < f[j]}

Happen(n) == alHappened + n <= AlEvents /\ alHappened' = alHappened + n

Happens == Happen(1)

-----------------------------------------------------------------------------
(* Adding alarms.                                                            *)

isRepeat(a, cluster, what) == a.cluster = cluster /\ a.what = what

(* n leave: the first, and those after it that are a month old.              *)
Outdated(list, n) == (\A i \in 2..n : list[i].old) /\ (n < Len(list) => ~ list[n + 1].old)

(* Numbers counted from the first leave the table, the front of the list the *)
(* list.                                                                     *)
deleteoldest(list, table, n) ==
    [list |-> SubSeq(list, n + 1, Len(list)), table |-> AlWithout(table, list[1].uid..(list[1].uid + n - 1))]

(* Who may raise an alarm, and for which cluster.                            *)
Raises(source, cluster) == source = Bus \/ (source = cluster /\ alWatch[cluster] \in {"on", "late"})

(* The write of the alarm may fail, or the deletion of one of the outdated   *)
(* after n of them left.                                                     *)
AlAdd(source, cluster, what, fails, n) ==
    LET uid == alEvent + 1
        new == [uid |-> uid, nr |-> alRaised + 1, cluster |-> cluster, what |-> what, ack |-> FALSE, old |-> FALSE]
        repeats == alList # << >> /\ isRepeat(alList[Len(alList)], cluster, what)
        pushed == Append(alList, new)
        full == Len(pushed) > AlMax
        after == deleteoldest(pushed, AlWith(alTable, new), n)
        stored == ~ repeats /\ fails # "insert" /\ uid \notin DOMAIN alTable
    IN  /\ Raises(source, cluster) /\ source \notin alAdding /\ alRaised < AlAdds
        /\ fails = "insert" => ~ repeats
        /\ fails = "delete" => stored /\ full
        /\ IF ~ stored \/ ~ full THEN n = 0
           ELSE IF fails = "delete" THEN \E m \in (n + 1)..Len(pushed) : Outdated(pushed, m)
           ELSE n \in 1..Len(pushed) /\ Outdated(pushed, n)
        /\ Happen(IF fails # "none" THEN 1 ELSE 0)
        /\ alRaised' = IF repeats THEN alRaised ELSE alRaised + 1
        /\ IF stored THEN /\ alList' = after.list /\ alTable' = after.table /\ alAdding' = alAdding \cup {source}
                          /\ alReused' = (alReused \/ uid <= alTop) /\ alTop' = IF uid > alTop THEN uid ELSE alTop
           ELSE UNCHANGED <<alList, alTable, alAdding, alReused, alTop>>
        /\ alWatch' = IF source # Bus /\ alWatch[cluster] = "late" /\ ~ stored THEN [alWatch EXCEPT ![cluster] = "none"] ELSE alWatch
        /\ UNCHANGED <<alEvent, alAck, alListener>>

(* The lock is free again: eventID moves, listeners are woken (and mail is   *)
(* sent); a watcher that was stopped is gone.                                *)
AddEnds(source) ==
    /\ source \in alAdding
    /\ alEvent' = alEvent + 1
    /\ alAdding' = alAdding \ {source}
    /\ alListener' = AlBroadcast(alListener)
    /\ alWatch' = IF source # Bus /\ alWatch[source] = "late" THEN [alWatch EXCEPT ![source] = "none"] ELSE alWatch
    /\ UNCHANGED <<alList, alTable, alAck, alRaised, alReused, alTop, alHappened>>

-----------------------------------------------------------------------------
(* The manager's loop over events of clusters.                               *)

(* ResourceCreateEvent.                                                      *)
ClusterCreated(cluster) ==
    /\ alWatch[cluster] = "none" /\ Happens
    /\ alWatch' = [alWatch EXCEPT ![cluster] = "on"]
    /\ UNCHANGED <<alList, alTable, alEvent, alAdding, alAck, alListener, alRaised, alReused, alTop>>

(* ResourceDeleteEvent: the watcher, if there is one, is stopped, at work or *)
(* not, and then the alarms of the cluster go, except those whose deletion   *)
(* fails.                                                                    *)
ClusterDeleted(cluster, fails) ==
    LET its == {alList[i].uid : i \in {j \in DOMAIN alList : alList[j].cluster = cluster}}
        left == {i \in DOMAIN alList : alList[i].uid \notin its \ fails}
    IN  /\ alWatch[cluster] # "late" /\ Happen(1 + Cardinality(fails))
        /\ fails \subseteq its
        /\ \E busy \in BOOLEAN : /\ cluster \in alAdding => busy
                                 /\ alWatch' = [alWatch EXCEPT ![cluster] = IF busy THEN "late" ELSE "none"]
                                 /\ busy => alWatch[cluster] = "on"
        /\ alTable' = AlWithout(alTable, its \ fails)
        /\ \E f \in Ascending(left) : alList' = [i \in 1..Cardinality(left) |-> alList[f[i]]]
        /\ alListener' = AlBroadcast(alListener)
        /\ UNCHANGED <<alEvent, alAdding, alAck, alRaised, alReused, alTop>>

-----------------------------------------------------------------------------
(* A request acknowledges an alarm: the table first, then the list.          *)

Update(uid) ==
    /\ alAck = 0 /\ uid \in DOMAIN alTable /\ Happens
    /\ alTable' = [alTable EXCEPT ![uid].ack = TRUE]
    /\ alAck' = uid
    /\ UNCHANGED <<alList, alEvent, alAdding, alWatch, alListener, alRaised, alReused, alTop>>

(* getAlarmFromList looks from the nearer end (of an empty list it panics,   *)
(* which ends the request only).                                             *)
getAlarmFromList(uid) == {i \in DOMAIN alList : alList[i].uid = uid}

UpdateEnds ==
    /\ alAck # 0
    /\ alList' = [i \in DOMAIN alList |-> IF i \in getAlarmFromList(alAck) THEN [alList[i] EXCEPT !.ack = TRUE] ELSE alList[i]]
    /\ alListener' = IF getAlarmFromList(alAck) = {} THEN alListener ELSE AlBroadcast(alListener)
    /\ alAck' = 0
    /\ UNCHANGED <<alTable, alEvent, alAdding, alWatch, alRaised, alReused, alTop, alHappened>>

-----------------------------------------------------------------------------
(* A listener: one loop for alarms, one for the number not acknowledged.     *)

AddListener ==
    /\ alListener.at = "none" /\ Happens
    /\ alListener' = [NoListener EXCEPT !.last = alEvent, !.from = alEvent, !.at = "read", !.ackAt = "read", !.open = TRUE]
    /\ UNCHANGED <<alList, alTable, alEvent, alAdding, alWatch, alAck, alRaised, alReused, alTop>>

(* From the back, while the numbers are larger: those after the k-th.        *)
getAlarmsAfterID(id, k) == (k # 0 => alList[k].uid <= id) /\ \A i \in (k + 1)..Len(alList) : alList[i].uid > id

(* Variant: what was read is counted from the newest number.                 *)
publishEventNewest(k) ==
    LET alarms == SubSeq(alList, k + 1, Len(alList))
    IN  /\ alListener.at = "read" /\ getAlarmsAfterID(alListener.last, k)
        /\ alListener' = IF alarms = << >> THEN [alListener EXCEPT !.at = "sleepy"]
                         ELSE [alListener EXCEPT !.at = "send", !.pend = alarms, !.last = alEvent + 1]
        /\ UNCHANGED <<alList, alTable, alEvent, alAdding, alWatch, alAck, alRaised, alReused, alTop, alHappened>>

publishEvent(k) ==
    LET alarms == SubSeq(alList, k + 1, Len(alList))
    IN  /\ alListener.at = "read" /\ getAlarmsAfterID(alListener.last, k)
        /\ alListener' = IF alarms = << >> THEN [alListener EXCEPT !.at = "sleepy"]
                         ELSE [alListener EXCEPT !.at = "send", !.pend = alarms, !.last = @ + Len(alarms)]
        /\ UNCHANGED <<alList, alTable, alEvent, alAdding, alWatch, alAck, alRaised, alReused, alTop, alHappened>>

(* It waits only after it looked and let go of the lock.                     *)
AlSleep ==
    /\ alListener.at = "sleepy"
    /\ alListener' = [alListener EXCEPT !.at = "wait"]
    /\ UNCHANGED <<alList, alTable, alEvent, alAdding, alWatch, alAck, alRaised, alReused, alTop, alHappened>>

(* OpenAlarm takes what is sent and writes it out.                           *)
OpenAlarm ==
    /\ alListener.at = "send" /\ alListener.open
    /\ alListener' = [alListener EXCEPT !.pend = Tail(@), !.got = @ \cup {Head(alListener.pend).nr},
                                        !.at = IF Len(alListener.pend) = 1 THEN "read" ELSE "send"]
    /\ UNCHANGED <<alList, alTable, alEvent, alAdding, alWatch, alAck, alRaised, alReused, alTop, alHappened>>

getUnAckNumber == Cardinality({i \in DOMAIN alList : ~ alList[i].ack})

(* The number is only sent when it changed (that it waits a moment after it  *)
(* looked makes no difference to the alarms).                                *)
publishAck ==
    /\ alListener.ackAt = "read" /\ (getUnAckNumber # alListener.unack => alListener.open)
    /\ alListener' = IF getUnAckNumber = alListener.unack THEN [alListener EXCEPT !.ackAt = "wait"]
                     ELSE [alListener EXCEPT !.unack = getUnAckNumber]
    /\ UNCHANGED <<alList, alTable, alEvent, alAdding, alWatch, alAck, alRaised, alReused, alTop, alHappened>>

(* The connection breaks: nobody takes anything any more.                    *)
Disconnect ==
    /\ alListener.open /\ Happens
    /\ alListener' = [alListener EXCEPT !.open = FALSE]
    /\ UNCHANGED <<alList, alTable, alEvent, alAdding, alWatch, alAck, alRaised, alReused, alTop>>

-----------------------------------------------------------------------------
(* initFromDB, after a crash at any point; clusters are announced anew.      *)
AlRestart ==
    LET rows == DOMAIN alTable
    IN  /\ Happens
        /\ \E f \in Ascending(rows) :
               /\ alList' = [i \in 1..Cardinality(rows) |-> alTable[f[i]]]
               /\ alEvent' = (IF rows = {} THEN 0 ELSE f[Cardinality(rows)]) /\ alTop' = alEvent'
        /\ alAdding' = {} /\ alWatch' = [c \in AlClusters |-> "none"] /\ alAck' = 0 /\ alListener' = NoListener /\ alReused' = FALSE
        /\ UNCHANGED <<alTable, alRaised>>

(* An alarm gets older than a month.                                         *)
Age(i) ==
    /\ ~ alList[i].old /\ Happens
    /\ alList' = [alList EXCEPT ![i].old = TRUE]
    /\ alTable' = [alTable EXCEPT ![alList[i].uid].old = TRUE]
    /\ UNCHANGED <<alEvent, alAdding, alWatch, alAck, alListener, alRaised, alReused, alTop>>

AlInit ==
    /\ alList = << >> /\ alTable = << >> /\ alEvent = 0 /\ alAdding = {} /\ alWatch = [c \in AlClusters |-> "none"]
    /\ alAck = 0 /\ alListener = NoListener /\ alRaised = 0 /\ alReused = FALSE /\ alTop = 0 /\ alHappened = 0

AlNext ==
    \/ \E s \in AlClusters \cup {Bus}, c \in AlClusters, w \in AlWhats, fails \in {"none", "insert", "delete"}, n \in 0..(AlMax + 1) :
          AlAdd(s, c, w, fails, n)
    \/ \E s \in AlClusters \cup {Bus} : AddEnds(s)
    \/ \E c \in AlClusters : ClusterCreated(c) \/ \E fails \in SUBSET DOMAIN alTable : ClusterDeleted(c, fails)
    \/ \E u \in DOMAIN alTable : Update(u)
    \/ \E k \in 0..Len(alList) : publishEvent(k)
    \/ UpdateEnds \/ AddListener \/ AlSleep \/ OpenAlarm \/ publishAck \/ Disconnect \/ AlRestart
    \/ \E i \in DOMAIN alList : Age(i)

AlSpec == AlInit /\ [][AlNext]_alVars

(***************************************************************************)
(* The list has its alarms in the order of their numbers, and each of them *)
(* is in the table; and although a listener only counts what it read, no   *)
(* alarm that is in the list passes it by: one whose number it is past was *)
(* read for it, unless a number was given twice.  (Add moves eventID after *)
(* it unlocked; publishEvent: lastID += c; deleteAlarmForCluster and       *)
(* deleteoldest leave gaps.)                                               *)
(***************************************************************************)
AlNoneSkipped ==
    /\ \A i, j \in DOMAIN alList : i < j => alList[i].uid < alList[j].uid
    /\ \A i \in DOMAIN alList : alList[i].uid \in DOMAIN alTable /\ alTable[alList[i].uid].nr = alList[i].nr
    /\ ~ alReused => \A i \in DOMAIN alList : alList[i].uid \in (alListener.from + 1)..alListener.last =>
           alList[i].nr \in alListener.got \cup {alListener.pend[j].nr : j \in DOMAIN alListener.pend}
=============================================================================
