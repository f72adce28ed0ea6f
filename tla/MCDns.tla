------------------------------- MODULE MCDns --------------------------------
(***************************************************************************)
(* The name server for TLC, one component at a time: each behaviour is one *)
(* of the component that "which" names, on variables that the components   *)
(* share.  Small instances of each.                                        *)
(***************************************************************************)
EXTENDS Integers, FiniteSets, SequencesExt, TLC

CONSTANTS
    DnTexts, DnNames,
    DtNames, DtFlags, DtFollowLate,
    DmQuestions, DmRRsets, DmOptions, DmMaxRRsets,
    AzContents, AzUpdates, AzReplaces, AzQuestions, AzChanges, AzSerials,
    XfHistory,
    FwAddrs, FwClients, FwWorkers, FwAbove, FwConfigs, FwLoads, FwSources, FwRtts, FwLasting, FwChanges, FwQueries,
    QcHandlers, QcViews, QcHash, QcZone, QcAsks, QcConfigs, QcPlain, QcIndirect, QcMaxSize, QcLimit, QcQueries, QcNames, QcCommands,
    QpConfigs, NrOctet, NrOctets, NrWidth6, ApHours, ApMinutes, ApWeek, ApMonths, ApMonthDays, ApLower, ApRecords, NmBad,
    RcWorlds, RcMaxDepth, RcMaxZones, RcBatch

VARIABLES which, s1, s2, s3, s4, s5, s6, s7, s8, s9, s10, s11

state == <<which, s1, s2, s3, s4, s5, s6, s7, s8, s9, s10, s11>>

(* The variables a component with k variables of its own leaves alone. *)
Free3 == s4 = 0 /\ s5 = 0 /\ s6 = 0 /\ s7 = 0 /\ s8 = 0 /\ s9 = 0 /\ s10 = 0 /\ s11 = 0
Free4 == s5 = 0 /\ s6 = 0 /\ s7 = 0 /\ s8 = 0 /\ s9 = 0 /\ s10 = 0 /\ s11 = 0
Free5 == s6 = 0 /\ s7 = 0 /\ s8 = 0 /\ s9 = 0 /\ s10 = 0 /\ s11 = 0
Free6 == s7 = 0 /\ s8 = 0 /\ s9 = 0 /\ s10 = 0 /\ s11 = 0
Free7 == s8 = 0 /\ s9 = 0 /\ s10 = 0 /\ s11 = 0
Free9 == s10 = 0 /\ s11 = 0
Kept3 == UNCHANGED <<which, s4, s5, s6, s7, s8, s9, s10, s11>>
Kept4 == UNCHANGED <<which, s5, s6, s7, s8, s9, s10, s11>>
Kept5 == UNCHANGED <<which, s6, s7, s8, s9, s10, s11>>
Kept6 == UNCHANGED <<which, s7, s8, s9, s10, s11>>
Kept7 == UNCHANGED <<which, s8, s9, s10, s11>>
Kept9 == UNCHANGED <<which, s10, s11>>
Free10 == s11 = 0
Kept10 == UNCHANGED <<which, s11>>
Free11 == TRUE
Kept11 == UNCHANGED which

-----------------------------------------------------------------------------
(* Every text of up to four characters of an alphabet with the special ones, and names at the length limits. *)
Dn == INSTANCE DnsNames WITH dnText <- s1, dnParse <- s2, dnWant <- s3

DnChars == {97, 46, 92, 50, 53, 64, 91}
DnRun(n) == [i \in 1..n |-> 97]
DnLong(k) == DnRun(63) \o <<46>> \o DnRun(63) \o <<46>> \o DnRun(63) \o <<46>> \o DnRun(k)
MCDnTexts == UNION {[1..n -> DnChars] : n \in 0..4} \cup {DnLong(k) : k \in 60..64} \cup {DnLong(61) \o <<46>>, DnLong(61) \o <<46, 97>>, DnLong(61) \o <<46, 97, 97>>, DnLong(62) \o <<46>>, DnLong(60) \o <<46, 97>>}
DnOctets == {97, 65, 46, 92, 0, 200, 64, 49}
DnLbl == UNION {[1..n -> DnOctets] : n \in 1..2}
MCDnNames == {<<>>} \cup {<<l>> : l \in DnLbl} \cup {<<l, m>> : l \in DnLbl, m \in [1..1 -> DnOctets]}

DnStart == which = "names" /\ Dn!DnInit /\ Free3
DnStep == which = "names" /\ Dn!DnNext /\ Kept3

-----------------------------------------------------------------------------
(* Insertions and removals of eight names in every order. *)
Dt == INSTANCE DomainTree WITH dtTree <- s1, dtData <- s2, dtFlagged <- s3, dtLate <- s4, dnText <- s10,
    dnParse <- s10, dnWant <- s10, DnTexts <- {}, DnNames <- {}

DtL(c) == <<c>>
MCDtNames == {<<>>, <<DtL(97), DtL(98)>>, <<DtL(99), DtL(98)>>} \cup {<<DtL(c)>> : c \in 97..101}
MCDtFlags == {<<DtL(98)>>}

DtStart == which = "tree" /\ Dt!DtInit /\ Free4
DtStep == which = "tree" /\ Dt!DtNext /\ Kept4

-----------------------------------------------------------------------------
(* Messages of up to two record sets of every type the library knows. *)
Dm == INSTANCE DnsMessage WITH dmMsg <- s1, dmWire <- s2, dmGot <- s3, dmSigned <- s4, dmStage <- s5,
    dnText <- s10, dnParse <- s10, dnWant <- s10, DnTexts <- {}, DnNames <- {}

DmA_ == <<<<97>>>>
DmWa == <<<<119>>, <<97>>>>
DmWA == <<<<87>>, <<65>>>>
DmXwa == <<<<120, 121>>>> \o DmWa
DmRR(n, t, rds) == [name |-> n, type |-> t, class |-> 1, ttl |-> 300, rdatas |-> rds]
MCDmQuestions == {[name |-> DmWa, type |-> 1], [name |-> DmWA, type |-> 16]}
DmAllSets == {
  DmRR(DmWa, 1, <<<<<<1, 2, 3, 4>>>>, <<<<1, 2, 3, 5>>>>>>),
  DmRR(DmWA, 2, <<<<DmXwa>>>>),
  DmRR(DmXwa, 28, <<<<[i \in 1..16 |-> i]>>>>),
  DmRR(DmA_, 6, <<<<DmWa, DmXwa, 1, 2, 3, 4, 5>>>>),
  DmRR(DmWa, 5, <<<<DmA_>>>>), DmRR(DmA_, 39, <<<<DmWA>>>>), DmRR(DmWa, 12, <<<<<<>>>>>>), DmRR(DmXwa, 17, <<<<DmA_, DmXwa>>>>),
  DmRR(DmA_, 15, <<<<10, DmXwa>>>>), DmRR(DmA_, 33, <<<<1, 2, 300, DmWa>>>>),
  DmRR(DmWa, 16, <<<<<<<<97, 98>>, <<>>>>>>>>), DmRR(DmWa, 99, <<<<<<<<97>>>>>>>>),
  DmRR(DmWa, 13, <<<<<<97>>, <<98>>>>>>), DmRR(DmWa, 35, <<<<1, 2, <<117>>, <<>>, <<33>>, DmXwa>>>>),
  DmRR(DmA_, 43, <<<<9, 8, 7, <<1, 2>>>>>>), DmRR(DmWa, 46, <<<<1, 5, 2, 300, 9, 8, 77, DmA_, <<3, 4>>>>>>),
  DmRR(DmXwa, 50, <<<<1, 0, 10, 1, <<170>>, 2, <<1, 2>>, <<1, 2, 46, 257>>>>>>)}
MCDmRRsets == <<DmAllSets, {rr \in DmAllSets : rr.type \in {2, 6}}, {rr \in DmAllSets : rr.type \in {1, 28}}>>
MCDmOptions == {[code |-> 8, family |-> 1, mask |-> 20, scope |-> 0, ip |-> <<10, 1, 16, 0>>], [code |-> 53, view |-> <<118>>]}

DmStart == which = "message" /\ Dm!DmInit /\ Free5
DmStep == which = "message" /\ Dm!DmNext /\ Kept5

-----------------------------------------------------------------------------
(* Dynamic updates and reloads of a zone while a query runs. *)
Az == INSTANCE AuthZone WITH azZones <- s1, azTable <- s2, azQuery <- s3, azUpdate <- s4, azSeen <- s5,
    azPanic <- s6, xfFlight <- s7, xfJob <- s8, xfSerial <- s9

AzRr(n, t, S) == [name |-> n, type |-> t, ttl |-> 1, rdatas |-> S]
AzApex == <<AzRr(<< >>, "SOA", {2}), AzRr(<< >>, "NS", {<<"n">>, <<"outside", "zone">>}), AzRr(<<"n">>, "A", {1})>>
AzB == <<"b">>
AzCB == <<"c", "b">>
MCAzContents == {AzApex \o <<AzRr(<<"*">>, "A", {1}), AzRr(AzCB, "A", {2})>>, <<AzRr(<< >>, "SOA", {2})>>}
AzOp(o, r) == [op |-> o, rr |-> r]
MCAzUpdates == {
  <<AzOp("add", AzRr(<<"*">>, "A", {1}))>>, <<AzOp("delete", AzRr(<<"*">>, "A", {1}))>>,
  <<AzOp("add", AzRr(AzCB, "A", {1})), AzOp("add", AzRr(AzCB, "AAAA", {1}))>>, 
  <<AzOp("add", AzRr(AzB, "NS", {AzCB}))>>, <<AzOp("delete set", AzRr(AzB, "NS", {})), AzOp("add", AzRr(<<"*">>, "NS", {AzCB}))>>,
  <<AzOp("add", AzRr(<< >>, "SOA", {0})), AzOp("delete domain", AzRr(AzCB, "ANY", {}))>>,
  <<AzOp("add", AzRr(<< >>, "SOA", {3})), AzOp("delete domain", AzRr(<< >>, "ANY", {}))>>,
  <<AzOp("delete set", AzRr(<< >>, "NS", {})), AzOp("delete", AzRr(<< >>, "NS", {<<"outside", "zone">>}))>>}
MCAzReplaces == {[old |-> <<AzRr(AzCB, "A", {2})>>, new |-> <<AzRr(AzCB, "A", {1})>>]}
MCAzQuestions == {[name |-> n, type |-> "A"] : n \in {<<"x">>, <<"d", "b">>}}

AzStart == which = "zone" /\ Az!AzInit /\ Free6
AzStep == which = "zone" /\ Az!AzNext /\ Kept6

-----------------------------------------------------------------------------
(* Transfers of a zone of which the primary server has three versions. *)
XfRr(n, t, S) == [name |-> n, type |-> t, ttl |-> 1, rdatas |-> S]
XfB == <<"b">>
XfCB == <<"c", "b">>
XfNS1 == XfRr(<< >>, "NS", {<<"n">>})
MCXfHistory == <<{XfNS1, XfRr(XfB, "A", {1})}, {XfNS1, XfRr(XfCB, "A", {1})}, {XfNS1, XfRr(XfCB, "A", {1}), XfRr(XfB, "A", {2})}>>
MCXfContents == {<<XfRr(<< >>, "SOA", {1}), XfNS1, XfRr(XfB, "A", {1})>>, <<>>}

Xf == INSTANCE AuthZone WITH azZones <- s1, azTable <- s2, azQuery <- s3, azUpdate <- s4, azSeen <- s5,
    azPanic <- s6, xfFlight <- s7, xfJob <- s8, xfSerial <- s9, AzContents <- MCXfContents, AzUpdates <- {},
    AzReplaces <- {}, AzQuestions <- {}, AzChanges <- 4, AzSerials <- 9

XfStart == which = "transfer" /\ Xf!AzInit /\ Xf!XfInit /\ Free9
XfStep == which = "transfer" /\ Xf!XfNext /\ Kept9

-----------------------------------------------------------------------------
(* Two clients, two servers to forward to, one prober. *)
Fw == INSTANCE Forwarding WITH fwStatus <- s1, fwZones <- s2, fwGroups <- s3, fwProber <- s4, fwClient <- s5,
    fwSource <- s6, fwReload <- s7, fwChanged <- s8, fwAsked <- s9, fwPanic <- s10

MCFwAbove == ("b.a" :> <<"b.a", "a">>) @@ ("a" :> <<"a">>)
FwConf(m, p, a) == [match |-> m, policy |-> p, addrs |-> a]
MCFwConfigs == {FwConf("exception", "round_robin", <<"s1">>), FwConf("subdomain", "fixed_order", <<"s2","s1">>)}
MCFwLoads == {"b.a" :> FwConf("subdomain", "rtt", <<"s1", "s2">>)}

FwStart == which = "forward" /\ Fw!FwInit /\ Free10
FwStep == which = "forward" /\ Fw!FwNext /\ Kept10

-----------------------------------------------------------------------------
(* Two handlers answer queries from one cache, with aliases and names whose hashes collide. *)
Qc == INSTANCE QueryChain WITH qcRequest <- s1, qcClient <- s2, qcHeap <- s3, qcCache <- s4, qcTasks <- s5,
    qcKeys <- s6, qcCalls <- s7, qcConf <- s8, qcAsked <- s9, qcChanged <- s10, qcHung <- s11

MCQcHash == "www" :> 1 @@ "alias" :> 2 @@ "twin" :> 1
MCQcZone == "www" :> [cname |-> "", types |-> {"A"}]
         @@ "alias" :> [cname |-> "www", types |-> {}]
         @@ "twin" :> [cname |-> "", types |-> {"A"}]
QcAsk(n, t, v) == [name |-> n, type |-> t, view |-> v]
MCQcAsks == {QcAsk("alias", "A", "default"), QcAsk("twin", "A", "default")}
QcNoStubs == [v \in {"default", "six"} |-> {}]
MCQcConfigs ==
    {[stubs |-> QcNoStubs, fails |-> {}, dns64 |-> {"six"}, filter |-> {}, prefetch |-> FALSE],
     [stubs |-> [QcNoStubs EXCEPT !["default"] = {"www"}], fails |-> {"*"}, dns64 |-> {}, filter |-> {}, prefetch |-> TRUE]}

QcStart == which = "chain" /\ Qc!QcInit /\ Free11
QcStep == which = "chain" /\ Qc!QcNext /\ Kept11

-----------------------------------------------------------------------------
(* The same for a view with DNS64. *)
Qs == INSTANCE QueryChain WITH qcRequest <- s1, qcClient <- s2, qcHeap <- s3, qcCache <- s4, qcTasks <- s5,
    qcKeys <- s6, qcCalls <- s7, qcConf <- s8, qcAsked <- s9, qcChanged <- s10, qcHung <- s11,
    QcAsks <- {QcAsk("www", "AAAA", "six")}

QsStart == which = "dns64" /\ Qs!QcInit /\ Free11
QsStep == which = "dns64" /\ Qs!QcNext /\ Kept11

-----------------------------------------------------------------------------
(* Views, access lists, limits, sort lists and local data, and the commands that change them. *)
Qp == INSTANCE QueryPolicy WITH qpConf <- s1, qpTold <- s2, qpNow <- s3, qpChecked <- s4, qpLink <- s5,
    qpFrom <- s6, qpLeft <- s7

(* The bits of an octet, two here. *)
QpOctet(o) == [i \in 1 .. 2 |-> (o \div 2^(2 - i)) % 2]

QpFour(a, b, mask) == [dot |-> TRUE, octs |-> <<a, b>>, mask |-> mask]
QpSix(bits, mask) == [dot |-> FALSE, bits |-> bits, mask |-> mask]
QpAddr(a, b) == QpOctet(a) \o QpOctet(b)
QpTop(n) == <<n>>
QpT(wild, name) == [wild |-> wild, name |-> name]
QpD(wild, name, type, rdata) == [text |-> QpT(wild, name), type |-> type, rdata |-> rdata]
QpNoKey == [name |-> "", algorithm |-> ""]
QpQuiet == [rcode |-> "none", answer |-> << >>]
QpFails == [rcode |-> "SERVFAIL", answer |-> << >>]
QpDenied == [rcode |-> "NXDOMAIN", answer |-> << >>]
QpPair == [rcode |-> "NOERROR", answer |-> <<[name |-> <<"c", "a">>, type |-> "A", rdatas |-> <<QpAddr(3, 1), QpAddr(1, 2), QpAddr(1, 1)>>]>>]
QpChased == [rcode |-> "NXDOMAIN", answer |-> <<[name |-> <<"c", "a">>, type |-> "CNAME", rdatas |-> << >>, target |-> <<"c", "b", "x">>]>>]
QpQ(ip, tsig, name, type, up) == [ip |-> ip, tsig |-> tsig, name |-> name, type |-> type, up |-> up]
QpSig(key, algorithm, good) == <<[key |-> key, algorithm |-> algorithm, good |-> good]>>
QpBase == [acls |-> << >>, views |-> << >>, sort |-> << >>, limits |-> << >>, names |-> << >>, local |-> << >>,
         hijack |-> << >>, drop |-> FALSE, now |-> 0]
QpA(ips, valid, invalid) == [ips |-> ips, valid |-> valid, invalid |-> invalid]
QpR(begin, end) == [begin |-> begin, end |-> end]

QpLists == ("lan" :> QpA(<<QpFour(1, 0, <<2>>), QpFour(1, 1, << >>)>>, <<QpR(<<0, 1>>, <<1, 1>>), QpR(<<2, 0, 1>>, <<0, 1, 0>>)>>, << >>))
         @@ ("six" :> QpA(<<QpSix(<<1, 0, 1, 0, 1>>, <<3>>)>>, << >>, <<QpR(<<2, 3, 0, 0>>, <<1, 1, 1, 1>>)>>))
         @@ ("pc" :> QpA(<<QpFour(2, 1, << >>)>>, << >>, << >>))
QpViewed(now, ticks, sends) == [QpBase EXCEPT !.acls = QpLists, !.now = now,
    !.views = <<[name |-> "v1", acls |-> <<"lan", "gone">>, key |-> QpNoKey],
                [name |-> "v2", acls |-> <<"six", "pc", "NONE">>, key |-> [name |-> "k", algorithm |-> "md5"]],
                [name |-> "v3", acls |-> <<"lan", "six">>, key |-> QpNoKey]>>]
    @@ [ticks |-> ticks, sends |-> sends, commands |-> {[op |-> "updateAcl", name |-> "pc", ips |-> <<QpFour(1, 1, << >>), QpFour(2, 0, <<3>>)>>],
                      [op |-> "updateAcl", name |-> "lan", ips |-> <<QpFour(1, 9, << >>)>>],
                      [op |-> "addAcl", name |-> "gone", ips |-> <<QpFour(3, 0, <<1>>), QpFour(1, 0, <<2>>)>>],
                      [op |-> "addAcl", name |-> "ACL", ips |-> << >>],
                      [op |-> "deleteAcl", name |-> "six"],
                      [op |-> "deleteAcl", name |-> "any"],
                      [op |-> "updateView", name |-> "V1", acls |-> <<"any">>],
                      [op |-> "updateView", name |-> "any", acls |-> << >>],
                      [op |-> "updatePriority", orders |-> <<"v3", "v2", "v1">>],
                      [op |-> "updatePriority", orders |-> <<"v2", "v3">>],
                      [op |-> "protect", enable |-> TRUE],
                      [op |-> "unknown"]},
        queries |-> {QpQ(QpAddr(1, 1), << >>, <<"c">>, "A", QpPair), QpQ(<<1, 0, 1, 1, 1>>, << >>, <<"c">>, "A", QpFails),
                     QpQ(QpAddr(2, 1), QpSig("k", "md5", TRUE), <<"c">>, "A", QpQuiet),
                     QpQ(QpAddr(3, 3), QpSig("k", "md5", FALSE), <<"c">>, "A", QpQuiet),
                     QpQ(QpAddr(3, 3), QpSig("k", "sha", TRUE), <<"c">>, "A", QpDenied),
                     QpQ(QpAddr(0, 3), QpSig("k", "md5", TRUE), <<"c">>, "A", QpPair)}]

QpS(op, source, preferred) == [op |-> op, view |-> "default", source |-> source, preferred |-> preferred]
QpL(op, source, limit) == [op |-> op, source |-> source, limit |-> limit]
QpN(op, wild, name, limit) == [op |-> op, view |-> "default", text |-> QpT(wild, name), limit |-> limit]
QpLimited == [QpBase EXCEPT !.limits = <<QpL("", QpFour(1, 0, <<2>>), 2)>>,
    !.sort = <<QpS("", QpFour(0, 0, <<1>>), <<QpFour(1, 0, <<2>>), QpFour(3, 1, << >>), QpFour(1, 1, << >>), QpFour(9, 1, << >>)>>)>>]
    @@ [ticks |-> 0, sends |-> 2,
        commands |-> {QpL("addLimit", QpFour(1, 2, <<4>>), 1), QpL("addLimit", QpFour(0, 0, <<1>>), 1), QpL("deleteLimit", QpFour(1, 2, <<4>>), 0),
                      QpL("deleteLimit", QpFour(0, 0, <<1>>), 0), QpL("updateLimit", QpFour(1, 0, <<2>>), 1), QpL("addLimit", QpFour(1, 2, << >>), 1),
                      QpL("deleteLimit", QpFour(0, 0, <<0>>), 0),
                      QpS("addSort", QpFour(1, 1, << >>), <<QpFour(3, 0, <<2>>)>>), QpS("updateSort", QpFour(0, 0, <<1>>), << >>),
                      QpS("deleteSort", QpFour(0, 0, <<1>>), << >>)},
        queries |-> {QpQ(QpAddr(1, 1), << >>, <<"c", "a">>, "A", QpPair), QpQ(QpAddr(1, 2), << >>, <<"c", "b", "x">>, "A", QpPair)}]
QpNamesLimited == [QpBase EXCEPT !.names = <<QpN("", TRUE, <<"c">>, 2), QpN("", FALSE, <<"c", "a", "y">>, 1)>>]
    @@ [ticks |-> 0, sends |-> 2,
        commands |-> {QpN("addName", FALSE, <<"c", "a">>, 1), QpN("addName", TRUE, <<"c", "b">>, 0), QpN("deleteName", TRUE, <<"c">>, 0),
                      QpN("updateName", TRUE, <<"c", "a", "y">>, 2), QpN("addName", FALSE, <<"..">>, 1)},
        queries |-> {QpQ(QpAddr(1, 1), << >>, <<"c", "a">>, "A", QpPair), QpQ(QpAddr(1, 2), << >>, <<"c", "b", "x">>, "A", QpPair),
                     QpQ(QpAddr(3, 2), << >>, <<"c", "a", "y", "z">>, "A", QpFails)}]

QpP(kind, data) == [view |-> "default", kind |-> kind, data |-> data]
QpLo(op, kind, data) == [op |-> op, view |-> "default", kind |-> kind, data |-> data]
QpHi(op, data) == [op |-> op, view |-> "default", data |-> data]
QpLocal == [QpBase EXCEPT !.local = <<QpP("redirect", QpD(TRUE, <<"c">>, "A", QpAddr(1, 1))), QpP("passthru", QpD(TRUE, <<"c", "b">>, "A", << >>))>>,
    !.hijack = <<QpP("redirect", QpD(TRUE, <<"c", "b">>, "A", QpAddr(2, 2)))>>, !.drop = TRUE]
    @@ [ticks |-> 0, sends |-> 2, commands |-> {QpLo("addLocal", "redirect", QpD(FALSE, <<"c">>, "A", QpAddr(1, 2))), QpLo("addLocal", "nxdomain", QpD(FALSE, <<"c", "a">>, "A", << >>)),
                      QpLo("addLocal", "nodata", QpD(TRUE, <<"c", "a">>, "A", << >>)), QpLo("deleteLocal", "redirect", QpD(TRUE, <<"c">>, "A", QpAddr(1, 1))),
                      QpLo("deleteLocal", "nxdomain", QpD(FALSE, <<"c", "b">>, "A", << >>)), QpLo("addLocal", "redirect", QpD(FALSE, <<"..">>, "A", QpAddr(1, 1))),
                      QpLo("addLocal", "redirect", QpD(FALSE, <<"c", "a">>, "B", QpAddr(3, 3))),
                      QpLo("deleteLocal", "nxdomain", QpD(FALSE, <<"c">>, "A", << >>)),
                      [op |-> "updateLocal", view |-> "default", kind |-> "redirect", old |-> QpD(TRUE, <<"c">>, "A", QpAddr(1, 1)),
                       data |-> QpD(TRUE, <<"c">>, "A", QpAddr(3, 3))],
                      [op |-> "updateRedirect", view |-> "default", old |-> QpD(TRUE, <<"c", "b">>, "A", QpAddr(2, 2)), data |-> QpD(FALSE, <<"c", "b", "x">>, "A", QpAddr(1, 1))],
                      QpHi("addRedirect", QpD(FALSE, <<"c", "a">>, "A", QpAddr(0, 1))), QpHi("deleteRedirect", QpD(TRUE, <<"c", "b">>, "A", QpAddr(2, 2)))},
        queries |-> {QpQ(QpAddr(0, 1), << >>, <<"c", "a">>, "A", QpChased), QpQ(QpAddr(0, 1), << >>, <<"c">>, "A", QpQuiet),
                     QpQ(QpAddr(0, 1), << >>, <<"c", "b", "x">>, "A", QpDenied), QpQ(QpAddr(0, 1), << >>, <<"c", "a", "y">>, "B", QpFails)}]

MCQpConfigs == [early |-> QpViewed(3, 2, 1), late |-> QpViewed(14, 1, 1), limited |-> QpLimited, names |-> QpNamesLimited, local |-> QpLocal]
MCApLower == ("ACL" :> "acl") @@ ("NONE" :> "none") @@ ("V1" :> "v1")
MCApMonths == <<2, 3>>
MCNmBad == {<<"..">>}

QpStart == which = "policy" /\ Qp!QpInit /\ Free7
QpStep == which = "policy" /\ Qp!QpNext /\ Kept7

-----------------------------------------------------------------------------
(* Delegations whose name servers lie in other zones, and two zones that serve each other. *)
Rc == INSTANCE Recursor WITH rcWorld <- s1, rcTasks <- s2, rcZones <- s3, rcVisited <- s4, rcServers <- s5,
    rcAnswers <- s6, rcShort <- s7, rcFaulty <- s8, rcLapsed <- s9

RcW == <<"c", "a", "w">>
RcHint == <<[type |-> "NS", name |-> << >>, addr |-> 0], [type |-> "A", name |-> <<"r">>, addr |-> 1]>>
RcFar == [ns |-> (<< >> :> {<<"r">>}) @@ (<<"c">> :> {<<"c", "x">>}) @@ (<<"d">> :> {<<"d", "n">>}) @@ (<<"c", "a">> :> {<<"d", "n">>}),
        addrs |-> (<<"r">> :> {1}) @@ (<<"c", "x">> :> {2}) @@ (<<"d", "n">> :> {3}), hosts |-> {RcW}, hint |-> RcHint, asks |-> [u |-> RcW], contexts |-> 3, faults |-> 1, lapses |-> 1]
RcLoop == [ns |-> (<< >> :> {<<"r">>}) @@ (<<"c">> :> {<<"c", "x">>}) @@ (<<"d">> :> {<<"d", "n">>}) @@ (<<"c", "a">> :> {<<"d", "b", "n">>})
                @@ (<<"d", "b">> :> {<<"c", "a", "n">>}),
         addrs |-> (<<"r">> :> {1}) @@ (<<"c", "x">> :> {2}) @@ (<<"d", "n">> :> {3}) @@ (<<"d", "b", "n">> :> {4}) @@ (<<"c", "a", "n">> :> {4}),
         hosts |-> {RcW}, hint |-> RcHint, asks |-> [u |-> RcW], contexts |-> 3, faults |-> 1, lapses |-> 1]
RcTwo == [RcFar EXCEPT !.asks = [u |-> RcW, v |-> <<"c", "q">>], !.contexts = 2, !.lapses = 0]
MCRcWorlds == {RcFar, RcTwo, [RcLoop EXCEPT !.contexts = 2, !.lapses = 0]}

RcStart == which = "recursor" /\ Rc!RcInit /\ Free9
RcStep == which = "recursor" /\ Rc!RcNext /\ Kept9

-----------------------------------------------------------------------------
Init == \/ DnStart
        \/ DtStart
        \/ DmStart
        \/ AzStart
        \/ XfStart
        \/ FwStart
        \/ QcStart
        \/ QsStart
        \/ QpStart
        \/ RcStart

Next == \/ DnStep
        \/ DtStep
        \/ DmStep
        \/ AzStep
        \/ XfStep
        \/ FwStep
        \/ QcStep
        \/ QsStep
        \/ QpStep
        \/ RcStep

Spec == Init /\ [][Next]_state

(****************************** Properties *********************************)

(* A name printed and parsed again is the same name, and a text that       *)
(* parses prints to a text that parses to the same name (DnsNames).        *)
DnTextStable == which = "names" => Dn!DnTextStable

(* The tree answers every search as the set of names in it does            *)
(* (DomainTree).                                                           *)
DtAgrees == which = "tree" => Dt!DtAgrees

(* A message that was rendered is parsed back as it was (DnsMessage).      *)
DmRoundTrip == which = "message" => Dm!DmRoundTrip

(* A query is answered from one state of the zone, as the standard says    *)
(* (AuthZone).                                                             *)
AzAnswered == which = "zone" => Az!AzAnswered

(* The serial of a zone never goes back (AuthZone).                        *)
AzSerialGrows == [][(which = "zone" => Az!AzSerialGrows) /\ (which = "transfer" => Xf!AzSerialGrows)]_state

(* A server that is marked down is being probed (Forwarding).              *)
FwDownIsProbed == which = "forward" => Fw!FwDownIsProbed

(* A client gets the answer to its own question (QueryChain).              *)
QcAnswered == which = "chain" => Qc!QcAnswered

(* Queries are served as the configuration decides (QueryPolicy).          *)
QpDecides == which = "policy" => Qp!QpDecides

(* A question is answered as the servers of the name do (Recursor).        *)
RcAnswered == which = "recursor" => Rc!RcAnswered
=============================================================================
