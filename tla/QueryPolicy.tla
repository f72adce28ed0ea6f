---------------------------- MODULE QueryPolicy ----------------------------
(***************************************************************************)
(* The policies vanguard applies to a query, and the commands that change  *)
(* them while queries are answered: views, limits, local data, hijacking,  *)
(* sort lists and the drop of failures, with the link (vanguard/httpcmd)   *)
(* over which an operator's program sends the commands.                    *)
(*                                                                         *)
(* qpConf is what the handlers hold.  qpTold is what they were asked for,  *)
(* as plain rows: the reference a decision is compared with.  A command    *)
(* that succeeds counts as a whole, whatever its handler did; one that     *)
(* fails counts for nothing, except for the first half of an update, which *)
(* the code does not undo.                                                 *)
(***************************************************************************)
EXTENDS AccessPolicy

CONSTANT
    QpConfigs    \* configurations vanguard starts with, each with the commands that may be sent,
                 \* how many are (bound), the queries that may come, and the half minutes that
                 \* pass (bound)

VARIABLES
    qpConf,      \* what the handlers hold
    qpTold,      \* what they were told, as rows
    qpNow,       \* half minutes since the start
    qpChecked,   \* when the scheduler looked last
    qpLink,      \* the proxy and the command service
    qpFrom,      \* the configuration vanguard started with
    qpLeft       \* what is left of the bounds

qpVars == <<qpConf, qpTold, qpNow, qpChecked, qpLink, qpFrom, qpLeft>>

-----------------------------------------------------------------------------
(* ReloadConfig of each handler, on the configuration at the start.          *)

ReloadAcls(c, now) ==
    [n \in DOMAIN c.acls |-> [acl |-> NewAcl(c.acls[n].ips, c.acls[n].valid, c.acls[n].invalid, now)[1], watched |-> TRUE]]

ReloadViews(c) == [i \in DOMAIN c.views |-> [name |-> c.views[i].name, acls |-> c.views[i].acls, priority |-> i - 1]]

ReloadKeys(c) ==
    [k \in {c.views[i].key.name : i \in DOMAIN c.views} \ {""} |->
        LET v == c.views[SelectInSeq(c.views, LAMBDA x : x.key.name = k)] IN [view |-> v.name, algorithm |-> v.key.algorithm]]

ReloadSorters(c) ==
    FoldLeft(LAMBDA lists, x : addSorter(lists, x.view, x.source, x.preferred).tree, << >>, c.sort)

ReloadIpLimits(c) == FoldLeft(LAMBDA t, x : AddCIDR(t, x.source, x.limit).tree, NewTree, c.limits)

ReloadNameLimits(c) ==
    FoldLeft(LAMBDA trees, x : addNameRateLimit(trees, x.view, x.text, x.limit).trees, << >>, c.names)

ReloadLocalData(rules) ==
    FoldLeft(LAMBDA trees, x : AddPolicies(trees, x.view, x.kind, x.data).trees, << >>, rules)

-----------------------------------------------------------------------------
(* Commands.  A handler that takes its lock more than once runs as several   *)
(* operations; the flag says whether a failure ends it.                      *)

Ends(op) == [op |-> op, must |-> TRUE]

Tries(op) == [op |-> op, must |-> FALSE]

(* Variant: that the list could not be made anew is not reported.            *)
updateAclUnreported(c) == <<Ends([c EXCEPT !.op = "removeAcl"]), Tries([c EXCEPT !.op = "setAcl"])>>

updateAcl(c) == <<Ends([c EXCEPT !.op = "removeAcl"]), Ends([c EXCEPT !.op = "setAcl"])>>

UpdateLocalData(c) == <<Tries([c EXCEPT !.op = "deleteLocal", !.data = c.old]), Ends([c EXCEPT !.op = "addLocal"])>>

UpdateRedirectRR(c) == <<Tries([c EXCEPT !.op = "deleteRedirect", !.data = c.old]), Ends([c EXCEPT !.op = "addRedirect"])>>

Program(c) ==
    CASE c.op = "updateAcl" -> updateAcl(c)
      [] c.op = "updateLocal" -> UpdateLocalData(c)
      [] c.op = "updateRedirect" -> UpdateRedirectRR(c)
      [] OTHER -> <<Ends(c)>>

Same(err) == [conf |-> qpConf, err |-> err]

Set(conf, err) == [conf |-> conf, err |-> err]

addAcl(c) ==
    LET acl == NewAcl(c.ips, << >>, << >>, qpNow)
    IN  CASE checkNameValid(c.name) # "nil" -> Same(checkNameValid(c.name))
          [] checkNameValid(c.name) = "nil" /\ c.name \in DOMAIN qpConf.acls -> Same("ErrAclExists")
          [] OTHER -> IF acl = << >> THEN Same("ErrInvalidNetwork")
                      ELSE Set([qpConf EXCEPT !.acls = (c.name :> [acl |-> acl[1], watched |-> TRUE]) @@ @], "nil")

removeAcl(c) ==
    CASE isReadOnly(c.name) -> Same("ErrAnyNonAcl")
      [] ~ isReadOnly(c.name) /\ c.name \notin DOMAIN qpConf.acls -> Same("ErrNonExistAcl")
      [] OTHER -> Set([qpConf EXCEPT !.acls = [n \in DOMAIN @ \ {c.name} |-> @[n]]], "nil")

(* The second half of an update: the list is made anew, without a schedule.  *)
setAcl(c) ==
    LET acl == NewAcl(c.ips, << >>, << >>, qpNow)
    IN  IF acl = << >> THEN Same("ErrInvalidNetwork")
        ELSE Set([qpConf EXCEPT !.acls = (c.name :> [acl |-> acl[1], watched |-> TRUE]) @@ @], "nil")

HandleUpdateView(c) ==
    IF ToLower(c.name) = "any" THEN Same("ErrModifyInnerView")
    ELSE Set([qpConf EXCEPT !.views = updateView(@, c.name, c.acls)], "nil")

updateViewPriority(c) ==
    Set([qpConf EXCEPT !.views = Prioritized(@, c.orders)],
        IF Unknown(qpConf.views, c.orders) THEN "ErrUnknownView" ELSE "sorting")

HandleSortList(c) ==
    LET r == CASE c.op = "addSort" -> addSorter(qpConf.sort, c.view, c.source, c.preferred)
               [] c.op = "deleteSort" -> deleteSorter(qpConf.sort, c.view, c.source)
               [] c.op = "updateSort" -> updateSorter(qpConf.sort, c.view, c.source, c.preferred)
    IN  Set([qpConf EXCEPT !.sort = r.tree], r.err)

HandleIpLimit(c) ==
    LET r == CASE c.op = "addLimit" -> addIpRateLimit(qpConf.limits, c.source, c.limit)
               [] c.op = "deleteLimit" -> deleteIpRateLimit(qpConf.limits, c.source)
               [] c.op = "updateLimit" -> updateIpRateLimit(qpConf.limits, c.source, c.limit)
    IN  Set([qpConf EXCEPT !.limits = r.tree], r.err)

HandleNameLimit(c) ==
    LET r == CASE c.op = "addName" -> addNameRateLimit(qpConf.names, c.view, c.text, c.limit)
               [] c.op = "deleteName" -> deleteNameRateLimit(qpConf.names, c.view, c.text)
               [] c.op = "updateName" -> updateNameRateLimit(qpConf.names, c.view, c.text, c.limit)
    IN  Set([qpConf EXCEPT !.names = r.trees], r.err)

HandleLocalData(c) ==
    LET r == IF c.op = "addLocal" THEN AddPolicies(qpConf.local, c.view, c.kind, c.data)
             ELSE RemovePolicies(qpConf.local, c.view, c.kind, c.data)
    IN  Set([qpConf EXCEPT !.local = r.trees], r.err)

HandleRedirect(c) ==
    LET r == IF c.op = "addRedirect" THEN AddPolicies(qpConf.hijack, c.view, "redirect", c.data)
             ELSE RemovePolicies(qpConf.hijack, c.view, "redirect", c.data)
    IN  Set([qpConf EXCEPT !.hijack = r.trees], r.err)

SrvFailedProtect(c) == Set([qpConf EXCEPT !.drop = c.enable], "nil")

(* getHandler: the handler that registered the command.                      *)
HandleCmd(c) ==
    CASE c.op = "addAcl" -> addAcl(c)
      [] c.op \in {"removeAcl", "deleteAcl"} -> removeAcl(c)
      [] c.op = "setAcl" -> setAcl(c)
      [] c.op = "updateView" -> HandleUpdateView(c)
      [] c.op = "updatePriority" -> updateViewPriority(c)
      [] c.op \in {"addSort", "deleteSort", "updateSort"} -> HandleSortList(c)
      [] c.op \in {"addLimit", "deleteLimit", "updateLimit"} -> HandleIpLimit(c)
      [] c.op \in {"addName", "deleteName", "updateName"} -> HandleNameLimit(c)
      [] c.op \in {"addLocal", "deleteLocal"} -> HandleLocalData(c)
      [] c.op \in {"addRedirect", "deleteRedirect"} -> HandleRedirect(c)
      [] c.op = "protect" -> SrvFailedProtect(c)
      [] c.op = "unknown" -> Same("ErrUnknownCmd")

-----------------------------------------------------------------------------
(* The same commands on plain rows.  A network that was taken out of a tree  *)
(* may have taken others with it or come back later; the trees where that    *)
(* can happen are worn, and nothing is claimed of them.                      *)

Rows(view, net, value) == [view |-> view, net |-> net, value |-> value]

Preferred(texts) == [i \in DOMAIN texts |-> PathOf(texts[i])]

NetOf(c) == PathOf(c.source).path

Dropped(rows, view, net) == {r \in rows : ~ (r.view = view /\ r.net = net)}

Inside(rows, view, net) == \E r \in rows : r.view = view /\ IsStrictPrefix(net, r.net)

Networked(rows, view, c, how, value) ==
    LET net == NetOf(c)
    IN  CASE how = "add" -> rows \cup {Rows(view, net, value)}
          [] how = "delete" -> Dropped(rows, view, net)
          [] how = "update" -> Dropped(rows, view, net) \cup {Rows(view, net, value)}

Wears(told, rows, view, c, how) ==
    [told EXCEPT !.worn = @ \cup (IF (how # "add" /\ Inside(rows, view, NetOf(c))) \/ (how = "add" /\ view \in told.gone)
                                  THEN {view} ELSE {}),
                 !.gone = @ \cup (IF how = "delete" THEN {view} ELSE {})]

LimitRow(told, c, how) ==
    [Wears(told, told.limits, "limits", c, how) EXCEPT
        !.limits = Networked(@, "limits", c, how, IF how = "delete" THEN 0 ELSE c.limit)]

SortRow(told, c, how) ==
    [Wears(told, told.sort, c.view, c, how) EXCEPT
        !.sort = Networked(@, c.view, c, how, IF how = "delete" THEN << >> ELSE Preferred(c.preferred))]

NameRow(rows, c, how) ==
    LET left == {r \in rows : ~ (r.view = c.view /\ r.name = c.text.name)}
        new == [view |-> c.view, name |-> c.text.name, zone |-> c.text.wild]
    IN  CASE how = "add" -> rows \cup {new} [] how = "delete" -> left [] how = "update" -> left \cup {new}

OnName(rows, view, name) == SelectSeq(rows, LAMBDA r : r.view = view /\ r.name = name)

(* A rule keeps the reach it was made with.                                  *)
LocalRow(rows, view, kind, data, adds) ==
    LET here == OnName(rows, view, data.text.name)
        zone == IF here = << >> THEN data.text.wild ELSE here[1].zone
        whole == here # << >> /\ here[1].kind # "redirect"
    IN  IF adds THEN Append(rows, [view |-> view, name |-> data.text.name, zone |-> zone, kind |-> kind,
                                   type |-> data.type, rdata |-> data.rdata])
        ELSE SelectSeq(rows, LAMBDA r : ~ (/\ r.view = view /\ r.name = data.text.name
                                           /\ whole \/ (kind = "redirect" /\ r.type = data.type /\ r.rdata = data.rdata)))

AclRow(ips, valid, invalid) == [nets |-> {PathOf(ips[i]).path : i \in DOMAIN ips}, valid |-> valid, invalid |-> invalid]

Told(told, c) ==
    CASE c.op \in {"addAcl", "setAcl"} -> [told EXCEPT !.acls = (c.name :> AclRow(c.ips, << >>, << >>)) @@ @]
      [] c.op \in {"removeAcl", "deleteAcl"} -> [told EXCEPT !.acls = [n \in DOMAIN @ \ {c.name} |-> @[n]]]
      [] c.op = "updateView" ->
             [told EXCEPT !.views = [i \in DOMAIN @ |-> IF @[i].name = ToLower(c.name) THEN [@[i] EXCEPT !.acls = c.acls] ELSE @[i]]]
      [] c.op = "addSort" -> SortRow(told, c, "add")
      [] c.op = "deleteSort" -> SortRow(told, c, "delete")
      [] c.op = "updateSort" -> SortRow(told, c, "update")
      [] c.op = "addLimit" -> LimitRow(told, c, "add")
      [] c.op = "deleteLimit" -> LimitRow(told, c, "delete")
      [] c.op = "updateLimit" -> LimitRow(told, c, "update")
      [] c.op = "addName" -> [told EXCEPT !.names = NameRow(@, c, "add")]
      [] c.op = "deleteName" -> [told EXCEPT !.names = NameRow(@, c, "delete")]
      [] c.op = "updateName" -> [told EXCEPT !.names = NameRow(@, c, "update")]
      [] c.op \in {"addLocal", "deleteLocal"} -> [told EXCEPT !.local = LocalRow(@, c.view, c.kind, c.data, c.op = "addLocal")]
      [] c.op \in {"addRedirect", "deleteRedirect"} ->
             [told EXCEPT !.hijack = LocalRow(@, c.view, "redirect", c.data, c.op = "addRedirect")]
      [] c.op = "protect" -> [told EXCEPT !.drop = c.enable]
      [] OTHER -> told

-----------------------------------------------------------------------------
(* A query, on its way through the chain: views, filter, sort list, hijack,  *)
(* resolver.  A response is its code, "none" when there is none, and the     *)
(* answers it holds; up is what the resolvers behind fakeauth bring.         *)

(* The response made for a signature is there before the resolvers run.      *)
Opened(err) == [rcode |-> IF err = "none" THEN "none" ELSE "NOERROR", answer |-> << >>]

Replied(was, reply) ==
    IF reply = Silent THEN was
    ELSE [rcode |-> reply[1].rcode, answer |-> (IF reply[1].keeps THEN was.answer ELSE << >>) \o reply[1].answer]

(* FakeAuth.Resolve.                                                         *)
Resolve(q, was, reply) == IF reply = Silent THEN (IF q.up.rcode = "none" THEN was ELSE q.up) ELSE Replied(was, reply)

realQueryName(q, resp) ==
    IF resp.rcode = "none" \/ resp.answer = << >> \/ Last(resp.answer).type # "CNAME" THEN q.name
    ELSE Last(resp.answer).target

Hijacks(resp) == resp.rcode \in {"none", "NXDOMAIN"}

(* The chain behind the filter, given how local data, the hijacked names and *)
(* the order of addresses are found.                                         *)
Respond(q, err, Local(_), Hijack(_), Ordered(_)) ==
    Bind(Resolve(q, Opened(err), Local(q.name)), LAMBDA mid :
    Bind(IF Hijacks(mid) THEN Replied(mid, Hijack(realQueryName(q, mid))) ELSE mid, LAMBDA out :
        [out EXCEPT !.answer = [i \in DOMAIN @ |-> Ordered(@[i])]]))

(* SFProtector.AllowResponse.                                                *)
AllowResponse(drop, resp) == drop => resp.rcode \notin {"none", "SERVFAIL"}

Sent(drop, d) == IF AllowResponse(drop, d.resp) THEN d ELSE [d EXCEPT !.resp = [rcode |-> "none", answer |-> << >>]]

(* RateLimit.AllowQuery: the client is counted even when its query is then   *)
(* refused for its name.                                                     *)
AllowQuery(q, view) ==
    Bind(isIpAllowed(qpConf.limits, qpConf.records, q.ip), LAMBDA a :
        IF ~ a.ok THEN [ok |-> FALSE, conf |-> [qpConf EXCEPT !.records = a.records]]
        ELSE Bind(IsNameAllowed(qpConf.names, view, q.name), LAMBDA b :
                 [ok |-> b.ok, conf |-> [qpConf EXCEPT !.records = a.records, !.names = b.trees]]))

Selected(q) == SelectView(qpConf.views, qpConf.acls, qpConf.keys, q.ip, q.tsig)

Got(q, sel) == Sent(qpConf.drop,
    [view |-> sel.view, err |-> sel.err,
     limit |-> SearchBest(qpConf.limits, q.ip),
     on |-> CountedOn(TreeOf(qpConf.names, sel.view), q.name),
     resp |-> Respond(q, sel.err, LAMBDA n : Consult(qpConf.local, sel.view, q.type, n).reply,
                      LAMBDA n : Consult(qpConf.hijack, sel.view, q.type, n).reply,
                      LAMBDA s : Sort(qpConf.sort, sel.view, q.ip, s))])

(* A policy without data on the way up ends the query.                       *)
Lost(q, view) ==
    \/ Consult(qpConf.local, view, q.type, q.name).panics
    \/ \E n \in {q.name} \cup {q.up.answer[i].target : i \in {j \in DOMAIN q.up.answer : q.up.answer[j].type = "CNAME"}} :
           Consult(qpConf.hijack, view, q.type, n).panics

-----------------------------------------------------------------------------
(* The same from the rows.  While views are being sorted, or where a tree is *)
(* worn, or when the query is lost, there is nothing to compare.             *)

Around(t, start, end, period) == (t - start) % period \in 1..(((end - start) % period) - 1)

InWindow(r, now) ==
    CASE Len(r.begin) = 2 -> Around(now, InDay(r.begin), InDay(r.end), Day)
      [] Len(r.begin) = 3 -> Around(now, Day * r.begin[1] + InDay(Tail(r.begin)), Day * r.end[1] + InDay(Tail(r.end)), Week)
      [] OTHER -> Around(now, InYear(r.begin), InYear(r.end), Year)

Open(row, at) ==
    LET In(rs) == \E i \in DOMAIN rs : InWindow(rs[i], at)
    IN  ~ In(row.invalid) /\ (row.valid = << >> \/ In(row.valid))

Holds(name, ip) ==
    \/ ToLower(name) = "any"
    \/ /\ ToLower(name) # "none" /\ name \in DOMAIN qpTold.acls
       /\ Open(qpTold.acls[name], qpChecked) /\ \E net \in qpTold.acls[name].nets : IsPrefix(net, ip)

WantedView(q) ==
    LET i == SelectInSeq(qpTold.views, LAMBDA v : \E j \in DOMAIN v.acls : Holds(v.acls[j], q.ip))
        k == TSIGKeyBasedView(qpConf.keys, q.tsig)
    IN  IF i # 0 THEN [view |-> qpTold.views[i].name, err |-> "none"]
        ELSE [view |-> IF k.view = "" THEN "default" ELSE k.view, err |-> k.err]

(* The value of the longest network around an address.                       *)
Closest(rows, view, addr) ==
    LET held == {r \in rows : r.view = view /\ IsPrefix(r.net, addr)}
    IN  {r.value : r \in {s \in held : \A o \in held : Len(o.net) <= Len(s.net)}}

(* The first of the preferred networks that is the longest around it.        *)
PreferredRank(prefer, addr) ==
    LET held == {i \in DOMAIN prefer : prefer[i].err = "nil" /\ IsPrefix(prefer[i].path, addr)}
    IN  IF held = {} THEN 65535
        ELSE Min({i \in held : \A j \in held : Len(prefer[j].path) <= Len(prefer[i].path)}) - 1

WantedOrder(q, view, rrset) ==
    LET lists == Closest(qpTold.sort, view, q.ip)
    IN  IF lists = {} \/ rrset.type \notin {"A", "AAAA"} THEN rrset
        ELSE [rrset EXCEPT !.rdatas = ByRank(@, LAMBDA a : PreferredRank(CHOOSE l \in lists : TRUE, a))]

WantedReply(rows, view, type, name) ==
    LET On(n) == OnName(rows, view, n)
        Given(n) == CASE On(n) = << >> -> Silent
                      [] On(n) # << >> /\ On(n)[1].kind = "nxdomain" -> NXDomainMessage
                      [] On(n) # << >> /\ On(n)[1].kind = "nodata" -> NXRRsetMessage
                      [] On(n) # << >> /\ On(n)[1].kind = "passthru" -> Silent
                      [] OTHER -> LET of == SelectSeq(On(n), LAMBDA r : r.type = type)
                                  IN  IF of = << >> THEN Silent
                                      ELSE Reply("NOERROR", <<[name |-> name, type |-> type, rdatas |-> [i \in DOMAIN of |-> of[i].rdata]]>>, TRUE)
        up == {k \in 0..(Len(name) - 1) : On(SubSeq(name, 1, k)) # << >> /\ On(SubSeq(name, 1, k))[1].zone /\ Given(SubSeq(name, 1, k)) # Silent}
    IN  IF On(name) # << >> THEN Given(name) ELSE IF up = {} THEN Silent ELSE Given(SubSeq(name, 1, Max(up)))

WantedRecord(view, name) ==
    LET mine == {r \in qpTold.names : r.view = view}
        over == {r \in mine : r.name = name \/ (r.zone /\ IsPrefix(r.name, name))}
    IN  IF over = {} THEN << >> ELSE <<(CHOOSE r \in over : \A o \in over : Len(o.name) <= Len(r.name)).name>>

Want(q, sel) == Sent(qpTold.drop,
    [view |-> sel.view, err |-> sel.err,
     limit |-> LET l == Closest(qpTold.limits, "limits", q.ip) IN IF l = {} THEN << >> ELSE <<CHOOSE x \in l : TRUE>>,
     on |-> WantedRecord(sel.view, q.name),
     resp |-> Respond(q, sel.err, LAMBDA n : WantedReply(qpTold.local, sel.view, q.type, n),
                      LAMBDA n : WantedReply(qpTold.hijack, sel.view, q.type, n),
                      LAMBDA s : WantedOrder(q, sel.view, s))])

Sorting == qpLink.run # << >> /\ qpLink.run[1].op.op = "sort"

Excused(q, view) == Sorting \/ "limits" \in qpTold.worn \/ view \in qpTold.worn \/ Lost(q, view)

-----------------------------------------------------------------------------
(* The state machine.                                                        *)

RowsOf(rules) ==
    FoldLeft(LAMBDA rows, x : LocalRow(rows, x.view, x.kind, x.data, TRUE), << >>, rules)

QpInit ==
    \E at \in DOMAIN QpConfigs : LET c == QpConfigs[at] IN
        /\ qpFrom = at
        /\ qpNow = c.now /\ qpChecked = c.now
        /\ qpConf = [acls |-> ReloadAcls(c, c.now), views |-> ReloadViews(c), keys |-> ReloadKeys(c),
                     sort |-> ReloadSorters(c), limits |-> ReloadIpLimits(c), records |-> << >>,
                     names |-> ReloadNameLimits(c), local |-> ReloadLocalData(c.local),
                     hijack |-> ReloadLocalData(c.hijack), drop |-> c.drop]
        /\ qpTold = [acls |-> [n \in DOMAIN c.acls |-> AclRow(c.acls[n].ips, c.acls[n].valid, c.acls[n].invalid)],
                     views |-> [i \in DOMAIN c.views |-> [name |-> c.views[i].name, acls |-> c.views[i].acls]],
                     sort |-> {Rows(c.sort[i].view, NetOf(c.sort[i]), Preferred(c.sort[i].preferred)) : i \in DOMAIN c.sort},
                     limits |-> {Rows("limits", NetOf(c.limits[i]), c.limits[i].limit) : i \in DOMAIN c.limits},
                     names |-> {[view |-> c.names[i].view, name |-> c.names[i].text.name, zone |-> c.names[i].text.wild] : i \in DOMAIN c.names},
                     local |-> RowsOf(c.local), hijack |-> RowsOf(c.hijack), worn |-> {}, gone |-> {}, drop |-> c.drop]
        /\ qpLink = [cmd |-> << >>, awaits |-> 0, queue |-> << >>, run |-> << >>, nth |-> 0, of |-> << >>]
        /\ qpLeft = [sends |-> c.sends, ticks |-> c.ticks]

EncodeTask(c, nth) == [c |-> c, nth |-> nth]

(* A command no handler registered does not decode.                          *)
DecodeTask(task) == IF task.c.op = "unknown" THEN <<Ends(task.c)>> ELSE Program(task.c)

(* HttpCmdProxy.HandleTask sends, sends again once when no answer came, and  *)
(* then gives up.  What was sent before may still arrive; the operator waits *)
(* for it before the next command (a bound).                                 *)
Send(c) ==
    /\ qpLink.awaits = 0 /\ qpLink.queue = << >> /\ qpLink.run = << >> /\ qpLeft.sends > 0
    /\ qpLink' = [qpLink EXCEPT !.cmd = <<c>>, !.awaits = 1, !.queue = Append(@, EncodeTask(c, 1))]
    /\ qpLeft' = [qpLeft EXCEPT !.sends = @ - 1]
    /\ UNCHANGED <<qpConf, qpTold, qpNow, qpChecked, qpFrom>>

Arrives(queue) == {queue} \cup {SelectSeq(queue, LAMBDA x : x.nth # 1)}

SendAgain ==
    /\ qpLink.awaits = 1
    /\ \E queue \in Arrives(qpLink.queue) :
           qpLink' = [qpLink EXCEPT !.awaits = 2, !.queue = Append(queue, EncodeTask(qpLink.cmd[1], 2))]
   
    /\ UNCHANGED <<qpConf, qpTold, qpNow, qpChecked, qpFrom, qpLeft>>

GiveUp ==
    /\ qpLink.awaits = 2
    /\ \E queue \in {qpLink.queue, << >>} : qpLink' = [qpLink EXCEPT !.awaits = 0, !.cmd = << >>, !.queue = queue]
   
    /\ UNCHANGED <<qpConf, qpTold, qpNow, qpChecked, qpFrom, qpLeft>>

(* cmdService.HandleTask runs one command at a time; a panic of the handler  *)
(* is an error like any other.                                               *)
DecodeTaskResult(link) ==
    IF link.awaits = link.nth THEN [link EXCEPT !.run = << >>, !.nth = 0, !.of = << >>, !.awaits = 0, !.cmd = << >>]
    ELSE [link EXCEPT !.run = << >>, !.nth = 0, !.of = << >>]

Finishes(link, err) == (err # "nil" /\ link.run[1].must) \/ Len(link.run) = 1

Continues(link, err) ==
    IF Finishes(link, err) THEN DecodeTaskResult(link) ELSE [link EXCEPT !.run = Tail(@)]

(* The command taken is kept with the rows of the moment.                    *)
Taken == IF qpLink.run # << >> THEN qpLink
         ELSE [qpLink EXCEPT !.run = DecodeTask(qpLink.queue[1]), !.nth = qpLink.queue[1].nth, !.queue = Tail(@),
                             !.of = <<[c |-> qpLink.queue[1].c, told |-> qpTold]>>]

(* The rows after a step: those of the whole command once its handler says   *)
(* that it succeeded, and those of the steps done before and after that.     *)
ToldBy(link, err) ==
    CASE Finishes(link, err) /\ (err = "nil" \/ ~ link.run[1].must) ->
             FoldLeft(LAMBDA told, step : Told(told, step.op), link.of[1].told, Program(link.of[1].c))
      [] err = "nil" /\ ~ Finishes(link, err) -> Told(qpTold, link.run[1].op)
      [] OTHER -> qpTold

HandleTask ==
    /\ ~ Sorting /\ (qpLink.run # << >> \/ qpLink.queue # << >>)
    /\ Bind(Taken, LAMBDA link : Bind(HandleCmd(link.run[1].op), LAMBDA r :
           /\ qpConf' = r.conf
           /\ qpTold' = ToldBy(link, r.err)
           /\ qpLink' = IF r.err = "sorting" THEN [link EXCEPT !.run = <<Ends([op |-> "sort", orders |-> link.run[1].op.orders])>>]
                        ELSE Continues(link, r.err)))
   
    /\ UNCHANGED <<qpNow, qpChecked, qpFrom, qpLeft>>

(* sort.Sort exchanges views in the sequence that queries read.              *)
Exchange ==
    /\ Sorting
    /\ \/ \E i \in Unsorted(qpConf.views) :
              qpConf' = [qpConf EXCEPT !.views = SwapAt(@, i)] /\ UNCHANGED <<qpTold, qpLink>>
       \/ /\ Unsorted(qpConf.views) = {}
          /\ qpTold' = [qpTold EXCEPT !.views = SortSeq(@, LAMBDA a, b :
                            Max({i \in DOMAIN qpLink.run[1].op.orders : qpLink.run[1].op.orders[i] = a.name})
                            < Max({i \in DOMAIN qpLink.run[1].op.orders : qpLink.run[1].op.orders[i] = b.name}))]
          /\ qpLink' = DecodeTaskResult(qpLink) /\ UNCHANGED qpConf
   
    /\ UNCHANGED <<qpNow, qpChecked, qpFrom, qpLeft>>

(* Half a minute passes.                                                     *)
Tick ==
    /\ qpLeft.ticks > 0
    /\ qpNow' = qpNow + 1 /\ qpLeft' = [qpLeft EXCEPT !.ticks = @ - 1]
    /\ UNCHANGED <<qpConf, qpTold, qpChecked, qpFrom, qpLink>>

(* AclScheduler.Run, when its ticker fires.                                  *)
Recheck ==
    /\ qpChecked # qpNow
    /\ qpChecked' = qpNow
    /\ qpConf' = [qpConf EXCEPT !.acls = [n \in DOMAIN @ |-> IF @[n].watched THEN [@[n] EXCEPT !.acl = CheckValid(@, qpNow)] ELSE @[n]]]
   
    /\ UNCHANGED <<qpTold, qpNow, qpFrom, qpLink, qpLeft>>

(* A second passes: the records of clients and names are over.               *)
Expire ==
    /\ qpConf' = [qpConf EXCEPT !.records = [i \in DOMAIN @ |-> [@[i] EXCEPT !.old = TRUE]],
                                !.names = [v \in DOMAIN @ |-> [n \in DOMAIN @[v] |->
                                    IF @[v][n] # << >> /\ @[v][n][1].begun THEN <<[@[v][n][1] EXCEPT !.old = TRUE]>> ELSE @[v][n]]]]
    /\ qpConf' # qpConf
    /\ UNCHANGED <<qpTold, qpNow, qpChecked, qpFrom, qpLink, qpLeft>>

(* A query goes through the chain; what it leaves behind is what it is       *)
(* counted on.                                                               *)
HandleQuery(q) ==
    /\ qpConf' = AllowQuery(q, Selected(q).view).conf
    /\ UNCHANGED <<qpTold, qpNow, qpChecked, qpFrom, qpLink, qpLeft>>

QpNext ==
    \/ \E c \in QpConfigs[qpFrom].commands : Send(c)
    \/ SendAgain \/ GiveUp \/ HandleTask \/ Exchange \/ Tick \/ Recheck \/ Expire
    \/ \E q \in QpConfigs[qpFrom].queries : HandleQuery(q)

QpSpec == QpInit /\ [][QpNext]_qpVars

(***************************************************************************)
(* Every query is decided as the configuration and the commands that       *)
(* succeeded ask for, each as a whole: the view is the first, in the order *)
(* last asked for, with an access list that holds the client now; the      *)
(* limits that count are those of the closest network and name; the answer *)
(* is the closest rule's, in the order of the client's sort list.          *)
(* Commands that run twice because an answer was lost and schedules that   *)
(* are checked late are included.  Updates are not all or nothing in the   *)
(* code: between its two halves, and for good once the second failed, an   *)
(* update of a list or a rule counts as the removal of the old one, and    *)
(* the property says that this is all it does.                             *)
(***************************************************************************)
QpDecides ==
    \A q \in QpConfigs[qpFrom].queries :
        Bind(Selected(q), LAMBDA sel : Excused(q, sel.view) \/ Got(q, sel) = Want(q, WantedView(q)))
=============================================================================
