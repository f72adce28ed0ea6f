---------------------------- MODULE AccessPolicy ----------------------------
(***************************************************************************)
(* What vanguard decides from the address of a client and from the name it *)
(* asks for.                                                               *)
(*                                                                         *)
(* Networks are kept with what was stored under them (cement/netradix): a  *)
(* binary trie of address bits, in which the longest network around an     *)
(* address is searched; IPv4 and IPv6 keys are in the same trie.  A node   *)
(* is the path of bits that leads to it, a trie the function from its      *)
(* nodes to their values, each << >> (nil) or a tuple of one.  Nodes that  *)
(* were cut off are kept for later use with the value they had.  A text is *)
(* a record: whether it has a dot, its octets or bits, and what follows    *)
(* the slash.                                                              *)
(*                                                                         *)
(* By address: which access lists include it (vanguard/acl), in which view *)
(* it is answered (vanguard/viewselector), how addresses in answers are    *)
(* ordered (responsetransfer/sortlist) and whether it asks too often       *)
(* (filter/ratelimit).  Time is counted in half minutes.  Days, weeks and  *)
(* years have the lengths the constants give them.  A time of a schedule   *)
(* is the sequence of its numbers: hour and minute, with the day of the    *)
(* week, or the month and the day, before them.                            *)
(*                                                                         *)
(* By name: the local data of a view (vanguard/localdata), which fakeauth  *)
(* answers from and hijack replaces denials with, and the limits names     *)
(* have (filter/ratelimit).  A name is the sequence of its labels, the     *)
(* last one first, so that the names around it are its prefixes.  A tree   *)
(* is what DomainTree builds, without its levels: a function from the      *)
(* names of its nodes to their data, << >> (nil) or a tuple of one.        *)
(***************************************************************************)
EXTENDS Integers, Sequences, FiniteSets, SequencesExt, FiniteSetsExt

CONSTANTS
    NrOctet,     \* bits of an octet (8)
    NrOctets,    \* octets of an IPv4 address (4)
    NrWidth6,    \* bits of an IPv6 address (128), more than of an IPv4 one
    ApHours,     \* hours of a day (24)
    ApMinutes,   \* minutes of an hour (60)
    ApWeek,      \* days of a week (7)
    ApMonths,    \* the days of each month
    ApMonthDays, \* the largest day of a month (31)
    ApLower,     \* the names that are not in lower case, in lower case
    ApRecords,   \* maxIPAccessRecordCount
    NmBad        \* the names that do not parse

NrWidth4 == NrOctet * NrOctets

NewTree == [at |-> (<< >> :> << >>), free |-> << >>]

Children(t, path) == {b \in {0, 1} : Append(path, b) \in DOMAIN t.at}

Took(t) == [tree |-> t, err |-> "nil"]

Refused(t, err) == [tree |-> t, err |-> err]

-----------------------------------------------------------------------------
(* newnode: the k-th node that is taken next still holds what it held.       *)
newnode(t, k) == IF k <= Len(t.free) THEN t.free[k] ELSE << >>

(* Insert32 and insert: the nodes below the last one that exists are made on *)
(* the way down.                                                             *)
Reached(t, path) == Max({n \in 0..Len(path) : SubSeq(path, 1, n) \in DOMAIN t.at})

Grown(t, path, value, have) ==
    [at |-> [p \in DOMAIN t.at \cup {SubSeq(path, 1, n) : n \in have..Len(path)} |->
                IF p = path THEN <<value>> ELSE IF p \in DOMAIN t.at THEN t.at[p] ELSE newnode(t, Len(p) - have)],
     free |-> SubSeq(t.free, Len(path) - have + 1, Len(t.free))]

InsertPath(t, path, value) ==
    IF path \in DOMAIN t.at
    THEN IF t.at[path] # << >> THEN Refused(t, "ErrNodeBusy") ELSE Took([t EXCEPT !.at[path] = <<value>>])
    ELSE Took(Grown(t, path, value, Reached(t, path)))

(* delete32 and delete, which alone clears the value of a node it cuts off.  *)
(* A node with one child is cut off with all that is below it, and so are    *)
(* the bare nodes above.                                                     *)
Bare(t, path) == t.at[path] = << >> /\ Cardinality(Children(t, path)) = 1

CutFrom(t, path) ==
    Min({n \in 1..Len(path) : \A m \in n..(Len(path) - 1) : Bare(t, SubSeq(path, 1, m))})

Cut(t, path, clears, from) ==
    [at |-> [p \in {q \in DOMAIN t.at : ~ IsPrefix(SubSeq(path, 1, from), q)} |-> t.at[p]],
     free |-> [i \in 1..(Len(path) - from + 1) |->
                  IF i <= Len(path) - from \/ clears THEN << >> ELSE t.at[path]] \o t.free]

DeletePath(t, path, clears) ==
    CASE path \notin DOMAIN t.at -> Refused(t, "ErrNotFound")
      [] path \in DOMAIN t.at /\ Children(t, path) = {0, 1} ->
             IF t.at[path] = << >> THEN Refused(t, "ErrNotFound") ELSE Took([t EXCEPT !.at[path] = << >>])
      [] path \in DOMAIN t.at /\ Children(t, path) # {0, 1} /\ path = << >> -> Refused(t, "panic")
      [] OTHER -> Took(Cut(t, path, clears, CutFrom(t, path)))

(* Find32: the last value on the way down.                                   *)
Valued(t, key) == {n \in 0..Len(key) : SubSeq(key, 1, n) \in DOMAIN t.at /\ t.at[SubSeq(key, 1, n)] # << >>}

Find32(t, key) == IF Valued(t, key) = {} THEN << >> ELSE t.at[SubSeq(key, 1, Max(Valued(t, key)))]

(* find: a node at the full depth is taken for the one that was stored.      *)
find(t, key) == IF key \in DOMAIN t.at THEN t.at[key] ELSE Find32(t, key)

-----------------------------------------------------------------------------
(* The bits of an octet, the most significant first.                         *)
OctetBits(o) == [i \in 1..NrOctet |-> (o \div 2^(NrOctet - i)) % 2]

Parsed(path) == [path |-> path, err |-> "nil"]

BadIP == [path |-> << >>, err |-> "ErrBadIP"]

loadip4(text) ==
    IF Len(text.octs) # NrOctets \/ \E i \in DOMAIN text.octs : text.octs[i] >= 2^NrOctet THEN BadIP
    ELSE Parsed(FlattenSeq([i \in DOMAIN text.octs |-> OctetBits(text.octs[i])]))

(* A mask longer than an address is shifted out and becomes 0.               *)
MaskLength(mask) == IF mask = << >> THEN NrWidth4 ELSE IF mask[1] > NrWidth4 THEN 0 ELSE mask[1]

parsecidr4(text) ==
    IF loadip4(text).err # "nil" THEN BadIP ELSE Parsed(SubSeq(loadip4(text).path, 1, MaskLength(text.mask)))

(* net.ParseCIDR and net.ParseIP.                                            *)
parsecidr6(text) ==
    IF Len(text.bits) # NrWidth6 \/ (text.mask # << >> /\ text.mask[1] > NrWidth6) THEN BadIP
    ELSE Parsed(SubSeq(text.bits, 1, IF text.mask = << >> THEN NrWidth6 ELSE text.mask[1]))

PathOf(text) == IF text.dot THEN parsecidr4(text) ELSE parsecidr6(text)

AddCIDR(t, text, value) ==
    IF PathOf(text).err # "nil" THEN Refused(t, "ErrBadIP") ELSE InsertPath(t, PathOf(text).path, value)

DeleteCIDR(t, text) ==
    IF PathOf(text).err # "nil" THEN Refused(t, "ErrBadIP") ELSE DeletePath(t, PathOf(text).path, ~ text.dot)

(* The address of a client or of a record is its bits.                       *)
SearchBest(t, addr) == IF Len(addr) = NrWidth4 THEN Find32(t, addr) ELSE find(t, addr)

-----------------------------------------------------------------------------
(* Names and times of the configuration.                                     *)

ToLower(name) == IF name \in DOMAIN ApLower THEN ApLower[name] ELSE name

Bind(x, op(_)) == op(x)

-----------------------------------------------------------------------------
(* Schedules.                                                                *)

Day == 2 * ApMinutes * ApHours

Week == Day * ApWeek

DaysBefore(month) == FoldLeft(LAMBDA a, b : a + b, 0, SubSeq(ApMonths, 1, month - 1))

Year == Day * DaysBefore(Len(ApMonths) + 1)

hourMinFromString(hm) == hm[1] \in 0..(ApHours - 1) /\ hm[2] \in 0..(ApMinutes - 1)

weekDayFromString(d) == d \in 0..(ApWeek - 1)

dayFromString(d) == d \in 1..ApMonthDays

monthFromString(m) == m \in 1..Len(ApMonths)

InDay(hm) == 2 * (ApMinutes * hm[1] + hm[2])

(* Two numbers are not in order.                                             *)
Before(a, b) == a[1] < b[1] \/ (a[1] = b[1] /\ a[2] < b[2])

newPeriodicInHour(from, to) ==
    hourMinFromString(from) /\ hourMinFromString(to) /\ ~ (from[1] = to[1] /\ from[2] > to[2])

newPeriodicInWeekDay(from, to) ==
    /\ hourMinFromString(Tail(from)) /\ hourMinFromString(Tail(to))
    /\ weekDayFromString(from[1]) /\ weekDayFromString(to[1])
    /\ ~ (from[1] = to[1] /\ Before(Tail(to), Tail(from)))

(* time.Date: a day past the end of its month is a day of the next.          *)
InYear(d) == Day * (DaysBefore(d[1]) + d[2] - 1) + InDay(<<d[3], d[4]>>)

newPeriodicInDate(from, to) ==
    /\ monthFromString(from[1]) /\ monthFromString(to[1])
    /\ hourMinFromString(<<from[3], from[4]>>) /\ hourMinFromString(<<to[3], to[4]>>)
    /\ dayFromString(from[2]) /\ dayFromString(to[2])
    /\ ~ (from[1] <= to[1] /\ InYear(to) < InYear(from))

rangeBuilder(r) ==
    /\ Len(r.begin) = Len(r.end)
    /\ CASE Len(r.begin) = 2 -> newPeriodicInHour(r.begin, r.end)
         [] Len(r.begin) = 3 -> newPeriodicInWeekDay(r.begin, r.end)
         [] Len(r.begin) = 4 -> newPeriodicInDate(r.begin, r.end)
         [] OTHER -> FALSE

newSchedule(ranges) == \A i \in DOMAIN ranges : rangeBuilder(ranges[i])

Within(t, start, end, expand) == IF expand THEN t > start \/ t < end ELSE t > start /\ t < end

HourIncludes(r, now) == Within(now % Day, InDay(r.begin), InDay(r.end), r.begin[1] > r.end[1])

(* The start and the end are moved from today to their days of this week.    *)
WeekDayIncludes(r, now) ==
    LET today == (now % Week) \div Day
    IN  Within(now % Day, InDay(Tail(r.begin)) + (r.begin[1] - today) * Day,
               InDay(Tail(r.end)) + (r.end[1] - today) * Day, r.begin[1] > r.end[1])

DateIncludes(r, now) == Within(now % Year, InYear(r.begin), InYear(r.end), r.begin[1] > r.end[1])

IncludeTime(ranges, now) ==
    \E i \in DOMAIN ranges :
        CASE Len(ranges[i].begin) = 2 -> HourIncludes(ranges[i], now)
          [] Len(ranges[i].begin) = 3 -> WeekDayIncludes(ranges[i], now)
          [] OTHER -> DateIncludes(ranges[i], now)

-----------------------------------------------------------------------------
(* Access lists.                                                             *)

CheckValid(acl, now) ==
    IF acl.valid = << >> /\ acl.invalid = << >> THEN acl
    ELSE [acl EXCEPT !.effect = ~ IncludeTime(acl.invalid, now) /\ (acl.valid = << >> \/ IncludeTime(acl.valid, now))]

AddAll(t, texts) == FoldLeft(LAMBDA r, x : IF r.err # "nil" THEN r ELSE AddCIDR(r.tree, x, TRUE), Took(t), texts)

NewAcl(ips, valid, invalid, now) ==
    Bind(AddAll(NewTree, ips), LAMBDA r :
        IF r.err # "nil" \/ ~ newSchedule(valid) \/ ~ newSchedule(invalid) THEN << >>
        ELSE <<CheckValid([nets |-> r.tree, valid |-> valid, invalid |-> invalid, effect |-> TRUE], now)>>)

Include(acl, ip) == acl.effect /\ SearchBest(acl.nets, ip) # << >>

isReadOnly(name) == ToLower(name) \in {"any", "none", "all"}

checkNameValid(name) ==
    IF ToLower(name) = "acl" THEN "ErrBadAclName" ELSE IF isReadOnly(name) THEN "ErrAnyNonAcl" ELSE "nil"

(* AclManager.Find.                                                          *)
FindAcl(acls, name, ip) ==
    CASE ToLower(name) = "any" -> TRUE
      [] ToLower(name) = "none" -> FALSE
      [] ToLower(name) \notin {"any", "none"} -> name \in DOMAIN acls /\ Include(acls[name].acl, ip)

-----------------------------------------------------------------------------
(* Views: a sequence in the order of their priorities.                       *)

AddrBasedView(views, acls, ip) ==
    SelectInSeq(views, LAMBDA v : \E i \in DOMAIN v.acls : FindAcl(acls, v.acls[i], ip))

updateView(views, name, acls) ==
    LET i == SelectInSeq(views, LAMBDA v : v.name = ToLower(name))
    IN  IF i = 0 THEN views ELSE [views EXCEPT ![i].acls = acls]

(* The priorities are written one by one, up to a view that has none.        *)
Prioritized(views, orders) ==
    LET first == SelectInSeq(views, LAMBDA v : v.name \notin ToSet(orders))
        until == IF first = 0 THEN Len(views) ELSE first
    IN  [i \in DOMAIN views |->
            IF i > until THEN views[i]
            ELSE [views[i] EXCEPT !.priority =
                     Max({k - 1 : k \in {j \in DOMAIN orders : orders[j] = views[i].name}} \cup {0})]]

Unknown(views, orders) == \E i \in DOMAIN views : views[i].name \notin ToSet(orders)

(* The places sort.Sort exchanges next, in place and with no lock held.      *)
Unsorted(views) == {i \in 1..(Len(views) - 1) : views[i].priority > views[i + 1].priority}

SwapAt(views, i) == [views EXCEPT ![i] = views[i + 1], ![i + 1] = views[i]]

(* TSIGKeyBasedView: keys of views; a signature that is not accepted ends    *)
(* the selection with no view and an error in the answer.                    *)
TSIGKeyBasedView(keys, tsig) ==
    CASE tsig = << >> -> [view |-> "", found |-> FALSE, err |-> "none"]
      [] tsig # << >> /\ (tsig[1].key \notin DOMAIN keys \/ keys[tsig[1].key].algorithm # tsig[1].algorithm) ->
             [view |-> "", found |-> TRUE, err |-> "R_BADKEY"]
      [] tsig # << >> /\ tsig[1].key \in DOMAIN keys /\ keys[tsig[1].key].algorithm = tsig[1].algorithm ->
             IF tsig[1].good THEN [view |-> keys[tsig[1].key].view, found |-> TRUE, err |-> "signed"]
             ELSE [view |-> "", found |-> TRUE, err |-> "R_BADSIG"]

(* SelectView: the selectors in turn, the first that knows ends it.          *)
SelectView(views, acls, keys, ip, tsig) ==
    Bind(AddrBasedView(views, acls, ip), LAMBDA i :
        IF i # 0 THEN [view |-> views[i].name, err |-> "none"]
        ELSE Bind(TSIGKeyBasedView(keys, tsig), LAMBDA k : [view |-> IF k.view = "" THEN "default" ELSE k.view, err |-> k.err]))

-----------------------------------------------------------------------------
(* Sort lists: view, then the network of the client, then the order of the   *)
(* networks of the addresses in the answer.                                  *)

newOrderTree(texts) ==
    FoldLeft(LAMBDA t, i : AddCIDR(t, texts[i], i - 1).tree, NewTree, [i \in DOMAIN texts |-> i])

addSorter(lists, view, source, preferred) ==
    LET r == AddCIDR(IF view \in DOMAIN lists THEN lists[view] ELSE NewTree, source, newOrderTree(preferred))
    IN  [tree |-> (view :> r.tree) @@ lists, err |-> r.err]

deleteSorter(lists, view, source) ==
    IF view \notin DOMAIN lists THEN Refused(lists, "ErrUnknownSortlist")
    ELSE LET r == DeleteCIDR(lists[view], source) IN [tree |-> [lists EXCEPT ![view] = r.tree], err |-> r.err]

updateSorter(lists, view, source, preferred) ==
    Bind(deleteSorter(lists, view, source), LAMBDA r :
        IF r.err # "nil" THEN r ELSE addSorter(r.tree, view, source, preferred))

Rank(order, addr) == IF SearchBest(order, addr) = << >> THEN 65535 ELSE SearchBest(order, addr)[1]

(* The order sort.Sort leaves: by rank, and as they were where these agree.  *)
ByRank(addrs, rank(_)) ==
    LET Less(i, j) == rank(addrs[i]) < rank(addrs[j]) \/ (rank(addrs[i]) = rank(addrs[j]) /\ i < j)
    IN  [k \in DOMAIN addrs |->
            addrs[CHOOSE i \in DOMAIN addrs : Cardinality({j \in DOMAIN addrs : Less(j, i)}) = k - 1]]

Sort(lists, view, ip, rrset) ==
    IF Len(rrset.rdatas) < 2 \/ rrset.type \notin {"A", "AAAA"} \/ view \notin DOMAIN lists THEN rrset
    ELSE Bind(SearchBest(lists[view], ip), LAMBDA order :
             IF order = << >> THEN rrset
             ELSE [rrset EXCEPT !.rdatas = ByRank(@, LAMBDA a : Rank(order[1], a))])

-----------------------------------------------------------------------------
(* Limits for clients: a network has a limit, and the clients seen last have *)
(* a record each, the latest first.                                          *)

(* net.ParseCIDR.                                                            *)
IsCIDR(text) ==
    PathOf(text).err = "nil" /\ text.mask # << >> /\ (text.dot => text.mask[1] <= NrWidth4)

addIpRateLimit(t, text, limit) ==
    IF ~ IsCIDR(text) THEN Refused(t, "ErrInvalidNetwork") ELSE AddCIDR(t, text, limit)

deleteIpRateLimit(t, text) == DeleteCIDR(t, text)

updateIpRateLimit(t, text, limit) ==
    IF ~ IsCIDR(text) THEN Refused(t, "ErrInvalidNetwork")
    ELSE Bind(DeleteCIDR(t, text), LAMBDA r : IF r.err # "nil" THEN r ELSE AddCIDR(r.tree, text, limit))

getElem(records, ip) == SelectInSeq(records, LAMBDA r : r.ip = ip)

MoveToFront(records, i) == <<records[i]>> \o SubSeq(records, 1, i - 1) \o SubSeq(records, i + 1, Len(records))

removeOldest(records) == IF ApRecords # 0 /\ Len(records) > ApRecords THEN Front(records) ELSE records

AddRecord(records, ip) == removeOldest(<<[ip |-> ip, token |-> 1, old |-> FALSE]>> \o records)

(* IsAccessAllowed, of a record that was found and moved to the front.       *)
IsAccessAllowed(records, limit) ==
    LET r == records[1]
    IN  CASE r.old -> [ok |-> TRUE, records |-> [records EXCEPT ![1] = [r EXCEPT !.token = 1, !.old = FALSE]]]
          [] ~ r.old /\ r.token + 1 > limit -> [ok |-> FALSE, records |-> records]
          [] ~ r.old /\ r.token + 1 <= limit -> [ok |-> TRUE, records |-> [records EXCEPT ![1].token = @ + 1]]

isIpAllowed(networks, records, ip) ==
    Bind(SearchBest(networks, ip), LAMBDA limit :
        CASE limit = << >> -> [ok |-> TRUE, records |-> records]
          [] limit # << >> /\ getElem(records, ip) = 0 -> [ok |-> TRUE, records |-> AddRecord(records, ip)]
          [] OTHER -> IsAccessAllowed(MoveToFront(records, getElem(records, ip)), limit[1]))

-----------------------------------------------------------------------------
(* Trees of names.                                                           *)

EmptyTree == [n \in {} |-> << >>]

Common(a, b) == CHOOSE p \in {SubSeq(a, 1, n) : n \in 0..Len(a)} :
                    IsPrefix(p, b) /\ \A q \in {SubSeq(a, 1, n) : n \in 0..Len(a)} : IsPrefix(q, b) => Len(q) <= Len(p)

(* Nodes that part two names are made with no data.                          *)
InsertName(t, name, data) ==
    [n \in DOMAIN t \cup {name} \cup {Common(name, m) : m \in DOMAIN t} |->
        IF n = name THEN <<data>> ELSE IF n \in DOMAIN t THEN t[n] ELSE << >>]

Under(t, name) == {n \in DOMAIN t : IsStrictPrefix(name, n)}

DeleteName(t, name) ==
    LET Idle(n) == IsStrictPrefix(n, name) /\ t[n] = << >> /\ \A m \in Under(t, n) : IsPrefix(m, name)
    IN  CASE name \notin DOMAIN t -> t
          [] name \in DOMAIN t /\ Under(t, name) # {} -> [t EXCEPT ![name] = << >>]
          [] OTHER -> [n \in {m \in DOMAIN t : m # name /\ ~ Idle(m)} |-> t[n]]

(* SearchParents: the node of the name, or the nodes around it from the      *)
(* lowest with data.                                                         *)
IsExact(t, name) == name \in DOMAIN t /\ t[name] # << >>

Enclosing(t, name) ==
    LET around == {n \in DOMAIN t : IsPrefix(n, name)}
        lowest == {Len(n) : n \in {m \in around : t[m] # << >>}}
    IN  IF lowest = {} THEN << >>
        ELSE SetToSortSeq({n \in around : Len(n) <= Max(lowest)}, LAMBDA a, b : Len(a) > Len(b))

-----------------------------------------------------------------------------
(* Local policies.                                                           *)

NameStripFirstWildcard(text) == [zone |-> text.wild, name |-> text.name, ok |-> text.name \notin NmBad]

newLocalRRset(data) == IF data.rdata = << >> THEN << >> ELSE <<[type |-> data.type, rdatas |-> <<data.rdata>>]>>

(* A redirect has fields of its own; those that do not parse are refused.    *)
BuildLocalPolicy(kind, data) ==
    LET base == NameStripFirstWildcard(data.text)
    IN  [ok |-> base.ok /\ (kind = "redirect" => newLocalRRset(data) # << >>),
         name |-> base.name, zone |-> base.zone, kind |-> kind,
         rrsets |-> IF kind = "redirect" THEN newLocalRRset(data) ELSE << >>]

Rule(p) == [zone |-> p.zone, kind |-> p.kind, rrsets |-> p.rrsets]

IsZoneMatch(rule) == rule.zone

Silent == << >>

Reply(rcode, answer, keeps) == <<[rcode |-> rcode, answer |-> answer, keeps |-> keeps]>>

NXDomainMessage == Reply("NXDOMAIN", << >>, FALSE)

NXRRsetMessage == Reply("NOERROR", << >>, FALSE)

ExceptionMessage == Silent

(* The answer goes behind those the response holds already.                  *)
LocalRRsetMessage(rule, type, name) ==
    LET i == SelectInSeq(rule.rrsets, LAMBDA s : s.type = type)
    IN  IF i = 0 THEN Silent
        ELSE Reply("NOERROR", <<[name |-> name, type |-> type, rdatas |-> rule.rrsets[i].rdatas]>>, TRUE)

GetMessage(rule, type, name) ==
    CASE rule.kind = "nxdomain" -> NXDomainMessage
      [] rule.kind = "nodata" -> NXRRsetMessage
      [] rule.kind = "passthru" -> ExceptionMessage
      [] rule.kind = "redirect" -> LocalRRsetMessage(rule, type, name)

(* RRset.AddRdata refuses what is there.                                     *)
addRRset(rrsets, new) ==
    LET i == SelectInSeq(rrsets, LAMBDA s : s.type = new.type)
    IN  CASE i = 0 -> [rrsets |-> Append(rrsets, new), ok |-> TRUE]
          [] i # 0 /\ new.rdatas[1] \in ToSet(rrsets[i].rdatas) -> [rrsets |-> rrsets, ok |-> FALSE]
          [] OTHER -> [rrsets |-> [rrsets EXCEPT ![i].rdatas = @ \o new.rdatas], ok |-> TRUE]

deleteRRset(rrsets, old) ==
    LET i == SelectInSeq(rrsets, LAMBDA s : s.type = old.type)
        left == SelectSeq(rrsets[i].rdatas, LAMBDA d : d \notin ToSet(old.rdatas))
    IN  CASE i = 0 -> rrsets
          [] i # 0 /\ left = << >> -> RemoveAt(rrsets, i)
          [] OTHER -> [rrsets EXCEPT ![i].rdatas = left]

Done(t) == [tree |-> t, err |-> "nil"]

addPolicy(t, p) ==
    LET old == t[p.name][1]
        sum == addRRset(old.rrsets, p.rrsets[1])
    IN  CASE ~ IsExact(t, p.name) -> Done(InsertName(t, p.name, Rule(p)))
          [] IsExact(t, p.name) /\ (old.kind # "redirect" \/ p.kind # "redirect") ->
                 [tree |-> t, err |-> "ErrDuplicatePolicy"]
          [] OTHER -> [tree |-> [t EXCEPT ![p.name] = <<[old EXCEPT !.rrsets = sum.rrsets]>>],
                       err |-> IF sum.ok THEN "nil" ELSE "ErrDuplicatePolicy"]

removePolicy(t, p) ==
    LET old == t[p.name][1]
        left == deleteRRset(old.rrsets, p.rrsets[1])
    IN  CASE ~ IsExact(t, p.name) -> Done(t)
          [] IsExact(t, p.name) /\ old.kind # "redirect" -> Done(DeleteName(t, p.name))
          [] IsExact(t, p.name) /\ old.kind = "redirect" /\ p.kind # "redirect" -> Done(t)
          [] OTHER -> IF left = << >> THEN Done(DeleteName(t, p.name))
                      ELSE Done([t EXCEPT ![p.name] = <<[old EXCEPT !.rrsets = left]>>])

TreeOf(trees, view) == IF view \in DOMAIN trees THEN trees[view] ELSE EmptyTree

(* The tree of a view is made before the policy is tried.                    *)
AddPolicies(trees, view, kind, data) ==
    LET p == BuildLocalPolicy(kind, data)
        r == addPolicy(TreeOf(trees, view), p)
    IN  IF ~ p.ok THEN [trees |-> trees, err |-> "ErrInvalidPolicy"]
        ELSE [trees |-> (view :> r.tree) @@ trees, err |-> r.err]

RemovePolicies(trees, view, kind, data) ==
    LET p == BuildLocalPolicy(kind, data)
    IN  CASE ~ p.ok -> [trees |-> trees, err |-> "ErrInvalidPolicy"]
          [] p.ok /\ view \notin DOMAIN trees -> [trees |-> trees, err |-> "ErrUnknownView"]
          [] OTHER -> [trees |-> [trees EXCEPT ![view] = removePolicy(@, p).tree], err |-> "nil"]

(* ResponseWithLocalData.  Going up, a node with no data is taken for a      *)
(* policy, which panics.                                                     *)
Consult(trees, view, type, name) ==
    LET t == TreeOf(trees, view)
        up == Enclosing(t, name)
        ends == {i \in DOMAIN up : t[up[i]] = << >> \/
                    (IsZoneMatch(t[up[i]][1]) /\ GetMessage(t[up[i]][1], type, name) # Silent)}
    IN  CASE IsExact(t, name) -> [panics |-> FALSE, reply |-> GetMessage(t[name][1], type, name)]
          [] ~ IsExact(t, name) /\ ends = {} -> [panics |-> FALSE, reply |-> Silent]
          [] OTHER -> IF t[up[Min(ends)]] = << >> THEN [panics |-> TRUE, reply |-> Silent]
                      ELSE [panics |-> FALSE, reply |-> GetMessage(t[up[Min(ends)]][1], type, name)]

-----------------------------------------------------------------------------
(* Limits for names.                                                         *)

parseName(text) == NameStripFirstWildcard(text)

newNameAccessRecord(zone, limit) == [zone |-> zone, limit |-> limit, token |-> 0, begun |-> FALSE, old |-> FALSE]

(* Insert refuses a node that holds data.                                    *)
doAddNameRateLimit(t, text, limit) ==
    LET n == parseName(text)
    IN  CASE ~ n.ok -> [tree |-> t, err |-> "ErrInvalidName"]
          [] n.ok /\ IsExact(t, n.name) -> [tree |-> t, err |-> "ErrAddNameRateLimitFailed"]
          [] OTHER -> Done(InsertName(t, n.name, newNameAccessRecord(n.zone, limit)))

addNameRateLimit(trees, view, text, limit) ==
    LET r == doAddNameRateLimit(TreeOf(trees, view), text, limit)
    IN  [trees |-> (view :> r.tree) @@ trees, err |-> r.err]

deleteNameRateLimit(trees, view, text) ==
    CASE ~ parseName(text).ok -> [trees |-> trees, err |-> "ErrInvalidName"]
      [] parseName(text).ok /\ view \notin DOMAIN trees -> [trees |-> trees, err |-> "ErrUnknownView"]
      [] OTHER -> [trees |-> [trees EXCEPT ![view] = DeleteName(@, text.name)], err |-> "nil"]

updateNameRateLimit(trees, view, text, limit) ==
    CASE ~ parseName(text).ok -> [trees |-> trees, err |-> "ErrInvalidName"]
      [] parseName(text).ok /\ view \notin DOMAIN trees -> [trees |-> trees, err |-> "ErrUnknownView"]
      [] OTHER -> [trees |-> [trees EXCEPT ![view] = InsertName(DeleteName(@, text.name), text.name,
                                                                newNameAccessRecord(text.wild, limit))],
                   err |-> "nil"]

(* The name whose record a query is counted on.                              *)
CountedOn(t, name) ==
    LET up == Enclosing(t, name)
        zones == {i \in DOMAIN up : t[up[i]] # << >> /\ t[up[i]][1].zone}
    IN  CASE IsExact(t, name) -> <<name>>
          [] ~ IsExact(t, name) /\ zones # {} -> <<up[Min(zones)]>>
          [] OTHER -> << >>

(* NameAccessRecord.IsAccessAllowed: the second begins with the first query. *)
NameAccessAllowed(r) ==
    CASE r.old -> [ok |-> TRUE, rec |-> [r EXCEPT !.token = 1, !.old = FALSE]]
      [] ~ r.old /\ r.token + 1 > r.limit -> [ok |-> FALSE, rec |-> [r EXCEPT !.begun = TRUE]]
      [] ~ r.old /\ r.token + 1 <= r.limit -> [ok |-> TRUE, rec |-> [r EXCEPT !.token = @ + 1, !.begun = TRUE]]

IsNameAllowed(trees, view, name) ==
    LET t == TreeOf(trees, view)
        on == CountedOn(t, name)
        got == NameAccessAllowed(t[on[1]][1])
    IN  IF on = << >> THEN [ok |-> TRUE, trees |-> trees]
        ELSE [ok |-> got.ok, trees |-> [trees EXCEPT ![view][on[1]] = <<got.rec>>]]
=============================================================================
