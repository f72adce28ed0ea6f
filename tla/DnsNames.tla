------------------------------ MODULE DnsNames ------------------------------
(***************************************************************************)
(* Domain names (g53/name.go): their text, their order and the ways to     *)
(* take them apart.                                                        *)
(*                                                                         *)
(* A name is the sequence of its labels without the empty one of the root, *)
(* a label is a sequence of octets, a text a sequence of characters given  *)
(* by their codes.  The Go type also keeps the place of every label in the *)
(* octets of the name; here that is the index of the label.                *)
(***************************************************************************)
EXTENDS Integers, Sequences, SequencesExt, FiniteSetsExt

CONSTANTS
  DnTexts,   \* set of texts a caller hands over
  DnNames    \* set of names, as they are read from the wire

VARIABLES
  dnText,    \* the text being read
  dnParse,   \* the parser
  dnWant     \* the name the text was made from, if it was: a sequence of at most one

dnVars == <<dnText, dnParse, dnWant>>

MAX_WIRE == 255
MAX_LABELS == 128
MAX_LABEL_LEN == 63

maptolower(c) == IF c \in 65..90 THEN c + 32 ELSE c
DownLabel(l) == [j \in DOMAIN l |-> maptolower(l[j])]
Downcase(n) == [i \in DOMAIN n |-> DownLabel(n[i])]

(* The octets of labels, each after its length; a name ends with a 0. *)
Raw(ls) == FlattenSeq([i \in DOMAIN ls |-> <<Len(ls[i])>> \o ls[i]])
NameLength(n) == Len(Raw(n)) + 1
LabelCount(n) == Len(n) + 1
IsRoot(n) == LabelCount(n) = 1

-----------------------------------------------------------------------------
(* stringParse.  p.labels are the finished labels, p.label the one being   *)
(* read, p.len the octets of both, with their length octets.               *)
DOT == 46
BACKSLASH == 92
AT == 64
BRACKET == 91
isDigit(c) == c \in 48..57

ParseBegin == [st |-> "init", labels |-> <<>>, label |-> <<>>, len |-> 0,
               digits |-> 0, value |-> 0, done |-> FALSE, err |-> FALSE, pos |-> 0]
AddOctet(p, c) ==
  IF Len(p.label) + 1 > MAX_LABEL_LEN THEN [p EXCEPT !.err = TRUE]
  ELSE [p EXCEPT !.label = Append(@, maptolower(c)), !.len = @ + 1, !.st = "ordinary"]

ftOrdinary(p, c, last) ==
  IF c = DOT
  THEN IF p.label = <<>> THEN [p EXCEPT !.err = TRUE]
       ELSE [p EXCEPT !.labels = Append(@, p.label), !.label = <<>>, !.st = "start", !.done = last]
  ELSE IF c = BACKSLASH THEN [p EXCEPT !.st = "escape"] ELSE AddOctet(p, c)

ftStart(p, c, last) ==
  IF c = BACKSLASH THEN [p EXCEPT !.len = @ + 1, !.st = "initialescape"]
  ELSE ftOrdinary([p EXCEPT !.len = @ + 1, !.st = "ordinary"], c, last)

ftInit(p, c, last) ==
  IF c = DOT /\ ~last THEN [p EXCEPT !.err = TRUE]
  ELSE IF c = DOT \/ (c = AT /\ last) THEN [p EXCEPT !.done = TRUE]
  ELSE ftStart(p, c, last)

ftEscdecimal(p, c) ==
  IF ~isDigit(c) THEN [p EXCEPT !.err = TRUE]
  ELSE IF p.digits < 2 THEN [p EXCEPT !.st = "escdecimal", !.digits = @ + 1, !.value = @ * 10 + (c - 48)]
  ELSE IF p.value * 10 + (c - 48) > 255 THEN [p EXCEPT !.err = TRUE]
  ELSE AddOctet(p, p.value * 10 + (c - 48))

ftEscape(p, c) ==
  IF ~isDigit(c) THEN AddOctet(p, c) ELSE ftEscdecimal([p EXCEPT !.digits = 0, !.value = 0], c)

ftInitialescape(p, c) == IF c = BRACKET THEN [p EXCEPT !.err = TRUE] ELSE ftEscape(p, c)

ParseChar(p, c, last) ==
  [CASE p.st = "init" -> ftInit(p, c, last)
     [] p.st = "start" -> ftStart(p, c, last)
     [] p.st = "ordinary" -> ftOrdinary(p, c, last)
     [] p.st = "initialescape" -> ftInitialescape(p, c)
     [] p.st = "escape" -> ftEscape(p, c)
     [] p.st = "escdecimal" -> ftEscdecimal(p, c) EXCEPT !.pos = p.pos + 1]

(* The loop ends early when the name is full. *)
Reading(p, s) == p.pos < Len(s) /\ p.len < MAX_WIRE /\ ~p.done /\ ~p.err

Panicked == [res |-> "panic"]
NoName == [res |-> "error"]
ParseEnd(p, s) ==
  IF p.err THEN NoName
  ELSE IF p.done THEN [res |-> "ok", name |-> p.labels]
  ELSE IF p.len = MAX_WIRE THEN NoName
  ELSE IF p.pos # Len(s) THEN Panicked
  ELSE IF p.st # "ordinary" THEN NoName
  ELSE IF p.label = <<>> THEN Panicked
  ELSE [res |-> "ok", name |-> Append(p.labels, p.label)]

(* String: what the parser takes for more than a character is escaped. *)
Escaped == {34, 40, 41, 46, 59, 92, 64, 36}
CharStringBareAt(c) ==
  IF c \in Escaped \ {AT} THEN <<BACKSLASH, c>>
  ELSE IF c > 32 /\ c < 127 THEN <<c>>
  ELSE <<BACKSLASH, 48 + ((c \div 100) % 10), 48 + ((c \div 10) % 10), 48 + (c % 10)>>
CharString(c) ==
  IF c \in Escaped THEN <<BACKSLASH, c>>
  ELSE IF c > 32 /\ c < 127 THEN <<c>>
  ELSE <<BACKSLASH, 48 + ((c \div 100) % 10), 48 + ((c \div 10) % 10), 48 + (c % 10)>>
LabelString(l) == FlattenSeq([j \in DOMAIN l |-> CharString(l[j])])
NameString(n, omitFinalDot) ==
  IF n = <<>> THEN <<DOT>>
  ELSE FoldLeft(LAMBDA a, l : a \o <<DOT>> \o LabelString(l), LabelString(n[1]), Tail(n))
         \o (IF omitFinalDot THEN <<>> ELSE <<DOT>>)

-----------------------------------------------------------------------------
(* Compare, without regard to case: labels from the root on, octets from   *)
(* the first on, the shorter before the longer.                            *)
FirstDiff(a, b) == Min({i \in 1..Min({Len(a), Len(b)}) : a[i] # b[i]} \cup {Len(a) + Len(b) + 1})
LabelOrder(a, b) ==
  LET i == FirstDiff(a, b) IN IF i <= Len(a) + Len(b) THEN a[i] - b[i] ELSE Len(a) - Len(b)
CommonLabels(m, n) ==
  Max({k \in 0..Min({Len(m), Len(n)}) : \A i \in 0..(k - 1) : m[Len(m) - i] = n[Len(n) - i]})

CompareDown(m, n, k) ==
  IF k = Len(m) \/ k = Len(n)
  THEN [order |-> Len(m) - Len(n), common |-> k + 1,
        rel |-> IF Len(m) < Len(n) THEN "SUPERDOMAIN" ELSE IF Len(m) > Len(n) THEN "SUBDOMAIN" ELSE "EQUAL"]
  ELSE [order |-> LabelOrder(m[Len(m) - k], n[Len(n) - k]), common |-> k + 1, rel |-> "COMMONANCESTOR"]
CompareNames(m, n) == CompareDown(Downcase(m), Downcase(n), CommonLabels(Downcase(m), Downcase(n)))

NameEquals(m, n) == Downcase(m) = Downcase(n)
CaseSensitiveEquals(m, n) == m = n
IsWildCard(n) == n # <<>> /\ n[1] = <<42>>

(* IsSubDomain compares octets from the end on and leaves out the first    *)
(* octet of the parent, the length of its first label.                     *)
IsSubDomain(n, parent) ==
  LET a == Downcase(n) IN
  LET ra == Raw(a) \o <<0>> IN
  LET rp == Raw(Downcase(parent)) \o <<0>> IN
  /\ Len(ra) >= Len(rp)
  /\ LabelCount(n) >= LabelCount(parent)
  /\ \A j \in 0..(Len(rp) - 2) : ra[Len(ra) - j] = rp[Len(rp) - j]

(* Splits: labels start .. start + count - 1, counted from 0; the label of *)
(* the root counts.                                                        *)
Named(n) == [ok |-> TRUE, name |-> n]
NotNamed == [ok |-> FALSE]
Split(n, start, count) ==
  IF count <= 0 \/ count > LabelCount(n) \/ start + count > LabelCount(n) THEN NotNamed
  ELSE Named(SubSeq(n, start + 1, Min({start + count, Len(n)})))
Subtract(n, suffix) == Split(n, 0, LabelCount(n) - LabelCount(suffix))
Parent(n, level) == Split(n, level, LabelCount(n) - level)
StripLeft(n, c) == IF c >= LabelCount(n) THEN NotNamed ELSE Named(SubSeq(n, c + 1, Len(n)))
StripRight(n, c) == IF c >= LabelCount(n) THEN NotNamed ELSE Named(SubSeq(n, 1, Len(n) - c))
ReverseName(n) == Reverse(n)
Concat(n, suffixes) ==
  LET all == n \o FlattenSeq(suffixes) IN
  IF NameLength(all) > MAX_WIRE \/ LabelCount(all) > MAX_LABELS THEN NotNamed ELSE Named(all)

-----------------------------------------------------------------------------
DnInit == dnText = <<>> /\ dnParse = ParseBegin /\ dnWant = <<>>

(* NewName with downcase, as NameFromString calls it: a character a step. *)
NameFromString(s, want) == dnText' = s /\ dnParse' = ParseBegin /\ dnWant' = want

ReadChar ==
  /\ Reading(dnParse, dnText)
  /\ dnParse' = ParseChar(dnParse, dnText[dnParse.pos + 1], dnParse.pos + 1 = Len(dnText))
  /\ UNCHANGED <<dnText, dnWant>>

Parsed == ParseEnd(dnParse, dnText)

(* A caller's text; a name from the wire that is shown, and the text read   *)
(* again; the same for a name that was read from a text.                    *)
ReadText == dnText = <<>> /\ \E s \in DnTexts : NameFromString(s, <<>>)
ShowWire == dnText = <<>> /\ \E n \in DnNames, dot \in BOOLEAN : NameFromString(NameString(n, dot), <<Downcase(n)>>)
ShowParsed ==
  \E dot \in BOOLEAN :
    /\ ~Reading(dnParse, dnText) /\ dnWant = <<>> /\ Parsed.res = "ok"
    /\ NameFromString(NameString(Parsed.name, dot), <<Parsed.name>>)

DnNext == ReadChar \/ ReadText \/ ShowWire \/ ShowParsed
DnSpec == DnInit /\ [][DnNext]_dnVars

-----------------------------------------------------------------------------
(* A new label began at octet 254 of the name: the parser added two octets  *)
(* at once and stepped over the length it stops at.                         *)
SteppedOverEnd == dnParse.len > MAX_WIRE

(* What NameFromString makes of a text is a name that fits the wire format, *)
(* without a panic, and its String reads as the same name; every name that  *)
(* came over the wire has a text that reads as that name, in lower case.    *)
DnTextStable ==
  (~Reading(dnParse, dnText) /\ ~SteppedOverEnd) =>
    /\ Parsed.res # "panic"
    /\ Parsed.res = "ok" => /\ NameLength(Parsed.name) <= MAX_WIRE
                            /\ \A i \in DOMAIN Parsed.name : Len(Parsed.name[i]) \in 1..MAX_LABEL_LEN
    /\ dnWant # <<>> => Parsed = [res |-> "ok", name |-> dnWant[1]]
=============================================================================
