----------------------------- MODULE DnsMessage -----------------------------
(***************************************************************************)
(* The DNS messages of g53 and their wire format (name.go, msgrender.go,   *)
(* rdatafield.go, rdata_*.go, rrset.go, message.go, edns*.go, tsig.go,     *)
(* update.go, xfr.go): a message is put together, rendered octet by octet  *)
(* with compressed names, and read back; a signed one is rendered again    *)
(* by the receiver, who compares.                                          *)
(*                                                                         *)
(* A name is the sequence of its labels, a label a sequence of octets; the *)
(* root is <<>>.  Positions in a buffer count from 0.  The hash of a       *)
(* suffix in the table of offsets only speeds up its search and is left    *)
(* out; a MAC is a fixed string, what it was made over is in dmSigned.     *)
(***************************************************************************)
EXTENDS DnsNames

CONSTANTS
  DmQuestions,   \* set of questions [name, type]
  DmRRsets,      \* for each section, the record sets a caller adds
  DmOptions,     \* set of EDNS options a caller adds
  DmMaxRRsets    \* bound: record sets added to a message

VARIABLES dmMsg, dmWire, dmGot, dmSigned, dmStage

dmVars == <<dmMsg, dmWire, dmGot, dmSigned, dmStage>>

MAX_COMPRESS_POINTER == 16383
COMPRESS_MARK == 192

Bad == [ok |-> FALSE]
Good(v, at) == [ok |-> TRUE, val |-> v, at |-> at]

(* Go on with a result f, if it is one. *)
Then(f, op(_)) == IF f.ok THEN op(f) ELSE Bad

(* Unsigned numbers, most significant octet first. *)
Uint(w, v) == [i \in 1..w |-> (v \div (256 ^ (w - i))) % 256]
ReadUint(b, at, w) ==
  IF at + w > Len(b) THEN Bad
  ELSE Good(FoldLeft(LAMBDA a, o : a * 256 + o, 0, SubSeq(b, at + 1, at + w)), at + w)
ReadBytes(b, at, n) == IF at + n > Len(b) THEN Bad ELSE Good(SubSeq(b, at + 1, at + n), at + n)

(* op over the elements of s, from acc on; every step is worked out before *)
(* the next.                                                               *)
RECURSIVE Thread(_, _, _)
Thread(op(_, _), acc, s) ==
  IF s = <<>> THEN acc
  ELSE CHOOSE y \in {Thread(op, x, Tail(s)) : x \in {op(acc, Head(s))}} : TRUE

-----------------------------------------------------------------------------
(* NameFromWire: labels up to the root; a pointer must go further back     *)
(* than every place before it, and the buffer goes on after the first.     *)
RECURSIVE Labels(_, _, _, _, _, _)
Labels(b, at, biggest, used, ls, next) ==
  IF at >= Len(b) THEN Bad
  ELSE LET c == b[at + 1] IN
    CASE c = 0 -> IF used + 1 > MAX_WIRE THEN Bad ELSE Good(ls, IF next = 0 THEN at + 1 ELSE next)
      [] c \in 1..MAX_LABEL_LEN ->
           IF used + c + 1 > MAX_WIRE \/ at + 1 + c > Len(b) THEN Bad
           ELSE Labels(b, at + 1 + c, biggest, used + c + 1, Append(ls, SubSeq(b, at + 2, at + 1 + c)), next)
      [] c >= COMPRESS_MARK ->
           IF at + 2 > Len(b) THEN Bad
           ELSE Then(ReadUint(b, at, 2), LAMBDA p :
             IF p.val - COMPRESS_MARK * 256 >= biggest THEN Bad
             ELSE Labels(b, p.val - COMPRESS_MARK * 256, p.val - COMPRESS_MARK * 256, used, ls,
                         IF next = 0 THEN at + 2 ELSE next))
      [] OTHER -> Bad

NameFromWire(b, at) == Labels(b, at, at, 0, <<>>, 0)

NO_OFFSET == 65535

(* Variant: names of the same length are taken for equal. *)
FindOffsetByLength(r, n) ==
  LET hits == {i \in DOMAIN r.table : Len(Raw(NameFromWire(r.buf, r.table[i]).val)) = Len(Raw(n))}
  IN IF hits = {} THEN NO_OFFSET ELSE r.table[Max(hits)]

(* The latest place of the buffer where this name starts, or none. *)
findOffset(r, n) ==
  LET hits == {i \in DOMAIN r.table : NameEquals(NameFromWire(r.buf, r.table[i]).val, n)}
  IN IF hits = {} THEN NO_OFFSET ELSE r.table[Max(hits)]

Suffix(n, k) == SubSeq(n, k + 1, Len(n))

(* How many labels come before the longest suffix already in the message. *)
Uncompressed(r, n) == Min({k \in 0..(Len(n) - 1) : findOffset(r, Suffix(n, k)) # NO_OFFSET} \cup {Len(n)})

(* WriteName: those labels, then a pointer to the suffix; the new suffixes *)
(* can be pointed to, unless they are too far.                             *)
WriteLabels(r, n, kept) ==
  [buf |-> r.buf \o Raw(SubSeq(n, 1, kept)) \o
             (IF kept = Len(n) THEN <<0>> ELSE Uint(2, COMPRESS_MARK * 256 + findOffset(r, Suffix(n, kept)))),
   table |-> r.table \o SelectSeq([i \in 1..kept |-> Len(r.buf) + Len(Raw(SubSeq(n, 1, i - 1)))],
                                  LAMBDA p : p <= MAX_COMPRESS_POINTER)]
WriteName(r, n, compress) == WriteLabels(r, n, IF compress THEN Uncompressed(r, n) ELSE Len(n))

Write(r, octets) == [r EXCEPT !.buf = @ \o octets]

(* The length of what was written from at + 2 on, put at place at. *)
WriteUint16At(r, v, at) ==
  [r EXCEPT !.buf = SubSeq(@, 1, at) \o Uint(2, v) \o SubSeq(@, at + 3, Len(@))]
Backpatch(r, at) == WriteUint16At(r, Len(r.buf) - at - 2, at)

-----------------------------------------------------------------------------
(* The type bit maps of NSEC3, for types in ascending order: a block for   *)
(* each window of 256 types, as long as its last type needs.               *)
encodeNSEC3Bytes(ts) ==
  LET windows == SetToSortSeq({t \div 256 : t \in ToSet(ts)}, <)
      In(w) == {t % 256 : t \in {u \in ToSet(ts) : u \div 256 = w}}
      Octet(w, j) == FoldSet(LAMBDA t, a : a + 2 ^ (7 - (t % 8)), 0, {t \in In(w) : t \div 8 = j})
      length(w) == Max(In(w)) \div 8 + 1
  IN FlattenSeq([k \in DOMAIN windows |->
       <<windows[k], length(windows[k])>> \o [j \in 1..length(windows[k]) |-> Octet(windows[k], j - 1)]])

RECURSIVE decodeNSEC3Types(_, _, _)
decodeNSEC3Types(msg, last, ts) ==
  IF msg = <<>> THEN Good(ts, 0)
  ELSE IF Len(msg) < 2 \/ msg[1] <= last THEN Bad
  ELSE LET n == msg[2]
           bits == {t \in 0..(n * 8 - 1) : (msg[3 + t \div 8] \div (2 ^ (7 - (t % 8)))) % 2 = 1}
       IN IF n = 0 \/ n > 32 \/ 2 + n > Len(msg) THEN Bad
          ELSE decodeNSEC3Types(SubSeq(msg, 3 + n, Len(msg)), msg[1],
                                ts \o [k \in 1..Cardinality(bits) |-> msg[1] * 256 + SetToSortSeq(bits, <)[k]])

(* rendField *)
Strings(ss) == FlattenSeq([i \in DOMAIN ss |-> <<Len(ss[i]) % 256>> \o ss[i]])
rendField(r, ct, v) ==
  CASE ct = "name" -> WriteName(r, v, TRUE)
    [] ct = "name uncompressed" -> WriteName(r, v, FALSE)
    [] ct = "uint8" -> Write(r, Uint(1, v))
    [] ct = "uint16" -> Write(r, Uint(2, v))
    [] ct = "uint32" -> Write(r, Uint(4, v))
    [] ct \in {"ipv4", "ipv6", "binary", "counted"} -> Write(r, v)
    [] ct = "byte binary" -> Write(r, Strings(<<v>>))
    [] ct = "txt" -> Write(r, Strings(v))
    [] ct = "types" -> Write(r, encodeNSEC3Bytes(v))

(* fieldFromWire: the value and what is left of the length ll.  A          *)
(* "counted" field is as long as the field before it says (prev).          *)
RECURSIVE ReadStrings(_, _, _, _)
ReadStrings(b, at, ll, ss) ==
  IF ll = 0 THEN Good(ss, at)
  ELSE Then(ReadUint(b, at, 1), LAMBDA n :
         IF n.val > ll - 1 THEN Bad
         ELSE Then(ReadBytes(b, n.at, n.val), LAMBDA d : ReadStrings(b, d.at, ll - 1 - n.val, Append(ss, d.val))))

Field(b, at, ct, ll, prev) ==
  CASE ct \in {"name", "name uncompressed"} -> Then(NameFromWire(b, at), LAMBDA n : Good(Downcase(n.val), n.at))
    [] ct = "uint8" -> ReadUint(b, at, 1)
    [] ct = "uint16" -> ReadUint(b, at, 2)
    [] ct = "uint32" -> ReadUint(b, at, 4)
    [] ct = "ipv4" -> ReadBytes(b, at, 4)
    [] ct = "ipv6" -> ReadBytes(b, at, 16)
    [] ct = "binary" -> ReadBytes(b, at, ll)
    [] ct = "counted" -> ReadBytes(b, at, prev)
    [] ct = "txt" -> ReadStrings(b, at, ll, <<>>)
    [] ct = "byte binary" ->
         Then(ReadUint(b, at, 1), LAMBDA n : IF n.val > ll - 1 THEN Bad ELSE ReadBytes(b, n.at, n.val))
    [] ct = "types" ->
         Then(ReadBytes(b, at, ll), LAMBDA d : Then(decodeNSEC3Types(d.val, -1, <<>>), LAMBDA ts : Good(ts.val, d.at)))

fieldFromWire(b, at, ct, ll, prev) ==
  Then(Field(b, at, ct, ll, prev), LAMBDA f : IF f.at - at <= ll THEN f ELSE Bad)

-----------------------------------------------------------------------------
(* The fields of the resource data, in the order each type renders them    *)
(* and in the order it reads them.                                         *)
RendA == <<"ipv4">>
AFromWire == <<"ipv4">>
RendAAAA == <<"ipv6">>
AAAAFromWire == <<"ipv6">>
RendCName == <<"name">>
CNameFromWire == <<"name">>
RendDName == <<"name">>
DNameFromWire == <<"name">>
RendNS == <<"name">>
NSFromWire == <<"name">>
RendPTR == <<"name">>
PTRFromWire == <<"name">>
RendRP == <<"name", "name">>
RPFromWire == <<"name", "name">>
RendMX == <<"uint16", "name">>
MXFromWire == <<"uint16", "name">>
RendSRV == <<"uint16", "uint16", "uint16", "name uncompressed">>
SRVFromWire == <<"uint16", "uint16", "uint16", "name uncompressed">>
RendSOA == <<"name", "name", "uint32", "uint32", "uint32", "uint32", "uint32">>
SOAFromWire == <<"name", "name", "uint32", "uint32", "uint32", "uint32", "uint32">>
RendTxt == <<"txt">>
TxtFromWire == <<"txt">>
RendSPF == <<"txt">>
SPFFromWire == <<"txt">>
RendHINFO == <<"byte binary", "byte binary">>
HINFOFromWire == <<"byte binary", "byte binary">>
RendNAPTR == <<"uint16", "uint16", "byte binary", "byte binary", "byte binary", "name">>
NAPTRFromWire == <<"uint16", "uint16", "byte binary", "byte binary", "byte binary", "name">>
RendDS == <<"uint16", "uint8", "uint8", "binary">>
DSFromWire == <<"uint16", "uint8", "uint8", "binary">>
RendRRSig == <<"uint16", "uint8", "uint8", "uint32", "uint32", "uint32", "uint16", "name", "binary">>
RRSigFromWire == <<"uint16", "uint8", "uint8", "uint32", "uint32", "uint32", "uint16", "name", "binary">>
RendNSEC3 == <<"uint8", "uint8", "uint16", "uint8", "counted", "uint8", "counted", "types">>
NSEC3FromWire == <<"uint8", "uint8", "uint16", "uint8", "counted", "uint8", "counted", "types">>
RendOPT == <<"binary">>
OPTFromWire == <<"binary">>
RendTSIG == <<"name", "uint16", "uint32", "uint16", "uint16", "counted", "uint16", "uint16", "uint16", "counted">>
TSIGFromWire == <<"name", "uint16", "uint32", "uint16", "uint16", "counted", "uint16", "uint16", "uint16", "counted">>

RR_SOA == 6
RR_OPT == 41
RR_TSIG == 250
RR_AXFR == 252
RR_ANY == 255
CLASS_IN == 1
CLASS_NONE == 254
CLASS_ANY == 255

FieldsRendered ==
  1 :> RendA @@ 28 :> RendAAAA @@ 5 :> RendCName @@ RR_SOA :> RendSOA @@ 2 :> RendNS
  @@ RR_OPT :> RendOPT @@ 12 :> RendPTR @@ 33 :> RendSRV @@ 35 :> RendNAPTR @@ 39 :> RendDName
  @@ 46 :> RendRRSig @@ 15 :> RendMX @@ 16 :> RendTxt @@ 17 :> RendRP @@ 99 :> RendSPF
  @@ RR_TSIG :> RendTSIG @@ 50 :> RendNSEC3 @@ 43 :> RendDS @@ 13 :> RendHINFO

FieldsRead ==
  1 :> AFromWire @@ 28 :> AAAAFromWire @@ 5 :> CNameFromWire @@ RR_SOA :> SOAFromWire @@ 2 :> NSFromWire
  @@ RR_OPT :> OPTFromWire @@ 12 :> PTRFromWire @@ 33 :> SRVFromWire @@ 35 :> NAPTRFromWire @@ 39 :> DNameFromWire
  @@ 46 :> RRSigFromWire @@ 15 :> MXFromWire @@ 16 :> TxtFromWire @@ 17 :> RPFromWire @@ 99 :> SPFFromWire
  @@ RR_TSIG :> TSIGFromWire @@ 50 :> NSEC3FromWire @@ 43 :> DSFromWire @@ 13 :> HINFOFromWire

RendRdata(r, t, rdata) ==
  Thread(LAMBDA a, i : rendField(a, FieldsRendered[t][i], rdata[i]), r, [i \in DOMAIN rdata |-> i])

(* RdataFromWire: no data at all is no resource data; every octet of the   *)
(* length must be used up.                                                 *)
ReadField(b, a, ct) ==
  Then(a, LAMBDA x :
    Then(fieldFromWire(b, x.at, ct, x.ll, IF x.val = <<>> THEN 0 ELSE Last(x.val)), LAMBDA f :
      [ok |-> TRUE, val |-> Append(x.val, f.val), at |-> f.at, ll |-> x.ll - (f.at - x.at)]))

RdataFromWire(b, at, t) ==
  Then(ReadUint(b, at, 2), LAMBDA n :
    IF n.val = 0 THEN Good(<<>>, n.at)
    ELSE IF t \notin DOMAIN FieldsRead THEN Bad
    ELSE Then(Thread(LAMBDA a, ct : ReadField(b, a, ct),
                     [ok |-> TRUE, val |-> <<>>, at |-> n.at, ll |-> n.val], FieldsRead[t]),
              LAMBDA d : IF d.ll = 0 THEN Good(<<d.val>>, d.at) ELSE Bad))

-----------------------------------------------------------------------------
(* A set of records [name, type, class, ttl, rdatas] *)
RendHead(r, n, t, c, ttl) == Write(WriteName(r, n, TRUE), Uint(2, t) \o Uint(2, c) \o Uint(4, ttl))

RendRRset(r, rr) ==
  IF rr.rdatas = <<>>
  THEN Write(RendHead(r, rr.name, rr.type, rr.class, rr.ttl), <<0, 0>>)
  ELSE Thread(LAMBDA a, rd :
                  LET h == RendHead(a, rr.name, rr.type, rr.class, rr.ttl)
                  IN Backpatch(RendRdata(Write(h, <<0, 0>>), rr.type, rd), Len(h.buf)),
                r, rr.rdatas)

RRsetFromWire(b, at) ==
  Then(NameFromWire(b, at), LAMBDA n : Then(ReadUint(b, n.at, 2), LAMBDA t :
    Then(ReadUint(b, t.at, 2), LAMBDA c : Then(ReadUint(b, c.at, 4), LAMBDA ttl :
      Then(RdataFromWire(b, ttl.at, t.val), LAMBDA d :
        Good([name |-> n.val, type |-> t.val, class |-> c.val, ttl |-> ttl.val, rdatas |-> d.val], d.at))))))

IsSameRRset(a, b) == a.type = b.type /\ NameEquals(a.name, b.name)

(* A section is read record by record; neighbours of one name and type are *)
(* joined, whatever their class and time to live.                          *)
RECURSIVE ReadSection(_, _, _, _)
ReadSection(b, at, count, s) ==
  IF count = 0 THEN Good(s, at)
  ELSE Then(RRsetFromWire(b, at), LAMBDA rr :
         IF s = <<>> \/ ~IsSameRRset(Last(s), rr.val) THEN ReadSection(b, rr.at, count - 1, Append(s, rr.val))
         ELSE IF rr.val.rdatas = <<>> THEN Bad
         ELSE ReadSection(b, rr.at, count - 1, [s EXCEPT ![Len(s)].rdatas = @ \o rr.val.rdatas]))

rrCount(s) == Thread(LAMBDA a, rr : a + Max({1, Len(rr.rdatas)}), 0, s)

-----------------------------------------------------------------------------
(* The options of EDNS: the client's subnet, cut to its mask, or a view.   *)
MaskedAt(o, i) == LET keep == 8 * i - o.mask IN IF keep <= 0 THEN o.ip[i] ELSE (o.ip[i] \div 2 ^ keep) * 2 ^ keep
OptionOctets(o) ==
  IF o.code = 8
  THEN LET n == (o.mask + 7) \div 8
       IN Uint(2, 8) \o Uint(2, 4 + n) \o Uint(2, o.family) \o <<o.mask, o.scope>> \o [i \in 1..n |-> MaskedAt(o, i)]
  ELSE Uint(2, 53) \o Uint(2, Len(o.view)) \o o.view

OptionFromWire(d) ==
  LET code == ReadUint(d, 0, 2).val
      l == ReadUint(d, 2, 2).val
  IN IF code = 8
     THEN LET family == ReadUint(d, 4, 2).val
              size == IF family = 1 THEN 4 ELSE 16
          IN [code |-> 8, family |-> family, mask |-> d[7], scope |-> d[8],
              ip |-> [i \in 1..size |-> IF i <= l - 4 THEN d[8 + i] ELSE 0]]
     ELSE [code |-> 53, view |-> SubSeq(d, 5, 4 + l)]

EXTFLAG_DO == 32768
VERSION_SHIFT == 65536
RendEdns(r, e) ==
  LET flags == e.version * VERSION_SHIFT + (IF e.dnssec THEN EXTFLAG_DO ELSE 0)
      h == RendHead(r, <<>>, RR_OPT, e.size, flags)
  IN Backpatch(Write(h, <<0, 0>> \o FlattenSeq([i \in DOMAIN e.options |-> OptionOctets(e.options[i])])), Len(h.buf))

(* Of each record's data only the first option is looked at. *)
EdnsFromRRset(rr) ==
  [size |-> rr.class, dnssec |-> (rr.ttl \div EXTFLAG_DO) % 2 = 1, version |-> (rr.ttl \div VERSION_SHIFT) % 256,
   options |-> [i \in DOMAIN rr.rdatas |-> OptionFromWire(rr.rdatas[i][1])]]

EdnsRRCount(e) == IF e.options = <<>> THEN 1 ELSE Len(e.options)

-----------------------------------------------------------------------------
(* Header: the flags are bits of their own, next to the operation code and *)
(* the answer code.                                                        *)
FlagBits == [QR |-> 32768, AA |-> 1024, TC |-> 512, RD |-> 256, RA |-> 128, AD |-> 32, CD |-> 16]
OPCODE_SHIFT == 2048
NoHeader == [id |-> 1, flags |-> {}, opcode |-> 0, rcode |-> 0, qd |-> 0, an |-> 0, ns |-> 0, ar |-> 0]

HeaderOctets(h) ==
  LET flag == (h.opcode % 16) * OPCODE_SHIFT + (h.rcode % 16) + FoldSet(LAMBDA f, a : a + FlagBits[f], 0, h.flags)
  IN FlattenSeq(<<Uint(2, h.id), Uint(2, flag), Uint(2, h.qd), Uint(2, h.an), Uint(2, h.ns), Uint(2, h.ar)>>)

HeaderFromWire(b) ==
  LET u(i) == ReadUint(b, 2 * i, 2).val IN
  IF Len(b) < 12 THEN Bad
  ELSE Good([id |-> u(0), flags |-> {f \in DOMAIN FlagBits : (u(1) \div FlagBits[f]) % 2 = 1},
             opcode |-> (u(1) \div OPCODE_SHIFT) % 16, rcode |-> u(1) % 16,
             qd |-> u(2), an |-> u(3), ns |-> u(4), ar |-> u(5)], 12)

(* Optional parts are sequences of at most one. *)
NoMessage == [header |-> NoHeader, question |-> <<>>, sections |-> <<<<>>, <<>>, <<>>>>, edns |-> <<>>, tsig |-> <<>>]

RecalculateSectionRRCount(m) ==
  [m EXCEPT !.header.qd = Len(m.question),
            !.header.an = rrCount(m.sections[1]),
            !.header.ns = rrCount(m.sections[2]),
            !.header.ar = rrCount(m.sections[3]) + (IF m.edns = <<>> THEN 0 ELSE EdnsRRCount(m.edns[1]))]

RendUnsigned(m) ==
  LET start == [buf |-> HeaderOctets(m.header), table |-> <<>>]
      asked == Thread(LAMBDA r, q : Write(WriteName(r, q.name, TRUE), Uint(2, q.type) \o Uint(2, CLASS_IN)),
                        start, m.question)
      sections == Thread(LAMBDA r, s : Thread(RendRRset, r, s), asked, m.sections)
  IN Thread(RendEdns, sections, m.edns)

(* Rend: a signature comes last and is counted. *)
Rend(m) ==
  LET r == RendUnsigned(m) IN
  IF m.tsig = <<>> THEN r.buf
  ELSE WriteUint16At(RendRRset(r, [name |-> m.tsig[1].name, type |-> RR_TSIG, class |-> CLASS_ANY, ttl |-> 0,
                                   rdatas |-> <<m.tsig[1].rdata>>]),
                     m.header.ar + 1, 10).buf

QuestionFromWire(b, at, count) ==
  IF count # 1 THEN Good(<<>>, at)
  ELSE Then(NameFromWire(b, at), LAMBDA n : Then(ReadUint(b, n.at, 2), LAMBDA t : Then(ReadUint(b, t.at, 2), LAMBDA c :
         Good(<<[name |-> n.val, type |-> t.val]>>, c.at))))

LastIs(s, t) == s # <<>> /\ Last(s).type = t

(* FromWire: EDNS and signature are taken out of the additional section    *)
(* where they are its last set.                                            *)
FromWire(b) ==
  Then(HeaderFromWire(b), LAMBDA h : Then(QuestionFromWire(b, 12, h.val.qd), LAMBDA q :
    Then(ReadSection(b, q.at, h.val.an, <<>>), LAMBDA an : Then(ReadSection(b, an.at, h.val.ns, <<>>), LAMBDA ns :
      Then(ReadSection(b, ns.at, h.val.ar, <<>>), LAMBDA ar :
        Good([header |-> h.val, question |-> q.val,
              sections |-> <<an.val, ns.val,
                             IF LastIs(ar.val, RR_OPT) \/ LastIs(ar.val, RR_TSIG) THEN Front(ar.val) ELSE ar.val>>,
              edns |-> IF LastIs(ar.val, RR_OPT) THEN <<EdnsFromRRset(Last(ar.val))>> ELSE <<>>,
              tsig |-> IF LastIs(ar.val, RR_TSIG)
                       THEN <<[name |-> Last(ar.val).name, rdata |-> Last(ar.val).rdatas[1]]>> ELSE <<>>], ar.at))))))

-----------------------------------------------------------------------------
(* Messages are put together by calls of these. *)
DmInit == dmMsg = NoMessage /\ dmWire = <<>> /\ dmGot = Bad /\ dmSigned = <<>> /\ dmStage = "new"

Begin(m) == dmMsg' = m /\ dmStage' = "build" /\ UNCHANGED <<dmWire, dmGot, dmSigned>>

MakeQuery ==
  /\ dmStage = "new"
  /\ \E q \in DmQuestions, do \in BOOLEAN :
       Begin([NoMessage EXCEPT !.header.flags = {"RD"}, !.header.qd = 1, !.header.ar = 1, !.question = <<q>>,
                               !.edns = <<[size |-> 4096, dnssec |-> do, version |-> 0, options |-> <<>>]>>])

MakeUpdate ==
  /\ dmStage = "new"
  /\ \E q \in DmQuestions :
       Begin([NoMessage EXCEPT !.header.opcode = 5, !.question = <<[q EXCEPT !.type = RR_SOA]>>])

MakeAXFR ==
  /\ dmStage = "new"
  /\ \E q \in DmQuestions :
       Begin([NoMessage EXCEPT !.header.qd = 1, !.question = <<[q EXCEPT !.type = RR_AXFR]>>])

(* A received query is answered once. *)
MakeResponse ==
  /\ dmStage = "received" /\ dmGot.ok
  /\ "QR" \notin dmGot.val.header.flags
  /\ dmMsg' = [NoMessage EXCEPT !.header.id = dmGot.val.header.id,
                                !.header.opcode = dmGot.val.header.opcode,
                                !.header.qd = dmGot.val.header.qd,
                                !.header.flags = {"QR"} \cup (dmGot.val.header.flags \cap {"RD"}),
                                !.question = dmGot.val.question]
  /\ dmWire' = <<>> /\ dmGot' = Bad /\ dmSigned' = <<>> /\ dmStage' = "build"

AllRRsets(m) == Len(FlattenSeq(m.sections))

Build(m) ==
  /\ dmStage = "build" /\ dmMsg.tsig = <<>> /\ AllRRsets(m) <= DmMaxRRsets
  /\ dmMsg' = m
  /\ UNCHANGED <<dmWire, dmGot, dmSigned, dmStage>>

AddRRset(m, st, rr) == [m EXCEPT !.sections[st] = Append(@, rr)]

(* Compare: two records of authority always count as equal. *)
SameRdata(t, a, b) == t = RR_SOA \/ a = b

(* AddRR with merge: into the set of the same name, type and class, unless *)
(* it has this data already.                                               *)
AddRR(m, st, rr) ==
  LET same == {i \in DOMAIN m.sections[st] : IsSameRRset(m.sections[st][i], rr) /\ m.sections[st][i].class = rr.class}
  IN IF same = {} THEN AddRRset(m, st, rr)
     ELSE [m EXCEPT !.sections[st][Min(same)].ttl = rr.ttl,
                    !.sections[st][Min(same)].rdatas = IF \E d \in ToSet(@) : SameRdata(rr.type, d, rr.rdatas[1])
                                                       THEN @ ELSE @ \o rr.rdatas]

Answer ==
  \E st \in 1..3 : \E rr \in DmRRsets[st] :
    "QR" \in dmMsg.header.flags /\ (Build(AddRRset(dmMsg, st, rr)) \/ Build(AddRR(dmMsg, st, rr)))

(* What an update asks for: conditions in the answer section, changes in   *)
(* the authority section, told apart by class and by having data.          *)
UpdateNameExists(rr) == [rr EXCEPT !.type = RR_ANY, !.class = CLASS_ANY, !.ttl = 0, !.rdatas = <<>>]
UpdateNameNotExists(rr) == [rr EXCEPT !.type = RR_ANY, !.class = CLASS_NONE, !.ttl = 0, !.rdatas = <<>>]
UpdateRRsetExists(rr) == [rr EXCEPT !.class = CLASS_ANY, !.ttl = 0, !.rdatas = <<>>]
UpdateRRsetNotExists(rr) == [rr EXCEPT !.class = CLASS_NONE, !.ttl = 0, !.rdatas = <<>>]
UpdateRemoveRdata(rr) == [rr EXCEPT !.class = CLASS_NONE, !.ttl = 0]

Update ==
  \E rr \in DmRRsets[2] :
    /\ dmMsg.header.opcode = 5 /\ "QR" \notin dmMsg.header.flags
    /\ \/ \E c \in {UpdateNameExists(rr), UpdateNameNotExists(rr), rr, UpdateRRsetExists(rr), UpdateRRsetNotExists(rr)} :
            Build(AddRRset(dmMsg, 1, c))
       \/ \E c \in {rr, UpdateRRsetExists(rr), UpdateNameExists(rr), UpdateRemoveRdata(rr)} :
            Build(AddRRset(dmMsg, 2, c))

(* MakeIXFR names the serial number at hand in the authority section. *)
MakeIXFR ==
  \E rr \in DmRRsets[2] :
    /\ dmMsg.question # <<>> /\ dmMsg.question[1].type = RR_AXFR /\ rr.type = RR_SOA
    /\ dmMsg.header.ns = 0
    /\ Build([AddRRset(dmMsg, 2, rr) EXCEPT !.question[1].type = 251, !.header.ns = 1])

AddOption ==
  \E o \in DmOptions :
    /\ dmMsg.edns # <<>> /\ Len(dmMsg.edns[1].options) < 2
    /\ Build([dmMsg EXCEPT !.edns[1].options = Append(@, o)])

(* The message's identity goes into the signature. *)
TsigRdata(m) == <<<<<<104>>>>, 0, 1000, 300, 2, <<7, 7>>, m.header.id, 0, 0, <<>>>>
SetTSIG == Build([dmMsg EXCEPT !.tsig = <<[name |-> <<<<107>>>>, rdata |-> TsigRdata(dmMsg)]>>])

ClearSection ==
  \E st \in 1..3 :
    /\ dmMsg.sections[st] # <<>>
    /\ Build([dmMsg EXCEPT !.sections[st] = <<>>, !.edns = IF st = 3 THEN <<>> ELSE @])

Send ==
  /\ dmStage = "build"
  /\ LET m == RecalculateSectionRRCount(dmMsg) IN
       /\ dmMsg' = m
       /\ dmWire' = Rend(m)
       /\ dmSigned' = IF m.tsig = <<>> THEN <<>> ELSE RendUnsigned(m).buf
  /\ dmStage' = "sent"
  /\ UNCHANGED dmGot

Receive ==
  /\ dmStage = "sent"
  /\ dmGot' = FromWire(dmWire)
  /\ dmStage' = "received"
  /\ UNCHANGED <<dmMsg, dmWire, dmSigned>>

DmNext ==
  \/ MakeQuery \/ MakeUpdate \/ MakeAXFR \/ MakeIXFR \/ MakeResponse
  \/ Answer \/ Update \/ AddOption \/ SetTSIG \/ ClearSection \/ Send \/ Receive

DmSpec == DmInit /\ [][DmNext]_dmVars

-----------------------------------------------------------------------------
Neighbours(s) == \E i \in 1..(Len(s) - 1) : IsSameRRset(s[i], s[i + 1])

LowerRdata(t, rd) ==
  [i \in DOMAIN rd |-> IF FieldsRead[t][i] \in {"name", "name uncompressed"} THEN Downcase(rd[i]) ELSE rd[i]]
LowerRRset(rr) == [rr EXCEPT !.name = Downcase(@), !.rdatas = [i \in DOMAIN @ |-> LowerRdata(rr.type, @[i])]]
Lower(m) ==
  [m EXCEPT !.question = [i \in DOMAIN @ |-> [@[i] EXCEPT !.name = Downcase(@)]],
            !.sections = [st \in 1..3 |-> [i \in DOMAIN @[st] |-> LowerRRset(@[st][i])]]]

(* What is read is what was sent: a rendered message, with names           *)
(* compressed into each other, is read back as the same message, up to the *)
(* case of names; and the message a receiver renders to check a signature  *)
(* has the octets that were signed, if its names were written in lower     *)
(* case.  Not so where two neighbouring sets of a section have one name    *)
(* and type (an update that deletes a set and adds to it), for more than   *)
(* one option of EDNS, and, for the first part, where EDNS comes before a  *)
(* signature.                                                              *)
DmRoundTrip ==
  dmStage = "received"
    /\ (\A st \in 1..3 : ~Neighbours(dmMsg.sections[st]))
    /\ (\A e \in ToSet(dmMsg.edns) : Len(e.options) <= 1)
  => /\ dmGot.ok
     /\ dmMsg.edns = <<>> \/ dmMsg.tsig = <<>> =>
          Lower(dmGot.val) = Lower([dmMsg EXCEPT !.header.ar = @ + Len(dmMsg.tsig)])
     /\ dmMsg.tsig # <<>> /\ Lower(dmMsg) = dmMsg =>
          Rend(RecalculateSectionRRCount([dmGot.val EXCEPT !.tsig = <<>>])) = dmSigned
=============================================================================
