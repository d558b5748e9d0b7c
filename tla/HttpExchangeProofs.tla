------------------------- MODULE HttpExchangeProofs -------------------------
(***************************************************************************)
(* One connection of an http_worker, for any set of requests, any size of  *)
(* buffer, any limit and any number of calls of the handler: what the      *)
(* reader says of a request does not depend on how it was cut, and the     *)
(* reply is the one the request and the handler's calls have earned.       *)
(***************************************************************************)
EXTENDS HttpExchange, SequenceTheorems, TLAPS

\* Where the body of r starts in what the client writes: after this many symbols.
HeadLen(r) == Len(r.text) + Len(DblCrlf)

-----------------------------------------------------------------------------
\* What a request looks like on the wire: its text, the marker, its body.

\* The marker is four symbols.
LEMMA MarkerType == DblCrlf \in Seq(Symbols) /\ Len(DblCrlf) = 4
  BY DEF DblCrlf, Symbols, CR, LF

\* What RequestsAssumption says of the fields of a request.
LEMMA RequestFields ==
  ASSUME NEW r \in Requests
  PROVE  /\ r.text \in Seq(Symbols) /\ Len(r.text) \in Nat \ {0}
         /\ r.text[Len(r.text)] \notin {CR, LF}
         /\ \A i \in 1 .. Len(r.text) - 3 : SubSeq(r.text, i, i + 3) # DblCrlf
         /\ r.body \in Seq(Symbols) /\ Len(r.body) \in Nat
         /\ r.line \in BOOLEAN /\ r.headers \in BOOLEAN /\ r.host \in BOOLEAN
         /\ r.length \in Nat \cup {NoLength, BadLength}
         /\ LengthOf(r) \in Nat
  <1>1. r \in RequestType
    BY RequestsAssumption
  <1>2. r.text \in Seq(Symbols) /\ r.text # <<>> /\ r.body \in Seq(Symbols)
    BY <1>1, RequestsAssumption DEF RequestType
  <1>3. Len(r.text) \in Nat \ {0} /\ Len(r.body) \in Nat
    BY <1>2, EmptySeq, LenProperties
  <1>4. r.length \in Nat \cup {NoLength, BadLength} /\ r.line \in BOOLEAN
        /\ r.headers \in BOOLEAN /\ r.host \in BOOLEAN
    BY <1>1 DEF RequestType
  <1>5. LengthOf(r) \in Nat
    BY <1>4 DEF LengthOf, NoLength, BadLength
  <1>6. Last(r.text) = r.text[Len(r.text)]
    BY DEF Last
  <1>7. QED
    BY <1>2, <1>3, <1>4, <1>5, <1>6, RequestsAssumption

\* Where the elements of a sequence are after it has been joined with another, or two.
LEMMA ConcatAt ==
  ASSUME NEW S, NEW s \in Seq(S), NEW t \in Seq(S)
  PROVE  /\ s \o t \in Seq(S)
         /\ Len(s \o t) = Len(s) + Len(t) /\ Len(s) \in Nat /\ Len(t) \in Nat
         /\ \A i \in 1 .. Len(s) : (s \o t)[i] = s[i]
         /\ \A i \in 1 .. Len(t) : (s \o t)[Len(s) + i] = t[i]
  BY ConcatProperties, LenProperties

LEMMA ConcatThree ==
  ASSUME NEW S, NEW s \in Seq(S), NEW t \in Seq(S), NEW u \in Seq(S),
         NEW w, w = s \o t \o u
  PROVE  /\ w \in Seq(S) /\ Len(w) = Len(s) + Len(t) + Len(u)
         /\ \A i \in 1 .. Len(s) : w[i] = s[i]
         /\ \A i \in 1 .. Len(t) : w[Len(s) + i] = t[i]
         /\ \A i \in 1 .. Len(u) : w[Len(s) + Len(t) + i] = u[i]
  <1>1. PICK st \in Seq(S) : st = s \o t
    BY ConcatProperties
  <1>2. /\ Len(st) = Len(s) + Len(t) /\ Len(s) \in Nat /\ Len(t) \in Nat
        /\ \A i \in 1 .. Len(s) : st[i] = s[i]
        /\ \A i \in 1 .. Len(t) : st[Len(s) + i] = t[i]
    BY <1>1, ConcatAt
  <1>3. PICK stu \in Seq(S) : stu = st \o u
    BY ConcatProperties
  <1>4. /\ Len(stu) = Len(st) + Len(u) /\ Len(u) \in Nat
        /\ \A i \in 1 .. Len(st) : stu[i] = st[i]
        /\ \A i \in 1 .. Len(u) : stu[Len(st) + i] = u[i]
    BY <1>3, ConcatAt
  <1>5. \A i \in 1 .. Len(s) : stu[i] = s[i]
    BY <1>2, <1>4
  <1>6. \A i \in 1 .. Len(t) : stu[Len(s) + i] = t[i]
    BY <1>2, <1>4
  <1>7. stu = w
    BY <1>1, <1>3
  <1>8. QED
    BY <1>2, <1>4, <1>5, <1>6, <1>7

\* The text, the marker and the body are where Wire puts them.
LEMMA WireProperties ==
  ASSUME NEW r \in Requests
  PROVE  /\ Wire(r) \in Seq(Symbols)
         /\ HeadLen(r) = Len(r.text) + 4 /\ HeadLen(r) \in Nat
         /\ Len(Wire(r)) = HeadLen(r) + Len(r.body)
         /\ \A i \in 1 .. Len(r.text) : Wire(r)[i] = r.text[i]
         /\ \A i \in 1 .. 4 : Wire(r)[Len(r.text) + i] = DblCrlf[i]
         /\ \A i \in 1 .. Len(r.body) : Wire(r)[HeadLen(r) + i] = r.body[i]
  <1>1. r.text \in Seq(Symbols) /\ r.body \in Seq(Symbols) /\ Len(r.text) \in Nat
    BY RequestFields
  <1>2. PICK text \in Seq(Symbols), rest \in Seq(Symbols) : text = r.text /\ rest = r.body
    BY <1>1
  <1>3. PICK mark \in Seq(Symbols) : mark = DblCrlf
    BY MarkerType
  <1>4. PICK wire : wire = text \o mark \o rest
    OBVIOUS
  <1>5. /\ wire \in Seq(Symbols) /\ Len(wire) = Len(text) + Len(mark) + Len(rest)
        /\ \A i \in 1 .. Len(text) : wire[i] = text[i]
        /\ \A i \in 1 .. Len(mark) : wire[Len(text) + i] = mark[i]
        /\ \A i \in 1 .. Len(rest) : wire[Len(text) + Len(mark) + i] = rest[i]
    BY <1>4, ConcatThree
  <1>6. wire = Wire(r) /\ HeadLen(r) = Len(text) + 4 /\ Len(mark) = 4
    BY <1>2, <1>3, <1>4, MarkerType DEF Wire, HeadLen
  <1>7. Len(text) \in Nat /\ Len(rest) \in Nat
    OBVIOUS
  <1>8. /\ wire \in Seq(Symbols) /\ Len(wire) = Len(text) + 4 + Len(rest)
        /\ \A i \in 1 .. Len(text) : wire[i] = text[i]
        /\ \A i \in 1 .. 4 : wire[Len(text) + i] = mark[i]
        /\ \A i \in 1 .. Len(rest) : wire[Len(text) + 4 + i] = rest[i]
    BY <1>5, <1>6, <1>7
  <1>9. HeadLen(r) \in Nat
    BY <1>6, <1>7
  <1>10. QED
    BY <1>2, <1>3, <1>6, <1>8, <1>9, Zenon

\* SubSeq, as the provers need it: with the length and the elements of the result.
LEMMA PartProperties ==
  ASSUME NEW S, NEW w \in Seq(S), NEW a \in Nat \ {0}, NEW b \in Nat,
         b <= Len(w), a <= b + 1, NEW p, p = SubSeq(w, a, b)
  PROVE  p \in Seq(S) /\ Len(p) = b - a + 1 /\ \A i \in 1 .. b - a + 1 : p[i] = w[a + i - 1]
  OBVIOUS

LEMMA PrefixProperties ==
  ASSUME NEW S, NEW w \in Seq(S), NEW k \in 0 .. Len(w), NEW p, p = SubSeq(w, 1, k)
  PROVE  p \in Seq(S) /\ Len(p) = k /\ \A i \in 1 .. k : p[i] = w[i]
  OBVIOUS

\* Where the marker is met: symbol by symbol.
LEMMA MarkerAt ==
  ASSUME NEW w \in Seq(Symbols), NEW i \in Nat \ {0}, i + 3 <= Len(w)
  PROVE  SubSeq(w, i, i + 3) = DblCrlf <=> \A j \in 1 .. 4 : w[i + j - 1] = DblCrlf[j]
  <1>1. PICK mark \in Seq(Symbols) : mark = DblCrlf /\ Len(mark) = 4
    BY MarkerType
  <1>2. PICK part : part = SubSeq(w, i, i + 3)
    OBVIOUS
  <1>3. /\ part \in Seq(Symbols) /\ Len(part) = 4
        /\ \A j \in 1 .. 4 : part[j] = w[i + j - 1]
    BY <1>2, PartProperties
  <1>4. part = mark <=> \A j \in 1 .. 4 : part[j] = mark[j]
    BY <1>1, <1>3, SeqEqual
  <1>5. QED
    BY <1>1, <1>2, <1>3, <1>4

\* The text of a request neither holds the marker nor lends it its first symbols.
LEMMA NoMarkerInText ==
  ASSUME NEW r \in Requests, NEW i \in 1 .. Len(r.text), i + 3 <= Len(Wire(r))
  PROVE  ~ \A j \in 1 .. 4 : Wire(r)[i + j - 1] = DblCrlf[j]
  <1>1. PICK text \in Seq(Symbols) : text = r.text
    BY RequestFields
  <1>2. Len(text) \in Nat /\ i \in 1 .. Len(text)
    BY <1>1
  <1>3. \A k \in 1 .. Len(text) : Wire(r)[k] = text[k]
    BY <1>1, WireProperties
  <1>4. CASE i + 3 <= Len(text)
    <2>1. ~ \A j \in 1 .. 4 : text[i + j - 1] = DblCrlf[j]
      <3>1. i \in 1 .. Len(text) - 3 /\ i \in Nat \ {0}
        BY <1>2, <1>4
      <3>2. SubSeq(text, i, i + 3) # DblCrlf
        BY <3>1, <1>1, RequestFields
      <3>3. QED
        BY <3>1, <3>2, <1>4, MarkerAt
    <2>2. \A j \in 1 .. 4 : Wire(r)[i + j - 1] = text[i + j - 1]
      BY <1>2, <1>3, <1>4
    <2>3. QED
      BY <2>1, <2>2
  <1>5. CASE i + 3 > Len(text)
    <2>1. PICK j \in 1 .. 4 : i + j - 1 = Len(text)
      <3>1. Len(text) - i + 1 \in 1 .. 4 /\ i + (Len(text) - i + 1) - 1 = Len(text)
        BY <1>2, <1>5
      <3>2. QED
        BY <3>1
    <2>2. Wire(r)[i + j - 1] \notin {CR, LF}
      <3>1. Len(text) \in 1 .. Len(text) /\ text[Len(text)] \notin {CR, LF}
        BY <1>1, <1>2, RequestFields
      <3>2. QED
        BY <1>3, <2>1, <3>1
    <2>3. DblCrlf[j] \in {CR, LF}
      BY DEF DblCrlf
    <2>4. QED
      BY <2>2, <2>3
  <1>6. QED
    BY <1>2, <1>4, <1>5

\* The search finds the end of the header section and nothing before it, in whatever
\* has been read so far and wherever in the text it starts.
LEMMA MarkersFound ==
  ASSUME NEW r \in Requests, NEW k \in 0 .. Len(Wire(r)),
         NEW msg, msg = SubSeq(Wire(r), 1, k),
         NEW from \in 1 .. Len(r.text) + 1
  PROVE  /\ k < HeadLen(r) => Markers(msg, from) = {}
         /\ k >= HeadLen(r) => Len(r.text) + 1 \in Markers(msg, from)
         /\ \A i \in Markers(msg, from) : i \in Nat /\ Len(r.text) + 1 <= i
  <1>1. PICK w \in Seq(Symbols), n \in Nat \ {0} :
          /\ w = Wire(r) /\ n = Len(r.text) /\ HeadLen(r) = n + 4
          /\ Len(w) \in Nat /\ k \in 0 .. Len(w)
    BY RequestFields, WireProperties
  <1>2. /\ msg \in Seq(Symbols) /\ Len(msg) = k
        /\ \A i \in 1 .. k : msg[i] = w[i]
    BY <1>1, PrefixProperties
  <1>3. \A i \in from .. k - 3 : SubSeq(msg, i, i + 3) = DblCrlf
                                 <=> \A j \in 1 .. 4 : w[i + j - 1] = DblCrlf[j]
    <2> TAKE i \in from .. k - 3
    <2>1. i \in Nat \ {0} /\ i + 3 <= Len(msg)
      BY <1>1, <1>2
    <2>2. \A j \in 1 .. 4 : msg[i + j - 1] = w[i + j - 1]
      BY <1>1, <1>2, <2>1
    <2>3. SubSeq(msg, i, i + 3) = DblCrlf <=> \A j \in 1 .. 4 : msg[i + j - 1] = DblCrlf[j]
      BY <1>2, <2>1, MarkerAt
    <2>4. QED
      BY <2>2, <2>3
  <1>4. \A i \in from .. k - 3 : i <= n => SubSeq(msg, i, i + 3) # DblCrlf
    <2> SUFFICES ASSUME NEW i \in from .. k - 3, i <= n
                 PROVE  ~ \A j \in 1 .. 4 : w[i + j - 1] = DblCrlf[j]
      BY <1>3
    <2>1. i \in 1 .. n /\ i + 3 <= Len(w)
      BY <1>1
    <2>2. QED
      BY <1>1, <2>1, NoMarkerInText
  <1>5. \A i \in Markers(msg, from) : i \in from .. k - 3 /\ n + 1 <= i
    BY <1>1, <1>2, <1>4 DEF Markers
  <1>6. ASSUME k >= n + 4 PROVE n + 1 \in Markers(msg, from)
    <2>1. n + 1 \in from .. k - 3
      BY <1>1, <1>6
    <2>2. \A j \in 1 .. 4 : w[(n + 1) + j - 1] = DblCrlf[j]
      <3> TAKE j \in 1 .. 4
      <3>1. w[n + j] = DblCrlf[j]
        BY <1>1, WireProperties
      <3>2. (n + 1) + j - 1 = n + j
        BY <1>1
      <3>3. QED
        BY <3>1, <3>2
    <2>3. QED
      BY <2>1, <2>2, <1>2, <1>3 DEF Markers
  <1>7. QED
    BY <1>1, <1>5, <1>6

\* The search never starts behind the marker as long as the marker was not read whole.
LEMMA SearchPosOverlaps ==
  ASSUME NEW r \in Requests, NEW old \in Nat, old < HeadLen(r)
  PROVE  SearchPos(old) \in 1 .. Len(r.text) + 1
  BY MarkerType, RequestFields, WireProperties DEF SearchPos

\* What was read up to the marker is the text.
LEMMA TextRead ==
  ASSUME NEW r \in Requests, NEW k \in HeadLen(r) .. Len(Wire(r)),
         NEW msg, msg = SubSeq(Wire(r), 1, k)
  PROVE  SubSeq(msg, 1, Len(r.text)) = r.text
  <1>1. PICK w \in Seq(Symbols), text \in Seq(Symbols) :
          /\ w = Wire(r) /\ text = r.text /\ Len(w) \in Nat /\ Len(text) \in Nat
          /\ HeadLen(r) = Len(text) + 4 /\ k \in Len(text) + 4 .. Len(w)
    BY RequestFields, WireProperties
  <1>2. /\ msg \in Seq(Symbols) /\ Len(msg) = k
        /\ \A i \in 1 .. k : msg[i] = w[i]
    BY <1>1, PrefixProperties
  <1>3. SubSeq(msg, 1, Len(text)) = text
    <2>1. PICK p : p = SubSeq(msg, 1, Len(text))
      OBVIOUS
    <2>2. p \in Seq(Symbols) /\ Len(p) = Len(text) /\ \A i \in 1 .. Len(text) : p[i] = msg[i]
      <3>1. Len(text) \in 0 .. Len(msg)
        BY <1>1, <1>2
      <3>2. QED
        BY <1>2, <2>1, <3>1, PrefixProperties
    <2>3. \A i \in 1 .. Len(text) : w[i] = text[i]
      BY <1>1, WireProperties
    <2>4. \A i \in 1 .. Len(p) : p[i] = text[i]
      BY <1>1, <1>2, <2>2, <2>3
    <2>5. QED
      BY <2>1, <2>2, <2>4, SeqEqual
  <1>4. QED
    BY <1>1, <1>3

\* p is the n symbols of w behind the first o.
IsPart(p, w, o, n) == p \in Seq(Symbols) /\ Len(p) = n /\ \A i \in 1 .. n : p[i] = w[o + i]

\* The CHOOSE of TakeHead finds the least element.
LEMMA LeastIs ==
  ASSUME NEW S, NEW x \in S, S \subseteq Int, \A j \in S : x <= j
  PROVE  (CHOOSE i \in S : \A j \in S : i <= j) = x
  <1> DEFINE y == CHOOSE i \in S : \A j \in S : i <= j
  <1>1. y \in S /\ \A j \in S : y <= j
    OBVIOUS
  <1> HIDE DEF y
  <1>2. y \in Int /\ x \in Int /\ y <= x /\ x <= y
    BY <1>1
  <1>3. y = x
    BY <1>2
  <1>4. QED
    BY <1>3 DEF y

\* Parts of parts, parts side by side, and that there is only one part at a place.
LEMMA PartOf ==
  ASSUME NEW w \in Seq(Symbols), NEW o \in Nat, NEW n \in Nat, NEW a \in Nat, NEW z \in Nat,
         a = o + 1, z = o + n, z <= Len(w), NEW p, p = SubSeq(w, a, z)
  PROVE  IsPart(p, w, o, n)
  <1>1. /\ p \in Seq(Symbols) /\ Len(p) = z - a + 1
        /\ \A i \in 1 .. z - a + 1 : p[i] = w[a + i - 1]
    BY PartProperties
  <1>2. z - a + 1 = n /\ \A i \in 1 .. n : a + i - 1 = o + i
    OBVIOUS
  <1>3. QED
    BY <1>1, <1>2 DEF IsPart

LEMMA PartOfPart ==
  ASSUME NEW w, NEW p, NEW o \in Nat, NEW n \in Nat, IsPart(p, w, o, n),
         NEW q, NEW d \in Nat, NEW k \in Nat, d + k <= n, IsPart(q, p, d, k),
         NEW u \in Nat, u = o + d
  PROVE  IsPart(q, w, u, k)
  <1>1. ASSUME NEW i \in 1 .. k PROVE q[i] = w[u + i]
    <2>1. PICK j \in 1 .. n : j = d + i /\ o + j = u + i
      <3>1. d + i \in 1 .. n /\ o + (d + i) = u + i
        OBVIOUS
      <3>2. QED
        BY <3>1
    <2>2. QED
      BY <2>1 DEF IsPart
  <1>2. QED
    BY <1>1 DEF IsPart

LEMMA PartsJoin ==
  ASSUME NEW w, NEW p, NEW h \in Nat, IsPart(p, w, 0, h), NEW q, NEW k \in Nat,
         IsPart(q, w, h, k), NEW c \in Nat, c = h + k, NEW pq, pq = p \o q
  PROVE  IsPart(pq, w, 0, c)
  <1>1. p \in Seq(Symbols) /\ q \in Seq(Symbols) /\ Len(p) = h /\ Len(q) = k
    BY DEF IsPart
  <1>2. /\ pq \in Seq(Symbols) /\ Len(pq) = c
        /\ \A i \in 1 .. h : pq[i] = p[i]
        /\ \A i \in 1 .. k : pq[h + i] = q[i]
    <2>1. PICK s \in Seq(Symbols), t \in Seq(Symbols) : s = p /\ t = q
      BY <1>1
    <2>2. /\ pq \in Seq(Symbols) /\ Len(pq) = Len(s) + Len(t)
          /\ \A i \in 1 .. Len(s) : pq[i] = s[i]
          /\ \A i \in 1 .. Len(t) : pq[Len(s) + i] = t[i]
      BY <2>1, ConcatAt
    <2>3. QED
      BY <1>1, <2>1, <2>2
  <1>3. ASSUME NEW i \in 1 .. c PROVE pq[i] = w[i]
    <2>1. CASE i <= h
      BY <2>1, <1>2 DEF IsPart
    <2>2. CASE ~(i <= h)
      <3>1. PICK j \in 1 .. k : i = h + j
        <4>1. i - h \in 1 .. k /\ i = h + (i - h)
          BY <2>2
        <4>2. QED
          BY <4>1
      <3>2. QED
        BY <3>1, <1>2 DEF IsPart
    <2>3. QED
      BY <2>1, <2>2
  <1>4. QED
    BY <1>2, <1>3 DEF IsPart

LEMMA PartIsUnique ==
  ASSUME NEW w, NEW o \in Nat, NEW n \in Nat, NEW p, IsPart(p, w, o, n),
         NEW q, IsPart(q, w, o, n)
  PROVE  p = q
  <1>1. /\ p \in Seq(Symbols) /\ q \in Seq(Symbols) /\ Len(p) = Len(q)
        /\ \A i \in 1 .. Len(p) : p[i] = q[i]
    BY DEF IsPart
  <1>2. QED
    BY <1>1, SeqEqual

\* The first n symbols of w.
LEMMA FirstPart ==
  ASSUME NEW w \in Seq(Symbols), NEW n \in Nat, n <= Len(w)
  PROVE  \A p : IsPart(p, w, 0, n) <=> p = SubSeq(w, 1, n)
  <1>1. PICK q : q = SubSeq(w, 1, n)
    OBVIOUS
  <1>2. IsPart(q, w, 0, n)
    <2>1. n \in 0 .. Len(w)
      OBVIOUS
    <2>2. q \in Seq(Symbols) /\ Len(q) = n /\ \A i \in 1 .. n : q[i] = w[i]
      BY <1>1, <2>1, PrefixProperties
    <2>3. QED
      BY <2>2 DEF IsPart
  <1>3. ASSUME NEW p, IsPart(p, w, 0, n) PROVE p = q
    <2>1. 0 \in Nat
      OBVIOUS
    <2>2. QED
      BY <1>2, <1>3, <2>1, PartIsUnique
  <1>4. QED
    BY <1>1, <1>2, <1>3

\* Behind the marker the wire holds the body.
LEMMA PartOfBody ==
  ASSUME NEW r \in Requests, NEW h \in Nat, NEW k \in Nat, h + k <= Len(r.body),
         NEW p, IsPart(p, Wire(r), HeadLen(r) + h, k)
  PROVE  IsPart(p, r.body, h, k)
  <1>1. PICK w \in Seq(Symbols), bytes \in Seq(Symbols), n \in Nat :
          w = Wire(r) /\ bytes = r.body /\ n = HeadLen(r)
    BY RequestFields, WireProperties
  <1>2. h + k <= Len(bytes) /\ IsPart(p, w, n + h, k)
    BY <1>1
  <1>3. \A i \in 1 .. Len(bytes) : w[n + i] = bytes[i]
    BY <1>1, WireProperties
  <1>4. \A i \in 1 .. k : h + i \in 1 .. Len(bytes) /\ n + h + i = n + (h + i)
    BY <1>2
  <1>5. \A i \in 1 .. k : w[n + h + i] = bytes[h + i]
    BY <1>3, <1>4
  <1>6. IsPart(p, bytes, h, k)
    BY <1>2, <1>5 DEF IsPart
  <1>7. QED
    BY <1>1, <1>6

\* A block read after the marker lengthens the body by what belongs to it.
LEMMA BodyGrows ==
  ASSUME NEW r \in Requests, NEW len \in Nat, NEW m \in Nat, m <= Len(r.body),
         NEW h \in Nat, h <= m, h <= len,
         NEW b, IsPart(b, r.body, 0, h),
         NEW block, IsPart(block, Wire(r), HeadLen(r) + h, m - h)
  PROVE  IsPart(b \o ForBody(block, len, h), r.body, 0, IF m < len THEN m ELSE len)
  <1>1. PICK k \in Nat, d \in Nat : k = m - h /\ d = IF len - h < k THEN len - h ELSE k
    <2>1. m - h \in Nat /\ len - h \in Nat
      OBVIOUS
    <2>2. QED
      BY <2>1
  <1>2. Len(r.body) \in Nat /\ h + k <= Len(r.body) /\ d <= k
    BY <1>1, RequestFields
  <1>3. IsPart(block, r.body, h, k)
    BY <1>1, <1>2, PartOfBody
  <1>4. /\ ForBody(block, len, h) = SubSeq(block, 1, d)
        /\ block \in Seq(Symbols) /\ Len(block) = k
    BY <1>1, <1>3 DEF ForBody, IsPart
  <1>5. IsPart(ForBody(block, len, h), block, 0, d)
    <2>1. PICK part : part = SubSeq(block, 1, d)
      OBVIOUS
    <2>2. 1 = 0 + 1 /\ d = 0 + d /\ d <= Len(block) /\ 1 \in Nat /\ 0 \in Nat
      BY <1>1, <1>2, <1>4
    <2>3. IsPart(part, block, 0, d)
      BY <1>4, <2>1, <2>2, PartOf
    <2>4. QED
      BY <1>4, <2>1, <2>3
  <1>6. IsPart(ForBody(block, len, h), r.body, h, d)
    <2>1. 0 \in Nat /\ 0 + d <= k /\ h = h + 0
      BY <1>1, <1>2
    <2>2. QED
      BY <1>1, <1>3, <1>5, <2>1, PartOfPart
  <1>7. PICK c \in Nat : c = h + d /\ c = IF m < len THEN m ELSE len
    <2>1. h + d \in Nat /\ h + d = IF m < len THEN m ELSE len
      BY <1>1
    <2>2. QED
      BY <2>1
  <1>8. IsPart(b \o ForBody(block, len, h), r.body, 0, c)
    <2>1. PICK more : more = b \o ForBody(block, len, h)
      OBVIOUS
    <2>2. IsPart(more, r.body, 0, c)
      BY <1>6, <1>7, <2>1, PartsJoin
    <2>3. QED
      BY <2>1, <2>2
  <1>9. QED
    BY <1>7, <1>8

-----------------------------------------------------------------------------
\* The reader.

\* The header section of r gives no objection.
GoodHeader(r) == HeaderStatus(r, r.text) = 0

\* The marker has not been read whole: everything read is in message.
InHead ==
  /\ taken < HeadLen(req) /\ message = SubSeq(Wire(req), 1, taken)
  /\ ~readHeaders /\ ~readBody /\ ~decoded
  /\ length = 0 /\ body = <<>>

\* The header was good, and what was read behind it is the body so far.
InBody ==
  /\ HeadLen(req) <= taken /\ taken - HeadLen(req) < LengthOf(req)
  /\ readHeaders /\ ~readBody /\ decoded /\ GoodHeader(req)
  /\ length = LengthOf(req) /\ body = SubSeq(req.body, 1, taken - HeadLen(req))
  /\ MaxPost > 0 => taken - HeadLen(req) <= MaxPost

\* While it reads, the worker is in one of the two and has no code.
ReadSoFar == rpc = "reading" => status = 0 /\ (InHead \/ InBody)

\* The inductive invariant of the reader: that its verdict is the one on the whole request
\* needs what it has read so far to be the beginning of that request, whatever the blocks.
ReaderInv == ReaderTypeOK /\ ReadSoFar /\ VerdictOfTheWhole /\ BodyIntact

\* The values of pm_status.
Codes == {0, 400, 411, 500, 501}

\* How a step that takes a part of the body, m symbols of it being there, may end: the
\* request has its verdict, or the rest of the body is to be read.
Judged ==
  /\ rpc' = "read" /\ status' = Verdict(req) /\ status' \in Codes
  /\ status' = 0 => body' = SubSeq(req.body, 1, LengthOf(req))

ReadsOn(m) ==
  /\ rpc' = "reading" /\ status' = 0 /\ readBody' = FALSE /\ m < LengthOf(req)
  /\ body' = SubSeq(req.body, 1, m) /\ (MaxPost > 0 => m <= MaxPost)

\* The last two blocks of the loop, for a header without objection: m symbols of the body
\* have been read by now, h of them before this block.
LEMMA BodyTaken ==
  ASSUME req \in Requests, GoodHeader(req), status = 0, rpc = "reading", MaxPost \in Nat,
         NEW len, len = LengthOf(req),
         NEW m \in Nat, m <= Len(req.body), NEW h \in Nat, h <= m, h <= len,
         MaxPost > 0 => h <= MaxPost,
         IsPart(body, req.body, 0, h),
         NEW block, IsPart(block, Wire(req), HeadLen(req) + h, m - h),
         TakeBody(ForBody(block, len, h), len, NoBodyToRead(req), TRUE)
  PROVE  /\ length' = len /\ body' \in Seq(Symbols) /\ readBody' \in BOOLEAN
         /\ Judged \/ ReadsOn(m)
  <1>1. PICK bytes \in Seq(Symbols) : bytes = req.body /\ len \in Nat /\ Len(bytes) \in Nat
    BY RequestFields
  <1>2. PICK c \in Nat : c = IF m < len THEN m ELSE len
    BY <1>1
  <1>3. c <= Len(bytes)
    BY <1>1, <1>2
  <1>4. PICK more :
          /\ more = body \o ForBody(block, len, h) /\ more = SubSeq(bytes, 1, c)
          /\ more \in Seq(Symbols) /\ Len(more) = c
    <2>1. PICK more : more = body \o ForBody(block, len, h)
      OBVIOUS
    <2>2. IsPart(more, bytes, 0, c)
      BY <1>1, <1>2, <2>1, BodyGrows
    <2>3. more = SubSeq(bytes, 1, c)
      BY <1>1, <1>3, <2>2, FirstPart
    <2>4. QED
      BY <2>1, <2>2, <2>3 DEF IsPart
  <1>5. body \in Seq(Symbols) /\ Len(body) = h
    BY DEF IsPart
  <1>6. /\ req.line /\ req.headers /\ (req.host \/ req.version # "HTTP/1.1")
    BY DEF GoodHeader, HeaderStatus
  <1>7. NoBodyToRead(req) => len = 0
    BY DEF NoBodyToRead, LengthOf, NoLength
  <1>8. ~NoBodyToRead(req) /\ len = 0 => req.length = BadLength
    BY RequestFields DEF NoBodyToRead, LengthOf, NoLength, BadLength
  <1>9. len > 0 => req.length # BadLength
    BY DEF LengthOf, BadLength
  <1>10. NoBodyToRead(req) => req.length # BadLength
    BY DEF NoBodyToRead, NoLength, BadLength
  <1> DEFINE data == ForBody(block, len, h)
  <1>11. body \o data = more /\ Len(body \o data) = c
    BY <1>4
  <1> HIDE DEF data
  <1>12. TakeBody(data, len, NoBodyToRead(req), TRUE)
    BY DEF data
  <1>13. CASE ~NoBodyToRead(req) /\ len = 0
    <2>1. body' = body /\ readBody' = FALSE /\ length' = len
          /\ rpc' = "read" /\ status' = 411
      BY <1>12, <1>13 DEF TakeBody, LeaveLoop
    <2>2. Verdict(req) = 411
      BY <1>6, <1>8, <1>13 DEF Verdict
    <2>3. Judged
      BY <2>1, <2>2 DEF Judged, Codes
    <2>4. QED
      BY <1>5, <2>1, <2>3
  <1>14. CASE ~NoBodyToRead(req) /\ len > 0 /\ MaxPost > 0 /\ c > MaxPost
    <2>1. len # 0 /\ len > 0 /\ MaxPost > 0 /\ Len(body \o data) > MaxPost
      BY <1>1, <1>11, <1>14
    <2>2. body' = more /\ readBody' = FALSE /\ length' = len
          /\ rpc' = "read" /\ status' = 500
      <3>1. /\ length' = len /\ body' = body \o data /\ readBody' = FALSE
            /\ LeaveLoop(500, TRUE, body \o data)
        BY <1>12, <1>14, <2>1 DEF TakeBody
      <3>2. QED
        BY <1>11, <3>1 DEF LeaveLoop
    <2>3. Verdict(req) = 500
      BY <1>1, <1>2, <1>6, <1>9, <1>14 DEF Verdict
    <2>4. Judged
      BY <2>2, <2>3 DEF Judged, Codes
    <2>5. QED
      BY <1>4, <2>2, <2>4
  <1>15. CASE ~NoBodyToRead(req) /\ len > 0 /\ ~(MaxPost > 0 /\ c > MaxPost) /\ m < len
    <2>1. c = m /\ c # len /\ len # 0
      BY <1>1, <1>2, <1>15
    <2>2. body' = more /\ readBody' = FALSE /\ length' = len /\ rpc' = rpc /\ status' = status
      BY <1>11, <1>12, <1>15, <2>1 DEF TakeBody, AllThere
    <2>3. MaxPost > 0 => m <= MaxPost
      BY <1>15, <2>1
    <2>4. ReadsOn(m)
      BY <1>1, <1>4, <1>15, <2>1, <2>2, <2>3 DEF ReadsOn
    <2>5. QED
      BY <1>4, <2>2, <2>4
  <1>16. CASE ~NoBodyToRead(req) /\ len > 0 /\ ~(MaxPost > 0 /\ c > MaxPost) /\ ~(m < len)
    <2>1. c = len /\ len # 0
      BY <1>1, <1>2, <1>16
    <2>2. /\ body' = more /\ readBody' = TRUE /\ length' = len /\ rpc' = "read"
          /\ status' = ParseStatus(req, TRUE, more)
      BY <1>11, <1>12, <1>16, <2>1 DEF TakeBody, AllThere, LeaveLoop
    <2>3. Verdict(req) = ParseStatus(req, TRUE, more)
      BY <1>1, <1>4, <1>6, <1>9, <1>16, <2>1 DEF Verdict, ParseStatus
    <2>4. ParseStatus(req, TRUE, more) \in Codes
      BY DEF ParseStatus, Codes
    <2>5. Judged
      BY <1>1, <1>4, <2>1, <2>2, <2>3, <2>4 DEF Judged
    <2>6. QED
      BY <1>4, <2>2, <2>5
  <1>17. CASE NoBodyToRead(req)
    <2>1. len = 0 /\ h = 0 /\ body = <<>>
      BY <1>1, <1>5, <1>7, <1>17, EmptySeq
    <2>2. Len(body) = 0
      BY <1>5, <2>1
    <2>3. /\ body' = body /\ readBody' = TRUE /\ length' = len /\ rpc' = "read"
          /\ status' = ParseStatus(req, TRUE, body)
      BY <1>12, <1>17, <2>1, <2>2 DEF TakeBody, AllThere, LeaveLoop
    <2>4. Verdict(req) = ParseStatus(req, TRUE, body)
      BY <1>1, <1>6, <1>10, <1>17, <2>1 DEF Verdict, ParseStatus
    <2>5. ParseStatus(req, TRUE, body) \in Codes
      BY DEF ParseStatus, Codes
    <2>6. body = SubSeq(req.body, 1, len)
      BY <2>1, SubSeqEmpty
    <2>7. Judged
      BY <2>3, <2>4, <2>5, <2>6 DEF Judged
    <2>8. QED
      BY <1>5, <2>3, <2>7
  <1>18. QED
    <2>1. len = 0 \/ len > 0
      BY <1>1
    <2>2. QED
      BY <2>1, <1>13, <1>14, <1>15, <1>16, <1>17

\* Nothing has been read.
LEMMA ReaderInvInit == ReaderInit => ReaderInv
  <1> SUFFICES ASSUME ReaderInit PROVE ReaderInv
    OBVIOUS
  <1>1. PICK w \in Seq(Symbols) : w = Wire(req) /\ Len(w) \in Nat
    BY WireProperties DEF ReaderInit
  <1>2. SubSeq(w, 1, 0) = <<>> /\ 0 < HeadLen(req)
    BY RequestFields, WireProperties, SubSeqEmpty DEF ReaderInit
  <1>3. ReaderTypeOK
    <2>1. sent \in 0 .. Len(Wire(req)) /\ taken \in 0 .. sent
      BY <1>1 DEF ReaderInit
    <2>2. <<>> \in Seq(Symbols)
      OBVIOUS
    <2>3. QED
      BY <2>1, <2>2 DEF ReaderInit, ReaderTypeOK
  <1>4. ReadSoFar
    BY <1>1, <1>2 DEF ReaderInit, ReadSoFar, InHead
  <1>5. VerdictOfTheWhole /\ BodyIntact
    BY DEF ReaderInit, VerdictOfTheWhole, BodyIntact
  <1>6. QED
    BY <1>3, <1>4, <1>5 DEF ReaderInv

\* What the client does changes neither what was read nor what is made of it.
LEMMA ClientKeepsReaderInv ==
  ASSUME ReaderInv, ClientSends \/ ClientCloses
  PROVE  ReaderInv'
  <1>1. /\ rpc = "reading" /\ sent' \in sent .. Len(Wire(req)) /\ closed' \in BOOLEAN
        /\ UNCHANGED <<req, taken, message, readHeaders, readBody, length, body, status,
                        decoded, rpc>>
    <2>1. sent \in 0 .. Len(Wire(req)) /\ Len(Wire(req)) \in Nat
      BY WireProperties, LenProperties DEF ReaderInv, ReaderTypeOK
    <2>2. CASE ClientSends
      <3>1. PICK k \in sent + 1 .. Len(Wire(req)) : sent' = k
        BY <2>2 DEF ClientSends
      <3>2. k \in sent .. Len(Wire(req))
        BY <2>1
      <3>3. QED
        BY <2>2, <3>1, <3>2 DEF ClientSends, ReaderInv, ReaderTypeOK
    <2>3. CASE ClientCloses
      <3>1. sent \in sent .. Len(Wire(req))
        BY <2>1
      <3>2. QED
        BY <2>3, <3>1 DEF ClientCloses
    <2>4. QED
      BY <2>2, <2>3
  <1>2. ReaderTypeOK'
    <2>1. sent \in Nat /\ taken \in 0 .. sent /\ Len(Wire(req)) \in Nat
      BY WireProperties, LenProperties DEF ReaderInv, ReaderTypeOK
    <2>2. sent' \in 0 .. Len(Wire(req)) /\ taken \in 0 .. sent'
      BY <1>1, <2>1
    <2>3. QED
      BY <1>1, <2>2 DEF ReaderInv, ReaderTypeOK
  <1>3. ReadSoFar'
    BY <1>1 DEF ReaderInv, ReadSoFar, InHead, InBody
  <1>4. VerdictOfTheWhole' /\ BodyIntact'
    BY <1>1 DEF VerdictOfTheWhole, BodyIntact
  <1>5. QED
    BY <1>2, <1>3, <1>4 DEF ReaderInv

\* A request that has been written whole is not cut off by the end of the connection.
LEMMA ReadEndKeepsReaderInv ==
  ASSUME ReaderInv, ReadEnd
  PROVE  ReaderInv'
  <1>1. /\ rpc = "reading" /\ rpc' = "read" /\ taken = sent /\ status = 0
        /\ UNCHANGED <<req, sent, closed, taken, message, readHeaders, readBody, length,
                        body, decoded>>
        /\ status' = ParseStatus(req, decoded, body)
    BY DEF ReaderInv, ReadSoFar, ReadEnd, LeaveLoop
  <1>2. status' \in {0, 400, 411, 500, 501}
    BY <1>1 DEF ParseStatus
  <1>3. ReaderTypeOK'
    BY <1>1, <1>2 DEF ReaderInv, ReaderTypeOK
  <1>4. ~WholeRequest
    <2>1. /\ taken \in Nat /\ LengthOf(req) \in Nat
          /\ HeadLen(req) = Len(req.text) + 4 /\ HeadLen(req) \in Nat
          /\ Len(req.text) \in Nat
      <3>1. req \in Requests /\ taken \in 0 .. sent /\ sent \in 0 .. Len(Wire(req))
        BY DEF ReaderInv, ReaderTypeOK
      <3>2. QED
        BY <3>1, RequestFields, WireProperties
    <2>2. CASE InHead
      BY <1>1, <2>1, <2>2 DEF InHead, WholeRequest
    <2>3. CASE InBody
      BY <1>1, <2>1, <2>3 DEF InBody, WholeRequest
    <2>4. QED
      BY <1>1, <2>2, <2>3 DEF ReaderInv, ReadSoFar
  <1>5. ~WholeRequest'
    BY <1>1, <1>4 DEF WholeRequest
  <1>6. QED
    BY <1>1, <1>3, <1>5 DEF ReaderInv, ReadSoFar, VerdictOfTheWhole, BodyIntact

\* A block, before the header has been found and after it.
LEMMA ReadKeepsReaderInv ==
  ASSUME ReaderInv, NEW n \in 1 .. BufSize, Read(n)
  PROVE  ReaderInv'
  <1>1. /\ req \in Requests /\ taken \in Nat /\ sent \in Nat /\ taken <= sent
        /\ sent <= Len(Wire(req)) /\ Len(Wire(req)) \in Nat /\ Wire(req) \in Seq(Symbols)
    BY WireProperties, LenProperties DEF ReaderInv, ReaderTypeOK
  <1>2. n \in Nat \ {0} /\ BufSize \in Nat /\ MaxPost \in Nat
    BY BoundsAssumption
  <1>3. /\ HeadLen(req) \in Nat /\ Len(req.body) \in Nat /\ LengthOf(req) \in Nat
        /\ Len(Wire(req)) = HeadLen(req) + Len(req.body)
    BY <1>1, RequestFields, WireProperties
  <1>4. /\ rpc = "reading" /\ status = 0 /\ (InHead \/ InBody)
        /\ taken + n <= sent /\ taken' = taken + n
        /\ req' = req /\ sent' = sent /\ closed' = closed
    BY DEF Read, ReaderInv, ReadSoFar
  <1> DEFINE block == SubSeq(Wire(req), taken + 1, taken + n)
  <1>5. IsPart(block, Wire(req), taken, n)
    <2>1. PICK a \in Nat, z \in Nat : a = taken + 1 /\ z = taken + n
      BY <1>1, <1>2
    <2>2. PICK w \in Seq(Symbols), o \in Nat, k \in Nat : w = Wire(req) /\ o = taken /\ k = n
      BY <1>1, <1>2
    <2>3. a = o + 1 /\ z = o + k /\ z <= Len(w)
      BY <1>1, <1>4, <2>1, <2>2
    <2>4. PICK p : p = SubSeq(w, a, z)
      OBVIOUS
    <2>5. IsPart(p, w, o, k)
      BY <2>3, <2>4, PartOf
    <2>6. p = block
      BY <2>1, <2>2, <2>4
    <2>7. QED
      BY <2>2, <2>5, <2>6
  <1>6. taken' \in 0 .. sent' /\ sent' \in 0 .. Len(Wire(req'))
    BY <1>1, <1>2, <1>4
  <1>7. closed' \in BOOLEAN /\ req' \in Requests
    BY <1>4 DEF ReaderInv, ReaderTypeOK
  <1> HIDE DEF block
  <1>8. SUFFICES
          /\ message' \in Seq(Symbols) /\ body' \in Seq(Symbols) /\ length' \in Nat
          /\ readHeaders' \in BOOLEAN /\ readBody' \in BOOLEAN /\ decoded' \in BOOLEAN
          /\ \/ Judged
             \/ rpc' = "reading" /\ status' = 0 /\ (InHead' \/ InBody')
    <2>1. ASSUME Judged PROVE VerdictOfTheWhole' /\ BodyIntact' /\ ReadSoFar'
      BY <1>4, <2>1 DEF Judged, VerdictOfTheWhole, BodyIntact, ReadSoFar
    <2>2. ASSUME rpc' = "reading", status' = 0, InHead' \/ InBody'
          PROVE  VerdictOfTheWhole' /\ BodyIntact' /\ ReadSoFar'
      BY <2>2 DEF VerdictOfTheWhole, BodyIntact, ReadSoFar
    <2>3. Judged => rpc' \in {"reading", "read"} /\ status' \in {0, 400, 411, 500, 501}
      BY DEF Judged, Codes
    <2>4. QED
      BY <1>6, <1>7, <2>1, <2>2, <2>3 DEF ReaderInv, ReaderTypeOK
  <1>9. CASE InBody
    <2>1. PICK h \in Nat, m \in Nat : h = taken - HeadLen(req) /\ m = h + n
      <3>1. taken - HeadLen(req) \in Nat
        BY <1>1, <1>3, <1>9 DEF InBody
      <3>2. QED
        BY <1>2, <3>1
    <2>2. /\ h <= m /\ m <= Len(req.body) /\ h <= LengthOf(req)
          /\ HeadLen(req) + h = taken /\ m - h = n
          /\ taken' = HeadLen(req) + m
      <3>1. taken - HeadLen(req) < LengthOf(req)
        BY <1>9 DEF InBody
      <3>2. PICK t \in Nat, hd \in Nat, ln \in Nat, bl \in Nat :
              t = taken /\ hd = HeadLen(req) /\ ln = LengthOf(req) /\ bl = Len(req.body)
        BY <1>1, <1>3
      <3>3. h = t - hd /\ t - hd < ln
        BY <2>1, <3>1, <3>2
      <3>4. t + n <= hd + bl
        BY <1>1, <1>2, <1>3, <1>4, <3>2
      <3>5. h = t - hd /\ t - hd < ln /\ t + n <= hd + bl
        BY <3>3, <3>4
      <3>6. h <= m /\ m <= bl /\ h <= ln /\ hd + h = t /\ m - h = n /\ t + n = hd + m
        BY <1>2, <2>1, <3>5
      <3>7. QED
        BY <1>4, <3>2, <3>6
    <2>3. body = SubSeq(req.body, 1, h) /\ (MaxPost > 0 => h <= MaxPost)
      BY <1>9, <2>1 DEF InBody
    <2>4. IsPart(body, req.body, 0, h)
      <3>1. PICK bytes \in Seq(Symbols) : bytes = req.body
        BY <1>1, RequestFields
      <3>2. h <= Len(bytes)
        BY <1>3, <2>2, <3>1
      <3>3. IsPart(body, bytes, 0, h)
        BY <2>3, <3>1, <3>2, FirstPart
      <3>4. QED
        BY <3>1, <3>3
    <2>5. IsPart(block, Wire(req), HeadLen(req) + h, m - h)
      BY <1>5, <2>2
    <2>6. readHeaders /\ readBody = FALSE /\ decoded = TRUE /\ length = LengthOf(req)
          /\ GoodHeader(req) /\ Len(body) = h
      BY <1>9, <2>4 DEF InBody, IsPart, ReaderInv, ReaderTypeOK
    <2>7. NoBodyToRead(req) = FALSE
      BY <1>3, <1>9, <2>1 DEF InBody, NoBodyToRead, LengthOf, NoLength
    <2>8. TakeBody(ForBody(block, LengthOf(req), h), LengthOf(req), NoBodyToRead(req), TRUE)
          /\ UNCHANGED <<message, readHeaders, decoded>>
      BY <2>6, <2>7 DEF Read, block
    <2>9. /\ length' = LengthOf(req) /\ body' \in Seq(Symbols) /\ readBody' \in BOOLEAN
          /\ Judged \/ ReadsOn(m)
      BY <1>1, <1>2, <1>4, <2>2, <2>3, <2>4, <2>5, <2>6, <2>8, BodyTaken
    <2>10. message' \in Seq(Symbols) /\ readHeaders' \in BOOLEAN /\ decoded' \in BOOLEAN
      BY <2>8 DEF ReaderInv, ReaderTypeOK
    <2>11. ASSUME ReadsOn(m) PROVE rpc' = "reading" /\ status' = 0 /\ InBody'
      <3>1. /\ HeadLen(req) <= taken' /\ taken' - HeadLen(req) = m
        BY <1>3, <2>2
      <3>2. QED
        BY <1>4, <2>6, <2>8, <2>9, <2>11, <3>1 DEF ReadsOn, InBody
    <2>12. QED
      BY <1>3, <2>9, <2>10, <2>11
  <1>10. CASE InHead
    <2>1. PICK k \in Nat : k = taken + n /\ k <= Len(Wire(req)) /\ taken' = k
      BY <1>1, <1>2, <1>4
    <2>2. PICK msg : msg = message \o block
      OBVIOUS
    <2>3. PICK w \in Seq(Symbols) : w = Wire(req) /\ Len(w) \in Nat
      BY <1>1
    <2>4. Len(message) = taken /\ message \in Seq(Symbols) /\ IsPart(message, w, 0, taken)
      <3>1. PICK t \in Nat : t = taken /\ t <= Len(w) /\ message = SubSeq(w, 1, t)
        BY <1>1, <1>10, <2>3 DEF InHead
      <3>2. IsPart(message, w, 0, t)
        BY <3>1, FirstPart
      <3>3. QED
        BY <3>1, <3>2 DEF IsPart
    <2>5. msg = SubSeq(w, 1, k) /\ msg \in Seq(Symbols) /\ Len(msg) = k
      <3>1. PICK t \in Nat : t = taken
        BY <1>1
      <3>2. IsPart(message, w, 0, t) /\ IsPart(block, w, t, n) /\ k = t + n
        BY <1>5, <2>1, <2>3, <2>4, <3>1
      <3>3. IsPart(msg, w, 0, k)
        BY <1>2, <2>2, <3>2, PartsJoin
      <3>4. msg = SubSeq(w, 1, k)
        BY <2>1, <2>3, <3>3, FirstPart
      <3>5. QED
        BY <3>3, <3>4 DEF IsPart
    <2> DEFINE found == Markers(msg, SearchPos(Len(message)))
               at    == CHOOSE i \in found : \A j \in found : i <= j
    <2>6. SearchPos(Len(message)) \in 1 .. Len(req.text) + 1
      BY <1>1, <1>10, <2>4, SearchPosOverlaps DEF InHead
    <2>7. /\ k < HeadLen(req) => found = {}
          /\ k >= HeadLen(req) => Len(req.text) + 1 \in found
          /\ \A i \in found : i \in Nat /\ Len(req.text) + 1 <= i
      <3>1. PICK from \in 1 .. Len(req.text) + 1 : from = SearchPos(Len(message))
        BY <2>6
      <3>2. k \in 0 .. Len(Wire(req)) /\ msg = SubSeq(Wire(req), 1, k)
        BY <1>1, <2>1, <2>3, <2>5
      <3>3. QED
        BY <1>1, <3>1, <3>2, MarkersFound
    <2>8. TakeHead(block)
      BY <1>10 DEF Read, InHead, block
    <2>9. message' = msg
      BY <2>2, <2>8 DEF TakeHead
    <2> HIDE DEF found, at
    <2>10. CASE k < HeadLen(req)
      <3>1. found = {}
        BY <2>7, <2>10
      <3>2. UNCHANGED <<readHeaders, readBody, length, body, status, decoded, rpc>>
        BY <2>2, <2>8, <3>1 DEF TakeHead, found
      <3>3. InHead'
        BY <1>4, <1>10, <2>1, <2>3, <2>5, <2>9, <2>10, <3>2 DEF InHead
      <3>4. QED
        BY <1>4, <2>5, <2>9, <3>2, <3>3 DEF ReaderInv, ReaderTypeOK
    <2>11. CASE ~(k < HeadLen(req))
      <3>1. k >= HeadLen(req)
        BY <1>3, <2>1, <2>11
      <3>2. at = Len(req.text) + 1 /\ found # {}
        <4>1. PICK x : x = Len(req.text) + 1 /\ x \in found /\ found \subseteq Int
                       /\ \A i \in found : x <= i
          BY <2>7, <3>1
        <4>2. (CHOOSE i \in found : \A j \in found : i <= j) = x
          BY <4>1, LeastIs
        <4>3. QED
          BY <4>1, <4>2 DEF at
      <3>3. PICK m \in Nat : m = k - HeadLen(req) /\ m <= Len(req.body)
        <4>1. k - HeadLen(req) \in Nat /\ k - HeadLen(req) <= Len(req.body)
          BY <1>3, <2>1, <3>1
        <4>2. QED
          BY <4>1
      <3>4. SubSeq(msg, 1, at - 1) = req.text
        <4>1. k \in HeadLen(req) .. Len(Wire(req)) /\ msg = SubSeq(Wire(req), 1, k)
          BY <1>3, <2>1, <2>3, <2>5, <3>1
        <4>2. at - 1 = Len(req.text)
          BY <1>1, <3>2, RequestFields
        <4>3. QED
          BY <1>1, <4>1, <4>2, TextRead
      <3>5. PICK rest : rest = SubSeq(msg, at + 4, Len(msg))
        OBVIOUS
      <3>6. IsPart(rest, Wire(req), HeadLen(req), m)
        <4>1. PICK o \in Nat, a \in Nat : o = HeadLen(req) /\ a = o + 1
          BY <1>3
        <4>2. a = at + 4 /\ k = o + m
          <5>1. PICK l \in Nat : l = Len(req.text) /\ o = l + 4
            BY <1>1, <4>1, RequestFields, WireProperties
          <5>2. at = l + 1 /\ m = k - o
            BY <3>2, <3>3, <4>1, <5>1
          <5>3. a = (l + 1) + 4
            BY <4>1, <5>1
          <5>4. k = o + m
            BY <5>2
          <5>5. QED
            BY <5>2, <5>3, <5>4
        <4>3. rest = SubSeq(msg, a, k) /\ k <= Len(msg)
          BY <2>1, <2>5, <3>5, <4>2
        <4>4. IsPart(rest, msg, o, m)
          BY <2>1, <2>5, <3>3, <4>1, <4>2, <4>3, PartOf
        <4>5. IsPart(msg, w, 0, k)
          BY <2>1, <2>3, <2>5, FirstPart
        <4>6. 0 \in Nat /\ o + m <= k /\ o = 0 + o
          BY <4>2
        <4>7. IsPart(rest, w, o, m)
          BY <4>4, <4>5, <4>6, PartOfPart
        <4>8. QED
          BY <2>3, <4>1, <4>7
      <3>7. decoded' = req.line /\ req.line \in BOOLEAN
        BY <1>1, <2>2, <2>8, <3>2, RequestFields DEF TakeHead, found
      <3>8. CASE HeaderStatus(req, req.text) # 0
        <4>1. /\ LeaveLoop(HeaderStatus(req, req.text), req.line, body)
              /\ UNCHANGED <<readHeaders, readBody, length, body>>
          BY <2>2, <2>8, <3>2, <3>4, <3>8 DEF TakeHead, found, at
        <4>2. HeaderStatus(req, req.text) = 400 /\ Verdict(req) = 400
          BY <1>1, <3>8, RequestFields DEF HeaderStatus, Verdict
        <4>3. Judged
          BY <4>1, <4>2 DEF LeaveLoop, Judged, Codes
        <4>4. QED
          BY <2>5, <2>9, <3>7, <4>1, <4>3 DEF ReaderInv, ReaderTypeOK
      <3>9. CASE HeaderStatus(req, req.text) = 0
        <4>1. /\ readHeaders' = TRUE
              /\ TakeBody(ForBody(rest, LengthOf(req), 0), LengthOf(req),
                          NoBodyToRead(req), TRUE)
          BY <2>2, <2>8, <3>2, <3>4, <3>5, <3>9 DEF TakeHead, found, at
        <4>2. IsPart(body, req.body, 0, 0)
          <5>1. body = <<>>
            BY <1>10 DEF InHead
          <5>2. QED
            BY <5>1 DEF IsPart
        <4>3. IsPart(rest, Wire(req), HeadLen(req) + 0, m - 0)
          BY <1>3, <3>3, <3>6
        <4>4. GoodHeader(req) /\ 0 \in Nat /\ 0 <= m /\ 0 <= LengthOf(req)
              /\ (MaxPost > 0 => 0 <= MaxPost)
          BY <1>2, <1>3, <3>9 DEF GoodHeader
        <4>5. /\ length' = LengthOf(req) /\ body' \in Seq(Symbols) /\ readBody' \in BOOLEAN
              /\ Judged \/ ReadsOn(m)
          BY <1>1, <1>2, <1>4, <3>3, <4>1, <4>2, <4>3, <4>4, BodyTaken
        <4>6. decoded' = TRUE
          BY <3>7, <4>4 DEF GoodHeader, HeaderStatus
        <4>7. ASSUME ReadsOn(m) PROVE rpc' = "reading" /\ status' = 0 /\ InBody'
          <5>1. HeadLen(req) <= taken' /\ taken' - HeadLen(req) = m
            BY <1>3, <2>1, <3>1, <3>3
          <5>2. QED
            BY <1>4, <4>1, <4>4, <4>5, <4>6, <4>7, <5>1 DEF ReadsOn, InBody
        <4>8. QED
          BY <1>3, <2>5, <2>9, <3>7, <4>1, <4>5, <4>7
      <3>10. QED
        BY <3>8, <3>9
    <2>12. QED
      BY <2>10, <2>11
  <1>11. QED
    BY <1>4, <1>9, <1>10

-----------------------------------------------------------------------------
\* The reply.

\* The calls after which the header has been sent.
Senders == {"raw", "file", "throttled"}

\* The header is the first that is written, and is written once.
HeaderOnce ==
  /\ \A i \in 1 .. Len(out) : out[i].what = "header" <=> i = 1
  /\ ~evt.sent => out = <<>> /\ received = 0
  /\ evt.sent /\ ~gone => out # <<>>

\* The event before the handler, in its hands, and where there is none.
Phases ==
  /\ epc # "waiting" => rpc = "read"
  /\ epc = "waiting" => calls = <<>> /\ ~evt.sent /\ ~evt.redirect /\ evt.buffer = 0
  /\ epc = "failed" => /\ status # 0 /\ evt.status = status
                       /\ calls = <<>> /\ ~evt.sent /\ ~evt.redirect /\ evt.buffer = 0
  /\ epc \in {"handling", "file"} => status = 0
  /\ epc = "handling" /\ ~evt.sent => evt.status = 0
  /\ epc \in {"handling", "file"} => (evt.sent <=> Used \cap Senders # {})
  /\ epc = "done" => evt.sent
  /\ epc = "file" => "file" \in Used
  /\ epc # "file" => file = 0

\* Handlers whose reply has the length it announces: see LengthIsSent.
OneFileAtMost == \A i, j \in DOMAIN calls : calls[i] = "file" /\ calls[j] = "file" => i = j
LengthKnown ==
  /\ Used \cap {"raw", "throttled", "size"} = {}
  /\ ~({"output", "file"} \subseteq Used)
  /\ OneFileAtMost

\* What a file has been announced with is what was sent and what is left.
FileUnderWay ==
  /\ "output" \notin Used /\ ~evt.sent => evt.buffer = 0
  /\ "file" \in Used /\ LengthKnown /\ ~gone /\ evt.status \notin {302, 304, 412} =>
       out[1].size = received + file

\* The inductive invariant of the event: what has been sent is the header and part of the
\* body that the calls so far have announced.
EventInv == /\ EventTypeOK /\ HeaderOnce /\ Phases /\ FileUnderWay
            /\ RefusalIsEmpty /\ LengthIsSent /\ ObjectionIsReplied

\* What is written to the client, piece by piece.
Items == HeaderType \cup DataType

\* f and e agree in every field of an event but the named ones.
SameBut(names, f, e) ==
  /\ f \in EventType
  /\ \A name \in {"get", "since", "unless", "status", "redirect", "modified", "size",
                  "buffer", "sent"} \ names : f[name] = e[name]

\* Setting a field leaves the others alone.
LEMMA EventUpdates ==
  ASSUME NEW e \in EventType
  PROVE  /\ \A b \in Nat : SameBut({"buffer"}, [e EXCEPT !.buffer = b], e)
                           /\ [e EXCEPT !.buffer = b].buffer = b
         /\ SameBut({"redirect"}, [e EXCEPT !.redirect = TRUE], e)
         /\ \A t \in Nat : SameBut({"modified"}, [e EXCEPT !.modified = t], e)
         /\ \A n \in Int : SameBut({"size"}, [e EXCEPT !.size = n], e)
                           /\ [e EXCEPT !.size = n].size = n
         /\ SameBut({"sent"}, [e EXCEPT !.sent = TRUE], e)
         /\ [e EXCEPT !.sent = TRUE].sent = TRUE
  BY DEF SameBut, EventType

\* The events that the constructor makes.
LEMMA FreshIsEvent ==
  ASSUME NEW e \in Fresh
  PROVE  e \in EventType /\ e.sent = FALSE /\ e.redirect = FALSE /\ e.buffer = 0
  <1>1. PICK sizes : sizes = InitialSizes /\ sizes \subseteq Int
    BY ReplyAssumption
  <1>2. e \in [get : BOOLEAN, since : Dates \cup {NoDate}, unless : Dates \cup {NoDate},
               status : {0}, redirect : {FALSE}, modified : {0}, size : sizes,
               buffer : {0}, sent : {FALSE}]
    BY <1>1 DEF Fresh
  <1>3. /\ e.status = 0 /\ e.redirect = FALSE /\ e.modified = 0 /\ e.buffer = 0
        /\ e.sent = FALSE /\ e.size \in sizes
    BY <1>2
  <1>4. e \in EventType
    <2>1. e.size \in Int
      BY <1>1, <1>3
    <2>2. e = [get |-> e.get, since |-> e.since, unless |-> e.unless,
               status |-> e.status, redirect |-> e.redirect, modified |-> e.modified,
               size |-> e.size, buffer |-> e.buffer, sent |-> e.sent]
      BY <1>2
    <2>3. /\ e.get \in BOOLEAN /\ e.since \in Dates \cup {NoDate}
          /\ e.unless \in Dates \cup {NoDate}
      BY <1>2
    <2>4. e.status \in Nat /\ e.modified \in Nat /\ e.buffer \in Nat
      BY <1>3
    <2>5. e.redirect \in BOOLEAN /\ e.sent \in BOOLEAN
      BY <1>3, Zenon
    <2>6. QED
      BY <2>1, <2>2, <2>3, <2>4, <2>5 DEF EventType
  <1>5. QED
    BY <1>3, <1>4

\* check_headers and check_status only touch the code and, with an error page, the text.
LEMMA CheckedProperties ==
  ASSUME NEW e \in EventType
  PROVE  /\ Refusal(e) \in {0, 302, 304, 412}
         /\ SameBut({"status", "buffer"}, Checked(e), e)
         /\ e.status # 0 => Checked(e).status = e.status
         /\ e.status = 0 => Checked(e).status = IF Refusal(e) = 0 THEN 200 ELSE Refusal(e)
         /\ Checked(e).buffer = IF Checked(e).status >= 400 THEN e.buffer + ErrorPage
                                ELSE e.buffer
  <1>1. Refusal(e) \in {0, 302, 304, 412}
    BY DEF Refusal
  <1>2. PICK code \in Nat : code = IF e.status # 0 THEN e.status
                            ELSE IF Refusal(e) # 0 THEN Refusal(e) ELSE 200
    BY <1>1 DEF EventType
  <1>3. PICK b \in Nat : b = IF code >= 400 THEN e.buffer + ErrorPage ELSE e.buffer
    BY ReplyAssumption DEF EventType
  <1>4. Checked(e) = [e EXCEPT !.status = code, !.buffer = b]
    BY <1>2, <1>3 DEF Checked
  <1>5. /\ SameBut({"status", "buffer"}, [e EXCEPT !.status = code, !.buffer = b], e)
        /\ [e EXCEPT !.status = code, !.buffer = b].status = code
        /\ [e EXCEPT !.status = code, !.buffer = b].buffer = b
    BY DEF SameBut, EventType
  <1>6. QED
    BY <1>1, <1>2, <1>3, <1>4, <1>5

\* send_headers, for an event whose header is due and for one whose header was sent.
LEMMA HeaderProperties ==
  ASSUME NEW e \in EventType
  PROVE  /\ SameBut({"status", "buffer", "sent"}, WithHeaders(e), e)
         /\ WithHeaders(e).sent = TRUE
         /\ e.sent => WithHeaders(e) = e /\ HeadersOf(e) = <<>>
         /\ ~e.sent => /\ WithHeaders(e).status = Checked(e).status
                       /\ WithHeaders(e).buffer = Checked(e).buffer
                       /\ HeadersOf(e) = <<Header(Checked(e))>>
         /\ Header(Checked(e)) \in HeaderType
         /\ LengthSent(Checked(e)) \in Int
  <1>1. SameBut({"status", "buffer"}, Checked(e), e) /\ Checked(e) \in EventType
    BY CheckedProperties DEF SameBut
  <1>2. SameBut({"sent"}, [Checked(e) EXCEPT !.sent = TRUE], Checked(e))
        /\ [Checked(e) EXCEPT !.sent = TRUE].sent = TRUE
    BY <1>1, EventUpdates
  <1>3. LengthSent(Checked(e)) \in Int
    BY <1>1 DEF LengthSent, NoSize, EventType
  <1>4. Header(Checked(e)) \in HeaderType
    BY <1>1, <1>3 DEF Header, HeaderType, EventType
  <1>5. CASE e.sent
    BY <1>3, <1>4, <1>5 DEF WithHeaders, HeadersOf, SameBut, EventType
  <1>6. CASE ~e.sent
    BY <1>1, <1>2, <1>3, <1>4, <1>6 DEF WithHeaders, HeadersOf, SameBut
  <1>7. QED
    BY <1>5, <1>6

\* Sequences of one element, and of one more.
LEMMA OneLong ==
  ASSUME NEW S, NEW a \in S
  PROVE  <<a>> \in Seq(S) /\ Len(<<a>>) = 1 /\ <<a>>[1] = a
  OBVIOUS

LEMMA OneMore ==
  ASSUME NEW S, NEW t \in Seq(S), NEW d \in S
  PROVE  /\ Append(t, d) \in Seq(S) /\ Len(Append(t, d)) = Len(t) + 1
         /\ Append(t, d)[Len(t) + 1] = d
         /\ \A i \in 1 .. Len(t) : Append(t, d)[i] = t[i]
  OBVIOUS

\* What writing does to what the client has: a header only comes first, and what is
\* there stays.
LEMMA Written ==
  ASSUME out \in Seq(Items), received \in Nat, gone \in BOOLEAN,
         \A i \in 1 .. Len(out) : out[i].what = "header" <=> i = 1,
         NEW head \in HeaderType, NEW n \in Nat,
         NEW headers, \/ headers = <<head>> /\ out = <<>>
                      \/ headers = <<>> /\ (gone \/ out # <<>>),
         Write(headers, n)
  PROVE  /\ out' \in Seq(Items) /\ received' \in Nat
         /\ \A i \in 1 .. Len(out') : out'[i].what = "header" <=> i = 1
         /\ ~gone => out' # <<>> /\ received' = received + n
         /\ ~gone /\ headers = <<head>> => out'[1] = head
         /\ out # <<>> => out' # <<>> /\ out'[1] = out[1]
  <1>1. head.what = "header" /\ head \in Items
    BY DEF HeaderType, Items
  <1>2. n > 0 => Data(n) \in Items /\ Data(n).what = "data"
    BY DEF Data, DataType, Items
  <1>3. CASE gone
    BY <1>3 DEF Write
  <1>4. CASE ~gone /\ headers = <<head>> /\ out = <<>>
    <2>1. received' = received + n
      BY <1>4 DEF Write
    <2>2. CASE n > 0
      <3>1. PICK d \in Items : d = Data(n)
        BY <1>2, <2>2
      <3>2. PICK t \in Seq(Items) : t = <<head>>
        BY <1>1, OneLong
      <3>3. out' = (out \o headers) \o <<d>>
        BY <1>4, <2>2, <3>1 DEF Write
      <3>4. out \o headers = t
        BY <1>1, <1>4, <3>2
      <3>5. out' = Append(t, d)
        BY <3>3, <3>4
      <3>6. Len(t) = 1 /\ t[1] = head
        BY <1>1, <3>2, OneLong
      <3>7. out' \in Seq(Items) /\ Len(out') = 2 /\ out'[1] = head /\ out'[2] = d
        <4>1. /\ out' \in Seq(Items) /\ Len(out') = Len(t) + 1 /\ out'[Len(t) + 1] = d
              /\ \A i \in 1 .. Len(t) : out'[i] = t[i]
          BY <3>5, OneMore
        <4>2. Len(t) + 1 = 2 /\ 1 \in 1 .. Len(t)
          BY <3>6
        <4>3. QED
          BY <3>6, <4>1, <4>2
      <3>8. d.what = "data" /\ head.what = "header"
        BY <1>1, <1>2, <2>2, <3>1
      <3>9. \A i \in 1 .. Len(out') : out'[i].what = "header" <=> i = 1
        BY <3>7, <3>8
      <3>10. out' # <<>>
        BY <3>7
      <3>11. QED
        BY <1>4, <2>1, <3>7, <3>9, <3>10
    <2>3. CASE ~(n > 0)
      <3>1. out' = <<head>>
        BY <1>4, <2>3 DEF Write
      <3>2. QED
        BY <1>1, <1>4, <2>1, <3>1
    <2>4. QED
      BY <2>2, <2>3
  <1>5. CASE ~gone /\ headers = <<>> /\ out # <<>>
    <2>1. received' = received + n /\ Len(out) \in Nat \ {0}
      BY <1>5, EmptySeq DEF Write
    <2>2. CASE n > 0
      <3>1. out' = Append(out, Data(n))
        BY <1>5, <2>2 DEF Write
      <3>2. QED
        BY <1>2, <1>5, <2>1, <2>2, <3>1
    <2>3. CASE ~(n > 0)
      <3>1. out' = out
        BY <1>5, <2>3 DEF Write
      <3>2. QED
        BY <1>5, <2>1, <3>1
    <2>4. QED
      BY <2>2, <2>3
  <1>6. QED
    BY <1>3, <1>4, <1>5

\* An event whose header is sent now, or has been.
LEMMA HeaderWritten ==
  ASSUME EventTypeOK, HeaderOnce, NEW e \in EventType, e.sent = evt.sent,
         NEW n \in Nat, Write(HeadersOf(e), n), evt' = WithHeaders(e)
  PROVE  /\ evt' \in EventType /\ evt'.sent = TRUE
         /\ out' \in Seq(Items) /\ received' \in Nat
         /\ \A i \in 1 .. Len(out') : out'[i].what = "header" <=> i = 1
         /\ ~gone => out' # <<>> /\ received' = received + n
         /\ ~gone /\ ~evt.sent => out'[1] = Header(Checked(e)) /\ received' = n
         /\ ~gone /\ evt.sent => out'[1] = out[1]
  <1>1. PICK head \in HeaderType : head = Header(Checked(e))
    BY HeaderProperties
  <1>2. PICK headers : headers = HeadersOf(e)
    OBVIOUS
  <1>3. evt' \in EventType /\ evt'.sent = TRUE
    BY HeaderProperties DEF SameBut
  <1>4. /\ out \in Seq(Items) /\ received \in Nat /\ gone \in BOOLEAN
        /\ \A i \in 1 .. Len(out) : out[i].what = "header" <=> i = 1
    BY DEF EventTypeOK, Items, HeaderOnce
  <1>5. CASE ~evt.sent
    <2>1. headers = <<head>> /\ out = <<>> /\ received = 0
      BY <1>1, <1>2, <1>5, HeaderProperties DEF HeaderOnce
    <2>2. Write(headers, n)
      BY <1>2
    <2>3. /\ out' \in Seq(Items) /\ received' \in Nat
          /\ \A i \in 1 .. Len(out') : out'[i].what = "header" <=> i = 1
          /\ ~gone => out' # <<>> /\ received' = received + n
          /\ ~gone => out'[1] = head
      <3>1. headers = <<head>> /\ out = <<>>
        BY <2>1
      <3>2. /\ out' \in Seq(Items) /\ received' \in Nat
            /\ \A i \in 1 .. Len(out') : out'[i].what = "header" <=> i = 1
            /\ ~gone => out' # <<>> /\ received' = received + n
            /\ ~gone /\ headers = <<head>> => out'[1] = head
        BY <1>4, <2>2, <3>1, Written
      <3>3. QED
        BY <2>1, <3>2
    <2>4. received + n = n
      BY <2>1
    <2>5. QED
      BY <1>1, <1>3, <1>5, <2>3, <2>4
  <1>6. CASE evt.sent
    <2>1. headers = <<>> /\ (gone \/ out # <<>>)
      BY <1>2, <1>6, HeaderProperties DEF HeaderOnce
    <2>2. Write(headers, n)
      BY <1>2
    <2>3. /\ out' \in Seq(Items) /\ received' \in Nat
          /\ \A i \in 1 .. Len(out') : out'[i].what = "header" <=> i = 1
          /\ ~gone => out' # <<>> /\ received' = received + n
          /\ out # <<>> => out' # <<>> /\ out'[1] = out[1]
      BY <1>4, <2>1, <2>2, Written
    <2>4. QED
      BY <1>3, <1>6, <2>1, <2>3
  <1>7. QED
    BY <1>5, <1>6

\* One more call.
LEMMA CallMade ==
  ASSUME calls \in Seq(CallKinds), NEW kind \in CallKinds, Call(kind)
  PROVE  /\ calls' \in Seq(CallKinds) /\ Used' = Used \cup {kind} /\ gone' = gone
         /\ epc = "handling"
         /\ OneFileAtMost' => OneFileAtMost /\ (kind = "file" => "file" \notin Used)
  <1>1. calls' = Append(calls, kind) /\ gone' = gone /\ epc = "handling"
    BY DEF Call
  <1>2. /\ calls' \in Seq(CallKinds) /\ Len(calls) \in Nat /\ Len(calls') = Len(calls) + 1
        /\ DOMAIN calls = 1 .. Len(calls) /\ DOMAIN calls' = 1 .. Len(calls) + 1
        /\ \A i \in 1 .. Len(calls) : calls'[i] = calls[i]
        /\ calls'[Len(calls) + 1] = kind
    BY <1>1
  <1>3. Used' = Used \cup {kind}
    <2>1. ASSUME NEW x \in Used' PROVE x \in Used \cup {kind}
      <3>1. PICK i \in 1 .. Len(calls) + 1 : x = calls'[i]
        BY <1>2, <2>1 DEF Used, ToSet
      <3>2. CASE i = Len(calls) + 1
        BY <1>2, <3>1, <3>2
      <3>3. CASE i # Len(calls) + 1
        <4>1. i \in 1 .. Len(calls)
          BY <1>2, <3>3
        <4>2. QED
          BY <1>2, <3>1, <4>1 DEF Used, ToSet
      <3>4. QED
        BY <3>2, <3>3
    <2>2. ASSUME NEW x \in Used \cup {kind} PROVE x \in Used'
      <3>1. CASE x = kind
        <4>1. Len(calls) + 1 \in DOMAIN calls'
          BY <1>2
        <4>2. QED
          BY <1>2, <3>1, <4>1 DEF Used, ToSet
      <3>2. CASE x \in Used
        <4>1. PICK i \in 1 .. Len(calls) : x = calls[i]
          BY <1>2, <3>2 DEF Used, ToSet
        <4>2. i \in DOMAIN calls' /\ calls'[i] = x
          BY <1>2, <4>1
        <4>3. QED
          BY <4>2 DEF Used, ToSet
      <3>3. QED
        BY <3>1, <3>2
    <2>3. QED
      BY <2>1, <2>2
  <1>4. ASSUME OneFileAtMost' PROVE OneFileAtMost
    <2>1. ASSUME NEW i \in DOMAIN calls, NEW j \in DOMAIN calls,
                 calls[i] = "file", calls[j] = "file"
          PROVE  i = j
      <3>1. /\ i \in DOMAIN calls' /\ j \in DOMAIN calls'
            /\ calls'[i] = "file" /\ calls'[j] = "file"
        BY <1>2, <2>1
      <3>2. QED
        BY <1>4, <3>1 DEF OneFileAtMost
    <2>2. QED
      BY <2>1 DEF OneFileAtMost
  <1>5. ASSUME OneFileAtMost', kind = "file", "file" \in Used PROVE FALSE
    <2>1. PICK i \in 1 .. Len(calls) : calls[i] = "file"
      BY <1>2, <1>5 DEF Used, ToSet
    <2>2. i \in DOMAIN calls' /\ Len(calls) + 1 \in DOMAIN calls' /\ calls'[i] = "file"
      BY <1>2, <2>1
    <2>3. i = Len(calls) + 1
      BY <1>2, <1>5, <2>2 DEF OneFileAtMost
    <2>4. QED
      BY <1>2, <2>1, <2>3
  <1>6. QED
    BY <1>1, <1>2, <1>3, <1>4, <1>5

\* Calls that only change a field of the event keep the reply as it is.
LEMMA FieldKeepsEventInv ==
  ASSUME EventInv, ReaderInv,
         NEW kind \in {"output", "redirect", "modified", "size"}, Call(kind),
         NEW names, SameBut(names, evt', evt),
         \/ names = {"buffer"} /\ kind = "output"
         \/ names = {"redirect"} \/ names = {"modified"}
         \/ names = {"size"} /\ kind = "size",
         UNCHANGED <<out, received, file, epc>>, UNCHANGED readerVars
  PROVE  EventInv'
  <1> USE DEF EventInv
  <1>1. calls \in Seq(CallKinds) /\ kind \in CallKinds
    BY DEF EventTypeOK, CallKinds
  <1>2. /\ calls' \in Seq(CallKinds) /\ Used' = Used \cup {kind} /\ gone' = gone
        /\ epc = "handling" /\ (OneFileAtMost' => OneFileAtMost)
    BY <1>1, CallMade
  <1>3. /\ evt' \in EventType /\ evt'.sent = evt.sent /\ evt'.status = evt.status
        /\ kind # "output" => evt'.buffer = evt.buffer
    BY DEF SameBut
  <1>4. EventTypeOK'
    BY <1>2, <1>3 DEF EventTypeOK
  <1>5. HeaderOnce'
    BY <1>2, <1>3 DEF HeaderOnce
  <1>6. Phases'
    BY <1>2, <1>3 DEF Phases, Senders, readerVars
  <1>7. FileUnderWay'
    BY <1>2, <1>3 DEF FileUnderWay, LengthKnown
  <1>8. RefusalIsEmpty' /\ LengthIsSent' /\ ObjectionIsReplied'
    BY <1>2 DEF RefusalIsEmpty, LengthIsSent, ObjectionIsReplied
  <1>9. QED
    BY <1>4, <1>5, <1>6, <1>7, <1>8

\* get_raw_output sends the header before it lets the handler write.
LEMMA GetRawOutputKeepsEventInv ==
  ASSUME EventInv, ReaderInv, GetRawOutput, UNCHANGED readerVars
  PROVE  EventInv'
  <1> USE DEF EventInv
  <1>1. calls \in Seq(CallKinds) /\ "raw" \in CallKinds /\ evt \in EventType
    BY DEF EventTypeOK, CallKinds
  <1>2. /\ calls' \in Seq(CallKinds) /\ Used' = Used \cup {"raw"} /\ gone' = gone
        /\ epc = "handling" /\ epc' = epc /\ file' = file
    BY <1>1, CallMade DEF GetRawOutput
  <1>3. evt' = WithHeaders(evt) /\ Write(HeadersOf(evt), 1)
    BY DEF GetRawOutput
  <1>4. /\ evt' \in EventType /\ evt'.sent = TRUE
        /\ out' \in Seq(Items) /\ received' \in Nat
        /\ \A i \in 1 .. Len(out') : out'[i].what = "header" <=> i = 1
        /\ ~gone => out' # <<>>
    BY <1>1, <1>3, HeaderWritten
  <1>5. EventTypeOK'
    BY <1>2, <1>4 DEF EventTypeOK, Items
  <1>6. HeaderOnce'
    BY <1>2, <1>4 DEF HeaderOnce
  <1>7. Phases'
    BY <1>2, <1>4 DEF Phases, Senders, readerVars
  <1>8. FileUnderWay'
    BY <1>2, <1>4 DEF FileUnderWay, LengthKnown
  <1>9. RefusalIsEmpty' /\ LengthIsSent' /\ ObjectionIsReplied'
    BY <1>2 DEF RefusalIsEmpty, LengthIsSent, ObjectionIsReplied
  <1>10. QED
    BY <1>5, <1>6, <1>7, <1>8, <1>9

\* An event nothing was said of but its size is announced with that size, unless
\* check_headers refuses it.
LEMMA AnnouncedSize ==
  ASSUME NEW e \in EventType, e.status = 0, e.buffer = 0, e.size \in Nat,
         Checked(e).status \notin {302, 304, 412}
  PROVE  /\ Checked(e).status = 200
         /\ LengthSent(Checked(e)) = e.size
  <1>1. /\ Refusal(e) \in {0, 302, 304, 412}
        /\ SameBut({"status", "buffer"}, Checked(e), e)
        /\ Checked(e).status = IF Refusal(e) = 0 THEN 200 ELSE Refusal(e)
        /\ Checked(e).buffer = IF Checked(e).status >= 400 THEN e.buffer + ErrorPage
                               ELSE e.buffer
    BY CheckedProperties
  <1>2. Checked(e).status = 200
    BY <1>1
  <1>3. Checked(e).buffer = 0 /\ Checked(e).size = e.size
    BY <1>1, <1>2 DEF SameBut
  <1>4. QED
    BY <1>2, <1>3 DEF LengthSent, NoSize

\* send_file announces the file and starts to read it, or, throttled, does not.
LEMMA SendFileKeepsEventInv ==
  ASSUME EventInv, ReaderInv, SendFile, UNCHANGED readerVars
  PROVE  EventInv'
  <1> USE DEF EventInv
  <1>1. PICK n \in FileSizes, speed \in Speeds :
          /\ Call(IF speed = 0 THEN "file" ELSE "throttled")
          /\ evt' = WithHeaders([evt EXCEPT !.size = n])
          /\ Write(HeadersOf([evt EXCEPT !.size = n]), 0)
          /\ file' = IF speed = 0 THEN n ELSE 0
          /\ epc' = IF speed = 0 THEN "file" ELSE "handling"
    BY DEF SendFile
  <1>2. PICK kind \in {"file", "throttled"} : kind = IF speed = 0 THEN "file" ELSE "throttled"
    OBVIOUS
  <1>3. calls \in Seq(CallKinds) /\ kind \in CallKinds /\ Call(kind) /\ evt \in EventType
        /\ n \in Nat
    BY <1>1, <1>2, ReplyAssumption DEF EventTypeOK, CallKinds
  <1>4. /\ calls' \in Seq(CallKinds) /\ Used' = Used \cup {kind} /\ gone' = gone
        /\ epc = "handling"
        /\ OneFileAtMost' => OneFileAtMost /\ (kind = "file" => "file" \notin Used)
    BY <1>3, CallMade
  <1>5. PICK e \in EventType : e = [evt EXCEPT !.size = n] /\ SameBut({"size"}, e, evt)
                               /\ e.size = n
    <2>1. PICK e : e = [evt EXCEPT !.size = n]
      OBVIOUS
    <2>2. SameBut({"size"}, e, evt) /\ e.size = n
      <3>1. n \in Int
        BY <1>3
      <3>2. QED
        BY <1>3, <2>1, <3>1, EventUpdates
    <2>3. e \in EventType
      BY <2>2 DEF SameBut
    <2>4. QED
      BY <2>1, <2>2, <2>3
  <1>6. /\ e.sent = evt.sent /\ e.status = evt.status /\ e.buffer = evt.buffer
        /\ evt' = WithHeaders(e) /\ Write(HeadersOf(e), 0)
    BY <1>1, <1>5 DEF SameBut
  <1>7. /\ evt' \in EventType /\ evt'.sent = TRUE
        /\ out' \in Seq(Items) /\ received' \in Nat
        /\ \A i \in 1 .. Len(out') : out'[i].what = "header" <=> i = 1
        /\ ~gone => out' # <<>> /\ received' = received + 0
        /\ ~gone /\ ~evt.sent => out'[1] = Header(Checked(e)) /\ received' = 0
    BY <1>5, <1>6, HeaderWritten
  <1>8. EventTypeOK'
    BY <1>1, <1>3, <1>4, <1>7 DEF EventTypeOK, Items
  <1>9. HeaderOnce'
    BY <1>4, <1>7 DEF HeaderOnce
  <1>10. Phases'
    BY <1>1, <1>2, <1>4, <1>7 DEF Phases, Senders, readerVars
  <1>11. FileUnderWay'
    <2>1. "output" \notin Used' /\ ~evt'.sent => evt'.buffer = 0
      BY <1>7
    <2>2. ASSUME "file" \in Used', LengthKnown', ~gone', evt'.status \notin {302, 304, 412}
          PROVE  out'[1].size = received' + file'
      <3>1. kind = "file" /\ speed = 0 /\ file' = n
        BY <1>1, <1>2, <1>4, <2>2 DEF LengthKnown
      <3>2. "file" \notin Used /\ "output" \notin Used /\ Used \cap Senders = {}
        BY <1>4, <2>2, <3>1 DEF LengthKnown, Senders
      <3>3. ~evt.sent /\ evt.buffer = 0 /\ evt.status = 0
        BY <1>4, <3>2 DEF Phases, FileUnderWay
      <3>4. received' = 0 /\ out'[1] = Header(Checked(e))
        BY <1>4, <1>7, <2>2, <3>3
      <3>5. /\ e.status = 0 /\ e.buffer = 0 /\ e.size = n
            /\ Checked(e).status \notin {302, 304, 412}
        <4>1. ~e.sent /\ e.status = 0 /\ e.buffer = 0 /\ e.size = n
          BY <1>5, <1>6, <3>3
        <4>2. WithHeaders(e).status = Checked(e).status
          BY <1>5, <4>1, HeaderProperties
        <4>3. QED
          BY <1>6, <2>2, <4>1, <4>2
      <3>6. LengthSent(Checked(e)) = n
        <4>1. e.size \in Nat
          BY <1>3, <3>5
        <4>2. LengthSent(Checked(e)) = e.size
          BY <3>5, <4>1, AnnouncedSize
        <4>3. QED
          BY <3>5, <4>2
      <3>7. QED
        BY <1>3, <3>1, <3>4, <3>6 DEF Header
    <2>3. QED
      BY <2>1, <2>2 DEF FileUnderWay
  <1>12. RefusalIsEmpty' /\ LengthIsSent' /\ ObjectionIsReplied'
    BY <1>1 DEF RefusalIsEmpty, LengthIsSent, ObjectionIsReplied
  <1>13. QED
    BY <1>8, <1>9, <1>10, <1>11, <1>12

\* A block of the file is one less to send, and the end of the file or of the client
\* ends the loop.
LEMMA SendBlockKeepsEventInv ==
  ASSUME EventInv, ReaderInv, SendBlock, UNCHANGED readerVars
  PROVE  EventInv'
  <1> USE DEF EventInv
  <1>1. /\ epc = "file" /\ UNCHANGED <<evt, calls, gone>> /\ Used' = Used
        /\ (LengthKnown' <=> LengthKnown) /\ epc' \in {"file", "handling"}
    BY DEF SendBlock, Used, LengthKnown, OneFileAtMost
  <1>2. /\ evt \in EventType /\ out \in Seq(Items) /\ received \in Nat /\ file \in Nat
        /\ gone \in BOOLEAN /\ evt.sent
        /\ \A i \in 1 .. Len(out) : out[i].what = "header" <=> i = 1
    <2>1. "file" \in Used
      BY <1>1 DEF Phases
    <2>2. evt.sent
      BY <1>1, <2>1 DEF Phases, Senders
    <2>3. QED
      BY <2>2 DEF EventTypeOK, Items, HeaderOnce
  <1>3. CASE file > 0 /\ ~gone
    <2>1. Write(<<>>, 1) /\ file' = file - 1 /\ epc' = epc
      BY <1>3 DEF SendBlock
    <2>2. out # <<>>
      BY <1>2, <1>3 DEF HeaderOnce
    <2>3. PICK head : head \in HeaderType
      <3>1. [what |-> "header", status |-> 0, size |-> 0, redirect |-> FALSE] \in HeaderType
        BY DEF HeaderType
      <3>2. QED
        BY <3>1
    <2>4. /\ out' \in Seq(Items) /\ received' \in Nat
          /\ \A i \in 1 .. Len(out') : out'[i].what = "header" <=> i = 1
          /\ received' = received + 1 /\ out' # <<>> /\ out'[1] = out[1]
      BY <1>2, <1>3, <2>1, <2>2, <2>3, Written
    <2>5. EventTypeOK'
      BY <1>1, <1>2, <1>3, <2>1, <2>4 DEF EventTypeOK, Items
    <2>6. HeaderOnce'
      BY <1>1, <1>2, <2>4 DEF HeaderOnce
    <2>7. Phases'
      BY <1>1, <2>1 DEF Phases, Senders, readerVars
    <2>8. FileUnderWay'
      BY <1>1, <1>2, <2>1, <2>4 DEF FileUnderWay
    <2>9. RefusalIsEmpty' /\ LengthIsSent' /\ ObjectionIsReplied'
      BY <1>1 DEF RefusalIsEmpty, LengthIsSent, ObjectionIsReplied
    <2>10. QED
      BY <2>5, <2>6, <2>7, <2>8, <2>9
  <1>4. CASE ~(file > 0 /\ ~gone)
    <2>1. file' = 0 /\ epc' = "handling" /\ UNCHANGED <<out, received>>
      BY <1>4 DEF SendBlock
    <2>2. EventTypeOK'
      BY <1>1, <2>1 DEF EventTypeOK
    <2>3. HeaderOnce'
      BY <1>1, <2>1 DEF HeaderOnce
    <2>4. Phases'
      BY <1>1, <1>2, <2>1 DEF Phases, Senders, readerVars
    <2>5. FileUnderWay'
      BY <1>1, <1>2, <1>4, <2>1 DEF FileUnderWay
    <2>6. RefusalIsEmpty' /\ LengthIsSent' /\ ObjectionIsReplied'
      BY <2>1 DEF RefusalIsEmpty, LengthIsSent, ObjectionIsReplied
    <2>7. QED
      BY <2>2, <2>3, <2>4, <2>5, <2>6
  <1>5. QED
    BY <1>3, <1>4

\* The client may leave, and expects nothing more.
LEMMA ClientLeavesKeepsEventInv ==
  ASSUME EventInv, ReaderInv, ClientLeaves, UNCHANGED readerVars
  PROVE  EventInv'
  <1> USE DEF EventInv
  <1>1. gone' = TRUE /\ UNCHANGED <<evt, out, received, calls, file, epc>>
        /\ Used' = Used /\ epc # "done"
    BY DEF ClientLeaves, Used
  <1>2. EventTypeOK' /\ HeaderOnce'
    BY <1>1 DEF EventTypeOK, HeaderOnce
  <1>3. Phases'
    BY <1>1 DEF Phases, Senders, readerVars
  <1>4. FileUnderWay'
    BY <1>1 DEF FileUnderWay
  <1>5. RefusalIsEmpty' /\ LengthIsSent' /\ ObjectionIsReplied'
    BY <1>1 DEF RefusalIsEmpty, LengthIsSent, ObjectionIsReplied
  <1>6. QED
    BY <1>2, <1>3, <1>4, <1>5

\* The end of send_to_engine: the header if it has not been sent, and with it the text
\* that get_output has collected or the page of an error, unless the body is held back.
LEMMA ReplyKeepsEventInv ==
  ASSUME EventInv, ReaderInv, Reply, UNCHANGED readerVars
  PROVE  EventInv'
  <1> USE DEF EventInv
  <1>1. /\ epc \in {"handling", "failed"} /\ epc' = "done"
        /\ UNCHANGED <<calls, file, gone>> /\ Used' = Used
        /\ evt' = WithHeaders(evt)
        /\ LengthKnown' <=> LengthKnown
    BY DEF Reply, Used, LengthKnown, OneFileAtMost
  <1>2. evt \in EventType /\ evt.sent \in BOOLEAN /\ evt.buffer \in Nat /\ evt.status \in Nat
        /\ status \in {0, 400, 411, 500, 501}
    BY DEF EventTypeOK, EventType, ReaderInv, ReaderTypeOK
  <1>3. evt' \in EventType /\ evt'.buffer \in Nat
    BY <1>1, <1>2, HeaderProperties DEF SameBut, EventType
  <1>4. PICK n \in Nat : n = IF ~evt.sent /\ Refusal(evt) = 0 /\ evt'.buffer > 0
                             THEN evt'.buffer ELSE 0
    BY <1>3
  <1>5. Write(HeadersOf(evt), n)
    BY <1>4 DEF Reply
  <1>6. /\ evt'.sent = TRUE
        /\ out' \in Seq(Items) /\ received' \in Nat
        /\ \A i \in 1 .. Len(out') : out'[i].what = "header" <=> i = 1
        /\ ~gone => out' # <<>> /\ received' = received + n
        /\ ~gone /\ ~evt.sent => out'[1] = Header(Checked(evt)) /\ received' = n
        /\ ~gone /\ evt.sent => out'[1] = out[1]
    <2>1. PICK e \in EventType : e = evt
      BY <1>2
    <2>2. EventTypeOK /\ HeaderOnce /\ e.sent = evt.sent
      BY <2>1
    <2>3. Write(HeadersOf(e), n) /\ evt' = WithHeaders(e)
      BY <1>1, <1>5, <2>1
    <2>4. QED
      BY <2>1, <2>2, <2>3, HeaderWritten
  <1>7. EventTypeOK'
    BY <1>1, <1>3, <1>6 DEF EventTypeOK, Items
  <1>8. HeaderOnce'
    BY <1>1, <1>6 DEF HeaderOnce
  <1>9. Phases'
    BY <1>1, <1>6 DEF Phases, Senders, readerVars
  \* An event whose header is due at the end, and one whose header was sent before.
  <1>10. Used \cap Senders = {} <=> ~evt.sent
    <2>1. CASE epc = "handling"
      BY <1>2, <2>1 DEF Phases
    <2>2. CASE epc = "failed"
      BY <2>2 DEF Phases, Used, ToSet
    <2>3. QED
      BY <1>1, <2>1, <2>2
  <1>11. /\ epc = "handling" => status = 0 /\ (~evt.sent => evt.status = 0)
         /\ epc = "failed" => /\ status # 0 /\ evt.status = status /\ calls = <<>>
                              /\ ~evt.sent /\ ~evt.redirect
         /\ file = 0
    BY <1>1 DEF Phases
  <1>12. /\ Refusal(evt) \in {0, 302, 304, 412}
         /\ evt.status # 0 => Checked(evt).status = evt.status
         /\ evt.status = 0 => Checked(evt).status = IF Refusal(evt) = 0 THEN 200
                                                    ELSE Refusal(evt)
         /\ Checked(evt).buffer = IF Checked(evt).status >= 400
                                  THEN evt.buffer + ErrorPage ELSE evt.buffer
    BY <1>2, CheckedProperties
  <1>13. Checked(evt).size = evt.size /\ evt'.size = evt.size /\ evt'.redirect = evt.redirect
    <2>1. SameBut({"status", "buffer"}, Checked(evt), evt)
      BY <1>2, CheckedProperties
    <2>2. SameBut({"status", "buffer", "sent"}, evt', evt)
      BY <1>1, <1>2, HeaderProperties
    <2>3. QED
      BY <2>1, <2>2 DEF SameBut
  <1>14. /\ evt.sent => evt' = evt
         /\ ~evt.sent => evt'.status = Checked(evt).status /\ evt'.buffer = Checked(evt).buffer
    BY <1>1, <1>2, HeaderProperties
  <1>15. evt.status # 0 => Refusal(evt) = 0
    BY DEF Refusal
  <1>16. ASSUME ~gone, evt.sent PROVE out'[1] = out[1] /\ received' = received /\ n = 0
    <2>1. n = 0
      BY <1>4, <1>16
    <2>2. received \in Nat
      BY DEF EventTypeOK
    <2>3. QED
      BY <1>6, <1>16, <2>1, <2>2
  <1>17. FileUnderWay'
    <2>1. ASSUME "file" \in Used, LengthKnown, ~gone, evt'.status \notin {302, 304, 412}
          PROVE  out'[1].size = received' + file'
      <3>1. evt.sent
        BY <1>2, <1>10, <2>1 DEF Senders
      <3>2. QED
        BY <1>1, <1>14, <1>16, <2>1, <3>1 DEF FileUnderWay
    <2>2. QED
      BY <1>1, <1>6, <2>1 DEF FileUnderWay
  <1>18. RefusalIsEmpty'
    <2>1. ASSUME ~gone, Used \cap Senders = {}
          PROVE  /\ evt'.status \in {302, 304, 412} => received' = 0
                 /\ evt'.redirect => evt'.status = 302
      <3>1. ~evt.sent /\ received' = n /\ evt'.status = Checked(evt).status
        BY <1>6, <1>10, <1>14, <2>1
      <3>2. CASE epc = "handling"
        <4>1. evt'.status = IF Refusal(evt) = 0 THEN 200 ELSE Refusal(evt)
          BY <1>11, <1>12, <3>1, <3>2
        <4>2. evt.redirect => Refusal(evt) = 302
          BY <1>11, <3>1, <3>2 DEF Refusal
        <4>3. QED
          BY <1>4, <1>13, <3>1, <4>1, <4>2
      <3>3. CASE epc = "failed"
        <4>1. evt'.status = status /\ ~evt.redirect /\ status # 0
          BY <1>11, <1>12, <3>1, <3>3
        <4>2. QED
          BY <1>2, <1>13, <4>1
      <3>4. QED
        BY <1>1, <3>2, <3>3
    <2>2. QED
      BY <1>1, <2>1 DEF RefusalIsEmpty, Senders
  <1>19. LengthIsSent'
    <2>1. ASSUME ~gone, LengthKnown, evt'.status \notin {302, 304, 412},
                 "file" \in Used \/ evt'.size = 0
          PROVE  out'[1].size = received'
      <3>1. CASE "file" \in Used
        <4>1. out'[1].size = received' + 0
          BY <1>1, <1>11, <1>17, <2>1, <3>1 DEF FileUnderWay
        <4>2. QED
          <5>1. PICK n0 \in Nat : n0 = received'
            BY <1>6
          <5>2. n0 + 0 = n0
            OBVIOUS
          <5>3. QED
            BY <4>1, <5>1, <5>2
      <3>2. CASE "file" \notin Used
        <4>1. ~evt.sent
          BY <1>10, <2>1, <3>2 DEF LengthKnown, Senders
        <4>2. out'[1] = Header(Checked(evt)) /\ received' = n
          BY <1>6, <2>1, <4>1
        <4>3. Refusal(evt) = 0
          BY <1>12, <1>14, <1>15, <2>1, <4>1
        <4>4. n = IF evt'.buffer > 0 THEN evt'.buffer ELSE 0
          BY <1>4, <4>1, <4>3
        <4>5. LengthSent(Checked(evt)) = IF evt'.buffer > 0 THEN evt'.buffer ELSE 0
          BY <1>3, <1>13, <1>14, <2>1, <3>2, <4>1 DEF LengthSent, NoSize
        <4>6. QED
          BY <4>2, <4>4, <4>5 DEF Header
      <3>3. QED
        BY <3>1, <3>2
    <2>2. ASSUME ~gone', Used' \cap {"raw", "throttled", "size"} = {},
                 ~({"output", "file"} \subseteq Used'), OneFileAtMost',
                 evt'.status \notin {302, 304, 412}, "file" \in Used' \/ evt'.size = 0
          PROVE  out'[1].size = received'
      BY <1>1, <2>1, <2>2 DEF LengthKnown
    <2>3. QED
      BY <2>2 DEF LengthIsSent, OneFileAtMost
  <1>20. ObjectionIsReplied'
    <2>1. ASSUME status # 0
          PROVE  calls = <<>> /\ (~gone => out'[1].status = status /\ received' > 0)
      <3>1. epc = "failed" /\ evt.status = status /\ ~evt.sent /\ calls = <<>>
        BY <1>1, <1>11, <2>1
      <3>2. Checked(evt).status = status /\ status >= 400 /\ Refusal(evt) = 0
        BY <1>2, <1>12, <1>15, <2>1, <3>1
      <3>3. n = evt.buffer + ErrorPage /\ n > 0
        BY <1>2, <1>4, <1>12, <1>14, <3>1, <3>2, ReplyAssumption
      <3>4. QED
        BY <1>6, <3>1, <3>2, <3>3 DEF Header
    <2>2. QED
      BY <1>1, <2>1 DEF ObjectionIsReplied, readerVars
  <1>21. QED
    BY <1>7, <1>8, <1>9, <1>17, <1>18, <1>19, <1>20

\* The calls of a handler that only set a field.
LEMMA SettersKeepEventInv ==
  ASSUME EventInv, ReaderInv, UNCHANGED readerVars,
         GetOutput \/ SetRedirectUrl \/ SetModifiedTime \/ SetContentSize
  PROVE  EventInv'
  <1>1. evt \in EventType /\ evt.buffer + 1 \in Nat
    BY DEF EventInv, EventTypeOK, EventType
  <1>2. CASE GetOutput
    <2>1. evt' = [evt EXCEPT !.buffer = evt.buffer + 1]
      BY <1>2 DEF GetOutput
    <2>2. SameBut({"buffer"}, evt', evt)
      BY <1>1, <2>1, EventUpdates
    <2>3. Call("output") /\ UNCHANGED <<out, received, file, epc>>
      BY <1>2 DEF GetOutput
    <2>4. QED
      BY <2>2, <2>3, FieldKeepsEventInv
  <1>3. CASE SetRedirectUrl
    <2>1. SameBut({"redirect"}, evt', evt)
      BY <1>1, <1>3, EventUpdates DEF SetRedirectUrl
    <2>2. Call("redirect") /\ UNCHANGED <<out, received, file, epc>>
      BY <1>3 DEF SetRedirectUrl
    <2>3. QED
      BY <2>1, <2>2, FieldKeepsEventInv
  <1>4. CASE SetModifiedTime
    <2>1. PICK t \in Nat : evt' = [evt EXCEPT !.modified = t]
      BY <1>4, ReplyAssumption DEF SetModifiedTime
    <2>2. SameBut({"modified"}, evt', evt)
      BY <1>1, <2>1, EventUpdates
    <2>3. Call("modified") /\ UNCHANGED <<out, received, file, epc>>
      BY <1>4 DEF SetModifiedTime
    <2>4. QED
      BY <2>2, <2>3, FieldKeepsEventInv
  <1>5. CASE SetContentSize
    <2>1. PICK n \in Int : evt' = [evt EXCEPT !.size = n]
      BY <1>5, ReplyAssumption DEF SetContentSize
    <2>2. SameBut({"size"}, evt', evt)
      BY <1>1, <2>1, EventUpdates
    <2>3. Call("size") /\ UNCHANGED <<out, received, file, epc>>
      BY <1>5 DEF SetContentSize
    <2>4. QED
      BY <2>2, <2>3, FieldKeepsEventInv
  <1>6. QED
    BY <1>2, <1>3, <1>4, <1>5

-----------------------------------------------------------------------------
\* The two halves together.

\* While the request is read the event has not been touched.
LEMMA ReaderKeepsEventInv ==
  ASSUME EventInv, ReaderInv, ReaderNext, UNCHANGED eventVars
  PROVE  EventInv'
  <1> USE DEF EventInv
  <1>1. rpc = "reading"
    BY DEF ReaderNext, ClientSends, ClientCloses, Read, ReadEnd
  <1>2. epc = "waiting"
    BY <1>1 DEF Phases
  <1>3. UNCHANGED <<evt, out, received, calls, file, gone, epc>> /\ Used' = Used
    BY DEF eventVars, Used
  <1>4. EventTypeOK' /\ HeaderOnce'
    BY <1>3 DEF EventTypeOK, HeaderOnce
  <1>5. Phases'
    BY <1>2, <1>3 DEF Phases
  <1>6. FileUnderWay'
    BY <1>3 DEF FileUnderWay, LengthKnown, OneFileAtMost
  <1>7. RefusalIsEmpty' /\ LengthIsSent' /\ ObjectionIsReplied'
    BY <1>2, <1>3 DEF RefusalIsEmpty, LengthIsSent, ObjectionIsReplied
  <1>8. QED
    BY <1>4, <1>5, <1>6, <1>7

\* The event goes to the engine, or straight to the reply, with the verdict of the reader.
LEMMA SendToEngineKeepsBoth ==
  ASSUME EventInv, ReaderInv, SendToEngine
  PROVE  EventInv' /\ ReaderInv'
  <1>1. PICK e \in Fresh : evt' = [e EXCEPT !.status = status]
    BY DEF SendToEngine
  <1>2. /\ rpc = "read" /\ epc = "waiting"
        /\ epc' = IF status = 0 THEN "handling" ELSE "failed"
        /\ taken' = 0 /\ message' = <<>> /\ length' = 0
        /\ UNCHANGED <<req, sent, closed, readHeaders, readBody, body, status, decoded, rpc>>
        /\ UNCHANGED <<out, received, calls, file, gone>>
    BY DEF SendToEngine
  <1>3. status \in {0, 400, 411, 500, 501} /\ status \in Nat
    BY DEF ReaderInv, ReaderTypeOK
  <1>4. /\ evt' \in EventType /\ evt'.status = status /\ evt'.sent = FALSE
        /\ evt'.redirect = FALSE /\ evt'.buffer = 0
    <2>1. e \in EventType /\ e.sent = FALSE /\ e.redirect = FALSE /\ e.buffer = 0
      BY FreshIsEvent
    <2>2. QED
      BY <1>1, <1>3, <2>1 DEF EventType
  <1>5. EventInv'
    <2> USE DEF EventInv
    <2>1. calls = <<>> /\ Used = {} /\ Used' = {} /\ ~evt.sent /\ file = 0
      BY <1>2 DEF Phases, Used, ToSet
    <2>2. EventTypeOK'
      BY <1>2, <1>4 DEF EventTypeOK
    <2>3. HeaderOnce'
      BY <1>2, <1>4, <2>1 DEF HeaderOnce
    <2>4. Phases'
      BY <1>2, <1>4, <2>1 DEF Phases
    <2>5. FileUnderWay'
      BY <1>4, <2>1 DEF FileUnderWay
    <2>6. RefusalIsEmpty' /\ LengthIsSent' /\ ObjectionIsReplied'
      BY <1>2 DEF RefusalIsEmpty, LengthIsSent, ObjectionIsReplied
    <2>7. QED
      BY <2>2, <2>3, <2>4, <2>5, <2>6
  <1>6. ReaderInv'
    <2> USE DEF ReaderInv
    <2>1. ReaderTypeOK'
      <3>1. req \in Requests /\ sent \in 0 .. Len(Wire(req)) /\ Len(Wire(req)) \in Nat
        BY WireProperties DEF ReaderTypeOK
      <3>2. sent' \in 0 .. Len(Wire(req)) /\ taken' \in 0 .. sent' /\ length' \in Nat
        BY <1>2, <3>1
      <3>3. QED
        BY <1>2, <3>2 DEF ReaderTypeOK
    <2>2. ReadSoFar'
      BY <1>2 DEF ReadSoFar
    <2>3. VerdictOfTheWhole' /\ BodyIntact'
      BY <1>2 DEF VerdictOfTheWhole, BodyIntact, WholeRequest
    <2>4. QED
      BY <2>1, <2>2, <2>3
  <1>7. QED
    BY <1>5, <1>6

\* A call of the handler, what follows from it, and the end of the request.
LEMMA EventStepKeepsEventInv ==
  ASSUME EventInv, ReaderInv, EventNext, UNCHANGED readerVars
  PROVE  EventInv'
  <1>1. CASE GetOutput \/ SetRedirectUrl \/ SetModifiedTime \/ SetContentSize
    BY <1>1, SettersKeepEventInv
  <1>2. CASE GetRawOutput
    BY <1>2, GetRawOutputKeepsEventInv
  <1>3. CASE SendFile
    BY <1>3, SendFileKeepsEventInv
  <1>4. CASE SendBlock
    BY <1>4, SendBlockKeepsEventInv
  <1>5. CASE Reply
    BY <1>5, ReplyKeepsEventInv
  <1>6. CASE ClientLeaves
    BY <1>6, ClientLeavesKeepsEventInv
  <1>7. QED
    BY <1>1, <1>2, <1>3, <1>4, <1>5, <1>6 DEF EventNext, HandlerCall

\* A step of the reader or of its client.
LEMMA ReaderStepKeepsReaderInv ==
  ASSUME ReaderInv, ReaderNext
  PROVE  ReaderInv'
  BY ClientKeepsReaderInv, ReadKeepsReaderInv, ReadEndKeepsReaderInv DEF ReaderNext

\* Steps of the other half.
LEMMA StillReaderInv ==
  ASSUME ReaderInv, UNCHANGED readerVars
  PROVE  ReaderInv'
  BY DEF readerVars, ReaderInv, ReaderTypeOK, ReadSoFar, InHead, InBody, VerdictOfTheWhole,
         BodyIntact, WholeRequest

LEMMA StillEventInv ==
  ASSUME EventInv, UNCHANGED readerVars, UNCHANGED eventVars
  PROVE  EventInv'
  <1> USE DEF EventInv, readerVars, eventVars
  <1>1. Used' = Used
    BY DEF Used
  <1>2. EventTypeOK' /\ HeaderOnce'
    BY DEF EventTypeOK, HeaderOnce
  <1>3. Phases' /\ FileUnderWay'
    BY <1>1 DEF Phases, FileUnderWay, LengthKnown, OneFileAtMost
  <1>4. RefusalIsEmpty' /\ LengthIsSent' /\ ObjectionIsReplied'
    BY <1>1 DEF RefusalIsEmpty, LengthIsSent, ObjectionIsReplied
  <1>5. QED
    BY <1>2, <1>3, <1>4

\* HeaderOnce in the words of the run's property.
LEMMA HeaderOnceMeans ==
  ASSUME EventTypeOK, HeaderOnce, Phases
  PROVE  OneHeaderFirst
  <1>1. DOMAIN out = 1 .. Len(out)
    BY DEF EventTypeOK
  <1>2. \A i \in DOMAIN out : (out[i].what = "header") = (i = 1)
    BY <1>1 DEF HeaderOnce
  <1>3. epc = "done" /\ ~gone => out # <<>>
    BY DEF Phases, HeaderOnce
  <1>4. QED
    BY <1>2, <1>3 DEF OneHeaderFirst

\* The invariant of an exchange: what the reader has so far is what the client wrote, and
\* the reply so far is what the calls of the handler have made of the event.
ExchangeInv == ReaderInv /\ EventInv

\* A new connection.
LEMMA ExchangeInvInit == Init => ExchangeInv
  <1> SUFFICES ASSUME Init PROVE ExchangeInv
    OBVIOUS
  <1>1. ReaderInv
    BY ReaderInvInit DEF Init
  <1>2. evt \in Fresh /\ out = <<>> /\ received = 0 /\ calls = <<>> /\ file = 0
        /\ gone = FALSE /\ epc = "waiting"
    BY DEF Init, EventInit
  <1>3. /\ evt \in EventType /\ evt.sent = FALSE /\ evt.redirect = FALSE /\ evt.buffer = 0
    BY <1>2, FreshIsEvent
  <1>4. Used = {}
    BY <1>2 DEF Used, ToSet
  <1>5. EventTypeOK
    <2>1. out \in Seq(HeaderType \cup DataType) /\ calls \in Seq(CallKinds)
      BY <1>2
    <2>2. QED
      BY <1>2, <1>3, <2>1 DEF EventTypeOK
  <1>6. HeaderOnce /\ Phases /\ FileUnderWay
    BY <1>2, <1>3, <1>4 DEF HeaderOnce, Phases, FileUnderWay
  <1>7. RefusalIsEmpty /\ LengthIsSent /\ ObjectionIsReplied
    BY <1>2 DEF RefusalIsEmpty, LengthIsSent, ObjectionIsReplied
  <1>8. QED
    BY <1>1, <1>5, <1>6, <1>7 DEF ExchangeInv, EventInv

\* Each step of the worker, of its handler and of the client.
LEMMA ExchangeInvStep == ExchangeInv /\ [Next]_vars => ExchangeInv'
  <1> SUFFICES ASSUME ExchangeInv, [Next]_vars PROVE ExchangeInv'
    OBVIOUS
  <1>1. ReaderInv /\ EventInv
    BY DEF ExchangeInv
  <1>2. CASE ReaderNext /\ UNCHANGED eventVars
    BY <1>1, <1>2, ReaderStepKeepsReaderInv, ReaderKeepsEventInv DEF ExchangeInv
  <1>3. CASE SendToEngine
    BY <1>1, <1>3, SendToEngineKeepsBoth DEF ExchangeInv
  <1>4. CASE EventNext /\ UNCHANGED readerVars
    BY <1>1, <1>4, EventStepKeepsEventInv, StillReaderInv DEF ExchangeInv
  <1>5. CASE UNCHANGED vars
    BY <1>1, <1>5, StillReaderInv, StillEventInv DEF ExchangeInv, vars
  <1>6. QED
    BY <1>2, <1>3, <1>4, <1>5 DEF Next

\* The invariant holds throughout.
LEMMA ExchangeInvHolds == Spec => []ExchangeInv
  BY ExchangeInvInit, ExchangeInvStep, PTL DEF Spec

\* Whatever the segments in which a whole request arrives, and whatever the handlers of
\* the engine do afterwards, process_event and parse_request judge it by its content
\* alone: the search for the empty line over block boundaries neither misses nor invents
\* one, and every early exit of the loop gives the code the whole request deserves.
THEOREM JudgedByTheWhole == Spec => []VerdictOfTheWhole
  <1>1. ExchangeInv => VerdictOfTheWhole
    BY DEF ExchangeInv, ReaderInv
  <1>2. QED
    BY <1>1, ExchangeInvHolds, PTL

\* The body handed to the engine is, symbol by symbol, the announced part of what the
\* client wrote: body_buf_pos and body_write_size lose nothing at a block boundary and
\* take nothing of what follows.
THEOREM BodyArrivesIntact == Spec => []BodyIntact
  <1>1. ExchangeInv => BodyIntact
    BY DEF ExchangeInv, ReaderInv
  <1>2. QED
    BY <1>1, ExchangeInvHolds, PTL

\* Every reply is one header and then its body, and one that refuses or redirects has no
\* body, in whichever order a handler calls the functions of front_event_i.
THEOREM RepliesAreWellFormed == Spec => []ReplyWellFormed
  <1>1. ExchangeInv => ReplyWellFormed
    <2> SUFFICES ASSUME ExchangeInv PROVE ReplyWellFormed
      OBVIOUS
    <2>1. TypeOK /\ RefusalIsEmpty
      BY DEF ExchangeInv, ReaderInv, EventInv, TypeOK
    <2>2. OneHeaderFirst
      BY <2>1, HeaderOnceMeans DEF ExchangeInv, EventInv
    <2>3. QED
      BY <2>1, <2>2 DEF ReplyWellFormed
  <1>2. QED
    BY <1>1, ExchangeInvHolds, PTL

\* The length in the header is the length of what follows it, for a handler that leaves
\* its body to get_output or to one send_file.
THEOREM LengthsAreTrue == Spec => []LengthIsSent
  <1>1. ExchangeInv => LengthIsSent
    BY DEF ExchangeInv, EventInv
  <1>2. QED
    BY <1>1, ExchangeInvHolds, PTL

\* The code process_event objects with reaches the client, with a page, and the request
\* no handler.
THEOREM ObjectionsAreReplied == Spec => []ObjectionIsReplied
  <1>1. ExchangeInv => ObjectionIsReplied
    BY DEF ExchangeInv, EventInv
  <1>2. QED
    BY <1>1, ExchangeInvHolds, PTL

=============================================================================
