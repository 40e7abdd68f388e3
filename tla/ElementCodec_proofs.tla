------------------------- MODULE ElementCodec_proofs -------------------------
(***************************************************************************)
(* Proofs about ElementCodec: a reader whose table is Careful reads nothing  *)
(* that is not there, whatever the value and wherever it was cut off.        *)
(***************************************************************************)
EXTENDS ElementCodec, SequenceTheorems, WellFoundedInduction, TLAPS

\* Induction, for a set of numbers.
LEMMA SetInduction ==
  ASSUME NEW S, 0 \in S, \A n \in Nat : n \in S => n + 1 \in S
  PROVE  Nat \subseteq S
<1> SUFFICES ASSUME Nat \ S # {} PROVE FALSE
  OBVIOUS
<1> DEFINE R == {p \in Nat \X Nat : p[1] < p[2]}
           T == Nat \ S
<1>1. IsWellFoundedOn(R, Nat)
  BY NatLessThanWellFounded DEF OpToRel
<1>2. T \subseteq Nat /\ T # {}
  OBVIOUS
<1> HIDE DEF R, T
<1>3. PICK x \in T : \A y \in T : ~(<<y, x>> \in R)
  BY <1>1, <1>2, WFMin
<1>4. x \in Nat /\ x # 0
  BY <1>3 DEF T
<1>5. x - 1 \in Nat /\ x - 1 < x /\ (x - 1) + 1 = x
  BY <1>4
<1>6. x - 1 \in S
  BY <1>3, <1>4, <1>5 DEF R, T
<1> QED
  BY <1>3, <1>5, <1>6 DEF T

-----------------------------------------------------------------------------
(* What the recursive functions are.                                        *)

\* What a reader knows before its first row, and after each.
LEMMA KnownRounds ==
  ASSUME NEW rows, Len(rows) \in Nat
  PROVE  /\ Known(rows)[0] = [behind |-> 0, ahead |-> 1]
         /\ \A n \in 1 .. Len(rows) : Known(rows)[n] = After(rows[n], Known(rows)[n - 1])
<1> DEFINE Round(f, n) ==
             IF n = 0 THEN [behind |-> 0, ahead |-> 1] ELSE After(rows[n], f[n - 1])
           Upto(f, k) == f = [n \in 0 .. k |-> Round(f, n)]
           S == {k \in Nat : \E f : Upto(f, k)}
<1>1. 0 \in S
  <2> DEFINE f == [n \in 0 .. 0 |-> [behind |-> 0, ahead |-> 1]]
  <2>1. Upto(f, 0)
    OBVIOUS
  <2> QED
    BY <2>1
<1>2. ASSUME NEW k \in Nat, k \in S
      PROVE  k + 1 \in S
  <2>1. PICK f : Upto(f, k)
    BY <1>2
  <2> DEFINE g == [n \in 0 .. k + 1 |-> IF n = k + 1 THEN Round(f, n) ELSE f[n]]
  <2>2. \A n \in 0 .. k + 1 : g[n] = Round(g, n)
    <3>1. ASSUME NEW n \in 0 .. k
          PROVE  g[n] = Round(g, n)
      <4>1. n \in 0 .. k + 1 /\ n # k + 1 /\ (n # 0 => n - 1 \in 0 .. k + 1 /\ n - 1 # k + 1)
        OBVIOUS
      <4>2. f[n] = Round(f, n)
        BY <2>1
      <4>3. g[n] = f[n] /\ (n # 0 => g[n - 1] = f[n - 1])
        BY <4>1
      <4> QED
        BY <4>2, <4>3
    <3>2. g[k + 1] = Round(g, k + 1)
      OBVIOUS
    <3>3. \A n \in 0 .. k + 1 : n \in 0 .. k \/ n = k + 1
      OBVIOUS
    <3> HIDE DEF g, Round
    <3> QED
      BY <3>1, <3>2, <3>3
  <2>3. Upto(g, k + 1)
    BY <2>2
  <2> HIDE DEF Upto, g
  <2> QED
    BY <2>3
<1> HIDE DEF S
<1>3. Len(rows) \in S
  BY <1>1, <1>2, SetInduction
<1> DEFINE known == CHOOSE f : Upto(f, Len(rows))
<1>4. Upto(known, Len(rows))
  BY <1>3 DEF S
<1>5. Known(rows) = known
  BY DEF Known
<1> HIDE DEF known
<1>6. \A n \in 0 .. Len(rows) : known[n] = Round(known, n)
  BY <1>4
<1>7. 0 \in 0 .. Len(rows) /\ \A n \in 1 .. Len(rows) : n \in 0 .. Len(rows) /\ n # 0
  OBVIOUS
<1> QED
  BY <1>5, <1>6, <1>7

\* The rounds of MarshalTo: w[n] is what it has written of n rows.
Writing(rows, v, w) ==
  /\ Written(rows, v) = w[Len(rows)] /\ w[0] = <<>>
  /\ \A n \in 1 .. Len(rows) :
       w[n] = w[n - 1] \o Octets(rows[n].field, 1, Width(rows[n], v))

LEMMA WrittenRounds ==
  ASSUME NEW rows, NEW v, Len(rows) \in Nat
  PROVE  \E w : Writing(rows, v, w)
<1> DEFINE Round(f, n) ==
             IF n = 0 THEN <<>>
             ELSE f[n - 1] \o Octets(rows[n].field, 1, Width(rows[n], v))
           Upto(f, k) == f = [n \in 0 .. k |-> Round(f, n)]
           S == {k \in Nat : \E f : Upto(f, k)}
<1>1. 0 \in S
  <2> DEFINE f == [n \in 0 .. 0 |-> <<>>]
  <2>1. Upto(f, 0)
    OBVIOUS
  <2> QED
    BY <2>1
<1>2. ASSUME NEW k \in Nat, k \in S
      PROVE  k + 1 \in S
  <2>1. PICK f : Upto(f, k)
    BY <1>2
  <2> DEFINE g == [n \in 0 .. k + 1 |-> IF n = k + 1 THEN Round(f, n) ELSE f[n]]
  <2>2. \A n \in 0 .. k + 1 : g[n] = Round(g, n)
    <3>1. ASSUME NEW n \in 0 .. k
          PROVE  g[n] = Round(g, n)
      <4>1. n \in 0 .. k + 1 /\ n # k + 1 /\ (n # 0 => n - 1 \in 0 .. k + 1 /\ n - 1 # k + 1)
        OBVIOUS
      <4>2. f[n] = Round(f, n)
        BY <2>1
      <4>3. g[n] = f[n] /\ (n # 0 => g[n - 1] = f[n - 1])
        BY <4>1
      <4> QED
        BY <4>2, <4>3
    <3>2. g[k + 1] = Round(g, k + 1)
      OBVIOUS
    <3>3. \A n \in 0 .. k + 1 : n \in 0 .. k \/ n = k + 1
      OBVIOUS
    <3> HIDE DEF g, Round
    <3> QED
      BY <3>1, <3>2, <3>3
  <2>3. Upto(g, k + 1)
    BY <2>2
  <2> HIDE DEF Upto, g
  <2> QED
    BY <2>3
<1> HIDE DEF S
<1>3. Len(rows) \in S
  BY <1>1, <1>2, SetInduction
<1> DEFINE written == CHOOSE f : Upto(f, Len(rows))
<1>4. Upto(written, Len(rows))
  BY <1>3 DEF S
<1>5. Written(rows, v) = written[Len(rows)]
  BY DEF Written
<1> HIDE DEF written
<1>6. \A n \in 0 .. Len(rows) : written[n] = Round(written, n)
  BY <1>4
<1>7. 0 \in 0 .. Len(rows) /\ \A n \in 1 .. Len(rows) : n \in 0 .. Len(rows) /\ n # 0
  OBVIOUS
<1>8. Writing(rows, v, written)
  BY <1>5, <1>6, <1>7 DEF Writing
<1> QED
  BY <1>8

-----------------------------------------------------------------------------
(* Types.                                                                   *)

Octet == STRING \X Nat
Knowledge == [behind : Nat, ahead : Nat]
ReadersOf(e) == {Readers[e][name] : name \in DOMAIN Readers[e]}
Rows(e) == {MarshalToRows[e]} \cup ReadersOf(e)

\* ReaderAssumption, for one table and one of its rows.
LEMMA Tables ==
  ASSUME NEW e \in Element, NEW rows \in Rows(e)
  PROVE  /\ Len(rows) \in Nat /\ DOMAIN rows = 1 .. Len(rows)
         /\ \A n \in DOMAIN rows : IsRow(rows[n])
         /\ \A n \in DOMAIN rows, v \in Values[e] : Width(rows[n], v) \in Nat
<1>1. /\ rows \in Seq({rows[n] : n \in DOMAIN rows})
      /\ \A n \in DOMAIN rows :
           /\ IsRow(rows[n])
           /\ rows[n].kind # "fixed" => \A v \in Values[e] : v[rows[n].field] \in Nat
  BY ReaderAssumption DEF Rows, ReadersOf
<1>2. Len(rows) \in Nat /\ DOMAIN rows = 1 .. Len(rows)
  BY <1>1
<1>3. ASSUME NEW n \in DOMAIN rows, NEW v \in Values[e]
      PROVE  Width(rows[n], v) \in Nat
  <2>1. rows[n].width \in Nat /\ (rows[n].kind # "fixed" => v[rows[n].field] \in Nat)
    BY <1>1 DEF IsRow
  <2> QED
    BY <2>1 DEF Width
<1> QED
  BY <1>1, <1>2, <1>3

\* MarshalTo writes octets.
LEMMA WrittenType ==
  ASSUME NEW e \in Element, NEW v \in Values[e]
  PROVE  Written(MarshalToRows[e], v) \in Seq(Octet)
<1> DEFINE rows == MarshalToRows[e]
<1>1. rows \in Rows(e)
  BY DEF Rows
<1> HIDE DEF rows
<1>2. PICK w : Writing(rows, v, w)
  BY <1>1, Tables, WrittenRounds
<1> DEFINE S == {n \in Nat : n <= Len(rows) => w[n] \in Seq(Octet)}
<1>3. 0 \in S
  <2>1. w[0] = <<>>
    BY <1>2 DEF Writing
  <2>2. w[0] \in Seq(Octet)
    BY <2>1, EmptySeq
  <2> QED
    BY <2>2
<1>4. ASSUME NEW n \in Nat, n \in S
      PROVE  n + 1 \in S
  <2> SUFFICES ASSUME n + 1 <= Len(rows) PROVE w[n + 1] \in Seq(Octet)
    OBVIOUS
  <2>1. n + 1 \in 1 .. Len(rows) /\ (n + 1) - 1 = n /\ Len(rows) \in Nat
    BY <1>1, Tables
  <2>2. w[n] \in Seq(Octet)
    BY <1>4, <2>1
  <2> DEFINE f == rows[n + 1].field
             k == Width(rows[n + 1], v)
  <2>3. f \in STRING /\ k \in Nat
    BY <1>1, <2>1, Tables DEF IsRow
  <2> HIDE DEF f, k
  <2>4. Octets(f, 1, k) \in Seq(Octet)
    <3>1. (k + 1) - 1 = k
      BY <2>3
    <3>2. Octets(f, 1, k) = [i \in 1 .. k |-> <<f, (1 - 1) + i>>]
      BY <3>1 DEF Octets
    <3>3. \A i \in 1 .. k : (1 - 1) + i \in Nat
      BY <2>3
    <3>4. \A i \in 1 .. k : <<f, (1 - 1) + i>> \in Octet
      BY <2>3, <3>3 DEF Octet
    <3> HIDE DEF Octet
    <3>5. [i \in 1 .. k |-> <<f, (1 - 1) + i>>] \in [1 .. k -> Octet]
      BY <3>4
    <3>6. Octets(f, 1, k) \in [1 .. k -> Octet]
      BY <3>2, <3>5
    <3>7. Octets(f, 1, k) \in UNION {[1 .. m -> Octet] : m \in Nat}
      BY <2>3, <3>6
    <3> QED
      BY <3>7, SeqDef, Zenon
  <2>5. w[n + 1] = w[n] \o Octets(f, 1, k)
    BY <1>2, <2>1 DEF Writing, f, k
  <2> QED
    BY <2>2, <2>4, <2>5, ConcatProperties
<1> HIDE DEF S
<1>5. Len(rows) \in S
  BY <1>1, <1>3, <1>4, SetInduction, Tables
<1> QED
  BY <1>1, <1>2, <1>5, Tables DEF S, Writing, rows

LEMMA EnsuredType ==
  ASSUME NEW r, NEW a \in Nat, r.width \in Nat, r.more \in Nat
  PROVE  Ensured(r, a) \in Nat
<1> DEFINE passed == IF r.kind = "fixed" /\ r.width < a THEN a - r.width ELSE 0
<1>1. passed \in Nat
  <2>1. CASE r.kind = "fixed" /\ r.width < a
    BY <2>1
  <2>2. CASE ~(r.kind = "fixed" /\ r.width < a)
    BY <2>2
  <2> QED
    BY <2>1, <2>2
<1>2. r.more + 1 \in Nat /\ 1 \in Nat
  OBVIOUS
<1>3. Ensured(r, a) \in {passed, r.more + 1, 1}
  BY DEF Ensured
<1> HIDE DEF passed
<1> QED
  BY <1>1, <1>2, <1>3

\* What a reader knows are numbers.
LEMMA KnownType ==
  ASSUME NEW e \in Element, NEW rows \in Rows(e)
  PROVE  \A n \in 0 .. Len(rows) : Known(rows)[n] \in Knowledge
<1> DEFINE known == Known(rows)
           S == {n \in Nat : n <= Len(rows) => known[n] \in Knowledge}
<1>1. /\ known[0] = [behind |-> 0, ahead |-> 1]
      /\ \A n \in 1 .. Len(rows) : known[n] = After(rows[n], known[n - 1])
  BY Tables, KnownRounds
<1> HIDE DEF known
<1>2. 0 \in S
  BY <1>1 DEF Knowledge
<1>3. ASSUME NEW n \in Nat, n \in S
      PROVE  n + 1 \in S
  <2> SUFFICES ASSUME n + 1 <= Len(rows) PROVE known[n + 1] \in Knowledge
    OBVIOUS
  <2>1. n + 1 \in 1 .. Len(rows) /\ (n + 1) - 1 = n
    BY Tables
  <2> DEFINE r == rows[n + 1]
             k == known[n]
  <2>2. k \in Knowledge /\ r.width \in Nat /\ r.more \in Nat
    <3>1. known[n] \in Knowledge
      BY <1>3, <2>1
    <3>2. IsRow(rows[n + 1])
      BY <2>1, Tables
    <3> QED
      BY <3>1, <3>2 DEF IsRow
  <2>3. known[n + 1] = After(r, k)
    BY <1>1, <2>1
  <2> HIDE DEF r, k
  <2>4. Ensured(r, k.ahead) \in Nat
    BY <2>2, EnsuredType DEF Knowledge
  <2> QED
    BY <2>2, <2>3, <2>4 DEF After, Knowledge
<1> HIDE DEF S
<1>4. Nat \subseteq S
  BY <1>2, <1>3, SetInduction
<1>5. ASSUME NEW n \in 0 .. Len(rows)
      PROVE  known[n] \in Knowledge
  <2>1. n \in Nat /\ n <= Len(rows)
    BY Tables
  <2> QED
    BY <1>4, <2>1 DEF S
<1> QED
  BY <1>5 DEF known

-----------------------------------------------------------------------------
(* One row.                                                                 *)

\* What a reader knows is true of its place in so many octets.
Holds(k, place, len) == place >= k.behind /\ (k.ahead > 0 => place + k.ahead <= len + 1)
True(k) == Holds(k, offset, Len(octets))

\* A total that is too small leaves less than nothing.
LEMMA UnderstatedType ==
  ASSUME NEW r, IsRow(r), NEW w \in Understated(r)
  PROVE  /\ w \in Int /\ w < 0
         /\ r.total > 0 /\ r.keeps /\ r.first = 0 /\ ~r.narrow
<1>1. r.total \in Nat
  BY DEF IsRow
<1>2. PICK n \in 1 .. r.total : w = 0 - n
  BY DEF Understated
<1>3. r.total > 0 /\ w \in Int /\ w < 0
  BY <1>1, <1>2
<1> QED
  BY <1>3 DEF IsRow

\* The other widths that a row may have for a reader are numbers.  A rest leaves `more` octets,
\* a field that ends with the octets takes no more of them than there are.
LEMMA WidthsType ==
  ASSUME NEW r, IsRow(r), element \in Element, value \in Values[element],
         \A v \in Values[element] : Width(r, v) \in Nat,
         offset \in Nat, octets \in Seq(Octet), NEW w \in Widths(r) \ Understated(r)
  PROVE  /\ w \in Nat
         /\ r.kind = "fixed" => w \in {0, r.width}
         /\ r.kind = "fixed" /\ r.flag = Nothing => w = r.width
         /\ Variable(r) => w <= Left
         /\ r.kind = "rest" => w + r.more <= Left \/ w = 0
<1>1. Left \in Nat
  BY DEF Left
<1>2. \A v \in Announced(r) : v \in Values[element]
  BY DEF Announced
<1>3. r.more \in Nat /\ r.width \in Nat
  BY DEF IsRow
<1>4. CASE r.kind = "rest"
  <2>1. w = IF Left > r.more THEN Left - r.more ELSE 0
    BY <1>4 DEF Widths
  <2> QED
    BY <1>1, <1>3, <1>4, <2>1 DEF Variable
<1>5. CASE r.kind = "upto"
  <2>1. PICK v \in Announced(r) : w = IF Width(r, v) > Left THEN Left ELSE Width(r, v)
    BY <1>5 DEF Widths
  <2>2. Width(r, v) \in Nat
    BY <1>2
  <2> QED
    BY <1>1, <1>5, <2>1, <2>2 DEF Variable
<1>6. CASE r.kind \notin {"rest", "upto"}
  <2>1. PICK v \in Announced(r) : w = Width(r, v)
    BY <1>6 DEF Widths
  <2>2. w \in Nat
    BY <1>2, <2>1
  <2>3. r.kind = "fixed" => w = IF r.flag # Nothing /\ v[r.flag] = 0 THEN 0 ELSE r.width
    BY <2>1 DEF Width
  <2> QED
    BY <1>6, <2>2, <2>3 DEF Variable
<1> QED
  BY <1>4, <1>5, <1>6

\* A row that a reader has passed over, or taken after its checks.
Passed(r, w) ==
  \/ ~r.keeps \/ (w = 0 /\ ~Variable(r))
  \/ r.keeps /\ (w > 0 \/ Variable(r)) /\ ~TooShort(r, w)

\* The distances along the octets.
LEMMA Distance ==
  \A b, o, x, y \in Nat : o >= b => o + x >= b /\ (x = y => o + x >= b + y)
  OBVIOUS

LEMMA Difference ==
  \A o, x, y, z, l \in Nat :
    y < z /\ x <= y /\ o + z <= l + 1 =>
      z - y \in Nat /\ z - y <= z /\ o + x + (z - y) <= l + 1
  OBVIOUS

\* Where a row ends, the octets are left that the reader is then sure of.
LEMMA AfterTaken ==
  ASSUME NEW r, IsRow(r), NEW k \in Knowledge, True(k), element \in Element,
         value \in Values[element], \A v \in Values[element] : Width(r, v) \in Nat,
         offset \in Nat, octets \in Seq(Octet), NEW w \in Widths(r) \ Understated(r),
         Passed(r, w)
  PROVE  Holds(After(r, k), offset + w, Len(octets))
<1> DEFINE a == k.ahead
           e == Ensured(r, a)
           L == Len(octets)
<1>1. /\ w \in Nat /\ a \in Nat /\ k.behind \in Nat /\ L \in Nat
      /\ r.width \in Nat /\ r.more \in Nat
      /\ r.kind \in {"fixed", "counted", "upto", "rest"}
      /\ r.checked \in BOOLEAN /\ r.keeps \in BOOLEAN
      /\ offset >= k.behind /\ (a > 0 => offset + a <= L + 1)
  <2>1. w \in Nat
    BY WidthsType
  <2>2. /\ r.width \in Nat /\ r.more \in Nat
        /\ r.kind \in {"fixed", "counted", "upto", "rest"}
        /\ r.checked \in BOOLEAN /\ r.keeps \in BOOLEAN
    BY DEF IsRow
  <2>3. a \in Nat /\ k.behind \in Nat /\ L \in Nat
    BY DEF Knowledge
  <2> QED
    BY <2>1, <2>2, <2>3 DEF True, Holds
<1>2. /\ r.kind = "fixed" => w \in {0, r.width}
      /\ Always(r) => w = r.width /\ w > 0 /\ r.kind = "fixed"
      /\ Variable(r) => w <= Left
      /\ r.kind = "rest" => w + r.more <= Left \/ w = 0
  BY <1>1, WidthsType DEF Always
<1>3. /\ After(r, k).behind = IF Always(r) THEN k.behind + r.width ELSE k.behind
      /\ After(r, k).ahead = IF Always(r) \/ e < a THEN e ELSE a
  BY DEF After
<1>4. offset + w >= After(r, k).behind
  <2>1. CASE Always(r)
    <3>1. After(r, k).behind = k.behind + r.width /\ w = r.width
      BY <1>2, <1>3, <2>1
    <3> QED
      BY <1>1, <3>1, Distance
  <2>2. CASE ~Always(r)
    <3>1. After(r, k).behind = k.behind
      BY <1>3, <2>2
    <3> QED
      BY <1>1, <3>1, Distance
  <2> QED
    BY <2>1, <2>2
<1>5. e \in Nat
  BY <1>1, EnsuredType
<1>6. Variable(r) /\ a > 0 => offset <= L /\ Left = L - offset
  BY <1>1 DEF Left
<1>7. /\ r.keeps /\ r.checked /\ ~r.narrow /\ ~Variable(r) /\ w > 0 =>
           offset + w + r.more <= L
      /\ r.keeps /\ ~Variable(r) /\ w = 0 => ~Always(r)
  BY <1>1, <1>2 DEF Passed, TooShort
<1>8. ASSUME After(r, k).ahead > 0
      PROVE  (offset + w) + After(r, k).ahead <= L + 1
  <2>1. a > 0 \/ (Always(r) /\ e > 0)
    BY <1>1, <1>3, <1>5, <1>8
  <2>2. CASE r.kind = "rest"
    <3>1. e = r.more + 1 /\ ~Always(r) /\ Variable(r)
      BY <2>2 DEF Ensured, Always, Variable
    <3>2. a > 0 /\ offset <= L /\ Left = L - offset
      BY <1>6, <2>1, <3>1
    <3>3. After(r, k).ahead \in Nat /\ After(r, k).ahead <= a /\ After(r, k).ahead <= e
      BY <1>1, <1>3, <1>5, <3>1
    <3>4. CASE w + r.more <= Left
      BY <1>1, <3>1, <3>2, <3>3, <3>4
    <3>5. CASE w = 0
      BY <1>1, <3>2, <3>3, <3>5
    <3> QED
      BY <1>2, <2>2, <3>4, <3>5
  <2>3. CASE r.kind = "upto"
    <3>1. e = 1 /\ ~Always(r) /\ Variable(r)
      BY <2>3 DEF Ensured, Always, Variable
    <3>2. a > 0 /\ offset <= L /\ Left = L - offset
      BY <1>6, <2>1, <3>1
    <3>3. After(r, k).ahead <= 1 /\ w <= L - offset
      BY <1>1, <1>2, <1>3, <1>5, <3>1, <3>2
    <3> QED
      BY <1>1, <1>5, <3>2, <3>3, <3>1, <1>3
  <2>4. CASE r.kind \notin {"rest", "upto"}
    <3> DEFINE passed == IF r.kind = "fixed" /\ r.width < a THEN a - r.width ELSE 0
    <3>1. /\ passed \in Nat /\ passed <= a
          /\ passed > 0 => offset + w + passed <= L + 1
      <4>1. CASE r.kind = "fixed" /\ r.width < a
        <5>1. passed = a - r.width /\ w <= r.width
          BY <1>1, <1>2, <4>1
        <5>2. offset + a <= L + 1
          BY <1>1, <4>1
        <5> HIDE DEF passed
        <5> QED
          BY <1>1, <4>1, <5>1, <5>2, Difference
      <4>2. CASE ~(r.kind = "fixed" /\ r.width < a)
        <5>1. passed = 0
          BY <4>2
        <5> HIDE DEF passed
        <5> QED
          BY <1>1, <5>1
      <4> QED
        BY <4>1, <4>2
    <3>2. e = IF r.keeps /\ r.checked /\ ~r.narrow /\ passed <= r.more
              THEN r.more + 1 ELSE passed
      BY <2>4 DEF Ensured
    <3>3. ~Variable(r)
      BY <2>4 DEF Variable
    <3> HIDE DEF passed
    <3>4. CASE r.keeps /\ r.checked /\ ~r.narrow /\ passed <= r.more
      <4> DEFINE ahead == After(r, k).ahead
      <4>1. e = r.more + 1 /\ ahead \in Nat /\ ahead <= e
        BY <1>1, <1>3, <1>5, <3>2, <3>4
      <4>2. ~Always(r) => ahead <= a
        BY <1>1, <1>3, <1>5
      <4> HIDE DEF ahead
      <4>3. CASE w > 0
        <5>1. offset + w + r.more <= L
          BY <1>7, <3>3, <3>4, <4>3
        <5>2. (offset + w) + ahead <= L + 1
          BY <1>1, <4>1, <5>1
        <5> QED
          BY <5>2 DEF ahead
      <4>4. CASE w = 0
        <5>1. ~Always(r)
          BY <1>7, <3>3, <3>4, <4>4
        <5>2. ahead > 0 /\ ahead <= a
          BY <1>8, <4>2, <5>1 DEF ahead
        <5>3. a > 0 /\ offset + a <= L + 1
          BY <1>1, <4>1, <5>2
        <5>4. (offset + w) + ahead <= L + 1
          BY <1>1, <4>1, <4>4, <5>2, <5>3
        <5> QED
          BY <5>4 DEF ahead
      <4> QED
        BY <1>1, <4>3, <4>4
    <3>5. CASE ~(r.keeps /\ r.checked /\ ~r.narrow /\ passed <= r.more)
      <4>1. e = passed
        BY <3>2, <3>5
      <4>2. After(r, k).ahead = passed
        BY <1>1, <1>3, <3>1, <4>1
      <4> QED
        BY <1>8, <3>1, <4>2
    <3> QED
      BY <3>4, <3>5
  <2> QED
    BY <2>2, <2>3, <2>4
<1> QED
  BY <1>4, <1>8 DEF Holds

\* The same where it goes on without the row.
LEMMA AfterNone ==
  ASSUME NEW r, IsRow(r), NEW k \in Knowledge, True(k), offset \in Nat, octets \in Seq(Octet),
         r.short = "none"
  PROVE  True(After(r, k))
<1>1. ~Always(r)
  BY DEF Always
<1>2. k.ahead \in Nat /\ Ensured(r, k.ahead) \in Nat /\ Len(octets) \in Nat
  BY EnsuredType DEF IsRow, Knowledge
<1>3. After(r, k).behind = k.behind /\ After(r, k).ahead \in Nat /\ After(r, k).ahead <= k.ahead
  BY <1>1, <1>2 DEF After
<1> QED
  BY <1>2, <1>3 DEF True, Holds

\* What a row takes is there, if it is covered by what the reader knows.
LEMMA TakesInRange ==
  ASSUME NEW r, IsRow(r), NEW k \in Knowledge, True(k), element \in Element,
         value \in Values[element], \A v \in Values[element] : Width(r, v) \in Nat,
         offset \in Nat, octets \in Seq(Octet), NEW w \in Widths(r) \ Understated(r),
         r.keeps, w > 0 \/ Variable(r), ~TooShort(r, w), Covered(r, k)
  PROVE  r.room /\ InRange(r, w)
<1> DEFINE L == Len(octets)
<1>1. /\ w \in Nat /\ k.ahead \in Nat /\ k.behind \in Nat /\ L \in Nat
      /\ r.width \in Nat /\ r.more \in Nat /\ r.first \in Nat /\ r.last \in Nat
      /\ offset >= k.behind /\ (k.ahead > 0 => offset + k.ahead <= L + 1)
      /\ r.kind = "fixed" => w \in {0, r.width}
      /\ Variable(r) => w <= Left
  <2>1. /\ w \in Nat
        /\ r.kind = "fixed" => w \in {0, r.width}
        /\ Variable(r) => w <= Left
    BY WidthsType
  <2>2. r.width \in Nat /\ r.more \in Nat /\ r.first \in Nat /\ r.last \in Nat
    BY DEF IsRow
  <2>3. k.ahead \in Nat /\ k.behind \in Nat /\ L \in Nat
    BY DEF Knowledge
  <2> QED
    BY <2>1, <2>2, <2>3 DEF True, Holds
<1>2. /\ r.room /\ ~r.narrow
      /\ r.first > 0 =>
           /\ r.kind = "fixed" /\ r.checked
           /\ r.first <= r.last /\ r.last <= k.behind + r.width + r.more
      /\ Variable(r) => k.ahead > 0
      /\ ~Variable(r) /\ ~r.checked => r.kind = "fixed" /\ r.width < k.ahead
  BY DEF Covered
<1>3. r.checked /\ ~Variable(r) => w > 0 /\ offset + w + r.more <= L
  BY <1>1, <1>2 DEF TooShort
<1>4. CASE r.first > 0
  <2>1. ~Variable(r)
    BY <1>2, <1>4 DEF Variable
  <2>2. From(r) = r.first /\ To(r, w) = r.last
    BY <1>4 DEF From, To
  <2>3. w = r.width
    BY <1>1, <1>2, <1>3, <1>4, <2>1
  <2>4. r.first <= r.last /\ r.last <= k.behind + r.width + r.more
    BY <1>2, <1>4
  <2>5. offset + w + r.more <= L
    BY <1>2, <1>3, <1>4, <2>1
  <2>6. r.first <= r.last + 1 /\ r.last <= L
    <3>1. /\ k.behind \in Nat /\ r.more \in Nat /\ r.first \in Nat /\ r.last \in Nat
          /\ w \in Nat /\ L \in Nat /\ offset >= k.behind
      BY <1>1
    <3>2. r.last <= k.behind + w + r.more
      BY <2>3, <2>4
    <3>3. k.behind + w + r.more <= offset + w + r.more
      BY <3>1
    <3>4. r.last <= L
      BY <2>5, <3>1, <3>2, <3>3
    <3> QED
      BY <2>4, <3>1, <3>4
  <2> QED
    BY <1>2, <2>2, <2>6 DEF InRange
<1>5. CASE ~(r.first > 0)
  <2>1. From(r) = offset + 1 /\ To(r, w) = offset + w
    BY <1>2, <1>5 DEF From, To
  <2>2. offset + w <= L
    <3>1. CASE Variable(r)
      <4>1. k.ahead > 0 /\ w <= Left
        BY <1>1, <1>2, <3>1
      <4>2. offset <= L
        BY <1>1, <4>1
      <4>3. Left = L - offset
        BY <1>1, <4>2 DEF Left
      <4> QED
        BY <1>1, <4>1, <4>3
    <3>2. CASE ~Variable(r) /\ r.checked
      <4>1. offset + w + r.more <= L
        BY <1>3, <3>2
      <4> QED
        BY <1>1, <4>1
    <3>3. CASE ~Variable(r) /\ ~r.checked
      <4>1. w = r.width /\ r.width < k.ahead
        BY <1>1, <1>2, <3>3
      <4>2. offset + k.ahead <= L + 1
        BY <1>1, <4>1
      <4> QED
        BY <1>1, <4>1, <4>2
    <3> QED
      BY <3>1, <3>2, <3>3
  <2>3. offset + 1 <= (offset + w) + 1
    BY <1>1
  <2> QED
    BY <1>2, <2>1, <2>2, <2>3 DEF InRange
<1> QED
  BY <1>4, <1>5

-----------------------------------------------------------------------------
(* The reader.                                                              *)

TheRows == Readers[element][reader]

\* A reader starts at the first octet, with its own rows.
InPlace ==
  /\ element \in Element /\ value \in Values[element]
  /\ octets \in Seq(Octet) /\ offset \in Nat
  /\ phase \in {"built", "marshalled"} => row = 1 /\ offset = 0
  /\ phase = "reading" =>
       /\ reader \in DOMAIN Readers[element]
       /\ row \in 1 .. Len(TheRows) + 1

\* What it knows after the rows that it has read is true: NeverBeyond alone says nothing
\* of a reader that is still within its octets.
KnowsRight == phase = "reading" => True(Known(TheRows)[row - 1])

Inside == InPlace /\ KnowsRight /\ NeverBeyond

LEMMA InsideInit == Init => Inside
<1> SUFFICES ASSUME Init PROVE Inside
  OBVIOUS
<1>1. octets \in Seq(Octet)
  BY EmptySeq DEF Init
<1> QED
  BY <1>1 DEF Init, Inside, InPlace, KnowsRight, NeverBeyond

\* The row that is read, and what the lemmas about a row ask of it.
LEMMA ThisRow ==
  ASSUME Inside, Reading
  PROVE  /\ element \in Element /\ value \in Values[element]
         /\ octets \in Seq(Octet) /\ offset \in Nat
         /\ reader \in DOMAIN Readers[element] /\ TheRows \in Rows(element)
         /\ row \in 1 .. Len(TheRows) /\ row \in Nat /\ Len(TheRows) \in Nat
         /\ row \in DOMAIN TheRows /\ This = TheRows[row]
         /\ IsRow(This) /\ \A v \in Values[element] : Width(This, v) \in Nat
         /\ Known(TheRows)[row - 1] \in Knowledge /\ True(Known(TheRows)[row - 1])
         /\ Known(TheRows)[row] = After(This, Known(TheRows)[row - 1])
<1>1. /\ element \in Element /\ value \in Values[element]
      /\ octets \in Seq(Octet) /\ offset \in Nat
      /\ reader \in DOMAIN Readers[element]
      /\ phase = "reading" /\ row \in DOMAIN TheRows
  BY DEF Inside, InPlace, Reading, TheRows
<1>2. TheRows \in Rows(element)
  BY <1>1 DEF Rows, ReadersOf, TheRows
<1>3. /\ Len(TheRows) \in Nat /\ row \in 1 .. Len(TheRows)
      /\ IsRow(TheRows[row]) /\ \A v \in Values[element] : Width(TheRows[row], v) \in Nat
  BY <1>1, <1>2, Tables
<1>4. row - 1 \in 0 .. Len(TheRows) /\ row \in Nat
  BY <1>3
<1>5. Known(TheRows)[row - 1] \in Knowledge
  BY <1>1, <1>2, <1>4, KnownType
<1>6. Known(TheRows)[row] = After(TheRows[row], Known(TheRows)[row - 1])
  BY <1>3, KnownRounds
<1>7. True(Known(TheRows)[row - 1])
  BY <1>1 DEF Inside, KnowsRight
<1>8. This = TheRows[row]
  BY DEF This, TheRows
<1> QED
  BY <1>1, <1>2, <1>3, <1>4, <1>5, <1>6, <1>7, <1>8

\* The next row is reached with what is true there.
LEMMA Advances ==
  ASSUME Inside, Reading, NEW w \in Nat, GoOn(w),
         Holds(After(This, Known(TheRows)[row - 1]), offset + w, Len(octets))
  PROVE  Inside'
<1>1. /\ offset' = offset + w /\ row' = row + 1 /\ TheRows' = TheRows
      /\ element' = element /\ value' = value /\ octets' = octets /\ reader' = reader
      /\ phase' = phase
  BY DEF GoOn, TheRows
<1>2. (row + 1) - 1 = row /\ row + 1 \in 1 .. Len(TheRows) + 1 /\ offset + w \in Nat
  BY ThisRow
<1>3. phase = "reading"
  BY DEF Reading
<1>4. InPlace'
  BY <1>1, <1>2, <1>3, ThisRow DEF InPlace
<1>5. Holds(Known(TheRows)[row], offset + w, Len(octets))
  BY ThisRow
<1>6. KnowsRight'
  BY <1>1, <1>2, <1>5 DEF KnowsRight, True
<1>7. NeverBeyond'
  BY <1>1, <1>3 DEF NeverBeyond
<1> QED
  BY <1>4, <1>6, <1>7 DEF Inside

\* A reading ends within the octets, or its reader is known to leave them.
LEMMA Ends ==
  ASSUME Inside, NEW outcome, End(outcome),
         \/ outcome \in {"read", "refused"}
         \/ outcome = "beyond" /\ <<element, reader>> \in KnownOversteps
  PROVE  Inside'
<1>1. /\ phase' = outcome /\ element' = element /\ value' = value /\ octets' = octets
      /\ reader' = reader /\ row' = row /\ offset' = offset
  BY DEF End
<1>2. outcome \notin {"built", "marshalled", "reading"}
  OBVIOUS
<1>3. InPlace' /\ KnowsRight'
  BY <1>1, <1>2 DEF Inside, InPlace, KnowsRight
<1>4. NeverBeyond'
  BY <1>1 DEF NeverBeyond
<1> QED
  BY <1>3, <1>4 DEF Inside

LEMMA InsideStep == Inside /\ [Next]_elementVars => Inside'
<1> SUFFICES ASSUME Inside, [Next]_elementVars PROVE Inside'
  OBVIOUS
<1> DEFINE k == Known(TheRows)[row - 1]
<1>1. CASE Marshal
  <2>1. /\ octets' = Written(MarshalToRows[element], value) /\ phase' = "marshalled"
        /\ phase = "built" /\ element' = element /\ value' = value
        /\ row' = row /\ offset' = offset
    BY <1>1 DEF Marshal
  <2>2. octets' \in Seq(Octet)
    BY <2>1, WrittenType DEF Inside, InPlace
  <2> QED
    BY <2>1, <2>2 DEF Inside, InPlace, KnowsRight, NeverBeyond
<1>2. CASE CutShort
  <2>1. PICK n \in 0 .. Len(octets) : octets' = SubSeq(octets, 1, n)
    BY <1>2 DEF CutShort
  <2>2. /\ phase = "marshalled" /\ phase' = phase /\ element' = element /\ value' = value
        /\ row' = row /\ offset' = offset
    BY <1>2 DEF CutShort
  <2>3. octets' \in Seq(Octet)
    <3>1. octets \in Seq(Octet) /\ Len(octets) \in Nat
      BY DEF Inside, InPlace
    <3>2. n \in Int /\ 1 \in Int /\ \A i \in 1 .. n : octets[i] \in Octet
      BY <2>1, <3>1
    <3> QED
      BY <2>1, <3>2, SubSeqProperties
  <2> QED
    BY <2>2, <2>3 DEF Inside, InPlace, KnowsRight, NeverBeyond
<1>3. CASE Call
  <2>1. /\ phase = "marshalled" /\ phase' = "reading" /\ reader' \in DOMAIN Readers[element]
        /\ element' = element /\ value' = value /\ octets' = octets
        /\ row' = row /\ offset' = offset /\ row = 1 /\ offset = 0
    BY <1>3 DEF Call, Inside, InPlace
  <2>2. TheRows' \in Rows(element) /\ element \in Element
    BY <2>1 DEF TheRows, Rows, ReadersOf, Inside, InPlace
  <2>3. Len(TheRows') \in Nat
    BY <2>2, Tables
  <2>4. Known(TheRows')[0] = [behind |-> 0, ahead |-> 1]
    BY <2>3, KnownRounds
  <2>5. InPlace'
    BY <2>1, <2>3 DEF Inside, InPlace, TheRows
  <2>6. Len(octets) \in Nat
    BY DEF Inside, InPlace
  <2>7. Holds(Known(TheRows')[0], 0, Len(octets))
    BY <2>4, <2>6 DEF Holds
  <2>8. KnowsRight'
    BY <2>1, <2>7 DEF KnowsRight, True
  <2>9. NeverBeyond'
    BY <2>1 DEF NeverBeyond
  <2> QED
    BY <2>5, <2>8, <2>9 DEF Inside
<1>4. CASE PassOver
  <2>1. PICK w \in Widths(This) : (~This.keeps \/ (w = 0 /\ ~Variable(This))) /\ GoOn(w)
    BY <1>4 DEF PassOver
  <2>2. Reading
    BY <1>4 DEF PassOver
  <2>6. w \in Widths(This) \ Understated(This)
    BY <2>1, <2>2, ThisRow, UnderstatedType
  <2>3. w \in Nat
    BY <2>2, <2>6, ThisRow, WidthsType
  <2>4. Passed(This, w)
    BY <2>1 DEF Passed
  <2>5. Holds(After(This, k), offset + w, Len(octets))
    BY <2>2, <2>4, <2>6, ThisRow, AfterTaken
  <2> QED
    BY <2>1, <2>2, <2>3, <2>5, Advances
<1>5. CASE Take
  <2>1. PICK w \in Widths(This) :
          /\ This.keeps /\ (w # 0 \/ Variable(This))
          /\ ~TooShort(This, w) /\ InRange(This, w) /\ GoOn(w)
    BY <1>5 DEF Take
  <2>2. Reading
    BY <1>5 DEF Take
  <2>6. w \in Widths(This) \ Understated(This)
    <3> SUFFICES ASSUME w \in Understated(This) PROVE FALSE
      BY <2>1
    <3>1. w \in Int /\ w < 0 /\ This.first = 0 /\ ~This.narrow /\ offset \in Nat
      BY <2>2, ThisRow, UnderstatedType
    <3>2. From(This) = offset + 1 /\ To(This, w) = offset + w
      BY <3>1 DEF From, To
    <3>3. From(This) <= To(This, w) + 1
      BY <2>1 DEF InRange
    <3> QED
      BY <3>1, <3>2, <3>3
  <2>3. w \in Nat
    BY <2>2, <2>6, ThisRow, WidthsType
  <2>4. Passed(This, w)
    BY <2>1, <2>3 DEF Passed
  <2>5. Holds(After(This, k), offset + w, Len(octets))
    BY <2>2, <2>4, <2>6, ThisRow, AfterTaken
  <2> QED
    BY <2>1, <2>2, <2>3, <2>5, Advances
<1>6. CASE Stop
  <2>1. PICK outcome \in {"read", "refused"} : End(outcome)
    BY <1>6 DEF Stop
  <2> QED
    BY <2>1, Ends
<1>7. CASE DoWithout
  <2>1. Reading /\ This.short = "none" /\ GoOn(0)
    BY <1>7 DEF DoWithout
  <2>2. True(After(This, k))
    BY <2>1, ThisRow, AfterNone
  <2>3. offset + 0 = offset
    BY <2>1, ThisRow
  <2> QED
    BY <2>1, <2>2, <2>3, Advances DEF True
<1>8. CASE Overstep
  <2>1. PICK w \in Widths(This) :
          /\ This.keeps /\ (w # 0 \/ Variable(This))
          /\ ~TooShort(This, w) /\ ~(This.room /\ InRange(This, w))
    BY <1>8 DEF Overstep
  <2>2. Reading /\ End("beyond")
    BY <1>8 DEF Overstep
  <2>3. <<element, reader>> \in KnownOversteps
    <3> SUFFICES ASSUME <<element, reader>> \notin KnownOversteps PROVE FALSE
      OBVIOUS
    <3>1. Careful(TheRows)
      BY <2>2, ThisRow, CarefulAssumption DEF TheRows
    <3>2. Covered(This, k)
      BY <2>2, <3>1, ThisRow DEF Careful
    <3>3. w \notin Understated(This)
      <4> SUFFICES ASSUME w \in Understated(This) PROVE FALSE
        OBVIOUS
      <4>1. w < 0 /\ This.total > 0 /\ This.keeps
        BY <2>2, ThisRow, UnderstatedType
      <4>2. This.checked /\ This.floor
        BY <3>2, <4>1 DEF Covered
      <4> QED
        BY <2>1, <4>1, <4>2 DEF TooShort
    <3>4. w \in Nat
      BY <2>1, <2>2, <3>3, ThisRow, WidthsType
    <3>5. w > 0 \/ Variable(This)
      BY <2>1, <3>4
    <3> QED
      BY <2>1, <2>2, <3>2, <3>3, <3>5, ThisRow, TakesInRange
  <2> QED
    BY <2>2, <2>3, Ends
<1>9. CASE Return
  BY <1>9, Ends DEF Return
<1>10. CASE UNCHANGED elementVars
  <2>1. /\ element' = element /\ value' = value /\ octets' = octets /\ offset' = offset
        /\ phase' = phase /\ row' = row /\ reader' = reader
    BY <1>10 DEF elementVars
  <2>2. TheRows' = TheRows
    BY <2>1 DEF TheRows
  <2> QED
    BY <2>1, <2>2 DEF Inside, InPlace, KnowsRight, NeverBeyond, True
<1> QED
  BY <1>1, <1>2, <1>3, <1>4, <1>5, <1>6, <1>7, <1>8, <1>9, <1>10 DEF Next

\* UnmarshalBinary and the accessors return an error instead of reading octets that are
\* not there, of any value and however much of it was cut off: if the checks of their rows
\* cover what the rows take.
THEOREM StaysInside == Spec => []NeverBeyond
<1>1. Inside => NeverBeyond
  BY DEF Inside
<1> QED
  BY <1>1, InsideInit, InsideStep, PTL DEF Spec

=============================================================================
