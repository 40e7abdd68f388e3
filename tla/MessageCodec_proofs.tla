------------------------ MODULE MessageCodec_proofs ------------------------
(***************************************************************************)
(* Proofs about MessageCodec, for messages of any number of IEs: an unknown  *)
(* IE is never lost, and what was parsed once is marshalled and parsed again  *)
(* to the same.                                                              *)
(***************************************************************************)
EXTENDS MessageCodec, SequenceTheorems, WellFoundedInduction, TLAPS

-----------------------------------------------------------------------------
(* Loops.  Fill and InOrder are recursive functions of the number of rounds. *)

\* Induction, for a set of numbers.
LEMMA SetInduction ==
  ASSUME NEW S, 0 \in S, \A n \in Nat : n \in S => n + 1 \in S
  PROVE  Nat \subseteq S
<1> SUFFICES ASSUME Nat \ S # {} PROVE FALSE
  OBVIOUS
<1> DEFINE R == {p \in Nat \X Nat : p[1] < p[2]}
           T == Nat \ S
<1>1. IsWellFoundedOn(R, Nat)
  BY NatLessThanWellFounded DEF OpToRel
<1>2. T \subseteq Nat /\ T # {}
  OBVIOUS
<1> HIDE DEF R, T
<1>3. PICK x \in T : \A y \in T : ~(<<y, x>> \in R)
  BY <1>1, <1>2, WFMin
<1>4. x \in Nat /\ x # 0
  BY <1>3 DEF T
<1>5. x - 1 \in Nat /\ x - 1 < x /\ (x - 1) + 1 = x
  BY <1>4
<1>6. x - 1 \in S
  BY <1>3, <1>4, <1>5 DEF R, T
<1> QED
  BY <1>3, <1>5, <1>6 DEF T

\* A set of numbers has a least one.
LEMMA Least ==
  ASSUME NEW T, T \subseteq Nat, T # {}
  PROVE  \E x \in T : \A y \in T : x <= y
<1> DEFINE R == {p \in Nat \X Nat : p[1] < p[2]}
<1>1. IsWellFoundedOn(R, Nat)
  BY NatLessThanWellFounded DEF OpToRel
<1> HIDE DEF R
<1>2. PICK x \in T : \A y \in T : ~(<<y, x>> \in R)
  BY <1>1, WFMin
<1>3. \A y \in T : y \in Nat /\ x \in Nat /\ ~(y < x)
  BY <1>2 DEF R
<1> QED
  BY <1>3

\* The rounds of Fill.
LEMMA FillRounds ==
  ASSUME NEW struct0, NEW switch, NEW s, Len(s) \in Nat
  PROVE  \E f : /\ Fill(struct0, switch, s) = f[Len(s)] /\ f[0] = struct0
                /\ \A n \in 1 .. Len(s) : f[n] = Place(switch, f[n - 1], s[n])
<1> DEFINE Round(f, n) == IF n = 0 THEN struct0 ELSE Place(switch, f[n - 1], s[n])
           Upto(f, k) == f = [n \in 0 .. k |-> Round(f, n)]
           S == {k \in Nat : \E f : Upto(f, k)}
<1>1. 0 \in S
  <2> DEFINE f == [n \in 0 .. 0 |-> struct0]
  <2>1. Upto(f, 0)
    OBVIOUS
  <2> QED
    BY <2>1
<1>2. ASSUME NEW k \in Nat, k \in S
      PROVE  k + 1 \in S
  <2>1. PICK f : Upto(f, k)
    BY <1>2
  <2> DEFINE g == [n \in 0 .. k + 1 |-> IF n = k + 1 THEN Round(f, n) ELSE f[n]]
  <2>2. \A n \in 0 .. k + 1 : g[n] = Round(g, n)
    <3>1. ASSUME NEW n \in 0 .. k
          PROVE  g[n] = Round(g, n)
      <4>1. n \in 0 .. k + 1 /\ n # k + 1 /\ (n # 0 => n - 1 \in 0 .. k + 1 /\ n - 1 # k + 1)
        OBVIOUS
      <4>2. f[n] = Round(f, n)
        BY <2>1
      <4>3. g[n] = f[n] /\ (n # 0 => g[n - 1] = f[n - 1])
        BY <4>1
      <4> QED
        BY <4>2, <4>3
    <3>2. g[k + 1] = Round(g, k + 1)
      OBVIOUS
    <3>3. \A n \in 0 .. k + 1 : n \in 0 .. k \/ n = k + 1
      OBVIOUS
    <3> HIDE DEF g, Round
    <3> QED
      BY <3>1, <3>2, <3>3
  <2>3. Upto(g, k + 1)
    BY <2>2
  <2> HIDE DEF Upto, g
  <2> QED
    BY <2>3
<1> HIDE DEF S
<1>3. Len(s) \in S
  BY <1>1, <1>2, SetInduction
<1> DEFINE filled == CHOOSE f : Upto(f, Len(s))
<1>4. Upto(filled, Len(s))
  BY <1>3 DEF S
<1>5. Fill(struct0, switch, s) = filled[Len(s)]
  BY DEF Fill
<1> HIDE DEF filled
<1>6. /\ filled[0] = struct0
      /\ \A n \in 1 .. Len(s) : filled[n] = Place(switch, filled[n - 1], s[n])
  <2>1. 0 \in 0 .. Len(s) /\ \A n \in 1 .. Len(s) : n \in 0 .. Len(s) /\ n # 0
    OBVIOUS
  <2>2. \A n \in 0 .. Len(s) : filled[n] = Round(filled, n)
    BY <1>4
  <2> QED
    BY <2>1, <2>2
<1> QED
  BY <1>5, <1>6

\* The rounds of MarshalTo: w[n] is what it has written of n slots.
Writing(m, order, w) ==
  /\ InOrder(m, order) = w[Len(order)] /\ w[0] = <<>>
  /\ \A n \in 1 .. Len(order) : w[n] = w[n - 1] \o m[order[n]]

LEMMA InOrderRounds ==
  ASSUME NEW m, NEW order, Len(order) \in Nat
  PROVE  \E w : Writing(m, order, w)
<1> DEFINE Round(f, n) == IF n = 0 THEN <<>> ELSE f[n - 1] \o m[order[n]]
           Upto(f, k) == f = [n \in 0 .. k |-> Round(f, n)]
           S == {k \in Nat : \E f : Upto(f, k)}
<1>1. 0 \in S
  <2> DEFINE f == [n \in 0 .. 0 |-> <<>>]
  <2>1. Upto(f, 0)
    OBVIOUS
  <2> QED
    BY <2>1
<1>2. ASSUME NEW k \in Nat, k \in S
      PROVE  k + 1 \in S
  <2>1. PICK f : Upto(f, k)
    BY <1>2
  <2> DEFINE g == [n \in 0 .. k + 1 |-> IF n = k + 1 THEN Round(f, n) ELSE f[n]]
  <2>2. \A n \in 0 .. k + 1 : g[n] = Round(g, n)
    <3>1. ASSUME NEW n \in 0 .. k
          PROVE  g[n] = Round(g, n)
      <4>1. n \in 0 .. k + 1 /\ n # k + 1 /\ (n # 0 => n - 1 \in 0 .. k + 1 /\ n - 1 # k + 1)
        OBVIOUS
      <4>2. f[n] = Round(f, n)
        BY <2>1
      <4>3. g[n] = f[n] /\ (n # 0 => g[n - 1] = f[n - 1])
        BY <4>1
      <4> QED
        BY <4>2, <4>3
    <3>2. g[k + 1] = Round(g, k + 1)
      OBVIOUS
    <3>3. \A n \in 0 .. k + 1 : n \in 0 .. k \/ n = k + 1
      OBVIOUS
    <3> HIDE DEF g, Round
    <3> QED
      BY <3>1, <3>2, <3>3
  <2>3. Upto(g, k + 1)
    BY <2>2
  <2> HIDE DEF Upto, g
  <2> QED
    BY <2>3
<1> HIDE DEF S
<1>3. Len(order) \in S
  BY <1>1, <1>2, SetInduction
<1> DEFINE written == CHOOSE f : Upto(f, Len(order))
<1>4. Upto(written, Len(order))
  BY <1>3 DEF S
<1>5. InOrder(m, order) = written[Len(order)]
  BY DEF InOrder
<1> HIDE DEF written
<1>6. /\ written[0] = <<>>
      /\ \A n \in 1 .. Len(order) : written[n] = written[n - 1] \o m[order[n]]
  <2>1. 0 \in 0 .. Len(order) /\ \A n \in 1 .. Len(order) : n \in 0 .. Len(order) /\ n # 0
    OBVIOUS
  <2>2. \A n \in 0 .. Len(order) : written[n] = Round(written, n)
    BY <1>4
  <2> QED
    BY <2>1, <2>2
<1> QED
  BY <1>5, <1>6 DEF Writing

LEMMA PartsTyped ==
  ASSUME NEW X, NEW L \in Nat, NEW part, \A n \in 1 .. L : part[n] \in Seq(X),
         NEW w, w[0] = <<>>, \A n \in 1 .. L : w[n] = w[n - 1] \o part[n]
  PROVE  \A n \in 0 .. L : w[n] \in Seq(X)
<1> DEFINE S == {n \in Nat : n <= L => w[n] \in Seq(X)}
<1>1. 0 \in S
  BY EmptySeq
<1>2. ASSUME NEW n \in Nat, n \in S
      PROVE  n + 1 \in S
  <2> SUFFICES ASSUME n + 1 <= L PROVE w[n + 1] \in Seq(X)
    OBVIOUS
  <2>1. n <= L /\ n + 1 \in 1 .. L /\ (n + 1) - 1 = n
    OBVIOUS
  <2>2. w[n] \in Seq(X)
    BY <1>2, <2>1
  <2> HIDE DEF S
  <2>3. part[n + 1] \in Seq(X) /\ w[n + 1] = w[n] \o part[n + 1]
    BY <2>1
  <2> QED
    BY <2>2, <2>3, ConcatProperties
<1> HIDE DEF S
<1>3. Nat \subseteq S
  BY <1>1, <1>2, SetInduction
<1> QED
  BY <1>3 DEF S

\* p is what q begins with.
Begins(p, q) == Len(p) <= Len(q) /\ \A k \in 1 .. Len(p) : q[k] = p[k]

LEMMA ConcatBegins ==
  ASSUME NEW X, NEW p \in Seq(X), NEW q \in Seq(X)
  PROVE  Begins(p, p \o q)
<1>1. Len(p) \in Nat /\ Len(q) \in Nat
  BY LenProperties
<1>2. Len(p \o q) = Len(p) + Len(q)
  BY ConcatProperties
<1>3. ASSUME NEW k \in 1 .. Len(p)
      PROVE  (p \o q)[k] = p[k]
  <2>1. k \in 1 .. Len(p) + Len(q) /\ k <= Len(p)
    BY <1>1
  <2> QED
    BY <2>1, ConcatProperties
<1> QED
  BY <1>1, <1>2, <1>3 DEF Begins

LEMMA ConcatPlaces ==
  ASSUME NEW X, NEW p \in Seq(X), NEW q \in Seq(X), NEW k \in Nat, k + 1 <= Len(q)
  PROVE  /\ Len(p) + (k + 1) \in 1 .. Len(p \o q)
         /\ (p \o q)[Len(p) + (k + 1)] = q[k + 1]
<1>1. Len(p) \in Nat /\ Len(q) \in Nat /\ Len(p \o q) = Len(p) + Len(q)
  BY LenProperties, ConcatProperties
<1>2. /\ Len(p) + (k + 1) \in 1 .. Len(p) + Len(q) /\ ~(Len(p) + (k + 1) <= Len(p))
      /\ (Len(p) + (k + 1)) - Len(p) = k + 1
  BY <1>1
<1> QED
  BY <1>1, <1>2, ConcatProperties

LEMMA PartsBegin ==
  ASSUME NEW X, NEW L \in Nat, NEW part, \A n \in 1 .. L : part[n] \in Seq(X),
         NEW w, w[0] = <<>>, \A n \in 1 .. L : w[n] = w[n - 1] \o part[n]
  PROVE  \A n \in 0 .. L : Begins(w[n], w[L])
\* From the end: w[L - d] is a prefix of w[L].
<1> DEFINE T == {d \in Nat : d <= L => Begins(w[L - d], w[L])}
<1>1. \A n \in 0 .. L : w[n] \in Seq(X)
  BY PartsTyped
<1>2. 0 \in T
  <2>1. Len(w[L]) \in Nat
    BY <1>1, LenProperties
  <2> QED
    BY <2>1 DEF Begins
<1>3. ASSUME NEW d \in Nat, d \in T
      PROVE  d + 1 \in T
  <2> SUFFICES ASSUME d + 1 <= L PROVE Begins(w[L - (d + 1)], w[L])
    OBVIOUS
  <2>1. Begins(w[L - d], w[L])
    BY <1>3
  <2> HIDE DEF T
  <2>2. /\ L - (d + 1) \in 0 .. L /\ L - d \in 0 .. L /\ L - d \in 1 .. L
        /\ (L - d) - 1 = L - (d + 1)
    OBVIOUS
  <2>3. PICK n \in 0 .. L, k \in 1 .. L : n = L - (d + 1) /\ k = L - d /\ k - 1 = n /\ k \in 0 .. L
    BY <2>2
  <2>4. w[n] \in Seq(X) /\ w[k] \in Seq(X) /\ w[L] \in Seq(X)
    BY <1>1, <2>3
  <2>5. part[k] \in Seq(X) /\ w[k] = w[n] \o part[k]
    BY <2>3
  <2>6. Begins(w[n], w[k])
    BY <2>4, <2>5, ConcatBegins
  <2>7. Len(w[n]) \in Nat /\ Len(w[k]) \in Nat /\ Len(w[L]) \in Nat
    BY <2>4, LenProperties
  <2>8. Begins(w[n], w[L])
    BY <2>1, <2>3, <2>6, <2>7 DEF Begins
  <2> QED
    BY <2>3, <2>8
<1> HIDE DEF T
<1>4. Nat \subseteq T
  BY <1>2, <1>3, SetInduction
<1>5. ASSUME NEW n \in 0 .. L
      PROVE  Begins(w[n], w[L])
  <2>1. L - n \in Nat /\ L - n <= L /\ L - (L - n) = n
    OBVIOUS
  <2>2. L - n \in T
    BY <1>4, <2>1
  <2> QED
    BY <2>1, <2>2 DEF T
<1> QED
  BY <1>5

-----------------------------------------------------------------------------
(* One round of the switch: the slot that it gives to an IE. *)

Has(switch, i) == \E r \in switch : r.type = i.type
RowFor(switch, i) == CHOOSE r \in {r \in switch : r.type = i.type} : TRUE

Target(switch, m, i) ==
  IF Has(switch, i) THEN Destination(RowFor(switch, i), m, i) ELSE AdditionalIEs

LEMMA PlaceTarget ==
  ASSUME NEW switch, NEW m, NEW i
  PROVE  Place(switch, m, i) = Put(m, Target(switch, m, i), i)
<1> DEFINE own == {r \in switch : r.type = i.type}
<1>1. own = {} <=> ~Has(switch, i)
  BY DEF Has
<1>2. Place(switch, m, i) =
        Put(m, IF own = {} THEN AdditionalIEs ELSE Destination(CHOOSE r \in own : TRUE, m, i), i)
  BY DEF Place
<1> QED
  BY <1>1, <1>2 DEF Target, RowFor

LEMMA RowForIs ==
  ASSUME NEW switch, NEW i, Has(switch, i)
  PROVE  RowFor(switch, i) \in switch /\ RowFor(switch, i).type = i.type
  BY DEF Has, RowFor

Fits(row, m, i) ==
  {n \in DOMAIN row.slots :
     CASE row.choice = "instance" -> n = i.instance + 1
       [] row.choice = "free" -> m[row.slots[n]] = <<>>
       [] row.choice = "taken" -> m[row.slots[n]] # <<>>}

\* The first slot that fits, or else the rest.
LEMMA DestinationIs ==
  ASSUME NEW Y, NEW row, row.slots \in Seq(Y), NEW m, NEW i
  PROVE  /\ Fits(row, m, i) = {} => Destination(row, m, i) = row.rest
         /\ Fits(row, m, i) # {} =>
              \E n \in Fits(row, m, i) : /\ \A k \in Fits(row, m, i) : n <= k
                                         /\ Destination(row, m, i) = row.slots[n]
         /\ \A n \in Fits(row, m, i) :
              (\A k \in Fits(row, m, i) : n <= k) => Destination(row, m, i) = row.slots[n]
<1> DEFINE fits == Fits(row, m, i)
           first == CHOOSE n \in fits : \A k \in fits : n <= k
<1>1. Destination(row, m, i) = IF fits = {} THEN row.rest ELSE row.slots[first]
  BY DEF Destination, Fits
<1>2. fits \subseteq Nat
  <2>1. fits \subseteq DOMAIN row.slots
    BY Zenon DEF Fits
  <2>2. DOMAIN row.slots = 1 .. Len(row.slots) /\ Len(row.slots) \in Nat
    BY LenProperties
  <2> QED
    BY <2>1, <2>2
<1> HIDE DEF fits
<1>3. ASSUME fits # {}
      PROVE  first \in fits /\ \A k \in fits : first <= k
  BY <1>2, <1>3, Least
<1>4. ASSUME NEW n \in fits, \A k \in fits : n <= k
      PROVE  first = n
  <2> HIDE DEF first
  <2>1. first \in fits /\ first <= n /\ n <= first
    BY <1>3, <1>4
  <2> QED
    BY <1>2, <2>1
<1> HIDE DEF first
<1> QED
  BY <1>1, <1>3, <1>4 DEF fits

-----------------------------------------------------------------------------
(* What a struct is like that Fill has made. *)

\* What the slots of m say when IE i is found in slot s: that the switch had to put
\* it there.  It stays true when more slots are filled.
GoesByRow(r, m, s, i) ==
  /\ r.choice = "instance" => s = Destination(r, m, i)
  /\ r.choice = "free" =>
       \/ \E n \in DOMAIN r.slots :
            s = r.slots[n] /\ \A k \in DOMAIN r.slots : k < n => m[r.slots[k]] # <<>>
       \/ s = r.rest /\ \A k \in DOMAIN r.slots : m[r.slots[k]] # <<>>
  /\ r.choice = "taken" => s = r.rest

Goes(switch, m, s, i) ==
  IF Has(switch, i) THEN GoesByRow(RowFor(switch, i), m, s, i) ELSE s = AdditionalIEs

\* No slot is filled that a case wants to be taken already.
Untaken(switch, m) ==
  \A r \in switch : r.choice = "taken" => \A k \in DOMAIN r.slots : m[r.slots[k]] = <<>>

LEMMA InstanceOnly ==
  ASSUME NEW r, r.choice = "instance", NEW m, NEW M, NEW i
  PROVE  Destination(r, m, i) = Destination(r, M, i)
<1> DEFINE chosen(a) == {n \in DOMAIN r.slots :
              CASE r.choice = "instance" -> n = i.instance + 1
                [] r.choice = "free" -> a[r.slots[n]] = <<>>
                [] r.choice = "taken" -> a[r.slots[n]] # <<>>}
           fits == {n \in DOMAIN r.slots : n = i.instance + 1}
<1>1. chosen(m) = fits /\ chosen(M) = fits
  OBVIOUS
<1>2. /\ Destination(r, m, i) =
           LET c == chosen(m) IN
             IF c = {} THEN r.rest ELSE r.slots[CHOOSE n \in c : \A k \in c : n <= k]
      /\ Destination(r, M, i) =
           LET c == chosen(M) IN
             IF c = {} THEN r.rest ELSE r.slots[CHOOSE n \in c : \A k \in c : n <= k]
  BY DEF Destination
<1> HIDE DEF chosen, fits
<1> QED
  BY <1>1, <1>2

LEMMA RowGoes ==
  ASSUME NEW Y, NEW r, r.choice \in Kinds, r.slots \in Seq(Y), NEW m, NEW i,
         r.choice = "taken" => \A k \in DOMAIN r.slots : m[r.slots[k]] = <<>>
  PROVE  GoesByRow(r, m, Destination(r, m, i), i)
<1>1. CASE r.choice = "instance"
  BY <1>1 DEF GoesByRow
<1>2. CASE r.choice = "free"
  <2>1. Fits(r, m, i) = {n \in DOMAIN r.slots : m[r.slots[n]] = <<>>}
    BY <1>2 DEF Fits
  <2>2. CASE Fits(r, m, i) = {}
    <3>1. Destination(r, m, i) = r.rest
      BY <2>2, DestinationIs
    <3> QED
      BY <1>2, <2>1, <2>2, <3>1 DEF GoesByRow
  <2>3. CASE Fits(r, m, i) # {}
    <3>1. PICK n \in Fits(r, m, i) : /\ \A k \in Fits(r, m, i) : n <= k
                                     /\ Destination(r, m, i) = r.slots[n]
      BY <2>3, DestinationIs
    <3>2. DOMAIN r.slots \subseteq Nat
      BY LenProperties
    <3>3. ASSUME NEW k \in DOMAIN r.slots, k < n
          PROVE  m[r.slots[k]] # <<>>
      <4>1. ~(n <= k)
        BY <2>1, <3>2, <3>3
      <4> QED
        BY <2>1, <3>1, <4>1
    <3> QED
      BY <1>2, <2>1, <3>1, <3>3 DEF GoesByRow
  <2> QED
    BY <2>2, <2>3
<1>3. CASE r.choice = "taken"
  <2>1. Fits(r, m, i) = {}
    BY <1>3 DEF Fits
  <2> QED
    BY <1>3, <2>1, DestinationIs DEF GoesByRow
<1> QED
  BY <1>1, <1>2, <1>3 DEF Kinds

\* Struct M is filled as m is, as far as the row's slots before slot s.
Ready(r, m, M, s) ==
  /\ r.choice = "taken" => \A k \in DOMAIN r.slots : M[r.slots[k]] = <<>>
  /\ r.choice = "free" =>
       /\ \A n \in DOMAIN r.slots : s = r.slots[n] =>
            /\ M[s] = <<>>
            /\ \A k \in DOMAIN r.slots : k < n => M[r.slots[k]] = m[r.slots[k]]
       /\ s = r.rest => \A k \in DOMAIN r.slots : M[r.slots[k]] = m[r.slots[k]]

\* The way back: a slot that the IE went to is the slot it goes to.
LEMMA GoesBack ==
  ASSUME NEW Y, NEW r, r.choice \in Kinds, r.slots \in Seq(Y), NEW m, NEW M, NEW s, NEW i,
         GoesByRow(r, m, s, i),
         Ready(r, m, M, s)
  PROVE  Destination(r, M, i) = s
<1>1. CASE r.choice = "instance"
  BY <1>1, InstanceOnly DEF GoesByRow
<1>2. CASE r.choice = "free"
  <2>1. Fits(r, M, i) = {n \in DOMAIN r.slots : M[r.slots[n]] = <<>>}
    BY <1>2 DEF Fits
  <2>2. ASSUME NEW n \in DOMAIN r.slots, s = r.slots[n],
               \A k \in DOMAIN r.slots : k < n => m[r.slots[k]] # <<>>
        PROVE  Destination(r, M, i) = s
    <3>1. n \in Fits(r, M, i)
      BY <1>2, <2>1, <2>2 DEF Ready
    <3>2. DOMAIN r.slots \subseteq Nat
      BY LenProperties
    <3>3. ASSUME NEW k \in Fits(r, M, i)
          PROVE  n <= k
      <4>1. k \in DOMAIN r.slots /\ M[r.slots[k]] = <<>>
        BY <2>1, <3>3
      <4>2. ~(k < n)
        BY <1>2, <2>2, <4>1 DEF Ready
      <4> QED
        BY <3>2, <4>1, <4>2
    <3> QED
      BY <2>2, <3>1, <3>3, DestinationIs
  <2>3. ASSUME s = r.rest, \A k \in DOMAIN r.slots : m[r.slots[k]] # <<>>
        PROVE  Destination(r, M, i) = s
    <3>1. Fits(r, M, i) = {}
      BY <1>2, <2>1, <2>3 DEF Ready
    <3> QED
      BY <2>3, <3>1, DestinationIs
  <2> QED
    BY <1>2, <2>2, <2>3 DEF GoesByRow
<1>3. CASE r.choice = "taken"
  <2>1. Fits(r, M, i) = {}
    BY <1>3 DEF Fits, Ready
  <2> QED
    BY <1>3, <2>1, DestinationIs DEF GoesByRow
<1> QED
  BY <1>1, <1>2, <1>3 DEF Kinds

LEMMA Words == Dropped # AdditionalIEs
  BY DEF Dropped, AdditionalIEs

LEMMA NotDropped ==
  ASSUME NEW switch
  PROVE  Dropped \notin SlotsOf(switch) /\ AdditionalIEs \in SlotsOf(switch)
<1> DEFINE A == {ToSet(r.slots) \cup {r.rest} : r \in switch}
<1>1. SlotsOf(switch) = {AdditionalIEs} \cup ((UNION A) \ {Dropped})
  BY Zenon DEF SlotsOf
<1> HIDE DEF A
<1> QED
  BY <1>1, Words

LEMMA PutIs ==
  ASSUME NEW X, NEW D, NEW m \in [D -> Seq(X)], NEW i \in X, NEW slot \in D, slot # Dropped
  PROVE  /\ Put(m, slot, i) \in [D -> Seq(X)]
         /\ \A t \in D : t # slot => Put(m, slot, i)[t] = m[t]
         /\ slot # AdditionalIEs => Put(m, slot, i)[slot] = <<i>>
         /\ slot = AdditionalIEs => Put(m, slot, i)[slot] = Append(m[slot], i)
<1>1. m[slot] \in Seq(X) /\ Append(m[slot], i) \in Seq(X) /\ <<i>> \in Seq(X)
  <2>1. m[slot] \in Seq(X)
    OBVIOUS
  <2> QED
    BY <2>1, AppendProperties
<1>2. CASE slot = AdditionalIEs
  <2>1. Put(m, slot, i) = [m EXCEPT ![slot] = Append(m[slot], i)]
    BY <1>2, Words DEF Put
  <2> QED
    BY <1>1, <1>2, <2>1
<1>3. CASE slot # AdditionalIEs
  <2>1. Put(m, slot, i) = [m EXCEPT ![slot] = <<i>>]
    BY <1>3 DEF Put
  <2> QED
    BY <1>1, <1>3, <2>1
<1> QED
  BY <1>2, <1>3

LEMMA Cases ==
  ASSUME NEW switch, IsSwitch(switch), NEW r \in switch
  PROVE  /\ r.choice \in Kinds
         /\ r.slots \in Seq(SlotsOf(switch) \cup {Dropped})
         /\ r.rest \in SlotsOf(switch) \cup {Dropped}
<1>1. r.choice \in Kinds /\ r.slots \in Seq(SlotsOf(switch) \cup {Dropped})
  BY DEF IsSwitch
<1> DEFINE A == {ToSet(q.slots) \cup {q.rest} : q \in switch}
<1>2. SlotsOf(switch) = {AdditionalIEs} \cup ((UNION A) \ {Dropped})
  BY Zenon DEF SlotsOf
<1>3. r.rest \in UNION A
  <2>1. ToSet(r.slots) \cup {r.rest} \in A
    OBVIOUS
  <2> HIDE DEF A
  <2>2. r.rest \in ToSet(r.slots) \cup {r.rest}
    OBVIOUS
  <2> QED
    BY <2>1, <2>2
<1> HIDE DEF A
<1>4. r.rest \in SlotsOf(switch) \cup {Dropped}
  BY <1>2, <1>3
<1> QED
  BY <1>1, <1>4

\* Where an IE goes: to a slot of the switch, and none that a case wants to be taken.
LEMMA TargetSlot ==
  ASSUME NEW switch, IsSwitch(switch), NEW m, NEW i
  PROVE  /\ Target(switch, m, i) \in SlotsOf(switch) \cup {Dropped}
         /\ NeverTaken(switch) /\ Untaken(switch, m) =>
              \A r \in switch : r.choice = "taken" =>
                \A k \in DOMAIN r.slots : r.slots[k] # Target(switch, m, i)
<1> DEFINE T == Target(switch, m, i)
<1>1. CASE ~Has(switch, i)
  <2>1. T = AdditionalIEs
    BY <1>1 DEF Target
  <2> QED
    BY <2>1, NotDropped DEF NeverTaken
<1>2. CASE Has(switch, i)
  <2> DEFINE q == RowFor(switch, i)
  <2>1. /\ q \in switch /\ q.choice \in Kinds
        /\ q.slots \in Seq(SlotsOf(switch) \cup {Dropped})
        /\ q.rest \in SlotsOf(switch) \cup {Dropped}
    BY <1>2, RowForIs, Cases
  <2>2. T = Destination(q, m, i)
    BY <1>2 DEF Target
  <2> HIDE DEF q, T
  <2>3. T = q.rest \/ \E n \in Fits(q, m, i) : T = q.slots[n]
    BY <2>1, <2>2, DestinationIs
  <2>4. ASSUME NEW n \in Fits(q, m, i), T = q.slots[n]
        PROVE  n \in DOMAIN q.slots /\ T \in SlotsOf(switch) \cup {Dropped} /\ T \in ToSet(q.slots)
    <3>1. n \in DOMAIN q.slots
      BY <2>4 DEF Fits
    <3>2. DOMAIN q.slots = 1 .. Len(q.slots)
      BY <2>1, LenProperties
    <3>3. q.slots[n] \in SlotsOf(switch) \cup {Dropped}
      BY <2>1, <3>1, <3>2, ElementOfSeq
    <3> QED
      BY <2>4, <3>1, <3>3 DEF ToSet
  <2>5. T \in SlotsOf(switch) \cup {Dropped}
    BY <2>1, <2>3, <2>4
  <2>6. ASSUME NeverTaken(switch), Untaken(switch, m),
               NEW r \in switch, r.choice = "taken", NEW k \in DOMAIN r.slots
        PROVE  r.slots[k] # T
    <3>1. r.slots[k] # q.rest /\ (q.choice # "taken" => r.slots[k] \notin ToSet(q.slots))
      BY <2>1, <2>6 DEF NeverTaken
    <3>2. q.choice = "taken" => Fits(q, m, i) = {}
      <4>1. q.choice = "taken" => \A l \in DOMAIN q.slots : m[q.slots[l]] = <<>>
        BY <2>1, <2>6 DEF Untaken
      <4> QED
        BY <4>1 DEF Fits
    <3> QED
      BY <2>3, <2>4, <3>1, <3>2
  <2> QED
    BY <2>5, <2>6 DEF T
<1> QED
  BY <1>1, <1>2

\* A switch that agrees with another puts an IE where the other puts it, or drops it.
LEMMA TargetAgrees ==
  ASSUME NEW switch, IsSwitch(switch), NEW other, IsSwitch(other), Agrees(switch, other),
         NEW m, NEW i
  PROVE  Target(switch, m, i) \in {Target(other, m, i), Dropped}
<1>1. Has(switch, i) <=> Has(other, i)
  BY DEF Has, Agrees
<1>2. CASE ~Has(switch, i)
  BY <1>1, <1>2 DEF Target
<1>3. CASE Has(switch, i)
  <2> DEFINE r == RowFor(switch, i)
             q == RowFor(other, i)
  <2>1. r \in switch /\ q \in other /\ r.type = i.type /\ q.type = i.type
    BY <1>1, <1>3, RowForIs
  <2>2. /\ Target(switch, m, i) = Destination(r, m, i)
        /\ Target(other, m, i) = Destination(q, m, i)
    BY <1>1, <1>3 DEF Target
  <2> HIDE DEF r, q
  <2>3. q.choice = r.choice /\ q.slots = r.slots /\ r.rest \in {q.rest, Dropped}
    <3>1. PICK p \in other : /\ p.type = r.type /\ p.choice = r.choice /\ p.slots = r.slots
                             /\ r.rest \in {p.rest, Dropped}
      BY <2>1 DEF Agrees
    <3>2. p = q
      BY <2>1, <3>1 DEF IsSwitch
    <3> QED
      BY <3>1, <3>2
  <2>4. Fits(q, m, i) = Fits(r, m, i)
    BY <2>3 DEF Fits
  <2>5. r.slots \in Seq(SlotsOf(switch) \cup {Dropped}) /\ q.slots \in Seq(SlotsOf(other) \cup {Dropped})
    BY <2>1, Cases
  <2>6. CASE Fits(q, m, i) = {}
    <3>1. Destination(r, m, i) = r.rest /\ Destination(q, m, i) = q.rest
      BY <2>4, <2>5, <2>6, DestinationIs
    <3> QED
      BY <2>2, <2>3, <3>1
  <2>7. CASE Fits(q, m, i) # {}
    <3>1. PICK n \in Fits(q, m, i) : /\ \A k \in Fits(q, m, i) : n <= k
                                     /\ Destination(q, m, i) = q.slots[n]
      BY <2>5, <2>7, DestinationIs
    <3>2. Destination(r, m, i) = r.slots[n]
      BY <2>4, <2>5, <3>1, DestinationIs
    <3> QED
      BY <2>2, <2>3, <3>1, <3>2
  <2> QED
    BY <2>6, <2>7
<1> QED
  BY <1>2, <1>3

-----------------------------------------------------------------------------
(* Fill makes structs that MarshalTo and Fill take apart and make again. *)

\* What the tables of a message owe each other, without those of NewX.
Sound(switch, order) ==
  /\ IsSwitch(switch) /\ Writes(order, switch)
  /\ InOrderOfUse(order, switch) /\ NeverTaken(switch)

WellFormed(switch, D, X) ==
  {m \in [D -> Seq(X)] :
     /\ \A s \in D : s # AdditionalIEs => Len(m[s]) <= 1
     /\ \A s \in D : s \notin SlotsOf(switch) => m[s] = <<>>
     /\ Untaken(switch, m)
     /\ \A s \in D : \A k \in 1 .. Len(m[s]) : Goes(switch, m, s, m[s][k])}

\* The slots that a case looks at are slots of the switch.
LEMMA LookedAt ==
  ASSUME NEW switch, NEW order, Sound(switch, order), NEW r \in switch, r.choice # "instance"
  PROVE  \A k \in DOMAIN r.slots : r.slots[k] \in SlotsOf(switch) /\ r.slots[k] # AdditionalIEs
<1>1. r.choice \in {"free", "taken"}
  BY Cases DEF Sound, Kinds
<1> QED
  BY <1>1 DEF Sound, InOrderOfUse, NeverTaken

LEMMA GoesStays ==
  ASSUME NEW switch, NEW order, Sound(switch, order), NEW m, NEW M, NEW s, NEW i,
         Goes(switch, m, s, i), \A t \in SlotsOf(switch) : m[t] # <<>> => M[t] # <<>>
  PROVE  Goes(switch, M, s, i)
<1>1. CASE ~Has(switch, i)
  BY <1>1 DEF Goes
<1>2. CASE Has(switch, i)
  <2> DEFINE r == RowFor(switch, i)
  <2>1. r \in switch /\ GoesByRow(r, m, s, i)
    BY <1>2, RowForIs DEF Goes
  <2> HIDE DEF r
  <2>2. r.choice = "instance" => Destination(r, m, i) = Destination(r, M, i)
    BY InstanceOnly
  <2>3. r.choice # "instance" =>
          \A k \in DOMAIN r.slots : m[r.slots[k]] # <<>> => M[r.slots[k]] # <<>>
    BY <2>1, LookedAt
  <2>4. GoesByRow(r, M, s, i)
    BY <2>1, <2>2, <2>3 DEF GoesByRow
  <2> QED
    BY <1>2, <2>4 DEF Goes, r
<1> QED
  BY <1>1, <1>2

LEMMA TargetGoes ==
  ASSUME NEW switch, IsSwitch(switch), NEW m, Untaken(switch, m), NEW i
  PROVE  Goes(switch, m, Target(switch, m, i), i)
<1>1. CASE ~Has(switch, i)
  BY <1>1 DEF Goes, Target
<1>2. CASE Has(switch, i)
  <2> DEFINE r == RowFor(switch, i)
  <2>1. r \in switch /\ Target(switch, m, i) = Destination(r, m, i)
    BY <1>2, RowForIs DEF Target
  <2> HIDE DEF r
  <2>2. /\ r.choice \in Kinds /\ r.slots \in Seq(SlotsOf(switch) \cup {Dropped})
        /\ r.choice = "taken" => \A k \in DOMAIN r.slots : m[r.slots[k]] = <<>>
    BY <2>1, Cases DEF Untaken
  <2>3. GoesByRow(r, m, Destination(r, m, i), i)
    BY <2>2, RowGoes
  <2> QED
    BY <1>2, <2>1, <2>3 DEF Goes, r
<1> QED
  BY <1>1, <1>2

\* An IE that is put where the switch sends it: the struct stays well formed.
LEMMA PutKeeps ==
  ASSUME NEW switch, NEW order, Sound(switch, order), NEW X,
         NEW D, SlotsOf(switch) \subseteq D, NEW m \in WellFormed(switch, D, X), NEW i \in X,
         Target(switch, m, i) # Dropped
  PROVE  Put(m, Target(switch, m, i), i) \in WellFormed(switch, D, X)
<1> DEFINE T == Target(switch, m, i)
           M == Put(m, T, i)
<1>1. IsSwitch(switch) /\ NeverTaken(switch)
  BY DEF Sound
<1>2. /\ m \in [D -> Seq(X)] /\ Untaken(switch, m)
      /\ \A s \in D : s # AdditionalIEs => Len(m[s]) <= 1
      /\ \A s \in D : s \notin SlotsOf(switch) => m[s] = <<>>
      /\ \A s \in D : \A k \in 1 .. Len(m[s]) : Goes(switch, m, s, m[s][k])
  BY DEF WellFormed
<1>3. /\ T \in SlotsOf(switch) /\ T \in D
      /\ \A r \in switch : r.choice = "taken" => \A k \in DOMAIN r.slots : r.slots[k] # T
  BY <1>1, <1>2, TargetSlot
<1>4. Goes(switch, m, T, i)
  BY <1>1, <1>2, TargetGoes
<1>5. T # Dropped
  OBVIOUS
<1> HIDE DEF T
<1>6. /\ M \in [D -> Seq(X)] /\ \A t \in D : t # T => M[t] = m[t]
      /\ T # AdditionalIEs => M[T] = <<i>>
      /\ T = AdditionalIEs => M[T] = Append(m[T], i)
  <2>1. m \in [D -> Seq(X)] /\ T \in D
    BY <1>2, <1>3
  <2> QED
    BY <2>1, <1>5, PutIs
<1> HIDE DEF M
<1>7. m[T] \in Seq(X) /\ Len(m[T]) \in Nat
  BY <1>2, <1>3, LenProperties
<1>8. M[T] # <<>>
  <2>1. CASE T = AdditionalIEs
    BY <1>6, <1>7, <2>1, AppendProperties
  <2>2. CASE T # AdditionalIEs
    BY <1>6, <2>2
  <2> QED
    BY <2>1, <2>2
<1>9. \A t \in SlotsOf(switch) : m[t] # <<>> => M[t] # <<>>
  BY <1>3, <1>6, <1>8
<1>10. ASSUME NEW s \in D, s # AdditionalIEs
       PROVE  Len(M[s]) <= 1
  <2>1. CASE s = T
    <3>1. M[s] = <<i>>
      BY <1>6, <1>10, <2>1
    <3> QED
      BY <3>1
  <2>2. CASE s # T
    BY <1>2, <1>6, <1>10, <2>2
  <2> QED
    BY <2>1, <2>2
<1>11. \A s \in D : s \notin SlotsOf(switch) => M[s] = <<>>
  BY <1>2, <1>3, <1>6
<1>12. Untaken(switch, M)
  <2> SUFFICES ASSUME NEW r \in switch, r.choice = "taken", NEW k \in DOMAIN r.slots
               PROVE  M[r.slots[k]] = <<>>
    BY DEF Untaken
  <2>1. r.slots[k] \in D /\ r.slots[k] # T
    BY <1>3, LookedAt
  <2> QED
    BY <1>2, <1>6, <2>1 DEF Untaken
<1>13. ASSUME NEW s \in D, NEW k \in 1 .. Len(M[s])
       PROVE  Goes(switch, M, s, M[s][k])
  <2>1. CASE s # T
    <3>1. Goes(switch, m, s, M[s][k])
      BY <1>2, <1>6, <1>13, <2>1
    <3> QED
      BY <1>9, <3>1, GoesStays
  <2>2. CASE s = T /\ T # AdditionalIEs
    <3>1. M[s][k] = i
      BY <1>6, <1>13, <2>2
    <3> QED
      BY <1>4, <1>9, <2>2, <3>1, GoesStays
  <2>3. CASE s = T /\ T = AdditionalIEs
    <3>1. /\ Len(M[s]) = Len(m[s]) + 1 /\ M[s][Len(m[s]) + 1] = i
          /\ \A l \in 1 .. Len(m[s]) : M[s][l] = m[s][l]
      <4>1. M[s] = Append(m[s], i) /\ m[s] \in Seq(X)
        BY <1>6, <1>7, <2>3
      <4> QED
        BY <4>1, AppendProperties
    <3>2. k \in 1 .. Len(m[s]) \/ k = Len(m[s]) + 1
      BY <1>7, <1>13, <2>3, <3>1
    <3>3. Goes(switch, m, s, M[s][k])
      BY <1>2, <1>4, <2>3, <3>1, <3>2
    <3> QED
      BY <1>9, <3>3, GoesStays
  <2> QED
    BY <2>1, <2>2, <2>3
<1>14. M \in WellFormed(switch, D, X)
  BY <1>6, <1>10, <1>11, <1>12, <1>13 DEF WellFormed
<1> QED
  BY <1>14 DEF M, T

\* What every round of Fill keeps, Fill keeps.
LEMMA FillKeeps ==
  ASSUME NEW W, NEW X, NEW switch, \A m \in W : \A i \in X : Place(switch, m, i) \in W,
         NEW struct0 \in W, NEW s \in Seq(X)
  PROVE  Fill(struct0, switch, s) \in W
<1>1. Len(s) \in Nat /\ \A n \in 1 .. Len(s) : s[n] \in X
  BY LenProperties, ElementOfSeq
<1>2. PICK f : /\ Fill(struct0, switch, s) = f[Len(s)] /\ f[0] = struct0
               /\ \A n \in 1 .. Len(s) : f[n] = Place(switch, f[n - 1], s[n])
  BY <1>1, FillRounds
<1> DEFINE S == {n \in Nat : n <= Len(s) => f[n] \in W}
<1>3. 0 \in S
  BY <1>2
<1>4. ASSUME NEW n \in Nat, n \in S
      PROVE  n + 1 \in S
  <2> SUFFICES ASSUME n + 1 <= Len(s) PROVE f[n + 1] \in W
    OBVIOUS
  <2>1. n <= Len(s) /\ n + 1 \in 1 .. Len(s) /\ (n + 1) - 1 = n
    BY <1>1
  <2>2. f[n] \in W
    BY <1>4, <2>1
  <2> HIDE DEF S
  <2>3. f[n + 1] = Place(switch, f[n], s[n + 1]) /\ s[n + 1] \in X
    BY <1>1, <1>2, <2>1
  <2> QED
    BY <2>2, <2>3
<1> HIDE DEF S
<1>5. Nat \subseteq S
  BY <1>3, <1>4, SetInduction
<1>6. f[Len(s)] \in W
  BY <1>1, <1>5 DEF S
<1> QED
  BY <1>2, <1>6

LEMMA EmptyWellFormed ==
  ASSUME NEW switch, NEW order, Sound(switch, order), NEW X,
         NEW D, SlotsOf(switch) \subseteq D
  PROVE  [s \in D |-> <<>>] \in WellFormed(switch, D, X)
<1> DEFINE m == [s \in D |-> <<>>]
<1>1. <<>> \in Seq(X) /\ Len(<<>>) = 0
  BY EmptySeq
<1>2. m \in [D -> Seq(X)] /\ \A s \in D : m[s] = <<>> /\ Len(m[s]) = 0
  BY <1>1
<1> HIDE DEF m
<1>3. Untaken(switch, m)
  BY <1>2, LookedAt DEF Untaken
<1>4. \A s \in D : 1 .. Len(m[s]) = {}
  BY <1>2
<1>5. m \in WellFormed(switch, D, X)
  BY <1>2, <1>3, <1>4 DEF WellFormed
<1> QED
  BY <1>5 DEF m

\* Whatever the IEs are and in whatever order, what Fill makes is well formed: by the
\* switch of UnmarshalBinary or by one of NewX that agrees with it.
LEMMA FillWellFormed ==
  ASSUME NEW switch, NEW order, Sound(switch, order), NEW X,
         NEW D, SlotsOf(switch) \subseteq D,
         NEW by, by = switch \/ (IsSwitch(by) /\ Agrees(by, switch)), NEW s \in Seq(X)
  PROVE  Fill([slot \in D |-> <<>>], by, s) \in WellFormed(switch, D, X)
<1>1. ASSUME NEW m \in WellFormed(switch, D, X), NEW i \in X
      PROVE  Place(by, m, i) \in WellFormed(switch, D, X)
  <2>1. IsSwitch(switch)
    BY DEF Sound
  <2>2. Target(by, m, i) \in {Target(switch, m, i), Dropped}
    BY <2>1, TargetAgrees
  <2>3. Place(by, m, i) = Put(m, Target(by, m, i), i)
    BY PlaceTarget
  <2>4. CASE Target(by, m, i) = Dropped
    BY <2>3, <2>4, Words DEF Put
  <2>5. CASE Target(by, m, i) # Dropped
    BY <2>2, <2>3, <2>5, PutKeeps
  <2> QED
    BY <2>4, <2>5
<1>2. [slot \in D |-> <<>>] \in WellFormed(switch, D, X)
  BY EmptyWellFormed
<1> QED
  BY <1>1, <1>2, FillKeeps

-----------------------------------------------------------------------------
(* A struct that is well formed is marshalled and parsed to itself. *)

\* The struct that Fill has made of what is written of the first p slots and of the
\* first k IEs of the one after them.
Half(order, D, m, p, k) ==
  [t \in D |-> IF \E q \in 1 .. p : order[q] = t THEN m[t]
               ELSE IF t = order[p + 1] THEN SubSeq(m[t], 1, k) ELSE <<>>]

\* The next IE goes to the slot that it was written from.
LEMMA HalfGoes ==
  ASSUME NEW switch, NEW order, Sound(switch, order), NEW X,
         NEW D, SlotsOf(switch) \subseteq D, NEW m \in WellFormed(switch, D, X),
         NEW p \in Nat, p + 1 \in 1 .. Len(order),
         NEW k \in Nat, k + 1 \in 1 .. Len(m[order[p + 1]])
  PROVE  Target(switch, Half(order, D, m, p, k), m[order[p + 1]][k + 1]) = order[p + 1]
<1> DEFINE s == order[p + 1]
           M == Half(order, D, m, p, k)
           i == m[s][k + 1]
<1>1. /\ order \in Seq(SlotsOf(switch)) /\ ToSet(order) = SlotsOf(switch)
      /\ \A a, b \in DOMAIN order : order[a] = order[b] => a = b
      /\ DOMAIN order = 1 .. Len(order) /\ Len(order) \in Nat
  BY LenProperties DEF Sound, Writes
<1>2. s \in SlotsOf(switch) /\ s \in D
  BY <1>1, ElementOfSeq
<1>3. /\ m \in [D -> Seq(X)] /\ Untaken(switch, m) /\ Goes(switch, m, s, i)
      /\ s # AdditionalIEs => Len(m[s]) <= 1
  BY <1>2 DEF WellFormed
<1>4. ASSUME NEW t \in SlotsOf(switch), Before(order, t, s)
      PROVE  M[t] = m[t]
  <2>1. PICK q \in DOMAIN order : order[q] = t
    BY <1>1 DEF ToSet
  <2>2. q < p + 1
    BY <1>1, <1>4, <2>1 DEF Before
  <2>3. q \in 1 .. p /\ t \in D
    BY <1>1, <2>1, <2>2
  <2> QED
    BY <2>1, <2>3 DEF Half
<1>5. s # AdditionalIEs => M[s] = <<>>
  <2> SUFFICES ASSUME s # AdditionalIEs PROVE M[s] = <<>>
    OBVIOUS
  <2>1. k = 0
    <3>1. m[s] \in Seq(X) /\ Len(m[s]) \in Nat
      BY <1>2, <1>3, LenProperties
    <3>2. Len(m[s]) <= 1 /\ k + 1 <= Len(m[s])
      BY <1>3, <3>1
    <3> QED
      BY <3>1, <3>2
  <2>2. ~ \E q \in 1 .. p : order[q] = s
    BY <1>1
  <2>3. M[s] = SubSeq(m[s], 1, 0)
    BY <1>2, <2>1, <2>2 DEF Half
  <2> QED
    BY <2>3, SubSeqEmpty
<1>6. \A t \in SlotsOf(switch) : m[t] = <<>> => M[t] = <<>>
  <2> SUFFICES ASSUME NEW t \in SlotsOf(switch), m[t] = <<>> PROVE M[t] = <<>>
    OBVIOUS
  <2>1. t # s
    <3>1. m[s] # <<>>
      BY EmptySeq
    <3> QED
      BY <3>1
  <2> QED
    BY <2>1 DEF Half
<1> HIDE DEF M, i, s
<1>7. CASE ~Has(switch, i)
  BY <1>3, <1>7 DEF Goes, Target, s, M, i
<1>8. CASE Has(switch, i)
  <2> DEFINE r == RowFor(switch, i)
  <2>1. r \in switch /\ GoesByRow(r, m, s, i) /\ Target(switch, M, i) = Destination(r, M, i)
    BY <1>3, <1>8, RowForIs DEF Goes, Target
  <2> HIDE DEF r
  <2>2. r.choice \in Kinds /\ r.slots \in Seq(SlotsOf(switch) \cup {Dropped})
    BY <2>1, Cases DEF Sound
  <2>3. r.choice # "instance" =>
          \A l \in DOMAIN r.slots : r.slots[l] \in SlotsOf(switch) /\ r.slots[l] # AdditionalIEs
    BY <2>1, LookedAt
  <2>4. r.choice = "taken" => \A l \in DOMAIN r.slots : M[r.slots[l]] = <<>>
    BY <1>3, <1>6, <2>1, <2>3 DEF Untaken
  <2>5. r.choice = "free" =>
          \A l \in DOMAIN r.slots :
            /\ Before(order, r.slots[l], r.rest)
            /\ \A n \in DOMAIN r.slots : l < n => Before(order, r.slots[l], r.slots[n])
    BY <2>1 DEF Sound, InOrderOfUse
  <2>6. r.choice = "free" =>
          \A n \in DOMAIN r.slots : s = r.slots[n] =>
            /\ M[s] = <<>>
            /\ \A l \in DOMAIN r.slots : l < n => M[r.slots[l]] = m[r.slots[l]]
    BY <1>4, <1>5, <2>3, <2>5
  <2>7. r.choice = "free" /\ s = r.rest =>
          \A l \in DOMAIN r.slots : M[r.slots[l]] = m[r.slots[l]]
    BY <1>4, <2>3, <2>5
  <2>8. Destination(r, M, i) = s
    <3>1. Ready(r, m, M, s)
      BY <2>4, <2>6, <2>7 DEF Ready
    <3> QED
      BY <2>1, <2>2, <3>1, GoesBack
  <2> QED
    BY <2>1, <2>8 DEF s, M, i
<1> QED
  BY <1>7, <1>8

\* And makes the struct one IE more complete.
LEMMA HalfGrows ==
  ASSUME NEW switch, NEW order, Sound(switch, order), NEW X,
         NEW D, SlotsOf(switch) \subseteq D, Dropped \notin D, NEW m \in WellFormed(switch, D, X),
         NEW p \in Nat, p + 1 \in 1 .. Len(order),
         NEW k \in Nat, k + 1 \in 1 .. Len(m[order[p + 1]])
  PROVE  Place(switch, Half(order, D, m, p, k), m[order[p + 1]][k + 1])
           = Half(order, D, m, p, k + 1)
<1> DEFINE s == order[p + 1]
           M == Half(order, D, m, p, k)
           N == Half(order, D, m, p, k + 1)
           i == m[s][k + 1]
<1>1. /\ order \in Seq(SlotsOf(switch)) /\ s \in D /\ s # Dropped
      /\ \A q \in 1 .. p : order[q] # s
  <2>1. /\ order \in Seq(SlotsOf(switch)) /\ DOMAIN order = 1 .. Len(order) /\ Len(order) \in Nat
        /\ \A a, b \in DOMAIN order : order[a] = order[b] => a = b
    BY LenProperties DEF Sound, Writes
  <2>2. s \in SlotsOf(switch)
    BY <2>1, ElementOfSeq
  <2>3. \A q \in 1 .. p : order[q] # s
    BY <2>1
  <2> QED
    BY <2>1, <2>2, <2>3
<1>2. m \in [D -> Seq(X)] /\ (s # AdditionalIEs => Len(m[s]) <= 1)
  BY <1>1 DEF WellFormed
<1>3. m[s] \in Seq(X) /\ Len(m[s]) \in Nat /\ k + 1 \in 1 .. Len(m[s]) /\ i \in X
  BY <1>1, <1>2, LenProperties, ElementOfSeq
<1>4. Place(switch, M, i) = Put(M, s, i)
  BY HalfGoes, PlaceTarget
<1>5. /\ M \in [D -> Seq(X)] /\ M[s] = SubSeq(m[s], 1, k)
      /\ N = [M EXCEPT ![s] = SubSeq(m[s], 1, k + 1)]
  <2>1. \A a \in Nat : a <= Len(m[s]) => SubSeq(m[s], 1, a) \in Seq(X)
    <3> SUFFICES ASSUME NEW a \in Nat, a <= Len(m[s])
                 PROVE  SubSeq(m[s], 1, a) \in Seq(X)
      OBVIOUS
    <3>1. \A b \in 1 .. a : m[s][b] \in X
      BY <1>3, ElementOfSeq
    <3> QED
      BY <3>1, SubSeqProperties
  <2>2. SubSeq(m[s], 1, k) \in Seq(X) /\ SubSeq(m[s], 1, k + 1) \in Seq(X)
    BY <1>3, <2>1
  <2>3. <<>> \in Seq(X)
    BY EmptySeq
  <2>4. M \in [D -> Seq(X)]
    BY <1>2, <2>2, <2>3 DEF Half
  <2>5. M[s] = SubSeq(m[s], 1, k)
    BY <1>1 DEF Half
  <2>6. N = [M EXCEPT ![s] = SubSeq(m[s], 1, k + 1)]
    BY <1>1 DEF Half
  <2> QED
    BY <2>4, <2>5, <2>6
<1> HIDE DEF M, N, i, s
<1>6. i = m[s][k + 1]
  BY DEF i
<1>7. SubSeq(m[s], 1, k + 1) = SubSeq(m[s], 1, k) \o <<i>>
  <2>1. 1 \in 1 .. Len(m[s]) /\ k + 1 \in 1 .. Len(m[s]) /\ (k + 1) - 1 = k
    BY <1>3
  <2> QED
    BY <1>3, <1>6, <2>1, SubSeqRecursiveSecond
<1>8. CASE s = AdditionalIEs
  <2>1. Put(M, s, i) = [M EXCEPT ![s] = Append(M[s], i)]
    BY <1>8, <1>5, Words DEF Put
  <2>2. M[s] \in Seq(X)
    BY <1>1, <1>5
  <2>3. Append(M[s], i) = SubSeq(m[s], 1, k) \o <<i>>
    BY <1>3, <1>5, <2>2, AppendIsConcat
  <2> QED
    BY <1>4, <1>5, <1>7, <2>1, <2>3 DEF M, N, i, s
<1>9. CASE s # AdditionalIEs
  <2>1. Put(M, s, i) = [M EXCEPT ![s] = <<i>>]
    BY <1>1, <1>9 DEF Put
  <2>2. k = 0
    BY <1>2, <1>3, <1>9
  <2>3. SubSeq(m[s], 1, k) = <<>>
    BY <2>2, SubSeqEmpty
  <2>4. <<>> \o <<i>> = <<i>>
    <3>1. <<i>> \in Seq(X)
      BY <1>3
    <3> QED
      BY <3>1, ConcatEmptySeq
  <2> QED
    BY <1>4, <1>5, <1>7, <2>1, <2>3, <2>4 DEF M, N, i, s
<1> QED
  BY <1>8, <1>9

LEMMA HalfNext ==
  ASSUME NEW order, NEW X, NEW D, NEW m \in [D -> Seq(X)],
         NEW p \in Nat, order[p + 1] \in D
  PROVE  Half(order, D, m, p, Len(m[order[p + 1]])) = Half(order, D, m, p + 1, 0)
<1> DEFINE s == order[p + 1]
           A == Half(order, D, m, p, Len(m[s]))
           B == Half(order, D, m, p + 1, 0)
<1>1. ASSUME NEW t \in D
      PROVE  A[t] = B[t]
  <2>1. SubSeq(m[t], 1, 0) = <<>>
    BY SubSeqEmpty
  <2>2. (\E q \in 1 .. p + 1 : order[q] = t) <=> (\E q \in 1 .. p : order[q] = t) \/ t = s
    <3>1. \A q : q \in 1 .. p + 1 <=> q \in 1 .. p \/ q = p + 1
      OBVIOUS
    <3> QED
      BY <3>1, Zenon
  <2>3. SubSeq(m[s], 1, Len(m[s])) = m[s]
    BY SubSeqFull
  <2> QED
    BY <2>1, <2>2, <2>3 DEF Half
<1> QED
  BY <1>1 DEF Half

LEMMA HalfEnds ==
  ASSUME NEW switch, NEW order, Sound(switch, order), NEW X,
         NEW D, SlotsOf(switch) \subseteq D, NEW m \in WellFormed(switch, D, X)
  PROVE  /\ Half(order, D, m, 0, 0) = [t \in D |-> <<>>]
         /\ Half(order, D, m, Len(order), 0) = m
<1>1. \A t \in D : SubSeq(m[t], 1, 0) = <<>>
  BY SubSeqEmpty
<1>2. m \in [D -> Seq(X)] /\ \A t \in D : t \notin SlotsOf(switch) => m[t] = <<>>
  BY DEF WellFormed
<1>3. ToSet(order) = SlotsOf(switch) /\ DOMAIN order = 1 .. Len(order)
  BY LenProperties DEF Sound, Writes
<1>4. ASSUME NEW t \in D
      PROVE  Half(order, D, m, 0, 0)[t] = <<>> /\ Half(order, D, m, Len(order), 0)[t] = m[t]
  <2>1. Half(order, D, m, 0, 0)[t] = <<>>
    BY <1>1 DEF Half
  <2>2. CASE \E q \in 1 .. Len(order) : order[q] = t
    BY <2>1, <2>2 DEF Half
  <2>3. CASE ~ \E q \in 1 .. Len(order) : order[q] = t
    <3>1. t \notin SlotsOf(switch)
      BY <1>3, <2>3 DEF ToSet
    <3> QED
      BY <1>1, <1>2, <2>1, <2>3, <3>1 DEF Half
  <2> QED
    BY <2>2, <2>3
<1>5. /\ DOMAIN Half(order, D, m, 0, 0) = D /\ DOMAIN Half(order, D, m, Len(order), 0) = D
      /\ Half(order, D, m, 0, 0) = [t \in D |-> Half(order, D, m, 0, 0)[t]]
      /\ Half(order, D, m, Len(order), 0) = [t \in D |-> Half(order, D, m, Len(order), 0)[t]]
  BY DEF Half
<1> QED
  BY <1>2, <1>4, <1>5

LEMMA Reparse ==
  ASSUME NEW switch, NEW order, Sound(switch, order), NEW X,
         NEW D, SlotsOf(switch) \subseteq D, Dropped \notin D, NEW m \in WellFormed(switch, D, X)
  PROVE  /\ InOrder(m, order) \in Seq(X)
         /\ Fill([t \in D |-> <<>>], switch, InOrder(m, order)) = m
<1> DEFINE L == Len(order)
           part == [n \in 1 .. L |-> m[order[n]]]
<1>1. L \in Nat /\ \A n \in 1 .. L : order[n] \in D
  <2>1. order \in Seq(SlotsOf(switch))
    BY DEF Sound, Writes
  <2> QED
    BY <2>1, LenProperties, ElementOfSeq
<1>2. m \in [D -> Seq(X)]
  BY DEF WellFormed
<1>3. PICK w : /\ InOrder(m, order) = w[L] /\ w[0] = <<>>
               /\ \A n \in 1 .. L : w[n] = w[n - 1] \o m[order[n]]
  <2>1. PICK w : Writing(m, order, w)
    BY <1>1, InOrderRounds
  <2> QED
    BY <2>1 DEF Writing
<1>4. \A n \in 1 .. L : part[n] \in Seq(X) /\ w[n] = w[n - 1] \o part[n]
  BY <1>1, <1>2, <1>3
<1> HIDE DEF L, part
<1>5. (\A n \in 0 .. L : w[n] \in Seq(X)) /\ (\A n \in 0 .. L : Begins(w[n], w[L]))
  <2>1. \A n \in 1 .. L : part[n] \in Seq(X)
    BY <1>4
  <2>2. \A n \in 1 .. L : w[n] = w[n - 1] \o part[n]
    BY <1>4
  <2>3. L \in Nat /\ w[0] = <<>>
    BY <1>1, <1>3
  <2>4. \A n \in 0 .. L : w[n] \in Seq(X)
    BY <2>1, <2>2, <2>3, PartsTyped, Zenon
  <2>5. \A n \in 0 .. L : Begins(w[n], w[L])
    BY <2>1, <2>2, <2>3, PartsBegin, Zenon
  <2> QED
    BY <2>4, <2>5
<1>6. w[L] \in Seq(X) /\ Len(w[L]) \in Nat
  <2>1. w[L] \in Seq(X)
    BY <1>1, <1>5
  <2> QED
    BY <2>1, LenProperties
<1>7. PICK f : /\ Fill([t \in D |-> <<>>], switch, w[L]) = f[Len(w[L])] /\ f[0] = [t \in D |-> <<>>]
               /\ \A n \in 1 .. Len(w[L]) : f[n] = Place(switch, f[n - 1], w[L][n])
  BY <1>6, FillRounds
\* Inside of a slot.
<1>8. ASSUME NEW p \in Nat, p + 1 \in 1 .. L, f[Len(w[p])] = Half(order, D, m, p, 0)
      PROVE  f[Len(w[p + 1])] = Half(order, D, m, p + 1, 0)
  <2> DEFINE s == order[p + 1]
             a == Len(w[p])
             S == {k \in Nat : k <= Len(m[s]) => f[a + k] = Half(order, D, m, p, k)}
  <2>1. s \in D /\ m[s] \in Seq(X) /\ Len(m[s]) \in Nat
    BY <1>1, <1>2, <1>8, LenProperties
  <2>2. /\ w[p] \in Seq(X) /\ w[p + 1] \in Seq(X) /\ Begins(w[p + 1], w[L])
        /\ w[p + 1] = w[p] \o m[s]
    <3>1. p \in 0 .. L /\ p + 1 \in 0 .. L /\ (p + 1) - 1 = p
      BY <1>1, <1>8
    <3> QED
      BY <1>3, <1>5, <1>8, <3>1
  <2>3. a \in Nat /\ Len(w[p + 1]) = a + Len(m[s])
    BY <2>1, <2>2, LenProperties, ConcatProperties
  <2>4. ASSUME NEW k \in Nat, k + 1 <= Len(m[s])
        PROVE  a + (k + 1) \in 1 .. Len(w[L]) /\ w[L][a + (k + 1)] = m[s][k + 1]
    <3> HIDE DEF s
    <3>1. /\ Len(w[p]) + (k + 1) \in 1 .. Len(w[p] \o m[s])
          /\ (w[p] \o m[s])[Len(w[p]) + (k + 1)] = m[s][k + 1]
      <4>1. w[p] \in Seq(X) /\ m[s] \in Seq(X) /\ k \in Nat /\ k + 1 <= Len(m[s])
        BY <2>1, <2>2, <2>4
      <4> QED
        BY ONLY <4>1, ConcatPlaces
    <3> HIDE DEF a
    <3>2. /\ a + (k + 1) \in 1 .. Len(w[p + 1])
          /\ w[p + 1][a + (k + 1)] = m[s][k + 1]
      BY <2>2, <3>1 DEF a
    <3>3. Len(w[p + 1]) \in Nat /\ Len(w[L]) \in Nat
      BY <1>6, <2>1, <2>3
    <3>4. a + (k + 1) \in 1 .. Len(w[L]) /\ w[L][a + (k + 1)] = w[p + 1][a + (k + 1)]
      <4>1. Begins(w[p + 1], w[L])
        BY <2>2
      <4> QED
        BY ONLY <3>2, <3>3, <4>1 DEF Begins
    <3> QED
      BY <3>2, <3>4
  <2>5. 0 \in S
    BY <1>8, <2>3
  <2>6. ASSUME NEW k \in Nat, k \in S
        PROVE  k + 1 \in S
    <3> HIDE DEF a, s
    <3> SUFFICES ASSUME k + 1 <= Len(m[s]) PROVE f[a + (k + 1)] = Half(order, D, m, p, k + 1)
      OBVIOUS
    <3>1. f[a + k] = Half(order, D, m, p, k)
      BY <2>1, <2>6
    <3> HIDE DEF S
    <3>2. k + 1 \in 1 .. Len(m[s])
      BY <2>1
    <3>3. Place(switch, Half(order, D, m, p, k), m[s][k + 1]) = Half(order, D, m, p, k + 1)
      BY <1>8, <3>2, HalfGrows DEF L, s
    <3>4. (a + (k + 1)) - 1 = a + k
      BY <2>3
    <3>5. f[a + (k + 1)] = Place(switch, f[a + k], m[s][k + 1])
      <4>1. a + (k + 1) \in 1 .. Len(w[L]) /\ w[L][a + (k + 1)] = m[s][k + 1]
        BY <2>4
      <4> QED
        BY <1>7, <3>4, <4>1
    <3> QED
      BY <3>1, <3>3, <3>5
  <2> HIDE DEF S
  <2>7. Len(m[s]) \in S
    BY <2>1, <2>5, <2>6, SetInduction
  <2>8. f[a + Len(m[s])] = Half(order, D, m, p, Len(m[s]))
    <3> HIDE DEF a, s
    <3> QED
      BY <2>1, <2>7 DEF S
  <2>9. Half(order, D, m, p, Len(m[s])) = Half(order, D, m, p + 1, 0)
    BY <1>2, <2>1, HalfNext
  <2> QED
    BY <2>3, <2>8, <2>9
\* From slot to slot.
<1> DEFINE T == {p \in Nat : p <= L => f[Len(w[p])] = Half(order, D, m, p, 0)}
<1>9. 0 \in T
  <2>1. Len(w[0]) = 0
    BY <1>3, EmptySeq
  <2> QED
    BY <1>7, <2>1, HalfEnds
<1>10. ASSUME NEW p \in Nat, p \in T
       PROVE  p + 1 \in T
  <2> SUFFICES ASSUME p + 1 <= L PROVE f[Len(w[p + 1])] = Half(order, D, m, p + 1, 0)
    OBVIOUS
  <2>1. p <= L /\ p + 1 \in 1 .. L
    BY <1>1
  <2>2. f[Len(w[p])] = Half(order, D, m, p, 0)
    BY <1>10, <2>1
  <2> HIDE DEF T
  <2> QED
    BY <1>8, <2>1, <2>2
<1> HIDE DEF T
<1>11. L \in T
  BY <1>1, <1>9, <1>10, SetInduction
<1>12. f[Len(w[L])] = m
  <2>1. f[Len(w[L])] = Half(order, D, m, L, 0)
    BY <1>1, <1>11 DEF T
  <2>2. Half(order, D, m, L, 0) = m
    BY HalfEnds DEF L
  <2> QED
    BY <2>1, <2>2
<1> QED
  BY <1>3, <1>6, <1>7, <1>12

-----------------------------------------------------------------------------
(* The messages on their way. *)

AnyIE == UNION {IE(m, n) : m \in Message, n \in Nat}

Whole(m) == WellFormed(UnmarshalSwitch[m], SlotsOf(NewSwitch[m]), AnyIE)

LEMMA Tables ==
  ASSUME NEW m \in Message
  PROVE  /\ Sound(UnmarshalSwitch[m], MarshalToOrder[m])
         /\ SlotsOf(UnmarshalSwitch[m]) \subseteq SlotsOf(NewSwitch[m])
         /\ IsSwitch(NewSwitch[m]) /\ Dropped \notin SlotsOf(NewSwitch[m])
         /\ m \notin Incomplete => Agrees(NewSwitch[m], UnmarshalSwitch[m])
  BY TableAssumption, NotDropped DEF Sound

\* The IEs that are chosen: each has its place as its number.
Chosen ==
  /\ message \in Message /\ ies \in Seq(AnyIE)
  /\ \A k \in 1 .. Len(ies) : ies[k].number = k
  /\ stage = "open" => struct = EmptyStruct(NewSwitch[message])

LEMMA IEsAre ==
  ASSUME NEW m \in Message, NEW n \in Nat, NEW i \in IE(m, n)
  PROVE  i \in AnyIE /\ i.number = n
<1>1. i \in AnyIE
  <2>1. IE(m, n) \in {IE(a, b) : a \in Message, b \in Nat}
    OBVIOUS
  <2> QED
    BY <2>1 DEF AnyIE
<1>2. i.number = n
  BY DEF IE
<1> QED
  BY <1>1, <1>2

LEMMA NumbersAreNat ==
  ASSUME NEW i \in AnyIE
  PROVE  i.number \in Nat
<1>1. PICK m \in Message, n \in Nat : i \in IE(m, n)
  BY DEF AnyIE
<1> QED
  BY <1>1, IEsAre

LEMMA ChosenInit == Init => Chosen
  BY EmptySeq DEF Init, Chosen

LEMMA ChosenStep == Chosen /\ [Next]_vars => Chosen'
<1> SUFFICES ASSUME Chosen, [Next]_vars
             PROVE  Chosen'
  OBVIOUS
<1> USE DEF Chosen
<1>1. CASE AddIE
  <2>1. PICK i \in IE(message, Len(ies) + 1) : ies' = Append(ies, i)
    BY <1>1 DEF AddIE
  <2>2. ies \in Seq(AnyIE) /\ Len(ies) \in Nat /\ Len(ies) + 1 \in Nat
    BY LenProperties
  <2>3. i \in AnyIE /\ i.number = Len(ies) + 1
    BY <2>2, IEsAre
  <2>4. /\ ies' \in Seq(AnyIE) /\ Len(ies') = Len(ies) + 1 /\ ies'[Len(ies) + 1] = i
        /\ \A k \in 1 .. Len(ies) : ies'[k] = ies[k]
    BY <2>1, <2>2, <2>3, AppendProperties
  <2>5. ASSUME NEW k \in 1 .. Len(ies')
        PROVE  ies'[k].number = k
    <3>1. k \in 1 .. Len(ies) \/ k = Len(ies) + 1
      BY <2>2, <2>4
    <3> QED
      BY <2>3, <2>4, <3>1
  <2>6. message' = message /\ struct' = struct /\ stage = "open"
    BY <1>1 DEF AddIE
  <2> QED
    BY <2>4, <2>5, <2>6
<1>2. CASE Create
  BY <1>2 DEF Create
<1>3. CASE Receive
  BY <1>3 DEF Receive
<1>4. CASE Marshal \/ MarshalFails \/ MarshalPanics
  BY <1>4 DEF Marshal, MarshalFails, MarshalPanics
<1>5. CASE Parse
  BY <1>5 DEF Parse
<1>6. CASE UNCHANGED vars
  BY <1>6 DEF vars
<1> QED
  BY <1>1, <1>2, <1>3, <1>4, <1>5, <1>6 DEF Next

\* What is made of the IEs by tables that agree, or of a peer's IEs by UnmarshalBinary
\* alone, is well formed, and is on the wire what MarshalTo writes of it.
Exact == message \notin Incomplete \/ origin = "peer"

OnItsWay ==
  /\ marshals \in Nat
  /\ stage = "open" => marshals = 0
  /\ Exact /\ HasStruct => struct \in Whole(message)
  /\ Exact /\ stage \in {"struct", "wire"} /\ marshals > 0 => struct = sent
  /\ Exact /\ stage = "wire" =>
       /\ wire \in Seq(AnyIE)
       /\ marshals > 0 => wire = InOrder(sent, MarshalToOrder[message])

LEMMA OnItsWayStep == Chosen /\ OnItsWay /\ [Next]_vars => OnItsWay'
<1> SUFFICES ASSUME Chosen, OnItsWay, [Next]_vars
             PROVE  OnItsWay'
  OBVIOUS
<1> DEFINE U == UnmarshalSwitch[message]
           O == MarshalToOrder[message]
           D == SlotsOf(NewSwitch[message])
<1>1. /\ message \in Message /\ ies \in Seq(AnyIE)
      /\ stage = "open" => struct = EmptyStruct(NewSwitch[message])
  BY DEF Chosen
<1>2. /\ Sound(U, O) /\ SlotsOf(U) \subseteq D /\ Dropped \notin D
      /\ IsSwitch(NewSwitch[message])
      /\ message \notin Incomplete => Agrees(NewSwitch[message], U)
  BY <1>1, Tables
<1>3. Whole(message) = WellFormed(U, D, AnyIE)
  BY DEF Whole
<1>4. EmptyStruct(NewSwitch[message]) = [slot \in D |-> <<>>]
  BY DEF EmptyStruct
<1> HIDE DEF U, O, D
<1>5. CASE AddIE
  BY <1>5 DEF AddIE, OnItsWay, Exact, HasStruct
<1>6. CASE Create
  <2>1. /\ struct' = Fill([slot \in D |-> <<>>], NewSwitch[message], ies)
        /\ marshals' = 0 /\ message' = message /\ origin' = "ours" /\ stage' = "struct"
    BY <1>1, <1>4, <1>6 DEF Create, OnItsWay
  <2>2. message \notin Incomplete => struct' \in Whole(message)
    <3> SUFFICES ASSUME message \notin Incomplete PROVE struct' \in Whole(message)
      OBVIOUS
    <3>1. Agrees(NewSwitch[message], U)
      BY <1>2
    <3>2. Fill([slot \in D |-> <<>>], NewSwitch[message], ies) \in WellFormed(U, D, AnyIE)
      BY <1>1, <1>2, <3>1, FillWellFormed
    <3> QED
      BY <1>3, <2>1, <3>2
  <2> QED
    BY <2>1, <2>2 DEF OnItsWay, Exact, HasStruct, Whole
<1>7. CASE Receive
  <2>1. /\ wire' = ies /\ marshals' = 0 /\ stage' = "wire"
    BY <1>7 DEF Receive, OnItsWay
  <2> QED
    BY <1>1, <2>1 DEF OnItsWay, Exact, HasStruct
<1>8. CASE Marshal
  <2>1. /\ HasStruct /\ wire' = InOrder(struct, O) /\ sent' = struct /\ struct' = struct
        /\ marshals' = marshals + 1 /\ stage' = "wire"
        /\ message' = message /\ origin' = origin
    BY <1>8 DEF Marshal, Written, O
  <2>2. Exact' => struct \in WellFormed(U, D, AnyIE)
    BY <1>3, <2>1 DEF OnItsWay, Exact
  <2>3. Exact' => wire' \in Seq(AnyIE)
    BY <1>2, <2>1, <2>2, Reparse
  <2>4. Whole(message)' = WellFormed(U, D, AnyIE) /\ MarshalToOrder[message'] = O
    BY <2>1 DEF Whole, U, O, D
  <2> QED
    BY <2>1, <2>2, <2>3, <2>4 DEF OnItsWay
<1>9. CASE Parse
  <2>1. /\ stage = "wire" /\ struct' = Fill([slot \in D |-> <<>>], U, wire)
        /\ marshals' = marshals /\ stage' = "struct" /\ sent' = sent
        /\ message' = message /\ origin' = origin
    BY <1>4, <1>9 DEF Parse, U
  <2>6. marshals > 0 => HasStruct
    BY <2>1 DEF HasStruct
  <2>2. Exact' => wire \in Seq(AnyIE)
    BY <2>1 DEF OnItsWay, Exact
  <2>3. Exact' => struct' \in WellFormed(U, D, AnyIE)
    BY <1>2, <2>1, <2>2, FillWellFormed
  <2>4. Exact' /\ marshals > 0 => struct' = sent'
    <3> SUFFICES ASSUME Exact', marshals > 0 PROVE struct' = sent
      BY <2>1
    <3>1. sent \in WellFormed(U, D, AnyIE) /\ wire = InOrder(sent, O)
      BY <1>3, <2>1, <2>6 DEF OnItsWay, Exact, O
    <3>2. Fill([slot \in D |-> <<>>], U, InOrder(sent, O)) = sent
      BY <1>2, <3>1, Reparse
    <3> QED
      BY <2>1, <3>1, <3>2
  <2>5. Whole(message)' = WellFormed(U, D, AnyIE)
    BY <2>1 DEF Whole, U, D
  <2> QED
    BY <2>1, <2>3, <2>4, <2>5 DEF OnItsWay
<1>10. CASE MarshalFails \/ MarshalPanics
  <2>1. /\ HasStruct /\ struct' = struct /\ marshals' = marshals + 1
        /\ stage' \in {"failed", "crashed"} /\ message' = message /\ origin' = origin
    BY <1>10 DEF MarshalFails, MarshalPanics
  <2> QED
    BY <2>1 DEF OnItsWay, Exact, Whole
<1>11. CASE UNCHANGED vars
  BY <1>11 DEF vars, OnItsWay, Exact, HasStruct, Whole
<1> QED
  BY <1>5, <1>6, <1>7, <1>8, <1>9, <1>10, <1>11 DEF Next

-----------------------------------------------------------------------------
(* The unknown IEs among others. *)

UnknownOf(s) == {i \in ToSet(s) : IsUnknown(i)}

\* The unknown IEs of s come in the order of their numbers.
Numbered(s) ==
  \A k, l \in DOMAIN s :
    k < l /\ IsUnknown(s[k]) /\ IsUnknown(s[l]) => s[k].number < s[l].number

LEMMA AppendUnknown ==
  ASSUME NEW X, NEW s \in Seq(X), NEW i \in X
  PROVE  /\ UnknownOf(Append(s, i)) = UnknownOf(s) \cup {j \in {i} : IsUnknown(j)}
         /\ Numbered(s) /\ (IsUnknown(i) => \A j \in UnknownOf(s) : j.number < i.number)
              => Numbered(Append(s, i))
<1> DEFINE a == Append(s, i)
<1>1. /\ Len(s) \in Nat /\ DOMAIN s = 1 .. Len(s)
      /\ a \in Seq(X) /\ Len(a) = Len(s) + 1 /\ a[Len(s) + 1] = i
      /\ \A k \in 1 .. Len(s) : a[k] = s[k]
  BY LenProperties, AppendProperties
<1>2. DOMAIN a = 1 .. Len(a)
  BY <1>1, LenProperties
<1> HIDE DEF a
<1>3. \A k : k \in DOMAIN a <=> k \in DOMAIN s \/ k = Len(s) + 1
  BY <1>1, <1>2
<1>4. ToSet(a) = ToSet(s) \cup {i}
  <2>1. ASSUME NEW x \in ToSet(a)
        PROVE  x \in ToSet(s) \cup {i}
    <3>1. PICK k \in DOMAIN a : a[k] = x
      BY <2>1 DEF ToSet
    <3> QED
      BY <1>1, <1>3, <3>1 DEF ToSet
  <2>2. ASSUME NEW x \in ToSet(s)
        PROVE  x \in ToSet(a)
    <3>1. PICK k \in DOMAIN s : s[k] = x
      BY <2>2 DEF ToSet
    <3> QED
      BY <1>1, <1>3, <3>1 DEF ToSet
  <2>3. i \in ToSet(a)
    BY <1>1, <1>3 DEF ToSet
  <2> QED
    BY <2>1, <2>2, <2>3
<1>5. UnknownOf(a) = UnknownOf(s) \cup {j \in {i} : IsUnknown(j)}
  BY <1>4 DEF UnknownOf
<1>6. ASSUME Numbered(s), IsUnknown(i) => \A j \in UnknownOf(s) : j.number < i.number
      PROVE  Numbered(a)
  <2> SUFFICES ASSUME NEW k \in DOMAIN a, NEW l \in DOMAIN a,
                      k < l, IsUnknown(a[k]), IsUnknown(a[l])
               PROVE  a[k].number < a[l].number
    BY DEF Numbered
  <2>1. k \in DOMAIN s
    BY <1>1, <1>2
  <2>2. CASE l \in DOMAIN s
    BY <1>1, <1>6, <2>1, <2>2 DEF Numbered
  <2>3. CASE l = Len(s) + 1
    <3>1. s[k] \in UnknownOf(s) /\ a[k] = s[k] /\ a[l] = i
      BY <1>1, <2>1, <2>3 DEF UnknownOf, ToSet
    <3> QED
      BY <1>6, <3>1
  <2> QED
    BY <1>3, <2>2, <2>3
<1> QED
  BY <1>5, <1>6 DEF a

LEMMA ConcatUnknown ==
  ASSUME NEW X, NEW p \in Seq(X), NEW q \in Seq(X), UnknownOf(p) = {}
  PROVE  /\ UnknownOf(p \o q) = UnknownOf(q)
         /\ Numbered(q) => Numbered(p \o q)
<1> DEFINE c == p \o q
<1>1. /\ Len(p) \in Nat /\ DOMAIN p = 1 .. Len(p) /\ Len(q) \in Nat /\ DOMAIN q = 1 .. Len(q)
      /\ c \in Seq(X) /\ Len(c) = Len(p) + Len(q)
      /\ \A n \in 1 .. Len(p) + Len(q) : c[n] = IF n <= Len(p) THEN p[n] ELSE q[n - Len(p)]
  BY LenProperties, ConcatProperties
<1>2. DOMAIN c = 1 .. Len(p) + Len(q)
  BY <1>1, LenProperties
<1> HIDE DEF c
<1>3. \A n \in DOMAIN p : ~IsUnknown(p[n])
  BY DEF UnknownOf, ToSet
<1>4. ASSUME NEW n \in DOMAIN c, IsUnknown(c[n])
      PROVE  n \in Nat /\ n - Len(p) \in DOMAIN q /\ c[n] = q[n - Len(p)]
  <2>1. CASE n <= Len(p)
    BY <1>1, <1>2, <1>3, <1>4, <2>1
  <2>2. CASE ~(n <= Len(p))
    BY <1>1, <1>2, <2>2
  <2> QED
    BY <2>1, <2>2
<1>5. ASSUME NEW n \in DOMAIN q
      PROVE  n + Len(p) \in DOMAIN c /\ c[n + Len(p)] = q[n]
  <2>1. n + Len(p) \in 1 .. Len(p) + Len(q) /\ ~(n + Len(p) <= Len(p)) /\ (n + Len(p)) - Len(p) = n
    BY <1>1
  <2> QED
    BY <1>1, <1>2, <2>1
<1>6. UnknownOf(c) = UnknownOf(q)
  <2>1. ASSUME NEW x \in UnknownOf(c)
        PROVE  x \in UnknownOf(q)
    <3>1. PICK n \in DOMAIN c : c[n] = x /\ IsUnknown(x)
      BY <2>1 DEF UnknownOf, ToSet
    <3> QED
      BY <1>4, <3>1 DEF UnknownOf, ToSet
  <2>2. ASSUME NEW x \in UnknownOf(q)
        PROVE  x \in UnknownOf(c)
    <3>1. PICK n \in DOMAIN q : q[n] = x /\ IsUnknown(x)
      BY <2>2 DEF UnknownOf, ToSet
    <3> QED
      BY <1>5, <3>1 DEF UnknownOf, ToSet
  <2> QED
    BY <2>1, <2>2
<1>7. ASSUME Numbered(q)
      PROVE  Numbered(c)
  <2> SUFFICES ASSUME NEW k \in DOMAIN c, NEW l \in DOMAIN c,
                      k < l, IsUnknown(c[k]), IsUnknown(c[l])
               PROVE  c[k].number < c[l].number
    BY DEF Numbered
  <2>1. /\ k \in Nat /\ k - Len(p) \in DOMAIN q /\ c[k] = q[k - Len(p)]
        /\ l \in Nat /\ l - Len(p) \in DOMAIN q /\ c[l] = q[l - Len(p)]
    BY <1>4
  <2>2. k - Len(p) < l - Len(p)
    BY <1>1, <2>1
  <2> QED
    BY <1>7, <2>1, <2>2 DEF Numbered
<1> QED
  BY <1>6, <1>7 DEF c

\* The structs that hold the unknown IEs of s: among the AdditionalIEs, in order.
Holding(D, X, s) ==
  {m \in [D -> Seq(X)] :
     /\ \A t \in D : t # AdditionalIEs => UnknownOf(m[t]) = {}
     /\ UnknownOf(m[AdditionalIEs]) = UnknownOf(s) /\ Numbered(m[AdditionalIEs])}

\* An unknown IE has no case; a known one is no matter.
LEMMA PlaceHolds ==
  ASSUME NEW switch, IsSwitch(switch), NEW D, SlotsOf(switch) \subseteq D, Dropped \notin D,
         NEW X, NEW s \in Seq(X), NEW i \in X, NEW m \in Holding(D, X, s),
         IsUnknown(i) => \A j \in UnknownOf(s) : j.number < i.number
  PROVE  Place(switch, m, i) \in Holding(D, X, Append(s, i))
<1> DEFINE T == Target(switch, m, i)
           M == Put(m, T, i)
           A == AdditionalIEs
<1>1. /\ m \in [D -> Seq(X)] /\ \A t \in D : t # A => UnknownOf(m[t]) = {}
      /\ UnknownOf(m[A]) = UnknownOf(s) /\ Numbered(m[A])
  BY DEF Holding
<1>2. T \in SlotsOf(switch) \cup {Dropped} /\ A \in D /\ m[A] \in Seq(X)
  BY <1>1, TargetSlot, NotDropped
<1>3. UnknownOf(Append(s, i)) = UnknownOf(s) \cup {j \in {i} : IsUnknown(j)}
  BY AppendUnknown
<1>4. IsUnknown(i) => T = A
  BY DEF IsUnknown, IsSwitch, Has, Target
<1> HIDE DEF T, A
<1>5. CASE T = Dropped
  <2>1. ~IsUnknown(i) /\ M = m
    BY <1>4, <1>5, Words DEF Put, A
  <2>2. UnknownOf(Append(s, i)) = UnknownOf(s)
    BY <1>3, <2>1
  <2>3. M \in Holding(D, X, Append(s, i))
    BY <1>1, <2>1, <2>2 DEF Holding, A
  <2> QED
    BY <2>3, PlaceTarget DEF T
<1>6. CASE T # Dropped
  <2>1. /\ M \in [D -> Seq(X)] /\ T \in D /\ \A t \in D : t # T => M[t] = m[t]
        /\ T # A => M[T] = <<i>>
        /\ T = A => M[T] = Append(m[T], i)
    <3>1. T \in D
      BY <1>2, <1>6
    <3> QED
      BY <1>1, <1>6, <3>1, PutIs DEF A
  <2> HIDE DEF M
  <2>2. CASE T = A
    <3>1. M[A] = Append(m[A], i)
      BY <2>1, <2>2
    <3>2. UnknownOf(M[A]) = UnknownOf(Append(s, i))
      BY <1>1, <1>2, <1>3, <3>1, AppendUnknown
    <3>3. Numbered(M[A])
      <4>1. Numbered(m[A]) /\ (IsUnknown(i) => \A j \in UnknownOf(m[A]) : j.number < i.number)
        BY <1>1
      <4> QED
        BY <1>2, <3>1, <4>1, AppendUnknown
    <3>4. \A t \in D : t # A => UnknownOf(M[t]) = {}
      BY <1>1, <2>1, <2>2
    <3> QED
      BY <2>1, <3>2, <3>3, <3>4, PlaceTarget DEF Holding, A, M, T
  <2>3. CASE T # A
    <3>1. ~IsUnknown(i) /\ UnknownOf(Append(s, i)) = UnknownOf(s)
      BY <1>3, <1>4, <2>3
    <3>2. UnknownOf(M[T]) = {}
      <4>1. M[T] = <<i>> /\ ToSet(<<i>>) = {i}
        BY <2>1, <2>3 DEF ToSet
      <4> QED
        BY <3>1, <4>1 DEF UnknownOf
    <3>3. M[A] = m[A] /\ \A t \in D : t # A => UnknownOf(M[t]) = {}
      BY <1>1, <1>2, <2>1, <2>3, <3>2
    <3> QED
      BY <1>1, <2>1, <3>1, <3>3, PlaceTarget DEF Holding, A, M, T
  <2> QED
    BY <2>2, <2>3
<1> QED
  BY <1>5, <1>6

LEMMA FirstIEs ==
  ASSUME NEW X, NEW s \in Seq(X), NEW n \in Nat, n + 1 <= Len(s)
  PROVE  /\ SubSeq(s, 1, n) \in Seq(X) /\ Len(SubSeq(s, 1, n)) = n
         /\ \A k \in 1 .. n : SubSeq(s, 1, n)[k] = s[k]
         /\ SubSeq(s, 1, n + 1) = Append(SubSeq(s, 1, n), s[n + 1])
<1>1. /\ Len(s) \in Nat /\ 1 \in 1 .. Len(s) /\ n + 1 \in 1 .. Len(s) /\ n <= Len(s)
      /\ (n + 1) - 1 = n
  BY LenProperties
<1>2. \A k \in 1 .. n : k \in 1 .. Len(s)
  BY <1>1
<1>3. \A k \in 1 .. n : s[k] \in X
  BY <1>2, ElementOfSeq
<1>4. /\ SubSeq(s, 1, n) \in Seq(X)
      /\ Len(SubSeq(s, 1, n)) = IF 1 <= n THEN n - 1 + 1 ELSE 0
      /\ \A k \in 1 .. n - 1 + 1 : SubSeq(s, 1, n)[k] = s[1 + k - 1]
  BY <1>3, SubSeqProperties
<1>5. /\ Len(SubSeq(s, 1, n)) = n
      /\ \A k \in 1 .. n : SubSeq(s, 1, n)[k] = s[k]
  BY <1>4
<1>6. SubSeq(s, 1, n + 1) = SubSeq(s, 1, n) \o <<s[n + 1]>>
  BY <1>1, SubSeqRecursiveSecond
<1>7. s[n + 1] \in X
  BY <1>1, ElementOfSeq
<1>8. Append(SubSeq(s, 1, n), s[n + 1]) = SubSeq(s, 1, n) \o <<s[n + 1]>>
  BY <1>4, <1>7, AppendIsConcat
<1> QED
  BY <1>4, <1>5, <1>6, <1>8

\* Whatever switch fills it, the struct holds the unknown IEs.
LEMMA FillHolds ==
  ASSUME NEW switch, IsSwitch(switch), NEW D, SlotsOf(switch) \subseteq D, Dropped \notin D,
         NEW X, NEW s \in Seq(X), Numbered(s)
  PROVE  Fill([t \in D |-> <<>>], switch, s) \in Holding(D, X, s)
<1>1. Len(s) \in Nat /\ DOMAIN s = 1 .. Len(s)
  BY LenProperties
<1>2. PICK f : /\ Fill([t \in D |-> <<>>], switch, s) = f[Len(s)] /\ f[0] = [t \in D |-> <<>>]
               /\ \A n \in 1 .. Len(s) : f[n] = Place(switch, f[n - 1], s[n])
  BY <1>1, FillRounds
<1> DEFINE S == {n \in Nat : n <= Len(s) => f[n] \in Holding(D, X, SubSeq(s, 1, n))}
<1>3. 0 \in S
  <2>1. SubSeq(s, 1, 0) = <<>>
    BY SubSeqEmpty
  <2>2. <<>> \in Seq(X) /\ UnknownOf(<<>>) = {} /\ Numbered(<<>>)
    BY EmptySeq DEF UnknownOf, Numbered, ToSet
  <2>3. AdditionalIEs \in D
    BY NotDropped
  <2>4. [t \in D |-> <<>>] \in Holding(D, X, <<>>)
    BY <2>2, <2>3 DEF Holding
  <2> QED
    BY <1>2, <2>1, <2>4
<1>4. ASSUME NEW n \in Nat, n \in S
      PROVE  n + 1 \in S
  <2> SUFFICES ASSUME n + 1 <= Len(s) PROVE f[n + 1] \in Holding(D, X, SubSeq(s, 1, n + 1))
    OBVIOUS
  <2>1. n <= Len(s) /\ n + 1 \in 1 .. Len(s) /\ (n + 1) - 1 = n
    BY <1>1
  <2>2. f[n] \in Holding(D, X, SubSeq(s, 1, n))
    BY <1>4, <2>1
  <2> HIDE DEF S
  <2> DEFINE r == SubSeq(s, 1, n)
  <2>3. /\ r \in Seq(X) /\ Len(r) = n /\ \A k \in 1 .. n : r[k] = s[k]
        /\ SubSeq(s, 1, n + 1) = Append(r, s[n + 1])
    BY FirstIEs
  <2>4. s[n + 1] \in X /\ f[n + 1] = Place(switch, f[n], s[n + 1])
    BY <1>2, <2>1, ElementOfSeq
  <2> HIDE DEF r
  <2>5. IsUnknown(s[n + 1]) => \A j \in UnknownOf(r) : j.number < s[n + 1].number
    <3> SUFFICES ASSUME IsUnknown(s[n + 1]), NEW j \in UnknownOf(r)
                 PROVE  j.number < s[n + 1].number
      OBVIOUS
    <3>1. PICK k \in DOMAIN r : r[k] = j /\ IsUnknown(j)
      BY DEF UnknownOf, ToSet
    <3>2. DOMAIN r = 1 .. n
      BY <2>3, LenProperties
    <3>3. k \in DOMAIN s /\ n + 1 \in DOMAIN s /\ k < n + 1 /\ s[k] = j
      BY <1>1, <2>1, <2>3, <3>1, <3>2
    <3> QED
      BY <3>1, <3>3 DEF Numbered
  <2>6. f[n] \in Holding(D, X, r)
    BY <2>2 DEF r
  <2> QED
    BY <2>3, <2>4, <2>5, <2>6, PlaceHolds
<1> HIDE DEF S
<1>5. f[Len(s)] \in Holding(D, X, SubSeq(s, 1, Len(s)))
  <2>1. Len(s) \in S
    BY <1>1, <1>3, <1>4, SetInduction
  <2> QED
    BY <1>1, <2>1 DEF S
<1>6. SubSeq(s, 1, Len(s)) = s
  BY SubSeqFull
<1> QED
  BY <1>2, <1>5, <1>6

\* MarshalTo writes the AdditionalIEs last, and nothing unknown before them.
LEMMA InOrderHolds ==
  ASSUME NEW switch, NEW order, Writes(order, switch), NEW D, SlotsOf(switch) \subseteq D,
         NEW X, NEW s, NEW m \in Holding(D, X, s)
  PROVE  /\ InOrder(m, order) \in Seq(X)
         /\ UnknownOf(InOrder(m, order)) = UnknownOf(s) /\ Numbered(InOrder(m, order))
<1> DEFINE L == Len(order)
           part == [n \in 1 .. L |-> m[order[n]]]
           A == AdditionalIEs
<1>1. /\ order \in Seq(SlotsOf(switch)) /\ ToSet(order) = SlotsOf(switch) /\ order[L] = A
      /\ \A p, q \in DOMAIN order : order[p] = order[q] => p = q
  BY DEF Writes
<1>2. L \in Nat /\ DOMAIN order = 1 .. L /\ \A n \in 1 .. L : order[n] \in D
  BY <1>1, LenProperties, ElementOfSeq
<1>3. L \in 1 .. L
  <2>1. A \in ToSet(order)
    BY <1>1, NotDropped
  <2>2. PICK n \in DOMAIN order : order[n] = A
    BY <2>1 DEF ToSet
  <2> QED
    BY <1>2, <2>2
<1>4. \A n \in 1 .. L : n # L => order[n] # A
  BY <1>1, <1>2, <1>3
<1>5. /\ m \in [D -> Seq(X)] /\ \A t \in D : t # A => UnknownOf(m[t]) = {}
      /\ UnknownOf(m[A]) = UnknownOf(s) /\ Numbered(m[A])
  BY DEF Holding
<1>6. PICK w : Writing(m, order, w)
  BY <1>2, InOrderRounds
<1>7. /\ InOrder(m, order) = w[L] /\ w[0] = <<>>
      /\ \A n \in 1 .. L : w[n] = w[n - 1] \o m[order[n]]
  BY <1>6 DEF Writing
<1>8. \A n \in 1 .. L : part[n] \in Seq(X) /\ w[n] = w[n - 1] \o part[n]
  BY <1>2, <1>5, <1>7
<1> HIDE DEF L, part, A
<1>9. \A n \in 0 .. L : w[n] \in Seq(X)
  <2>1. L \in Nat /\ w[0] = <<>> /\ \A n \in 1 .. L : part[n] \in Seq(X)
    BY <1>2, <1>7, <1>8
  <2>2. \A n \in 1 .. L : w[n] = w[n - 1] \o part[n]
    BY <1>8
  <2> QED
    BY <2>1, <2>2, PartsTyped, Zenon
<1> DEFINE S == {n \in Nat : n < L => UnknownOf(w[n]) = {}}
<1>10. 0 \in S
  BY <1>7 DEF UnknownOf, ToSet
<1>11. ASSUME NEW n \in Nat, n \in S
       PROVE  n + 1 \in S
  <2> SUFFICES ASSUME n + 1 < L PROVE UnknownOf(w[n + 1]) = {}
    OBVIOUS
  <2>1. n < L /\ n \in 0 .. L /\ n + 1 \in 1 .. L /\ n + 1 # L /\ (n + 1) - 1 = n
    BY <1>2
  <2>2. UnknownOf(w[n]) = {}
    BY <1>11, <2>1
  <2> HIDE DEF S
  <2>3. /\ w[n + 1] = w[n] \o m[order[n + 1]] /\ w[n] \in Seq(X)
        /\ order[n + 1] \in D /\ order[n + 1] # A
    BY <1>2, <1>4, <1>7, <1>9, <2>1
  <2>4. m[order[n + 1]] \in Seq(X) /\ UnknownOf(m[order[n + 1]]) = {}
    BY <1>5, <2>3
  <2> QED
    BY <2>2, <2>3, <2>4, ConcatUnknown
<1> HIDE DEF S
<1>12. /\ w[L] = w[L - 1] \o m[A] /\ UnknownOf(w[L - 1]) = {}
       /\ w[L - 1] \in Seq(X) /\ m[A] \in Seq(X)
  <2>1. L - 1 \in Nat /\ L - 1 < L /\ L - 1 \in 0 .. L
    BY <1>2, <1>3
  <2>2. UnknownOf(w[L - 1]) = {}
    <3>1. L - 1 \in S
      BY <1>10, <1>11, <2>1, SetInduction
    <3> QED
      BY <2>1, <3>1 DEF S
  <2>3. order[L] = A /\ A \in D
    BY <1>1, <1>2, <1>3
  <2> QED
    BY <1>3, <1>5, <1>7, <1>9, <2>1, <2>2, <2>3
<1>13. /\ UnknownOf(w[L]) = UnknownOf(m[A]) /\ (Numbered(m[A]) => Numbered(w[L]))
       /\ w[L] \in Seq(X)
  BY <1>12, ConcatUnknown, ConcatProperties
<1> QED
  BY <1>5, <1>7, <1>13

\* The unknown IEs of the message are those that were chosen.
UnknownsKept ==
  /\ HasStruct => struct \in Holding(SlotsOf(NewSwitch[message]), AnyIE, ies)
  /\ stage = "wire" =>
       wire \in Seq(AnyIE) /\ UnknownOf(wire) = UnknownOf(ies) /\ Numbered(wire)

LEMMA ChosenNumbered == Chosen => Numbered(ies)
<1> SUFFICES ASSUME Chosen PROVE Numbered(ies)
  OBVIOUS
<1>1. /\ Len(ies) \in Nat /\ DOMAIN ies = 1 .. Len(ies)
      /\ \A k \in 1 .. Len(ies) : ies[k].number = k
  BY LenProperties DEF Chosen
<1> QED
  BY <1>1 DEF Numbered

LEMMA UnknownsStep == Chosen /\ OnItsWay /\ UnknownsKept /\ [Next]_vars => UnknownsKept'
<1> SUFFICES ASSUME Chosen, OnItsWay, UnknownsKept, [Next]_vars
             PROVE  UnknownsKept'
  OBVIOUS
<1> DEFINE U == UnmarshalSwitch[message]
           O == MarshalToOrder[message]
           N == NewSwitch[message]
           D == SlotsOf(N)
<1>1. /\ message \in Message /\ ies \in Seq(AnyIE) /\ Numbered(ies)
      /\ stage = "open" => struct = EmptyStruct(NewSwitch[message])
  BY ChosenNumbered DEF Chosen
<1>2. /\ IsSwitch(U) /\ IsSwitch(N) /\ Writes(O, U) /\ SlotsOf(U) \subseteq D /\ Dropped \notin D
      /\ SlotsOf(N) \subseteq D
  BY <1>1, Tables DEF Sound
<1>3. EmptyStruct(N) = [slot \in D |-> <<>>]
  BY DEF EmptyStruct
<1> HIDE DEF U, O, D, N
<1>4. CASE AddIE
  BY <1>4 DEF AddIE, UnknownsKept, HasStruct
<1>5. CASE Create
  <2>1. /\ struct' = Fill([slot \in D |-> <<>>], N, ies) /\ stage' = "struct"
        /\ message' = message /\ ies' = ies
    BY <1>1, <1>3, <1>5 DEF Create, N
  <2>2. struct' \in Holding(D, AnyIE, ies)
    BY <1>1, <1>2, <2>1, FillHolds
  <2> QED
    BY <2>1, <2>2 DEF UnknownsKept, D, N
<1>6. CASE Receive
  <2>1. stage = "open" /\ wire' = ies /\ ies' = ies /\ stage' = "wire" /\ marshals' = marshals
    BY <1>6 DEF Receive
  <2>2. marshals = 0
    BY <2>1 DEF OnItsWay
  <2> QED
    BY <1>1, <2>1, <2>2 DEF UnknownsKept, HasStruct
<1>7. CASE Marshal
  <2>1. /\ HasStruct /\ wire' = InOrder(struct, O) /\ stage' = "wire"
        /\ struct' = struct /\ message' = message /\ ies' = ies
    BY <1>7 DEF Marshal, Written, O
  <2>2. struct \in Holding(D, AnyIE, ies)
    BY <2>1 DEF UnknownsKept, D, N
  <2>3. wire' \in Seq(AnyIE) /\ UnknownOf(wire') = UnknownOf(ies) /\ Numbered(wire')
    BY <1>2, <2>1, <2>2, InOrderHolds
  <2>4. D' = D
    BY <2>1 DEF D, N
  <2> QED
    BY <2>1, <2>2, <2>3, <2>4 DEF UnknownsKept, UnknownOf, Numbered, D, N
<1>8. CASE Parse
  <2>1. /\ stage = "wire" /\ struct' = Fill([slot \in D |-> <<>>], U, wire)
        /\ stage' = "struct" /\ message' = message /\ ies' = ies
    BY <1>3, <1>8 DEF Parse, U, N
  <2>2. wire \in Seq(AnyIE) /\ UnknownOf(wire) = UnknownOf(ies) /\ Numbered(wire)
    BY <2>1 DEF UnknownsKept
  <2>3. struct' \in Holding(D, AnyIE, wire)
    BY <1>2, <2>1, <2>2, FillHolds
  <2>4. struct' \in Holding(D, AnyIE, ies)
    BY <2>2, <2>3 DEF Holding
  <2> QED
    BY <2>1, <2>4 DEF UnknownsKept, D, N
<1>9. CASE MarshalFails \/ MarshalPanics
  <2>1. /\ HasStruct /\ struct' = struct /\ stage' \in {"failed", "crashed"}
        /\ message' = message /\ ies' = ies
    BY <1>9 DEF MarshalFails, MarshalPanics
  <2> QED
    BY <2>1 DEF UnknownsKept
<1>10. CASE UNCHANGED vars
  BY <1>10 DEF vars, UnknownsKept, HasStruct
<1> QED
  BY <1>4, <1>5, <1>6, <1>7, <1>8, <1>9, <1>10 DEF Next

LEMMA Ways == Spec => [](Chosen /\ OnItsWay /\ UnknownsKept)
<1>1. Init => Chosen /\ OnItsWay /\ UnknownsKept
  BY ChosenInit DEF Init, OnItsWay, UnknownsKept, HasStruct
<1>2. (Chosen /\ OnItsWay /\ UnknownsKept) /\ [Next]_vars
        => (Chosen /\ OnItsWay /\ UnknownsKept)'
  BY ChosenStep, OnItsWayStep, UnknownsStep
<1> QED
  BY <1>1, <1>2, PTL DEF Spec

\* An IE of a type that the message has no slot for is never lost, however often the
\* message is parsed and marshalled, and the unknown ones keep their order: also in the
\* messages whose tables do not agree.
THEOREM UnknownsAreKept == Spec => []UnknownKept
<1>1. UnknownsKept => UnknownKept
  BY DEF UnknownsKept, UnknownKept, UnknownOf, Numbered
<1> QED
  BY <1>1, Ways, PTL

-----------------------------------------------------------------------------
(* Marshalling.  It fails for what is left of an earlier payload, if MarshalLen *)
(* counts what is written.                                                    *)

LEMMA WrittenIs ==
  ASSUME Chosen, UnknownsKept, HasStruct
  PROVE  Len(Written) \in Nat
<1>1. message \in Message
  BY DEF Chosen
<1>2. /\ Writes(MarshalToOrder[message], UnmarshalSwitch[message])
      /\ SlotsOf(UnmarshalSwitch[message]) \subseteq SlotsOf(NewSwitch[message])
  BY <1>1, Tables DEF Sound
<1>3. struct \in Holding(SlotsOf(NewSwitch[message]), AnyIE, ies)
  BY DEF UnknownsKept
<1>4. Written \in Seq(AnyIE)
  BY <1>2, <1>3, InOrderHolds DEF Written
<1> QED
  BY <1>4, LenProperties

\* An own message has a payload only once it was marshalled, and whatever is not marshalled
\* had one and keeps it.
MarshalsFirst ==
  /\ payload \in Nat /\ marshals \in Nat
  /\ marshals = 0 /\ origin # "peer" => payload = 0
  /\ stage = "open" => origin = "open"
  /\ origin = "open" => stage = "open" /\ payload = 0 /\ marshals = 0
  /\ origin \in {"open", "ours", "peer"}
  /\ stage = "wire" => Len(wire) \in Nat /\ (origin # "peer" => marshals > 0)
  /\ NotMarshalled => message \in KeepsPayload /\ (origin = "peer" \/ marshals > 1)

LEMMA MarshalsStep ==
  ASSUME Chosen, UnknownsKept, MarshalsFirst, LengthExact, [Next]_vars
  PROVE  MarshalsFirst'
<1> USE DEF MarshalsFirst, NotMarshalled
<1>1. CASE AddIE
  BY <1>1 DEF AddIE
<1>2. CASE Create
  BY <1>2 DEF Create
<1>3. CASE Receive
  <2>1. Len(ies) \in Nat
    BY LenProperties DEF Chosen
  <2> QED
    BY <1>3, <2>1 DEF Receive
<1>4. CASE Marshal \/ MarshalFails \/ MarshalPanics
  <2>1. HasStruct
    BY <1>4 DEF Marshal, MarshalFails, MarshalPanics
  <2>2. Len(Written) \in Nat /\ Len(Counted) = Len(Written)
    BY <2>1, WrittenIs DEF LengthExact, SameIEs
  <2>3. /\ Stale \in Nat
        /\ Stale # 0 => message \in KeepsPayload /\ (origin = "peer" \/ marshals > 0)
    BY DEF Stale
  <2>4. origin # "open"
    BY <2>1 DEF HasStruct
  <2>5. CASE Marshal
    BY <2>2, <2>3, <2>4, <2>5 DEF Marshal
  <2>6. CASE MarshalFails
    <3>1. Stale # 0
      BY <2>2, <2>3, <2>6 DEF MarshalFails
    <3> QED
      BY <2>2, <2>3, <2>4, <2>6, <3>1 DEF MarshalFails
  <2>7. CASE MarshalPanics
    <3>1. Stale # 0
      BY <2>2, <2>3, <2>7 DEF MarshalPanics
    <3> QED
      BY <2>2, <2>3, <2>4, <2>7, <3>1 DEF MarshalPanics
  <2> QED
    BY <1>4, <2>5, <2>6, <2>7
<1>5. CASE Parse
  BY <1>5 DEF Parse
<1>6. CASE UNCHANGED vars
  BY <1>6 DEF vars
<1> QED
  BY <1>1, <1>2, <1>3, <1>4, <1>5, <1>6 DEF Next

LEMMA Marshals == Spec /\ []LengthExact => []MarshalsFirst
<1>1. Init => MarshalsFirst
  BY DEF Init, MarshalsFirst, NotMarshalled
<1>2. Chosen /\ UnknownsKept /\ MarshalsFirst /\ LengthExact /\ [Next]_vars => MarshalsFirst'
  BY MarshalsStep
<1> QED
  BY <1>1, <1>2, Ways, PTL DEF Spec

\* What was parsed once, whatever IEs a peer sent and however many, is marshalled again
\* unless it keeps its payload, and parsed to the same however often: for every message of
\* the tables, if MarshalLen counts what MarshalTo writes.
THEOREM RelayIsStable == Spec /\ []LengthExact => []RelayStable
<1>1. OnItsWay /\ MarshalsFirst => RelayStable
  BY DEF OnItsWay, Exact, MarshalsFirst, RelayStable, RoundTrip, Parsed
<1> QED
  BY <1>1, Ways, Marshals, PTL

\* A message that NewX built of any IEs is marshalled, at least once, and parsing gives the
\* struct that was marshalled, for the messages whose switch of NewX agrees with
\* UnmarshalBinary's; if MarshalLen counts what MarshalTo writes.
THEOREM RoundTripHolds == Spec /\ []LengthExact => []RoundTripElsewhere
<1>1. OnItsWay /\ MarshalsFirst => RoundTripElsewhere
  BY DEF OnItsWay, Exact, MarshalsFirst, RoundTripElsewhere, RoundTrip, Parsed
<1> QED
  BY <1>1, Ways, Marshals, PTL

=============================================================================
