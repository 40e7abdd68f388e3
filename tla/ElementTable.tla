---------------------------- MODULE ElementTable ----------------------------
(***************************************************************************)
(* How an information element, or a header, is made of octets.  Its value    *)
(* is how many octets each of its fields has, 0 for a field that it does not *)
(* have.  The k-th octet of field f is <<f, k>>, so that an octet taken for  *)
(* another one is visible.  The code writes and reads values field by field: *)
(*   MarshalTo and MarshalLen    write and count the fields in turn          *)
(*   UnmarshalBinary             reads them in turn                          *)
(*   an accessor                 passes over some and reads one              *)
(* Each is a sequence of rows here, one per field.  Where the code takes     *)
(* digits or flags from parts of an octet, the unit is half of one, or a bit.*)
(***************************************************************************)
EXTENDS Integers, Sequences, FiniteSetsExt, TLC

Nothing == "nothing"
Filler == "filler"      \* octets that carry nothing

-----------------------------------------------------------------------------

\* The rows.  The width of a field is fixed, or as many octets as the field has, for a
\* reader as many as another field announces (by): flags, a type, a length, a number; and
\* a field may be there only if the value has some other one (flag).  A reader compares
\* what is left with the width and `more` further octets (checked); when that is too
\* little it returns an error, or does what `short` says.  It takes the octets, or those
\* from `first` to `last`, stores them (keeps), and has room for them.  A number that is
\* announced may be a total, which counts octets that were read before (at most `total`);
\* most readers compare it with those (floor).
Row(f, w, by, kind) ==
  [field |-> f, width |-> w, by |-> by, kind |-> kind, flag |-> Nothing, more |-> 0,
   checked |-> TRUE, short |-> "error", first |-> 0, last |-> 0, keeps |-> TRUE,
   room |-> TRUE, narrow |-> FALSE, total |-> 0, floor |-> TRUE]

When(flag, r) == [flag |-> flag] @@ r
By(by, r) == [by |-> by] @@ r

Fixed(f, w) == Row(f, w, Nothing, "fixed")        \* always there
Optional(f, w) == When(f, Fixed(f, w))            \* there if the value has it
All(f) == Row(f, 0, Nothing, "counted")           \* all octets of the field
If(f, w, by) == By(by, Optional(f, w))            \* there if a flag or a type says so
Counted(f, by) == By(by, All(f))                  \* as long as it is announced to be
UpTo(f, by) == Row(f, 0, by, "upto")              \* the same, or as long as there are octets
Rest(f) == Row(f, 0, Nothing, "rest")             \* whatever is left, but for `more`

More(n, r) == [more |-> n] @@ r
Unchecked(r) == [checked |-> FALSE] @@ r
OrEnd(r) == [short |-> "end"] @@ r        \* too little is left: this is the end
Again(r) == [short |-> "again"] @@ r      \* a loop, which ends when nothing is left
OrNone(r) == [short |-> "none"] @@ r      \* too little is left: goes on without it
At(first, last, r) == [first |-> first, last |-> last] @@ r
Past(r) == [keeps |-> FALSE] @@ Unchecked(r)
Skip(n) == Past(Fixed(Nothing, n))
NoRoom(r) == [room |-> FALSE] @@ r        \* stored in a slice that has no elements
Narrow(r) == [narrow |-> TRUE] @@ r       \* offsets are computed in one octet
Total(n, r) == [total |-> n] @@ r         \* n octets before it are counted too
NoFloor(r) == [floor |-> FALSE] @@ r      \* and a total of less than n goes unnoticed

-----------------------------------------------------------------------------

Octets(f, from, to) == [k \in 1 .. (to + 1) - from |-> <<f, (from - 1) + k>>]
Own(v, f) == Octets(f, 1, v[f])

\* The octets of a row in a value that is written or announced.
Width(r, v) ==
  IF r.flag # Nothing /\ v[r.flag] = 0 THEN 0
  ELSE IF r.kind = "fixed" THEN r.width ELSE v[r.field]

\* What MarshalTo writes; MarshalLen counts as many: written[n] are the octets of n rows.
Written(rows, v) ==
  LET written[n \in 0 .. Len(rows)] ==
        IF n = 0 THEN <<>>
        ELSE written[n - 1] \o Octets(rows[n].field, 1, Width(rows[n], v))
  IN written[Len(rows)]

\* All values in which the fields of `lengths` have one of the given lengths each.
ValuesOf(lengths) ==
  LET With(f, values) == {f :> n @@ v : n \in lengths[f], v \in values} IN
  FoldSet(With, {<<>>}, DOMAIN lengths)

-----------------------------------------------------------------------------
\* What a reader can rely on.

Variable(r) == r.kind \in {"rest", "upto"}

IsRow(r) ==
  /\ r.field \in STRING /\ r.kind \in {"fixed", "counted", "upto", "rest"}
  /\ {r.width, r.more, r.first, r.last, r.total} \subseteq Nat
  /\ {r.checked, r.keeps, r.room, r.narrow, r.floor} \subseteq BOOLEAN
  /\ r.total > 0 => r.keeps /\ r.first = 0 /\ ~r.narrow

\* Behind a reader are at least as many octets as its rows took in any case.  The
\* positions that it is sure to have ahead are the octets that its checks have shown to be
\* left, and their end; 0 if it may be past the end.
Always(r) == r.kind = "fixed" /\ r.flag = Nothing /\ r.width > 0 /\ r.short # "none"

Ensured(r, ahead) ==
  LET passed == IF r.kind = "fixed" /\ r.width < ahead THEN ahead - r.width ELSE 0 IN
  CASE r.kind = "rest" -> r.more + 1
    [] r.kind = "upto" -> 1
    [] OTHER -> IF r.keeps /\ r.checked /\ ~r.narrow /\ passed <= r.more
                THEN r.more + 1 ELSE passed

After(r, k) ==
  [behind |-> IF Always(r) THEN k.behind + r.width ELSE k.behind,
   ahead |-> IF Always(r) \/ Ensured(r, k.ahead) < k.ahead THEN Ensured(r, k.ahead) ELSE k.ahead]

\* Known(rows)[n] is what a reader knows when it has read n of its rows.
Known(rows) ==
  LET known[n \in 0 .. Len(rows)] ==
        IF n = 0 THEN [behind |-> 0, ahead |-> 1] ELSE After(rows[n], known[n - 1])
  IN known

\* With what it knows and what it checks itself, a row takes octets only that are there.
Covered(r, k) ==
  r.keeps =>
    /\ r.room /\ ~r.narrow
    /\ r.total > 0 => r.checked /\ r.floor
    /\ r.first > 0 =>
         /\ r.kind = "fixed" /\ r.checked
         /\ r.first <= r.last /\ r.last <= k.behind + r.width + r.more
    /\ Variable(r) => k.ahead > 0
    /\ ~Variable(r) /\ ~r.checked => r.kind = "fixed" /\ r.width < k.ahead

Careful(rows) == \A n \in DOMAIN rows : Covered(rows[n], Known(rows)[n - 1])

=============================================================================
