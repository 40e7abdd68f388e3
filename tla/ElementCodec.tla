---------------------------- MODULE ElementCodec ----------------------------
(***************************************************************************)
(* An information element or a header on its way through Marshal and one of  *)
(* its readers, UnmarshalBinary or an accessor.  On the way its octets may   *)
(* be cut short: by the datagram, by a length that a peer announces too      *)
(* small for the element, or because the peer's version of it ends earlier;  *)
(* and a total inside it may be smaller than what it counts.  A reader is    *)
(* followed row by row (ElementTable).                                       *)
(***************************************************************************)
EXTENDS ElementTable, SequencesExt

CONSTANTS
  Element,        \* the elements that are considered
  Values,         \* [Element -> sets of values], what NewX can build
  MarshalToRows,  \* [Element -> rows]
  MarshalLenRows, \* [Element -> rows]
  Readers,        \* [Element -> [reader -> rows]]
  UnitsOf,        \* [Element -> Nat], how many units an octet has
  KnownMisread,   \* the <<element, reader>> that are known to read wrong values,
  KnownUnread,    \* those that do not get all of an element, or refuse it
  KnownOversteps  \* and those that read too far

\* Lengths are numbers, and whoever is not known to read too far checks what it takes.
ASSUME ReaderAssumption ==
  \A e \in Element :
    \A rows \in {MarshalToRows[e]} \cup {Readers[e][name] : name \in DOMAIN Readers[e]} :
      /\ rows \in Seq({rows[n] : n \in DOMAIN rows})
      /\ \A n \in DOMAIN rows :
           /\ IsRow(rows[n])
           /\ rows[n].kind # "fixed" => \A v \in Values[e] : v[rows[n].field] \in Nat
ASSUME CarefulAssumption ==
  \A e \in Element : \A name \in DOMAIN Readers[e] :
    <<e, name>> \notin KnownOversteps => Careful(Readers[e][name])

VARIABLES
  element,   \* the kind of element
  value,     \* its fields
  octets,    \* what was written and not cut off
  whole,     \* nothing was cut off, nor is a total too small
  reader,    \* who reads it
  row,       \* the reader's position in its rows
  offset,    \* and in the octets
  got,       \* the octets it took for each field
  phase      \* "built", "marshalled", "reading" and then the outcome

elementVars == <<element, value, octets, whole, reader, row, offset, got, phase>>

Init ==
  /\ element \in Element
  /\ value \in Values[element]
  /\ octets = <<>> /\ whole = TRUE
  /\ reader = Nothing /\ row = 1 /\ offset = 0
  /\ got = <<>> /\ phase = "built"

Marshal ==
  /\ phase = "built"
  /\ octets' = Written(MarshalToRows[element], value)
  /\ phase' = "marshalled"
  /\ UNCHANGED <<element, value, whole, reader, row, offset, got>>

\* Some octets at the end get lost, or none do and it is the total that is wrong.
CutShort ==
  /\ phase = "marshalled" /\ whole
  /\ \E n \in {k \in 0 .. Len(octets) : k % UnitsOf[element] = 0} :
       octets' = SubSeq(octets, 1, n)
  /\ whole' = FALSE
  /\ UNCHANGED <<element, value, reader, row, offset, got, phase>>

Call ==
  /\ phase = "marshalled"
  /\ reader' \in DOMAIN Readers[element]
  /\ phase' = "reading"
  /\ UNCHANGED <<element, value, octets, whole, row, offset, got>>

-----------------------------------------------------------------------------

This == Readers[element][reader][row]
Left == IF offset > Len(octets) THEN 0 ELSE Len(octets) - offset

\* Whoever takes something else for an announcement may go on with any value of the
\* element.
Announced(r) ==
  IF r.by = Nothing \/ (r.by \in DOMAIN got /\ got[r.by] = Own(value, r.by))
  THEN {value} ELSE Values[element]

\* A peer may announce any total: one that is smaller than what was read before it leaves
\* less than nothing for the field.
Understated(r) == {0 - n : n \in {m \in 1 .. r.total : ~whole}}

\* How many octets the field of row r may have for the reader.
Widths(r) ==
  Understated(r) \cup
  CASE r.kind = "rest" -> {IF Left > r.more THEN Left - r.more ELSE 0}
    [] r.kind = "upto" -> {IF Width(r, v) > Left THEN Left ELSE Width(r, v) : v \in Announced(r)}
    [] OTHER -> {Width(r, v) : v \in Announced(r)}

\* The octets a reader goes for, and where it compares their end with the length.
From(r) == IF r.first > 0 THEN r.first ELSE offset + 1
To(r, w) ==
  IF r.first > 0 THEN r.last ELSE IF r.narrow THEN (offset + w) % 256 ELSE offset + w
\* Mutant: the comparison is off by one.
TooShortByOne(r, w) ==
  /\ r.checked
  /\ \/ r.floor /\ w < 0
     \/ /\ ~Variable(r) /\ w > 0
        /\ Len(octets) + 1 < (IF r.narrow THEN To(r, w) ELSE offset + w) + r.more

TooShort(r, w) ==
  /\ r.checked
  /\ \/ r.floor /\ w < 0
     \/ /\ ~Variable(r) /\ w > 0
        /\ Len(octets) < (IF r.narrow THEN To(r, w) ELSE offset + w) + r.more

InRange(r, w) == From(r) <= To(r, w) + 1 /\ To(r, w) <= Len(octets)

Reading == phase = "reading" /\ row \in DOMAIN Readers[element][reader]

GoOn(w) ==
  /\ offset' = offset + w /\ row' = row + 1
  /\ UNCHANGED <<element, value, octets, whole, reader, phase>>

End(outcome) ==
  /\ phase' = outcome
  /\ UNCHANGED <<element, value, octets, whole, reader, row, offset, got>>

\* There is nothing to read, or the reader adds the width to its offset only.
PassOver ==
  /\ Reading
  /\ \E w \in Widths(This) : (~This.keeps \/ (w = 0 /\ ~Variable(This))) /\ GoOn(w)
  /\ UNCHANGED got

\* The octets are there.
Take ==
  /\ Reading
  /\ \E w \in Widths(This) :
       /\ This.keeps /\ (w # 0 \/ Variable(This))
       /\ ~TooShort(This, w) /\ This.room /\ InRange(This, w)
       /\ got' = This.field :> SubSeq(octets, From(This), To(This, w)) @@ got
       /\ GoOn(w)

\* They are not, and the reader notices.
Stop ==
  /\ Reading /\ This.keeps /\ This.short # "none"
  /\ \E w \in Widths(This) : TooShort(This, w)
  /\ End(IF This.short = "end" \/ (This.short = "again" /\ Left = 0) THEN "read" ELSE "refused")

DoWithout ==
  /\ Reading /\ This.keeps /\ This.short = "none"
  /\ \E w \in Widths(This) : TooShort(This, w)
  /\ GoOn(0)
  /\ UNCHANGED got

\* They are not, and the reader does not notice: it reads what lies behind the
\* element in the buffer, or an index is out of range.
Overstep ==
  /\ Reading
  /\ \E w \in Widths(This) :
       /\ This.keeps /\ (w # 0 \/ Variable(This))
       /\ ~TooShort(This, w) /\ ~(This.room /\ InRange(This, w))
  /\ End("beyond")

Return ==
  /\ phase = "reading" /\ row \notin DOMAIN Readers[element][reader]
  /\ End("read")

Next ==
  Marshal \/ CutShort \/ Call \/ PassOver \/ Take \/ Stop \/ DoWithout \/ Overstep \/ Return

Spec == Init /\ [][Next]_elementVars

-----------------------------------------------------------------------------

\* MarshalLen counts what MarshalTo writes: the buffer that Marshal makes is neither
\* overrun nor left with zeroes at its end.
LengthExact ==
  phase = "marshalled" /\ whole => Len(octets) = Len(Written(MarshalLenRows[element], value))

\* The fields of this value that a reader is there for: UnmarshalBinary for all.
Wanted ==
  LET rows == IF reader = "UnmarshalBinary" THEN MarshalToRows[element] ELSE Readers[element][reader]
      there(r) == r.keeps /\ Width(r, value) > 0 /\ value[r.field] > 0 IN
  {r.field : r \in {q \in ToSet(rows) : there(q)}} \ {Filler}

\* What UnmarshalBinary or an accessor returns is what NewX was given: it takes no octet
\* for another one, wherever the element was cut off, and it accepts an element that was
\* not cut off and gets all of every field it is there for.
ReadsWhatWasWritten ==
  <<element, reader>> \notin KnownMisread =>
    /\ phase = "read" => \A f \in DOMAIN got : IsPrefix(got[f], Own(value, f))
    /\ phase \in {"read", "refused"} /\ whole /\ <<element, reader>> \notin KnownUnread =>
         \A f \in Wanted : f \in DOMAIN got /\ got[f] = Own(value, f)

\* However short an element is, its reader returns an error instead of reading what lies
\* behind it in the buffer, or instead of a panic on an index out of range.
NeverBeyond == <<element, reader>> \notin KnownOversteps => phase # "beyond"

=============================================================================
