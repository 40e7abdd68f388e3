----------------------------- MODULE MessageTable -----------------------------
(***************************************************************************)
(* How a GTP message is made of information elements.  Every message of      *)
(* gtpv0, gtpv1 and gtpv2 is a struct with a slot (a field) per IE it names  *)
(* and a list AdditionalIEs, and four functions written out slot by slot:    *)
(*   NewX and UnmarshalBinary   a switch on the IE's type, sometimes with an *)
(*                              inner one on its instance                    *)
(*   MarshalTo and MarshalLen   the slots one after the other                *)
(* A switch is a set of rows, one for every type it has a case for; an       *)
(* order is a sequence of slots.  The tables are in Gtpv0Messages,           *)
(* Gtpv1Messages and Gtpv2Messages.                                          *)
(*                                                                         *)
(* An IE is its type, its instance and an identity that stands for its       *)
(* contents.                                                                *)
(***************************************************************************)
EXTENDS Naturals, Sequences, SequencesExt

AdditionalIEs == "AdditionalIEs"
Dropped == "Dropped"

-----------------------------------------------------------------------------

\* The rows of a switch.  A row names the slots it chooses from, and the slot
\* that takes the IE otherwise (AdditionalIEs, Dropped if there is none).

\* case ie.T: m.S = i
In(type, slot) == [type |-> type, choice |-> "free", slots |-> <<>>, rest |-> slot]

\* The same for slots that are named as the types are.
Own(types) == {In(type, type) : type \in types}

\* case ie.T: switch i.Instance() ... slot n for instance n - 1
ByInstance(type, slots, rest) ==
  [type |-> type, choice |-> "instance", slots |-> slots, rest |-> rest]

\* case ie.T: if m.S == nil { m.S = i } else if ...
InFree(type, slots, rest) ==
  [type |-> type, choice |-> "free", slots |-> slots, rest |-> rest]

\* case ie.T: if m.S != nil { m.S = i } else ...
InTaken(type, slots, rest) ==
  [type |-> type, choice |-> "taken", slots |-> slots, rest |-> rest]

-----------------------------------------------------------------------------

\* A struct: what each slot holds, at most one IE, and the AdditionalIEs.
SlotsOf(switch) ==
  {AdditionalIEs} \cup ((UNION {ToSet(r.slots) \cup {r.rest} : r \in switch}) \ {Dropped})

EmptyStruct(switch) == [slot \in SlotsOf(switch) |-> <<>>]

\* The slot that a row gives to IE i of a struct that is filled as m.
Destination(row, m, i) ==
  LET fits == {n \in DOMAIN row.slots :
                 CASE row.choice = "instance" -> n = i.instance + 1
                   [] row.choice = "free" -> m[row.slots[n]] = <<>>
                   [] row.choice = "taken" -> m[row.slots[n]] # <<>>}
  IN IF fits = {} THEN row.rest
     ELSE row.slots[CHOOSE n \in fits : \A k \in fits : n <= k]

\* Assignment replaces what a slot held; AdditionalIEs is appended to.
Put(m, slot, i) ==
  CASE slot = Dropped -> m
    [] slot = AdditionalIEs -> [m EXCEPT ![slot] = Append(@, i)]
    [] OTHER -> [m EXCEPT ![slot] = <<i>>]

\* Mutant: a switch without its default.
PlaceKnown(switch, m, i) ==
  LET own == {r \in switch : r.type = i.type} IN
  Put(m, IF own = {} THEN Dropped ELSE Destination(CHOOSE r \in own : TRUE, m, i), i)

\* One round of the loop over the IEs: a type without a case is additional.
Place(switch, m, i) ==
  LET own == {r \in switch : r.type = i.type} IN
  Put(m, IF own = {} THEN AdditionalIEs ELSE Destination(CHOOSE r \in own : TRUE, m, i), i)

\* The loop of NewX and of UnmarshalBinary: filled[n] is the struct after n IEs.
Fill(struct, switch, ies) ==
  LET filled[n \in 0 .. Len(ies)] ==
        IF n = 0 THEN struct ELSE Place(switch, filled[n - 1], ies[n])
  IN filled[Len(ies)]

\* What MarshalTo writes and MarshalLen counts: written[n] are the IEs of n slots.
InOrder(m, order) ==
  LET written[n \in 0 .. Len(order)] ==
        IF n = 0 THEN <<>> ELSE written[n - 1] \o m[order[n]]
  IN written[Len(order)]

-----------------------------------------------------------------------------
\* What the four functions of a message owe each other.

Kinds == {"instance", "free", "taken"}

\* A switch has one case for a type, and none for a type unknown to it.
IsSwitch(switch) ==
  \A r \in switch :
    /\ r.type # "Unknown" /\ r.choice \in Kinds /\ r.slots \in Seq(SlotsOf(switch) \cup {Dropped})
    /\ \A q \in switch : q.type = r.type => q = r

\* Every slot of the switch is written once, the AdditionalIEs last.
Writes(order, switch) ==
  /\ order \in Seq(SlotsOf(switch)) /\ ToSet(order) = SlotsOf(switch)
  /\ \A p, q \in DOMAIN order : order[p] = order[q] => p = q
  /\ order[Len(order)] = AdditionalIEs

\* Slot s is written before slot t.
Before(order, s, t) ==
  \A p, q \in DOMAIN order : order[p] = s /\ order[q] = t => p < q

\* Slots that take an IE because others are full are written after these.
InOrderOfUse(order, switch) ==
  \A r \in switch : r.choice = "free" =>
    \A k \in DOMAIN r.slots :
      /\ r.slots[k] \in SlotsOf(switch) \ {AdditionalIEs}
      /\ Before(order, r.slots[k], r.rest)
      /\ \A l \in DOMAIN r.slots : k < l => Before(order, r.slots[k], r.slots[l])

\* No case fills a slot that another one looks at to see whether it is taken.
NeverTaken(switch) ==
  \A r \in switch : r.choice = "taken" =>
    \A k \in DOMAIN r.slots :
      /\ r.slots[k] \in SlotsOf(switch) \ {AdditionalIEs}
      /\ \A q \in switch : r.slots[k] # q.rest
      /\ \A q \in switch : q.choice # "taken" => r.slots[k] \notin ToSet(q.slots)

\* Two switches have the same cases, but that the first may drop an IE that the other keeps.
Agrees(switch, other) ==
  /\ \A r \in switch : \E q \in other :
       /\ q.type = r.type /\ q.choice = r.choice /\ q.slots = r.slots
       /\ r.rest \in {q.rest, Dropped}
  /\ \A q \in other : \E r \in switch : r.type = q.type

=============================================================================
