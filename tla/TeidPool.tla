----------------------------- MODULE TeidPool -----------------------------
(***************************************************************************)
(* What a table of identifiers promises its users (NewSenderFTEID of        *)
(* gtpv2.Conn): an identifier has one owner.  A holder takes a free one and *)
(* hands it to a user, of which it becomes the only identifier; only its    *)
(* user's release makes it free again.  A holder that gives up leaks it.    *)
(* The promise ends when the table is used against its rules (broken), and  *)
(* a process that went down starts again with every identifier free.        *)
(***************************************************************************)
CONSTANTS Holder, User, Id

VARIABLES owner, broken, down

vars == <<owner, broken, down>>

Init ==
  /\ owner = [t \in Id |-> "free"]
  /\ broken = FALSE
  /\ down = FALSE

Take(t, h) ==
  /\ owner[t] = "free"
  /\ owner' = [owner EXCEPT ![t] = h]

Leak(t, h) ==
  /\ owner[t] = h
  /\ owner' = [owner EXCEPT ![t] = "leaked"]

HandOver(t, h, u) ==
  /\ owner[t] = h
  /\ \A k \in Id : owner[k] # u
  /\ owner' = [owner EXCEPT ![t] = u]

Release(t, u) ==
  /\ owner[t] = u
  /\ owner' = [owner EXCEPT ![t] = "free"]

Operate ==
  /\ ~broken /\ ~down
  /\ UNCHANGED <<broken, down>>
  /\ \E t \in Id :
       \/ \E h \in Holder : Take(t, h) \/ Leak(t, h)
       \/ \E h \in Holder, u \in User : HandOver(t, h, u)
       \/ \E u \in User : Release(t, u)

\* A use against the rules: from here on nothing is promised.
Break ==
  /\ broken' = TRUE
  /\ down' \in BOOLEAN
  /\ owner' \in [Id -> Holder \cup User \cup {"free", "leaked"}]

GoDown ==
  /\ ~down /\ down'
  /\ UNCHANGED <<owner, broken>>

Restart ==
  /\ down
  /\ Init'

Next == Operate \/ Break \/ GoDown \/ Restart

Spec == Init /\ [][Next]_vars

=============================================================================
