--------------------------- MODULE MCElementCodec ---------------------------
(* ElementCodec for TLC, with the headers and the elements of three modules. *)
EXTENDS ElementCodec

G == INSTANCE Gtpv2Elements
O == INSTANCE Gtpv2Options
H == INSTANCE Headers

AllNew == G!New @@ O!New @@ H!New
AllMarshalTo == G!MarshalTo @@ O!MarshalTo @@ H!MarshalTo
AllMarshalLen == G!MarshalLen @@ O!MarshalLen @@ H!MarshalLen
AllUnmarshal == G!Unmarshal @@ O!Unmarshal @@ H!Unmarshal
AllAccessors == G!Accessors @@ O!Accessors

\* UnmarshalBinary is a reader like the accessors; some elements have it, some have those.
UnmarshalOf(e) ==
  [name \in {"UnmarshalBinary" : n \in {e} \cap DOMAIN AllUnmarshal} |-> AllUnmarshal[e]]
AccessorsOf(e) == IF e \in DOMAIN AllAccessors THEN AllAccessors[e] ELSE <<>>
AllReaders == [e \in DOMAIN AllNew |-> UnmarshalOf(e) @@ AccessorsOf(e)]
Units == G!Unit @@ [e \in DOMAIN AllNew |-> 1]

MCElement == DOMAIN AllNew
MCValues == AllNew
MCMarshalTo == AllMarshalTo
MCMarshalLen == AllMarshalLen
MCReaders == AllReaders
MCUnit == Units
MCMisread == G!Misread \cup O!Misread \cup H!Misread
MCUnread == G!Unread \cup O!Unread \cup H!Unread
MCOversteps == G!Oversteps \cup O!Oversteps \cup H!Oversteps
=============================================================================
