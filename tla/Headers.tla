------------------------------- MODULE Headers -------------------------------
(***************************************************************************)
(* The headers of the messages of GTPv0, GTPv1 and GTPv2 and those of their  *)
(* information elements, as tables of octets (ElementTable).  The payload is *)
(* a message's IEs or a user's packet, or the value of an IE.  Flags stands  *)
(* for the first octet.                                                      *)
(***************************************************************************)
EXTENDS ElementTable

-----------------------------------------------------------------------------
\* Messages.  When the length in the header is too large the rest of the datagram is the
\* payload.  In GTPv2 and GTPv1 it counts what follows the fourth or the eighth octet, and
\* the reader refuses one that is too small for that.

\* GTPv2 (gtpv2/message/header.go).  ParseHeader wants twelve octets, with or without TEID.

NewHeader2 ==
  ValuesOf([Flags |-> {1}, Type |-> {1}, Length |-> {2}, TEID |-> {0, 4}, SequenceNumber |-> {3},
            Spare |-> {1}, Payload |-> {0, 4, 5}])
MarshalToHeader2 ==
  <<Fixed("Flags", 1), Fixed("Type", 1), Fixed("Length", 2), Optional("TEID", 4),
    Fixed("SequenceNumber", 3), Fixed("Spare", 1), All("Payload")>>
MarshalLenHeader2 == <<Fixed("Flags", 8), All("Payload"), Optional("TEID", 4)>>
UnmarshalHeader2 ==
  <<More(11, Fixed("Flags", 1)), Fixed("Type", 1), Fixed("Length", 2), If("TEID", 4, "Flags"),
    Fixed("SequenceNumber", 3), Fixed("Spare", 1), Total(8, UpTo("Payload", "Length"))>>

\* GTPv1 (gtpv1/message/header.go), control and user plane.  ParseHeader wants eleven
\* octets: a header is eight octets long, or twelve with a sequence number.

NewHeader1 ==
  {v \in ValuesOf([Flags |-> {1}, Type |-> {1}, Length |-> {2}, TEID |-> {4}, SequenceNumber |-> {0, 2},
                    filler |-> {0, 2}, Payload |-> {0, 3, 4}]) : v.SequenceNumber = v[Filler]}
MarshalToHeader1 ==
  <<Fixed("Flags", 1), Fixed("Type", 1), Fixed("Length", 2), Fixed("TEID", 4),
    Optional("SequenceNumber", 2), Optional(Filler, 2), All("Payload")>>
MarshalLenHeader1 ==
  <<All("Payload"), Fixed("Flags", 8), When("SequenceNumber", Fixed("SequenceNumber", 4))>>
UnmarshalHeader1 ==
  <<More(10, Fixed("Flags", 1)), Fixed("Type", 1), Fixed("Length", 2), Fixed("TEID", 4),
    If("SequenceNumber", 2, "Flags"), Past(If(Filler, 2, "Flags")),
    Total(4, UpTo("Payload", "Length"))>>

\* GTPv0 (gtpv0/message/header.go).  UnmarshalBinary wants eleven octets and reads twenty;
\* it takes the SNDCP number from the octet behind it.

NewHeader0 ==
  ValuesOf([Flags |-> {1}, Type |-> {1}, Length |-> {2}, SequenceNumber |-> {2}, FlowLabel |-> {2},
            SndcpNumber |-> {1}, filler |-> {3}, TID |-> {8}, Payload |-> {0, 3}])
MarshalToHeader0 ==
  <<Fixed("Flags", 1), Fixed("Type", 1), Fixed("Length", 2), Fixed("SequenceNumber", 2),
    Fixed("FlowLabel", 2), Fixed("SndcpNumber", 1), Fixed(Filler, 3), Fixed("TID", 8), All("Payload")>>
MarshalLenHeader0 == <<Fixed("Flags", 20), All("Payload")>>
UnmarshalHeader0 ==
  <<More(10, Fixed("Flags", 1)), Fixed("Type", 1), Fixed("Length", 2), Fixed("SequenceNumber", 2),
    Fixed("FlowLabel", 2), At(10, 10, Fixed("SndcpNumber", 1)), Skip(3), Unchecked(Fixed("TID", 8)),
    Rest("Payload")>>

-----------------------------------------------------------------------------
\* Information elements.

\* GTPv2 (gtpv2/ie/ie.go); the payload of a grouped IE is that of its children.

NewIE2 == ValuesOf([Type |-> {1}, Length |-> {2}, Instance |-> {1}, Payload |-> {0, 1, 3}])
MarshalToIE2 == <<Fixed("Type", 1), Fixed("Length", 2), Fixed("Instance", 1), All("Payload")>>
MarshalLenIE2 == <<Fixed("Type", 4), All("Payload")>>
UnmarshalIE2 ==
  <<More(3, Fixed("Type", 1)), Fixed("Length", 2), Fixed("Instance", 1), Counted("Payload", "Length")>>

\* GTPv1 and GTPv0 (gtpv1/ie/ie.go, gtpv0/ie/ie.go): types above 127 with a length.

NewTLV == ValuesOf([Type |-> {1}, Length |-> {2}, Payload |-> {0, 1, 3}])
MarshalToTLV == <<Fixed("Type", 1), Fixed("Length", 2), All("Payload")>>
MarshalLenTLV == <<Fixed("Type", 3), All("Payload")>>
UnmarshalTLV == <<More(2, Fixed("Type", 1)), Fixed("Length", 2), Counted("Payload", "Length")>>

\* The others have the length that tvLengthMap gives their type.

tvLengthMap == {1, 2, 3, 4, 6, 8, 9, 28}
NewTV == ValuesOf([Type |-> {1}, Payload |-> tvLengthMap])
MarshalToTV == <<Fixed("Type", 1), All("Payload")>>
MarshalLenTV == <<Fixed("Type", 1), All("Payload")>>
UnmarshalTV == <<More(1, Fixed("Type", 1)), Counted("Payload", "Type")>>

\* An IMSI of less than 15 digits is filled up with zeroes, which are digits for the
\* reader.

NewShortIMSI == ValuesOf([Type |-> {1}, Payload |-> {7}, filler |-> {1}])
MarshalToShortIMSI == <<Fixed("Type", 1), All("Payload"), All(Filler)>>
MarshalLenShortIMSI == <<Fixed("Type", 9)>>
UnmarshalShortIMSI == <<More(1, Fixed("Type", 1)), At(2, 9, Fixed("Payload", 8))>>

\* Those that the table does not list have no payload for the reader.

NewUnlisted == ValuesOf([Type |-> {1}, Payload |-> 1 .. 2])
MarshalToUnlisted == <<Fixed("Type", 1), All("Payload")>>
MarshalLenUnlisted == <<Fixed("Type", 1), All("Payload")>>
UnmarshalUnlisted == <<More(1, Fixed("Type", 1))>>

-----------------------------------------------------------------------------

New ==
  [Header2 |-> NewHeader2, Header1 |-> NewHeader1, Header0 |-> NewHeader0, IE2 |-> NewIE2,
   TLV |-> NewTLV, TV |-> NewTV, ShortIMSI |-> NewShortIMSI, Unlisted |-> NewUnlisted]
MarshalTo ==
  [Header2 |-> MarshalToHeader2, Header1 |-> MarshalToHeader1, Header0 |-> MarshalToHeader0,
   IE2 |-> MarshalToIE2, TLV |-> MarshalToTLV, TV |-> MarshalToTV, ShortIMSI |-> MarshalToShortIMSI,
   Unlisted |-> MarshalToUnlisted]
MarshalLen ==
  [Header2 |-> MarshalLenHeader2, Header1 |-> MarshalLenHeader1, Header0 |-> MarshalLenHeader0,
   IE2 |-> MarshalLenIE2, TLV |-> MarshalLenTLV, TV |-> MarshalLenTV,
   ShortIMSI |-> MarshalLenShortIMSI, Unlisted |-> MarshalLenUnlisted]
Unmarshal ==
  [Header2 |-> UnmarshalHeader2, Header1 |-> UnmarshalHeader1, Header0 |-> UnmarshalHeader0,
   IE2 |-> UnmarshalIE2, TLV |-> UnmarshalTLV, TV |-> UnmarshalTV,
   ShortIMSI |-> UnmarshalShortIMSI, Unlisted |-> UnmarshalUnlisted]

\* The defects named above.
Misread ==
  {<<"Header0", "UnmarshalBinary">>, <<"ShortIMSI", "UnmarshalBinary">>}
Unread ==
  {<<"Header2", "UnmarshalBinary">>, <<"Header1", "UnmarshalBinary">>,
   <<"Unlisted", "UnmarshalBinary">>}
Oversteps == {<<"Header1", "UnmarshalBinary">>, <<"Header0", "UnmarshalBinary">>}

=============================================================================
