--------------------------- MODULE MCMessageCodec ---------------------------
(* MessageCodec for TLC, with the messages of all three versions of GTP. *)
EXTENDS MessageCodec, TLC

V0 == INSTANCE Gtpv0Messages
V1 == INSTANCE Gtpv1Messages
V2 == INSTANCE Gtpv2Messages

Named(version, table) == [m \in {<<version, n>> : n \in DOMAIN table} |-> table[m[2]]]

MCNew == Named(0, V0!New) @@ Named(1, V1!New) @@ Named(2, V2!New)
MCUnmarshal == Named(0, V0!Unmarshal) @@ Named(1, V1!Unmarshal) @@ Named(2, V2!Unmarshal)
MCMarshalTo == Named(0, V0!MarshalTo) @@ Named(1, V1!MarshalTo) @@ Named(2, V2!MarshalTo)
MCMarshalLen == Named(0, V0!MarshalLen) @@ Named(1, V1!MarshalLen) @@ Named(2, V2!MarshalLen)
MCMessage == DOMAIN MCNew
=============================================================================
