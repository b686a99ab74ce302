---------------------------- MODULE MCWireFormat ----------------------------
(* WireFormat with three strings: one name in two spellings, and another.   *)
EXTENDS WireFormat

MCDecoded == "a" :> "a" @@ "a'" :> "a" @@ "b" :> "b"
=============================================================================
