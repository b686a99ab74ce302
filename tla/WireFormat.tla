----------------------------- MODULE WireFormat -----------------------------
(***************************************************************************)
(* What arrives from outside: bytes are parsed, and the artifact they hold *)
(* is looked at.  The two share no state, so each moves while the other is *)
(* where it starts.                                                        *)
(***************************************************************************)
EXTENDS StrictJson, ArtifactWire

Init == InitJson /\ InitWire

Next ==
    \/ InitWire /\ NextJson /\ UNCHANGED wireVars
    \/ InitJson /\ NextWire /\ UNCHANGED jsonVars

Spec == Init /\ [][Next]_<<jsonVars, wireVars>>
=============================================================================
