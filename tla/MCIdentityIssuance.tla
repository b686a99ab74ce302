------------------------- MODULE MCIdentityIssuance -------------------------
(***************************************************************************)
(* A small instance of IdentityIssuance.                                   *)
(***************************************************************************)
EXTENDS IdentityIssuance

Ask(subject, purpose, key) == [subject |-> subject, purpose |-> purpose, key |-> key]

\* Root authority for one agent under an idempotency key and without, and a key
\* binding for another agent under the same idempotency key.
MCInput ==
    {Ask("a1", "agent-root-authority", "k1"),
     Ask("a1", "agent-root-authority", None),
     Ask("a2", "agent-key-binding", "k1")}
=============================================================================
