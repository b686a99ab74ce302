-------------------------- MODULE IdentityRegistry --------------------------
(***************************************************************************)
(* What idempotent creation promises to the clients of POST /v1/identities,*)
(* with no host, no tables and no restarts: an idempotency key is bound to *)
(* at most one identity for ever, whoever asks under it is told that one,  *)
(* and an identity created without a key is told to one caller only.       *)
(*                                                                         *)
(* IdentityIssuance implements it.                                         *)
(***************************************************************************)
CONSTANTS
    Caller,     \* the calls clients make
    Identity,   \* the identities that may come to exist
    Key,        \* idempotency keys
    NoKey       \* a call without one

VARIABLES
    identities, \* the identities that exist
    bound,      \* pairs of an idempotency key and its identity
    told        \* answers: caller, the key it gave, the identity it was told

registryVars == <<identities, bound, told>>

Init ==
    /\ identities = {}
    /\ bound = {}
    /\ told = {}

\* An identity comes to exist, under a key nothing is bound to or without one.
Admit(k, i) ==
    /\ i \notin identities
    /\ identities' = identities \cup {i}
    /\ \/ k = NoKey /\ UNCHANGED bound
       \/ /\ k \in Key
          /\ \A b \in bound : b[1] # k
          /\ bound' = bound \cup {<<k, i>>}
    /\ UNCHANGED told

\* A caller is told the identity its key is bound to, or one of its own.
Tell(c, k, i) ==
    /\ i \in identities
    /\ \A t \in told : t[1] # c
    /\ \/ k \in Key /\ <<k, i>> \in bound
       \/ k = NoKey /\ \A t \in told : t[3] # i
    /\ told' = told \cup {<<c, k, i>>}
    /\ UNCHANGED <<identities, bound>>

Next ==
    \/ \E k \in Key \cup {NoKey}, i \in Identity : Admit(k, i)
    \/ \E c \in Caller, k \in Key \cup {NoKey}, i \in Identity : Tell(c, k, i)

Spec == Init /\ [][Next]_registryVars
=============================================================================
