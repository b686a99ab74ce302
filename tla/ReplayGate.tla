----------------------------- MODULE ReplayGate -----------------------------
(***************************************************************************)
(* What replay protection promises to the owner of a side effect, with no  *)
(* table, no transaction, no purge and no stage of a verification: while a *)
(* request that was spent is unexpired, neither it nor another request     *)
(* with one of its replay keys is spent again, by anyone.                  *)
(*                                                                         *)
(* RFC 0001 section 5 promises more ("Online side effects atomically       *)
(* consume two separate uniqueness keys", retained "through expiry plus    *)
(* skew"); this is the part RequestVerification implements.                *)
(***************************************************************************)
EXTENDS Naturals

CONSTANTS
    Request,    \* the signed requests
    ExpiresAt,  \* [Request -> Nat], their expires_at
    Clash,      \* pairs of requests that share a replay key, equal ones included
    Spender     \* who asks for a side effect, once each

VARIABLES
    now,        \* wall clock
    spent       \* pairs of a spender and the request it was authorised for

gateVars == <<now, spent>>

Init ==
    /\ now = 0
    /\ spent = {}

Tick ==
    /\ now' = now + 1
    /\ UNCHANGED spent

\* A spender is authorised once, and only when every clashing request that was
\* spent before, the same request included, has expired.
Spend(t, r) ==
    /\ \A s \in spent : s[1] # t
    /\ \A s \in spent : <<s[2], r>> \in Clash => ExpiresAt[s[2]] < now
    /\ spent' = spent \cup {<<t, r>>}
    /\ UNCHANGED now

Next == Tick \/ \E t \in Spender, r \in Request : Spend(t, r)

Spec == Init /\ [][Next]_gateVars
=============================================================================
