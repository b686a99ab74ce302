-------------------------- MODULE IdentityVerifier --------------------------
(***************************************************************************)
(* verifyIdentityCredential, the verifier of one credential without status *)
(* or a chain, as a function of the credential, the snapshot and the time. *)
(* The roots of a snapshot are those of root authority, the one purpose it *)
(* names.  A valid snapshot is taken for granted.                          *)
(***************************************************************************)
EXTENDS SignedEvidence

IdentityTimeFault(c, now, skew) ==
    IF c.issued \notin c.window.from .. c.window.until THEN "INVALID_TIME_INTERVAL"
    ELSE IF now < c.window.from - skew THEN "NOT_YET_VALID"
    ELSE IF now > c.window.until + skew THEN "EXPIRED"
    ELSE "none"

\* The keys the snapshot lists for a principal, in an order that is its own.
IssuerKeys(principal, snapshot) ==
    {k \in DOMAIN snapshot.issuers : snapshot.issuers[k] = principal}

\* issuerAuthority finds the first entry of the issuer: its key is the only one
\* the credential may be signed with.
IdentityTrustFault(c, snapshot, first) ==
    IF first # c.kid THEN "UNTRUSTED_KEY"
    ELSE IF ~c.genuine THEN "INVALID_SIGNATURE"
    ELSE IF \/ c.purpose # "agent-root-authority"
            \/ [issuer |-> c.issuer, subject |-> c.subject] \notin snapshot.roots
      THEN "MIXED_TRUST_ROOT"
    ELSE "VALID"

\* The codes that the orders of the snapshot's list allow.
IdentityDecisions(c, snapshot, now) ==
    LET time == IdentityTimeFault(c, now, snapshot.skew)
        keys == IssuerKeys(c.issuer, snapshot)
    IN  IF ~c.formed THEN {"MALFORMED"}
        ELSE IF time # "none" THEN {time}
        ELSE IF keys = {} THEN {"UNTRUSTED_ISSUER"}
        ELSE {IdentityTrustFault(c, snapshot, first) : first \in keys}
=============================================================================
