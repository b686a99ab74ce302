---------------------------- MODULE ArtifactWire ----------------------------
(***************************************************************************)
(* A signed artifact between the key holder who makes it (signArtifact of  *)
(* core/artifacts.ts over protocol/ids.ts) and the receivers who look at   *)
(* its form, its id and its signature: verifyArtifacts and                 *)
(* verifyIdentityCredential of packages/core.  On the way it is altered.   *)
(*                                                                         *)
(* A member has a value of a small set: "proper", "other" (proper, but     *)
(* another), "wrapped" (an array that holds one proper string, which a     *)
(* pattern's test() takes for the string), "local" (of a form the schema   *)
(* allows, but a resource in it is not canonical or of an unknown type)    *)
(* and "improper".  A digest is what it is made from: an id is the content,*)
(* a signature the pair of its key and its input.                          *)
(***************************************************************************)
EXTENDS Naturals, FiniteSets, Functions, TLC

CONSTANTS
    Key,       \* signing keys
    MadeKinds, \* the kinds that key holders sign
    MaxSigned, \* bound on the artifacts signed
    MaxFlaws   \* bound on members not proper when signed, plus alterations

ASSUME WireAssumption == MaxSigned \in Nat /\ MaxFlaws \in Nat

VARIABLES signed, wire, flaws, code

wireVars == <<signed, wire, flaws, code>>

Kinds == {"credential", "delegation", "request", "provenance", "key_status", "revocation",
          "key_rotation"}

Publication == {"publisher", "effective_at", "as_of", "valid_until", "sequence", "previous_digest"}

\* The members of each kind beside version, kind, id and proof.
Members(kind) ==
    {"issued_at"} \cup
    CASE kind = "credential" -> {"issuer", "subject", "public_jwk", "key_id", "not_before",
                                 "expires_at", "credential_purpose", "authority_ceiling"}
      [] kind = "delegation" -> {"delegator", "delegate", "parent_ref", "constraints"}
      [] kind = "request" -> {"signer", "delegation_ref", "request_id", "nonce", "not_before",
                              "expires_at", "action", "resource", "task", "audience",
                              "payload_digest", "task_context_digest"}
      [] kind = "key_status" -> Publication \cup {"target_key_id", "state"}
      [] kind = "revocation" -> Publication \cup {"target_type", "target_id", "reason"}
      [] kind = "key_rotation" -> {"old_key_id", "new_key_id", "activation_time",
                                   "retirement_time", "sequence", "previous_digest", "publisher"}
      [] kind = "provenance" -> {"authority_refs", "request_ref", "predicate_type", "subject",
                                 "predicate", "predecessor_refs"}

\* Members tested with a pattern and no check that they are strings, and members
\* that hold resources whose form verifyArtifacts looks at.
Tested == {"key_id", "request_id", "action", "task", "audience", "payload_digest",
           "task_context_digest", "previous_digest", "target_key_id", "old_key_id", "new_key_id"}
Located == {"resource", "constraints", "authority_ceiling"}

ProperIn(member) ==
    {"proper", "other"} \cup (IF member \in Tested THEN {"wrapped"} ELSE {})
                        \cup (IF member \in Located THEN {"local"} ELSE {})

-----------------------------------------------------------------------------
(* ids.ts: what an id and a signature are made from *)

ContentOf(a) == [version |-> a.version, kind |-> a.kind, body |-> a.body]

ArtifactIdFor(a) == ContentOf(a)

SigningInputFor(a) == [id |-> a.id, content |-> ContentOf(a)]

\* signArtifact checks nothing about what it is given.
SignArtifact(key, kind, body) ==
    LET content == [version |-> "agent-proof/v1", kind |-> kind, body |-> body]
    IN  [version |-> "agent-proof/v1", kind |-> kind, body |-> body,
         id |-> content, alg |-> "Ed25519", kid |-> key,
         sig |-> [key |-> key, input |-> [id |-> content, content |-> content]]]

-----------------------------------------------------------------------------
(* validate.ts *)

ValidateOuterEnvelope(a) ==
    "issued_at" \in DOMAIN a.body /\ a.body["issued_at"] \in {"proper", "other"}

ValidateArtifact(a) ==
    /\ ValidateOuterEnvelope(a)
    /\ a.kind \in Kinds /\ a.version = "agent-proof/v1" /\ a.alg = "Ed25519"
    /\ DOMAIN a.body = Members(a.kind)
    /\ \A m \in DOMAIN a.body : a.body[m] \in ProperIn(m)

\* The embedded key is another than the key id names.
KeyIdMismatch(a) ==
    /\ {"public_jwk", "key_id"} \subseteq DOMAIN a.body
    /\ a.body["public_jwk"] # "improper"
    /\ a.body["key_id"] # a.body["public_jwk"]

ResourceUnfit(a) == \E m \in Located \cap DOMAIN a.body : a.body[m] = "local"

\* Mutant of SignatureValid: the key that signed is not asked for.
SignatureByAny(a) == a.sig.input = SigningInputFor(a)

SignatureValid(a) == a.sig = [key |-> a.kid, input |-> SigningInputFor(a)]

-----------------------------------------------------------------------------
(* The receivers: each check in turn, the first that fails gives the code.   *)

\* PARSE, VERSION and the signature of CRYPTO in verifyArtifacts.
ChainCode(a) ==
    IF ~ValidateOuterEnvelope(a) THEN "SCHEMA_INVALID"
    ELSE IF a.id # ArtifactIdFor(a) THEN "ID_MISMATCH"
    ELSE IF KeyIdMismatch(a) THEN "KEY_ID_MISMATCH"
    ELSE IF a.version # "agent-proof/v1" THEN "UNSUPPORTED_VERSION"
    ELSE IF a.kind \notin Kinds THEN "UNSUPPORTED_KIND"
    ELSE IF a.alg # "Ed25519" THEN "UNSUPPORTED_ALGORITHM"
    ELSE IF "critical" \in DOMAIN a.body THEN "UNSUPPORTED_CRITICAL_SEMANTICS"
    ELSE IF ResourceUnfit(a) THEN "NON_CANONICAL_OR_UNSUPPORTED_RESOURCE"
    ELSE IF ~ValidateArtifact(a) THEN "SCHEMA_INVALID"
    ELSE IF ~SignatureValid(a) THEN "INVALID_SIGNATURE"
    ELSE "VALID"

\* Mutant of IdentityCode: the key id is not derived again.
IdentityCodeKeyTaken(a) ==
    IF ~ValidateOuterEnvelope(a) THEN "SCHEMA_INVALID"
    ELSE IF a.kind # "credential" THEN "UNSUPPORTED_KIND"
    ELSE IF ~ValidateArtifact(a) THEN "SCHEMA_INVALID"
    ELSE IF a.id # ArtifactIdFor(a) THEN "ID_MISMATCH"
    ELSE IF ~SignatureValid(a) THEN "INVALID_SIGNATURE"
    ELSE "VALID"

\* The same of verifyIdentityCredential, which takes credentials.
IdentityCode(a) ==
    IF ~ValidateOuterEnvelope(a) THEN "SCHEMA_INVALID"
    ELSE IF a.version # "agent-proof/v1" THEN "UNSUPPORTED_VERSION"
    ELSE IF a.kind # "credential" THEN "UNSUPPORTED_KIND"
    ELSE IF a.alg # "Ed25519" THEN "UNSUPPORTED_ALGORITHM"
    ELSE IF ~ValidateArtifact(a) THEN "SCHEMA_INVALID"
    ELSE IF a.id # ArtifactIdFor(a) THEN "ID_MISMATCH"
    ELSE IF KeyIdMismatch(a) THEN "KEY_ID_MISMATCH"
    ELSE IF ~SignatureValid(a) THEN "INVALID_SIGNATURE"
    ELSE "VALID"

-----------------------------------------------------------------------------
None == [kind |-> "none"]
Undecided == [chain |-> "none", identity |-> "none"]

InitWire == signed = {} /\ wire = None /\ flaws = 0 /\ code = Undecided

\* A key holder signs; one member may be flawed, the caller's input.
Sign ==
    /\ wire = None /\ Cardinality(signed) < MaxSigned
    /\ \E key \in Key, kind \in MadeKinds :
         LET proper == [m \in Members(kind) |-> "proper"]
         IN  \/ /\ signed' = signed \cup {SignArtifact(key, kind, proper)}
                /\ UNCHANGED flaws
             \/ /\ signed = {} /\ MaxFlaws > 0
                /\ \E m \in Members(kind), v \in {"wrapped", "local", "improper"} :
                     signed' = {SignArtifact(key, kind, [proper EXCEPT ![m] = v])}
                /\ flaws' = 1
    /\ UNCHANGED <<wire, code>>

Send ==
    /\ wire = None
    /\ wire' \in signed
    /\ UNCHANGED <<signed, flaws, code>>

BodyAltered(a) ==
    {Restrict(a.body, DOMAIN a.body \ {m}) : m \in DOMAIN a.body}
    \cup {[a.body EXCEPT ![m] = v] : m \in DOMAIN a.body, v \in {"other", "wrapped", "improper"}}
    \cup {(m :> "proper") @@ a.body : m \in {"critical", "subject"} \ DOMAIN a.body}

Altered(a) ==
    {[a EXCEPT !.body = b] : b \in BodyAltered(a)}
    \cup {[a EXCEPT !.version = "agent-proof/v2"], [a EXCEPT !.alg = "none"],
          [a EXCEPT !.id = ArtifactIdFor(a)]}
    \cup {[a EXCEPT !.kind = kind] : kind \in {"credential", "delegation", "unknown"}}
    \cup {[a EXCEPT !.kid = key] : key \in Key}
    \cup {[a EXCEPT !.id = s.id, !.sig = s.sig] : s \in signed}

\* Something happens to it on the way; a sender's tool may make the id anew.
Alter ==
    /\ wire # None /\ code = Undecided /\ flaws < MaxFlaws
    /\ wire' \in Altered(wire) \ {wire}
    /\ flaws' = flaws + 1
    /\ UNCHANGED <<signed, code>>

Receive ==
    /\ wire # None /\ code = Undecided
    /\ code' = [chain |-> ChainCode(wire), identity |-> IdentityCode(wire)]
    /\ UNCHANGED <<signed, wire, flaws>>

NextWire == Sign \/ Send \/ Alter \/ Receive

-----------------------------------------------------------------------------
Received == code # Undecided

\* Whatever a receiver accepts, a holder of the key it names signed as it is,
\* under the id it carries; and it has the members of its kind and no others, in
\* their form, with two exceptions that are the code's: a member tested with a
\* pattern only may be an array that holds the string, and verifyIdentityCredential
\* takes resources that are not canonical.
AcceptedIsSigned ==
    Received /\ "VALID" \in {code.chain, code.identity} =>
        /\ \E s \in signed : /\ ContentOf(s) = ContentOf(wire)
                             /\ s.id = wire.id /\ s.sig.key = wire.kid
        /\ DOMAIN wire.body = Members(wire.kind)
        /\ \A m \in DOMAIN wire.body :
              \/ wire.body[m] \in {"proper", "other"}
              \/ wire.body[m] = "wrapped" /\ m \in Tested
              \/ wire.body[m] = "local" /\ m \in Located /\ code.chain # "VALID"
        /\ wire.kind = "credential" => wire.body["key_id"] = wire.body["public_jwk"]

\* What the schemas say of these members: a string (WrappedMember.cfg shows where
\* the code takes another value).
MembersAreStrings ==
    Received /\ "VALID" \in {code.chain, code.identity} =>
        \A m \in DOMAIN wire.body : wire.body[m] # "wrapped"

\* The two receivers, with their checks in different orders, take the same
\* credentials, but that verifyIdentityCredential does not look at the resources
\* of a ceiling; and what only one refuses, it refuses for that reason.
SameForm ==
    Received /\ wire.kind = "credential" =>
        /\ code.chain = "VALID" => code.identity = "VALID"
        /\ code.identity = "VALID" /\ code.chain # "VALID" => ResourceUnfit(wire)
=============================================================================
