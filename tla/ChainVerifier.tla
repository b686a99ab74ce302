---------------------------- MODULE ChainVerifier ----------------------------
(***************************************************************************)
(* verifyArtifacts: one call, stage by stage, with the loops of CHAIN      *)
(* (from the request up to the root, and along the ceilings) step by step. *)
(* A call reads nothing but its input, so one call is all there is; what   *)
(* varies is the input, a list of artifacts in any order.                  *)
(*                                                                         *)
(* The codes of PARSE and VERSION are one code here, MALFORMED, and an     *)
(* archived snapshot is "none", "good" or "bad".  Rotation and provenance  *)
(* records, which no stage after CRYPTO reads, are left out.               *)
(***************************************************************************)
EXTENDS SignedEvidence

\* The arguments a call can be made with: records [artifacts, snapshot, context,
\* now, mode, replay, archived], where a context is [audience, action, resource,
\* task, signer, replayRequired].
CONSTANT Input

\* The artifacts are a list; one that PARSE lets pass has the constraints, the
\* numbers and the references of its kind, and a snapshot that is read has
\* finitely many keys, a depth and a skew.
ASSUME InputAssumption ==
    \A c \in Input :
        LET artifacts == c.artifacts
            OfForm(kinds) == {a \in OfKind(artifacts, kinds) : a.formed}
        IN  /\ artifacts \in Seq(Elements(artifacts))
            /\ \A a \in Elements(artifacts) :
                  a.kind \in {"credential", "delegation", "request", "key_status", "revocation"}
            /\ \A a \in OfForm({"credential", "delegation"}) :
                  a.ceiling.depth \in Nat /\ a.ceiling.from \in Int /\ a.ceiling.until \in Int
            /\ \A a \in OfForm({"credential"}) :
                  a.issued \in Int /\ a.window.from \in Int /\ a.window.until \in Int
            /\ \A q \in OfForm({"request"}) : q.parent.kind = "delegation"
            /\ \A r \in OfForm({"key_status"}) :
                  r.sequence \in Nat /\ r.asOf \in Int /\ r.until \in Int
            /\ IsFiniteSet(DOMAIN c.snapshot.issuers)
            /\ c.snapshot.maxDepth \in Nat /\ c.snapshot.skew \in Int /\ c.now \in Int

VARIABLES
    input,      \* what the call is made with
    stage,      \* where the call is
    chain,      \* the request, then each parent
    position,   \* the place the ceilings are compared at
    code        \* the decision

vars == <<input, stage, chain, position, code>>

Init ==
    /\ input \in Input
    /\ stage = "parse"
    /\ chain = << >>
    /\ position = 1
    /\ code = "none"

Artifacts == input.artifacts

Request == Find(Artifacts, OfKind(Artifacts, {"request"}))

Root == Find(Artifacts, Roots(Artifacts))

Current == chain[Len(chain)]

OfflineInspection ==
    input.mode = "offline" /\ input.snapshot.policy = "offline-inspection-only"

Stop(c) ==
    /\ stage' = "done"
    /\ code' = c
    /\ UNCHANGED <<input, chain, position>>

\* Mutant of Conclude: a stage reports its fault and the next one begins.
ConcludeOn(fault, next) ==
    /\ stage' = next
    /\ code' = fault
    /\ UNCHANGED <<input, chain, position>>

\* The end of a stage that finds this fault, or none.
Conclude(fault, next) ==
    IF fault # "none" THEN Stop(fault)
    ELSE stage' = next /\ UNCHANGED <<input, chain, position, code>>

-----------------------------------------------------------------------------
ParseFault ==
    IF \E a \in Elements(Artifacts) : ~a.formed THEN "MALFORMED"
    ELSE IF DOMAIN input.snapshot.issuers \cap DOMAIN input.snapshot.publishers # {}
      THEN "TRUST_SNAPSHOT_INVALID"
    ELSE IF ~Distinct(Artifacts) THEN "CHAIN_PARENT_AMBIGUOUS"
    ELSE "none"

\* PARSE and VERSION, the snapshot, and the ids.
Parse == stage = "parse" /\ Conclude(ParseFault, "crypto")

RequestFault ==
    IF OfKind(Artifacts, {"request"}) = {} THEN "MISSING_REFERENCE"
    ELSE IF ~Request.linked THEN "INVALID_DIGEST_LINKAGE"
    ELSE "none"

Crypto ==
    /\ stage = "crypto"
    /\ Conclude(FirstFault(<<CryptoFaults(Artifacts, input.snapshot), RequestFault>>), "time")

Time ==
    /\ stage = "time"
    /\ Conclude(TimeFaults(Artifacts, input.now, input.snapshot.skew), "trust")

TrustFault ==
    IF Roots(Artifacts) = {} THEN "MIXED_TRUST_ROOT" ELSE RootFault(Root, input.snapshot)

Trust ==
    /\ stage = "trust"
    /\ \/ TrustFault # "none" /\ Stop(TrustFault)
       \/ /\ TrustFault = "none"
          /\ stage' = "chain"
          /\ chain' = <<Request>>
          /\ UNCHANGED <<input, position, code>>

-----------------------------------------------------------------------------
(* CHAIN *)

Named(a) == {p \in Elements(Artifacts) : p.id = a.parent.id}

Parent(a) == CHOOSE p \in Named(a) : TRUE

\* The parent, if it is of a kind that can, hands its authority to this principal.
GivenTo(p, principal) ==
    /\ p.kind = "delegation" => p.delegate = principal
    /\ p.kind = "credential" => p.subject = principal /\ p.purpose = "agent-root-authority"

LinkFault(a) ==
    IF Named(a) = {}
      THEN IF a.kind = "request" THEN "MISSING_REFERENCE" ELSE "CHAIN_PARENT_MISSING"
    ELSE IF \/ Parent(a).kind # a.parent.kind
            \/ a.kind = "request" /\ a.parent.kind # "delegation" THEN "MISSING_REFERENCE"
    ELSE IF Parent(a) \in Elements(chain) THEN "CHAIN_BOUNDS_EXCEEDED"
    ELSE IF ~GivenTo(Parent(a), StatedSigner(a))
      THEN IF a.kind = "request" THEN "SIGNER_MISMATCH" ELSE "CHAIN_PARENT_MISSING"
    ELSE "none"

\* One turn of the loop from the request to the root.
Follow ==
    /\ stage = "chain"
    /\ Current.kind \in {"request", "delegation"}
    /\ \/ LinkFault(Current) # "none" /\ Stop(LinkFault(Current))
       \/ /\ LinkFault(Current) = "none"
          /\ chain' = Append(chain, Parent(Current))
          /\ UNCHANGED <<input, stage, position, code>>

\* Mutant of TooLong: the request and the root are counted too.
TooLongByTwo == Len(chain) > input.snapshot.maxDepth

TooLong == Len(chain) - 2 > input.snapshot.maxDepth

EndChain ==
    /\ stage = "chain"
    /\ Current.kind \notin {"request", "delegation"}
    /\ \/ (Current # Root \/ TooLong) /\ Stop("CHAIN_BOUNDS_EXCEEDED")
       \/ /\ Current = Root /\ ~TooLong
          /\ stage' = "attenuation"
          /\ position' = 2
          /\ UNCHANGED <<input, chain, code>>

Narrows(child, parent) ==
    /\ {child.kind, parent.kind} \subseteq {"credential", "delegation"}
    /\ Attenuates(child.ceiling, parent.ceiling)

\* One turn of the loop over the ceilings.
Attenuate ==
    /\ stage = "attenuation"
    /\ position < Len(chain)
    /\ \/ ~Narrows(chain[position], chain[position + 1]) /\ Stop("ATTENUATION_VIOLATION")
       \/ /\ Narrows(chain[position], chain[position + 1])
          /\ position' = position + 1
          /\ UNCHANGED <<input, stage, chain, code>>

EndAttenuation ==
    /\ stage = "attenuation"
    /\ position = Len(chain)
    /\ Conclude("none", "status")

-----------------------------------------------------------------------------
(* STATUS *)

\* The keys of the chain in the order the loop meets them.
ChainKeys == [i \in 1 .. (Len(chain) + 1) |-> IF i <= Len(chain) THEN chain[i].kid ELSE Current.key]

KeyFault(key) ==
    LET selected == StatusFor(Artifacts, key)
    IN  IF StatusOf(Artifacts, key) = {}
          THEN IF OfflineInspection THEN "none" ELSE "STATUS_UNAVAILABLE"
        ELSE IF selected.state # "active" THEN "KEY_NOT_USABLE"
        ELSE IF ~StatusChainValid(Artifacts, selected) THEN "STATUS_UNAVAILABLE"
        ELSE IF OfflineInspection THEN "none"
        ELSE IF ~AtHighWater(selected, input.snapshot) THEN "STATUS_ROLLBACK"
        ELSE IF selected.asOf > input.now \/ selected.until < input.now THEN "STATUS_STALE"
        ELSE "none"

RevocationFault ==
    IF \E r \in Elements(Artifacts) :
         Revokes(r, {a.id : a \in Elements(chain)}, Elements(ChainKeys), input.now)
      THEN "REVOKED" ELSE "none"

StatusFault ==
    FirstFault(<<FirstFault([i \in DOMAIN ChainKeys |-> KeyFault(ChainKeys[i])]), RevocationFault>>)

Status == stage = "status" /\ Conclude(StatusFault, "binding")

-----------------------------------------------------------------------------
(* BINDING and REPLAY *)

Effective == chain[2].ceiling

BindingFault ==
    IF Request.signer # input.context.signer THEN "SIGNER_MISMATCH"
    ELSE IF Request.audience # input.context.audience THEN "AUDIENCE_MISMATCH"
    ELSE IF ~({Request.action, input.context.action} \subseteq Effective.capabilities)
      THEN "ACTION_NOT_ALLOWED"
    ELSE IF Request.resource \notin Effective.resources \/ Request.resource # input.context.resource
      THEN "RESOURCE_NOT_ALLOWED"
    ELSE IF Request.task \notin Effective.tasks \/ Request.task # input.context.task
      THEN "TASK_NOT_ALLOWED"
    ELSE "none"

Binding == stage = "binding" /\ Conclude(BindingFault, "replay")

Verdict ==
    IF OfflineInspection THEN "VALID"
    ELSE IF input.context.replayRequired /\ input.mode = "offline" THEN "OFFLINE_REPLAY_UNAVAILABLE"
    ELSE IF input.context.replayRequired /\ input.replay = "duplicate" THEN "REPLAY_DETECTED"
    ELSE IF input.archived = "bad" THEN "TRUST_SNAPSHOT_INVALID"
    ELSE "VALID"

Replay == stage = "replay" /\ Stop(Verdict)

-----------------------------------------------------------------------------
Next ==
    \/ Parse \/ Crypto \/ Time \/ Trust
    \/ Follow \/ EndChain \/ Attenuate \/ EndAttenuation
    \/ Status \/ Binding \/ Replay

Spec == Init /\ [][Next]_vars

-----------------------------------------------------------------------------
(* Properties *)

Stages == {"parse", "crypto", "time", "trust", "chain", "attenuation", "status", "binding",
           "replay", "done"}

Codes == {"none", "VALID", "MALFORMED", "TRUST_SNAPSHOT_INVALID", "CHAIN_PARENT_AMBIGUOUS",
          "MISSING_REFERENCE", "UNTRUSTED_KEY", "UNTRUSTED_ISSUER", "INVALID_SIGNATURE",
          "SIGNER_MISMATCH", "INVALID_DIGEST_LINKAGE", "INVALID_TIME_INTERVAL", "NOT_YET_VALID",
          "EXPIRED", "MIXED_TRUST_ROOT", "CHAIN_PARENT_MISSING", "CHAIN_BOUNDS_EXCEEDED",
          "ATTENUATION_VIOLATION", "STATUS_UNAVAILABLE", "KEY_NOT_USABLE", "STATUS_ROLLBACK",
          "STATUS_STALE", "REVOKED", "AUDIENCE_MISMATCH", "ACTION_NOT_ALLOWED",
          "RESOURCE_NOT_ALLOWED", "TASK_NOT_ALLOWED", "OFFLINE_REPLAY_UNAVAILABLE",
          "REPLAY_DETECTED"}

\* The shape of every variable; a call has decided when it is done.
TypeOK ==
    /\ stage \in Stages
    /\ chain \in Seq(Elements(Artifacts))
    /\ position \in Nat \ {0}
    /\ code \in Codes
    /\ stage = "done" <=> code # "none"

\* A decision is VALID only along a chain from a root that local policy names,
\* each artifact signed by whom the one above gives its authority to; each
\* ceiling is within every ceiling above it, not the next one's only; the
\* action, the resource and the task of the request are within all of them (its
\* audience need not be: AudienceIsBound); and the depth the root grants covers
\* the number of delegations.
ValidIsBounded ==
    code = "VALID" =>
        LET n == Len(chain)
        IN  /\ n > 2 /\ chain[1] = Request
            /\ chain[n].kid \in DOMAIN input.snapshot.issuers
            /\ [issuer |-> input.snapshot.issuers[chain[n].kid], subject |-> chain[n].subject]
                 \in input.snapshot.roots
            /\ \A i \in 1 .. (n - 1) : GivenTo(chain[i + 1], StatedSigner(chain[i]))
            /\ \A i, j \in 2 .. n : i < j => Attenuates(chain[i].ceiling, chain[j].ceiling)
            /\ \A i \in 2 .. n : /\ Request.action \in chain[i].ceiling.capabilities
                                 /\ Request.resource \in chain[i].ceiling.resources
                                 /\ Request.task \in chain[i].ceiling.tasks
            /\ chain[2].ceiling.depth + (n - 2) <= chain[n].ceiling.depth

-----------------------------------------------------------------------------
(* What a list of artifacts proves, whatever its order *)

Names(a, p) == a.parent.kind = p.kind /\ a.parent.id = p.id

Usable(key) ==
    \/ OfflineInspection /\ StatusOf(Artifacts, key) = {}
    \/ \E r \in StatusOf(Artifacts, key) :
          /\ r.state = "active"
          /\ \A q \in StatusOf(Artifacts, key) : q.sequence <= r.sequence
          /\ StatusChainValid(Artifacts, r)
          /\ \/ OfflineInspection
             \/ AtHighWater(r, input.snapshot) /\ r.asOf <= input.now /\ input.now <= r.until

Live(a) ==
    LET keys == {a.kid} \cup (IF a.kind = "credential" THEN {a.key} ELSE {})
    IN  /\ \A k \in keys : Usable(k)
        /\ \A r \in Elements(Artifacts) : ~Revokes(r, {a.id}, keys, input.now)

\* What is delegated under artifacts that hold authority.
HeldUnder(holding) ==
    {d \in OfKind(Artifacts, {"delegation"}) :
        /\ Live(d)
        /\ \E p \in holding : Names(d, p) /\ GivenTo(p, d.delegator) /\ Attenuates(d.ceiling, p.ceiling)}

TrustedRoots == {r \in Roots(Artifacts) : RootFault(r, input.snapshot) = "none" /\ Live(r)}

BackedAt[n \in 0 .. input.snapshot.maxDepth] ==
    IF n = 0 THEN TrustedRoots ELSE BackedAt[n - 1] \cup HeldUnder(BackedAt[n - 1])

\* The artifacts that hold authority: a trusted root, and whatever is delegated
\* under one that holds it, as deep as the snapshot lets a chain be.
Backed == BackedAt[input.snapshot.maxDepth]

\* No fault of CRYPTO, as the list has it, nor of TIME.
Sound(a) ==
    /\ CryptoFault(a, Artifacts, input.snapshot) = "none"
    /\ TimeFault(a, input.now, input.snapshot.skew) = "none"

\* Whom the credentials name as holding a key.
Holders(key) == {c.subject : c \in {b \in OfKind(Artifacts, {"credential"}) : b.key = key}}

\* Signed by one who may sign it, and in its time.
Authentic(a) ==
    /\ a.genuine
    /\ a.kind = "credential" => a.kid \in DOMAIN input.snapshot.issuers \/ Holders(a.kid) # {}
    /\ a.kind \in {"delegation", "request"} => StatedSigner(a) \in Holders(a.kid)
    /\ a.kind \in {"key_status", "revocation"} =>
          a.kid \in DOMAIN input.snapshot.publishers /\ input.snapshot.publishers[a.kid] = a.publisher
    /\ TimeFault(a, input.now, input.snapshot.skew) = "none"

Asked(q, ceiling) ==
    /\ q.signer = input.context.signer /\ q.audience = input.context.audience
    /\ {q.action, input.context.action} \subseteq ceiling.capabilities
    /\ q.resource \in ceiling.resources /\ q.resource = input.context.resource
    /\ q.task \in ceiling.tasks /\ q.task = input.context.task

Acceptable ==
    /\ ParseFault = "none"
    /\ \A a \in Elements(Artifacts) : Authentic(a)
    /\ \E q \in OfKind(Artifacts, {"request"}) :
          /\ q.linked /\ Live(q)
          /\ \E d \in Backed : d.kind = "delegation" /\ Names(q, d) /\ GivenTo(d, q.signer)
                               /\ Asked(q, d.ceiling)
    /\ Verdict = "VALID"

\* One root credential, one request, one holder of a key, and no two publishers
\* whose records on a key have the same number: otherwise the order of the list
\* decides which of them counts.
Unambiguous ==
    /\ Cardinality(Roots(Artifacts)) <= 1
    /\ Cardinality(OfKind(Artifacts, {"request"})) <= 1
    /\ \A b, c \in OfKind(Artifacts, {"credential"}) : b.key = c.key => b.subject = c.subject
    /\ \A r, q \in OfKind(Artifacts, {"key_status"}) :
          r.target = q.target /\ r.sequence = q.sequence => r.publisher = q.publisher

\* The stages, loops and early returns decide VALID only when each artifact of
\* the list is authentic and among them is authority for the request, whichever
\* place of the list each has; and always then, unless two of the artifacts
\* compete for one part.
DecidesByContent ==
    code # "none" =>
        /\ code = "VALID" => Acceptable
        /\ Acceptable /\ Unambiguous => code = "VALID"

\* A request is VALID only for an audience that every ceiling above it names.
AudienceIsBound ==
    code = "VALID" => \A i \in 2 .. Len(chain) : Request.audience \in chain[i].ceiling.audiences

\* BINDING accepts no request for an action other than the expected one.
ActionIsBound == code = "VALID" => Request.action = input.context.action
=============================================================================
