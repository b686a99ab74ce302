------------------------ MODULE RequestVerification ------------------------
(***************************************************************************)
(* Online verification of signed requests: verifyRequestWithReplay of the  *)
(* service, run by any number of concurrent calls in any number of         *)
(* processes, over one evidence repository and one SQLite replay table.    *)
(*                                                                         *)
(* Every await and every statement another process can come between is a   *)
(* step of its own.  The stages of verifyArtifacts that depend only on     *)
(* immutable signed bytes (PARSE, VERSION, CRYPTO, TRUST, CHAIN, BINDING)  *)
(* are the membership of the malformed artifact set and the shape of the   *)
(* assembled chain; TIME, the revocations of STATUS and REPLAY depend on   *)
(* when they run and are modelled.  Key-status records are taken to be     *)
(* active, fresh and at their high water.                                  *)
(***************************************************************************)
EXTENDS Naturals, FiniteSets

CONSTANTS
    Call,        \* invocations of verifyRequestWithReplay
    Artifact,    \* the signed artifacts
    Signed,      \* [Artifact -> kind, parent, window]: their signed content
    ReplayKey,   \* request -> the fields its replay row is built from
    Malformed,   \* artifacts a byte-only stage of the verifier rejects
    Stored,      \* artifacts in the repository at the start
    Mode,        \* how a call is made: online, replayRequired, hasStore
    Presented,   \* the pairs of a request and a mode that callers choose
    Revocable,   \* bound: the artifacts a publisher may come to revoke
    OfflinePolicy, \* replay_policy is offline-inspection-only
    Skew,        \* max_clock_skew_seconds of the trust snapshot
    Lead,        \* bound: how far ahead a revocation takes effect
    MaxTime,     \* bound: the clock stops here
    None         \* no parent

Request == {a \in Artifact : Signed[a].kind = "request"}

ASSUME ArtifactAssumption ==
    /\ None \notin Artifact
    /\ Signed \in [Artifact -> [kind : {"request", "delegation", "credential"},
                                parent : Artifact \cup {None},
                                notBefore : Nat, expiresAt : Nat]]
    /\ DOMAIN ReplayKey = Request
    /\ Malformed \subseteq Artifact
    /\ Stored \subseteq Artifact
    /\ Revocable \subseteq Artifact

ASSUME ModeAssumption ==
    /\ Mode \subseteq [online : BOOLEAN, replayRequired : BOOLEAN, hasStore : BOOLEAN]
    /\ Presented \subseteq Request \X Mode
    /\ OfflinePolicy \in BOOLEAN
    /\ Skew \in Nat
    /\ Lead \subseteq Nat
    /\ MaxTime \in Nat

VARIABLES
    clock,       \* the machine's clock, read by every process
    replay,      \* table replay_requests: the unexpired keys consumed so far
    stored,      \* artifacts EvidenceRepository.get can find
    revocations, \* revocations EvidenceRepository.listStatus returns
    pc,          \* where each call stands
    input,       \* its VerifyRequestInput: request, mode, now
    cursor,      \* "current" of the loop in chain
    gathered,    \* the artifacts chain has collected
    listed,      \* what listStatus returned to it
    checkedAt,   \* "now" as coreReplayStore.consume read it
    outcome,     \* what consume resolved to
    result,      \* the VerificationResult: code and replay_checked
    insertedAt,  \* history: clock when the row was committed
    known        \* history: revocations published before the call began

callVars == <<pc, input, cursor, gathered, listed, checkedAt, outcome, result,
              insertedAt, known>>
vars == <<clock, replay, stored, revocations, pc, input, cursor, gathered,
          listed, checkedAt, outcome, result, insertedAt, known>>

-----------------------------------------------------------------------------
(* The replay table *)

Row(r) == [key |-> ReplayKey[r], expiresAt |-> Signed[r].expiresAt]

\* The two UNIQUE constraints of replay_requests.
SameKey(k, l) ==
    /\ k.audience = l.audience
    /\ k.signer = l.signer
    /\ k.requestId = l.requestId \/ k.nonce = l.nonce

\* Mutant of Occupied: one UNIQUE constraint over the whole row.
OccupiedByEqualRow(r) == Row(r) \in replay

Occupied(r) == \E row \in replay : SameKey(row.key, ReplayKey[r])

-----------------------------------------------------------------------------
(* The verifier's verdict *)

Codes == {"VALID", "REJECTED", "REPLAY_DETECTED", "OFFLINE_REPLAY_UNAVAILABLE"}

InWindow(a, now) ==
    /\ Signed[a].notBefore <= now + Skew
    /\ now <= Signed[a].expiresAt + Skew

\* Mutant of Effective: a revocation misses the instant it takes effect at.
EffectiveLate(revocation, now) == revocation.effectiveAt < now

Effective(revocation, now) == revocation.effectiveAt <= now

\* Every stage before REPLAY.
Sound(artifacts, status, now) ==
    /\ artifacts \cap Malformed = {}
    /\ \E a \in artifacts : Signed[a].kind = "credential"
    /\ \A a \in artifacts : InWindow(a, now)
    /\ \A v \in status : Effective(v, now) => v.target \notin artifacts

\* verifyArtifacts with no archived snapshot: the REPLAY stage and its result.
Verdict(artifacts, status, now, mode, duplicate) ==
    LET answer(code, checked) == [code |-> code, replayChecked |-> checked]
    IN  IF ~Sound(artifacts, status, now) THEN answer("REJECTED", FALSE)
        ELSE IF ~mode.online /\ OfflinePolicy THEN answer("VALID", FALSE)
        ELSE IF ~mode.online /\ mode.replayRequired
             THEN answer("OFFLINE_REPLAY_UNAVAILABLE", FALSE)
        ELSE IF mode.replayRequired /\ duplicate THEN answer("REPLAY_DETECTED", TRUE)
        ELSE answer("VALID", mode.replayRequired)

\* The verdict on a call's own evidence.
VerdictOf(c, duplicate) ==
    Verdict(gathered[c], listed[c], input[c].now, input[c].mode, duplicate)

-----------------------------------------------------------------------------
NoInput == [request |-> None, mode |-> None, now |-> 0]
NoResult == [code |-> "NONE", replayChecked |-> FALSE]

Init ==
    /\ clock = 0
    /\ replay = {}
    /\ stored = Stored
    /\ revocations = {}
    /\ pc = [c \in Call |-> "idle"]
    /\ input = [c \in Call |-> NoInput]
    /\ cursor = [c \in Call |-> None]
    /\ gathered = [c \in Call |-> {}]
    /\ listed = [c \in Call |-> {}]
    /\ checkedAt = [c \in Call |-> 0]
    /\ outcome = [c \in Call |-> "none"]
    /\ result = [c \in Call |-> NoResult]
    /\ insertedAt = [c \in Call |-> 0]
    /\ known = [c \in Call |-> {}]

Goto(c, label) == pc' = [pc EXCEPT ![c] = label]

Return(c, verdict) ==
    /\ result' = [result EXCEPT ![c] = verdict]
    /\ Goto(c, "done")

\* A caller presents a request: the first for a side effect, or a retry.
Begin(c) ==
    /\ pc[c] = "idle"
    /\ \E p \in Presented :
         /\ input' = [input EXCEPT ![c] = [request |-> p[1], mode |-> p[2], now |-> clock]]
         /\ cursor' = [cursor EXCEPT ![c] = p[1]]
         /\ gathered' = [gathered EXCEPT ![c] = {p[1]}]
    /\ known' = [known EXCEPT ![c] = revocations]
    /\ Goto(c, "assembling")
    /\ UNCHANGED <<clock, replay, stored, revocations, listed, checkedAt,
                   outcome, result, insertedAt>>

\* Mutant of HasNewParent: a reference is followed, found or not.
HasReference(c) == Signed[cursor[c]].parent \notin gathered[c]

\* Mutant of HasNewParent: the walk keeps no set of seen artifacts.
HasParent(c) ==
    /\ Signed[cursor[c]].kind \in {"request", "delegation"}
    /\ Signed[cursor[c]].parent \in stored

\* One turn of the loop in chain: the parent exists and is new.
HasNewParent(c) ==
    /\ Signed[cursor[c]].kind \in {"request", "delegation"}
    /\ Signed[cursor[c]].parent \in stored \ gathered[c]

FollowParent(c) ==
    /\ pc[c] = "assembling"
    /\ HasNewParent(c)
    /\ LET parent == Signed[cursor[c]].parent
       IN  /\ cursor' = [cursor EXCEPT ![c] = parent]
           /\ gathered' = [gathered EXCEPT ![c] = @ \cup {parent}]
    /\ UNCHANGED <<clock, replay, stored, revocations, pc, input, listed,
                   checkedAt, outcome, result, insertedAt, known>>

\* The loop ends at a credential, at an unknown parent or at a cycle.
EndChain(c) ==
    /\ pc[c] = "assembling"
    /\ ~HasNewParent(c)
    /\ cursor' = [cursor EXCEPT ![c] = None]
    /\ Goto(c, "listing")
    /\ UNCHANGED <<clock, replay, stored, revocations, input, gathered, listed,
                   checkedAt, outcome, result, insertedAt, known>>

\* Mutant of Preliminary: the key is consumed whatever the verdict.
PreliminaryUnchecked(c) ==
    LET mode == input[c].mode
        consumes == mode.replayRequired /\ mode.online /\ mode.hasStore
    IN  /\ pc[c] = "listing"
        /\ listed' = [listed EXCEPT ![c] = revocations]
        /\ \/ /\ ~consumes
              /\ Return(c, Verdict(gathered[c], revocations, input[c].now, mode, TRUE))
           \/ consumes /\ Goto(c, "consuming") /\ UNCHANGED result
        /\ UNCHANGED <<clock, replay, stored, revocations, input, cursor, gathered,
                       checkedAt, outcome, insertedAt, known>>

\* listStatus resolves and the preliminary verification runs on what it gave.
Preliminary(c) ==
    LET mode == input[c].mode
        verdict(duplicate) == Verdict(gathered[c], revocations, input[c].now,
                                      mode, duplicate)
        consumes == /\ verdict(FALSE).code = "VALID"
                    /\ mode.replayRequired
                    /\ mode.online
    IN  /\ pc[c] = "listing"
        /\ listed' = [listed EXCEPT ![c] = revocations]
        /\ \/ ~consumes /\ Return(c, verdict(FALSE))
           \/ consumes /\ ~mode.hasStore /\ Return(c, verdict(TRUE))
           \/ consumes /\ mode.hasStore /\ Goto(c, "consuming") /\ UNCHANGED result
        /\ UNCHANGED <<clock, replay, stored, revocations, input, cursor, gathered,
                       checkedAt, outcome, insertedAt, known>>

\* Mutant of CheckExpiry: the clock skew is charged to the request.
CheckExpiryEarly(c) ==
    LET expired == Signed[input[c].request].expiresAt <= clock + Skew
    IN  /\ pc[c] = "consuming"
        /\ \/ expired /\ outcome' = [outcome EXCEPT ![c] = "expired"]
                      /\ Goto(c, "answered")
           \/ ~expired /\ Goto(c, "inserting") /\ UNCHANGED outcome
        /\ checkedAt' = [checkedAt EXCEPT ![c] = clock]
        /\ UNCHANGED <<clock, replay, stored, revocations, input, cursor, gathered,
                       listed, result, insertedAt, known>>

\* coreReplayStore.consume reads its own clock before it opens a transaction.
CheckExpiry(c) ==
    LET expired == Signed[input[c].request].expiresAt <= clock
    IN  /\ pc[c] = "consuming"
        /\ \/ expired /\ outcome' = [outcome EXCEPT ![c] = "expired"]
                      /\ Goto(c, "answered")
           \/ ~expired /\ Goto(c, "inserting") /\ UNCHANGED outcome
        /\ checkedAt' = [checkedAt EXCEPT ![c] = clock]
        /\ UNCHANGED <<clock, replay, stored, revocations, input, cursor, gathered,
                       listed, result, insertedAt, known>>

\* INSERT ... ON CONFLICT DO NOTHING, in a transaction of its own.
Insert(c) ==
    LET r == input[c].request
    IN  /\ pc[c] = "inserting"
        /\ \/ /\ Occupied(r)
              /\ outcome' = [outcome EXCEPT ![c] = "duplicate"]
              /\ UNCHANGED <<replay, insertedAt>>
           \/ /\ ~Occupied(r)
              /\ outcome' = [outcome EXCEPT ![c] = "consumed"]
              /\ replay' = replay \cup {Row(r)}
              /\ insertedAt' = [insertedAt EXCEPT ![c] = clock]
        /\ Goto(c, "answered")
        /\ UNCHANGED <<clock, stored, revocations, input, cursor, gathered, listed,
                       checkedAt, result, known>>

\* The awaited outcome reaches verifyRequestWithReplay, which answers.
Answer(c) ==
    /\ pc[c] = "answered"
    /\ Return(c, VerdictOf(c, outcome[c] # "consumed"))
    /\ UNCHANGED <<clock, replay, stored, revocations, input, cursor, gathered,
                   listed, checkedAt, outcome, insertedAt, known>>

\* The process of a call dies, or the call throws (BEGIN IMMEDIATE does when
\* the database is locked: no busy timeout is set).  An open transaction is
\* rolled back, a committed one stays.  The memory of the call is gone; what a
\* call that had consumed its key knew is kept as history.
Crash(c) ==
    LET kept(f, none) == IF outcome[c] = "consumed" THEN f ELSE [f EXCEPT ![c] = none]
    IN  /\ pc[c] \notin {"idle", "done", "crashed"}
        /\ Goto(c, "crashed")
        /\ cursor' = [cursor EXCEPT ![c] = None]
        /\ gathered' = kept(gathered, {})
        /\ listed' = kept(listed, {})
        /\ known' = kept(known, {})
        /\ checkedAt' = kept(checkedAt, 0)
        /\ UNCHANGED <<clock, replay, stored, revocations, input, outcome, result,
                       insertedAt>>

\* Mutant of PurgeExpired: rows go at their expires_at.
PurgeExpiring ==
    /\ replay' = {row \in replay : row.expiresAt > clock}
    /\ UNCHANGED <<clock, stored, revocations, callVars>>

\* replay.purgeExpired, called by whoever schedules retention.
PurgeExpired ==
    /\ replay' = {row \in replay : ~(row.expiresAt < clock)}
    /\ UNCHANGED <<clock, stored, revocations, callVars>>

\* DelegationService.delegate and createRequest end in repository.put.
Put(a) ==
    /\ a \notin stored
    /\ stored' = stored \cup {a}
    /\ UNCHANGED <<clock, replay, revocations, callVars>>

\* A status publisher revokes a target, now or from a later instant on.
Publish(target, effectiveAt) ==
    /\ \A v \in revocations : v.target # target
    /\ revocations' = revocations \cup {[target |-> target, effectiveAt |-> effectiveAt]}
    /\ UNCHANGED <<clock, replay, stored, callVars>>

\* Time passes, also between any two statements of a call: nothing bounds how
\* long a process stalls between reading the clock in consume and its commit.
Tick ==
    /\ clock < MaxTime
    /\ clock' = clock + 1
    /\ UNCHANGED <<replay, stored, revocations, callVars>>

Step(c) ==
    \/ FollowParent(c)
    \/ EndChain(c)
    \/ Preliminary(c)
    \/ CheckExpiry(c)
    \/ Insert(c)
    \/ Answer(c)

Next ==
    \/ \E c \in Call : Begin(c) \/ Step(c) \/ Crash(c)
    \/ PurgeExpired
    \/ \E a \in Artifact : Put(a)
    \/ \E a \in Revocable, lead \in Lead : Publish(a, clock + lead)
    \/ Tick

\* The event loop of a live process runs every call it has started.
Fairness == \A c \in Call : WF_vars(Step(c))

Spec == Init /\ [][Next]_vars

FairSpec == Spec /\ Fairness

-----------------------------------------------------------------------------
(* Properties *)

Consumed(c) == outcome[c] = "consumed"

\* The answer that authorises a side effect.
Authorised(c) ==
    /\ pc[c] = "done"
    /\ result[c] = [code |-> "VALID", replayChecked |-> TRUE]

Clashing(c, d) == SameKey(ReplayKey[input[c].request], ReplayKey[input[d].request])

Labels == {"idle", "assembling", "listing", "consuming", "inserting", "answered",
           "done", "crashed"}

\* The shape of every variable.
TypeOK ==
    /\ clock \in Nat
    /\ replay \subseteq {Row(r) : r \in Request}
    /\ stored \subseteq Artifact
    /\ revocations \subseteq [target : Artifact, effectiveAt : Nat]
    /\ pc \in [Call -> Labels]
    /\ input \in [Call -> {NoInput} \cup [request : Request, mode : Mode, now : Nat]]
    /\ cursor \in [Call -> Artifact \cup {None}]
    /\ gathered \in [Call -> SUBSET Artifact]
    /\ listed \in [Call -> SUBSET [target : Artifact, effectiveAt : Nat]]
    /\ checkedAt \in [Call -> Nat]
    /\ outcome \in [Call -> {"none", "consumed", "duplicate", "expired"}]
    /\ result \in [Call -> {NoResult} \cup [code : Codes, replayChecked : BOOLEAN]]
    /\ insertedAt \in [Call -> Nat]
    /\ known \in [Call -> SUBSET [target : Artifact, effectiveAt : Nat]]
    /\ \A c \in Call : pc[c] # "idle" => input[c].request \in Request

\* Two calls authorise a side effect of one request only if one of them read the
\* clock before the request's expires_at and committed its row after it, when a
\* purge may have removed the other's: across concurrent calls, crashes, retries
\* and purges, calls that commit in time are authorised once (workflows.ts
\* verifyRequestWithReplay over coreReplayStore.consume and purgeExpired).
OnceUnlessLate ==
    \A c, d \in Call :
        /\ c # d /\ Authorised(c) /\ Authorised(d)
        /\ input[c].request = input[d].request
        => \E late \in {c, d} :
             LET expiry == Signed[input[late].request].expiresAt
             IN  checkedAt[late] < expiry /\ expiry < insertedAt[late]

\* What RFC 0001 section 5 promises without that exception: no two calls both
\* authorise a side effect of one request.  It fails when a call stalls in
\* coreReplayStore.consume between its clock and its transaction.
AtMostOnce ==
    \A c, d \in Call :
        c # d /\ Authorised(c) /\ Authorised(d) => input[c].request # input[d].request

\* A row in the replay table was put there by exactly one call, whose evidence
\* had passed every other stage, and whose answer, unless it died first, is or
\* will be VALID: a key is never burnt by a call that rejects the request.
BurnedKeyAccounted ==
    \A row \in replay :
        \E c \in Call :
            /\ Consumed(c)
            /\ Row(input[c].request) = row
            /\ VerdictOf(c, FALSE) = [code |-> "VALID", replayChecked |-> TRUE]
            /\ pc[c] \in {"answered", "crashed"} \/ Authorised(c)
            /\ \A d \in Call \ {c} : Consumed(d) /\ Clashing(c, d) =>
                 Signed[input[d].request].expiresAt < insertedAt[c]

\* REPLAY_DETECTED always has a cause: no replay store, a request past its
\* expires_at, or another call that consumed one of the request's keys.  With
\* OnceUnlessLate: of the concurrent presenters of a fresh request exactly one
\* wins.
RejectionJustified ==
    \A c \in Call :
        pc[c] = "done" /\ result[c].code = "REPLAY_DETECTED" =>
            \/ ~input[c].mode.hasStore
            \/ Signed[input[c].request].expiresAt <= checkedAt[c]
            \/ \E d \in Call \ {c} : Consumed(d) /\ Clashing(c, d)

\* A call never answers VALID when a revocation that was published before the
\* call began, and was effective by then, targets an artifact of the request's
\* chain.  (One published while the call runs may be missed.)
RevocationRespected ==
    \A c \in Call :
        pc[c] = "done" /\ result[c].code = "VALID" =>
            \A v \in known[c] :
                v.effectiveAt <= input[c].now => v.target \notin gathered[c]

\* Every call is answered unless its process dies: the walk over parent_ref
\* ends, whatever the repository holds.
Terminates == \A c \in Call : pc[c] = "assembling" ~> pc[c] \in {"done", "crashed"}

\* The calls, the table and the purge together keep the promise of ReplayGate.
Gate == INSTANCE ReplayGate WITH
    ExpiresAt <- [r \in Request |-> Signed[r].expiresAt],
    Clash <- {rs \in Request \X Request : SameKey(ReplayKey[rs[1]], ReplayKey[rs[2]])},
    Spender <- Call,
    now <- clock,
    spent <- {<<c, input[c].request>> : c \in {d \in Call : Consumed(d)}}

ImplementsGate == Gate!Spec
=============================================================================
