--------------------------- MODULE ArtifactTables ---------------------------
(***************************************************************************)
(* The evidence tables of SqliteStorage: signed_artifacts, provenance_     *)
(* edges, revocations and verification_events, and the transactions on     *)
(* them.  Ids are digests of content, but the signature is no part of the  *)
(* digest, so two artifacts may have one id.                               *)
(***************************************************************************)
EXTENDS Naturals, FiniteSets

CONSTANTS
    Artifact,  \* signed artifacts anybody may store
    Event,     \* ids of verification events
    None       \* no row

Kinds == {"delegation", "request", "provenance", "key_status", "revocation", "key_rotation"}

Id == {a.id : a \in Artifact}

\* An artifact points at others by reference (authority, request, predecessor)
\* if it is a provenance statement, and at a target if it is a revocation.
ASSUME ArtifactAssumption ==
    /\ IsFiniteSet(Artifact)
    /\ None \notin Artifact
    /\ \A a \in Artifact :
          /\ DOMAIN a = {"id", "kind", "sig", "refs", "target", "effective"}
          /\ a.kind \in Kinds
          /\ a.kind = "revocation" => a.effective \in Nat
          /\ IsFiniteSet(a.refs)
          /\ \A r \in a.refs : DOMAIN r = {"to", "relation"}

VARIABLES
    rows,         \* signed_artifacts: the artifact stored under each id
    edges,        \* provenance_edges
    revocations,  \* revocations: the revocation stored under each id
    events        \* verification_events

tables == <<rows, edges, revocations, events>>

EmptyTables ==
    /\ rows = [i \in Id |-> None]
    /\ edges = {}
    /\ revocations = [i \in Id |-> None]
    /\ events = {}

Stored == {i \in Id : rows[i] # None}

OfStoredKind(kind) == {i \in Stored : rows[i].kind = kind}

EdgeOf(a, r) == [from |-> a.id, to |-> r.to, relation |-> r.relation]

\* provenanceEdges
EdgesOf(a) == IF a.kind = "provenance" THEN {EdgeOf(a, r) : r \in a.refs} ELSE {}

-----------------------------------------------------------------------------
(* putArtifact: one transaction that commits, or throws and leaves no trace *)

\* Mutant of Conflicts: the content of a known id is not compared.
ConflictsByKind(a) == rows[a.id] # None /\ rows[a.id].kind # a.kind

Conflicts(a) == rows[a.id] # None /\ rows[a.id] # a

Insert(a) ==
    /\ rows' = [rows EXCEPT ![a.id] = a]
    /\ edges' = edges \cup EdgesOf(a)

PutArtifact(a) ==
    /\ ~Conflicts(a)
    /\ IF rows[a.id] # None THEN UNCHANGED <<rows, edges>> ELSE Insert(a)
    /\ UNCHANGED <<revocations, events>>

-----------------------------------------------------------------------------
(* revokeArtifact *)

Revocable(a) == rows[a.id] # None /\ rows[a.id].kind = "revocation"

\* ON CONFLICT(id) DO NOTHING
RevokeArtifact(a) ==
    /\ Revocable(a)
    /\ revocations' = [revocations EXCEPT ![a.id] = IF @ = None THEN a ELSE @]
    /\ UNCHANGED <<rows, edges, events>>

\* Mutant of InForce: from the instant after.
InForceLate(a, time) == a # None /\ a.effective < time

InForce(a, time) == a # None /\ a.effective <= time

IsRevoked(id, time) ==
    \E i \in Id : InForce(revocations[i], time) /\ revocations[i].target = id

\* listRevocations
RevocationsOf(id) == {revocations[i] : i \in {j \in Id : revocations[j] # None
                                                      /\ revocations[j].target = id}}

-----------------------------------------------------------------------------
(* recordVerificationEvent: a plain INSERT, the id is the caller's *)

RecordEvent(e) ==
    /\ e \notin events
    /\ events' = events \cup {e}
    /\ UNCHANGED <<rows, edges, revocations>>

-----------------------------------------------------------------------------
(* #reachableArtifacts: the closure of the edges from a root, of which the  *)
(* stored artifacts are listed                                             *)

Successors(ids) == {e.to : e \in {f \in edges : f.from \in ids}}

Closure(root) ==
    LET grown[n \in 0 .. Cardinality(edges)] ==
          IF n = 0 THEN {root}
          ELSE LET known == grown[n - 1] IN known \cup Successors(known)
    IN  grown[Cardinality(edges)]

\* Mutant of Reachable: ids that were only mentioned count.
ReachableIds(root) == Closure(root)

Reachable(root) == Closure(root) \cap Stored
=============================================================================
