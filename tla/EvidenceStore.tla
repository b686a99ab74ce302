---------------------------- MODULE EvidenceStore ----------------------------
(***************************************************************************)
(* Processes that share the evidence tables of one database.               *)
(*                                                                         *)
(* Writers store artifacts: one transaction for most, two for a            *)
(* revocation, its artifact and then its entry in revocations.  Between    *)
(* the two the writer may die, or another process may hold the write lock  *)
(* and SQLite refuses (no busy timeout is set).  A reader assembles a      *)
(* provenance graph statement by statement, outside a transaction.  A      *)
(* client walks a collection page by page while rows are added.            *)
(***************************************************************************)
EXTENDS ArtifactTables, Integers

CONSTANTS
    Writer,      \* processes that store evidence
    Credential,  \* ids of identity credentials
    CodeUnit,    \* ids in the order of < and of ORDER BY id
    Locale,      \* ids in the order of localeCompare
    Walked,      \* the collections a client walks
    Limit,       \* page sizes it asks for
    MaxNow       \* bound: the last instant

Collections == {"delegations", "events", "credentials"}

Item == Id \cup Event \cup Credential

Injective(rank) == \A i, j \in Item : rank[i] = rank[j] => i = j

ASSUME StoreAssumption ==
    /\ None \notin Item
    /\ IsFiniteSet(Event) /\ IsFiniteSet(Credential)
    /\ CodeUnit \in [Item -> Nat] /\ Injective(CodeUnit)
    /\ Locale \in [Item -> Nat] /\ Injective(Locale)
    /\ Walked \subseteq Collections
    /\ Limit \subseteq 1 .. 100
    /\ MaxNow \in Nat

VARIABLES
    now,
    credentials,  \* ids in table identity_credentials
    at,           \* where each writer stands
    held,         \* the artifact it is storing
    acknowledged, \* revocations whose createRevocation has returned
    graph,        \* the provenance graph in the making, or the last one made
    walk          \* the walk in progress, or the last one

vars == <<tables, now, credentials, at, held, acknowledged, graph, walk>>

-----------------------------------------------------------------------------
NoGraph == [phase |-> "none", root |-> None, nodes |-> {}, unread |-> {},
            invalid |-> {}, edges |-> {}, due |-> {}]

NoWalk == [phase |-> "none", over |-> None, limit |-> 1, cursor |-> None,
           due |-> {}, got |-> {}, twice |-> {}]

Init ==
    /\ EmptyTables
    /\ now = 0
    /\ credentials = {}
    /\ at = [w \in Writer |-> "idle"]
    /\ held = [w \in Writer |-> None]
    /\ acknowledged = {}
    /\ graph = NoGraph
    /\ walk = NoWalk

Tick ==
    /\ now < MaxNow
    /\ now' = now + 1
    /\ UNCHANGED <<tables, credentials, at, held, acknowledged, graph, walk>>

-----------------------------------------------------------------------------
(* Writers *)

readers == <<now, credentials, graph, walk>>

Goes(w, label, a) ==
    /\ at' = [at EXCEPT ![w] = label]
    /\ held' = [held EXCEPT ![w] = a]

\* createDelegation, and saveArtifact of the command line: the artifact alone.
StoreArtifact(w) ==
    /\ at[w] # "revoking"
    /\ \E a \in Artifact : a.kind # "revocation" /\ PutArtifact(a)
    /\ Goes(w, "done", None)
    /\ UNCHANGED <<readers, acknowledged>>

\* Mutant of BeginRevocation: a known artifact is answered for at once.
BeginNewRevocation(w) ==
    /\ at[w] # "revoking"
    /\ \E a \in Artifact :
          /\ a.kind = "revocation"
          /\ PutArtifact(a)
          /\ IF rows[a.id] = a
             THEN Goes(w, "done", None) /\ acknowledged' = acknowledged \cup {a}
             ELSE Goes(w, "revoking", a) /\ UNCHANGED acknowledged
    /\ UNCHANGED readers

\* createRevocation: the artifact is stored, or was,
BeginRevocation(w) ==
    /\ at[w] # "revoking"
    /\ \E a \in Artifact :
          /\ a.kind = "revocation"
          /\ PutArtifact(a)
          /\ Goes(w, "revoking", a)
    /\ UNCHANGED <<readers, acknowledged>>

\* then it takes effect, and the call returns.
FinishRevocation(w) ==
    /\ at[w] = "revoking"
    /\ RevokeArtifact(held[w])
    /\ acknowledged' = acknowledged \cup {held[w]}
    /\ Goes(w, "done", None)
    /\ UNCHANGED readers

\* A conflict, or a locked database, before the first or the second.
Refuse(w) ==
    /\ at[w] # "refused"
    /\ Goes(w, "refused", None)
    /\ UNCHANGED <<tables, readers, acknowledged>>

CrashWriter(w) ==
    /\ at[w] = "revoking"
    /\ Goes(w, "idle", None)
    /\ UNCHANGED <<tables, readers, acknowledged>>

Record ==
    /\ \E e \in Event : RecordEvent(e)
    /\ UNCHANGED <<readers, at, held, acknowledged>>

AdmitCredential ==
    /\ \E c \in Credential \ credentials : credentials' = credentials \cup {c}
    /\ UNCHANGED <<tables, now, at, held, acknowledged, graph, walk>>

-----------------------------------------------------------------------------
(* provenanceGraph(rootId) *)

writers == <<tables, now, credentials, at, held, acknowledged>>

\* Delegations with an acknowledged revocation in force.
Due == {a.target : a \in {r \in acknowledged : r.effective <= now}}

ListNodes ==
    /\ graph.phase \in {"none", "made"}
    /\ \E root \in Id :
          graph' = [NoGraph EXCEPT !.phase = "flagging", !.root = root,
                      !.nodes = Reachable(root), !.unread = Reachable(root), !.due = Due]
    /\ UNCHANGED <<writers, walk>>

\* One statement for each delegation: is it revoked by now?
FlagNode ==
    /\ graph.phase = "flagging"
    /\ \E n \in graph.unread :
          graph' = [graph EXCEPT !.unread = @ \ {n},
                      !.invalid = IF rows[n].kind = "delegation" /\ IsRevoked(n, now)
                                  THEN @ \cup {n} ELSE @]
    /\ UNCHANGED <<writers, walk>>

\* Mutant of EdgesWithin: only the tail of an edge is looked up.
EdgesFrom(nodes) == {e \in edges : e.from \in nodes}

EdgesWithin(nodes) == {e \in edges : e.from \in nodes /\ e.to \in nodes}

ListEdges ==
    /\ graph.phase = "flagging"
    /\ graph.unread = {}
    /\ graph' = [graph EXCEPT !.phase = "made", !.edges = EdgesWithin(graph.nodes)]
    /\ UNCHANGED <<writers, walk>>

-----------------------------------------------------------------------------
(* Pages: listDelegations, listEvents and listAgents *)

Items(collection) ==
    CASE collection = "delegations" -> OfStoredKind("delegation")
      [] collection = "events" -> events
      [] collection = "credentials" -> credentials

\* Delegations are sorted by localeCompare, the others by id; events downwards.
PageRank(collection, i) ==
    CASE collection = "delegations" -> Locale[i]
      [] collection = "events" -> - CodeUnit[i]
      [] collection = "credentials" -> CodeUnit[i]

CursorRank(collection, i) ==
    IF collection = "events" THEN - CodeUnit[i] ELSE CodeUnit[i]

\* What is left after a cursor.
Rest(collection, cursor) ==
    {i \in Items(collection) :
        cursor = None \/ CursorRank(collection, cursor) < CursorRank(collection, i)}

Ahead(collection, rest, i) ==
    {j \in rest : PageRank(collection, j) < PageRank(collection, i)}

\* The first limit of them in the order of the page, and the last of those.
Page(collection, rest, limit) ==
    {i \in rest : Cardinality(Ahead(collection, rest, i)) < limit}

LastOf(collection, page) ==
    CHOOSE i \in page : \A j \in page : PageRank(collection, j) <= PageRank(collection, i)

\* Mutant of NextCursor: the item that did not fit.
NextCursorAfter(collection, rest, page) ==
    IF rest = page THEN None
    ELSE CHOOSE i \in rest \ page :
            \A j \in rest \ page : PageRank(collection, i) <= PageRank(collection, j)

NextCursor(collection, rest, page) ==
    IF rest = page THEN None ELSE LastOf(collection, page)

BeginWalk ==
    /\ walk.phase \in {"none", "ended"}
    /\ \E c \in Walked, l \in Limit :
          walk' = [NoWalk EXCEPT !.phase = "walking", !.over = c, !.limit = l,
                                 !.due = Items(c)]
    /\ UNCHANGED <<writers, graph>>

FetchPage ==
    /\ walk.phase = "walking"
    /\ LET rest == Rest(walk.over, walk.cursor)
           page == Page(walk.over, rest, walk.limit)
           next == NextCursor(walk.over, rest, page)
       IN  walk' = [walk EXCEPT !.phase = IF next = None THEN "ended" ELSE @,
                                !.cursor = next,
                                !.got = @ \cup page,
                                !.twice = @ \cup (walk.got \cap page)]
    /\ UNCHANGED <<writers, graph>>

-----------------------------------------------------------------------------
Next ==
    \/ Tick
    \/ \E w \in Writer :
          \/ StoreArtifact(w)
          \/ BeginRevocation(w)
          \/ FinishRevocation(w)
          \/ Refuse(w)
          \/ CrashWriter(w)
    \/ Record
    \/ AdmitCredential
    \/ ListNodes
    \/ FlagNode
    \/ ListEdges
    \/ BeginWalk
    \/ FetchPage

Spec == Init /\ [][Next]_vars

-----------------------------------------------------------------------------
(* Properties *)

Rows == [Id -> Artifact \cup {None}]

Edge == UNION {EdgesOf(a) : a \in Artifact}

\* The shape of every variable.
TypeOK ==
    /\ rows \in Rows
    /\ edges \subseteq Edge
    /\ revocations \in Rows
    /\ events \subseteq Event
    /\ now \in Nat
    /\ credentials \subseteq Credential
    /\ at \in [Writer -> {"idle", "revoking", "done", "refused"}]
    /\ held \in [Writer -> Artifact \cup {None}]
    /\ acknowledged \subseteq Artifact
    /\ DOMAIN graph = DOMAIN NoGraph
    /\ graph.phase \in {"none", "flagging", "made"}
    /\ graph.nodes \subseteq Id /\ graph.invalid \subseteq graph.nodes
    /\ graph.edges \subseteq Edge
    /\ DOMAIN walk = DOMAIN NoWalk
    /\ walk.phase \in {"none", "walking", "ended"}
    /\ walk.got \subseteq Item

\* A revocation whose createRevocation returned is stored and in the table
\* that decides what is revoked, for good, even where an earlier attempt was
\* cut off between its two transactions (SqliteEvidenceApi.createRevocation).
AcknowledgedHolds ==
    \A a \in acknowledged : rows[a.id] = a /\ revocations[a.id] = a

\* What a revocation takes effect with is what was signed and stored under
\* its id, whoever else stores under the same id between the two transactions.
RevocationIsStored ==
    \A i \in Id : revocations[i] # None => revocations[i] = rows[i]

\* A graph from a root, read in several statements while others write, hangs
\* together: its edges have both ends in it and lead to all of its nodes
\* (provenanceGraph, #reachableArtifacts).
GraphIsWhole ==
    graph.phase = "made" =>
        /\ \A e \in graph.edges : e.from \in graph.nodes /\ e.to \in graph.nodes
        /\ \A n \in graph.nodes \ {graph.root} : \E e \in graph.edges : e.to = n

\* A graph shows no delegation as valid whose revocation was acknowledged and
\* in force before the graph was begun, and none as revoked that nobody revoked.
GraphIsCurrent ==
    graph.phase = "made" =>
        /\ \A n \in graph.nodes : n \in graph.due /\ rows[n].kind = "delegation"
                                    => n \in graph.invalid
        /\ \A n \in graph.invalid : IsRevoked(n, now)

\* A client that follows the cursors to the end gets every item that was there
\* when it began, and no item twice, whatever is added on the way (listEvents,
\* listVerificationEvents, listAgents).
WalkedOnce ==
    /\ walk.phase = "ended" => walk.due \subseteq walk.got
    /\ walk.twice = {}
=============================================================================
