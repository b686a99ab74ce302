------------------------ MODULE EvidenceStore_proofs ------------------------
(***************************************************************************)
(* Proofs about EvidenceStore, for any artifacts, writers and orders.      *)
(***************************************************************************)
EXTENDS EvidenceStore, FiniteSetTheorems, WellFoundedInduction, TLAPS

-----------------------------------------------------------------------------
(* Types *)

\* A writer between two transactions holds an artifact, the graph in the making
\* looks only at nodes it has, and a walk is over one of the collections.
InRange ==
    /\ \A w \in Writer : at[w] = "revoking" => held[w] \in Artifact
    /\ graph.unread \subseteq graph.nodes
    /\ walk.phase = "walking" => walk.over \in Collections

TInv == TypeOK /\ InRange

LEMMA PutTypes ==
    ASSUME NEW a \in Artifact, rows \in Rows, edges \subseteq Edge, PutArtifact(a)
    PROVE  rows' \in Rows /\ edges' \subseteq Edge
<1>1. a.id \in Id /\ EdgesOf(a) \subseteq Edge
  BY DEF Id, Edge
<1>. QED
  BY <1>1 DEF PutArtifact, Insert, Rows

LEMMA ReachableStored ==
    ASSUME NEW root \in Id
    PROVE  Reachable(root) \subseteq Stored
BY DEF Reachable

LEMMA ItemsAreItems ==
    ASSUME TypeOK, NEW c \in Collections
    PROVE  Items(c) \subseteq Item
BY DEF TypeOK, Items, Collections, Item, OfStoredKind, Stored

LEMMA StepTInv ==
    ASSUME TInv, [Next]_vars
    PROVE  TInv'
<1>. USE ArtifactAssumption, StoreAssumption DEF TInv, TypeOK, InRange
<1>1. CASE UNCHANGED vars
  BY <1>1 DEF vars, tables
<1>2. CASE Tick
  BY <1>2 DEF Tick, tables
<1>3. ASSUME NEW w \in Writer, StoreArtifact(w)
      PROVE  TInv'
  <2>1. PICK a \in Artifact : PutArtifact(a)
    BY <1>3 DEF StoreArtifact
  <2>2. rows' \in Rows /\ edges' \subseteq Edge
    BY <2>1, PutTypes
  <2>. QED
    BY <1>3, <2>1, <2>2 DEF StoreArtifact, PutArtifact, Goes, readers
<1>4. ASSUME NEW w \in Writer, BeginRevocation(w)
      PROVE  TInv'
  <2>1. PICK a \in Artifact : PutArtifact(a) /\ Goes(w, "revoking", a)
    BY <1>4 DEF BeginRevocation
  <2>2. rows' \in Rows /\ edges' \subseteq Edge
    BY <2>1, PutTypes
  <2>. QED
    BY <1>4, <2>1, <2>2 DEF BeginRevocation, PutArtifact, Goes, readers
<1>5. ASSUME NEW w \in Writer, FinishRevocation(w)
      PROVE  TInv'
  <2>1. held[w] \in Artifact /\ held[w].id \in Id
    BY <1>5 DEF FinishRevocation, Id
  <2>2. revocations' \in Rows
    BY <1>5, <2>1 DEF FinishRevocation, RevokeArtifact, Rows
  <2>. QED
    BY <1>5, <2>1, <2>2 DEF FinishRevocation, RevokeArtifact, Goes, readers
<1>6. ASSUME NEW w \in Writer, Refuse(w) \/ CrashWriter(w)
      PROVE  TInv'
  BY <1>6 DEF Refuse, CrashWriter, Goes, readers, tables
<1>7. CASE Record
  BY <1>7 DEF Record, RecordEvent, readers
<1>8. CASE AdmitCredential
  BY <1>8 DEF AdmitCredential, tables
<1>9. CASE ListNodes
  <2>1. PICK root \in Id :
          graph' = [NoGraph EXCEPT !.phase = "flagging", !.root = root,
                      !.nodes = Reachable(root), !.unread = Reachable(root), !.due = Due]
    BY <1>9 DEF ListNodes
  <2>2. Reachable(root) \subseteq Id
    BY ReachableStored DEF Stored
  <2>. QED
    BY <1>9, <2>1, <2>2 DEF ListNodes, NoGraph, writers, tables
<1>10. CASE FlagNode
  BY <1>10 DEF FlagNode, NoGraph, writers, tables
<1>11. CASE ListEdges
  BY <1>11 DEF ListEdges, EdgesWithin, NoGraph, writers, tables
<1>12. CASE BeginWalk
  BY <1>12 DEF BeginWalk, NoWalk, writers, tables
<1>13. CASE FetchPage
  <2>. DEFINE rest == Rest(walk.over, walk.cursor)
              page == Page(walk.over, rest, walk.limit)
              next == NextCursor(walk.over, rest, page)
  <2>1. page \subseteq Item
    <3>1. page \subseteq Items(walk.over)
      BY DEF Page, Rest
    <3>. QED
      BY <1>13, <3>1, ItemsAreItems DEF FetchPage
  <2>2. walk' = [walk EXCEPT !.phase = IF next = None THEN "ended" ELSE @,
                             !.cursor = next, !.got = @ \cup page,
                             !.twice = @ \cup (walk.got \cap page)]
    BY <1>13 DEF FetchPage
  <2>. HIDE DEF next, page
  <2>3. /\ DOMAIN walk' = DOMAIN NoWalk /\ walk'.got \subseteq Item
        /\ walk'.phase \in {"walking", "ended"} /\ walk'.over = walk.over
    <3>1. DOMAIN walk = {"phase", "over", "limit", "cursor", "due", "got", "twice"}
      BY DEF NoWalk
    <3>2. DOMAIN walk' = DOMAIN walk
      BY <2>2
    <3>3. walk'.got = walk.got \cup page /\ walk'.over = walk.over
      BY <2>2, <3>1
    <3>4. walk'.phase = IF next = None THEN "ended" ELSE walk.phase
      BY <2>2, <3>1
    <3>. QED
      BY <1>13, <2>1, <3>2, <3>3, <3>4 DEF FetchPage
  <2>. QED
    BY <1>13, <2>3 DEF FetchPage, writers, tables
<1>. QED
  BY <1>1, <1>2, <1>3, <1>4, <1>5, <1>6, <1>7, <1>8, <1>9, <1>10, <1>11, <1>12, <1>13 DEF Next

LEMMA TypeInvariance == Spec => []TInv
<1>1. Init => TInv
  BY StoreAssumption DEF Init, TInv, TypeOK, InRange, EmptyTables, Rows, NoGraph, NoWalk
<1>. QED
  BY <1>1, StepTInv, PTL DEF Spec

\* The shape of every variable, in every reachable state.
THEOREM TypeCorrect == Spec => []TypeOK
BY TypeInvariance, PTL DEF TInv

-----------------------------------------------------------------------------
(* Revocations that were acknowledged *)

Keyed == \A i \in Id : rows[i] # None => rows[i].id = i

RevocationRows ==
    \A i \in Id : revocations[i] # None =>
        revocations[i] = rows[i] /\ rows[i].kind = "revocation"

\* Between its two transactions a writer's revocation is stored.
HeldStored ==
    \A w \in Writer : at[w] = "revoking" =>
        held[w].kind = "revocation" /\ rows[held[w].id] = held[w]

RInv == Keyed /\ RevocationRows /\ HeldStored /\ AcknowledgedHolds

\* Nothing that is stored is ever changed, nor does time go back.
Grows ==
    /\ \A i \in Id : rows[i] # None => rows'[i] = rows[i]
    /\ \A i \in Id : revocations[i] # None => revocations'[i] = revocations[i]
    /\ now <= now'

LEMMA PutKeeps ==
    ASSUME TypeOK, Keyed, NEW a \in Artifact, PutArtifact(a)
    PROVE  /\ \A i \in Id : rows[i] # None => rows'[i] = rows[i]
           /\ rows'[a.id] = a
           /\ Keyed'
           /\ revocations' = revocations
<1>1. a.id \in Id /\ a # None /\ rows \in Rows
  BY ArtifactAssumption DEF Id, TypeOK
<1>2. CASE rows[a.id] # None
  BY <1>1, <1>2 DEF PutArtifact, Conflicts, Keyed
<1>3. CASE rows[a.id] = None
  <2>1. rows' = [rows EXCEPT ![a.id] = a] /\ revocations' = revocations
    BY <1>1, <1>3 DEF PutArtifact, Insert
  <2>. QED
    BY <1>1, <1>3, <2>1 DEF Rows, Keyed
<1>. QED
  BY <1>2, <1>3

LEMMA RevokeKeeps ==
    ASSUME TypeOK, NEW a \in Artifact, RevokeArtifact(a)
    PROVE  /\ \A i \in Id : revocations[i] # None => revocations'[i] = revocations[i]
           /\ \A i \in Id \ {a.id} : revocations'[i] = revocations[i]
           /\ revocations[a.id] = None => revocations'[a.id] = a
           /\ rows' = rows
<1>1. a.id \in Id /\ revocations \in Rows
  BY DEF Id, TypeOK
<1>. QED
  BY <1>1 DEF RevokeArtifact, Rows

LEMMA StepGrows ==
    ASSUME TInv, RInv, [Next]_vars
    PROVE  Grows
<1>1. now \in Nat
  BY DEF TInv, TypeOK
<1>2. CASE UNCHANGED vars
  BY <1>1, <1>2 DEF vars, tables, Grows
<1>3. CASE Tick
  BY <1>1, <1>3 DEF Tick, tables, Grows
<1>4. ASSUME NEW w \in Writer, StoreArtifact(w) \/ BeginRevocation(w)
      PROVE  Grows
  <2>1. PICK a \in Artifact : PutArtifact(a)
    BY <1>4 DEF StoreArtifact, BeginRevocation
  <2>2. now' = now
    BY <1>4 DEF StoreArtifact, BeginRevocation, readers
  <2>. QED
    BY <1>1, <2>1, <2>2, PutKeeps DEF Grows, TInv, RInv
<1>5. ASSUME NEW w \in Writer, FinishRevocation(w)
      PROVE  Grows
  <2>1. held[w] \in Artifact /\ RevokeArtifact(held[w]) /\ now' = now
    BY <1>5 DEF FinishRevocation, TInv, InRange, readers
  <2>. QED
    BY <1>1, <2>1, RevokeKeeps DEF Grows, TInv
<1>6. ASSUME NEW w \in Writer, Refuse(w) \/ CrashWriter(w)
      PROVE  Grows
  BY <1>1, <1>6 DEF Refuse, CrashWriter, tables, readers, Grows
<1>7. CASE Record
  BY <1>1, <1>7 DEF Record, RecordEvent, readers, Grows
<1>8. CASE AdmitCredential
  BY <1>1, <1>8 DEF AdmitCredential, tables, Grows
<1>9. CASE ListNodes \/ FlagNode \/ ListEdges \/ BeginWalk \/ FetchPage
  <2>1. UNCHANGED writers
    BY <1>9 DEF ListNodes, FlagNode, ListEdges, BeginWalk, FetchPage
  <2>. QED
    BY <1>1, <2>1 DEF writers, tables, Grows
<1>10. ASSUME NEW w \in Writer,
              \/ StoreArtifact(w) \/ BeginRevocation(w) \/ FinishRevocation(w)
              \/ Refuse(w) \/ CrashWriter(w)
       PROVE  Grows
  BY <1>4, <1>5, <1>6, <1>10
<1>. QED
  BY <1>2, <1>3, <1>7, <1>8, <1>9, <1>10 DEF Next

LEMMA StepRInv ==
    ASSUME TInv, RInv, [Next]_vars
    PROVE  RInv'
<1>. DEFINE Same == /\ rows' = rows /\ revocations' = revocations
                    /\ acknowledged' = acknowledged
<1>0. \A a \in Artifact : a.id \in Id /\ a # None
  BY ArtifactAssumption DEF Id
<1>. USE DEF TInv, TypeOK, InRange
<1>1. ASSUME Same, at' = at, held' = held
      PROVE  RInv'
  BY <1>1 DEF RInv, Keyed, RevocationRows, HeldStored, AcknowledgedHolds
<1>2. CASE UNCHANGED vars \/ Tick \/ AdmitCredential
  BY <1>1, <1>2 DEF vars, Tick, AdmitCredential, tables
<1>3. CASE Record
  BY <1>1, <1>3 DEF Record, RecordEvent
<1>4. CASE ListNodes \/ FlagNode \/ ListEdges \/ BeginWalk \/ FetchPage
  <2>1. UNCHANGED writers
    BY <1>4 DEF ListNodes, FlagNode, ListEdges, BeginWalk, FetchPage
  <2>. QED
    BY <1>1, <2>1 DEF writers, tables
<1>5. ASSUME NEW w \in Writer, Refuse(w) \/ CrashWriter(w)
      PROVE  RInv'
  <2>1. Same /\ \A v \in Writer : at'[v] = "revoking" => at[v] = "revoking" /\ held'[v] = held[v]
    BY <1>5 DEF Refuse, CrashWriter, Goes, tables
  <2>. QED
    BY <2>1 DEF RInv, Keyed, RevocationRows, HeldStored, AcknowledgedHolds
<1>6. ASSUME NEW w \in Writer, NEW a \in Artifact, PutArtifact(a), UNCHANGED acknowledged,
             \/ Goes(w, "done", None)
             \/ a.kind = "revocation" /\ Goes(w, "revoking", a)
      PROVE  RInv'
  <2>1. /\ \A i \in Id : rows[i] # None => rows'[i] = rows[i]
        /\ rows'[a.id] = a /\ Keyed' /\ revocations' = revocations
    BY <1>6, PutKeeps DEF RInv
  <2>2. RevocationRows'
    BY <2>1 DEF RInv, RevocationRows
  <2>3. AcknowledgedHolds'
    BY <1>0, <1>6, <2>1 DEF RInv, AcknowledgedHolds
  <2>4. HeldStored'
    <3>. SUFFICES ASSUME NEW v \in Writer, at'[v] = "revoking"
                  PROVE  held'[v].kind = "revocation" /\ rows'[held'[v].id] = held'[v]
      BY DEF HeldStored
    <3>1. CASE v = w
      BY <1>6, <2>1, <3>1 DEF Goes
    <3>2. CASE v # w
      <4>1. at[v] = "revoking" /\ held'[v] = held[v]
        BY <1>6, <3>2 DEF Goes
      <4>2. held[v] \in Artifact /\ rows[held[v].id] = held[v] /\ held[v].kind = "revocation"
        BY <4>1 DEF RInv, HeldStored
      <4>. QED
        BY <1>0, <2>1, <4>1, <4>2
    <3>. QED
      BY <3>1, <3>2
  <2>. QED
    BY <2>1, <2>2, <2>3, <2>4 DEF RInv
<1>7. ASSUME NEW w \in Writer, StoreArtifact(w)
      PROVE  RInv'
  <2>1. PICK a \in Artifact : PutArtifact(a)
    BY <1>7 DEF StoreArtifact
  <2>. QED
    BY <1>6, <1>7, <2>1 DEF StoreArtifact
<1>8. ASSUME NEW w \in Writer, BeginRevocation(w)
      PROVE  RInv'
  <2>1. PICK a \in Artifact : a.kind = "revocation" /\ PutArtifact(a) /\ Goes(w, "revoking", a)
    BY <1>8 DEF BeginRevocation
  <2>. QED
    BY <1>6, <1>8, <2>1 DEF BeginRevocation
<1>9. ASSUME NEW w \in Writer, FinishRevocation(w)
      PROVE  RInv'
  <2>. DEFINE a == held[w]
  <2>1. /\ a \in Artifact /\ a.id \in Id /\ a # None
        /\ rows[a.id] = a /\ a.kind = "revocation" /\ RevokeArtifact(a)
    BY <1>0, <1>9 DEF FinishRevocation, RInv, HeldStored
  <2>2. /\ \A i \in Id : revocations[i] # None => revocations'[i] = revocations[i]
        /\ \A i \in Id \ {a.id} : revocations'[i] = revocations[i]
        /\ revocations[a.id] = None => revocations'[a.id] = a
        /\ rows' = rows
    BY <2>1, RevokeKeeps
  <2>3. revocations'[a.id] = a
    BY <2>1, <2>2 DEF RInv, RevocationRows
  <2>4. \A v \in Writer : at'[v] = "revoking" => at[v] = "revoking" /\ held'[v] = held[v]
    BY <1>9 DEF FinishRevocation, Goes
  <2>5. acknowledged' = acknowledged \cup {a}
    BY <1>9 DEF FinishRevocation
  <2>. HIDE DEF a
  <2>6. Keyed' /\ HeldStored'
    BY <2>2, <2>4 DEF RInv, Keyed, HeldStored
  <2>7. RevocationRows'
    BY <2>1, <2>2, <2>3 DEF RInv, RevocationRows
  <2>8. AcknowledgedHolds'
    BY <1>0, <2>1, <2>2, <2>3, <2>5 DEF RInv, AcknowledgedHolds
  <2>. QED
    BY <2>6, <2>7, <2>8 DEF RInv
<1>. QED
  BY <1>2, <1>3, <1>4, <1>5, <1>7, <1>8, <1>9 DEF Next

LEMMA RevocationInvariance == Spec => [](TInv /\ RInv)
<1>1. Init => RInv
  BY DEF Init, EmptyTables, RInv, Keyed, RevocationRows, HeldStored, AcknowledgedHolds
<1>. QED
  BY <1>1, TypeInvariance, StepRInv, PTL DEF Spec

\* A revocation that was answered for is stored and in force for good.
THEOREM AcknowledgedRevocationHolds == Spec => []AcknowledgedHolds
BY RevocationInvariance, PTL DEF RInv

\* What takes effect under an id is the artifact stored under it.
THEOREM RevocationIsAlwaysStored == Spec => []RevocationIsStored
<1>1. RInv => RevocationIsStored
  BY DEF RInv, RevocationRows, RevocationIsStored
<1>. QED
  BY <1>1, RevocationInvariance, PTL

-----------------------------------------------------------------------------
(* Graphs *)

\* A graph in the making: what was due is still revoked, the nodes already
\* looked at are flagged where they were due, and only revoked ones are.
GInv ==
    /\ \A n \in graph.due : IsRevoked(n, now)
    /\ \A n \in graph.invalid : IsRevoked(n, now)
    /\ graph.nodes \subseteq Stored
    /\ \A n \in graph.nodes \ graph.unread :
          n \in graph.due /\ rows[n].kind = "delegation" => n \in graph.invalid
    /\ graph.phase = "made" => graph.unread = {}

\* What is revoked stays revoked.
LEMMA RevokedStays ==
    ASSUME TInv, RInv, Grows, now' \in Nat, NEW n, IsRevoked(n, now)
    PROVE  IsRevoked(n, now)'
<1>1. PICK i \in Id : InForce(revocations[i], now) /\ revocations[i].target = n
  BY DEF IsRevoked
<1>2. revocations[i] \in Artifact /\ revocations[i].effective \in Nat
  BY <1>1, ArtifactAssumption DEF InForce, RInv, RevocationRows, TInv, TypeOK, Rows
<1>3. revocations'[i] = revocations[i] /\ now \in Nat /\ now <= now'
  BY <1>1 DEF InForce, Grows, TInv, TypeOK
<1>4. revocations[i].effective <= now'
  BY <1>1, <1>2, <1>3 DEF InForce
<1>. QED
  BY <1>1, <1>3, <1>4 DEF IsRevoked, InForce

\* What was acknowledged and is in force is revoked.
LEMMA DueIsRevoked ==
    ASSUME TInv, RInv
    PROVE  \A n \in Due : IsRevoked(n, now)
<1>. SUFFICES ASSUME NEW a \in acknowledged, a.effective <= now
              PROVE  IsRevoked(a.target, now)
  BY DEF Due
<1>1. a \in Artifact /\ a.id \in Id /\ a # None /\ revocations[a.id] = a
  BY ArtifactAssumption DEF TInv, TypeOK, Id, RInv, AcknowledgedHolds
<1>. QED
  BY <1>1 DEF IsRevoked, InForce

\* Steps that leave the graph alone.
LEMMA OthersKeepGInv ==
    ASSUME TInv, TInv', RInv, Grows, GInv, UNCHANGED graph
    PROVE  GInv'
<1>1. now' \in Nat /\ graph.nodes \subseteq Id /\ graph.invalid \subseteq graph.nodes
  BY DEF TInv, TypeOK
<1>2. (\A n \in graph.due : IsRevoked(n, now))'
  BY <1>1, RevokedStays DEF GInv
<1>3. (\A n \in graph.invalid : IsRevoked(n, now))'
  BY <1>1, RevokedStays DEF GInv
<1>4. \A n \in graph.nodes : rows'[n] = rows[n] /\ n \in Stored'
  BY <1>1 DEF GInv, Stored, Grows
<1>. QED
  BY <1>2, <1>3, <1>4 DEF GInv

LEMMA StepGInv ==
    ASSUME TInv, TInv', RInv, GInv, [Next]_vars
    PROVE  GInv'
<1>1. Grows
  BY StepGrows
<1>2. CASE UNCHANGED graph
  BY <1>1, <1>2, OthersKeepGInv
<1>3. CASE ListNodes
  <2>1. PICK root \in Id :
          graph' = [NoGraph EXCEPT !.phase = "flagging", !.root = root,
                      !.nodes = Reachable(root), !.unread = Reachable(root), !.due = Due]
    BY <1>3 DEF ListNodes
  <2>2. /\ graph'.due = Due /\ graph'.invalid = {} /\ graph'.phase = "flagging"
        /\ graph'.nodes = Reachable(root) /\ graph'.unread = Reachable(root)
    BY <2>1 DEF NoGraph
  <2>3. now' = now /\ rows' = rows /\ revocations' = revocations
    BY <1>3 DEF ListNodes, writers, tables
  <2>4. Reachable(root) \subseteq Stored
    BY ReachableStored
  <2>5. \A n \in Due : IsRevoked(n, now)'
    BY <2>3, DueIsRevoked DEF IsRevoked
  <2>. QED
    BY <2>2, <2>3, <2>4, <2>5 DEF GInv, Stored
<1>4. CASE FlagNode
  <2>1. PICK n \in graph.unread :
          graph' = [graph EXCEPT !.unread = @ \ {n},
                      !.invalid = IF rows[n].kind = "delegation" /\ IsRevoked(n, now)
                                  THEN @ \cup {n} ELSE @]
    BY <1>4 DEF FlagNode
  <2>2. DOMAIN graph = {"phase", "root", "nodes", "unread", "invalid", "edges", "due"}
    BY DEF TInv, TypeOK, NoGraph
  <2>3. /\ graph'.due = graph.due /\ graph'.nodes = graph.nodes /\ graph'.phase = graph.phase
        /\ graph'.unread = graph.unread \ {n}
    BY <2>1, <2>2
  <2>4. graph'.invalid = IF rows[n].kind = "delegation" /\ IsRevoked(n, now)
                         THEN graph.invalid \cup {n} ELSE graph.invalid
    BY <2>1, <2>2
  <2>5. now' = now /\ rows' = rows /\ revocations' = revocations /\ graph.phase = "flagging"
    BY <1>4 DEF FlagNode, writers, tables
  <2>6. \A m : IsRevoked(m, now)' <=> IsRevoked(m, now)
    BY <2>5 DEF IsRevoked
  <2>. QED
    BY <2>3, <2>4, <2>5, <2>6 DEF GInv, Stored
<1>5. CASE ListEdges
  <2>1. DOMAIN graph = {"phase", "root", "nodes", "unread", "invalid", "edges", "due"}
    BY DEF TInv, TypeOK, NoGraph
  <2>2. /\ graph'.due = graph.due /\ graph'.nodes = graph.nodes
        /\ graph'.unread = graph.unread /\ graph'.invalid = graph.invalid
        /\ graph.unread = {}
    BY <1>5, <2>1 DEF ListEdges
  <2>3. now' = now /\ rows' = rows /\ revocations' = revocations
    BY <1>5 DEF ListEdges, writers, tables
  <2>4. \A m : IsRevoked(m, now)' <=> IsRevoked(m, now)
    BY <2>3 DEF IsRevoked
  <2>. QED
    BY <2>2, <2>3, <2>4 DEF GInv, Stored
<1>6. ASSUME NEW w \in Writer,
             \/ StoreArtifact(w) \/ BeginRevocation(w) \/ FinishRevocation(w)
             \/ Refuse(w) \/ CrashWriter(w)
      PROVE  UNCHANGED graph
  BY <1>6 DEF StoreArtifact, BeginRevocation, FinishRevocation, Refuse, CrashWriter, readers
<1>7. ASSUME Tick \/ Record \/ AdmitCredential \/ BeginWalk \/ FetchPage \/ UNCHANGED vars
      PROVE  UNCHANGED graph
  BY <1>7 DEF Tick, Record, AdmitCredential, BeginWalk, FetchPage, vars, readers
<1>. QED
  BY <1>2, <1>3, <1>4, <1>5, <1>6, <1>7 DEF Next

\* A graph flags every delegation whose revocation was in force and answered
\* for when it was begun, and flags no other than revoked ones.
THEOREM GraphIsAlwaysCurrent == Spec => []GraphIsCurrent
<1>1. Init => GInv
  BY DEF Init, NoGraph, GInv
<1>2. TInv /\ GInv => GraphIsCurrent
  BY DEF GInv, GraphIsCurrent, TInv, TypeOK
<1>. QED
  BY <1>1, <1>2, TypeInvariance, RevocationInvariance, StepGInv, PTL DEF Spec
-----------------------------------------------------------------------------
(* Numbers *)

\* Every set of numbers has a least one: with it, induction over what a
\* recursive function computes is an argument by least counterexample.
LEMMA Least ==
    ASSUME NEW S, S \subseteq Nat, S # {}
    PROVE  \E i \in S : \A j \in S : i <= j
<1> DEFINE R == {ss \in Nat \X Nat : ss[1] < ss[2]}
<1>1. IsWellFoundedOn(R, Nat)
  BY NatLessThanWellFounded DEF OpToRel
<1> HIDE DEF R
<1>2. PICK i \in S : \A j \in S : ~(<<j, i>> \in R)
  BY <1>1, WFMin
<1>3. ASSUME NEW j \in S, j < i
      PROVE  FALSE
  <2>1. <<j, i>> \in Nat \X Nat /\ <<j, i>>[1] < <<j, i>>[2]
    BY <1>3
  <2>2. <<j, i>> \in R
    BY <2>1, Zenon DEF R
  <2>. QED
    BY <1>2, <2>2
<1>. QED
  BY <1>3, SMT


-----------------------------------------------------------------------------
(* The recursive query *)

\* One more statement of the recursive query.
Grow(ids) == ids \cup Successors(ids)

Grown(root, n, g) == g = [k \in 0..n |-> IF k = 0 THEN {root} ELSE Grow(g[k - 1])]

\* The recursion has a solution for any number of steps.
LEMMA GrownExists ==
    ASSUME NEW root, NEW n \in Nat
    PROVE  \E g : Grown(root, n, g)
<1>. DEFINE Bad == {k \in Nat : ~ \E g : Grown(root, k, g)}
<1>. SUFFICES ASSUME Bad # {} PROVE FALSE
  OBVIOUS
<1>1. PICK m \in Bad : \A k \in Bad : m <= k
  <2>1. Bad \subseteq Nat
    OBVIOUS
  <2>. HIDE DEF Bad
  <2>. QED
    BY <2>1, Least
<1>2. m # 0
  <2>1. Grown(root, 0, [k \in 0..0 |-> {root}])
    BY DEF Grown
  <2>. QED
    BY <2>1
<1>3. m - 1 \in Nat /\ m - 1 \notin Bad /\ m \in Nat
  BY <1>1, <1>2
<1>4. PICK g : Grown(root, m - 1, g)
  BY <1>3
<1>. DEFINE h == [k \in 0..m |-> IF k = m THEN Grow(g[m - 1]) ELSE g[k]]
<1>5. \A k \in 0..(m - 1) : h[k] = g[k]
  BY <1>3
<1>6. \A k \in 0..(m - 1) : g[k] = IF k = 0 THEN {root} ELSE Grow(g[k - 1])
  BY <1>3, <1>4 DEF Grown
<1>7. h[m] = Grow(g[m - 1]) /\ DOMAIN h = 0..m /\ h = [k \in 0..m |-> h[k]]
  BY <1>3
<1>. HIDE DEF h
<1>8. \A k \in 0..m : h[k] = IF k = 0 THEN {root} ELSE Grow(h[k - 1])
  <2>. SUFFICES ASSUME NEW k \in 0..m
                PROVE  h[k] = IF k = 0 THEN {root} ELSE Grow(h[k - 1])
    OBVIOUS
  <2>1. CASE k = m
    BY <1>2, <1>3, <1>5, <1>7, <2>1
  <2>2. CASE k # m
    <3>1. k \in 0..(m - 1) /\ (k # 0 => k - 1 \in 0..(m - 1))
      BY <1>3, <2>2
    <3>. QED
      BY <1>5, <1>6, <3>1
  <2>. QED
    BY <2>1, <2>2
<1>9. Grown(root, m, h)
  BY <1>7, <1>8, Zenon DEF Grown
<1>. QED
  BY <1>1, <1>9

LEMMA ClosureGrown ==
    ASSUME NEW root, Cardinality(edges) \in Nat
    PROVE  \E g : Grown(root, Cardinality(edges), g) /\ Closure(root) = g[Cardinality(edges)]
<1>. DEFINE g == CHOOSE f : Grown(root, Cardinality(edges), f)
<1>1. Grown(root, Cardinality(edges), g)
  BY GrownExists, Zenon
<1>2. Closure(root) = g[Cardinality(edges)]
  BY Zenon DEF Closure, Grown, Grow
<1>. QED
  BY <1>1, <1>2

\* A node that the query finds, other than its root, is the end of an edge from
\* another node that it finds.
LEMMA ReachedByEdges ==
    ASSUME NEW root, IsFiniteSet(edges), \A e \in edges : e.from \in Stored
    PROVE  \A n \in Reachable(root) \ {root} :
              \E e \in edges : e.to = n /\ e.from \in Reachable(root)
<1>. DEFINE N == Cardinality(edges)
<1>1. N \in Nat
  BY FS_CardinalityType
<1>2. PICK g : Grown(root, N, g) /\ Closure(root) = g[N]
  BY <1>1, ClosureGrown
<1>. HIDE DEF N
<1>3. \A k \in 0..N : g[k] = IF k = 0 THEN {root} ELSE Grow(g[k - 1])
  BY <1>1, <1>2 DEF Grown
<1>4. ASSUME NEW k \in 0..N
      PROVE  g[k] \subseteq g[N]
  <2>. DEFINE Bad == {m \in Nat : m >= k /\ m <= N /\ ~(g[k] \subseteq g[m])}
  <2>. SUFFICES ASSUME Bad # {} PROVE FALSE
    BY <1>1
  <2>1. PICK m \in Bad : \A j \in Bad : m <= j
    <3>1. Bad \subseteq Nat
      OBVIOUS
    <3>. HIDE DEF Bad
    <3>. QED
      BY <3>1, Least
  <2>2. m # k /\ m \in 0..N /\ m - 1 \in Nat /\ m # 0 /\ m - 1 >= k /\ m - 1 <= N
    BY <1>1, <2>1
  <2>3. g[k] \subseteq g[m - 1]
    BY <2>1, <2>2
  <2>4. g[m] = Grow(g[m - 1])
    BY <1>3, <2>2
  <2>. QED
    BY <2>1, <2>3, <2>4 DEF Grow
<1>5. ASSUME NEW n \in g[N], n # root
      PROVE  \E e \in edges : e.to = n /\ e.from \in g[N]
  <2>. DEFINE Has == {m \in Nat : m <= N /\ n \in g[m]}
  <2>1. PICK m \in Has : \A j \in Has : m <= j
    <3>1. Has \subseteq Nat /\ Has # {}
      BY <1>1, <1>5
    <3>. HIDE DEF Has
    <3>. QED
      BY <3>1, Least
  <2>2. m \in 0..N /\ m # 0
    BY <1>1, <1>3, <1>5, <2>1
  <2>3. m - 1 \in 0..N /\ m - 1 \in Nat /\ n \notin g[m - 1]
    BY <1>1, <2>1, <2>2
  <2>4. n \in Successors(g[m - 1])
    BY <1>3, <2>1, <2>2, <2>3 DEF Grow
  <2>5. PICK e \in edges : e.from \in g[m - 1] /\ e.to = n
    BY <2>4 DEF Successors
  <2>. QED
    BY <1>4, <2>3, <2>5
<1>6. Reachable(root) = g[N] \cap Stored
  BY <1>2 DEF Reachable
<1>. QED
  BY <1>5, <1>6

\* Every edge came with the statement it starts from, which is stored.
EdgesHaveTails ==
    /\ IsFiniteSet(edges)
    /\ \A e \in edges : e.from \in Stored

\* A graph in the making is already held together by the edges of its nodes.
WInv ==
    /\ EdgesHaveTails
    /\ graph.phase = "flagging" =>
          \A n \in graph.nodes \ {graph.root} :
             \E e \in edges : e.to = n /\ e.from \in graph.nodes
    /\ GraphIsWhole

LEMMA PutTails ==
    ASSUME TypeOK, Keyed, EdgesHaveTails, NEW a \in Artifact, PutArtifact(a)
    PROVE  EdgesHaveTails' /\ edges \subseteq edges'
<1>1. a.id \in Id /\ rows'[a.id] = a /\ a # None /\ IsFiniteSet(a.refs)
  BY PutKeeps, ArtifactAssumption DEF Id
<1>2. \A e \in EdgesOf(a) : e.from = a.id
  BY DEF EdgesOf, EdgeOf
<1>3. IsFiniteSet(EdgesOf(a))
  <2>. DEFINE all == {EdgeOf(a, r) : r \in a.refs}
              f == [r \in a.refs |-> EdgeOf(a, r)]
  <2>1. f \in Surjection(a.refs, all)
    <3>1. f \in [a.refs -> all] /\ \A e \in all : \E r \in a.refs : f[r] = e
      OBVIOUS
    <3>. QED
      BY <3>1, Zenon DEF Surjection
  <2>. HIDE DEF all, f
  <2>2. IsFiniteSet(all)
    BY <1>1, <2>1, FS_Surjection
  <2>. QED
    BY <2>2, FS_EmptySet DEF EdgesOf, all
<1>4. edges' = edges \/ edges' = edges \cup EdgesOf(a)
  BY DEF PutArtifact, Insert
<1>5. IsFiniteSet(edges')
  BY <1>3, <1>4, FS_Union DEF EdgesHaveTails
<1>6. \A e \in edges' : e.from \in Stored'
  <2>1. \A i \in Stored : i \in Stored'
    BY PutKeeps DEF Stored
  <2>2. a.id \in Stored'
    BY <1>1 DEF Stored
  <2>. QED
    BY <1>2, <1>4, <2>1, <2>2 DEF EdgesHaveTails
<1>. QED
  BY <1>4, <1>5, <1>6 DEF EdgesHaveTails

LEMMA StepWInv ==
    ASSUME TInv, RInv, WInv, [Next]_vars
    PROVE  WInv'
<1>0. TypeOK /\ Keyed /\ EdgesHaveTails
  BY DEF TInv, RInv, WInv
<1>1. ASSUME UNCHANGED graph, EdgesHaveTails', edges \subseteq edges'
      PROVE  WInv'
  BY <1>1 DEF WInv, GraphIsWhole
<1>2. ASSUME UNCHANGED <<rows, edges>>
      PROVE  EdgesHaveTails'
  BY <1>2 DEF WInv, EdgesHaveTails, Stored
<1>3. CASE Tick \/ Record \/ AdmitCredential \/ BeginWalk \/ FetchPage \/ UNCHANGED vars
  <2>1. UNCHANGED graph /\ UNCHANGED <<rows, edges>>
    BY <1>3 DEF Tick, Record, RecordEvent, AdmitCredential, BeginWalk, FetchPage, vars, readers,
                writers, tables
  <2>. QED
    BY <1>1, <1>2, <2>1
<1>4. ASSUME NEW w \in Writer,
             \/ StoreArtifact(w) \/ BeginRevocation(w) \/ FinishRevocation(w)
             \/ Refuse(w) \/ CrashWriter(w)
      PROVE  WInv'
  <2>1. UNCHANGED graph
    BY <1>4 DEF StoreArtifact, BeginRevocation, FinishRevocation, Refuse, CrashWriter, readers
  <2>2. CASE FinishRevocation(w) \/ Refuse(w) \/ CrashWriter(w)
    <3>1. UNCHANGED <<rows, edges>>
      BY <2>2 DEF FinishRevocation, RevokeArtifact, Refuse, CrashWriter, tables
    <3>. QED
      BY <1>1, <1>2, <2>1, <3>1
  <2>3. CASE StoreArtifact(w) \/ BeginRevocation(w)
    <3>1. PICK a \in Artifact : PutArtifact(a)
      BY <2>3 DEF StoreArtifact, BeginRevocation
    <3>. QED
      BY <1>0, <1>1, <2>1, <3>1, PutTails
  <2>. QED
    BY <1>4, <2>2, <2>3
<1>5. CASE ListNodes
  <2>1. PICK root \in Id :
          graph' = [NoGraph EXCEPT !.phase = "flagging", !.root = root,
                      !.nodes = Reachable(root), !.unread = Reachable(root), !.due = Due]
    BY <1>5 DEF ListNodes
  <2>2. graph'.phase = "flagging" /\ graph'.root = root /\ graph'.nodes = Reachable(root)
    BY <2>1 DEF NoGraph
  <2>3. UNCHANGED <<rows, edges>>
    BY <1>5 DEF ListNodes, writers, tables
  <2>4. \A n \in Reachable(root) \ {root} :
           \E e \in edges : e.to = n /\ e.from \in Reachable(root)
    BY <1>0, ReachedByEdges DEF EdgesHaveTails
  <2>. QED
    BY <1>2, <2>2, <2>3, <2>4 DEF WInv, GraphIsWhole
<1>6. CASE FlagNode
  <2>1. PICK n \in graph.unread :
          graph' = [graph EXCEPT !.unread = @ \ {n},
                      !.invalid = IF rows[n].kind = "delegation" /\ IsRevoked(n, now)
                                  THEN @ \cup {n} ELSE @]
    BY <1>6 DEF FlagNode
  <2>2. DOMAIN graph = {"phase", "root", "nodes", "unread", "invalid", "edges", "due"}
    BY <1>0 DEF TypeOK, NoGraph
  <2>3. graph'.phase = graph.phase /\ graph'.root = graph.root /\ graph'.nodes = graph.nodes
    BY <2>1, <2>2
  <2>4. UNCHANGED <<rows, edges>> /\ graph.phase = "flagging"
    BY <1>6 DEF FlagNode, writers, tables
  <2>. QED
    BY <1>2, <2>3, <2>4 DEF WInv, GraphIsWhole
<1>7. CASE ListEdges
  <2>1. DOMAIN graph = {"phase", "root", "nodes", "unread", "invalid", "edges", "due"}
    BY <1>0 DEF TypeOK, NoGraph
  <2>2. graph' = [graph EXCEPT !.phase = "made", !.edges = EdgesWithin(graph.nodes)]
    BY <1>7 DEF ListEdges
  <2>3. /\ graph'.phase = "made" /\ graph'.root = graph.root /\ graph'.nodes = graph.nodes
        /\ graph'.edges = EdgesWithin(graph.nodes)
    BY <2>1, <2>2
  <2>4. UNCHANGED <<rows, edges>> /\ graph.phase = "flagging"
    BY <1>7 DEF ListEdges, writers, tables
  <2>5. \A n \in graph.nodes \ {graph.root} : \E e \in EdgesWithin(graph.nodes) : e.to = n
    BY <1>0, <2>4 DEF WInv, EdgesWithin, TypeOK
  <2>. QED
    BY <1>2, <2>3, <2>4, <2>5 DEF WInv, GraphIsWhole, EdgesWithin
<1>. QED
  BY <1>3, <1>4, <1>5, <1>6, <1>7 DEF Next

\* A finished graph has no edge that leaves it and no node that its edges do
\* not lead to, whatever was written between its statements.
THEOREM GraphIsAlwaysWhole == Spec => []GraphIsWhole
<1>1. Init => WInv
  BY FS_EmptySet DEF Init, EmptyTables, NoGraph, WInv, EdgesHaveTails, GraphIsWhole
<1>2. WInv => GraphIsWhole
  BY DEF WInv
<1>. QED
  BY <1>1, <1>2, RevocationInvariance, StepWInv, PTL DEF Spec

-----------------------------------------------------------------------------
(* Pages *)

\* A finite collection has a lowest element.
LEMMA Lowest ==
    ASSUME NEW S, IsFiniteSet(S), S # {}, NEW f, \A i \in S : f[i] \in Int
    PROVE  \E i \in S : \A j \in S : f[i] <= f[j]
<1>. DEFINE Below(i) == {j \in S : f[j] < f[i]}
            Sizes == {Cardinality(Below(i)) : i \in S}
<1>1. \A i \in S : IsFiniteSet(Below(i)) /\ Cardinality(Below(i)) \in Nat
  <2>. SUFFICES ASSUME NEW i \in S PROVE IsFiniteSet(Below(i)) /\ Cardinality(Below(i)) \in Nat
    OBVIOUS
  <2>1. Below(i) \in SUBSET S
    OBVIOUS
  <2>. HIDE DEF Below
  <2>2. IsFiniteSet(Below(i))
    BY <2>1, FS_Subset
  <2>. QED
    BY <2>2, FS_CardinalityType
<1>2. Sizes \subseteq Nat /\ Sizes # {}
  BY <1>1
<1>3. PICK size \in Sizes : \A other \in Sizes : size <= other
  <2>. HIDE DEF Sizes
  <2>. QED
    BY <1>2, Least
<1>4. PICK i \in S : size = Cardinality(Below(i))
  BY <1>3
<1>5. ASSUME NEW j \in S, ~(f[i] <= f[j])
      PROVE  FALSE
  <2>1. f[j] < f[i] /\ f[j] \in Int /\ f[i] \in Int
    BY <1>5
  <2>2. Below(j) \in SUBSET Below(i) /\ j \in Below(i) /\ j \notin Below(j)
    BY <2>1
  <2>3. Cardinality(Below(i)) <= Cardinality(Below(j))
    BY <1>3, <1>4
  <2>. HIDE DEF Below
  <2>4. Cardinality(Below(j)) <= Cardinality(Below(i))
    BY <1>1, <1>4, <2>2, FS_Subset
  <2>5. Cardinality(Below(j)) = Cardinality(Below(i))
    BY <1>1, <1>4, <2>3, <2>4
  <2>6. Below(i) = Below(j)
    BY <1>1, <1>4, <2>2, <2>5, FS_Subset
  <2>. QED
    BY <2>2, <2>6
<1>. QED
  BY <1>5

\* The collections that are sorted as their cursor compares.
Aligned == Collections \ {"delegations"}

LEMMA Ranks ==
    ASSUME NEW c \in Aligned
    PROVE  /\ \A i \in Item : PageRank(c, i) \in Int
           /\ \A i : CursorRank(c, i) = PageRank(c, i)
BY StoreAssumption DEF Aligned, Collections, PageRank, CursorRank

LEMMA FiniteItems ==
    ASSUME TypeOK, NEW c \in Aligned
    PROVE  IsFiniteSet(Items(c)) /\ Items(c) \subseteq Item
<1>1. Items(c) \in SUBSET Event \/ Items(c) \in SUBSET Credential
  BY DEF Aligned, Collections, Items, TypeOK
<1>2. IsFiniteSet(Items(c))
  BY <1>1, FS_Subset, StoreAssumption
<1>. QED
  BY <1>1, <1>2 DEF Item

\* A page is a beginning of what is left, and is empty only if nothing is.
LEMMA PageIsFirst ==
    ASSUME NEW c \in Aligned, NEW rest, rest \subseteq Item, IsFiniteSet(rest),
           NEW limit \in Nat \ {0}
    PROVE  /\ Page(c, rest, limit) \subseteq rest
           /\ rest # {} => Page(c, rest, limit) # {}
           /\ \A i \in Page(c, rest, limit) : \A j \in rest :
                 PageRank(c, j) <= PageRank(c, i) => j \in Page(c, rest, limit)
<1>1. \A i \in rest : PageRank(c, i) \in Int
  BY Ranks
<1>2. \A i \in rest : /\ Ahead(c, rest, i) \in SUBSET rest
                      /\ IsFiniteSet(Ahead(c, rest, i))
                      /\ Cardinality(Ahead(c, rest, i)) \in Nat
  <2>1. \A i \in rest : Ahead(c, rest, i) \in SUBSET rest
    BY DEF Ahead
  <2>2. \A i \in rest : IsFiniteSet(Ahead(c, rest, i))
    BY <2>1, FS_Subset
  <2>. QED
    BY <2>1, <2>2, FS_CardinalityType
<1>3. ASSUME rest # {}
      PROVE  Page(c, rest, limit) # {}
  <2>. DEFINE f == [i \in rest |-> PageRank(c, i)]
  <2>1. PICK i \in rest : \A j \in rest : f[i] <= f[j]
    <3>1. \A i \in rest : f[i] \in Int
      BY <1>1
    <3>. HIDE DEF f
    <3>. QED
      BY <1>3, <3>1, Lowest
  <2>2. \A j \in rest : PageRank(c, i) <= PageRank(c, j)
    BY <2>1
  <2>3. Ahead(c, rest, i) = {}
    BY <1>1, <2>2 DEF Ahead
  <2>4. Cardinality(Ahead(c, rest, i)) = 0
    BY <2>3, FS_EmptySet
  <2>. QED
    BY <2>4 DEF Page
<1>4. ASSUME NEW i \in Page(c, rest, limit), NEW j \in rest, PageRank(c, j) <= PageRank(c, i)
      PROVE  j \in Page(c, rest, limit)
  <2>1. i \in rest /\ Cardinality(Ahead(c, rest, i)) < limit
    BY DEF Page
  <2>2. Ahead(c, rest, j) \in SUBSET Ahead(c, rest, i)
    BY <1>1, <1>4, <2>1 DEF Ahead
  <2>3. Cardinality(Ahead(c, rest, j)) <= Cardinality(Ahead(c, rest, i))
    BY <1>2, <2>1, <2>2, FS_Subset
  <2>4. Cardinality(Ahead(c, rest, j)) < limit
    BY <1>2, <2>1, <2>3
  <2>. QED
    BY <2>4 DEF Page
<1>5. Page(c, rest, limit) \subseteq rest
  BY DEF Page
<1>. QED
  BY <1>3, <1>4, <1>5

\* A page that is not empty has a last item.
LEMMA LastIsLast ==
    ASSUME NEW c \in Aligned, NEW page, page \subseteq Item, IsFiniteSet(page), page # {}
    PROVE  /\ LastOf(c, page) \in page
           /\ \A j \in page : PageRank(c, j) <= PageRank(c, LastOf(c, page))
<1>. DEFINE f == [i \in page |-> - PageRank(c, i)]
<1>1. \A i \in page : PageRank(c, i) \in Int /\ f[i] \in Int
  BY Ranks
<1>2. PICK i \in page : \A j \in page : f[i] <= f[j]
  <2>. HIDE DEF f
  <2>. QED
    BY <1>1, Lowest
<1>3. \A j \in page : PageRank(c, j) <= PageRank(c, i)
  BY <1>1, <1>2
<1>. QED
  BY <1>3, Zenon DEF LastOf

\* A walk on its way has what was due up to its cursor and nothing beyond it.
PInv ==
    walk.phase # "none" =>
        /\ walk.over \in Walked /\ walk.limit \in Nat \ {0}
        /\ walk.due \subseteq Items(walk.over)
        /\ walk.cursor # None => walk.cursor \in Item
        /\ walk.phase = "walking" =>
              /\ \A i \in walk.got :
                    /\ walk.cursor # None
                    /\ CursorRank(walk.over, i) <= CursorRank(walk.over, walk.cursor)
              /\ \A i \in walk.due :
                    /\ walk.cursor # None
                    /\ CursorRank(walk.over, i) <= CursorRank(walk.over, walk.cursor)
                    => i \in walk.got

WalkInv == PInv /\ WalkedOnce

LEMMA BeginKeepsWalk ==
    ASSUME TInv, BeginWalk
    PROVE  WalkInv'
<1>1. PICK c \in Walked, l \in Limit :
        walk' = [NoWalk EXCEPT !.phase = "walking", !.over = c, !.limit = l, !.due = Items(c)]
  BY DEF BeginWalk
<1>2. /\ walk'.phase = "walking" /\ walk'.over = c /\ walk'.limit = l /\ walk'.due = Items(c)
      /\ walk'.cursor = None /\ walk'.got = {} /\ walk'.twice = {}
  BY <1>1 DEF NoWalk
<1>3. l \in Nat \ {0}
  BY StoreAssumption
<1>4. UNCHANGED <<tables, credentials>>
  BY DEF BeginWalk, writers
<1>5. Items(c)' = Items(c)
  BY <1>4 DEF Items, OfStoredKind, Stored, tables
<1>. QED
  BY <1>2, <1>3, <1>5 DEF WalkInv, PInv, WalkedOnce

LEMMA FetchKeepsWalk ==
    ASSUME "delegations" \notin Walked, TInv, WalkInv, FetchPage
    PROVE  WalkInv'
<1>. DEFINE c == walk.over
            rest == Rest(walk.over, walk.cursor)
            page == Page(walk.over, rest, walk.limit)
            next == NextCursor(walk.over, rest, page)
            Rank(i) == PageRank(c, i)
<1>1. /\ walk.phase = "walking" /\ walk.over \in Walked /\ walk.limit \in Nat \ {0}
      /\ walk.due \subseteq Items(walk.over)
      /\ walk.cursor # None => walk.cursor \in Item
      /\ TypeOK /\ walk.twice = {}
  BY DEF FetchPage, WalkInv, PInv, TInv, WalkedOnce
<1>2. c \in Aligned /\ None \notin Item
  BY <1>1, StoreAssumption DEF Aligned
<1>3. IsFiniteSet(Items(c)) /\ Items(c) \subseteq Item
  BY <1>1, <1>2, FiniteItems
<1>4. \A i \in Item : Rank(i) \in Int /\ CursorRank(c, i) = Rank(i)
  BY <1>2, Ranks
<1>5. /\ \A i \in Item : i \in rest <=>
            i \in Items(c) /\ (walk.cursor = None \/ Rank(walk.cursor) < Rank(i))
      /\ rest \subseteq Items(c)
  <2>1. rest \subseteq Items(c)
    BY DEF Rest
  <2>2. \A i : CursorRank(c, i) = PageRank(c, i)
    BY <1>2, Ranks
  <2>. QED
    BY <2>1, <2>2 DEF Rest
<1>6. rest \subseteq Item /\ IsFiniteSet(rest)
  BY <1>3, <1>5, FS_Subset
<1>7. /\ \A i \in walk.got : walk.cursor # None /\ Rank(i) <= Rank(walk.cursor)
      /\ \A i \in walk.due :
            walk.cursor # None /\ Rank(i) <= Rank(walk.cursor) => i \in walk.got
      /\ walk.got \subseteq Item /\ walk.due \subseteq Item
  <2>1. walk.got \subseteq Item /\ walk.due \subseteq Item
    BY <1>1, <1>3 DEF TypeOK
  <2>2. \A i : CursorRank(c, i) = PageRank(c, i)
    BY <1>2, Ranks
  <2>. QED
    BY <1>1, <2>1, <2>2 DEF WalkInv, PInv
<1>8. /\ page \subseteq rest
      /\ rest # {} => page # {}
      /\ \A i \in page : \A j \in rest : Rank(j) <= Rank(i) => j \in page
  BY <1>1, <1>2, <1>6, PageIsFirst
<1>9. IsFiniteSet(page) /\ page \subseteq Item
  BY <1>6, <1>8, FS_Subset
<1>10. rest # page => /\ next \in page
                      /\ \A j \in page : Rank(j) <= Rank(next)
  <2>. SUFFICES ASSUME rest # page
                PROVE  next \in page /\ \A j \in page : Rank(j) <= Rank(next)
    OBVIOUS
  <2>1. page # {}
    BY <1>8
  <2>2. next = LastOf(c, page)
    BY DEF NextCursor
  <2>. QED
    BY <1>2, <1>9, <2>1, <2>2, LastIsLast
<1>11. rest = page => next = None
  BY DEF NextCursor
<1>12. walk' = [walk EXCEPT !.phase = IF next = None THEN "ended" ELSE @,
                            !.cursor = next, !.got = @ \cup page,
                            !.twice = @ \cup (walk.got \cap page)]
  BY DEF FetchPage
<1>. HIDE DEF rest, page, next
<1>14. /\ walk'.phase = (IF next = None THEN "ended" ELSE walk.phase)
       /\ walk'.over = walk.over /\ walk'.limit = walk.limit /\ walk'.due = walk.due
       /\ walk'.cursor = next /\ walk'.got = walk.got \cup page
       /\ walk'.twice = walk.twice \cup (walk.got \cap page)
  <2>1. DOMAIN walk = {"phase", "over", "limit", "cursor", "due", "got", "twice"}
    BY <1>1 DEF TypeOK, NoWalk
  <2>. QED
    BY <1>12, <2>1
<1>13. Items(walk.over)' = Items(walk.over)
  <2>1. UNCHANGED <<events, credentials>> /\ walk'.over = walk.over
    BY <1>14 DEF FetchPage, writers, tables
  <2>2. walk.over \in {"events", "credentials"}
    BY <1>2 DEF Aligned, Collections
  <2>. QED
    BY <2>1, <2>2 DEF Items
<1>15. walk.got \cap page = {}
  <2>. SUFFICES ASSUME NEW i \in walk.got, i \in page PROVE FALSE
    OBVIOUS
  <2>1. walk.cursor # None /\ Rank(i) <= Rank(walk.cursor) /\ Rank(walk.cursor) < Rank(i)
    BY <1>5, <1>7, <1>8
  <2>2. Rank(i) \in Int /\ Rank(walk.cursor) \in Int
    BY <1>1, <1>4, <1>7, <2>1
  <2>. HIDE DEF Rank
  <2>. QED
    BY <2>1, <2>2
<1>16. \A i \in walk.due : i \in walk.got \/ i \in rest
  <2>. SUFFICES ASSUME NEW i \in walk.due, i \notin rest PROVE i \in walk.got
    OBVIOUS
  <2>1. i \in Item /\ i \in Items(c)
    BY <1>1, <1>7
  <2>2. walk.cursor # None /\ ~(Rank(walk.cursor) < Rank(i))
    BY <1>5, <2>1
  <2>3. Rank(i) \in Int /\ Rank(walk.cursor) \in Int
    BY <1>1, <1>4, <2>1, <2>2
  <2>. HIDE DEF Rank
  <2>4. Rank(i) <= Rank(walk.cursor)
    BY <2>2, <2>3
  <2>. QED
    BY <1>7, <2>2, <2>4
<1>17. WalkedOnce'
  <2>1. walk'.twice = {}
    BY <1>1, <1>14, <1>15
  <2>2. ASSUME walk'.phase = "ended"
        PROVE  walk'.due \subseteq walk'.got
    <3>1. next = None
      BY <1>1, <1>14, <2>2
    <3>2. rest = page
      BY <1>2, <1>9, <1>10, <3>1
    <3>. QED
      BY <1>14, <1>16, <3>2
  <2>. QED
    BY <2>1, <2>2 DEF WalkedOnce
<1>18. ASSUME walk'.phase = "walking"
       PROVE  /\ \A i \in walk'.got : walk'.cursor # None /\ Rank(i) <= Rank(walk'.cursor)
              /\ \A i \in walk'.due : Rank(i) <= Rank(walk'.cursor) => i \in walk'.got
  <2>1. next # None
    BY <1>14, <1>18
  <2>2. rest # page
    BY <1>11, <2>1
  <2>3. next \in page /\ next \in rest /\ next \in Item /\ Rank(next) \in Int
    BY <1>4, <1>6, <1>8, <1>10, <2>2
  <2>4. \A i \in walk.got : Rank(i) <= Rank(next)
    <3>. SUFFICES ASSUME NEW i \in walk.got PROVE Rank(i) <= Rank(next)
      OBVIOUS
    <3>1. walk.cursor # None /\ Rank(i) <= Rank(walk.cursor) /\ Rank(walk.cursor) < Rank(next)
      BY <1>5, <1>7, <2>3
    <3>2. Rank(i) \in Int /\ Rank(walk.cursor) \in Int
      BY <1>1, <1>4, <1>7, <3>1
    <3>. HIDE DEF Rank
    <3>. QED
      BY <2>3, <3>1, <3>2
  <2>5. \A i \in page : Rank(i) <= Rank(next)
    BY <1>10, <2>2
  <2>6. \A i \in walk.due : Rank(i) <= Rank(next) => i \in walk.got \/ i \in page
    BY <1>8, <1>16, <2>3
  <2>. HIDE DEF Rank
  <2>. QED
    BY <1>14, <2>1, <2>4, <2>5, <2>6
<1>19. PInv'
  <2>1. walk'.phase = "walking" => walk'.cursor \in page
    BY <1>10, <1>11, <1>14
  <2>2. \A i : CursorRank(c, i) = Rank(i)
    BY <1>2, Ranks
  <2>3. walk'.cursor # None => walk'.cursor \in Item
    BY <1>9, <1>10, <1>11, <1>14
  <2>. QED
    BY <1>1, <1>13, <1>14, <1>18, <2>2, <2>3 DEF PInv
<1>. QED
  BY <1>17, <1>19 DEF WalkInv

LEMMA StepWalk ==
    ASSUME "delegations" \notin Walked, TInv, RInv, WalkInv, [Next]_vars
    PROVE  WalkInv'
<1>1. ASSUME UNCHANGED walk, \A c \in Aligned : Items(c) \subseteq Items(c)'
      PROVE  WalkInv'
  <2>1. \A c \in Walked : c \in Aligned
    BY StoreAssumption DEF Aligned
  <2>2. \A i : CursorRank(walk.over, i)' = CursorRank(walk.over, i)
    BY <1>1 DEF CursorRank
  <2>. QED
    BY <1>1, <2>1, <2>2 DEF WalkInv, PInv, WalkedOnce
<1>2. ASSUME UNCHANGED walk, events \subseteq events', credentials \subseteq credentials'
      PROVE  WalkInv'
  <2>1. \A c \in Aligned : Items(c) \subseteq Items(c)'
    BY <1>2 DEF Aligned, Collections, Items
  <2>. QED
    BY <1>1, <1>2, <2>1
<1>3. CASE Tick \/ Record \/ AdmitCredential \/ ListNodes \/ FlagNode \/ ListEdges \/ UNCHANGED vars
  <2>1. UNCHANGED walk /\ events \subseteq events' /\ credentials \subseteq credentials'
    BY <1>3 DEF Tick, Record, RecordEvent, AdmitCredential, ListNodes, FlagNode, ListEdges, vars,
                readers, writers, tables
  <2>. QED
    BY <1>2, <2>1
<1>4. ASSUME NEW w \in Writer,
             \/ StoreArtifact(w) \/ BeginRevocation(w) \/ FinishRevocation(w)
             \/ Refuse(w) \/ CrashWriter(w)
      PROVE  WalkInv'
  <2>1. UNCHANGED walk /\ UNCHANGED <<events, credentials>>
    BY <1>4 DEF StoreArtifact, BeginRevocation, FinishRevocation, Refuse, CrashWriter, PutArtifact,
                RevokeArtifact, readers, tables
  <2>. QED
    BY <1>2, <2>1
<1>. QED
  BY <1>3, <1>4, BeginKeepsWalk, FetchKeepsWalk DEF Next

\* A client that follows the cursors through the events or the credentials gets
\* every item that was there when it began, and none twice, whatever is added
\* on the way.  Delegations are left out because their pages are sorted in
\* another order than their cursor compares.
THEOREM WalksAreWhole == "delegations" \notin Walked => (Spec => []WalkedOnce)
<1>. SUFFICES ASSUME "delegations" \notin Walked PROVE Spec => []WalkedOnce
  OBVIOUS
<1>1. Init => WalkInv
  BY DEF Init, NoWalk, WalkInv, PInv, WalkedOnce
<1>2. WalkInv => WalkedOnce
  BY DEF WalkInv
<1>. QED
  BY <1>1, <1>2, RevocationInvariance, StepWalk, PTL DEF Spec
=============================================================================
