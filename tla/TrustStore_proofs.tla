-------------------------- MODULE TrustStore_proofs --------------------------
(***************************************************************************)
(* Proofs about TrustStore, for any processes, snapshots and marks.        *)
(***************************************************************************)
EXTENDS TrustStore, SequenceTheorems, TLAPS

-----------------------------------------------------------------------------
(* Types *)

\* What a process works on fits the statement it is at.
Arguments ==
    \A p \in Proc :
        /\ pc[p] \in {"snapshot", "anchoring"} => job[p] \in Offer
        /\ pc[p] = "mark" => job[p] \in Mark

TInv == TypeOK /\ Arguments

LEMMA DiscardType ==
    ASSUME TInv, NEW p \in Proc, Discard(p), lock' \in Proc \cup {None},
           outcome' \in [Proc -> {"none", "accepted", "thrown"}],
           UNCHANGED <<db, accepted>>
    PROVE  TInv'
<1>1. draft' \in Tables
  BY DEF Discard, Tables, Empty
<1>2. << >> \in Seq(Anchor)
  OBVIOUS
<1>3. left' \in [Proc -> Seq(Anchor)]
  BY <1>2 DEF TInv, TypeOK, Discard
<1>4. pc' \in [Proc -> Labels] /\ job' \in [Proc -> Offer \cup Mark \cup {None}]
  BY DEF TInv, TypeOK, Discard, Goto, Labels
<1>5. Arguments'
  BY DEF TInv, TypeOK, Arguments, Discard, Goto
<1>. QED
  BY <1>1, <1>3, <1>4, <1>5 DEF TInv, TypeOK

LEMMA StepTInv ==
    ASSUME TInv, [Next]_vars
    PROVE  TInv'
<1>. USE TrustAssumption
<1>1. CASE UNCHANGED vars
  BY <1>1 DEF TInv, TypeOK, Arguments, vars
<1>2. ASSUME NEW p \in Proc, NEW o \in Offer, Begin(p, o, "snapshot")
      PROVE  TInv'
  BY <1>2 DEF TInv, TypeOK, Arguments, Begin, Goto, Labels
<1>3. ASSUME NEW p \in Proc, NEW m \in Mark, Begin(p, m, "mark")
      PROVE  TInv'
  BY <1>3 DEF TInv, TypeOK, Arguments, Begin, Goto, Labels
<1>4. ASSUME NEW p \in Proc, Busy(p)
      PROVE  TInv'
  BY <1>4 DEF TInv, TypeOK, Arguments, Busy
<1>5. ASSUME NEW p \in Proc, Commit(p)
      PROVE  TInv'
  BY <1>5 DEF TInv, TypeOK, Arguments, Commit, Goto, Labels, Tables, Empty
<1>6. ASSUME NEW p \in Proc, Rollback(p)
      PROVE  TInv'
  BY <1>6, DiscardType DEF Rollback, TInv, TypeOK
<1>7. ASSUME NEW p \in Proc, CheckSnapshot(p)
      PROVE  TInv'
  <2>1. job[p] \in Offer
    BY <1>7 DEF TInv, Arguments, CheckSnapshot
  <2>. DEFINE inserted == [draft EXCEPT !.snapshots = @ \cup {RowOf(job[p])}]
  <2>2. inserted \in Tables
    BY <2>1 DEF TInv, TypeOK, Tables
  <2>3. draft' \in Tables /\ left' \in [Proc -> Seq(Anchor)]
    BY <1>7, <2>1, <2>2 DEF TInv, TypeOK, CheckSnapshot
  <2>4. pc' \in [Proc -> Labels]
    BY <1>7 DEF TInv, TypeOK, CheckSnapshot, Goto, Labels
  <2>5. Arguments'
    BY <1>7, <2>1 DEF TInv, TypeOK, Arguments, CheckSnapshot, Goto
  <2>. QED
    BY <1>7, <2>3, <2>4, <2>5 DEF TInv, TypeOK, CheckSnapshot
<1>8. ASSUME NEW p \in Proc, InsertAnchor(p)
      PROVE  TInv'
  <2>1. job[p] \in Offer
    BY <1>8 DEF TInv, Arguments, InsertAnchor
  <2>2. left[p] \in Seq(Anchor) /\ left[p] # << >>
    BY <1>8 DEF TInv, TypeOK, InsertAnchor
  <2>3. Head(left[p]) \in Anchor /\ Tail(left[p]) \in Seq(Anchor)
    BY <2>2, HeadTailProperties
  <2>. DEFINE inserted == [draft EXCEPT !.anchors = @ \cup {<<job[p].id, Head(left[p])>>}]
  <2>4. inserted \in Tables
    <3>1. <<job[p].id, Head(left[p])>> \in {o.id : o \in Offer} \X Anchor
      BY <2>1, <2>3
    <3>2. draft \in Tables
      BY DEF TInv, TypeOK
    <3>. QED
      BY <3>1, <3>2 DEF Tables
  <2>5. draft' \in Tables /\ left' \in [Proc -> Seq(Anchor)]
    BY <1>8, <2>3, <2>4 DEF TInv, TypeOK, InsertAnchor
  <2>6. pc' \in [Proc -> Labels] /\ Arguments'
    BY <1>8, <2>1 DEF TInv, TypeOK, Arguments, InsertAnchor, Goto, Labels
  <2>. QED
    BY <1>8, <2>5, <2>6 DEF TInv, TypeOK, InsertAnchor
<1>9. ASSUME NEW p \in Proc, EndAnchors(p)
      PROVE  TInv'
  BY <1>9 DEF TInv, TypeOK, Arguments, EndAnchors, Goto, Labels
<1>10. ASSUME NEW p \in Proc, AcceptMark(p)
       PROVE  TInv'
  <2>1. job[p] \in Mark
    BY <1>10 DEF TInv, Arguments, AcceptMark
  <2>. DEFINE upserted == [draft EXCEPT !.marks = (@ \ Previous(job[p])) \cup {job[p]}]
  <2>2. upserted \in Tables
    BY <2>1 DEF TInv, TypeOK, Tables
  <2>3. draft' \in Tables
    BY <1>10, <2>2 DEF TInv, TypeOK, AcceptMark, Upsert
  <2>4. pc' \in [Proc -> Labels] /\ Arguments'
    BY <1>10, <2>1 DEF TInv, TypeOK, Arguments, AcceptMark, Goto, Labels
  <2>. QED
    BY <1>10, <2>3, <2>4 DEF TInv, TypeOK, AcceptMark
<1>11. ASSUME NEW p \in Proc, Fail(p)
       PROVE  TInv'
  BY <1>11 DEF TInv, TypeOK, Arguments, Fail, Goto, Labels
<1>12. ASSUME NEW p \in Proc, Crash(p)
       PROVE  TInv'
  BY <1>12, DiscardType DEF Crash, TInv, TypeOK
<1>. QED
  BY <1>1, <1>2, <1>3, <1>4, <1>5, <1>6, <1>7, <1>8, <1>9, <1>10, <1>11, <1>12 DEF Next, Step

LEMMA TypeInvariance == Spec => []TInv
<1>1. Init => TInv
  BY TrustAssumption DEF Init, TInv, TypeOK, Arguments, Labels, Tables, Empty
<1>. QED
  BY <1>1, StepTInv, PTL DEF Spec

\* The shape of every variable, in every reachable state.
THEOREM TypeCorrect == Spec => []TypeOK
BY TypeInvariance, PTL DEF TInv

-----------------------------------------------------------------------------
(* The inductive invariant *)

\* The write lock and a place inside a transaction go together.
Locked == \A p \in Proc : lock = p <=> pc[p] # "idle"

AnchorRows(o) == {<<o.id, o.anchors[i]>> : i \in DOMAIN o.anchors}

\* No committed snapshot has the id of o, or a sequence it would step back from.
Newest(o) == \A s \in db.snapshots : s.id # o.id /\ s.sequence < o.sequence

\* The draft a transaction leaves when it has nothing to add,
Repeats(j) ==
    /\ draft = db
    /\ j \in db.marks \/ (j \in Offer /\ RowOf(j) \in db.snapshots)

\* when it adds a snapshot,
AddsSnapshot(o) ==
    /\ o \in Offer /\ Newest(o)
    /\ draft.snapshots = db.snapshots \cup {RowOf(o)}
    /\ draft.anchors = db.anchors \cup AnchorRows(o)
    /\ draft.marks = db.marks

\* and when it adds a mark.
InDb(m) == {n \in db.marks : SameStream(m, n)}

AddsMark(m) ==
    /\ m \in Mark \ db.marks
    /\ InDb(m) = {} => m.sequence = 1
    /\ \A n \in InDb(m) : m.sequence = n.sequence + 1
    /\ \E s \in db.snapshots : s.id = m.snapshot
    /\ draft.snapshots = db.snapshots
    /\ draft.anchors = db.anchors
    /\ draft.marks = (db.marks \ InDb(m)) \cup {m}

\* Between two anchors: the rows inserted and those left make up all of them.
Anchoring(p) ==
    /\ job[p] \in Offer /\ Newest(job[p])
    /\ draft.snapshots = db.snapshots \cup {RowOf(job[p])}
    /\ draft.anchors \cup {<<job[p].id, left[p][i]>> : i \in DOMAIN left[p]}
         = db.anchors \cup AnchorRows(job[p])
    /\ draft.marks = db.marks

Drafted(p) ==
    /\ pc[p] \in {"snapshot", "mark"} => draft = db
    /\ pc[p] = "anchoring" => Anchoring(p)
    /\ pc[p] = "committing" => Repeats(job[p]) \/ AddsSnapshot(job[p]) \/ AddsMark(job[p])

\* A stream has one row, the last of what it accepted, without a gap or fork.
Streams ==
    /\ db.marks \subseteq accepted
    /\ \A m, n \in db.marks : SameStream(m, n) => m = n
    /\ \A m \in accepted : \E n \in db.marks : SameStream(m, n) /\ m.sequence <= n.sequence
    /\ \A m, n \in accepted : SameStream(m, n) /\ m.sequence = n.sequence => m = n
    /\ \A m \in accepted : \A i \in 1 .. m.sequence :
         \E n \in accepted : SameStream(m, n) /\ n.sequence = i

\* Anchors belong to a snapshot that is there.
Anchored == \A row \in db.anchors : \E s \in db.snapshots : s.id = row[1]

IInv ==
    /\ TInv
    /\ Locked
    /\ \A p \in Proc : Drafted(p)
    /\ Streams
    /\ Anchored

\* A step that touches neither tables nor history, and leaves the others idle.
LEMMA LockHolder ==
    ASSUME IInv, NEW p \in Proc, pc[p] # "idle", NEW q \in Proc, q # p
    PROVE  lock = p /\ lock # q /\ pc[q] = "idle"
BY DEF IInv, Locked

\* The steps of the process in a transaction that do not commit it.
LEMMA Inside ==
    ASSUME IInv, TInv', NEW p \in Proc, pc[p] # "idle", pc'[p] # "idle",
           UNCHANGED <<lock, db, accepted>>,
           \A q \in Proc \ {p} : pc'[q] = pc[q],
           Drafted(p)'
    PROVE  IInv'
<1>1. Locked'
  BY DEF IInv, Locked
<1>2. ASSUME NEW q \in Proc, q # p
      PROVE  Drafted(q)'
  <2>1. pc'[q] = "idle"
    BY <1>2, LockHolder
  <2>. QED
    BY <2>1 DEF Drafted
<1>3. Streams' /\ Anchored'
  BY DEF IInv, Streams, Anchored
<1>. QED
  BY <1>1, <1>2, <1>3 DEF IInv

\* The steps that drop a transaction.
LEMMA Dropped ==
    ASSUME IInv, TInv', NEW p \in Proc, lock = p, Discard(p), lock' = None,
           UNCHANGED <<db, accepted>>
    PROVE  IInv'
<1>1. \A q \in Proc : pc'[q] = "idle"
  BY DEF IInv, TInv, TypeOK, Locked, Discard, Goto
<1>2. Locked'
  BY <1>1, TrustAssumption DEF Locked
<1>3. \A q \in Proc : Drafted(q)'
  BY <1>1 DEF Drafted
<1>4. Streams' /\ Anchored'
  BY DEF IInv, Streams, Anchored
<1>. QED
  BY <1>2, <1>3, <1>4 DEF IInv

LEMMA BeginIInv ==
    ASSUME IInv, TInv', NEW p \in Proc, NEW j, NEW label \in {"snapshot", "mark"},
           Begin(p, j, label)
    PROVE  IInv'
<1>1. lock = None /\ lock' = p /\ \A q \in Proc : pc[q] = "idle"
  BY TrustAssumption DEF IInv, Locked, Begin
<1>2. pc'[p] = label /\ \A q \in Proc \ {p} : pc'[q] = "idle"
  BY <1>1 DEF IInv, TInv, TypeOK, Begin, Goto
<1>3. Locked'
  BY <1>1, <1>2 DEF Locked
<1>4. \A q \in Proc : Drafted(q)'
  BY <1>2 DEF Drafted, Begin
<1>5. Streams' /\ Anchored'
  BY DEF IInv, Streams, Anchored, Begin
<1>. QED
  BY <1>3, <1>4, <1>5 DEF IInv

LEMMA CheckSnapshotIInv ==
    ASSUME IInv, TInv', NEW p \in Proc, CheckSnapshot(p)
    PROVE  IInv'
<1>. DEFINE o == job[p]
            sameId == {s \in draft.snapshots : s.id = o.id}
<1>1. /\ pc[p] = "snapshot" /\ o \in Offer /\ draft = db
      /\ UNCHANGED <<lock, db, job, accepted>>
      /\ \A q \in Proc \ {p} : pc'[q] = pc[q]
  BY DEF IInv, TInv, TypeOK, Arguments, Drafted, CheckSnapshot, Goto
<1>2. Drafted(p)' /\ pc'[p] # "idle"
  <2>1. CASE sameId # {} /\ UNCHANGED draft
             /\ pc'[p] = IF RowOf(o) \in sameId THEN "committing" ELSE "failed"
    BY <1>1, <2>1 DEF Drafted, Repeats
  <2>2. CASE pc'[p] = "failed"
    BY <2>2 DEF Drafted
  <2>3. CASE /\ sameId = {} /\ ~RolledBack(o)
             /\ draft' = [draft EXCEPT !.snapshots = @ \cup {RowOf(o)}]
             /\ left'[p] = o.anchors
             /\ pc'[p] = "anchoring"
    <3>1. Newest(o)
      <4>1. ASSUME NEW s \in db.snapshots
            PROVE  s.sequence \in Nat
        <5>1. db.snapshots \subseteq {RowOf(q) : q \in Offer}
          BY DEF IInv, TInv, TypeOK, Tables
        <5>2. PICK q \in Offer : s = RowOf(q)
          BY <5>1
        <5>. QED
          BY <5>2, TrustAssumption DEF RowOf
      <4>2. o.sequence \in Nat
        BY <1>1, TrustAssumption
      <4>. QED
        BY <1>1, <2>3, <4>1, <4>2 DEF Newest, RolledBack
    <3>2. /\ draft'.snapshots = db.snapshots \cup {RowOf(o)}
          /\ draft'.anchors = db.anchors
          /\ draft'.marks = db.marks
      BY <1>1, <2>3 DEF IInv, TInv, TypeOK, Tables
    <3>3. Anchoring(p)'
      BY <1>1, <2>3, <3>1, <3>2 DEF Anchoring, Newest, AnchorRows, RowOf
    <3>. QED
      BY <2>3, <3>3 DEF Drafted
  <2>. QED
    BY <2>1, <2>2, <2>3 DEF CheckSnapshot, Goto, IInv, TInv, TypeOK
<1>. QED
  BY <1>1, <1>2, Inside

LEMMA InsertAnchorIInv ==
    ASSUME IInv, TInv', NEW p \in Proc, InsertAnchor(p)
    PROVE  IInv'
<1>. DEFINE o == job[p]
            row == <<o.id, Head(left[p])>>
<1>1. /\ pc[p] = "anchoring" /\ Anchoring(p)
      /\ UNCHANGED <<lock, db, job, accepted>>
      /\ \A q \in Proc \ {p} : pc'[q] = pc[q]
  BY DEF IInv, TInv, TypeOK, Drafted, InsertAnchor, Goto
<1>2. Drafted(p)' /\ pc'[p] # "idle"
  <2>1. CASE pc'[p] = "failed"
    BY <2>1 DEF Drafted
  <2>2. CASE /\ draft' = [draft EXCEPT !.anchors = @ \cup {row}]
             /\ left'[p] = Tail(left[p])
             /\ pc'[p] = "anchoring"
    <3>1. left[p] \in Seq(Anchor) /\ left[p] # << >>
      BY DEF IInv, TInv, TypeOK, InsertAnchor
    <3>. DEFINE l == left[p]
                t == Tail(left[p])
    <3>2. /\ t \in Seq(Anchor) /\ Len(t) = Len(l) - 1
          /\ Head(l) = l[1]
          /\ \A i \in 1 .. Len(t) : t[i] = l[i + 1]
          /\ Len(l) \in Nat \ {0}
      BY <3>1
    <3>3. {<<o.id, l[i]>> : i \in DOMAIN l} = {row} \cup {<<o.id, t[i]>> : i \in DOMAIN t}
      <4>1. DOMAIN l = 1 .. Len(l) /\ DOMAIN t = 1 .. Len(t)
        BY <3>1, <3>2
      <4>2. ASSUME NEW i \in DOMAIN l
            PROVE  <<o.id, l[i]>> \in {row} \cup {<<o.id, t[k]>> : k \in DOMAIN t}
        <5>1. CASE i = 1
          BY <5>1, <3>2
        <5>2. CASE i # 1
          <6>1. i - 1 \in DOMAIN t /\ t[i - 1] = l[i]
            BY <4>1, <5>2, <3>2
          <6>. QED
            BY <6>1
        <5>. QED
          BY <5>1, <5>2
      <4>3. ASSUME NEW i \in DOMAIN t
            PROVE  <<o.id, t[i]>> \in {<<o.id, l[k]>> : k \in DOMAIN l}
        <5>1. i + 1 \in DOMAIN l /\ t[i] = l[i + 1]
          BY <4>1, <3>2
        <5>. QED
          BY <5>1
      <4>4. row \in {<<o.id, l[k]>> : k \in DOMAIN l}
        <5>1. 1 \in DOMAIN l
          BY <4>1, <3>2
        <5>. QED
          BY <5>1, <3>2
      <4>. QED
        BY <4>2, <4>3, <4>4
    <3>4. /\ draft'.snapshots = draft.snapshots
          /\ draft'.anchors = draft.anchors \cup {row}
          /\ draft'.marks = draft.marks
      BY <2>2 DEF IInv, TInv, TypeOK, Tables
    <3>5. draft.anchors \cup {<<o.id, l[i]>> : i \in DOMAIN l}
            = draft'.anchors \cup {<<o.id, t[i]>> : i \in DOMAIN t}
      BY <3>3, <3>4
    <3>6. Anchoring(p)'
      BY <1>1, <2>2, <3>4, <3>5 DEF Anchoring, Newest, AnchorRows, RowOf
    <3>. QED
      BY <2>2, <3>6 DEF Drafted
  <2>. QED
    BY <1>1, <2>1, <2>2 DEF InsertAnchor, Goto, IInv, TInv, TypeOK
<1>. QED
  BY <1>1, <1>2, Inside

LEMMA EndAnchorsIInv ==
    ASSUME IInv, TInv', NEW p \in Proc, EndAnchors(p)
    PROVE  IInv'
<1>1. /\ pc[p] = "anchoring" /\ Anchoring(p) /\ left[p] = << >>
      /\ UNCHANGED <<lock, db, draft, job, accepted>>
      /\ pc'[p] = "committing"
      /\ \A q \in Proc \ {p} : pc'[q] = pc[q]
  BY DEF IInv, TInv, TypeOK, Drafted, EndAnchors, Goto
<1>2. {<<job[p].id, left[p][i]>> : i \in DOMAIN left[p]} = {}
  BY <1>1
<1>3. AddsSnapshot(job[p])'
  BY <1>1, <1>2 DEF Anchoring, AddsSnapshot, Newest, AnchorRows, RowOf
<1>4. Drafted(p)'
  BY <1>1, <1>3 DEF Drafted
<1>. QED
  BY <1>1, <1>4, Inside

LEMMA AcceptMarkIInv ==
    ASSUME IInv, TInv', NEW p \in Proc, AcceptMark(p)
    PROVE  IInv'
<1>. DEFINE m == job[p]
<1>1. /\ pc[p] = "mark" /\ m \in Mark /\ draft = db
      /\ UNCHANGED <<lock, db, job, accepted>>
      /\ \A q \in Proc \ {p} : pc'[q] = pc[q]
  BY DEF IInv, TInv, TypeOK, Arguments, Drafted, AcceptMark, Goto
<1>2. Previous(m) = InDb(m)
  BY <1>1 DEF Previous, InDb
<1>3. Drafted(p)' /\ pc'[p] # "idle"
  <2>1. CASE m \in Previous(m) /\ UNCHANGED draft /\ pc'[p] = "committing"
    BY <1>1, <1>2, <2>1 DEF Drafted, Repeats, InDb
  <2>2. CASE pc'[p] = "failed"
    BY <2>2 DEF Drafted
  <2>3. CASE m \notin Previous(m) /\ Follows(m) /\ Known(m) /\ Upsert(m) /\ pc'[p] = "committing"
    <3>1. m \notin db.marks
      BY <1>1, <2>3 DEF Previous, SameStream
    <3>2. /\ draft'.snapshots = db.snapshots
          /\ draft'.anchors = db.anchors
          /\ draft'.marks = (db.marks \ InDb(m)) \cup {m}
      BY <1>1, <1>2, <2>3 DEF Upsert, IInv, TInv, TypeOK, Tables
    <3>3. AddsMark(m)'
      BY <1>1, <1>2, <2>3, <3>1, <3>2 DEF AddsMark, InDb, SameStream, Follows, Known
    <3>. QED
      BY <1>1, <2>3, <3>3 DEF Drafted
  <2>. QED
    BY <2>1, <2>2, <2>3 DEF AcceptMark, Goto, IInv, TInv, TypeOK
<1>. QED
  BY <1>1, <1>3, Inside

\* COMMIT: the tables become the draft, and the streams take the new mark.
LEMMA CommitIInv ==
    ASSUME IInv, TInv', NEW p \in Proc, Commit(p)
    PROVE  IInv'
<1>. DEFINE j == job[p]
<1>1. /\ pc[p] = "committing" /\ lock = p /\ lock' = None
      /\ db' = draft /\ accepted' = accepted \cup (draft.marks \ db.marks)
      /\ \A q \in Proc : pc'[q] = "idle"
  BY DEF IInv, TInv, TypeOK, Locked, Commit, Goto
<1>2. Locked' /\ \A q \in Proc : Drafted(q)'
  BY <1>1, TrustAssumption DEF Locked, Drafted
<1>3. Repeats(j) \/ AddsSnapshot(j) \/ AddsMark(j)
  BY <1>1 DEF IInv, Drafted
<1>4. CASE Repeats(j)
  BY <1>1, <1>2, <1>4 DEF IInv, Repeats, Streams, Anchored
<1>5. CASE AddsSnapshot(j)
  <2>1. Streams'
    BY <1>1, <1>5 DEF IInv, AddsSnapshot, Streams
  <2>2. Anchored'
    <3>1. ASSUME NEW row \in AnchorRows(j)
          PROVE  row[1] = j.id
      BY DEF AnchorRows
    <3>2. RowOf(j).id = j.id
      BY DEF RowOf
    <3>. QED
      BY <1>1, <1>5, <3>1, <3>2 DEF IInv, AddsSnapshot, Anchored
  <2>. QED
    BY <1>2, <2>1, <2>2 DEF IInv
<1>6. CASE AddsMark(j)
  <2>1. /\ db'.marks = (db.marks \ InDb(j)) \cup {j}
        /\ accepted' = accepted \cup {j}
        /\ j \in Mark /\ j \notin db.marks
    BY <1>1, <1>6 DEF AddsMark
  <2>2. /\ j.sequence \in Nat \ {0}
        /\ \A n \in accepted : n \in Mark /\ n.sequence \in Nat \ {0}
    BY <2>1, TrustAssumption DEF IInv, TInv, TypeOK
  \* Whatever the stream of j accepted before is older than j.
  <2>3. \A n \in accepted : SameStream(j, n) => n.sequence < j.sequence
    <3>1. ASSUME NEW n \in accepted, SameStream(j, n)
          PROVE  n.sequence < j.sequence
      <4>1. PICK l \in db.marks : SameStream(n, l) /\ n.sequence <= l.sequence
        BY DEF IInv, Streams
      <4>2. l \in InDb(j)
        BY <3>1, <4>1 DEF InDb, SameStream
      <4>3. j.sequence = l.sequence + 1 /\ l \in accepted
        BY <1>6, <4>1, <4>2 DEF AddsMark, IInv, Streams
      <4>. QED
        BY <4>1, <4>3, <2>2
    <3>. QED
      BY <3>1
  <2>4. \A m, n \in db'.marks : SameStream(m, n) => m = n
    BY <2>1 DEF IInv, Streams, InDb, SameStream
  <2>5. ASSUME NEW m \in accepted'
        PROVE  \E n \in db'.marks : SameStream(m, n) /\ m.sequence <= n.sequence
    <3>1. CASE SameStream(j, m)
      <4>1. m.sequence <= j.sequence
        BY <2>1, <2>2, <2>3, <2>5, <3>1
      <4>. QED
        BY <2>1, <3>1, <4>1 DEF SameStream
    <3>2. CASE ~SameStream(j, m)
      <4>1. m \in accepted
        BY <2>1, <2>5, <3>2 DEF SameStream
      <4>2. PICK n \in db.marks : SameStream(m, n) /\ m.sequence <= n.sequence
        BY <4>1 DEF IInv, Streams
      <4>3. n \in db'.marks
        BY <2>1, <3>2, <4>2 DEF InDb, SameStream
      <4>. QED
        BY <4>2, <4>3
    <3>. QED
      BY <3>1, <3>2
  <2>6. ASSUME NEW m \in accepted', NEW n \in accepted', SameStream(m, n), m.sequence = n.sequence
        PROVE  m = n
    <3>1. CASE m \in accepted /\ n \in accepted
      BY <2>6, <3>1 DEF IInv, Streams
    <3>2. CASE m = j /\ n \in accepted
      BY <2>2, <2>3, <2>6, <3>2
    <3>3. CASE m \in accepted /\ n = j
      BY <2>2, <2>3, <2>6, <3>3 DEF SameStream
    <3>. QED
      BY <2>1, <3>1, <3>2, <3>3
  <2>7. ASSUME NEW m \in accepted', NEW i \in 1 .. m.sequence
        PROVE  \E n \in accepted' : SameStream(m, n) /\ n.sequence = i
    <3>1. CASE m \in accepted
      BY <2>1, <3>1, <2>7 DEF IInv, Streams
    <3>2. CASE m = j /\ i = j.sequence
      BY <2>1, <3>2 DEF SameStream
    <3>3. CASE m = j /\ i # j.sequence
      <4>1. PICK l \in InDb(j) : TRUE
        BY <1>6, <2>2, <3>3 DEF AddsMark
      <4>2. j.sequence = l.sequence + 1 /\ l \in accepted /\ SameStream(j, l)
        BY <1>6, <4>1 DEF AddsMark, InDb, IInv, Streams
      <4>3. i \in 1 .. l.sequence
        BY <2>2, <3>3, <4>2
      <4>4. PICK n \in accepted : SameStream(l, n) /\ n.sequence = i
        BY <4>2, <4>3 DEF IInv, Streams
      <4>. QED
        BY <2>1, <3>3, <4>2, <4>4 DEF SameStream
    <3>. QED
      BY <2>1, <3>1, <3>2, <3>3
  <2>8. db'.marks \subseteq accepted'
    BY <2>1 DEF IInv, Streams
  <2>9. Streams'
    BY <2>4, <2>5, <2>6, <2>7, <2>8 DEF Streams
  <2>10. Anchored'
    BY <1>1, <1>6 DEF IInv, Anchored, AddsMark
  <2>. QED
    BY <1>2, <2>9, <2>10 DEF IInv
<1>. QED
  BY <1>3, <1>4, <1>5, <1>6

LEMMA NextIInv ==
    ASSUME IInv, [Next]_vars
    PROVE  IInv'
<1>1. TInv'
  BY StepTInv DEF IInv
<1>. USE <1>1
<1>2. CASE UNCHANGED vars
  BY <1>2 DEF vars, IInv, Locked, Drafted, Repeats, AddsSnapshot, AddsMark, InDb, Anchoring,
              Newest, AnchorRows, RowOf, SameStream, Streams, Anchored
<1>3. ASSUME NEW p \in Proc, NEW o \in Offer, Begin(p, o, "snapshot")
      PROVE  IInv'
  BY <1>3, BeginIInv
<1>4. ASSUME NEW p \in Proc, NEW m \in Mark, Begin(p, m, "mark")
      PROVE  IInv'
  BY <1>4, BeginIInv
<1>5. ASSUME NEW p \in Proc, Busy(p)
      PROVE  IInv'
  <2>1. UNCHANGED <<lock, db, draft, pc, left, accepted>>
    BY <1>5 DEF Busy
  <2>2. \A q \in Proc : Drafted(q) => Drafted(q)'
    <3>1. ASSUME NEW q \in Proc, q # p
          PROVE  job'[q] = job[q]
      BY <1>5, <3>1 DEF Busy, IInv, TInv, TypeOK
    <3>2. pc'[p] = "idle"
      BY <1>5 DEF Busy
    <3>. QED
      BY <2>1, <3>1, <3>2 DEF Drafted, Repeats, AddsSnapshot, AddsMark, InDb, Anchoring,
                              Newest, AnchorRows, RowOf, SameStream
  <2>. QED
    BY <2>1, <2>2 DEF IInv, Locked, Streams, Anchored
<1>6. ASSUME NEW p \in Proc, Fail(p)
      PROVE  IInv'
  <2>1. pc'[p] = "failed" /\ pc[p] # "idle" /\ \A q \in Proc \ {p} : pc'[q] = pc[q]
    BY <1>6 DEF Fail, Goto, IInv, TInv, TypeOK
  <2>. QED
    BY <1>6, <2>1, Inside DEF Fail, Drafted
<1>7. ASSUME NEW p \in Proc, Rollback(p)
      PROVE  IInv'
  BY <1>7, Dropped DEF Rollback, IInv, Locked
<1>8. ASSUME NEW p \in Proc, Crash(p)
      PROVE  IInv'
  BY <1>8, Dropped DEF Crash
<1>9. ASSUME NEW p \in Proc, Commit(p)
      PROVE  IInv'
  BY <1>9, CommitIInv
<1>10. ASSUME NEW p \in Proc, CheckSnapshot(p) \/ InsertAnchor(p) \/ EndAnchors(p) \/ AcceptMark(p)
       PROVE  IInv'
  BY <1>10, CheckSnapshotIInv, InsertAnchorIInv, EndAnchorsIInv, AcceptMarkIInv
<1>. QED
  BY <1>2, <1>3, <1>4, <1>5, <1>6, <1>7, <1>8, <1>9, <1>10 DEF Next, Step

LEMMA Invariance == Spec => []IInv
<1>1. Init => TInv
  BY TrustAssumption DEF Init, TInv, TypeOK, Arguments, Labels, Tables, Empty
<1>2. Init => IInv
  BY <1>1, TrustAssumption DEF Init, IInv, Locked, Drafted, Streams, Anchored, Empty
<1>. QED
  BY <1>2, NextIInv, PTL DEF Spec

\* The high water of each stream is the last record the stream accepted,
\* whatever processes, failures and crashes come between.
THEOREM HighWaterLatest == Spec => []HighWaterIsLatest
<1>1. IInv => HighWaterIsLatest
  <2>. SUFFICES ASSUME IInv PROVE HighWaterIsLatest
    OBVIOUS
  <2>. DEFINE latest(m) == \A n \in accepted : SameStream(m, n) => n.sequence <= m.sequence
  <2>1. \A m \in accepted : m.sequence \in Nat
    BY TrustAssumption DEF IInv, TInv, TypeOK
  <2>2. ASSUME NEW m \in db.marks
        PROVE  m \in accepted /\ latest(m)
    BY DEF IInv, Streams, SameStream
  <2>3. ASSUME NEW m \in accepted, latest(m)
        PROVE  m \in db.marks
    <3>1. PICK n \in db.marks : SameStream(m, n) /\ m.sequence <= n.sequence
      BY DEF IInv, Streams
    <3>2. n \in accepted
      BY <3>1 DEF IInv, Streams
    <3>3. n.sequence <= m.sequence
      BY <2>3, <3>1, <3>2
    <3>4. n.sequence = m.sequence
      BY <2>1, <3>1, <3>2, <3>3
    <3>. QED
      BY <3>1, <3>2, <3>4 DEF IInv, Streams
  <2>. QED
    BY <2>2, <2>3 DEF HighWaterIsLatest
<1>. QED
  BY <1>1, Invariance, PTL

-----------------------------------------------------------------------------
(* What a call that returned has stored *)

\* A hash stands for one list of anchors: callers hash the policy they pass.
HashCovers ==
    \A a, b \in Offer : RowOf(a) = RowOf(b) => AnchorRows(a) = AnchorRows(b)

\* Every snapshot row has the anchors of an offer with that row.
Complete ==
    \A s \in db.snapshots : \E o \in Offer : RowOf(o) = s /\ AnchorRows(o) \subseteq db.anchors

\* The tables a snapshot lives in, and the history, only grow.
LEMMA Grows ==
    ASSUME IInv, [Next]_vars
    PROVE  /\ db.snapshots \subseteq db'.snapshots
           /\ db.anchors \subseteq db'.anchors
           /\ accepted \subseteq accepted'
<1>1. CASE UNCHANGED <<db, accepted>>
  BY <1>1
<1>2. ASSUME NEW p \in Proc, Commit(p)
      PROVE  /\ db.snapshots \subseteq db'.snapshots
             /\ db.anchors \subseteq db'.anchors
             /\ accepted \subseteq accepted'
  <2>1. Repeats(job[p]) \/ AddsSnapshot(job[p]) \/ AddsMark(job[p])
    BY <1>2 DEF IInv, Drafted, Commit
  <2>. QED
    BY <1>2, <2>1 DEF Commit, Repeats, AddsSnapshot, AddsMark
<1>. QED
  BY <1>1, <1>2 DEF Next, Step, vars, Begin, Busy, Rollback, CheckSnapshot, InsertAnchor,
                    EndAnchors, AcceptMark, Fail, Crash

LEMMA StoredStays ==
    ASSUME IInv, [Next]_vars, NEW j, Stored(j)
    PROVE  Stored(j)'
BY Grows DEF Stored

LEMMA CommitStores ==
    ASSUME HashCovers, IInv, Complete, NEW p \in Proc, Commit(p)
    PROVE  Complete' /\ Stored(job[p])'
<1>. DEFINE j == job[p]
<1>1. db' = draft /\ accepted' = accepted \cup (draft.marks \ db.marks) /\ job' = job
  BY DEF Commit
<1>2. Repeats(j) \/ AddsSnapshot(j) \/ AddsMark(j)
  BY DEF IInv, Drafted, Commit
<1>3. CASE Repeats(j)
  <2>1. Complete' /\ accepted' = accepted
    BY <1>1, <1>3 DEF Repeats, Complete, AnchorRows, RowOf
  <2>2. CASE j \in db.marks
    BY <1>1, <2>1, <2>2 DEF Stored, IInv, Streams
  <2>3. CASE j \in Offer /\ RowOf(j) \in db.snapshots
    <3>1. AnchorRows(j) \subseteq db.anchors
      BY <2>3 DEF Complete, HashCovers
    <3>2. \A i \in DOMAIN j.anchors : <<j.id, j.anchors[i]>> \in db.anchors
      BY <3>1 DEF AnchorRows
    <3>3. Stored(j)
      BY <2>3, <3>2 DEF Stored
    <3>4. db' = db /\ job' = job
      BY <1>1, <1>3 DEF Repeats
    <3>. QED
      BY <2>1, <3>3, <3>4 DEF Stored, RowOf
  <2>. QED
    BY <1>3, <2>1, <2>2, <2>3 DEF Repeats
<1>4. CASE AddsSnapshot(j)
  <2>1. /\ j \in Offer
        /\ db'.snapshots = db.snapshots \cup {RowOf(j)}
        /\ db'.anchors = db.anchors \cup AnchorRows(j)
    BY <1>1, <1>4 DEF AddsSnapshot
  <2>2. Complete'
    BY <2>1 DEF Complete, AnchorRows, RowOf
  <2>3. Stored(j)'
    BY <1>1, <2>1 DEF Stored, AnchorRows, RowOf
  <2>. QED
    BY <2>2, <2>3
<1>5. CASE AddsMark(j)
  BY <1>1, <1>5 DEF AddsMark, Complete, Stored, AnchorRows, RowOf
<1>. QED
  BY <1>2, <1>3, <1>4, <1>5

LEMMA NextStored ==
    ASSUME HashCovers, IInv, Complete, ReturnedIsStored, [Next]_vars
    PROVE  Complete' /\ ReturnedIsStored'
<1>1. ASSUME NEW p \in Proc, Commit(p)
      PROVE  Complete' /\ ReturnedIsStored'
  <2>1. Complete' /\ Stored(job[p])'
    BY <1>1, CommitStores
  <2>2. ASSUME NEW q \in Proc, q # p, outcome'[q] = "accepted"
        PROVE  Stored(job[q])'
    <3>1. outcome[q] = "accepted"
      BY <1>1, <2>2 DEF Commit, IInv, TInv, TypeOK
    <3>2. Stored(job[q])
      BY <3>1 DEF ReturnedIsStored
    <3>3. job' = job
      BY <1>1 DEF Commit
    <3>. QED
      BY <3>2, <3>3, Grows DEF Stored
  <2>. QED
    BY <2>1, <2>2 DEF ReturnedIsStored
<1>2. CASE \A p \in Proc : ~Commit(p)
  <2>1. UNCHANGED <<db, accepted>>
    BY <1>2 DEF Next, Step, vars, Begin, Busy, Rollback, CheckSnapshot, InsertAnchor,
                EndAnchors, AcceptMark, Fail, Crash
  <2>2. ASSUME NEW q \in Proc, outcome'[q] = "accepted"
        PROVE  outcome[q] = "accepted" /\ job'[q] = job[q]
    BY <1>2, <2>2 DEF IInv, TInv, TypeOK, Next, Step, vars, Begin, Busy, Rollback, CheckSnapshot,
                      InsertAnchor, EndAnchors, AcceptMark, Fail, Crash, Discard
  <2>. QED
    BY <2>1, <2>2 DEF Complete, ReturnedIsStored, Stored, AnchorRows, RowOf
<1>. QED
  BY <1>1, <1>2

\* A call that returned without an error has its whole argument committed, the
\* repeated call too, and it stays so.
THEOREM ReturnedStored == HashCovers => (Spec => []ReturnedIsStored)
<1>. SUFFICES ASSUME HashCovers PROVE Spec => []ReturnedIsStored
  OBVIOUS
<1>. DEFINE stored == Complete /\ ReturnedIsStored
<1>1. Init => stored
  BY DEF Init, Empty, Complete, ReturnedIsStored
<1>2. IInv /\ stored /\ [Next]_vars => stored'
  BY NextStored
<1>3. Spec => []stored
  BY <1>1, <1>2, Invariance, PTL DEF Spec
<1>. QED
  BY <1>3, PTL

-----------------------------------------------------------------------------
(* The refinement of TrustLedger *)

Mapped == {WithAnchors(s) : s \in db.snapshots}

\* The ledger's policy an offer stands for.
PolicyOf(o) == [id |-> o.id, hash |-> o.hash, sequence |-> o.sequence,
                anchors |-> {o.anchors[i] : i \in DOMAIN o.anchors}]

\* A snapshot's COMMIT adds its policy, whole, and changes no other.
LEMMA CommitPolicy ==
    ASSUME IInv, NEW o, AddsSnapshot(o), db' = draft, accepted' = accepted
    PROVE  Ledger!AcceptPolicy(PolicyOf(o))
<1>1. o \in Offer /\ o.anchors \in Seq(Anchor)
  BY TrustAssumption DEF AddsSnapshot
<1>2. /\ db'.snapshots = db.snapshots \cup {RowOf(o)}
      /\ db'.anchors = db.anchors \cup AnchorRows(o)
  BY DEF AddsSnapshot
<1>3. \A row \in db.anchors : row[1] # o.id
  BY DEF IInv, Anchored, AddsSnapshot, Newest
<1>4. \A row \in AnchorRows(o) : row[1] = o.id
  BY DEF AnchorRows
<1>5. ASSUME NEW s \in db.snapshots
      PROVE  WithAnchors(s)' = WithAnchors(s)
  <2>1. s.id # o.id
    BY DEF AddsSnapshot, Newest
  <2>2. \A a \in Anchor : <<s.id, a>> \in db'.anchors <=> <<s.id, a>> \in db.anchors
    BY <1>2, <1>4, <2>1
  <2>. QED
    BY <2>2 DEF WithAnchors
<1>6. WithAnchors(RowOf(o))' = PolicyOf(o)
  <2>1. {a \in Anchor : <<o.id, a>> \in db'.anchors} = {o.anchors[i] : i \in DOMAIN o.anchors}
    <3>1. \A i \in DOMAIN o.anchors : o.anchors[i] \in Anchor /\ <<o.id, o.anchors[i]>> \in db'.anchors
      BY <1>1, <1>2 DEF AnchorRows
    <3>2. ASSUME NEW a \in Anchor, <<o.id, a>> \in db'.anchors
          PROVE  \E i \in DOMAIN o.anchors : a = o.anchors[i]
      BY <1>2, <1>3, <3>2 DEF AnchorRows
    <3>. QED
      BY <3>1, <3>2
  <2>. QED
    BY <2>1 DEF WithAnchors, RowOf, PolicyOf
<1>7. Mapped' = Mapped \cup {PolicyOf(o)}
  BY <1>2, <1>5, <1>6 DEF Mapped
<1>8. \A t \in Mapped : t.id # o.id /\ t.sequence < o.sequence
  BY DEF Mapped, WithAnchors, AddsSnapshot, Newest
<1>. QED
  BY <1>7, <1>8 DEF Ledger!AcceptPolicy, Mapped, PolicyOf

\* A mark's COMMIT extends its stream by the next record.
LEMMA CommitStatus ==
    ASSUME IInv, NEW m, AddsMark(m), db' = draft,
           accepted' = accepted \cup (draft.marks \ db.marks)
    PROVE  Ledger!AcceptStatus(m)
<1>1. /\ m \in Mark /\ m.sequence \in Nat \ {0}
      /\ \A n \in accepted : n.sequence \in Nat \ {0}
  BY TrustAssumption DEF AddsMark, IInv, TInv, TypeOK
<1>2. accepted' = accepted \cup {m} /\ db'.snapshots = db.snapshots /\ db'.anchors = db.anchors
  BY DEF AddsMark
<1>. DEFINE stream == {k \in accepted : SameStream(k, m)}
<1>3. {n.sequence : n \in stream} = 1 .. (m.sequence - 1)
  <2>1. ASSUME NEW n \in stream
        PROVE  n.sequence \in 1 .. (m.sequence - 1)
    <3>1. PICK l \in db.marks : SameStream(n, l) /\ n.sequence <= l.sequence
      BY DEF IInv, Streams
    <3>2. l \in InDb(m)
      BY <3>1 DEF InDb, SameStream
    <3>3. m.sequence = l.sequence + 1 /\ l \in accepted
      BY <3>1, <3>2 DEF AddsMark, IInv, Streams
    <3>. QED
      BY <1>1, <3>1, <3>3
  <2>2. ASSUME NEW i \in 1 .. (m.sequence - 1)
        PROVE  \E n \in stream : n.sequence = i
    <3>1. PICK l \in InDb(m) : TRUE
      <4>1. m.sequence # 1
        BY <1>1
      <4>. QED
        BY <4>1 DEF AddsMark
    <3>2. m.sequence = l.sequence + 1 /\ l \in accepted /\ SameStream(m, l)
      BY <3>1 DEF AddsMark, InDb, IInv, Streams
    <3>3. i \in 1 .. l.sequence
      BY <1>1, <3>2
    <3>4. PICK n \in accepted : SameStream(l, n) /\ n.sequence = i
      BY <3>2, <3>3 DEF IInv, Streams
    <3>. QED
      BY <3>2, <3>4 DEF SameStream
  <2>. QED
    BY <2>1, <2>2
<1>4. \E t \in Mapped : t.id = m.snapshot
  <2>1. PICK s \in db.snapshots : s.id = m.snapshot
    BY DEF AddsMark
  <2>2. WithAnchors(s) \in Mapped /\ WithAnchors(s).id = s.id
    BY DEF Mapped, WithAnchors
  <2>. QED
    BY <2>1, <2>2
<1>5. Mapped' = Mapped
  BY <1>2 DEF Mapped, WithAnchors
<1>. QED
  BY <1>2, <1>3, <1>4, <1>5 DEF Ledger!AcceptStatus, Ledger!SameStream, SameStream, Mapped

\* A COMMIT is one step of the ledger, or none when the call repeats an
\* earlier one.
LEMMA CommitRefines ==
    ASSUME IInv, NEW p \in Proc, Commit(p)
    PROVE  [Ledger!Next]_(Ledger!ledgerVars)
<1>1. db' = draft /\ accepted' = accepted \cup (draft.marks \ db.marks)
  BY DEF Commit
<1>2. Repeats(job[p]) \/ AddsSnapshot(job[p]) \/ AddsMark(job[p])
  BY DEF IInv, Drafted, Commit
<1>3. CASE Repeats(job[p])
  BY <1>1, <1>3 DEF Repeats, Ledger!ledgerVars, WithAnchors
<1>4. CASE AddsSnapshot(job[p])
  <2>1. accepted' = accepted /\ job[p] \in Offer
    BY <1>1, <1>4 DEF AddsSnapshot
  <2>2. Ledger!AcceptPolicy(PolicyOf(job[p]))
    BY <1>1, <1>4, <2>1, CommitPolicy
  <2>. QED
    BY <2>1, <2>2 DEF Ledger!Next, PolicyOf
<1>5. CASE AddsMark(job[p])
  <2>1. Ledger!AcceptStatus(job[p]) /\ job[p] \in Mark
    BY <1>1, <1>5, CommitStatus DEF AddsMark
  <2>. QED
    BY <2>1 DEF Ledger!Next
<1>. QED
  BY <1>2, <1>3, <1>4, <1>5

\* Transactions, failures and crashes together keep the promise of the
\* ledger: policies accepted whole and in order, streams without gap or fork.
THEOREM Implementation == Spec => ImplementsLedger
<1>1. Init => Ledger!Init
  BY DEF Init, Ledger!Init, Empty
<1>2. ASSUME IInv, [Next]_vars
      PROVE  [Ledger!Next]_(Ledger!ledgerVars)
  <2>1. CASE UNCHANGED <<db, accepted>>
    BY <2>1 DEF Ledger!ledgerVars, WithAnchors
  <2>2. ASSUME NEW p \in Proc, Commit(p)
        PROVE  [Ledger!Next]_(Ledger!ledgerVars)
    BY <1>2, <2>2, CommitRefines
  <2>. QED
    BY <1>2, <2>1, <2>2 DEF Next, Step, vars, Begin, Busy, Rollback, CheckSnapshot,
                            InsertAnchor, EndAnchors, AcceptMark, Fail, Crash
<1>. QED
  BY <1>1, <1>2, Invariance, PTL DEF Spec, ImplementsLedger, Ledger!Spec

=============================================================================
