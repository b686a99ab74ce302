----------------------------- MODULE TrustStore -----------------------------
(***************************************************************************)
(* The trust tables of SqliteStorage: acceptTrustSnapshot and              *)
(* acceptStatusHighWater, statement by statement inside #transaction, by   *)
(* any number of processes with the database file open.                    *)
(*                                                                         *)
(* SQLite is external and modelled by what the code relies on: BEGIN       *)
(* IMMEDIATE takes the one write lock or fails at once (no busy timeout is *)
(* set), statements work on a draft, COMMIT publishes it, and ROLLBACK or  *)
(* the death of the process drops it.                                      *)
(***************************************************************************)
EXTENDS Integers, Sequences, FiniteSets

CONSTANTS
    Proc,       \* processes that have the database open
    Offer,      \* [id, hash, sequence, anchors]: snapshots offered to accept
    Mark,       \* [snapshot, publisher, target, sequence, digest]: marks offered
    Anchor,     \* anchor ids
    None        \* no process

ASSUME TrustAssumption ==
    /\ None \notin Proc
    /\ \A o \in Offer : o.sequence \in Nat /\ o.anchors \in Seq(Anchor)
    /\ \A m \in Mark : m.sequence \in Nat \ {0}

VARIABLES
    lock,       \* the process whose write transaction is open
    db,         \* the committed tables trust_snapshots, trust_anchors, status_publishers
    draft,      \* the same tables as the open transaction sees them
    pc,         \* the statement each process is at
    job,        \* the argument of its call, the last one if it returned
    left,       \* the anchors it has still to insert
    outcome,    \* how its last call ended
    accepted    \* history: the status marks ever committed

vars == <<lock, db, draft, pc, job, left, outcome, accepted>>

Empty == [snapshots |-> {}, anchors |-> {}, marks |-> {}]

Init ==
    /\ lock = None
    /\ db = Empty
    /\ draft = Empty
    /\ pc = [p \in Proc |-> "idle"]
    /\ job = [p \in Proc |-> None]
    /\ left = [p \in Proc |-> << >>]
    /\ outcome = [p \in Proc |-> "none"]
    /\ accepted = {}

Goto(p, label) == pc' = [pc EXCEPT ![p] = label]

-----------------------------------------------------------------------------
(* #transaction *)

\* BEGIN IMMEDIATE.
Begin(p, argument, label) ==
    /\ pc[p] = "idle"
    /\ lock = None
    /\ lock' = p
    /\ draft' = db
    /\ job' = [job EXCEPT ![p] = argument]
    /\ outcome' = [outcome EXCEPT ![p] = "none"]
    /\ Goto(p, label)
    /\ UNCHANGED <<db, left, accepted>>

\* BEGIN IMMEDIATE while another process writes: the call throws.
Busy(p) ==
    /\ pc[p] = "idle"
    /\ lock # None
    /\ outcome' = [outcome EXCEPT ![p] = "thrown"]
    /\ job' = [job EXCEPT ![p] = None]
    /\ UNCHANGED <<lock, db, draft, pc, left, accepted>>

\* COMMIT.
Commit(p) ==
    /\ pc[p] = "committing"
    /\ db' = draft
    /\ accepted' = accepted \cup (draft.marks \ db.marks)
    /\ lock' = None
    /\ draft' = Empty
    /\ outcome' = [outcome EXCEPT ![p] = "accepted"]
    /\ Goto(p, "idle")
    /\ UNCHANGED <<job, left>>

\* Mutant of Fail: a statement's error is caught and the transaction goes on.
FailSwallowed(p) ==
    /\ pc[p] \notin {"idle", "failed"}
    /\ Goto(p, "committing")
    /\ UNCHANGED <<lock, db, draft, job, left, outcome, accepted>>

\* Any statement, COMMIT too, can fail for a reason of its own.
Fail(p) ==
    /\ pc[p] \notin {"idle", "failed"}
    /\ Goto(p, "failed")
    /\ UNCHANGED <<lock, db, draft, job, left, outcome, accepted>>

\* The draft and the call of p are gone.
Discard(p) ==
    /\ draft' = Empty
    /\ job' = [job EXCEPT ![p] = None]
    /\ left' = [left EXCEPT ![p] = << >>]
    /\ Goto(p, "idle")

\* Mutant of Rollback: the catch block only rethrows.
RethrowOnly(p) ==
    /\ pc[p] = "failed"
    /\ outcome' = [outcome EXCEPT ![p] = "thrown"]
    /\ job' = [job EXCEPT ![p] = None]
    /\ left' = [left EXCEPT ![p] = << >>]
    /\ Goto(p, "idle")
    /\ UNCHANGED <<lock, db, draft, accepted>>

\* The catch block: ROLLBACK, and the error is thrown on.
Rollback(p) ==
    /\ pc[p] = "failed"
    /\ lock' = None
    /\ outcome' = [outcome EXCEPT ![p] = "thrown"]
    /\ Discard(p)
    /\ UNCHANGED <<db, accepted>>

\* The process dies in a transaction and is started again.
Crash(p) ==
    /\ lock = p
    /\ lock' = None
    /\ outcome' = [outcome EXCEPT ![p] = "none"]
    /\ Discard(p)
    /\ UNCHANGED <<db, accepted>>

-----------------------------------------------------------------------------
(* acceptTrustSnapshot *)

RowOf(o) == [id |-> o.id, hash |-> o.hash, sequence |-> o.sequence]

\* Mutant of RolledBack: only the snapshot of the same sequence is looked at.
SameSequence(o) == \E s \in draft.snapshots : o.sequence = s.sequence

RolledBack(o) == \E s \in draft.snapshots : o.sequence <= s.sequence

\* The SELECTs and their checks, and the INSERT of the snapshot row.
CheckSnapshot(p) ==
    LET o == job[p]
        sameId == {s \in draft.snapshots : s.id = o.id}
    IN  /\ pc[p] = "snapshot"
        /\ \/ /\ sameId # {}
              /\ Goto(p, IF RowOf(o) \in sameId THEN "committing" ELSE "failed")
              /\ UNCHANGED <<draft, left>>
           \/ /\ sameId = {}
              /\ RolledBack(o)
              /\ Goto(p, "failed")
              /\ UNCHANGED <<draft, left>>
           \/ /\ sameId = {}
              /\ ~RolledBack(o)
              /\ draft' = [draft EXCEPT !.snapshots = @ \cup {RowOf(o)}]
              /\ left' = [left EXCEPT ![p] = o.anchors]
              /\ Goto(p, "anchoring")
        /\ UNCHANGED <<lock, db, job, outcome, accepted>>

\* INSERT INTO trust_anchors, one statement per anchor.
InsertAnchor(p) ==
    LET row == <<job[p].id, Head(left[p])>>
    IN  /\ pc[p] = "anchoring"
        /\ left[p] # << >>
        /\ \/ row \in draft.anchors /\ Goto(p, "failed") /\ UNCHANGED <<draft, left>>
           \/ /\ row \notin draft.anchors
              /\ draft' = [draft EXCEPT !.anchors = @ \cup {row}]
              /\ left' = [left EXCEPT ![p] = Tail(@)]
              /\ UNCHANGED pc
        /\ UNCHANGED <<lock, db, job, outcome, accepted>>

EndAnchors(p) ==
    /\ pc[p] = "anchoring"
    /\ left[p] = << >>
    /\ Goto(p, "committing")
    /\ UNCHANGED <<lock, db, draft, job, left, outcome, accepted>>

-----------------------------------------------------------------------------
(* acceptStatusHighWater *)

SameStream(m, n) ==
    /\ m.snapshot = n.snapshot
    /\ m.publisher = n.publisher
    /\ m.target = n.target

\* The row of the mark's stream, if there is one.
Previous(m) == {n \in draft.marks : SameStream(m, n)}

Follows(m) ==
    /\ Previous(m) = {} => m.sequence = 1
    /\ \A n \in Previous(m) : m.sequence = n.sequence + 1

\* The foreign key of status_publishers.
Known(m) == \E s \in draft.snapshots : s.id = m.snapshot

\* Mutant of Upsert: the row of a stream is not replaced.
UpsertBeside(m) == draft' = [draft EXCEPT !.marks = @ \cup {m}]

\* Mutant of Upsert: the values are bound to the columns in a wrong order.
UpsertSwapped(m) ==
    draft' = [draft EXCEPT !.marks =
        (@ \ Previous(m)) \cup {[m EXCEPT !.publisher = m.target, !.target = m.publisher]}]

\* INSERT ... ON CONFLICT DO UPDATE.
Upsert(m) == draft' = [draft EXCEPT !.marks = (@ \ Previous(m)) \cup {m}]

AcceptMark(p) ==
    LET m == job[p]
    IN  /\ pc[p] = "mark"
        /\ \/ m \in Previous(m) /\ Goto(p, "committing") /\ UNCHANGED draft
           \/ /\ m \notin Previous(m)
              /\ Follows(m) /\ Known(m)
              /\ Upsert(m)
              /\ Goto(p, "committing")
           \/ /\ m \notin Previous(m)
              /\ ~(Follows(m) /\ Known(m))
              /\ Goto(p, "failed")
              /\ UNCHANGED draft
        /\ UNCHANGED <<lock, db, job, left, outcome, accepted>>

-----------------------------------------------------------------------------
Step(p) ==
    \/ Commit(p)
    \/ Rollback(p)
    \/ CheckSnapshot(p)
    \/ InsertAnchor(p)
    \/ EndAnchors(p)
    \/ AcceptMark(p)

Next ==
    \E p \in Proc :
        \/ \E o \in Offer : Begin(p, o, "snapshot")
        \/ \E m \in Mark : Begin(p, m, "mark")
        \/ Busy(p)
        \/ Step(p)
        \/ Fail(p)
        \/ Crash(p)

\* A transaction is one synchronous call: its process runs it to the end.
Fairness == \A p \in Proc : WF_vars(Step(p))

Spec == Init /\ [][Next]_vars

FairSpec == Spec /\ Fairness

-----------------------------------------------------------------------------
(* Properties *)

Labels == {"idle", "snapshot", "anchoring", "mark", "committing", "failed"}

Tables == [snapshots : SUBSET {RowOf(o) : o \in Offer},
           anchors : SUBSET ({o.id : o \in Offer} \X Anchor),
           marks : SUBSET Mark]

\* The shape of every variable.
TypeOK ==
    /\ lock \in Proc \cup {None}
    /\ db \in Tables
    /\ draft \in Tables
    /\ pc \in [Proc -> Labels]
    /\ job \in [Proc -> Offer \cup Mark \cup {None}]
    /\ left \in [Proc -> Seq(Anchor)]
    /\ outcome \in [Proc -> {"none", "accepted", "thrown"}]
    /\ accepted \subseteq Mark

\* The high water a verifier reads for a stream is the last record the stream
\* accepted: no crash, failure or concurrent writer makes it older, and there
\* is one row for each stream.
HighWaterIsLatest ==
    db.marks = {m \in accepted : \A n \in accepted : SameStream(m, n) => n.sequence <= m.sequence}

\* The mark, or the snapshot with every anchor, is in the tables.
Stored(argument) ==
    \/ argument \in accepted
    \/ /\ argument \in Offer
       /\ RowOf(argument) \in db.snapshots
       /\ \A i \in DOMAIN argument.anchors : <<argument.id, argument.anchors[i]>> \in db.anchors

\* A call that returned without an error has its whole argument committed,
\* the repeated call too, and no later call or failure takes it away.  (One
\* hash stands for one list of anchors: callers hash the policy they pass.)
ReturnedIsStored == \A p \in Proc : outcome[p] = "accepted" => Stored(job[p])

\* A write transaction ends, however its statements fail, and gives the lock
\* back (the try and catch of #transaction).
Released == \A p \in Proc : lock = p ~> lock # p

\* The database as the ledger sees it: each snapshot row with its anchors.
WithAnchors(s) ==
    [id |-> s.id, hash |-> s.hash, sequence |-> s.sequence,
     anchors |-> {a \in Anchor : <<s.id, a>> \in db.anchors}]

Ledger == INSTANCE TrustLedger WITH
    Policy <- {[id |-> o.id, hash |-> o.hash, sequence |-> o.sequence,
                anchors |-> {o.anchors[i] : i \in DOMAIN o.anchors}] : o \in Offer},
    Status <- Mark,
    policies <- {WithAnchors(s) : s \in db.snapshots},
    statuses <- accepted

\* Transactions, failures and crashes together keep the promise of the ledger.
ImplementsLedger == Ledger!Spec
=============================================================================
