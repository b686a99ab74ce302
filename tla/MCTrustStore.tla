---------------------------- MODULE MCTrustStore ----------------------------
(***************************************************************************)
(* A small instance of TrustStore: two good snapshots, and one each that   *)
(* conflicts, steps back and repeats an anchor; a stream of three marks    *)
(* with a fork, and a mark of a snapshot that is never accepted.           *)
(***************************************************************************)
EXTENDS TrustStore

Snapshot(id, hash, sequence, anchors) ==
    [id |-> id, hash |-> hash, sequence |-> sequence, anchors |-> anchors]

MCOffer ==
    {Snapshot("s1", "h1", 2, <<"a1", "a2">>),
     Snapshot("s2", "h2", 3, <<"a1">>),
     Snapshot("s1", "h3", 2, <<"a1", "a2">>),
     Snapshot("s3", "h4", 1, << >>),
     Snapshot("s4", "h5", 4, <<"a1", "a1">>)}

MarkOf(snapshot, sequence, digest) ==
    [snapshot |-> snapshot, publisher |-> "a2", target |-> "k",
     sequence |-> sequence, digest |-> digest]

MCMark ==
    {MarkOf("s1", 1, "d1"), MarkOf("s1", 1, "e1"), MarkOf("s1", 2, "d2"),
     MarkOf("s1", 3, "d3"), MarkOf("s2", 1, "d1"), MarkOf("s4", 1, "d1")}
=============================================================================
