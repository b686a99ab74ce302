--------------------------- MODULE MCEvidenceStore ---------------------------
(***************************************************************************)
(* A small instance of EvidenceStore: delegations b and C, a provenance    *)
(* statement p2 about b with a predecessor p1 about C and a credential,    *)
(* which is no evidence row, and two signed revocations under one id.      *)
(***************************************************************************)
EXTENDS EvidenceStore, TLC

Signed(id, kind, sig, refs, target, effective) ==
    [id |-> id, kind |-> kind, sig |-> sig, refs |-> refs,
     target |-> target, effective |-> effective]

Ref(to, relation) == [to |-> to, relation |-> relation]

MCArtifact ==
    {Signed("b", "delegation", 1, {}, None, 0),
     Signed("C", "delegation", 1, {}, None, 0),
     Signed("p1", "provenance", 1, {Ref("C", "authority"), Ref("root", "authority")}, None, 0),
     Signed("p2", "provenance", 1, {Ref("b", "authority"), Ref("p1", "predecessor")}, None, 0),
     Signed("r", "revocation", 1, {}, "b", 1),
     Signed("r", "revocation", 2, {}, "b", 1)}

\* Delegations only, for the walk over them.
MCDelegation ==
    {Signed(id, "delegation", 1, {}, None, 0) : id \in {"a", "b", "C", "D"}}

\* In code units capitals come first, in a locale the alphabet does.
MCCodeUnit == ("C" :> 1) @@ ("D" :> 2) @@ ("a" :> 3) @@ ("b" :> 4) @@
              ("p1" :> 5) @@ ("p2" :> 6) @@ ("r" :> 7) @@
              ("e1" :> 8) @@ ("e2" :> 9) @@ ("e3" :> 10) @@ ("e4" :> 11) @@
              ("i1" :> 12) @@ ("i2" :> 13) @@ ("i3" :> 14)

MCLocale == ("a" :> 1) @@ ("b" :> 2) @@ ("C" :> 3) @@ ("D" :> 4) @@
            [i \in DOMAIN MCCodeUnit \ {"a", "b", "C", "D"} |-> MCCodeUnit[i]]

ItemCodeUnit == [i \in Item |-> MCCodeUnit[i]]

ItemLocale == [i \in Item |-> MCLocale[i]]

\* Writers and graph readers share no table with the walks over events and
\* credentials: a behaviour has one or the other.
Apart ==
    \/ walk = NoWalk /\ events = {} /\ credentials = {}
    \/ rows = [i \in Id |-> None] /\ graph = NoGraph /\ now = 0
       /\ at = [w \in Writer |-> "idle"]

MCNext == Next /\ Apart'

MCSpec == Init /\ [][MCNext]_vars
=============================================================================
