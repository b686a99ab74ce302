------------------------- MODULE DelegationVerifier -------------------------
(***************************************************************************)
(* verifyDelegationChain, the verifier of authority without a request, as  *)
(* a function of its input                                                 *)
(*   [root, bindings, delegations, status, snapshot, now, offline]         *)
(* where bindings, delegations and status are lists, in any order.         *)
(***************************************************************************)
EXTENDS SignedEvidence

All(in) == <<in.root>> \o in.bindings \o in.delegations \o in.status

Linkable(in) == <<in.root>> \o in.delegations

DelegationParseFault(in) ==
    IF \E a \in Elements(All(in)) : ~a.formed THEN "MALFORMED"
    ELSE IF DOMAIN in.snapshot.issuers \cap DOMAIN in.snapshot.publishers # {}
      THEN "TRUST_SNAPSHOT_INVALID"
    ELSE IF in.root \notin Roots(All(in)) THEN "MIXED_TRUST_ROOT"
    ELSE IF ~Distinct(Linkable(in)) THEN "CHAIN_PARENT_AMBIGUOUS"
    ELSE "none"

ParentIn(in, d) == CHOOSE p \in Elements(Linkable(in)) : p.id = d.parent.id

Unlinked(in) ==
    \E d \in Elements(in.delegations) :
        \A p \in Elements(Linkable(in)) : p.kind # d.parent.kind \/ p.id # d.parent.id

Leaves(in) ==
    {d \in Elements(in.delegations) :
        \A e \in Elements(in.delegations) : e.parent.id # d.id}

\* The loop from the leaf up: the delegations on the way, leaf first.
Line(in) ==
    LET up[n \in 0 .. Len(in.delegations)] ==
          IF n = 0 THEN <<CHOOSE d \in Leaves(in) : TRUE>>
          ELSE LET parent == ParentIn(in, up[n - 1][Len(up[n - 1])])
               IN  IF parent = in.root THEN up[n - 1] ELSE Append(up[n - 1], parent)
    IN  up[Len(in.delegations)]

Recipient(p) == IF p.kind = "credential" THEN p.subject ELSE p.delegate

\* Mutant of LineFault: the ceilings are compared with the root's alone.
LineFaultRoot(in) ==
    LET line == Line(in)
    IN  IF \E d \in Elements(line) : Recipient(ParentIn(in, d)) # d.delegator
          THEN "CHAIN_PARENT_MISSING"
        ELSE IF Len(line) > in.snapshot.maxDepth THEN "CHAIN_BOUNDS_EXCEEDED"
        ELSE IF \E d \in Elements(line) : ~Attenuates(d.ceiling, in.root.ceiling)
          THEN "ATTENUATION_VIOLATION"
        ELSE "none"

LineFault(in) ==
    LET line == Line(in)
    IN  IF \E d \in Elements(line) : Recipient(ParentIn(in, d)) # d.delegator
          THEN "CHAIN_PARENT_MISSING"
        ELSE IF Len(line) > in.snapshot.maxDepth THEN "CHAIN_BOUNDS_EXCEEDED"
        ELSE IF \E d \in Elements(line) : ~Attenuates(d.ceiling, ParentIn(in, d).ceiling)
          THEN "ATTENUATION_VIOLATION"
        ELSE "none"

DelegationChainFault(in) ==
    IF Unlinked(in) THEN "CHAIN_PARENT_MISSING"
    ELSE IF Cardinality(Leaves(in)) # 1 THEN "CHAIN_PARENT_AMBIGUOUS"
    ELSE LineFault(in)

KeysOf(artifacts) ==
    {a.kid : a \in artifacts} \cup {a.key : a \in {c \in artifacts : c.kind = "credential"}}

\* A selected record is looked at for its stream before its state.
DelegationKeyFault(in, key) ==
    LET selected == StatusFor(in.status, key)
    IN  IF StatusOf(in.status, key) = {}
          THEN IF in.offline THEN "none" ELSE "STATUS_UNAVAILABLE"
        ELSE IF ~StatusChainValid(in.status, selected) THEN "STATUS_UNAVAILABLE"
        ELSE IF selected.state # "active" THEN "KEY_NOT_USABLE"
        ELSE IF in.offline THEN "none"
        ELSE IF ~AtHighWater(selected, in.snapshot) THEN "STATUS_ROLLBACK"
        ELSE IF selected.asOf > in.now \/ selected.until < in.now THEN "STATUS_STALE"
        ELSE "none"

\* The keys of bindings count, used or not; of several at fault any is first.
DelegationStatusFaults(in) ==
    LET ordered == {in.root} \cup Elements(Line(in))
        keys == KeysOf(ordered \cup Elements(in.bindings))
        faults == {DelegationKeyFault(in, k) : k \in keys} \ {"none"}
    IN  IF faults # {} THEN faults
        ELSE IF \E r \in Elements(in.status) : Revokes(r, {a.id : a \in ordered}, keys, in.now)
          THEN {"REVOKED"}
        ELSE {}

\* The codes verifyDelegationChain may return: one, but for the order of keys.
DelegationDecisions(in) ==
    LET early == FirstFault(<<DelegationParseFault(in),
                              CryptoFaults(All(in), in.snapshot),
                              TimeFaults(All(in), in.now, in.snapshot.skew),
                              RootFault(in.root, in.snapshot)>>)
    IN  IF early # "none" THEN {early}
        ELSE IF DelegationChainFault(in) # "none" THEN {DelegationChainFault(in)}
        ELSE IF DelegationStatusFaults(in) # {} THEN DelegationStatusFaults(in)
        ELSE {"VALID"}
=============================================================================
