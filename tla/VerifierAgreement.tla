-------------------------- MODULE VerifierAgreement --------------------------
(***************************************************************************)
(* The three verifiers on the same evidence.  The storage routes and the   *)
(* command line ask verifyDelegationChain, the request routes              *)
(* verifyArtifacts; ADR 0002 gives both the same semantics up to STATUS.   *)
(* The identity route asks verifyIdentityCredential of a root alone.       *)
(***************************************************************************)
EXTENDS ChainVerifier, DelegationVerifier, IdentityVerifier

\* Array.filter: what of the artifacts is in S, in the order of the list.
Filter(S) ==
    LET kept[i \in 0 .. Len(Artifacts)] ==
          IF i = 0 THEN << >>
          ELSE IF Artifacts[i] \in S THEN Append(kept[i - 1], Artifacts[i])
          ELSE kept[i - 1]
    IN  kept[Len(Artifacts)]

\* How callers split a list of artifacts (authorizeDelegationStorage).
DelegationInput ==
    [root |-> Root,
     bindings |-> Filter({c \in OfKind(Artifacts, {"credential"}) : c.id # Root.id}),
     delegations |-> Filter(OfKind(Artifacts, {"delegation"})),
     status |-> Filter(OfKind(Artifacts, {"key_status", "revocation"})),
     snapshot |-> input.snapshot,
     now |-> input.now,
     offline |-> OfflineInspection]

\* Codes of a call that has passed STATUS.
PassedStatus ==
    code \in {"VALID", "AUDIENCE_MISMATCH", "ACTION_NOT_ALLOWED", "RESOURCE_NOT_ALLOWED",
              "TASK_NOT_ALLOWED", "OFFLINE_REPLAY_UNAVAILABLE", "REPLAY_DETECTED"}

\* The evidence is the request's chain and no more: each delegation has one
\* child, each credential's key is its own and signs something, one issuer key
\* signs them all.  No delegation is among its own ancestors, for an id is a
\* digest of what names the parent: so of any delegations one is the last.
ChainOnly ==
    LET signed == OfKind(Artifacts, {"delegation", "request"})
        delegations == OfKind(Artifacts, {"delegation"})
        credentials == OfKind(Artifacts, {"credential"})
    IN  /\ Cardinality(Roots(Artifacts)) = 1 /\ Cardinality(OfKind(Artifacts, {"request"})) = 1
        /\ \A d \in delegations : Cardinality({a \in signed : a.parent.id = d.id}) = 1
        /\ \A b, c \in credentials : b.key = c.key => b = c
        /\ \A c \in credentials : (\E a \in signed : a.kid = c.key) /\ c.kid = Root.kid
        /\ \A some \in SUBSET delegations :
              some # {} => \E d \in some : \A e \in some : e.parent.id # d.id

\* The root of a chain that holds, verifyIdentityCredential accepts too, unless
\* its issuer has another key that the snapshot may list first; and a root it
\* accepts is at fault in the chain for its ceiling's interval at most.
RootAgrees ==
    LET decisions == IdentityDecisions(Root, input.snapshot, input.now)
        several == Cardinality(IssuerKeys(Root.issuer, input.snapshot)) > 1
    IN  /\ PassedStatus =>
              "VALID" \in decisions /\ decisions \subseteq {"VALID"} \cup (IF several THEN {"UNTRUSTED_KEY"} ELSE {})
        /\ decisions = {"VALID"} /\ ParseFault = "none" =>
              /\ RootFault(Root, input.snapshot) = "none"
              /\ CryptoFault(Root, Artifacts, input.snapshot) = "none"
              /\ TimeFault(Root, input.now, input.snapshot.skew) = "none"
                   \/ Root.ceiling.from - input.snapshot.skew > input.now
                   \/ Root.ceiling.until + input.snapshot.skew < input.now
                   \/ Root.ceiling.from > Root.ceiling.until

\* Authority that verifyArtifacts accepts for a request, verifyDelegationChain
\* accepts without it; and where only verifyDelegationChain accepts, the
\* request is what is at fault, or an id occurs twice, which verifyDelegationChain
\* minds among the root and the delegations only.
SameAuthority ==
    code # "none" /\ ChainOnly =>
        LET accepts == DelegationDecisions(DelegationInput) = {"VALID"}
        IN  /\ PassedStatus => accepts
            /\ accepts /\ ~PassedStatus =>
                  \/ ~Request.formed \/ ~Request.linked \/ ~Sound(Request) \/ ~Live(Request)
                  \/ ~GivenTo(Parent(Request), Request.signer)
                  \/ Request.signer # input.context.signer
                  \/ input.archived = "bad"
                  \/ ~Distinct(Artifacts)
            /\ RootAgrees
=============================================================================
