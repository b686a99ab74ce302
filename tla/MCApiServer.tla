---------------------------- MODULE MCApiServer ----------------------------
(***************************************************************************)
(* A small instance of ApiServer: an agent, four delegations offered (one  *)
(* issued later, one with a bad chain and another signature, one from the  *)
(* root of another issuer), and four ways to set the server up.            *)
(***************************************************************************)
EXTENDS ApiServer

Signed(id, kind, sig) ==
    [id |-> id, kind |-> kind, sig |-> sig, refs |-> {}, target |-> None, effective |-> 0]

MCArtifact == {Signed("d", "delegation", 1), Signed("d", "delegation", 2)}

Offer(sig, root, issued, sound) ==
    [artifact |-> Signed("d", "delegation", sig), root |-> root, issued |-> issued,
     expires |-> 1, sound |-> sound]

MCSubmission == {Offer(1, "a1", 0, TRUE), Offer(1, "a1", 1, TRUE), Offer(2, "a1", 0, FALSE),
                 Offer(2, "elsewhere", 0, TRUE)}

Ask(route, item, local, token, formed) ==
    [route |-> route, item |-> item, peer |-> "p", local |-> local, token |-> token,
     formed |-> formed]

Plain(route, item) == Ask(route, item, TRUE, TRUE, TRUE)

Delegating == {Plain("createDelegation", s) : s \in MCSubmission}
                 \cup {Ask("createDelegation", Offer(1, "a1", 0, TRUE), FALSE, FALSE, TRUE)}

Identifying == {Plain("createIdentity", "a1")}

Reading ==
    {Plain("getDelegation", "d"), Plain("getRevocation", "r"), Plain("getIdentity", "a1"),
     Plain("preflight", None), Plain("verifyRequest", None), Plain("trustAnchors", None),
     Ask("listEvents", None, TRUE, TRUE, FALSE), Ask("createRevocation", None, TRUE, TRUE, FALSE)}

Reloading == {Ask("reload", None, TRUE, good, TRUE) : good \in BOOLEAN}

MCRequest == Delegating \cup Identifying \cup Reading \cup Reloading

MCConfig ==
    {[auth |-> FALSE, remote |-> FALSE, evidence |-> TRUE],
     [auth |-> FALSE, remote |-> FALSE, evidence |-> FALSE],
     [auth |-> FALSE, remote |-> TRUE, evidence |-> TRUE],
     [auth |-> TRUE, remote |-> TRUE, evidence |-> TRUE]}

Asks(routes) == \A c \in Call : req[c] = None \/ req[c].route \in routes

\* Calls that store run with calls that store; the reload of the trust, and
\* the routes that only read, share no state with them.
Storing == {"createIdentity", "createDelegation"}

Untouched == rows["d"] = None /\ roots = {}

Unthrottled == \A p \in Peer : failed[p] = << >>

Apart ==
    \/ Asks({"reload"}) /\ Untouched
    \/ Asks(Routes \ (Storing \cup {"reload"})) /\ Untouched /\ Unthrottled /\ now = 0
    \/ Asks(Storing) /\ Unthrottled /\ now <= 1

MCNext == Next /\ Apart'

MCSpec == Init /\ [][MCNext]_vars /\ Fairness
=============================================================================
