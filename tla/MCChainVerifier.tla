--------------------------- MODULE MCChainVerifier ---------------------------
(***************************************************************************)
(* Instances for TLC.  Evidence of a chain: an agent A with root authority   *)
(* delegating to B and B to C who signs a request, with one to three       *)
(* things about it changed.                                                *)
(***************************************************************************)
EXTENDS VerifierAgreement, TLC

Signed(id, kind, kid) == [id |-> id, kind |-> kind, kid |-> kid, formed |-> TRUE, genuine |-> TRUE]

Full == [capabilities |-> {"read", "write"}, resources |-> {"doc"}, tasks |-> {"task"},
         audiences |-> {"hub"}, depth |-> 2, from |-> 0, until |-> 4]

Narrow(depth, until) == [Full EXCEPT !.depth = depth, !.until = until]

Credential(id, purpose, subject, key) ==
    Signed(id, "credential", "ki") @@
    [purpose |-> purpose, issuer |-> "issuer", subject |-> subject, key |-> key,
     issued |-> 1, window |-> [from |-> 0, until |-> 4], ceiling |-> Full]

Delegation(id, kid, delegator, delegate, parent, ceiling) ==
    Signed(id, "delegation", kid) @@
    [delegator |-> delegator, delegate |-> delegate, parent |-> parent, ceiling |-> ceiling]

RequestOf(id, kid, signer, parent) ==
    Signed(id, "request", kid) @@
    [signer |-> signer, parent |-> [kind |-> "delegation", id |-> parent], issued |-> 1,
     window |-> [from |-> 1, until |-> 2], audience |-> "hub", action |-> "read",
     resource |-> "doc", task |-> "task", linked |-> TRUE]

StatusId(key, publisher, sequence, state) == ToString(<<key, publisher, sequence, state>>)

StatusRecord(key, publisher, kid, sequence, state) ==
    Signed(StatusId(key, publisher, sequence, state), "key_status", kid) @@
    [publisher |-> publisher, target |-> key, sequence |-> sequence, state |-> state,
     previous |-> IF sequence = 1 THEN "null" ELSE StatusId(key, publisher, sequence - 1, "active"),
     asOf |-> 0, until |-> 3]

Revocation(type, target, effective) ==
    Signed(ToString(<<"revocation", target>>), "revocation", "kp") @@
    [publisher |-> "p", type |-> type, target |-> target, effective |-> effective]

-----------------------------------------------------------------------------
RootA == Credential("root", "agent-root-authority", "A", "ka")
RootB == Credential("rootB", "agent-root-authority", "B", "kb")
BindB == Credential("bindB", "agent-key-binding", "B", "kb")
BindC == Credential("bindC", "agent-key-binding", "C", "kc")

ToRoot == [kind |-> "credential", id |-> "root"]
ToFirst == [kind |-> "delegation", id |-> "d1"]

First == Delegation("d1", "ka", "A", "B", ToRoot, Narrow(1, 3))
Second == Delegation("d2", "kb", "B", "C", ToFirst, Narrow(0, 3))
Third == RequestOf("req", "kc", "C", "d2")

\* Delegations that could stand in the place of First,
Firsts == <<
    First,
    [First EXCEPT !.ceiling.capabilities = {"read"}],
    [First EXCEPT !.ceiling.capabilities = {"write"}],
    [First EXCEPT !.ceiling.capabilities = {"read", "delete"}],
    [First EXCEPT !.ceiling.depth = 2],
    [First EXCEPT !.ceiling.until = 5],
    [First EXCEPT !.ceiling.from = 3],
    [First EXCEPT !.parent.id = "gone"],
    [First EXCEPT !.parent.kind = "delegation"],
    [First EXCEPT !.parent.id = "bindB"],
    [First EXCEPT !.genuine = FALSE],
    [First EXCEPT !.kid = "kb", !.delegator = "B"]>>

\* of Second,
Seconds == <<
    Second,
    [Second EXCEPT !.ceiling.capabilities = {"read"}],
    [Second EXCEPT !.ceiling.capabilities = {"read", "delete"}],
    [Second EXCEPT !.ceiling.depth = 1],
    [Second EXCEPT !.kid = "ka", !.delegator = "A"],
    [Second EXCEPT !.kid = "ka"],
    [Second EXCEPT !.parent = ToRoot],
    [Second EXCEPT !.parent = [kind |-> "credential", id |-> "bindB"]],
    [Second EXCEPT !.parent = [kind |-> "key_status", id |-> StatusId("ka", "p", 1, "active")]],
    [Second EXCEPT !.delegate = "B"]>>

\* and of the request.
Requests == <<
    Third,
    [Third EXCEPT !.action = "write"],
    [Third EXCEPT !.action = "delete"],
    [Third EXCEPT !.resource = "other"],
    [Third EXCEPT !.task = "other"],
    [Third EXCEPT !.audience = "other"],
    [Third EXCEPT !.linked = FALSE],
    [Third EXCEPT !.window.until = 0],
    [Third EXCEPT !.kid = "kx"],
    [Third EXCEPT !.formed = FALSE],
    [Third EXCEPT !.parent.id = "d1"],
    [Third EXCEPT !.parent.id = "gone"],
    [Third EXCEPT !.parent.id = "d1", !.kid = "kb", !.signer = "B"]>>

Active(key) == StatusRecord(key, "p", "kp", 1, "active")

\* What may stand in the evidence about a key and about revocations.
StatusTails(key) == <<
    <<Active(key)>>,
    << >>,
    <<Active(key), StatusRecord(key, "p", "kp", 2, "revoked")>>,
    <<Active(key), StatusRecord(key, "p", "kp", 2, "active")>>,
    <<StatusRecord(key, "p", "kp", 2, "active"), Active(key)>>,
    <<StatusRecord(key, "p", "kp", 2, "revoked")>>,
    <<StatusRecord(key, "p", "kp", 3, "active"), Active(key)>>,
    <<Active(key), StatusRecord(key, "q", "kq", 2, "active"), StatusRecord(key, "q", "kq", 1, "active")>>,
    <<Active(key), StatusRecord(key, "p", "kq", 2, "active")>>,
    <<[Active(key) EXCEPT !.until = 1]>>,
    <<Active(key), Active(key)>>,
    <<Active(key), Revocation("key", key, 1)>>,
    <<Active(key), Revocation("key", key, 3)>>,
    <<StatusRecord(key, "p", "kp", 2, "revoked"), Active(key), Revocation("key", key, 1)>>,
    <<Active(key), Revocation("delegation", "d1", 1)>>,
    <<Active(key), Revocation("delegation", "d9", 1)>>>>

-----------------------------------------------------------------------------
WaterOf(key, publisher, sequence) ==
    [publisher |-> publisher, target |-> key, sequence |-> sequence,
     digest |-> StatusId(key, publisher, sequence, "active")]

Policy == [issuers |-> ("ki" :> "issuer"),
           publishers |-> ("kp" :> "p") @@ ("kq" :> "q"),
           roots |-> {[issuer |-> "issuer", subject |-> "A"]},
           water |-> {WaterOf(k, "p", 1) : k \in {"ki", "ka", "kb", "kc"}},
           maxDepth |-> 2, skew |-> 0, policy |-> "online-required"]

Policies == <<
    Policy,
    [Policy EXCEPT !.water = {WaterOf(k, "p", 1) : k \in {"ki", "ka", "kc"}} \cup {WaterOf("kb", "p", 2)}],
    [Policy EXCEPT !.water = {WaterOf(k, "p", 1) : k \in {"ki", "ka", "kc"}} \cup {WaterOf("kb", "q", 2)}],
    [Policy EXCEPT !.maxDepth = 1],
    [Policy EXCEPT !.policy = "offline-inspection-only"],
    [Policy EXCEPT !.roots = {}],
    [Policy EXCEPT !.issuers = ("kz" :> "issuer")],
    [Policy EXCEPT !.issuers = ("ki" :> "other")],
    [Policy EXCEPT !.issuers = ("ki" :> "issuer") @@ ("kp" :> "issuer")],
    [Policy EXCEPT !.issuers = ("ki" :> "issuer") @@ ("kz" :> "issuer")],
    [Policy EXCEPT !.skew = 1]>>

Context == [audience |-> "hub", action |-> "read", resource |-> "doc", task |-> "task",
            signer |-> "C", replayRequired |-> TRUE]

Contexts == <<
    Context,
    [Context EXCEPT !.action = "write"],
    [Context EXCEPT !.audience = "other"],
    [Context EXCEPT !.task = "other"],
    [Context EXCEPT !.signer = "B"],
    [Context EXCEPT !.replayRequired = FALSE]>>

Modes == <<
    [mode |-> "online", replay |-> "available", archived |-> "none"],
    [mode |-> "offline", replay |-> "available", archived |-> "none"],
    [mode |-> "online", replay |-> "duplicate", archived |-> "none"],
    [mode |-> "online", replay |-> "available", archived |-> "bad"]>>

Online == Modes[1]

Orders == <<<<1, 2, 3, 4, 5, 6>>, <<6, 5, 4, 3, 2, 1>>, <<3, 1, 5, 2, 6, 4>>>>

\* The evidence in one order, status records last or first.
Arranged(core, tail, order, last) ==
    LET listed == [i \in 1 .. 6 |-> core[order[i]]]
        rest == <<Active("ki"), Active("ka"), Active("kc")>> \o tail
    IN  IF last THEN listed \o rest ELSE rest \o listed

Call(artifacts, policy, context, now, m) ==
    [artifacts |-> artifacts, snapshot |-> policy, context |-> context, now |-> now,
     mode |-> m.mode, replay |-> m.replay, archived |-> m.archived]

Core(first, second, request) == <<RootA, BindB, BindC, first, second, request>>

\* Calls are numbered; Digit reads one choice from a number written with
\* several bases, the product of those to the right being unit.
Digit(n, unit, list) == list[(((n - 1) \div unit) % Len(list)) + 1]

\* The chain varied, in every order;
ChainCalls ==
    LET f == Len(Firsts)
        s == f * Len(Seconds)
        r == s * Len(Requests)
    IN  [n \in 1 .. (r * Len(Orders)) |->
            LET request == Digit(n, s, Requests)
            IN  Call(Arranged(Core(Digit(n, 1, Firsts), Digit(n, f, Seconds), request),
                              <<Active("kb")>>, Digit(n, r, Orders), TRUE),
                     Policy, [Context EXCEPT !.signer = request.signer], 2, Online)]

\* the records on B's key and the snapshot varied, over time, orders and modes;
StatusCalls ==
    LET tails == StatusTails("kb")
        t == Len(tails)
        p == t * Len(Policies)
        o == p * 2
        l == o * 2
        w == l * 3
    IN  [n \in 1 .. (w * 2) |->
            Call(Arranged(Core(First, Second, Third), Digit(n, 1, tails), Digit(n, p, Orders),
                          Digit(n, o, <<TRUE, FALSE>>)),
                 Digit(n, t, Policies), Context, Digit(n, l, <<0, 2, 4>>), Digit(n, w, Modes))]

\* the context and the modes;
ContextCalls ==
    LET requests == <<Third, [Third EXCEPT !.action = "write"], [Third EXCEPT !.audience = "other"]>>
        tails == <<<<Active("kb")>>, << >>>>
        policies == <<Policy, [Policy EXCEPT !.policy = "offline-inspection-only"]>>
        c == Len(Contexts)
        m == c * Len(Modes)
    IN  [n \in 1 .. (m * 12) |->
            Call(Arranged(Core(First, Second, Digit(n, m, requests)), Digit(n, m * 3, tails), Orders[1], TRUE),
                 Digit(n, m * 6, policies), Digit(n, 1, Contexts), 2, Digit(n, c, Modes))]

\* the credentials: a second root, one that is no root, one that is not an
\* issuer's, and beside the chain a delegation, a second
\* credential of a key, a record given twice;
RootsA == <<RootA, [RootA EXCEPT !.purpose = "agent-key-binding"], [RootA EXCEPT !.window.from = 2]>>

HoldersB == <<BindB, RootB, [BindB EXCEPT !.kid = "kx"],
              [BindB EXCEPT !.kid = "kx", !.issuer = "none"], [BindB EXCEPT !.kid = "ka"]>>

CredentialCalls ==
    LET holdersC == <<BindC, [BindC EXCEPT !.subject = "B"]>>
        beside == <<<< >>, <<Delegation("d3", "kb", "B", "A", ToFirst, Narrow(0, 3))>>,
                    <<[BindB EXCEPT !.id = "bindA", !.key = "ka"]>>,
                    <<Revocation("delegation", "d9", 1), Revocation("delegation", "d9", 1)>>>>
        policies == <<Policy, [Policy EXCEPT !.roots = @ \cup {[issuer |-> "issuer", subject |-> "B"]}]>>
        swapped == <<<<1, 2, 3>>, <<2, 1, 3>>>>
    IN  [n \in 1 .. 480 |->
            LET held == <<Digit(n, 1, RootsA), Digit(n, 3, HoldersB), Digit(n, 15, holdersC)>>
                order == Digit(n, 240, swapped)
            IN  Call(Digit(n, 30, beside) \o
                       <<held[order[1]], held[order[2]], held[3], First, Second, Third,
                         Active("ki"), Active("ka"), Active("kb"), Active("kc")>>,
                     Digit(n, 120, policies), Context, 2, Online)]

\* and two credentials of one key, of the same holder or not, on every side of
\* each other.
HolderCalls ==
    LET others == <<[BindB EXCEPT !.id = "other"],
                    [BindB EXCEPT !.id = "other", !.subject = "C"],
                    [BindC EXCEPT !.id = "other"],
                    [BindC EXCEPT !.id = "other", !.subject = "B"],
                    [BindC EXCEPT !.id = "other", !.key = "ka"]>>
        keys == <<Active("ki"), Active("ka"), Active("kb"), Active("kc")>>
    IN  [n \in 1 .. 30 |->
            LET other == <<Digit(n, 1, others)>>
                listed == [i \in 1 .. 6 |-> Core(First, Second, Third)[Digit(n, 5, Orders)[i]]]
            IN  Call((IF n <= 15 THEN other \o listed ELSE listed \o other) \o keys, Policy, Context, 2, Online)]

MCInput ==
    Elements(ChainCalls) \cup Elements(StatusCalls) \cup Elements(ContextCalls)
        \cup Elements(CredentialCalls) \cup Elements(HolderCalls)
=============================================================================
