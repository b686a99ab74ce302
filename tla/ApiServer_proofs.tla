-------------------------- MODULE ApiServer_proofs --------------------------
(***************************************************************************)
(* Proofs about ApiServer, for any calls, clients, agents and artifacts.   *)
(***************************************************************************)
EXTENDS ApiServer, FiniteSetTheorems, TLAPS

Status == {200, 201, 204, 400, 401, 403, 404, 429, 500}

CallTypes ==
    /\ pc \in [Call -> InFlight \cup {"idle"}]
    /\ req \in [Call -> Request \cup {None}]
    /\ seen \in [Call -> SUBSET Agent]
    /\ asked \in [Call -> Nat]
    /\ answer \in {None} \cup [call : Call, status : Status]

\* What a call on its way has shown.
CallOK(c) ==
    /\ pc[c] # "idle" => req[c] \in Request /\ Offered(req[c])
    /\ pc[c] \notin {"idle", "gate"} => Admitted(req[c])
    /\ asked[c] <= now
    /\ pc[c] = "creating" => req[c].route = "createIdentity"
    /\ pc[c] \in {"authorizing", "storing"} => req[c].route = "createDelegation"
    /\ pc[c] = "storing" => Authorised(req[c].item, seen[c], asked[c])

AInv ==
    /\ TypeOK
    /\ published \subseteq credentials
    /\ \A c \in Call : CallOK(c)

SameCall(c) ==
    pc'[c] = pc[c] /\ req'[c] = req[c] /\ seen'[c] = seen[c] /\ asked'[c] = asked[c]

Others(c) == \A d \in Call \ {c} : SameCall(d)

LEMMA AnswerTypes ==
    ASSUME CallTypes, NEW c \in Call, NEW code \in Status, Answer(c, code)
    PROVE  /\ CallTypes' /\ Others(c)
           /\ pc'[c] = "idle" /\ asked'[c] = 0
BY DEF CallTypes, Answer, Goto, Others, SameCall

LEMMA ProceedTypes ==
    ASSUME CallTypes, NEW c \in Call, NEW label \in InFlight, Proceed(c, label)
    PROVE  /\ CallTypes' /\ Others(c)
           /\ pc'[c] = label /\ req' = req /\ seen' = seen /\ asked' = asked
BY DEF CallTypes, Proceed, Goto, Quiet, Others, SameCall

\* The calls whose step it is not.
LEMMA OtherCalls ==
    ASSUME NEW c \in Call, SameCall(c), CallOK(c), config' = config,
           now \in Nat, now' \in Nat, now <= now', asked[c] \in Nat, published \subseteq published'
    PROVE  CallOK(c)'
<1>1. Admitted(req[c]) => Admitted(req[c])'
  BY DEF Admitted, SameCall
<1>2. Offered(req[c]) => Offered(req[c])'
  BY DEF Offered, SameCall
<1>. QED
  BY <1>1, <1>2 DEF CallOK, SameCall, Authorised

LEMMA PutTypes ==
    ASSUME TypeOK, NEW a \in Artifact, PutArtifact(a)
    PROVE  /\ rows' \in [Id -> Artifact \cup {None}] /\ revocations' = revocations
           /\ \A i \in Id : rows[i] # None => rows'[i] = rows[i]
           /\ rows'[a.id] = a
<1>1. a.id \in Id /\ rows \in [Id -> Artifact \cup {None}]
  BY DEF Id, TypeOK
<1>. QED
  BY <1>1 DEF PutArtifact, Conflicts, Insert

\* A step of a call that is answered or goes on, and stores nothing.
LEMMA AnswerAInv ==
    ASSUME AInv, NEW c \in Call, NEW code \in Status, Answer(c, code),
           UNCHANGED <<tables, process, credentials, published, throttle, grants>>,
           roots' \subseteq Agent
    PROVE  AInv'
<1>1. CallTypes
  BY DEF AInv, TypeOK, CallTypes, Status
<1>2. CallTypes' /\ Others(c) /\ pc'[c] = "idle" /\ asked'[c] = 0
  BY <1>1, AnswerTypes
<1>3. TypeOK'
  BY <1>2 DEF AInv, TypeOK, CallTypes, Status, tables, process, throttle
<1>4. \A d \in Call \ {c} : CallOK(d)'
  BY <1>2, OtherCalls DEF AInv, TypeOK, Others, process
<1>5. CallOK(c)'
  BY <1>2 DEF CallOK, AInv, TypeOK, process
<1>. QED
  BY <1>3, <1>4, <1>5 DEF AInv

LEMMA ProceedAInv ==
    ASSUME AInv, NEW c \in Call, NEW label \in InFlight, Proceed(c, label), pc[c] # "idle",
           UNCHANGED <<tables, process, credentials, published, throttle, grants>>,
           roots' \subseteq Agent,
           Admitted(req[c]),
           label = "creating" => req[c].route = "createIdentity",
           label \in {"authorizing", "storing"} => req[c].route = "createDelegation",
           label = "storing" => Authorised(req[c].item, seen[c], asked[c])
    PROVE  AInv'
<1>1. CallTypes
  BY DEF AInv, TypeOK, CallTypes, Status
<1>2. /\ CallTypes' /\ Others(c)
      /\ pc'[c] = label /\ req' = req /\ seen' = seen /\ asked' = asked
  BY <1>1, ProceedTypes
<1>3. TypeOK'
  BY <1>2 DEF AInv, TypeOK, CallTypes, Status, tables, process, throttle
<1>4. \A d \in Call \ {c} : CallOK(d)'
  BY <1>2, OtherCalls DEF AInv, TypeOK, Others, process
<1>5. CallOK(c)'
  BY <1>2 DEF CallOK, AInv, TypeOK, process, Admitted, Offered, Authorised
<1>. QED
  BY <1>3, <1>4, <1>5 DEF AInv

-----------------------------------------------------------------------------
(* Steps of a call *)

LEMMA SubmitAInv ==
    ASSUME AInv, NEW c \in Call, Submit(c)
    PROVE  AInv'
<1>1. CASE Answer(c, 400)
  BY <1>1, AnswerAInv DEF Submit, Status, AInv, TypeOK, identities
<1>2. CASE ~Answer(c, 400)
  <2>1. /\ asked' = [asked EXCEPT ![c] = now] /\ pc' = [pc EXCEPT ![c] = "trusting"]
        /\ answer' = None /\ req' = req /\ seen' = seen
        /\ UNCHANGED <<tables, process, identities, throttle, grants>>
        /\ pc[c] = "handle"
    BY <1>2 DEF Submit, Goto, Quiet
  <2>2. TypeOK' /\ Others(c) /\ asked'[c] = now /\ pc'[c] = "trusting"
    BY <2>1 DEF AInv, TypeOK, Others, SameCall, InFlight, tables, process, identities, throttle
  <2>3. \A d \in Call \ {c} : CallOK(d)'
    BY <2>1, <2>2, OtherCalls DEF AInv, TypeOK, Others, process, identities
  <2>4. CallOK(c)'
    BY <2>1, <2>2 DEF CallOK, AInv, TypeOK, process, identities, Admitted, Offered
  <2>. QED
    BY <2>1, <2>2, <2>3, <2>4 DEF AInv, identities
<1>. QED
  BY <1>1, <1>2

LEMMA ReadTrustAInv ==
    ASSUME AInv, NEW c \in Call, ReadTrust(c)
    PROVE  AInv'
<1>1. /\ seen' = [seen EXCEPT ![c] = roots] /\ pc' = [pc EXCEPT ![c] = "authorizing"]
      /\ answer' = None /\ req' = req /\ asked' = asked
      /\ UNCHANGED <<tables, process, identities, throttle, grants>>
      /\ pc[c] = "trusting" /\ req[c].route = "createDelegation"
  BY DEF ReadTrust, Goto, Quiet
<1>2. TypeOK' /\ Others(c) /\ pc'[c] = "authorizing"
  BY <1>1 DEF AInv, TypeOK, Others, SameCall, InFlight, tables, process, identities, throttle
<1>3. \A d \in Call \ {c} : CallOK(d)'
  BY <1>1, <1>2, OtherCalls DEF AInv, TypeOK, Others, process, identities
<1>4. CallOK(c)'
  <2>1. Admitted(req[c]) /\ Offered(req[c]) /\ req[c] \in Request /\ asked[c] <= now
    BY <1>1 DEF AInv, CallOK
  <2>2. /\ req'[c] = req[c] /\ asked'[c] = asked[c] /\ now' = now
        /\ config' = config /\ published' = published
    BY <1>1 DEF process, identities
  <2>3. Admitted(req[c])' /\ Offered(req[c])'
    BY <2>1, <2>2 DEF Admitted, Offered
  <2>. QED
    BY <1>1, <1>2, <2>1, <2>2, <2>3 DEF CallOK
<1>. QED
  BY <1>1, <1>2, <1>3, <1>4 DEF AInv, identities

LEMMA ReceiveAInv ==
    ASSUME AInv, NEW c \in Call, Receive(c)
    PROVE  AInv'
<1>1. PICK r \in Request : Offered(r) /\ req' = [req EXCEPT ![c] = r]
  BY DEF Receive
<1>2. /\ pc' = [pc EXCEPT ![c] = "gate"] /\ answer' = None /\ sockets' = sockets \cup {c}
      /\ UNCHANGED <<tables, config, server, open, now, identities, throttle, seen, asked, grants>>
  BY DEF Receive, Goto, Quiet
<1>3. TypeOK' /\ Others(c) /\ pc'[c] = "gate" /\ req'[c] = r
  BY <1>1, <1>2 DEF AInv, TypeOK, Others, SameCall, InFlight, tables, identities, throttle
<1>4. \A d \in Call \ {c} : CallOK(d)'
  BY <1>2, <1>3, OtherCalls DEF AInv, TypeOK, Others, identities
<1>5. CallOK(c)'
  BY <1>1, <1>2, <1>3 DEF CallOK, AInv, TypeOK, identities, Offered, Admitted
<1>. QED
  BY <1>2, <1>3, <1>4, <1>5 DEF AInv, identities

\* The two steps that store, and the one that counts.
LEMMA StoreAInv ==
    ASSUME AInv, NEW c \in Call, Store(c)
    PROVE  AInv'
<1>0. CallTypes /\ req[c] \in Request /\ req[c].route = "createDelegation" /\ Admitted(req[c])
  BY DEF AInv, TypeOK, CallTypes, Status, CallOK, Store
<1>. DEFINE a == req[c].item.artifact
<1>1. a \in Artifact /\ req[c].item \in Submission
  BY <1>0, ServerAssumption
<1>2. CASE Answer(c, 500) /\ UNCHANGED <<tables, grants>>
  BY <1>2, AnswerAInv DEF Store, Status, AInv, TypeOK, identities
<1>3. CASE PutArtifact(a) /\ Answer(c, 201) /\
             grants' = grants \cup {[submission |-> req[c].item, at |-> asked[c],
                                     admitted |-> Admitted(req[c])]}
  <2>1. CallTypes' /\ Others(c) /\ pc'[c] = "idle" /\ asked'[c] = 0
    BY <1>0, <1>3, AnswerTypes DEF Status
  <2>2. rows' \in [Id -> Artifact \cup {None}] /\ revocations' = revocations
    BY <1>1, <1>3, PutTypes DEF AInv
  <2>3. UNCHANGED <<process, identities, throttle>>
    BY DEF Store
  <2>4. grants' \subseteq [submission : Submission, at : Nat, admitted : BOOLEAN]
    <3>1. Admitted(req[c]) \in BOOLEAN
      BY <1>0
    <3>2. asked[c] \in Nat
      BY DEF AInv, TypeOK
    <3>3. [submission |-> req[c].item, at |-> asked[c], admitted |-> Admitted(req[c])]
             \in [submission : Submission, at : Nat, admitted : BOOLEAN]
      BY <1>1, <3>1, <3>2
    <3>. QED
      BY <1>3, <3>3 DEF AInv, TypeOK
  <2>5. TypeOK'
    BY <2>1, <2>2, <2>3, <2>4 DEF AInv, TypeOK, CallTypes, Status, process, identities, throttle
  <2>6. \A d \in Call \ {c} : CallOK(d)'
    BY <2>1, <2>3, OtherCalls DEF AInv, TypeOK, Others, process, identities
  <2>7. CallOK(c)'
    BY <2>1, <2>3 DEF CallOK, AInv, TypeOK, process
  <2>. QED
    BY <2>3, <2>5, <2>6, <2>7 DEF AInv, identities
<1>. QED
  BY <1>2, <1>3 DEF Store

LEMMA CreateIdentityAInv ==
    ASSUME AInv, NEW c \in Call, CreateIdentity(c)
    PROVE  AInv'
<1>0. CallTypes /\ req[c] \in Request /\ req[c].route = "createIdentity"
  BY DEF AInv, TypeOK, CallTypes, Status, CallOK, CreateIdentity
<1>1. CASE (\E code \in {400, 500} : Answer(c, code)) /\ UNCHANGED <<credentials, published>>
  BY <1>1, AnswerAInv DEF CreateIdentity, Status, AInv, TypeOK
<1>2. CASE /\ credentials' = credentials \cup {req[c].item}
           /\ published' = published \cup {req[c].item}
           /\ Answer(c, 201)
  <2>1. CallTypes' /\ Others(c) /\ pc'[c] = "idle" /\ asked'[c] = 0
    BY <1>0, <1>2, AnswerTypes DEF Status
  <2>2. UNCHANGED <<tables, process, roots, throttle, grants>> /\ req[c].item \in Agent
    BY <1>0, ServerAssumption DEF CreateIdentity
  <2>3. TypeOK'
    BY <1>2, <2>1, <2>2 DEF AInv, TypeOK, CallTypes, Status, tables, process, throttle
  <2>4. \A d \in Call \ {c} : CallOK(d)'
    BY <1>2, <2>1, <2>2, OtherCalls DEF AInv, TypeOK, Others, process
  <2>5. CallOK(c)'
    BY <2>1, <2>2 DEF CallOK, AInv, TypeOK, process
  <2>. QED
    BY <1>2, <2>3, <2>4, <2>5 DEF AInv
<1>. QED
  BY <1>1, <1>2 DEF CreateIdentity

LEMMA ReloadAInv ==
    ASSUME AInv, NEW c \in Call, Reload(c)
    PROVE  AInv'
<1>0. CallTypes /\ req[c] \in Request /\ req[c].peer \in Peer
  BY ServerAssumption DEF AInv, TypeOK, CallTypes, Status, CallOK, Reload
<1>1. PICK code \in {200, 403, 429} : Answer(c, code)
  BY DEF Reload
<1>2. CallTypes' /\ Others(c) /\ pc'[c] = "idle" /\ asked'[c] = 0
  BY <1>0, <1>1, AnswerTypes DEF Status
<1>3. UNCHANGED <<tables, process, identities, grants>>
  BY DEF Reload
<1>4. NextWindow(req[c].peer) \in [count : Nat, resetAt : Nat]
  <2>. DEFINE f == failures[req[c].peer]
  <2>1. f \in [count : Nat, resetAt : Nat] /\ now + Window \in Nat
    BY <1>0, ServerAssumption DEF AInv, TypeOK
  <2>2. [f EXCEPT !.count = @ + 1] \in [count : Nat, resetAt : Nat]
    BY <2>1
  <2>. QED
    BY <2>1, <2>2 DEF NextWindow
<1>5. failures' \in [Peer -> [count : Nat, resetAt : Nat]] /\ failed' \in [Peer -> Seq(Nat)]
  <2>1. CASE UNCHANGED throttle
    BY <2>1 DEF throttle, AInv, TypeOK
  <2>2. CASE /\ failures' = [failures EXCEPT ![req[c].peer] = NextWindow(req[c].peer)]
             /\ failed' = [failed EXCEPT ![req[c].peer] = Append(@, now)]
    <3>1. failed[req[c].peer] \in Seq(Nat) /\ now \in Nat
      BY <1>0 DEF AInv, TypeOK
    <3>2. Append(failed[req[c].peer], now) \in Seq(Nat)
      BY <3>1
    <3>. QED
      BY <1>0, <1>4, <2>2, <3>2 DEF AInv, TypeOK
  <2>3. CASE /\ failures' = [failures EXCEPT ![req[c].peer] = NoWindow]
             /\ failed' = [failed EXCEPT ![req[c].peer] = << >>]
    BY <1>0, <2>3 DEF AInv, TypeOK, NoWindow
  <2>. QED
    BY <2>1, <2>2, <2>3 DEF Reload
<1>6. TypeOK'
  BY <1>2, <1>3, <1>5 DEF AInv, TypeOK, CallTypes, Status, tables, process, identities
<1>7. \A d \in Call \ {c} : CallOK(d)'
  BY <1>2, <1>3, OtherCalls DEF AInv, TypeOK, Others, process, identities
<1>8. CallOK(c)'
  BY <1>2, <1>3 DEF CallOK, AInv, TypeOK, process
<1>. QED
  BY <1>3, <1>6, <1>7, <1>8 DEF AInv, identities

LEMMA StepAInv ==
    ASSUME AInv, NEW c \in Call, Step(c)
    PROVE  AInv'
<1>0. /\ CallOK(c) /\ roots \subseteq Agent
      /\ pc[c] # "idle" => /\ req[c] \in Request
                           /\ req[c].route = "createIdentity" => req[c].item \in Agent
      /\ pc[c] \notin {"idle", "gate"} => Admitted(req[c])
  BY ServerAssumption DEF AInv, TypeOK, CallOK
<1>1. CASE Gate(c)
  <2>1. CASE \E code \in {204, 401, 403} : Answer(c, code)
    BY <1>0, <1>1, <2>1, AnswerAInv DEF Gate, Status, identities
  <2>2. CASE Admitted(req[c]) /\ Proceed(c, Routed(req[c]))
    <3>1. Routed(req[c]) \in {"handle", "body"}
      BY DEF Routed
    <3>. QED
      BY <1>0, <1>1, <2>2, <3>1, ProceedAInv DEF Gate, InFlight, identities
  <2>. QED
    BY <1>1, <2>1, <2>2 DEF Gate
<1>2. CASE Body(c)
  <2>1. CASE \E code \in {400, 500} : Answer(c, code)
    BY <1>0, <1>2, <2>1, AnswerAInv DEF Body, Status, identities
  <2>2. CASE Proceed(c, "handle")
    BY <1>0, <1>2, <2>2, ProceedAInv DEF Body, InFlight, identities
  <2>. QED
    BY <1>2, <2>1, <2>2 DEF Body
<1>3. CASE Read(c)
  <2>1. ReadStatus(req[c]) \in Status
    BY DEF ReadStatus, Status
  <2>. QED
    BY <1>0, <1>3, <2>1, AnswerAInv DEF Read, identities
<1>4. CASE Verify(c)
  BY <1>0, <1>4, AnswerAInv, ProceedAInv DEF Verify, Status, InFlight, identities
<1>5. CASE IssueIdentity(c)
  <2>1. roots' \subseteq Agent
    BY <1>0, <1>5 DEF IssueIdentity
  <2>2. CASE Proceed(c, "creating")
    BY <1>0, <1>5, <2>1, <2>2, ProceedAInv DEF IssueIdentity, InFlight
  <2>3. CASE Answer(c, 500)
    BY <1>5, <2>1, <2>3, AnswerAInv DEF IssueIdentity, Status
  <2>. QED
    BY <1>5, <2>2, <2>3 DEF IssueIdentity
<1>6. CASE Authorize(c)
  <2>1. req[c].route = "createDelegation"
    BY <1>0, <1>6 DEF Authorize, CallOK
  <2>. QED
    BY <1>0, <1>6, <2>1, AnswerAInv, ProceedAInv DEF Authorize, Status, InFlight, identities
<1>. QED
  BY <1>1, <1>2, <1>3, <1>4, <1>5, <1>6, SubmitAInv, ReadTrustAInv, StoreAInv,
     CreateIdentityAInv, ReloadAInv DEF Step

-----------------------------------------------------------------------------
(* Steps of the process *)

\* The calls stay where they are, or are all forgotten.
LEMMA ProcessAInv ==
    ASSUME AInv, TypeOK', config' = config, published' = published, credentials' = credentials,
           now <= now',
           \/ UNCHANGED calls
           \/ \A c \in Call : pc'[c] = "idle" /\ asked'[c] = 0
    PROVE  AInv'
<1>1. now \in Nat /\ now' \in Nat
  BY DEF AInv, TypeOK
<1>2. CASE UNCHANGED calls
  <2>1. \A c \in Call : SameCall(c)
    BY <1>2 DEF calls, SameCall
  <2>. QED
    BY <1>1, <2>1, OtherCalls DEF AInv, TypeOK
<1>3. CASE \A c \in Call : pc'[c] = "idle" /\ asked'[c] = 0
  BY <1>1, <1>3 DEF AInv, CallOK
<1>. QED
  BY <1>2, <1>3

LEMMA NextAInv ==
    ASSUME AInv, [Next]_vars
    PROVE  AInv'
<1>0. TypeOK /\ now \in Nat
  BY DEF AInv, TypeOK
<1>1. CASE UNCHANGED vars
  <2>1. TypeOK'
    BY <1>0, <1>1 DEF TypeOK, vars, tables, process, identities, throttle, calls
  <2>. QED
    BY <1>0, <1>1, <2>1, ProcessAInv DEF vars, process, identities
<1>2. CASE Tick \/ Start \/ Bound \/ Close \/ Drained \/ \E c \in Call : Disconnect(c)
  <2>1. TypeOK'
    <3>1. UNCHANGED <<tables, config, identities, throttle, calls, grants>> /\ answer' = None
      BY <1>2 DEF Tick, Start, Bound, Close, Drained, Disconnect, Quiet
    <3>2. now' \in Nat
      BY <1>0, <1>2 DEF Tick, Start, Bound, Close, Drained, Disconnect
    <3>4. open' = open \/ open' = FALSE
      BY <1>2 DEF Tick, Start, Bound, Close, Drained, Disconnect
    <3>6. open \in BOOLEAN
      BY <1>0 DEF TypeOK
    <3>5. open' \in BOOLEAN
      BY <3>4, <3>6, Zenon
    <3>3. server' \in {"new", "refused", "starting", "failed", "listening", "draining", "closed"}
      BY <1>0, <1>2 DEF Tick, Start, Bound, Close, Drained, Disconnect, TypeOK
    <3>7. sockets' \subseteq Call
      BY <1>0, <1>2 DEF Tick, Start, Bound, Close, Drained, Disconnect, TypeOK
    <3>. QED
      BY <1>0, <3>1, <3>2, <3>3, <3>5, <3>7 DEF TypeOK, tables, identities, throttle, calls
  <2>2. config' = config /\ UNCHANGED identities /\ UNCHANGED calls
    BY <1>2 DEF Tick, Start, Bound, Close, Drained, Disconnect
  <2>3. now <= now'
    BY <1>0, <1>2 DEF Tick, Start, Bound, Close, Drained, Disconnect
  <2>. QED
    BY <2>1, <2>2, <2>3, ProcessAInv DEF identities
<1>3. CASE Restart
  <2>1. TypeOK'
    BY <1>0, <1>3 DEF Restart, Quiet, TypeOK, tables, NoWindow
  <2>. QED
    BY <1>0, <1>3, <2>1, ProcessAInv DEF Restart
<1>4. CASE StoreElsewhere
  <2>1. PICK a \in Artifact : PutArtifact(a)
    BY <1>4 DEF StoreElsewhere
  <2>2. rows' \in [Id -> Artifact \cup {None}] /\ revocations' = revocations
    BY <1>0, <2>1, PutTypes
  <2>3. TypeOK'
    BY <1>0, <1>4, <2>2 DEF StoreElsewhere, Quiet, TypeOK, process, identities, throttle, calls
  <2>. QED
    BY <1>0, <1>4, <2>3, ProcessAInv DEF StoreElsewhere, process, identities
<1>. QED
  BY <1>1, <1>2, <1>3, <1>4, ReceiveAInv, StepAInv DEF Next

LEMMA AInvariance == Spec => []AInv
<1>1. Init => AInv
  BY ServerAssumption DEF Init, EmptyTables, AInv, TypeOK, CallOK, NoWindow, InFlight
<1>. QED
  BY <1>1, NextAInv, PTL DEF Spec

-----------------------------------------------------------------------------
(* What was stored was authorised *)

\* A root that authorises has its row: a client can name an agent's root only
\* once the row is stored, and any other root is in no snapshot.
LEMMA AuthorisedRootStored ==
    ASSUME AInv, NEW c \in Call, pc[c] = "storing"
    PROVE  req[c].item.root \in credentials
BY DEF AInv, TypeOK, CallOK, Offered, Authorised

LEMMA StepDelegations ==
    ASSUME AInv, DelegationsAuthorised, [Next]_vars
    PROVE  DelegationsAuthorised'
<1>0. TypeOK /\ now \in Nat /\ \A g \in grants : g.submission.artifact \in Artifact
  BY ServerAssumption DEF AInv, TypeOK
<1>1. ASSUME grants' = grants, now <= now', now' \in Nat, credentials \subseteq credentials',
             \A i \in Id : rows[i] # None => rows'[i] = rows[i]
      PROVE  DelegationsAuthorised'
  <2>. SUFFICES ASSUME NEW g \in grants
                PROVE  /\ g.admitted
                       /\ g.submission.sound /\ g.submission.issued <= g.at /\ g.at <= now'
                       /\ g.submission.root \in credentials'
                       /\ rows'[g.submission.artifact.id] = g.submission.artifact
    BY <1>1 DEF DelegationsAuthorised
  <2>1. /\ g.submission.artifact.id \in Id /\ g.submission.artifact # None
        /\ rows[g.submission.artifact.id] = g.submission.artifact
    BY <1>0, ArtifactAssumption DEF DelegationsAuthorised, Id
  <2>2. g.at \in Nat /\ g.at <= now
    BY <1>0 DEF DelegationsAuthorised, TypeOK
  <2>. QED
    BY <1>0, <1>1, <2>1, <2>2 DEF DelegationsAuthorised
<1>2. ASSUME NEW c \in Call, Store(c)
      PROVE  DelegationsAuthorised'
  <2>. DEFINE item == req[c].item
  <2>1. /\ req[c] \in Request /\ req[c].route = "createDelegation" /\ Admitted(req[c])
        /\ asked[c] <= now /\ Authorised(item, seen[c], asked[c])
        /\ UNCHANGED <<process, identities>>
    BY <1>2 DEF AInv, CallOK, Store
  <2>2. item.artifact \in Artifact
    BY <2>1, ServerAssumption
  <2>3. CASE UNCHANGED <<tables, grants>>
    BY <1>0, <1>1, <2>1, <2>3 DEF process, identities, tables
  <2>4. CASE PutArtifact(item.artifact) /\
             grants' = grants \cup {[submission |-> item, at |-> asked[c],
                                     admitted |-> Admitted(req[c])]}
    <3>1. /\ \A i \in Id : rows[i] # None => rows'[i] = rows[i]
          /\ rows'[item.artifact.id] = item.artifact
      BY <1>0, <2>2, <2>4, PutTypes
    <3>2. item.root \in credentials
      BY <1>2, AuthorisedRootStored DEF Store
    <3>3. now' = now /\ credentials' = credentials
      BY <2>1 DEF process, identities
    <3>4. ASSUME NEW g \in grants
          PROVE  /\ g.admitted
                 /\ g.submission.sound /\ g.submission.issued <= g.at /\ g.at <= now
                 /\ g.submission.root \in credentials
                 /\ rows'[g.submission.artifact.id] = g.submission.artifact
      <4>1. g.submission.artifact.id \in Id /\ g.submission.artifact # None
        BY <1>0, ArtifactAssumption DEF Id
      <4>. QED
        BY <3>1, <4>1 DEF DelegationsAuthorised
    <3>. DEFINE new == [submission |-> item, at |-> asked[c], admitted |-> Admitted(req[c])]
    <3>5. /\ new.admitted
          /\ new.submission.sound /\ new.submission.issued <= new.at /\ new.at <= now
          /\ new.submission.root \in credentials
          /\ rows'[new.submission.artifact.id] = new.submission.artifact
      BY <2>1, <3>1, <3>2 DEF Authorised
    <3>6. \A g \in grants' : g \in grants \/ g = new
      BY <2>4
    <3>. HIDE DEF new
    <3>. QED
      BY <3>3, <3>4, <3>5, <3>6 DEF DelegationsAuthorised
  <2>. QED
    BY <1>2, <2>3, <2>4 DEF Store
<1>3. ASSUME NEW c \in Call, Receive(c) \/ Disconnect(c) \/ (Step(c) /\ ~Store(c))
      PROVE  DelegationsAuthorised'
  <2>1. UNCHANGED <<tables, now, grants>>
    BY <1>3 DEF Step, Receive, Disconnect, Gate, Body, Read, Verify, IssueIdentity, CreateIdentity, Submit,
                ReadTrust, Authorize, Reload, process
  <2>2. credentials \subseteq credentials'
    BY <1>3 DEF Step, Receive, Disconnect, Gate, Body, Read, Verify, IssueIdentity, CreateIdentity, Submit,
                ReadTrust, Authorize, Reload, identities
  <2>. QED
    BY <1>0, <1>1, <2>1, <2>2 DEF tables
<1>4. CASE Tick \/ Start \/ Bound \/ Close \/ Drained \/ Restart
  <2>1. UNCHANGED <<tables, grants, credentials>>
    BY <1>4 DEF Tick, Start, Bound, Close, Drained, Restart, identities
  <2>2. now' = now \/ now' = now + 1
    BY <1>4 DEF Tick, Start, Bound, Close, Drained, Restart
  <2>. QED
    BY <1>0, <1>1, <2>1, <2>2 DEF tables
<1>5. CASE StoreElsewhere
  <2>1. PICK a \in Artifact : PutArtifact(a)
    BY <1>5 DEF StoreElsewhere
  <2>2. \A i \in Id : rows[i] # None => rows'[i] = rows[i]
    BY <1>0, <2>1, PutTypes
  <2>. QED
    BY <1>0, <1>1, <1>5, <2>2 DEF StoreElsewhere, process, identities
<1>6. CASE UNCHANGED vars
  BY <1>0, <1>1, <1>6 DEF vars, tables, process, identities
<1>. QED
  BY <1>2, <1>3, <1>4, <1>5, <1>6 DEF Next

\* Whatever is stored through a call came from an admitted caller, was sound
\* when it was judged, and hangs from a root whose credential has a row.
THEOREM DelegationsAlwaysAuthorised == Spec => []DelegationsAuthorised
<1>1. Init => DelegationsAuthorised
  BY DEF Init, DelegationsAuthorised
<1>. QED
  BY <1>1, AInvariance, StepDelegations, PTL DEF Spec

-----------------------------------------------------------------------------
(* The storage and the clients *)

\* Only a server that listens or drains has connections, and a server that has
\* started has its storage until it has none left.
OInv ==
    /\ server \in {"starting", "listening", "draining"} => open
    /\ sockets # {} => server \in {"listening", "draining"}

LEMMA StepOInv ==
    ASSUME AwaitStart, AInv, OInv, [Next]_vars
    PROVE  OInv'
<1>1. CASE UNCHANGED vars
  BY <1>1 DEF OInv, vars, process
<1>2. CASE Tick \/ StoreElsewhere
  BY <1>2 DEF Tick, StoreElsewhere, OInv, process
<1>3. CASE Start \/ Bound
  BY <1>3 DEF Start, Bound, OInv
<1>4. CASE Close
  <2>1. CASE server = "listening" /\ server' = "draining" /\ UNCHANGED open
    BY <2>1 DEF OInv
  <2>2. CASE server \in {"new", "failed"} /\ UNCHANGED <<server, sockets>>
    BY <2>2 DEF OInv
  <2>. QED
    BY <1>4, <2>1, <2>2 DEF Close
<1>5. CASE Drained
  BY <1>5 DEF Drained, OInv
<1>6. CASE Restart
  BY <1>6 DEF Restart, OInv
<1>7. ASSUME NEW c \in Call, Receive(c)
      PROVE  OInv'
  <2>1. server' = server /\ open' = open /\ (server = "listening" \/ c \in sockets)
    BY <1>7 DEF Receive
  <2>2. server \in {"listening", "draining"}
    BY <2>1 DEF OInv
  <2>. QED
    BY <2>1, <2>2 DEF OInv
<1>8. ASSUME NEW c \in Call, Disconnect(c)
      PROVE  OInv'
  BY <1>8 DEF Disconnect, OInv
<1>9. ASSUME NEW c \in Call, Step(c)
      PROVE  OInv'
  <2>1. UNCHANGED process
    BY <1>9 DEF Step, Gate, Body, Read, Verify, IssueIdentity, CreateIdentity, Submit,
                ReadTrust, Authorize, Store, Reload
  <2>. QED
    BY <2>1 DEF OInv, process
<1>. QED
  BY <1>1, <1>2, <1>3, <1>4, <1>5, <1>6, <1>7, <1>8, <1>9 DEF Next

\* A program that closes the host only after its start has settled never closes
\* the storage on a client that is there, however a close, the requests kept-alive
\* connections still carry, and the clients' leaving interleave.
THEOREM StorageAlwaysOutlivesClients == AwaitStart => (Spec => []StorageOutlivesClients)
<1>. SUFFICES ASSUME AwaitStart PROVE Spec => []StorageOutlivesClients
  OBVIOUS
<1>1. Init => OInv
  BY DEF Init, OInv
<1>2. OInv => StorageOutlivesClients
  BY DEF OInv, StorageOutlivesClients
<1>. QED
  BY <1>1, <1>2, AInvariance, StepOInv, PTL DEF Spec

-----------------------------------------------------------------------------
(* The throttle *)

\* The failed reloads of a peer, at times s, are a sequence of windows.  The
\* last `count` of them are in the window that began with the first of these;
\* the ones before came no later than its beginning, and all but the last
\* FailureLimit - 1 of those a whole window before it.
Windows(s, count, resetAt, time) ==
    LET first == Len(s) - count + 1
        begun == s[first]
    IN  /\ count \in 1..FailureLimit /\ count <= Len(s)
        /\ resetAt = begun + Window
        /\ \A i \in 1..Len(s) : s[i] <= time
        /\ \A i \in 1..(first - 1) : s[i] <= begun
        /\ \A i \in 1..(first - FailureLimit) : s[i] + Window <= begun

Windowed(p) == Windows(failed[p], failures[p].count, failures[p].resetAt, now)

ThrottleOK(p) == (failures[p] = NoWindow /\ failed[p] = << >>) \/ Windowed(p)

LEMMA WindowsLater ==
    ASSUME NEW s \in Seq(Nat), NEW count \in Nat, NEW resetAt \in Nat,
           NEW time \in Nat, NEW later \in Nat, time <= later,
           Windows(s, count, resetAt, time)
    PROVE  Windows(s, count, resetAt, later)
<1>1. \A i \in 1..Len(s) : s[i] \in Nat
  OBVIOUS
<1>2. \A i \in 1..Len(s) : s[i] <= later
  BY <1>1 DEF Windows
<1>. QED
  BY <1>2 DEF Windows

\* A failure is counted in the window that runs.
LEMMA WindowsCount ==
    ASSUME NEW s \in Seq(Nat), NEW count \in Nat, NEW resetAt \in Nat, NEW time \in Nat,
           Windows(s, count, resetAt, time), count < FailureLimit
    PROVE  Windows(Append(s, time), count + 1, resetAt, time)
<1>. DEFINE n == Len(s)
            t == Append(s, time)
            first == n - count + 1
            begun == s[first]
<1>1. /\ n \in Nat /\ Len(t) = n + 1 /\ t[n + 1] = time
      /\ \A i \in 1..n : t[i] = s[i]
  OBVIOUS
<1>2. /\ count \in 1..FailureLimit /\ count <= n
      /\ resetAt = begun + Window
      /\ \A i \in 1..n : s[i] <= time
      /\ \A i \in 1..(first - 1) : s[i] <= begun
      /\ \A i \in 1..(first - FailureLimit) : s[i] + Window <= begun
  BY DEF Windows
<1>. HIDE DEF n, t
<1>3. /\ first \in 1..n /\ first = (n + 1) - (count + 1) + 1
      /\ 1..(first - 1) \subseteq 1..n /\ 1..(first - FailureLimit) \subseteq 1..n
      /\ \A i \in 1..(n + 1) : i \in 1..n \/ i = n + 1
  BY <1>1, <1>2, ServerAssumption
<1>4. count + 1 \in 1..FailureLimit /\ count + 1 <= n + 1
  BY <1>1, <1>2, ServerAssumption
<1>. HIDE DEF first
<1>5. t[first] = begun
  BY <1>1, <1>3
<1>6. \A i \in 1..(n + 1) : t[i] <= time
  <2>1. time <= time
    OBVIOUS
  <2>. QED
    BY <1>1, <1>2, <1>3, <2>1
<1>7. /\ \A i \in 1..(first - 1) : t[i] <= begun
      /\ \A i \in 1..(first - FailureLimit) : t[i] + Window <= begun
  BY <1>1, <1>2, <1>3
<1>8. Len(t) - (count + 1) + 1 = first
  BY <1>1, <1>3
<1>. HIDE DEF begun
<1>. QED
  BY <1>1, <1>2, <1>4, <1>5, <1>6, <1>7, <1>8 DEF Windows, t

\* The first failure after a window, or after none, begins the next.
LEMMA WindowsNext ==
    ASSUME NEW s \in Seq(Nat), NEW count \in Nat, NEW resetAt \in Nat, NEW time \in Nat,
           s = << >> \/ (Windows(s, count, resetAt, time) /\ resetAt <= time)
    PROVE  Windows(Append(s, time), 1, time + Window, time)
<1>. DEFINE n == Len(s)
            t == Append(s, time)
<1>1. /\ n \in Nat /\ Len(t) = n + 1 /\ t[n + 1] = time
      /\ \A i \in 1..n : t[i] = s[i] /\ s[i] \in Nat
      /\ s = << >> => n = 0
  OBVIOUS
<1>2. \A i \in 1..n : s[i] <= time
  BY <1>1 DEF Windows
<1>3. ASSUME NEW i \in 1..((n + 1) - FailureLimit)
      PROVE  i \in 1..n /\ s[i] + Window <= time
  <2>. DEFINE first == n - count + 1
              begun == s[first]
  <2>1. FailureLimit \in Nat \ {0} /\ Window \in Nat
    BY ServerAssumption
  <2>. HIDE DEF n
  <2>2. i \in 1..n
    BY <1>1, <2>1
  <2>3. n # 0 /\ Windows(s, count, resetAt, time) /\ resetAt <= time
    BY <1>1, <2>2
  <2>4. /\ count \in 1..FailureLimit /\ count <= n
        /\ begun + Window <= time
        /\ \A k \in 1..(first - 1) : s[k] <= begun
    BY <2>3 DEF Windows, n
  <2>5. first \in 1..n /\ i <= first /\ (i = first \/ i \in 1..(first - 1))
    BY <1>1, <2>1, <2>2, <2>4
  <2>. HIDE DEF first
  <2>6. begun \in Nat /\ s[i] \in Nat /\ s[i] <= begun
    BY <1>1, <2>2, <2>4, <2>5
  <2>. HIDE DEF begun
  <2>7. s[i] + Window <= time
    BY <2>1, <2>4, <2>6
  <2>. QED
    BY <2>2, <2>7
<1>. HIDE DEF n, t
<1>4. \A i \in 1..((n + 1) - FailureLimit) : t[i] + Window <= time
  BY <1>1, <1>3
<1>5. \A i \in 1..(n + 1) : t[i] <= time
  <2>1. \A i \in 1..(n + 1) : i \in 1..n \/ i = n + 1
    BY <1>1
  <2>2. time <= time
    OBVIOUS
  <2>. QED
    BY <1>1, <1>2, <2>1, <2>2
<1>6. \A i \in 1..n : t[i] <= time
  BY <1>1, <1>2
<1>7. /\ Len(t) - 1 + 1 = n + 1 /\ (n + 1) - 1 = n
      /\ 1 \in 1..FailureLimit /\ 1 <= Len(t)
  BY <1>1, ServerAssumption
<1>. QED
  BY <1>1, <1>4, <1>5, <1>6, <1>7 DEF Windows, t

\* The failures less than a window old are the last ones, and fewer than two
\* limits of them.
LEMMA WindowsRecent ==
    ASSUME NEW s \in Seq(Nat), NEW count \in Nat, NEW resetAt \in Nat, NEW time \in Nat,
           Windows(s, count, resetAt, time)
    PROVE  Cardinality({i \in DOMAIN s : s[i] + Window > time}) <= 2 * FailureLimit - 1
<1>. DEFINE n == Len(s)
            first == n - count + 1
            begun == s[first]
            recent == {i \in DOMAIN s : s[i] + Window > time}
            from == first - FailureLimit + 1
<1>1. /\ n \in Nat /\ DOMAIN s = 1..n /\ \A i \in 1..n : s[i] \in Nat
      /\ FailureLimit \in Nat \ {0} /\ Window \in Nat
  BY ServerAssumption
<1>2. /\ count \in 1..FailureLimit /\ count <= n
      /\ \A i \in 1..n : s[i] <= time
      /\ \A i \in 1..(first - FailureLimit) : s[i] + Window <= begun
  BY DEF Windows
<1>. HIDE DEF n
<1>3. first \in 1..n
  BY <1>1, <1>2
<1>4. begun \in Nat /\ begun <= time
  BY <1>1, <1>2, <1>3
<1>5. from \in Int /\ from <= n /\ n - from + 1 = count + FailureLimit - 1
      /\ count + FailureLimit - 1 <= 2 * FailureLimit - 1
      /\ count + FailureLimit - 1 \in Nat
  BY <1>1, <1>2
<1>6. ASSUME NEW i \in recent
      PROVE  i \in from..n
  <2>1. i \in 1..n /\ s[i] \in Nat /\ s[i] + Window > time
    BY <1>1
  <2>2. CASE i \in 1..(first - FailureLimit)
    <3>1. s[i] + Window <= begun
      BY <1>2, <2>2
    <3>. HIDE DEF begun
    <3>2. s[i] + Window <= time
      BY <1>1, <1>4, <2>1, <3>1
    <3>. QED
      BY <1>1, <1>4, <2>1, <3>2
  <2>3. CASE i \notin 1..(first - FailureLimit)
    BY <1>1, <1>3, <2>1, <2>3
  <2>. QED
    BY <2>2, <2>3
<1>. HIDE DEF from, recent
<1>7. IsFiniteSet(from..n) /\ Cardinality(from..n) = n - from + 1
  BY <1>1, <1>5, FS_Interval
<1>8. recent \subseteq from..n
  BY <1>6
<1>9. IsFiniteSet(recent) /\ Cardinality(recent) <= Cardinality(from..n)
  BY <1>7, <1>8, FS_Subset
<1>10. Cardinality(recent) \in Nat
  BY <1>9, FS_CardinalityType
<1>11. Cardinality(recent) <= 2 * FailureLimit - 1
  BY <1>1, <1>2, <1>5, <1>7, <1>9, <1>10
<1>. QED
  BY <1>11 DEF recent

LEMMA WindowRuns ==
    ASSUME TypeOK, NEW p \in Peer, Windowed(p), now' \in Nat, now <= now',
           failures'[p] = failures[p], failed'[p] = failed[p]
    PROVE  Windowed(p)'
<1>1. /\ failed[p] \in Seq(Nat) /\ now \in Nat
      /\ failures[p].count \in Nat /\ failures[p].resetAt \in Nat
  BY DEF TypeOK
<1>. QED
  BY <1>1, WindowsLater DEF Windowed

LEMMA WindowFails ==
    ASSUME TypeOK, NEW p \in Peer, ThrottleOK(p), ~Throttled(p), now' = now,
           failures'[p] = NextWindow(p), failed'[p] = Append(failed[p], now)
    PROVE  Windowed(p)'
<1>1. /\ failed[p] \in Seq(Nat) /\ now \in Nat
      /\ failures[p] \in [count : Nat, resetAt : Nat]
      /\ failures[p].count \in Nat /\ failures[p].resetAt \in Nat
  BY DEF TypeOK
<1>2. CASE Running(p)
  <2>1. Windowed(p)
    BY <1>1, <1>2 DEF ThrottleOK, NoWindow, Running
  <2>2. failures'[p] = [failures[p] EXCEPT !.count = @ + 1] /\ failures[p].count < FailureLimit
    BY <1>1, <1>2, ServerAssumption DEF NextWindow, Throttled
  <2>3. failures'[p].count = failures[p].count + 1 /\ failures'[p].resetAt = failures[p].resetAt
    BY <1>1, <2>2
  <2>. QED
    BY <1>1, <2>1, <2>2, <2>3, WindowsCount DEF Windowed
<1>3. CASE ~Running(p)
  <2>1. failures'[p].count = 1 /\ failures'[p].resetAt = now + Window
    BY <1>3 DEF NextWindow
  <2>2. failures[p].resetAt <= now
    BY <1>1, <1>3 DEF Running
  <2>3. Windows(Append(failed[p], now), 1, now + Window, now)
    BY <1>1, <2>2, WindowsNext DEF ThrottleOK, Windowed
  <2>. QED
    BY <2>1, <2>3 DEF Windowed
<1>. QED
  BY <1>2, <1>3

LEMMA StepThrottle ==
    ASSUME AInv, AInv', \A p \in Peer : ThrottleOK(p), [Next]_vars
    PROVE  \A p \in Peer : ThrottleOK(p)'
<1>. SUFFICES ASSUME NEW p \in Peer PROVE ThrottleOK(p)'
  OBVIOUS
<1>0. /\ TypeOK /\ now \in Nat /\ now' \in Nat
      /\ DOMAIN failures = Peer /\ DOMAIN failed = Peer
  BY DEF AInv, TypeOK
<1>1. ASSUME UNCHANGED throttle, now <= now'
      PROVE  ThrottleOK(p)'
  BY <1>0, <1>1, WindowRuns DEF throttle, ThrottleOK
<1>2. CASE Tick \/ Start \/ Bound \/ Close \/ Drained \/ StoreElsewhere \/ UNCHANGED vars
  <2>1. UNCHANGED throttle /\ now <= now'
    BY <1>0, <1>2 DEF Tick, Start, Bound, Close, Drained, StoreElsewhere, vars, process
  <2>. QED
    BY <1>1, <2>1
<1>3. CASE Restart
  BY <1>3 DEF Restart, ThrottleOK
<1>4. ASSUME NEW c \in Call, Receive(c) \/ Disconnect(c) \/ (Step(c) /\ ~Reload(c))
      PROVE  ThrottleOK(p)'
  <2>1. UNCHANGED throttle /\ now' = now
    BY <1>4 DEF Step, Receive, Disconnect, Gate, Body, Read, Verify, IssueIdentity, CreateIdentity, Submit,
                ReadTrust, Authorize, Store, process
  <2>. QED
    BY <1>0, <1>1, <2>1
<1>5. ASSUME NEW c \in Call, Reload(c)
      PROVE  ThrottleOK(p)'
  <2>. DEFINE q == req[c].peer
  <2>1. now' = now
    BY <1>5 DEF Reload, process
  <2>2. CASE UNCHANGED throttle
    BY <1>0, <1>1, <2>1, <2>2
  <2>3. CASE /\ ~Throttled(q)
             /\ failures' = [failures EXCEPT ![q] = NextWindow(q)]
             /\ failed' = [failed EXCEPT ![q] = Append(@, now)]
    <3>1. CASE p = q
      <4>1. failures'[p] = NextWindow(p) /\ failed'[p] = Append(failed[p], now)
        BY <1>0, <2>3, <3>1
      <4>. QED
        BY <1>0, <2>1, <2>3, <3>1, <4>1, WindowFails DEF ThrottleOK
    <3>2. CASE p # q
      <4>1. failures'[p] = failures[p] /\ failed'[p] = failed[p]
        BY <1>0, <2>3, <3>2
      <4>. QED
        BY <1>0, <2>1, <4>1, WindowRuns DEF ThrottleOK
    <3>. QED
      BY <3>1, <3>2
  <2>4. CASE /\ failures' = [failures EXCEPT ![q] = NoWindow]
             /\ failed' = [failed EXCEPT ![q] = << >>]
    <3>1. CASE p = q
      BY <1>0, <2>4, <3>1 DEF ThrottleOK
    <3>2. CASE p # q
      <4>1. failures'[p] = failures[p] /\ failed'[p] = failed[p]
        BY <1>0, <2>4, <3>2
      <4>. QED
        BY <1>0, <2>1, <4>1, WindowRuns DEF ThrottleOK
    <3>. QED
      BY <3>1, <3>2
  <2>. QED
    BY <1>5, <2>2, <2>3, <2>4 DEF Reload
<1>. QED
  BY <1>2, <1>3, <1>4, <1>5 DEF Next

LEMMA RecentFailures ==
    ASSUME TypeOK, NEW p \in Peer, ThrottleOK(p)
    PROVE  Cardinality({i \in DOMAIN failed[p] : failed[p][i] + Window > now})
              <= 2 * FailureLimit - 1
<1>1. /\ failed[p] \in Seq(Nat) /\ now \in Nat
      /\ failures[p].count \in Nat /\ failures[p].resetAt \in Nat
  BY DEF TypeOK
<1>2. CASE failed[p] = << >>
  <2>1. {i \in DOMAIN failed[p] : failed[p][i] + Window > now} = {}
    BY <1>2
  <2>2. Cardinality({}) = 0
    BY FS_EmptySet
  <2>3. 0 <= 2 * FailureLimit - 1
    BY ServerAssumption
  <2>. QED
    BY <2>1, <2>2, <2>3
<1>3. CASE Windowed(p)
  BY <1>1, <1>3, WindowsRecent DEF Windowed
<1>. QED
  BY <1>2, <1>3 DEF ThrottleOK

\* A peer that guesses reload tokens is heard less than two limits of times in
\* any minute, whatever calls and restarts interleave.
THEOREM ReloadsAlwaysThrottled == Spec => []ReloadsThrottled
<1>. DEFINE TInv == \A p \in Peer : ThrottleOK(p)
<1>1. Init => TInv
  BY DEF Init, ThrottleOK
<1>2. AInv /\ AInv' /\ TInv /\ [Next]_vars => TInv'
  BY StepThrottle
<1>3. AInv /\ TInv => ReloadsThrottled
  BY RecentFailures DEF AInv, ReloadsThrottled
<1>. QED
  BY <1>1, <1>2, <1>3, AInvariance, PTL DEF Spec
=============================================================================
