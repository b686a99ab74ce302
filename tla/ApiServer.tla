------------------------------ MODULE ApiServer ------------------------------
(***************************************************************************)
(* The HTTP server in front of the host: how a call is admitted (loopback  *)
(* peers, or a bearer token that Supabase resolves), routed, authorised    *)
(* and answered, the throttle of the trust reload, and the start and the   *)
(* close of the host with its storage.                                     *)
(*                                                                         *)
(* A call runs between its awaits: the token lookup, the request body, the *)
(* trust snapshot, the issuer.  Its client may leave meanwhile, which the  *)
(* handler does not notice.  Roots enter the trust snapshot in memory      *)
(* while an identity is issued, and its row is stored afterwards.          *)
(***************************************************************************)
EXTENDS ArtifactTables, Sequences

CONSTANTS
    Call,         \* connections: each carries one call after another
    Peer,         \* remote addresses
    Agent,        \* agents, by the root credential this host issues them
    Submission,   \* [artifact, root, issued, expires, sound]: delegations offered
    Request,      \* what clients send
    Config,       \* [auth, remote, evidence]: how the server may be set up
    FailureLimit, \* reloadFailureLimit
    Window,       \* ticks in the minute of the throttle
    AwaitStart,   \* the program closes the host only once start has settled
    MaxNow        \* bound: the last instant

BodyRoutes == {"createIdentity", "verifyIdentity", "createDelegation",
               "createRevocation", "verifyRequest", "verifyDelegation"}

EvidenceRoutes == {"createDelegation", "getDelegation", "listDelegations",
                   "createRevocation", "getRevocation", "listEvents"}

Routes == BodyRoutes \cup EvidenceRoutes \cup
          {"getIdentity", "listAgents", "trustAnchors", "reload", "unknown", "preflight"}

ASSUME ServerAssumption ==
    /\ \A s \in Submission :
          /\ s.artifact \in Artifact /\ s.artifact.kind = "delegation"
          /\ s.issued \in Nat /\ s.expires \in Nat
          /\ s.sound \in BOOLEAN
    /\ \A r \in Request :
          /\ r.route \in Routes /\ r.peer \in Peer
          /\ {r.local, r.token, r.formed} \subseteq BOOLEAN
          /\ r.route = "createDelegation" => r.item \in Submission
          /\ r.route = "createIdentity" => r.item \in Agent
    /\ \A c \in Config : {c.auth, c.remote, c.evidence} \subseteq BOOLEAN
    /\ FailureLimit \in Nat \ {0} /\ Window \in Nat \ {0}
    /\ AwaitStart \in BOOLEAN /\ MaxNow \in Nat

VARIABLES
    config,       \* the options of the server
    server,       \* the listening socket
    open,         \* the storage is open
    sockets,      \* connections whose client is there
    now,
    credentials,  \* agents with a row in identity_credentials
    roots,        \* agents whose root the trust snapshot in memory has
    published,    \* agents whose credential a client may have: answered with, or read
    failures,     \* reloadFailures: per peer a count and the end of its window
    pc,           \* where each call stands
    req,          \* what it asks
    seen,         \* the roots it read
    asked,        \* the clock it read
    answer,       \* the call answered by the last step, and its status
    grants,       \* delegations stored by calls: [submission, at, admitted]
    failed        \* per peer, the times of failed reloads since its last success

process == <<config, server, open, sockets, now>>
identities == <<credentials, roots, published>>
throttle == <<failures, failed>>
calls == <<pc, req, seen, asked>>
vars == <<tables, process, identities, throttle, calls, answer, grants>>

-----------------------------------------------------------------------------
NoWindow == [count |-> 0, resetAt |-> 0]

Init ==
    /\ EmptyTables
    /\ config \in Config
    /\ server = "new"
    /\ open = TRUE
    /\ sockets = {}
    /\ now = 0
    /\ credentials = {}
    /\ roots = {}
    /\ published = {}
    /\ failures = [p \in Peer |-> NoWindow]
    /\ failed = [p \in Peer |-> << >>]
    /\ pc = [c \in Call |-> "idle"]
    /\ req = [c \in Call |-> None]
    /\ seen = [c \in Call |-> {}]
    /\ asked = [c \in Call |-> 0]
    /\ answer = None
    /\ grants = {}

Goto(c, label) == pc' = [pc EXCEPT ![c] = label]

Quiet == answer' = None

Answer(c, code) ==
    /\ Goto(c, "idle")
    /\ req' = [req EXCEPT ![c] = None]
    /\ seen' = [seen EXCEPT ![c] = {}]
    /\ asked' = [asked EXCEPT ![c] = 0]
    /\ answer' = [call |-> c, status |-> code]

\* The call goes on to its next await.
Proceed(c, label) ==
    /\ Goto(c, label)
    /\ Quiet
    /\ UNCHANGED <<req, seen, asked>>

InFlight == {"gate", "body", "handle", "creating", "trusting", "authorizing", "storing"}

Tick ==
    /\ now < MaxNow
    /\ now' = now + 1
    /\ Quiet
    /\ UNCHANGED <<tables, config, server, open, sockets, identities, throttle, calls, grants>>

-----------------------------------------------------------------------------
(* start, close and the end of the process *)

\* The constructor refuses a remote address unless callers are authenticated.
Start ==
    /\ server = "new"
    /\ open
    /\ server' = IF config.remote /\ ~config.auth THEN "refused" ELSE "starting"
    /\ Quiet
    /\ UNCHANGED <<tables, config, open, sockets, now, identities, throttle, calls, grants>>

\* The port is bound, or taken.
Bound ==
    /\ server = "starting"
    /\ server' \in {"listening", "failed"}
    /\ Quiet
    /\ UNCHANGED <<tables, config, open, sockets, now, identities, throttle, calls, grants>>

\* close: a started server stops accepting first and hangs up on connections
\* between two requests, else the storage closes at once.
Close ==
    /\ open
    /\ \/ /\ server = "listening"
          /\ server' = "draining"
          /\ sockets' = {c \in sockets : pc[c] # "idle"}
          /\ UNCHANGED open
       \/ /\ server \in {"new", "failed"} \cup (IF AwaitStart THEN {} ELSE {"starting"})
          /\ open' = FALSE
          /\ UNCHANGED <<server, sockets>>
    /\ Quiet
    /\ UNCHANGED <<tables, config, now, identities, throttle, calls, grants>>

\* Mutant of Drained: the storage is closed without waiting for the server.
DrainedAtOnce ==
    /\ server = "draining"
    /\ server' = "closed"
    /\ open' = FALSE
    /\ Quiet
    /\ UNCHANGED <<tables, config, sockets, now, identities, throttle, calls, grants>>

\* server.close calls back when the last connection has ended: the handler of a
\* client that left may still run when the storage closes.
Drained ==
    /\ server = "draining"
    /\ sockets = {}
    /\ server' = "closed"
    /\ open' = FALSE
    /\ Quiet
    /\ UNCHANGED <<tables, config, sockets, now, identities, throttle, calls, grants>>

\* A client leaves, or its connection has been idle for the time it is kept.
Disconnect(c) ==
    /\ c \in sockets
    /\ sockets' = sockets \ {c}
    /\ Quiet
    /\ UNCHANGED <<tables, config, server, open, now, identities, throttle, calls, grants>>

\* The process ends, by itself or not, and is started again: memory is lost,
\* the tables stay, and the roots are read back from the credentials.
Restart ==
    /\ server # "refused"
    /\ server' = "new"
    /\ open' = TRUE
    /\ sockets' = {}
    /\ roots' = credentials
    /\ failures' = [p \in Peer |-> NoWindow]
    /\ failed' = [p \in Peer |-> << >>]
    /\ pc' = [c \in Call |-> "idle"]
    /\ req' = [c \in Call |-> None]
    /\ seen' = [c \in Call |-> {}]
    /\ asked' = [c \in Call |-> 0]
    /\ Quiet
    /\ UNCHANGED <<tables, config, now, credentials, published, grants>>

-----------------------------------------------------------------------------
(* Admission *)

\* A client can offer a delegation once it has the root credential, which
\* another issuer may have given it.
Offered(r) ==
    r.route = "createDelegation" /\ r.item.root \in Agent => r.item.root \in published

\* A listening server takes connections; one that closes still serves those it
\* has, request after request.
Receive(c) ==
    /\ server = "listening" \/ c \in sockets
    /\ pc[c] = "idle"
    /\ sockets' = sockets \cup {c}
    /\ \E r \in Request :
          /\ Offered(r)
          /\ req' = [req EXCEPT ![c] = r]
    /\ Goto(c, "gate")
    /\ Quiet
    /\ UNCHANGED <<tables, config, server, open, now, identities, throttle, seen, asked, grants>>

Admitted(r) == IF config.auth THEN r.token ELSE r.local

\* After the gate a call to an evidence route needs an evidence store, and one
\* with a body reads it before anything else.
Routed(r) ==
    IF r.route \in EvidenceRoutes /\ ~config.evidence THEN "handle"
    ELSE IF r.route \in BodyRoutes THEN "body"
    ELSE "handle"

\* Supabase confirms the token, denies it or cannot be reached; a preflight
\* of an authenticated server is answered before.
Gate(c) ==
    LET r == req[c]
    IN  /\ pc[c] = "gate"
        /\ \/ config.auth /\ r.route = "preflight" /\ Answer(c, 204)
           \/ /\ ~(config.auth /\ r.route = "preflight")
              /\ Admitted(r)
              /\ Proceed(c, Routed(r))
           \/ config.auth /\ r.route # "preflight" /\ Answer(c, 401)
           \/ ~config.auth /\ ~r.local /\ Answer(c, 403)
        /\ UNCHANGED <<tables, process, identities, throttle, grants>>

\* readJson, strict parsing and the shape of the body; a client that leaves may
\* break it off.
Body(c) ==
    /\ pc[c] = "body"
    /\ \/ req[c].formed /\ Proceed(c, "handle")
       \/ ~req[c].formed /\ Answer(c, 400)
       \/ c \notin sockets /\ Answer(c, 500)
    /\ UNCHANGED <<tables, process, identities, throttle, grants>>

-----------------------------------------------------------------------------
(* Reads *)

Found(kind, i) == i \in Id /\ rows[i] # None /\ rows[i].kind = kind

\* Reads of the storage, after their limit has been checked.
ReadsStorage(r) ==
    \/ r.route \in {"getDelegation", "getRevocation", "getIdentity"}
    \/ r.route \in {"listDelegations", "listEvents", "listAgents"} /\ r.formed

ReadStatus(r) ==
    IF r.route \in EvidenceRoutes /\ ~config.evidence THEN 400
    ELSE IF ReadsStorage(r) /\ ~open THEN 500
    ELSE CASE r.route = "getDelegation" -> IF Found("delegation", r.item) THEN 200 ELSE 404
           [] r.route = "getRevocation" -> IF Found("revocation", r.item) THEN 200 ELSE 404
           [] r.route = "getIdentity" -> IF r.item \in credentials THEN 200 ELSE 404
           [] r.route \in {"listDelegations", "listEvents", "listAgents"} ->
                IF r.formed THEN 200 ELSE 400
           [] r.route = "createRevocation" -> 400
           [] r.route = "trustAnchors" -> 200
           [] OTHER -> 404

\* Routes that change nothing: the refusal of every revocation is one, and so
\* is an evidence route of a server without a store.
Readable(r) ==
    \/ r.route \in (Routes \ (BodyRoutes \cup {"reload"})) \cup {"createRevocation"}
    \/ r.route \in EvidenceRoutes /\ ~config.evidence

\* Mutant of Read: what is not found is not answered either.
ReadFound(c) ==
    /\ pc[c] = "handle"
    /\ Readable(req[c])
    /\ ReadStatus(req[c]) # 404
    /\ Answer(c, ReadStatus(req[c]))
    /\ UNCHANGED <<tables, process, identities, throttle, grants>>

Read(c) ==
    /\ pc[c] = "handle"
    /\ Readable(req[c])
    /\ Answer(c, ReadStatus(req[c]))
    /\ UNCHANGED <<tables, process, identities, throttle, grants>>

\* The verification routes await the snapshot and decide with it, at once.
Verify(c) ==
    /\ pc[c] \in {"handle", "trusting"}
    /\ req[c].route \in {"verifyIdentity", "verifyRequest", "verifyDelegation"}
    /\ \/ /\ pc[c] = "handle"
          /\ Proceed(c, "trusting")
       \/ /\ pc[c] = "trusting"
          /\ Answer(c, 200)
    /\ UNCHANGED <<tables, process, identities, throttle, grants>>

-----------------------------------------------------------------------------
(* POST /v1/identities, whose steps IdentityIssuance has *)

IssueIdentity(c) ==
    /\ pc[c] = "handle"
    /\ req[c].route = "createIdentity"
    /\ \/ roots' = roots \cup {req[c].item} /\ Proceed(c, "creating")
       \/ Answer(c, 500) /\ UNCHANGED roots
    /\ UNCHANGED <<tables, process, credentials, published, throttle, grants>>

\* The row is stored and the credential answered, or a step of it fails.
CreateIdentity(c) ==
    /\ pc[c] = "creating"
    /\ \/ /\ open
          /\ credentials' = credentials \cup {req[c].item}
          /\ published' = published \cup {req[c].item}
          /\ Answer(c, 201)
       \/ /\ \E code \in {400, 500} : Answer(c, code)
          /\ UNCHANGED <<credentials, published>>
    /\ UNCHANGED <<tables, process, roots, throttle, grants>>

-----------------------------------------------------------------------------
(* POST /v1/delegations *)

\* artifactSubmission passed; the clock is read, and the issue time compared.
Submit(c) ==
    LET s == req[c].item
    IN  /\ pc[c] = "handle"
        /\ req[c].route = "createDelegation"
        /\ config.evidence
        /\ \/ s.issued > now /\ Answer(c, 400)
           \/ /\ s.issued <= now
              /\ asked' = [asked EXCEPT ![c] = now]
              /\ Goto(c, "trusting")
              /\ Quiet
              /\ UNCHANGED <<req, seen>>
        /\ UNCHANGED <<tables, process, identities, throttle, grants>>

ReadTrust(c) ==
    /\ pc[c] = "trusting"
    /\ req[c].route = "createDelegation"
    /\ seen' = [seen EXCEPT ![c] = roots]
    /\ Goto(c, "authorizing")
    /\ Quiet
    /\ UNCHANGED <<tables, process, identities, throttle, req, asked, grants>>

\* Mutant of Authorised: whatever root the evidence brings along.
AuthorisedByEvidence(s, trusted, time) ==
    s.sound /\ s.issued <= time /\ time <= s.expires

\* verifyDelegationChain accepts the chain from its root.
Authorised(s, trusted, time) ==
    s.sound /\ s.root \in trusted /\ s.issued <= time /\ time <= s.expires

Authorize(c) ==
    /\ pc[c] = "authorizing"
    /\ IF Authorised(req[c].item, seen[c], asked[c])
       THEN Proceed(c, "storing") ELSE Answer(c, 400)
    /\ UNCHANGED <<tables, process, identities, throttle, grants>>

\* A conflict, or a storage that is busy or closed, is no ServiceError and is
\* answered as an internal error.
Store(c) ==
    LET a == req[c].item.artifact
    IN  /\ pc[c] = "storing"
        /\ \/ /\ open
              /\ PutArtifact(a)
              /\ grants' = grants \cup {[submission |-> req[c].item, at |-> asked[c],
                                         admitted |-> Admitted(req[c])]}
              /\ Answer(c, 201)
           \/ Answer(c, 500) /\ UNCHANGED <<tables, grants>>
        /\ UNCHANGED <<process, identities, throttle>>

\* Another process stores what it likes: the command line verifies nothing.
StoreElsewhere ==
    /\ \E a \in Artifact : PutArtifact(a)
    /\ Quiet
    /\ UNCHANGED <<process, identities, throttle, calls, grants>>

-----------------------------------------------------------------------------
(* POST /v1/trust-snapshots:reload *)

Running(p) == failures[p].resetAt > now

Throttled(p) == Running(p) /\ failures[p].count >= FailureLimit

\* Mutant of NextWindow: every failure opens a window of its own.
NextWindowFresh(p) == [count |-> 1, resetAt |-> now + Window]

NextWindow(p) ==
    IF Running(p) THEN [failures[p] EXCEPT !.count = @ + 1]
    ELSE [count |-> 1, resetAt |-> now + Window]

\* A server that authenticates its callers reloads for all of them.
Reload(c) ==
    LET r == req[c]
        p == r.peer
    IN  /\ pc[c] = "handle"
        /\ r.route = "reload"
        /\ \/ config.auth /\ Answer(c, 200) /\ UNCHANGED throttle
           \/ ~config.auth /\ Throttled(p) /\ Answer(c, 429) /\ UNCHANGED throttle
           \/ /\ ~config.auth /\ ~Throttled(p) /\ ~r.token
              /\ failures' = [failures EXCEPT ![p] = NextWindow(p)]
              /\ failed' = [failed EXCEPT ![p] = Append(@, now)]
              /\ Answer(c, 403)
           \/ /\ ~config.auth /\ ~Throttled(p) /\ r.token
              /\ failures' = [failures EXCEPT ![p] = NoWindow]
              /\ failed' = [failed EXCEPT ![p] = << >>]
              /\ Answer(c, 200)
        /\ UNCHANGED <<tables, process, identities, grants>>

-----------------------------------------------------------------------------
Step(c) ==
    \/ Gate(c)
    \/ Body(c)
    \/ Read(c)
    \/ Verify(c)
    \/ IssueIdentity(c)
    \/ CreateIdentity(c)
    \/ Submit(c)
    \/ ReadTrust(c)
    \/ Authorize(c)
    \/ Store(c)
    \/ Reload(c)

Next ==
    \/ Tick
    \/ Start
    \/ Bound
    \/ Close
    \/ Drained
    \/ Restart
    \/ StoreElsewhere
    \/ \E c \in Call : Receive(c) \/ Disconnect(c) \/ Step(c)

\* A live process runs what it has started: a lookup (which fetch ends after a
\* time), a snapshot and an issuer come back at last, a body breaks off when its
\* client leaves, a connection idle for the time it is kept ends, and a drained
\* server calls back.  Nothing makes a client send its body.
Fairness ==
    /\ \A c \in Call : /\ WF_vars(Step(c) /\ (pc[c] = "body" => c \notin sockets))
                      /\ WF_vars(Disconnect(c) /\ pc[c] = "idle")
    /\ WF_vars(Drained)

Spec == Init /\ [][Next]_vars

FairSpec == Spec /\ Fairness

-----------------------------------------------------------------------------
(* Properties *)

\* The shape of every variable.
TypeOK ==
    /\ rows \in [Id -> Artifact \cup {None}]
    /\ revocations \in [Id -> Artifact \cup {None}]
    /\ config \in Config
    /\ server \in {"new", "refused", "starting", "failed", "listening", "draining", "closed"}
    /\ open \in BOOLEAN
    /\ sockets \subseteq Call
    /\ now \in Nat
    /\ credentials \subseteq Agent /\ roots \subseteq Agent /\ published \subseteq Agent
    /\ failures \in [Peer -> [count : Nat, resetAt : Nat]]
    /\ failed \in [Peer -> Seq(Nat)]
    /\ pc \in [Call -> InFlight \cup {"idle"}]
    /\ req \in [Call -> Request \cup {None}]
    /\ seen \in [Call -> SUBSET Agent]
    /\ asked \in [Call -> Nat]
    /\ answer \in {None} \cup
          [call : Call, status : {200, 201, 204, 400, 401, 403, 404, 429, 500}]
    /\ grants \subseteq [submission : Submission, at : Nat, admitted : BOOLEAN]

\* A delegation that a call stored came from an admitted caller, was issued and
\* sound at a time not in the future, and hangs from a root whose credential
\* is in the tables to this day, through crashes between the root in memory
\* and its row (authorizeDelegationStorage, RootRegisteringIssuer).
DelegationsAuthorised ==
    \A g \in grants :
        /\ g.admitted
        /\ g.submission.sound /\ g.submission.issued <= g.at /\ g.at <= now
        /\ g.submission.root \in credentials
        /\ rows[g.submission.artifact.id] = g.submission.artifact

\* "Per-peer limit for failed reload-token attempts within one minute": the
\* windows are fixed, so any minute sees less than two limits of failures of a
\* peer since its last success.
ReloadsThrottled ==
    \A p \in Peer :
        Cardinality({i \in DOMAIN failed[p] : failed[p][i] + Window > now})
            <= 2 * FailureLimit - 1

\* The storage is open to every call whose client is there, and to any it may
\* ask next: between a close of the host and the callback of server.close
\* connections stay, and carry further requests.  (The handler of a client that
\* left may find the storage closed, and then stores nothing.)
StorageOutlivesClients == \A c \in sockets : open

AwaitsBody(c) == c \in sockets /\ pc[c] = "body"

\* A close that never comes to its end is held by the clients: one never sends
\* its body nor leaves, or they ask on and on, on connections they have.
OnlyClientsHoldClose ==
    <>[](server = "draining") =>
        \/ \E c \in Call : <>[]AwaitsBody(c)
        \/ []<><<\E c \in Call : Receive(c)>>_vars
=============================================================================
