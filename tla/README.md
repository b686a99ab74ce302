# TLA+ models of TESSERRA (agent-proof v1)

TESSERRA issues identities to agents, signs delegations and requests under them,
and verifies requests against local trust policy. This directory holds TLA+
modules translated from the TypeScript source, TLC configurations that check
them on small instances, and TLAPS proofs of the properties that matter most.
Paths below are relative to `src/packages` unless they start with `src/`.

    tlc -workers 2 -config RequestVerification.cfg MCRequestVerification
    tlapm RequestVerification_proofs.tla

## 1. The system

| Component | State | Operations | Interacts with |
| --- | --- | --- | --- |
| Protocol (`protocol`) | none | strict JSON, canonical form, ids, schemas | everyone, as pure functions |
| Verifiers (`core/src/verify.ts`, `delegation.ts`, `identity.ts`) | none | `verifyArtifacts`, `verifyDelegationChain`, `verifyIdentityCredential` | called by service, host, CLI, adapters |
| Workflows (`service/src/workflows.ts`) | the locals of each call, across awaits | `verifyRequestWithReplay`, `delegate`, `createRequest`, `recordProvenance` | evidence repository, replay store, key provider |
| Identity service (`service/src/index.ts`) | the locals of each call | `createIdentity`, reads, `verifyIdentity`, trust reload | issuer, repository, trust provider |
| Local host (`host-local`) | issuer key, trust snapshot in memory; file `issuer-reference` | bootstrap, `addRoot`, `create`, evidence API, start, close | storage, key provider, API server |
| Storage (`storage-sqlite`) | the tables | transactions over agents, keys, identities, trust, status, artifacts, revocations, replay, events; migrations | other processes with the file open |
| Key provider (`crypto-local`) | sealed key files | create, sign, publicKey, rotate | file system |
| API server (`api-server`) | reload-failure windows per peer | HTTP routes over service and evidence API | clients |
| Command line (`cli`) | `config.json`, artifact files, the same database | init, identities, delegations, requests, trust | storage, key provider, other commands |
| Dashboard (`src/apps/dashboard`) | the session, the token, the answers shown | sign-in, loads, verification | API server, Supabase |
| Adapters, SDK, client, contract | none | mapping and pass-through | verifiers, API |
| Docs and landing sites | none | static pages | - |

What is hard in it, component by component, and what makes it correct:

- **Workflows and replay table.** Calls interleave at every await and, across
  processes, at every statement; the replay row and the answer are apart, so a
  crash may separate them; `consume` reads a clock that moves on before the row
  is committed; rows are purged; revocations appear while a call runs; evidence
  may refer to itself. *Correct:* a request authorises one side effect, but for
  a call that commits after the expiry it checked;
  a key is burnt only by a call that accepts; a rejection as replay has a
  cause; a revocation known before the call is respected; a call ends.
- **Identity service and host.** `createIdentity` checks the idempotency key,
  awaits twice and checks it again; `create` is three transactions; roots and
  issuer are rebuilt at start from what earlier lives left. *Correct:* one
  identity for an idempotency key, for ever; what is stored is whole; its root
  is trusted after a restart; calls do not collide among themselves.
- **Trust tables.** Several statements each, any of which can fail; the checks
  read what other processes write. *Correct:* snapshots are accepted whole and
  in increasing sequence; a status stream has no gap, fork or step back; a
  call that returned is stored; a transaction gives the lock back.
- **Artifact tables.** Insert-once artifacts; a revocation takes effect in a
  transaction of its own after its artifact's; graphs are read over many
  statements while others write; collections are paged while they grow.
  *Correct:* a revocation that was answered for holds; what takes effect is what
  was stored; a graph hangs together and shows what was in force; a client that
  follows the cursors gets each item once.
- **Verifiers.** Nine stages whose order decides the code; evidence in any
  order, with more in it than the chain; three copies of most checks.
  *Correct:* VALID only if there is a chain of attenuated delegations from a
  trusted root to the request, wherever in the list they are, and always then
  unless two artifacts compete for one part; a grant can only narrow along the
  chain; the three verifiers agree.
- **Parsing and form.** A hand-written scanner before `JSON.parse`; patterns
  tested on values that need not be strings; form checks in two orders.
  *Correct:* exactly the documents without a repeated member are accepted; what
  is accepted was signed as it is; the verifiers agree on the form.
- **API server.** Admission, a body, the trust snapshot and the issuer each
  behind an await; roots are in memory before their row; a window that time
  resets; a close with calls on their way, connections that are kept and clients
  that leave. *Correct:* only authorised delegations are stored; failing reloads
  are throttled; the storage outlives the clients; only they can hold a close.
- **Command line, migrations, key files.** Commands hold no lock; JSON files are
  truncated in place; file and row are written apart; the history of migrations
  is read outside a transaction. *Correct:* rows, identities and anchors are
  backed by files and keys; no acknowledged anchor is lost but by a race; the
  migrations are an ordered prefix.
- **Dashboard.** Effects of one commit run in an order; answers come late.
  *Correct:* a request carries the token of the session.

`PROJECT.json` lists the hazards, each at its line, with the properties that
would catch it, or why none does.

## 2. Modules

| Module | What it is |
| --- | --- |
| `ReplayGate` | abstract: no request is spent while one that clashes with it, itself included, is spent and unexpired |
| `RequestVerification` | `verifyRequestWithReplay` over the replay table; implements `ReplayGate` |
| `IdentityRegistry` | abstract: an idempotency key is bound to one identity for ever |
| `IdentityIssuance` | `createIdentity` in the local host, with bootstrap and restart; implements `IdentityRegistry` |
| `TrustLedger` | abstract: snapshots accepted whole and in order, status streams without gaps |
| `TrustStore` | `acceptTrustSnapshot` and `acceptStatusHighWater` over `#transaction`; implements `TrustLedger` |
| `SignedEvidence` | artifacts, trust snapshots, and the checks that the verifiers share |
| `ChainVerifier` | `verifyArtifacts`, stage by stage, and what its evidence proves as a set |
| `DelegationVerifier` | `verifyDelegationChain` as a function |
| `IdentityVerifier` | `verifyIdentityCredential` as a function |
| `VerifierAgreement` | the three on one list of evidence |
| `StrictJson` | `parseStrictJson` token by token, and the documents it should accept |
| `ArtifactWire` | signing, what may happen on the way, and the form checks of two verifiers |
| `WireFormat` | the two side by side; `MCWireFormat` gives the strings |
| `ArtifactTables` | the evidence tables and the transactions on them |
| `EvidenceStore` | writers, a graph reader and a paging client over `ArtifactTables` |
| `ApiServer` | admission, routes, authorisation, throttle and close over `ArtifactTables` |
| `CliHome` | commands in one home directory with its database and migrations |
| `Dashboard` | session, token, requests and answers of the web application |
| `MC*` | the instance each configuration checks |
| `*_proofs` | theorems and their proofs |

Operators whose comment starts with "Mutant of" are wrong variants of the
operator that follows them. No action uses them: each shows, put in place of the
right one, that a property can fail.

### RequestVerification

Variables: `replay` is the table `replay_requests`; `stored` and `revocations`
are what `EvidenceRepository.get` and `listStatus` find; `pc`, `input`,
`cursor`, `gathered`, `listed`, `checkedAt`, `outcome` and `result` are the
locals of each call; `insertedAt` and `known` are history. `Begin`,
`FollowParent`, `EndChain` are `chain`; `Preliminary` is the first verification
and the early returns; `CheckExpiry` and `Insert` are `coreReplayStore.consume`,
before and in its transaction; `Answer` is the rest. Nothing bounds the time
between these two, so a row may be committed after the expiry that was checked,
when the row of an earlier consumption is purged: `OnceUnlessLate` names that
exception, `AtMostOnce` is the promise without it and fails (`LateCommit.cfg`). In
`ReplayGate` a spender and its request are a pair, so a request spent again is a
step of its own, which the gate refuses while the request is unexpired. `Crash`
ends a call between any two of these, by the death of its process or by a throw. `PurgeExpired`,
`Put`, `Publish` and `Tick` are the surroundings.

Abstracted: stages that only look at signed bytes are membership in `Malformed`
(a signer without its credential in the evidence counts as malformed). An
artifact has one window, where the verifier takes that of its constraints as
well. Key-status records are taken to be active, fresh and at their high water.
Purge compares clock values; the code compares the strings its caller gives.

### IdentityIssuance

Variables: `reference`, `sealed`, `keyFiles` are files; `agents`, `keys`,
`keyHistory`, `stored`, `index` are tables; `host`, `unlocked`, `issuer`,
`roots` are the running process; the rest are the locals of each call.
`FindIssuer`, `MissIssuer`, `CreateIssuer`, `WriteReference` are
`issuerReference` and the bootstrap, `Lookup` to `Respond` one `createIdentity`,
`AdvanceKey` an operator's use of the storage the host exposes, `Crash` the
death of the process between any two steps, `Fail` a step that throws. `PutKey`
fails when the sequence is taken, and may fail for any other reason: the code
answers both alike. `MissIssuer` is any failure to read the reference or the key
it names, which the code takes for a first bootstrap. `create` has no await, so
`Busy` keeps other calls of the process out while it runs; its three
transactions are still three steps, because the process may die between them.

Each call makes a fresh key, so a call stands for its key and its credential.

A restart reads back one page of credentials (`ReloadLimit`, a thousand in the
code) and makes them roots. `StoredIsTrusted` says that no other root is missing:
those in `Unrooted` are at most as many as the table holds beyond the page. It
does not say that the credentials verify: they do under the issuer key that
signed them, and `IssuerIsKept` fails when a start cannot read the reference
(`IssuerReplaced.cfg`).

### TrustStore

Variables: `db` is the committed tables, `draft` what the open transaction sees,
`lock` whose transaction it is; `pc`, `job`, `left`, `outcome` belong to each
process; `accepted` is history. `Begin`, `Busy`, `Commit`, `Rollback` are
`#transaction`; `Fail` is any statement failing; `CheckSnapshot`,
`InsertAnchor`, `EndAnchors` are `acceptTrustSnapshot`; `AcceptMark` is
`acceptStatusHighWater`. What these methods check before the transaction
(non-empty strings, key shapes) never touches state and is left out. SQLite is
external: one writer, BEGIN IMMEDIATE fails at once when there is one (no busy
timeout is set), a rolled-back draft is gone.

### ChainVerifier, DelegationVerifier, IdentityVerifier, VerifierAgreement

`verifyArtifacts` is synchronous and reads only its argument, so a behaviour is
one call; `input` is what it is made with, out of `Input`. Variables: `stage` is
the stage the call is in, `chain` and `position` are `chain` and the loop
indices of CHAIN, `code` the decision. Each stage is an action, and the loops of
CHAIN take one step a turn (`Follow`, `Attenuate`). The order of checks and
early returns is the code's. `Find` is `Array.find`; `Holder` is the `Map` that
keeps the last credential of a key.

`Acceptable` is the reference: no stages, no places of the list, no loops. It asks
that every artifact be signed by one who may sign it (`Authentic`), computes the
set of artifacts that hold authority, from the trusted root downwards, and asks
that the request be given to by one of them. The code goes from the request
upwards and compares one pair at a time. `DecidesByContent` says that `VALID`
implies `Acceptable`, for every list; and that `Acceptable` implies `VALID` for a
list that is `Unambiguous`: with two root credentials or two requests the code
takes the first, of two credentials of one key the last, and with records of two
publishers at one sequence `statusFor` takes the first, so there the order of the
list may refuse what another order accepts. Since every artifact has to be
authentic, one stray artifact refuses a call: that is the code's rule.

`ValidIsBounded` is about actions, resources and tasks. The audience of a request
is compared with the context only, so `AudienceIsBound`, which says the same of
the audience, fails (`AudienceBound.cfg`).

Abstracted: PARSE and VERSION are the one code `MALFORMED`; signatures,
canonical bytes and schemas are the flags `formed`, `genuine` and `linked`. A
record's id stands for its digest (both are derived from its content). There is
at most one high-water entry for a publisher and key. Rotation and provenance
records are left out. `DelegationDecisions` is the set of codes
that some order of keys gives; the code visits the keys in one.

Seen while modelling, and covered by no property of their own: `statusFor` takes
the highest sequence over all publishers where the RFC scopes a stream by
publisher; a key that is not active is reported before a revocation of it, the
RFC ranks them the other way (the call is rejected either way); CRYPTO lets a
key-binding credential be signed with a key that another credential names, where
the RFC asks for an issuer role key; `verifyDelegationChain` checks the status of
the keys of unused bindings too, which is why `SameAuthority` has `ChainOnly`.
Of two credentials of one key each verifier keeps the last, but
`verifyDelegationChain` puts the root before the bindings whatever the order of
the list, so `ChainOnly` asks for one credential a key; and it minds an id given
twice among the root and the delegations only, where `verifyArtifacts` refuses
any, which `SameAuthority` names among the differences.

The three verifiers. The storage routes and the command line ask
`verifyDelegationChain`, the request routes `verifyArtifacts`, the identity
route `verifyIdentityCredential`. `SameAuthority` compares the three on the
evidence of one chain and no more (`ChainOnly`). That no delegation is among its
own ancestors is no restriction: an id is a digest of content that names the
parent. Its part `RootAgrees` has one exception, the code's own:
`issuerAuthority` takes the first entry of a principal, so of an issuer with two
keys the second is `UNTRUSTED_KEY` to `verifyIdentityCredential` alone.

### StrictJson, ArtifactWire, WireFormat

`StrictJson` is `parseStrictJson`: `read` is the input so far, `calls` the
recursive descent of `scanForDuplicateMembers` as a stack, `expect` what its
innermost call looks at next; `Scan` and `Refuse` take a token, `EndOfInput` is
`JSON.parse` and `assertIJson`. The constant `Decoded` maps strings as they are
spelled to what they decode to, so a member repeated under another spelling is
one repeated; a lone surrogate and an inexact integer are refused at the end.
`Documents` is the reference and knows nothing of the scanner: what n tokens make
by the grammar of shorter parts (`Longer`), the members of an object told apart by
the set of their names, so that none comes twice. `UpTo` keeps the parts of all
lengths, since a part of n tokens is made of two of any lengths that add up. The
scanner's recursion has no limit of its own and neither has `calls`: a document
too deep for the call stack of the program, which it answers as `MALFORMED_JSON`,
is outside the model.

`ArtifactWire` has a key holder (`Sign`, which is `signArtifact`: it checks
nothing), up to `MaxFlaws` changes on the way (`Alter`), and the form checks of
the two receivers in their own order (`ChainCode`, `IdentityCode`). A member
holds a value of a small set. `"wrapped"` is an array that holds one proper
string: `pattern.test(value)` turns it into that string, so the members in
`Tested`, which have no check that they are strings, accept it. `AcceptedIsSigned`
therefore lists the form of each member with this exception, and
`MembersAreStrings`, which the schemas say, fails (`WrappedMember.cfg`). `SameForm` names
the one difference of the two receivers: `verifyIdentityCredential` does not look
at the resources of a ceiling. Canonicalisation, base64url and the hash are taken
for injective, so an id is its content. The two modules share no state and
`WireFormat` moves one while the other is where it starts.

### ArtifactTables, EvidenceStore

`rows`, `edges`, `revocations`, `events` are the tables; `Conflicts`, `Insert` and
`PutArtifact` are `putArtifact`, `RevokeArtifact` is `revokeArtifact`,
`RecordEvent` the plain INSERT of an event, `Reachable` the recursive query of
`#reachableArtifacts`. The signature is no part of an id, so two artifacts may
have one id.

`EvidenceStore` puts processes around them. A writer stores an artifact
(`StoreArtifact`) or a revocation in two transactions (`BeginRevocation`,
`FinishRevocation`), is refused before either (`Refuse`: a conflict or a locked
database) or dies between them (`CrashWriter`). `ListNodes`, `FlagNode` and
`ListEdges` are `provenanceGraph`, one statement each. `BeginWalk` and `FetchPage`
are a client that follows the cursors of `listDelegations`, `listEvents` and
`listAgents`. `acknowledged`, `graph.due` and `walk.due` are history.

### ApiServer

Variables: `config` is the options of the server, `server` and `open` the listener
and the storage, `sockets` the connections whose client is there, `credentials` the rows and `roots` the trust snapshot in memory,
`published` the credentials that clients may hold, `failures` the map
`reloadFailures`; `pc`, `req`, `seen` and `asked` are each call's locals. `Gate` is
admission (a loopback peer, or a token that Supabase resolves), `Body` is
`readJson`, `Read` the routes that change nothing and `Verify` those that verify,
`IssueIdentity` and `CreateIdentity` are POST `/v1/identities` as seen from the
trust snapshot, `Submit` to `Store` are `authorizeDelegationStorage` and the
insertion, `Reload` the throttled reload. `Start` to `Restart` are the life of
the host; `Disconnect` is a client that leaves, or a connection that was idle as
long as it is kept: the handler runs on and does not notice; `StoreElsewhere` is the command line on the same database, which
verifies nothing. `grants` and `failed` are history.

Four things to know when reading it.

- The snapshot that the concrete host builds names one key as issuer and as
  publisher and a depth of 0, which the delegation verifier refuses, so that host
  stores no delegation at all. The model takes a trust provider with disjoint
  roles, as the package accepts one, because what can go wrong lies behind that
  check.
- The authorisation looks at the evidence submitted with the delegation. It never
  reads the stored revocations; no document says that it does, and
  `DelegationsAuthorised` does not either.
- `server.close` (`Close`, `Drained`) takes no new connections, hangs up on idle
  ones and calls back when the last has ended. It does not wait for handlers: that
  of a client that left may find the storage closed, and is then an error with
  nothing stored. A connection in use is kept, and carries further requests while
  the server drains. So the storage outlives clients, not calls
  (`StorageOutlivesClients`), and clients can hold a close for ever, by a body
  never sent (closing stops the check of Node's request timeout) or by request after
  request: `OnlyClientsHoldClose` says that nothing else does.
- `StorageOutlivesClients` needs `AwaitStart`: `hosted.ts` awaits `start` before it
  installs the signal handlers that close the host. A close while the port is
  being bound would close the storage of a server about to listen.

### CliHome

Each command is a process; `Begin` is its start, `Stop` its end anywhere. `files`,
`keys`, `temporaries`, `schema` and `rows` are what is on disk; `pc`, `cmd`,
`target`, `held` and `applied` are the command's locals. `Open` and `Fill` are
`writeJson`, which truncates and then writes; `Initialise`, `CreateIdentity` with
`Seal` and `Rename`, `ReadAnchors` with `AddAnchor`, `ReadConfig` with
`SignArtifact`, and `StartReading` are the commands up to what they write;
`Connect` and `Migrate` are `#configureAndMigrate`; `Finish` is the row of what
was signed, or the answer. `revoke` and `identity rotate` refuse whatever they are
given, and are no step.

Two commands can lose each other's anchors, and a stop between truncation and
writing leaves no configuration. Nothing in the repository promises otherwise, so
`AnchorsAreKept` says that nothing else loses one: `raced` marks that the
configuration was written by two at once or half, `kept` holds the anchors
acknowledged since the last forced init.

### Dashboard

`session`, `events` and `initial` are the Supabase client, `auth` and `committed`
the state of `useAuth` and that of the last commit, `token` what
`LocalDashboardApi` sends, `requests` what is in flight, `data`, `verdict`, `route`
and `form` what the screens show. `Commit` runs the effects of one commit in the
order of their hooks. Layout and static views are left out.

## 3. Runs

| Run | Question | Instance and bounds |
| --- | --- | --- |
| `request_verification` | do the replay promises hold? | 2 calls; 3 requests, two sharing a request id, one with a parent that refers to itself; a delegation that may be stored late; 5 presentations; skew 1; `MaxTime` 2; one revocation, one tick ahead |
| `identity_issuance` | one whole, trusted identity for a key? | 3 calls; 2 agents; 1 idempotency key; 1 passphrase; `MaxSequence` 1; `MaxIssuer` 2; `ReloadLimit` 2 |
| `trust_store` | do the tables keep the ledger? | 2 processes; 5 offers: two good, a conflicting one, one that steps back, one that repeats an anchor; 6 marks: a stream of three, a fork, another snapshot, an unknown snapshot |
| `chain_verifier` | is a call decided by what its evidence proves, and alike by the three verifiers? | about 9700 calls around one chain of two delegations: 12 first delegations, 10 second ones and 13 requests, in 3 orders; 16 sets of records on a key, 11 snapshots, 3 times, 2 modes, in 4 orders; 6 contexts, 4 modes; 3 roots and 5 credentials of the delegate |
| `evidence_store` | do revocations hold, graphs cohere and pages miss nothing? | 2 writers; 6 artifacts: 2 delegations, 2 linked provenance statements, 2 revocations of one id; 4 events, 3 credentials; pages of 1 and 2; `MaxNow` 1 |
| `api_server` | are calls authorised, throttled and drained? | 2 connections; 1 agent; 4 delegations offered; 4 configurations; `FailureLimit` 2, `Window` 2, `MaxNow` 4 |
| `cli_home` | does a home directory stay whole? | 2 commands at a time, interchangeable (symmetry); 2 identities, a delegation of one and a request under it of the other; 2 migrations |
| `wire_format` | is exactly what should be accepted accepted? | `MaxTokens` 9; 3 strings of 2 names; 2 keys, 7 kinds, `MaxSigned` 2, `MaxFlaws` 2 |
| `restart_roots` (violation) | are only root-authority subjects roots? | as `identity_issuance` |
| `action_bound` (violation) | is a request accepted only for the action expected? | as `chain_verifier` |
| `delegation_walk` (violation) | does a walk over delegations get each once? | 4 delegations of mixed case; pages of 1 and 2 |
| `dashboard_token` (violation) | does each request carry a token? | 2 tokens; 4 requests in flight; 1 event on its way |

Why the bounds are enough. A double acceptance needs two calls and one request;
a clash needs two requests that share one key only; the purge race needs one
request to expire (at 1) and time to pass it (2). `Lead`,
`Presented`, `Revocable` and `MaxTime` bound the surroundings only, and the
theorems on replay hold without them. Two rows read back of three is a page that
leaves one out. Three creations are one winner, one concurrent loser and one retry after a restart; three keys of
one agent and one advanced sequence are the fewest that collide. `MaxSequence`
and `MaxIssuer` bound operators and restarts. Two processes are all that
BEGIN IMMEDIATE can tell apart, and the offers meet each branch of each check.

The calls of `chain_verifier` change one to three things about valid evidence, in
each dimension that a check looks at and to both sides of each bound, so that
every code is decided by some call and about two hundred calls are VALID. Two
delegations are the fewest at which comparing neighbours, comparing with the
root and counting the chain differ; `ValidIsBounded` is proved for any length.

Two writers and two revocations of one id are a race between their two
transactions; a revocation in force at 1 is seen by a graph begun at 0 or at 1;
four events in pages of two are three pages with something added to each side.
With two connections one call can be at each await while the other finishes or
the server closes; two failures in a window of two, over four ticks, span two
windows. Two commands are what a lost update, a torn file and a race of two
migrations take. Nine tokens hold an object with two members of which one is an
object, and two flaws are one when signing and one on the way, or two on the way.

In `evidence_store` and `api_server` the MC module keeps apart what shares no
state (`Apart`): walks over events and credentials from writers and graphs, and
reloads and reading routes from routes that store.

Deadlock is not checked where the system may stop: `identity_issuance` (all
calls answered, key sequences used up), `chain_verifier` and `wire_format` (the
call or the input ends) and `api_server` (a server that refuses its options, or
has closed). The other passing runs are checked for it: a purge, another call of a
process, a graph or a command that only reads are always possible.

What the violations show. They are disagreements of the code with its own
documents, with the quotations in `PROJECT.json` under `findings`:

- `restart_roots`: a restart adds a root for every stored credential, key
  bindings included.
- `action_bound`: BINDING looks up the action of the request and the action of
  the context, each by itself, and never compares them.
- `delegation_walk`: `listDelegations` sorts with `localeCompare` and compares the
  cursor by code units, so a walk skips delegations or repeats one.
- `dashboard_token`: the load of a sign-in runs before the effect that hands the
  token to the API object.

Four more configurations are refuted by TLC within seconds and are not among the
runs. Each asks for a promise of the documents that a run checks with the code's
exception named, on the instance of that run or a smaller one:

| Configuration | Module | Promise | Where it is made, and what the code does |
| --- | --- | --- | --- |
| `LateCommit.cfg` | `MCRequestVerification` | `AtMostOnce` (run: `OnceUnlessLate`) | RFC 0001 §5 keeps replay rows "through expiry plus skew"; `consume` reads its clock before its transaction, so a call that stalls there, past the expiry and the purge of another's row, authorises the request again |
| `IssuerReplaced.cfg` | `MCIdentityIssuance` | `IssuerIsKept` (run: `StoredIsTrusted`) | the comment "first bootstrap" at `host-local/src/index.ts:320`; any failure to read the issuer key, a wrong passphrase included, counts as one, and overwrites the reference |
| `AudienceBound.cfg` | `MCChainVerifier` | `AudienceIsBound` (run: `ValidIsBounded`) | `repository-architecture.md:100`, "requests may exercise only resulting effective authority"; the audiences of the ceilings are never looked at |
| `WrappedMember.cfg` | `MCWireFormat` | `MembersAreStrings` (run: `AcceptedIsSigned`) | `common.schema.json:27`, `"type": "string"`; a pattern is tested on a value that need not be a string |

Two more observations have no property:

- `addRoot` changes the policy under the same snapshot id and sequence.
- `acceptStatusHighWater` accepts a high water from any publisher.

## 4. Fairness

Each `FairSpec` has weak fairness on the steps a started call takes by itself,
and on nothing else: not on starting calls, time, purges, operators, restarts
or failures. The event loop of a live process runs each settled promise, and a
SQLite transaction is one synchronous call. Crashes stay possible at each step,
so liveness properties say "answered, or its process died". `Released` says
that a transaction that fails or commits ends. `Responds` and `Terminates`
need no more than this. `OnlyClientsHoldClose` has weak fairness of each call's
steps, except of a body whose client is there: a token lookup ends (`fetch` has its
limits), a body breaks off when its client leaves, but nothing makes a client send
it. It also has weak fairness of the end of an idle connection, by Node's
keep-alive timeout, and of `Drained`, the callback of `server.close`. A client that
stays with its body unsent, or keeps asking, is in the property and not assumed
away. `ChainVerifier` has no fairness and no
liveness property: `CallsEnd` bounds the steps of a call instead (§5). The tables, the home directory and the wire
have none either: there nothing has to happen.

## 5. Proofs

TLAPS checks these for every value of the constants, under the named ASSUMEs of
the modules and what the last column adds:

| Theorem | Says | Assumes |
| --- | --- | --- |
| `RequestVerification_proofs!TypeCorrect` | `TypeOK` | - |
| `RequestVerification_proofs!OnceUnlessLateHolds` | `OnceUnlessLate` | - |
| `RequestVerification_proofs!Implementation` | `Spec` implements `ReplayGate` | - |
| `RequestVerification_proofs!RevocationAlwaysRespected` | `RevocationRespected` | - |
| `RequestVerification_proofs!RejectionAlwaysJustified` | `RejectionJustified` | - |
| `RequestVerification_proofs!BurnedKeyAlwaysAccounted` | `BurnedKeyAccounted` | - |
| `IdentityIssuance_proofs!TypeCorrect` | `TypeOK` | - |
| `IdentityIssuance_proofs!StoredWhole` | `StoredIsWhole` | - |
| `IdentityIssuance_proofs!SequencesFree` | `SequenceIsFree` | - |
| `IdentityIssuance_proofs!HistoriesAgree` | `HistoryAgrees` | - |
| `IdentityIssuance_proofs!StoredTrusted` | `StoredIsTrusted` | - |
| `IdentityIssuance_proofs!Implementation` | `Spec` implements `IdentityRegistry` | - |
| `TrustStore_proofs!TypeCorrect` | `TypeOK` | - |
| `TrustStore_proofs!HighWaterLatest` | `HighWaterIsLatest` | - |
| `TrustStore_proofs!ReturnedStored` | `ReturnedIsStored` | `HashCovers`: equal rows, equal anchors |
| `TrustStore_proofs!Implementation` | `Spec` implements `TrustLedger` | - |
| `ChainVerifier_proofs!TypeCorrect` | `TypeOK` | - |
| `ChainVerifier_proofs!ValidBounded` | `ValidIsBounded` | - |
| `ChainVerifier_proofs!ContentDecides` | `DecidesByContent` | - |
| `ChainVerifier_proofs!VerifiersAgree` | `SameAuthority` | - |
| `ChainVerifier_proofs!CallsEnd` | at most 2n + 6 steps on n artifacts | - |
| `EvidenceStore_proofs!TypeCorrect` | `TypeOK` | - |
| `EvidenceStore_proofs!AcknowledgedRevocationHolds` | `AcknowledgedHolds` | - |
| `EvidenceStore_proofs!RevocationIsAlwaysStored` | `RevocationIsStored` | - |
| `EvidenceStore_proofs!GraphIsAlwaysCurrent` | `GraphIsCurrent` | - |
| `EvidenceStore_proofs!GraphIsAlwaysWhole` | `GraphIsWhole` | - |
| `EvidenceStore_proofs!WalksAreWhole` | `WalkedOnce` | no walk over delegations (see `delegation_walk`) |
| `CliHome_proofs!SchemaIsAlwaysPrefix` | `SchemaIsPrefix` | - |
| `CliHome_proofs!IdentitiesAreAlwaysWhole` | `IdentitiesAreWhole` | - |
| `CliHome_proofs!RowsAreAlwaysBacked` | `RowsAreBacked` | - |
| `CliHome_proofs!AnchorsAreAlwaysKept` | `AnchorsAreKept` | - |
| `ApiServer_proofs!DelegationsAlwaysAuthorised` | `DelegationsAuthorised` | - |
| `ApiServer_proofs!StorageAlwaysOutlivesClients` | `StorageOutlivesClients` | `AwaitStart` |
| `ApiServer_proofs!ReloadsAlwaysThrottled` | `ReloadsThrottled` | - |
| `WireFormat_proofs!AlwaysScansExactly` | `ScansExactly` | - |
| `WireFormat_proofs!AcceptedIsAlwaysSigned` | `AcceptedIsSigned` | - |
| `WireFormat_proofs!AlwaysSameForm` | `SameForm` | - |

*Replay.* `OnceUnlessLate` is not inductive: between `CheckExpiry` and `Insert` a
row may be purged. The invariant `IInv` adds that a consumed request either has
its row still in the table or is past its `expires_at` (`Held`), that a call about
to insert read the clock before that instant (`Staged`), and of two consumptions of
one key that one came after the other's request had expired (`Apart`). For one
request that is the late commit which the property names; it needs the purge to
keep rows that expire at the present instant. The same invariant gives the
refinement: an `Insert` that consumes is a `Spend` by its call, every other step a
tick or a stutter.

The other three promises rest on `JInv`. It
says of each call what it has learnt (`Informed`: what was known before it began
is in what `listStatus` gave it, and an acceptance was sound under that list),
what its outcome says of its verdict (`Judged`: it consumes only after passing
every other stage), and that a duplicate has an original (`Original`); and each
row has an `Owner`, the call that put it there after every row it clashes with
had expired. An owner is needed because a purge may be followed by a second
insertion: the row that is found is then the later call's.

*Issuance.* The invariant relates where a call stands to what its earlier steps
left (`Progress`), to what is stored (`Whole`), to what it was told (`Told`), to
the index (`Indexed`), and counts: unless a key of the agent was advanced, the
sequences of its keys are less than n (`Counted`), so n is free. `StoredTrusted`
adds (`TInv`) that the root of a call that has its credential is in the snapshot
before the row is stored; a restart forgets such calls, and what it reads back is
all of the table or a page of `ReloadLimit`. The refinement maps storing to `Admit` and answering to `Tell`.

*Trust tables.* The promises are about `db` and `accepted`, which only `Commit`
changes; the invariant therefore says what the draft of a transaction is at each
statement. `Locked` ties the lock to being inside a transaction, so there is one
draft. `Drafted` says what that draft adds to `db`: nothing (`Repeats`), a newest
snapshot with its anchors, of which the inserted and the remaining ones make up
all (`Anchoring`, `AddsSnapshot`), or the next mark of a stream (`AddsMark`).
`Streams` says that a stream's row is the last of records 1 to n, one each, and
`Anchored` that no anchor row waits for a snapshot still to come, without which a
new snapshot could inherit anchors. `Commit` then is one step of the ledger or a
stutter, and every other step a stutter. `ReturnedStored` also needs that each
row was inserted with the anchors of an offer (`Complete`): a repeated call is
compared by its row only, which is why `HashCovers` is assumed.

*Verifier.* `VALID` is decided in REPLAY, which looks at none of what
`ValidIsBounded` says, so the invariant carries what each stage established to
the end: TRUST the root, CHAIN that each artifact is given to by the next
(`Linked`), BINDING that the request is within the first ceiling. `Nested` is the
loop invariant of the ceilings: up to `position` each is within every one above
it (by transitivity, one turn at a time), and the depth has grown by one a turn.
That `Array.find` and a loop with early returns yield what they look for rests on
the least element of a set of indices (`Least`, from the library's theorem that
`<` on the naturals is well-founded).

`ContentDecides` has two halves. What `VALID` rests on: `Checked` keeps what each
stage passed (that every artifact names the next among them), and `ChainHolds`
goes down the finished chain from the root, one level of `BackedAt` an artifact.
That what is acceptable is answered `VALID`: `Backing` says that the way up meets
only artifacts that hold authority, at one level less each turn (`FirstHeld`: a
delegation at a level is under something of the level before), so a parent is
always found, is new because depths grow, and the root comes before the levels
run out. That a key is usable exactly when the loop over keys passes it
(`UsableKey`) is where the uniqueness of numbers in `Unambiguous` is needed; that
the code finds the one request and the one root, where the counts are.

`CallsEnd` is a safety theorem that stands for termination. The code puts no bound
on the loop up to the root (the snapshot's depth is compared after it), and the
parents that artifacts name may form a cycle. `StepsLeft` counts the steps a call
can still take: in that loop twice the artifacts it has not met (`Ahead`) and the
length of the chain, which is what the loop over the ceilings may need later. It is
a natural number, positive until the call is done, 2n + 6 at the start, and less
after every step; in `Follow` because `LinkFault` refuses a parent that the chain
has. That the second loop stops at the end of the chain and does not run past it is
part of `Nested`.

`VerifiersAgree` relates a call in its stages to one evaluation of another
verifier. Its invariant `AInv` has two halves. A code from after STATUS rests on
`Holds`, of which `ChainAccepted` shows that `verifyDelegationChain` accepts it;
and on evidence that `verifyDelegationChain` accepts, with a request that is not
at fault, no stage up to STATUS stops (`Agreed`, one lemma a stage). Both halves
rest on the lists being the same: `Filter` keeps the elements and their order, so
`Find`, the holder of a key and the selected record of a stream are the same in
the parts as in the whole (`FilterFind`, `FilterStream`, `HolderIs`), and hence the
checks of each artifact and key (`SameChecks`). The two chains are the same too,
although one is followed up from the request and the other from the leaf: `LineIs`
says that the line steps through parents, it repeats nothing because depths grow
with it (`Deeper`, `Shorter`), and it leaves out no delegation, since of those it
left out one would be last and have no child (`Exhausts`), which is the use of
acyclicity. `RootsAgree` needs no walk: the checks of a root are compared one by
one, in the order of each verifier.

*Evidence.* `RInv` says that a row is under its own id (`Keyed`), that an entry in
`revocations` is the row under its id (`RevocationRows`), and that a writer
between its two transactions holds a row that is stored (`HeldStored`): another
writer of the same id would have met a conflict. That nothing stored ever changes
(`Grows`) is a lemma about steps. `GInv` follows the graph in the making: nodes
already read are flagged as they had to be, and whatever is flagged or due is
revoked by now, for what is revoked stays revoked (`RevokedStays`).

`GraphIsWhole` rests on what the recursive query returns. `Closure` takes as many
rounds as there are ids; that the recursion defines anything, and that every node
it reaches is at the end of an edge from a node reached, is shown by the least
round at which it would fail (`GrownExists`, `ReachedByEdges`). A graph finds its
edges one statement after its nodes, and rows are only added in between (`WInv`).
For a walk, `PInv` says that what was due is behind the cursor and got, or ahead
of it and still there, and that a page is the lowest items ahead of the cursor
(`PageIsFirst`, `LastIsLast`). This needs the cursor and the page to use one
order, which is just what fails for delegations.

*Home directory.* `TInv` relates a command's label to its operation and target.
`SchemaInv` adds that no command believes in more migrations than are committed,
so the one it commits next is new or was committed by another, and the check in
the transaction decides. `IdInv` adds that an identity has its keys from the
moment its file exists, and one maker. `RowInv` says what a signing command has
already established (`SignOf`) and that nothing takes it back (`FilesKeep`).
`ConfigInv` says that without a race whoever is about to write the configuration
is up to date (`WriterOf`: trust add holds what was acknowledged, and init found
nothing), so what is written is what was acknowledged (`Settled`); a second
command that had looked before such a write makes it a race.

*Server.* `AInv` ties each call's locals to where it stands: past the gate its
caller was admitted, before the insertion the delegation was sound under the
roots it read, and the clock it read is not in the future. A client can offer a
root only after it was answered with the credential, and by then the row is
stored (`published \subseteq credentials`); that is why a root in memory without
a row never carries a delegation. `OInv` adds that connections are there only while
the server listens or drains, and then the storage is open. `ThrottleOK` follows
the failures of a peer, oldest first: the last ones, as many as the counter says,
fell into the window in progress, and of those before it all but the last
`FailureLimit - 1` were a whole window old when it began.

*Scanner.* `ScansExactly` compares a machine that reads from left to right with a
grammar that builds from the inside. The invariant `FitsExactly` says what may
follow what was read: for every word w, the input so far with w after it is a
value exactly if w is in `Fits(calls, expect)`, which is read off the state alone:
for each call under way what may come after one of its items, the innermost first
(`After`), and before that whatever is expected. A token then is a derivative:
`MovesDerive` shows, one place of the scanner at a time, that the words which go
on with a token are those that fit where the scanner goes with it, and that there
are none where it refuses; `OneMove`, that it never has a choice. The end of the
input is the empty word, which fits only where "end" is expected (`StopFits`). The
three languages are related by equations on their first tokens (`ValueThenIs`,
`ItemsThenIs`, `MembersThenIs`), in which the names already taken go from the
innermost call to the names that may still follow: this is where
`DUPLICATE_MEMBER` is due and nowhere else. The equations rest on those of the
grammar (`ValueIs`, `ItemsIs`, `MembersIs`), and these on `UpTo` satisfying its own
equation (`UpToIs`), which is shown by the least length at which it would fail
(`LeastOf`, `StartsExist`). Tokens that `assertIJson` refuses later are in no
document, and the scanner treats them as literals (`LikeLiteral`).

*Wire.* `SigInv` says that whatever a holder of a key signed has its own content
as id and the signature over both; changes on the way move signatures from one
artifact to another and never make one. A receiver that recomputes the id and
checks the signature over it therefore accepts only what was signed. `SameForm`
is a comparison of two lists of checks in two orders, for any artifact.

Checked by TLC only: liveness (`Terminates`, `Responds`, `Released`,
`OnlyClientsHoldClose`),
which is out of the prover's reach. Every invariant and every other action
property of the passing runs is proved.

## 6. Not modelled

- *Adapters, SDK, API client, API contract.* Mappings and pass-through without
  state: nothing interleaves, and what they decide the verifiers decide again.
- *Docs and landing sites; the layout and static pages of the dashboard.*
  Presentation.
- *Canonical form, base64url, hashing and encryption.* Functions of bytes with
  conformance vectors beside them; the models take them for injective, and
  encryption for a passphrase that opens a key or does not.
- *Key rotation and the tombstone of an agent.* No caller: the command line
  refuses `identity rotate`, and nothing passes a tombstone to `putAgent`.
- *`statusFor` over the records of several publishers, and the evidence the
  embedding program returns from `listStatus`.* The first is in `ChainVerifier`
  with two publishers; the second is the embedding program's, no repository of
  this code implements it, and `RequestVerification` takes it as given.
- *Shape checks on JSON columns and arguments*, which throw before any state is
  touched, and the wording of answers.
