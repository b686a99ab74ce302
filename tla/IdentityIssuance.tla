-------------------------- MODULE IdentityIssuance --------------------------
(***************************************************************************)
(* The local host that issues agent identities: createIdentity of the      *)
(* service over SqliteIdentityRepository, RootRegisteringIssuer and the    *)
(* trust snapshot of MutableTrustProvider, with the bootstrap that finds   *)
(* or creates the issuer key and rebuilds the snapshot after a restart.    *)
(*                                                                         *)
(* One process runs at a time.  Its calls interleave at their awaits; the  *)
(* repository's create is synchronous, so no other call runs inside it,    *)
(* but its three transactions commit one by one and the process may die    *)
(* between them.  Each call makes one fresh key, so the call names the key *)
(* and the credential it issues.                                           *)
(***************************************************************************)
EXTENDS Naturals, Sequences, FiniteSets

CONSTANTS
    Call,        \* requests to POST /v1/identities
    Agent,       \* agent subjects
    Key,         \* idempotency keys
    Input,       \* [subject, purpose, key]: what callers ask for
    Passphrase,  \* passphrases the host is started with
    Status,      \* key statuses an operator sets
    ReloadLimit, \* credentials the bootstrap reads back
    MaxSequence, \* bound: history sequences an operator sets
    MaxIssuer,   \* bound: issuer keys ever created
    None         \* no call, no key, no passphrase

Purposes == {"agent-root-authority", "agent-key-binding"}

ASSUME CallAssumption ==
    /\ None \notin Call \cup Key \cup Passphrase
    /\ Input \subseteq [subject : Agent, purpose : Purposes, key : Key \cup {None}]
    /\ IsFiniteSet(Call)

ASSUME BoundAssumption ==
    /\ "active" \in Status
    /\ ReloadLimit \in Nat
    /\ MaxSequence \in Nat
    /\ MaxIssuer \in Nat

VARIABLES
    host,        \* the process: down, bootstrapping or up
    unlocked,    \* the passphrase it was started with
    reference,   \* file issuer-reference: which issuer key, 0 for none
    sealed,      \* the issuer key files, each with the passphrase it opens under
    issuer,      \* the issuer key of the running host
    roots,       \* root_subject of the snapshot's roots
    keyFiles,    \* the subject key files KeyProvider.create wrote
    agents,      \* table agents
    keys,        \* table keys
    keyHistory,  \* table key_history
    stored,      \* table identity_credentials
    index,       \* table identity_idempotency
    pc,          \* where each call stands
    input,       \* its CreateIdentityInput
    credential,  \* the credential it issued
    answer       \* the identity it is about to be told, or was told

disk == <<reference, sealed, keyFiles, agents, keys, keyHistory, stored, index>>
process == <<host, unlocked, issuer, roots>>
calls == <<pc, input, credential, answer>>
vars == <<disk, process, calls>>

-----------------------------------------------------------------------------
NoInput == [subject |-> None, purpose |-> None, key |-> None]
NoCredential == [subject |-> None, purpose |-> None, issuer |-> 0]

Init ==
    /\ host = "down"
    /\ unlocked = None
    /\ reference = 0
    /\ sealed = << >>
    /\ issuer = 0
    /\ roots = {}
    /\ keyFiles = {}
    /\ agents = {}
    /\ keys = {}
    /\ keyHistory = {}
    /\ stored = {}
    /\ index = [k \in Key |-> None]
    /\ pc = [c \in Call |-> "idle"]
    /\ input = [c \in Call |-> NoInput]
    /\ credential = [c \in Call |-> NoCredential]
    /\ answer = [c \in Call |-> None]

Goto(c, label) == pc' = [pc EXCEPT ![c] = label]

InFlight == {"creating", "issuing", "persisting", "keying", "storing", "responding"}

\* What a call asked for and was to be told is gone when it comes to nothing.
Forget(dead) ==
    /\ input' = [c \in Call |-> IF c \in dead \ stored THEN NoInput ELSE input[c]]
    /\ answer' = [c \in Call |-> IF c \in dead THEN None ELSE answer[c]]

-----------------------------------------------------------------------------
(* Bootstrap *)

\* The subjects of the credentials listed at start: all of them, or the first
\* ReloadLimit in the order of their ids, which are digests.
Reloaded ==
    {{credential[c].subject : c \in page} :
        page \in {p \in SUBSET stored :
                    Cardinality(p) = IF Cardinality(stored) <= ReloadLimit
                                     THEN Cardinality(stored) ELSE ReloadLimit}}

\* createConcreteLocalHost with an issuer key in hand.
Open(key) ==
    /\ host' = "up"
    /\ issuer' = key
    /\ roots' \in Reloaded

\* The reference is read and the key file it names opens.
FindIssuer(passphrase) ==
    /\ host = "down"
    /\ reference # 0
    /\ sealed[reference] = passphrase
    /\ unlocked' = passphrase
    /\ Open(reference)
    /\ UNCHANGED <<disk, calls>>

\* Any failure to read the reference or the key it names counts as a first
\* bootstrap: neither is there, the passphrase is another one, a disk error.
MissIssuer(passphrase) ==
    /\ host = "down"
    /\ Len(sealed) < MaxIssuer
    /\ unlocked' = passphrase
    /\ host' = "creating"
    /\ UNCHANGED <<disk, calls, issuer, roots>>

CreateIssuer ==
    /\ host = "creating"
    /\ sealed' = Append(sealed, unlocked)
    /\ host' = "writing"
    /\ UNCHANGED <<reference, keyFiles, agents, keys, keyHistory, stored, index,
                   unlocked, issuer, roots, calls>>

WriteReference ==
    /\ host = "writing"
    /\ reference' = Len(sealed)
    /\ Open(Len(sealed))
    /\ UNCHANGED <<sealed, keyFiles, agents, keys, keyHistory, stored, index,
                   unlocked, calls>>

\* The process dies with all it holds in memory, credentials it has not stored
\* included.  writeFile truncates before it writes, so the reference may be lost
\* on the way.
Crash ==
    /\ host # "down"
    /\ host' = "down"
    /\ unlocked' = None
    /\ issuer' = 0
    /\ roots' = {}
    /\ reference' \in IF host = "writing" THEN {reference, 0, Len(sealed)} ELSE {reference}
    /\ pc' = [c \in Call |-> IF pc[c] \in InFlight THEN "lost" ELSE pc[c]]
    /\ Forget({c \in Call : pc[c] \in InFlight})
    /\ credential' = [c \in Call |-> IF c \in stored THEN credential[c] ELSE NoCredential]
    /\ UNCHANGED <<sealed, keyFiles, agents, keys, keyHistory, stored, index>>

-----------------------------------------------------------------------------
(* createIdentity *)

KeysOf(agent) == {k \in keys : k.agent = agent}

\* Another call is inside SqliteIdentityRepository.create.
Busy(c) == \E d \in Call \ {c} : pc[d] \in {"keying", "storing"}

\* A validated request arrives and looks its idempotency key up.
Lookup(c) ==
    /\ host = "up"
    /\ pc[c] = "idle"
    /\ ~Busy(c)
    /\ \E i \in Input :
         LET prior == IF i.key = None THEN None ELSE index[i.key]
         IN  /\ input' = [input EXCEPT ![c] = i]
             /\ answer' = [answer EXCEPT ![c] = prior]
             /\ Goto(c, IF prior = None THEN "creating" ELSE "responding")
    /\ UNCHANGED <<disk, process, credential>>

\* KeyProvider.create resolves: the subject's key file is in place.
CreateKey(c) ==
    /\ pc[c] = "creating"
    /\ ~Busy(c)
    /\ keyFiles' = keyFiles \cup {c}
    /\ Goto(c, "issuing")
    /\ UNCHANGED <<reference, sealed, agents, keys, keyHistory, stored, index,
                   process, input, credential, answer>>

\* Mutant of Issue: the root is left for the next start to register.
IssueUnregistered(c) ==
    /\ pc[c] = "issuing"
    /\ ~Busy(c)
    /\ credential' = [credential EXCEPT ![c] =
         [subject |-> input[c].subject, purpose |-> input[c].purpose, issuer |-> issuer]]
    /\ Goto(c, "persisting")
    /\ UNCHANGED <<disk, process, input, answer>>

\* The credential is signed, and RootRegisteringIssuer adds its root at once.
Issue(c) ==
    LET i == input[c]
    IN  /\ pc[c] = "issuing"
        /\ ~Busy(c)
        /\ credential' = [credential EXCEPT ![c] =
             [subject |-> i.subject, purpose |-> i.purpose, issuer |-> issuer]]
        /\ roots' = roots \cup (IF i.purpose = "agent-root-authority" THEN {i.subject} ELSE {})
        /\ Goto(c, "persisting")
        /\ UNCHANGED <<disk, host, unlocked, issuer, input, answer>>

\* SqliteIdentityRepository.create: agents.put,
PutAgent(c) ==
    /\ pc[c] = "persisting"
    /\ ~Busy(c)
    /\ agents' = agents \cup {credential[c].subject}
    /\ Goto(c, "keying")
    /\ UNCHANGED <<reference, sealed, keyFiles, keys, keyHistory, stored, index,
                   process, input, credential, answer>>

\* Mutant of NextSequence: the last sequence, not the one after it.
LastSequence(agent) == IF KeysOf(agent) = {} THEN 0 ELSE Cardinality(KeysOf(agent)) - 1

\* Mutant of NextSequence: the index of the newest key, which an agent without
\* keys does not have.
NewestIndex(agent) == Cardinality(KeysOf(agent)) - 1

NextSequence(agent) == Cardinality(KeysOf(agent))

\* UNIQUE (agent_id, history_sequence).
Taken(agent, sequence) == \E k \in KeysOf(agent) : k.sequence = sequence

\* Mutant of PutKey: the catch block goes on without the key.
PutKeySwallowed(c) ==
    LET agent == credential[c].subject
        fresh == [id |-> c, agent |-> agent, sequence |-> NextSequence(agent), status |-> "active"]
    IN  /\ pc[c] = "keying"
        /\ \/ UNCHANGED <<keys, keyHistory>>
           \/ /\ ~Taken(agent, fresh.sequence)
              /\ keys' = keys \cup {fresh}
              /\ keyHistory' = keyHistory \cup {fresh}
        /\ Goto(c, "storing")
        /\ UNCHANGED <<reference, sealed, keyFiles, agents, stored, index, process,
                       input, credential, answer>>

\* Mutant of PutKey: on a conflict it tries again, with the same sequence.
PutKeyRetried(c) ==
    LET agent == credential[c].subject
        fresh == [id |-> c, agent |-> agent, sequence |-> NextSequence(agent), status |-> "active"]
    IN  /\ pc[c] = "keying"
        /\ ~Taken(agent, fresh.sequence)
        /\ keys' = keys \cup {fresh}
        /\ keyHistory' = keyHistory \cup {fresh}
        /\ Goto(c, "storing")
        /\ UNCHANGED <<reference, sealed, keyFiles, agents, stored, index, process,
                       input, credential, answer>>

\* keys.put.  It fails when the sequence is taken, and may for any other reason
\* (a locked database, a full disk): the answer is IDENTITY_CONFLICT for all.
PutKey(c) ==
    LET agent == credential[c].subject
        fresh == [id |-> c, agent |-> agent, sequence |-> NextSequence(agent), status |-> "active"]
    IN  /\ pc[c] = "keying"
        /\ \/ /\ Goto(c, "failed")
              /\ Forget({c})
              /\ UNCHANGED <<keys, keyHistory>>
           \/ /\ ~Taken(agent, fresh.sequence)
              /\ keys' = keys \cup {fresh}
              /\ keyHistory' = keyHistory \cup {fresh}
              /\ Goto(c, "storing")
              /\ UNCHANGED <<input, answer>>
        /\ UNCHANGED <<reference, sealed, keyFiles, agents, stored, index, process,
                       credential>>

\* Mutant of CreateCredential: the key is not looked up again.
CreateCredentialBlindly(c) ==
    LET key == input[c].key
    IN  /\ pc[c] = "storing"
        /\ stored' = stored \cup {c}
        /\ index' = [k \in Key |-> IF k = key /\ index[k] = None THEN c ELSE index[k]]
        /\ answer' = [answer EXCEPT ![c] = c]
        /\ Goto(c, "responding")
        /\ UNCHANGED <<reference, sealed, keyFiles, agents, keys, keyHistory, process,
                       input, credential>>

\* and credentials.create: the winner of an idempotency key answers for all.
CreateCredential(c) ==
    LET key == input[c].key
        prior == IF key = None THEN None ELSE index[key]
    IN  /\ pc[c] = "storing"
        /\ \/ /\ prior # None
              /\ answer' = [answer EXCEPT ![c] = prior]
              /\ UNCHANGED <<stored, index>>
           \/ /\ prior = None
              /\ answer' = [answer EXCEPT ![c] = c]
              /\ stored' = stored \cup {c}
              /\ index' = [k \in Key |-> IF k = key THEN c ELSE index[k]]
        /\ Goto(c, "responding")
        /\ UNCHANGED <<reference, sealed, keyFiles, agents, keys, keyHistory, process,
                       input, credential>>

\* Any other await or statement of a call throws, and it is answered with 500.
\* An open transaction is rolled back; what went before stays.
Fail(c) ==
    /\ pc[c] \in {"creating", "issuing", "persisting", "storing"}
    /\ ~Busy(c)
    /\ Goto(c, "failed")
    /\ Forget({c})
    /\ UNCHANGED <<disk, process, credential>>

\* The response is written.
Respond(c) ==
    /\ pc[c] = "responding"
    /\ ~Busy(c)
    /\ Goto(c, "answered")
    /\ UNCHANGED <<disk, process, input, credential, answer>>

-----------------------------------------------------------------------------
(* Key lifecycle, through the storage the host exposes *)

\* Mutant of Advances: any other sequence will do.
Differs(key, sequence) == sequence # key.sequence

Advances(key, sequence) == sequence > key.sequence

\* storage.keys.put of an existing key: a status with a later sequence.
AdvanceKey(key, status, sequence) ==
    LET changed == [key EXCEPT !.status = status, !.sequence = sequence]
    IN  /\ host = "up"
        /\ \A c \in Call : pc[c] \notin {"keying", "storing"}
        /\ Advances(key, sequence)
        /\ ~\E k \in KeysOf(key.agent) \ {key} : k.sequence = sequence
        /\ keys' = (keys \ {key}) \cup {changed}
        /\ keyHistory' = keyHistory \cup {changed}
        /\ UNCHANGED <<reference, sealed, keyFiles, agents, stored, index, process, calls>>

-----------------------------------------------------------------------------
Step(c) ==
    \/ CreateKey(c)
    \/ Issue(c)
    \/ PutAgent(c)
    \/ PutKey(c)
    \/ CreateCredential(c)
    \/ Respond(c)

Next ==
    \/ \E p \in Passphrase : FindIssuer(p) \/ MissIssuer(p)
    \/ CreateIssuer
    \/ WriteReference
    \/ Crash
    \/ \E c \in Call : Lookup(c) \/ Step(c) \/ Fail(c)
    \/ \E key \in keys, status \in Status, sequence \in 0 .. MaxSequence :
         AdvanceKey(key, status, sequence)

\* The event loop of a live process runs every call it has started.
Fairness == \A c \in Call : WF_vars(Step(c))

Spec == Init /\ [][Next]_vars

FairSpec == Spec /\ Fairness

-----------------------------------------------------------------------------
(* Properties *)

Labels == InFlight \cup {"idle", "answered", "failed", "lost"}

\* The shape of every variable.
TypeOK ==
    /\ host \in {"down", "creating", "writing", "up"}
    /\ unlocked \in Passphrase \cup {None}
    /\ sealed \in Seq(Passphrase)
    /\ reference \in 0 .. Len(sealed)
    /\ issuer \in 0 .. Len(sealed)
    /\ roots \subseteq Agent
    /\ keyFiles \subseteq Call
    /\ agents \subseteq Agent
    /\ keys \subseteq [id : Call, agent : Agent, sequence : Nat, status : Status]
    /\ keyHistory \subseteq [id : Call, agent : Agent, sequence : Nat, status : Status]
    /\ stored \subseteq Call
    /\ index \in [Key -> Call \cup {None}]
    /\ pc \in [Call -> Labels]
    /\ input \in [Call -> Input \cup {NoInput}]
    /\ credential \in [Call -> {NoCredential} \cup
                               [subject : Agent, purpose : Purposes, issuer : Nat]]
    /\ answer \in [Call -> Call \cup {None}]

\* A stored credential is whole: its private key file, its agent row and its
\* key row are there too, whatever crash came between the three transactions
\* and whatever conflict one of them met (SqliteIdentityRepository.create).
StoredIsWhole ==
    \A c \in stored :
        /\ c \in keyFiles
        /\ credential[c].subject \in agents
        /\ \E k \in keys : k.id = c /\ k.agent = credential[c].subject

\* Root credentials in the table whose root the running host's snapshot lacks.
Unrooted ==
    {c \in stored : /\ credential[c].purpose = "agent-root-authority"
                    /\ credential[c].subject \notin roots}

\* The snapshot of a running host has the root of every root credential stored
\* in this life or an earlier one, but for as many as the table holds beyond
\* the page the bootstrap reads back (RootRegisteringIssuer, and the loop over
\* credentials.list in createConcreteLocalHost): a root is in the snapshot
\* before its credential is in the table, and stays.
StoredIsTrusted ==
    host = "up" =>
        \/ Unrooted = {}
        \/ Cardinality(Unrooted) + ReloadLimit <= Cardinality(stored)

\* A credential in the table was signed by the issuer key of the running host:
\* a new issuer key is made at the first bootstrap only (issuerReference).
IssuerIsKept == host = "up" => \A c \in stored : credential[c].issuer = issuer

\* The history sequence that SqliteIdentityRepository.create gives the next key
\* of an agent is free until an operator advances a key of that agent: calls
\* never collide among themselves, in whatever order they, their failures and
\* the crashes between their transactions come.
SequenceIsFree ==
    \A a \in Agent :
        Taken(a, NextSequence(a)) =>
            \E k, l \in keyHistory : k.agent = a /\ k.id = l.id /\ k.sequence # l.sequence

\* The current row of a key is the last entry of its history, and the history
\* of a key never forks (putKey's two inserts).
HistoryAgrees ==
    /\ keys \subseteq keyHistory
    /\ \A k \in keys, h \in keyHistory : k.id = h.id => h.sequence <= k.sequence
    /\ \A g, h \in keyHistory : g.id = h.id /\ g.sequence = h.sequence => g = h

\* Every request the host has begun is answered, be it with an error, unless
\* the host dies.
Responds ==
    \A c \in Call :
        pc[c] = "creating" ~> pc[c] \in {"answered", "failed", "lost"}

\* Concurrent duplicates, retries, crashes and restarts keep the promise of
\* IdentityRegistry.
Registry == INSTANCE IdentityRegistry WITH
    Caller <- Call,
    Identity <- Call,
    NoKey <- None,
    identities <- stored,
    bound <- {<<k, index[k]>> : k \in {l \in Key : index[l] # None}},
    told <- {<<c, input[c].key, answer[c]>> : c \in {d \in Call : pc[d] = "answered"}}

ImplementsRegistry == Registry!Spec

\* A snapshot names as roots only subjects that hold a root-authority
\* credential: an agent-key-binding credential is never selected as a root.
RootsAreRootSubjects ==
    \A a \in roots :
        \E c \in Call :
            credential[c].subject = a /\ credential[c].purpose = "agent-root-authority"
=============================================================================
