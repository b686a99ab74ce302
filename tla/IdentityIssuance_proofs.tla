----------------------- MODULE IdentityIssuance_proofs -----------------------
(***************************************************************************)
(* Proofs about IdentityIssuance: its type invariant, that stored          *)
(* credentials are whole, how far a restarted host trusts what it stored,  *)
(* that creations keep out of each other's history sequences, and that it  *)
(* implements IdentityRegistry.                                            *)
(***************************************************************************)
EXTENDS IdentityIssuance, FiniteSetTheorems, TLAPS

Credential == [subject : Agent, purpose : Purposes, issuer : Nat]

-----------------------------------------------------------------------------
(* Type correctness *)

\* The bootstrap takes only subjects of stored credentials for roots.
LEMMA ReloadedType ==
    ASSUME NEW r \in Reloaded
    PROVE  \A a \in r : \E c \in stored : a = credential[c].subject
BY DEF Reloaded

LEMMA OpenType ==
    ASSUME TypeOK, NEW k, Open(k),
           \A c \in stored : credential[c] \in Credential
    PROVE  roots' \subseteq Agent
BY ReloadedType DEF Open, Credential, TypeOK

\* History sequences are counted from the keys an agent has.
LEMMA SequenceType ==
    ASSUME IsFiniteSet(keys), NEW agent
    PROVE  IsFiniteSet(KeysOf(agent)) /\ NextSequence(agent) \in Nat
<1>1. KeysOf(agent) \in SUBSET keys
  BY DEF KeysOf
<1>. QED
  BY <1>1, FS_Subset, FS_CardinalityType DEF NextSequence

\* Forgetting calls keeps the others, and what is stored.
LEMMA Forgotten ==
    ASSUME TypeOK, NEW dead, Forget(dead)
    PROVE  /\ input' \in [Call -> Input \cup {NoInput}]
           /\ answer' \in [Call -> Call \cup {None}]
           /\ \A c \in Call : c \notin dead => input'[c] = input[c] /\ answer'[c] = answer[c]
           /\ \A c \in stored : input'[c] = input[c]
BY DEF TypeOK, Forget

\* A step of a call keeps every variable in its type.
LEMMA CallTypeOK ==
    ASSUME TypeOK, IsFiniteSet(keys), NEW c \in Call, Lookup(c) \/ Step(c) \/ Fail(c),
           pc[c] \notin {"idle", "failed", "lost"} => input[c] \in Input,
           pc[c] \in {"persisting", "keying", "storing"} => credential[c] \in Credential
    PROVE  TypeOK'
<1>. USE CallAssumption, BoundAssumption
<1>1. CASE Lookup(c)
  <2>1. PICK i \in Input :
          /\ input' = [input EXCEPT ![c] = i]
          /\ answer' = [answer EXCEPT ![c] = IF i.key = None THEN None ELSE index[i.key]]
          /\ Goto(c, IF (IF i.key = None THEN None ELSE index[i.key]) = None
                     THEN "creating" ELSE "responding")
    BY <1>1 DEF Lookup
  <2>2. (IF i.key = None THEN None ELSE index[i.key]) \in Call \cup {None}
    BY DEF TypeOK
  <2>3. answer' \in [Call -> Call \cup {None}]
    BY <2>1, <2>2 DEF TypeOK
  <2>4. pc' \in [Call -> Labels] /\ input' \in [Call -> Input \cup {NoInput}]
    BY <2>1 DEF TypeOK, Goto, Labels, InFlight
  <2>. QED
    BY <1>1, <2>3, <2>4 DEF TypeOK, Lookup, disk, process
<1>2. CASE CreateKey(c)
  BY <1>2 DEF TypeOK, CreateKey, process, Goto, Labels, InFlight
<1>3. CASE Issue(c)
  <2>1. input[c].subject \in Agent /\ input[c].purpose \in Purposes
    BY <1>3 DEF Issue
  <2>2. credential' \in [Call -> {NoCredential} \cup Credential]
    BY <1>3, <2>1 DEF TypeOK, Issue, Credential
  <2>3. roots' \subseteq Agent
    BY <1>3, <2>1 DEF TypeOK, Issue
  <2>. QED
    BY <1>3, <2>2, <2>3 DEF TypeOK, Issue, disk, Goto, Labels, InFlight, Credential
<1>4. CASE PutAgent(c)
  BY <1>4 DEF TypeOK, PutAgent, process, Goto, Labels, InFlight, Credential
<1>5. CASE PutKey(c)
  <2>1. credential[c].subject \in Agent
    BY <1>5 DEF PutKey, Credential
  <2>2. \A n \in Nat :
          [id |-> c, agent |-> credential[c].subject, sequence |-> n, status |-> "active"]
            \in [id : Call, agent : Agent, sequence : Nat, status : Status]
    BY <2>1
  <2>3. NextSequence(credential[c].subject) \in Nat
    BY SequenceType
  <2>4. /\ input' \in [Call -> Input \cup {NoInput}]
        /\ answer' \in [Call -> Call \cup {None}]
    BY <1>5, Forgotten DEF TypeOK, PutKey
  <2>5. /\ keys' \subseteq [id : Call, agent : Agent, sequence : Nat, status : Status]
        /\ keyHistory' \subseteq [id : Call, agent : Agent, sequence : Nat, status : Status]
    BY <1>5, <2>2, <2>3 DEF TypeOK, PutKey
  <2>6. pc' \in [Call -> Labels]
    BY <1>5 DEF TypeOK, PutKey, Goto, Labels, InFlight
  <2>. QED
    BY <1>5, <2>4, <2>5, <2>6 DEF TypeOK, PutKey, process
<1>6. CASE CreateCredential(c)
  <2>1. /\ index' \in [Key -> Call \cup {None}]
        /\ stored' \subseteq Call
    BY <1>6 DEF TypeOK, CreateCredential
  <2>2. answer' \in [Call -> Call \cup {None}]
    BY <1>6 DEF TypeOK, CreateCredential
  <2>. QED
    BY <1>6, <2>1, <2>2 DEF TypeOK, CreateCredential, process, Goto, Labels, InFlight
<1>7. CASE Respond(c)
  BY <1>7 DEF TypeOK, Respond, disk, process, Goto, Labels, InFlight
<1>8. CASE Fail(c)
  BY <1>8, Forgotten DEF TypeOK, Fail, disk, process, Goto, Labels
<1>. QED
  BY <1>1, <1>2, <1>3, <1>4, <1>5, <1>6, <1>7, <1>8 DEF Step

\* The bootstrap, a crash and the operator keep every variable in its type.
LEMMA HostTypeOK ==
    ASSUME TypeOK, \A c \in stored : credential[c] \in Credential,
           host = "creating" => unlocked \in Passphrase,
           \/ \E p \in Passphrase : FindIssuer(p) \/ MissIssuer(p)
           \/ CreateIssuer
           \/ WriteReference
           \/ Crash
           \/ \E key \in keys, status \in Status, sequence \in 0 .. MaxSequence :
                AdvanceKey(key, status, sequence)
    PROVE  TypeOK'
<1>. USE CallAssumption, BoundAssumption
<1>1. ASSUME NEW p \in Passphrase, FindIssuer(p)
      PROVE  TypeOK'
  <2>1. roots' \subseteq Agent
    BY <1>1, OpenType DEF FindIssuer
  <2>. QED
    BY <1>1, <2>1 DEF TypeOK, FindIssuer, Open, disk, calls
<1>2. ASSUME NEW p \in Passphrase, MissIssuer(p)
      PROVE  TypeOK'
  BY <1>2 DEF TypeOK, MissIssuer, disk, calls
<1>3. CASE CreateIssuer
  <2>1. unlocked \in Passphrase
    BY <1>3 DEF CreateIssuer
  <2>2. /\ sealed' \in Seq(Passphrase)
        /\ Len(sealed') = Len(sealed) + 1
        /\ Len(sealed) \in Nat
    BY <1>3, <2>1 DEF TypeOK, CreateIssuer
  <2>3. 0 .. Len(sealed) \subseteq 0 .. Len(sealed')
    BY <2>2
  <2>. QED
    BY <1>3, <2>2, <2>3 DEF TypeOK, CreateIssuer, calls
<1>4. CASE WriteReference
  <2>1. roots' \subseteq Agent
    BY <1>4, OpenType DEF WriteReference
  <2>2. Len(sealed) \in 0 .. Len(sealed)
    BY DEF TypeOK
  <2>. QED
    BY <1>4, <2>1, <2>2 DEF TypeOK, WriteReference, Open, calls
<1>5. CASE Crash
  <2>1. 0 \in 0 .. Len(sealed) /\ Len(sealed) \in 0 .. Len(sealed)
    BY DEF TypeOK
  <2>2. pc' \in [Call -> Labels]
    BY <1>5 DEF TypeOK, Crash, Labels
  <2>3. /\ input' \in [Call -> Input \cup {NoInput}]
        /\ answer' \in [Call -> Call \cup {None}]
    BY <1>5, Forgotten DEF Crash
  <2>4. credential' \in [Call -> {NoCredential} \cup Credential]
    BY <1>5 DEF TypeOK, Crash, Credential
  <2>. QED
    BY <1>5, <2>1, <2>2, <2>3, <2>4 DEF TypeOK, Crash, Credential
<1>6. ASSUME NEW key \in keys, NEW status \in Status, NEW sequence \in 0 .. MaxSequence,
             AdvanceKey(key, status, sequence)
      PROVE  TypeOK'
  <2>1. [key EXCEPT !.status = status, !.sequence = sequence]
          \in [id : Call, agent : Agent, sequence : Nat, status : Status]
    <3>1. key \in [id : Call, agent : Agent, sequence : Nat, status : Status]
      BY DEF TypeOK
    <3>2. sequence \in Nat
      OBVIOUS
    <3>. QED
      BY <3>1, <3>2
  <2>2. /\ keys' \subseteq keys \cup {[key EXCEPT !.status = status, !.sequence = sequence]}
        /\ keyHistory' = keyHistory \cup {[key EXCEPT !.status = status, !.sequence = sequence]}
    BY <1>6 DEF AdvanceKey
  <2>3. /\ keys' \subseteq [id : Call, agent : Agent, sequence : Nat, status : Status]
        /\ keyHistory' \subseteq [id : Call, agent : Agent, sequence : Nat, status : Status]
    BY <2>1, <2>2 DEF TypeOK
  <2>4. UNCHANGED <<reference, sealed, keyFiles, agents, stored, index, process, calls>>
    BY <1>6 DEF AdvanceKey
  <2>. QED
    BY <2>3, <2>4 DEF TypeOK, process, calls
<1>. QED
  BY <1>1, <1>2, <1>3, <1>4, <1>5, <1>6
-----------------------------------------------------------------------------
(* The inductive invariant *)

Minted == {"persisting", "keying", "storing"}

HasKeyRow(c) == \E k \in keys : k.id = c /\ k.agent = credential[c].subject

\* A call and what it has left on disk so far agree.
Progress(c) ==
    /\ pc[c] \in InFlight => host = "up"
    /\ pc[c] \notin {"idle", "failed", "lost"} => input[c] \in Input
    /\ pc[c] \in {"idle", "creating", "issuing"} \cup Minted => c \notin stored
    /\ pc[c] \in {"idle", "creating", "issuing", "persisting", "keying"} =>
         \A h \in keyHistory : h.id # c
    /\ pc[c] \in {"issuing"} \cup Minted => c \in keyFiles
    /\ pc[c] \in Minted => credential[c] \in Credential
    /\ pc[c] \in {"keying", "storing"} => credential[c].subject \in agents
    /\ pc[c] = "storing" => HasKeyRow(c)

Whole(c) ==
    c \in stored =>
        /\ credential[c] \in Credential
        /\ c \in keyFiles
        /\ credential[c].subject \in agents
        /\ HasKeyRow(c)

\* What a call is told is stored, and is what its key is bound to.
Told(c) ==
    pc[c] \in {"responding", "answered"} =>
        /\ answer[c] \in stored
        /\ input[c].key = None => answer[c] = c
        /\ input[c].key # None => index[input[c].key] = answer[c]

Indexed(k) ==
    index[k] # None => index[k] \in stored /\ input[index[k]].key = k

\* An operator has moved a key of the agent to a later sequence.
Advanced(agent) ==
    \E k, l \in keyHistory : k.agent = agent /\ k.id = l.id /\ k.sequence # l.sequence

\* Until then the agent's sequences are 0, 1, 2 and so on.
Counted(agent) ==
    Advanced(agent) \/ \A k \in KeysOf(agent) : k.sequence < NextSequence(agent)

IInv ==
    /\ TypeOK
    /\ host = "creating" => unlocked \in Passphrase
    /\ IsFiniteSet(keys)
    /\ HistoryAgrees
    /\ \A c \in Call : Progress(c) /\ Whole(c) /\ Told(c)
    /\ \A k \in Key : Indexed(k)
    /\ \A a \in Agent : Counted(a)

\* A step of a call only adds to the tables, and touches no other call.
Frame(c) ==
    /\ host' = host
    /\ keyFiles \subseteq keyFiles' /\ agents \subseteq agents'
    /\ keys \subseteq keys' /\ keyHistory \subseteq keyHistory'
    /\ \A h \in keyHistory' : h \in keyHistory \/ h.id = c
    /\ stored \subseteq stored' /\ stored' \subseteq stored \cup {c}
    /\ \A k \in Key : index[k] # None => index'[k] = index[k]
    /\ \A d \in Call \ {c} : /\ pc'[d] = pc[d] /\ input'[d] = input[d]
                             /\ credential'[d] = credential[d] /\ answer'[d] = answer[d]

LEMMA StepFrame ==
    ASSUME TypeOK, NEW c \in Call, Lookup(c) \/ Step(c) \/ Fail(c)
    PROVE  Frame(c)
<1>1. CASE Lookup(c)
  <2>1. \A d \in Call \ {c} : pc'[d] = pc[d] /\ input'[d] = input[d] /\ answer'[d] = answer[d]
    BY <1>1 DEF Lookup, Goto, TypeOK
  <2>2. UNCHANGED <<disk, process, credential>>
    BY <1>1 DEF Lookup
  <2>. QED
    BY <2>1, <2>2 DEF Frame, disk, process
<1>2. CASE CreateKey(c)
  BY <1>2 DEF TypeOK, Frame, CreateKey, Goto, process
<1>3. CASE Issue(c)
  BY <1>3 DEF TypeOK, Frame, Issue, Goto, disk
<1>4. CASE PutAgent(c)
  BY <1>4 DEF TypeOK, Frame, PutAgent, Goto, process
<1>5. CASE PutKey(c)
  <2>1. \A d \in Call \ {c} : pc'[d] = pc[d] /\ input'[d] = input[d] /\ answer'[d] = answer[d]
    BY <1>5, Forgotten DEF TypeOK, PutKey, Goto
  <2>. QED
    BY <1>5, <2>1 DEF Frame, PutKey, process
<1>6. CASE CreateCredential(c)
  <2>1. \A d \in Call \ {c} : pc'[d] = pc[d] /\ answer'[d] = answer[d]
    BY <1>6 DEF TypeOK, CreateCredential, Goto
  <2>2. stored \subseteq stored' /\ stored' \subseteq stored \cup {c}
    BY <1>6 DEF CreateCredential
  <2>3. \A k \in Key : index[k] # None => index'[k] = index[k]
    BY <1>6, CallAssumption DEF CreateCredential
  <2>. QED
    BY <1>6, <2>1, <2>2, <2>3 DEF Frame, CreateCredential, process
<1>7. CASE Respond(c)
  BY <1>7 DEF TypeOK, Frame, Respond, Goto, disk, process
<1>8. CASE Fail(c)
  <2>1. \A d \in Call \ {c} : pc'[d] = pc[d] /\ input'[d] = input[d] /\ answer'[d] = answer[d]
    BY <1>8, Forgotten DEF TypeOK, Fail, Goto
  <2>. QED
    BY <1>8, <2>1 DEF Frame, Fail, disk, process
<1>. QED
  BY <1>1, <1>2, <1>3, <1>4, <1>5, <1>6, <1>7, <1>8 DEF Step

LEMMA KeyRowKept ==
    ASSUME NEW c, HasKeyRow(c), keys \subseteq keys', credential'[c] = credential[c]
    PROVE  HasKeyRow(c)'
BY DEF HasKeyRow

LEMMA AdvancedKept ==
    ASSUME NEW a, Advanced(a), keyHistory \subseteq keyHistory'
    PROVE  Advanced(a)'
BY DEF Advanced

\* What holds of the calls that do not move goes on holding.
LEMMA OthersKept ==
    ASSUME IInv, NEW c \in Call, Frame(c), NEW d \in Call \ {c}
    PROVE  (Progress(d) /\ Whole(d) /\ Told(d))'
<1>1. UNCHANGED <<pc[d], input[d], credential[d], answer[d]>>
  BY DEF Frame
<1>2. HasKeyRow(d) => HasKeyRow(d)'
  BY <1>1, KeyRowKept DEF Frame
<1>3. d \in stored' <=> d \in stored
  BY DEF Frame
<1>4. Progress(d)'
  <2>1. Progress(d)
    BY DEF IInv
  <2>2. (\A h \in keyHistory : h.id # d) => \A h \in keyHistory' : h.id # d
    BY DEF Frame
  <2>3. host' = host /\ keyFiles \subseteq keyFiles' /\ agents \subseteq agents'
    BY DEF Frame
  <2>. QED
    BY <1>1, <1>2, <1>3, <2>1, <2>2, <2>3 DEF Progress
<1>5. Whole(d)'
  BY <1>1, <1>2, <1>3 DEF IInv, Whole, Frame
<1>6. Told(d)'
  <2>. SUFFICES ASSUME pc[d] \in {"responding", "answered"}
                PROVE  Told(d)'
    BY <1>1 DEF Told
  <2>1. input[d] \in Input /\ Told(d)
    BY DEF IInv, Progress
  <2>2. input[d].key \in Key \cup {None}
    BY <2>1, CallAssumption
  <2>3. answer[d] \in Call
    BY <2>1 DEF Told, IInv, TypeOK
  <2>. QED
    BY <1>1, <2>1, <2>2, <2>3, CallAssumption DEF Told, Frame
<1>. QED
  BY <1>4, <1>5, <1>6

\* What holds of the call that moves goes on holding, action by action.
LEMMA OwnKept ==
    ASSUME IInv, NEW c \in Call, Lookup(c) \/ Step(c) \/ Fail(c)
    PROVE  (Progress(c) /\ Whole(c) /\ Told(c))'
<1>. DEFINE p == pc[c]
<1>1. TypeOK /\ Frame(c) /\ Progress(c) /\ Whole(c) /\ Told(c)
  BY StepFrame DEF IInv
<1>. USE CallAssumption
<1>2. CASE Lookup(c)
  <2>1. PICK i \in Input :
          /\ input' = [input EXCEPT ![c] = i]
          /\ answer' = [answer EXCEPT ![c] = IF i.key = None THEN None ELSE index[i.key]]
          /\ Goto(c, IF (IF i.key = None THEN None ELSE index[i.key]) = None
                     THEN "creating" ELSE "responding")
    BY <1>2 DEF Lookup
  <2>2. /\ p = "idle" /\ host = "up" /\ UNCHANGED <<disk, process, credential>>
    BY <1>2 DEF Lookup
  <2>3. c \notin stored /\ \A h \in keyHistory : h.id # c
    BY <1>1, <2>2 DEF Progress
  <2>4. input'[c] = i /\ i.key \in Key \cup {None}
    BY <1>1, <2>1 DEF TypeOK
  <2>5. CASE i.key = None \/ index[i.key] = None
    <3>1. pc'[c] = "creating"
      BY <1>1, <2>1, <2>5 DEF TypeOK, Goto
    <3>. QED
      BY <2>2, <2>3, <2>4, <3>1 DEF Progress, Whole, Told, disk, process, Minted, InFlight
  <2>6. CASE i.key # None /\ index[i.key] # None
    <3>1. pc'[c] = "responding" /\ answer'[c] = index[i.key]
      BY <1>1, <2>1, <2>6 DEF TypeOK, Goto
    <3>2. index[i.key] \in stored
      BY <2>4, <2>6 DEF IInv, Indexed
    <3>. QED
      BY <2>2, <2>3, <2>4, <2>6, <3>1, <3>2
      DEF Progress, Whole, Told, disk, process, Minted, InFlight
  <2>. QED
    BY <2>5, <2>6
<1>3. CASE CreateKey(c)
  <2>1. p = "creating" /\ pc'[c] = "issuing" /\ c \in keyFiles'
    BY <1>1, <1>3 DEF CreateKey, Goto, TypeOK
  <2>. QED
    BY <1>1, <1>3, <2>1
    DEF CreateKey, Progress, Whole, Told, process, Minted, InFlight
<1>4. CASE Issue(c)
  <2>1. p = "issuing" /\ pc'[c] = "persisting" /\ UNCHANGED <<disk, host, input>>
    BY <1>1, <1>4 DEF Issue, Goto, TypeOK
  <2>2. credential'[c] = [subject |-> input[c].subject, purpose |-> input[c].purpose,
                          issuer |-> issuer]
    BY <1>1, <1>4 DEF Issue, TypeOK
  <2>3. credential'[c] \in Credential
    BY <1>1, <2>1, <2>2 DEF Credential, Progress, TypeOK
  <2>. QED
    BY <1>1, <2>1, <2>3 DEF Progress, Whole, Told, disk, Minted, InFlight
<1>5. CASE PutAgent(c)
  <2>1. p = "persisting" /\ pc'[c] = "keying" /\ credential[c].subject \in agents'
    BY <1>1, <1>5 DEF PutAgent, Goto, TypeOK
  <2>. QED
    BY <1>1, <1>5, <2>1
    DEF PutAgent, Progress, Whole, Told, process, Minted, InFlight
<1>6. CASE PutKey(c)
  <2>. DEFINE agent == credential[c].subject
              fresh == [id |-> c, agent |-> agent, sequence |-> NextSequence(agent),
                        status |-> "active"]
  <2>1. /\ p = "keying" /\ agent \in Agent
        /\ UNCHANGED <<host, keyFiles, agents, stored, index, credential>>
    BY <1>1, <1>6 DEF PutKey, Progress, Minted, Credential, process
  <2>2. CASE pc'[c] = "failed"
    <3>1. \/ UNCHANGED <<keys, keyHistory>>
          \/ keys' = keys \cup {fresh} /\ keyHistory' = keyHistory \cup {fresh}
      BY <1>6 DEF PutKey
    <3>2. HasKeyRow(c) => HasKeyRow(c)'
      BY <2>1, <3>1 DEF HasKeyRow
    <3>. QED
      BY <1>1, <2>1, <2>2, <3>2 DEF Progress, Whole, Told, Minted, InFlight
  <2>3. CASE pc'[c] # "failed"
    <3>1. pc'[c] = "storing" /\ fresh \in keys' /\ UNCHANGED <<input, answer>>
      BY <1>1, <1>6, <2>3 DEF PutKey, Goto, TypeOK
    <3>2. HasKeyRow(c)'
      <4>1. fresh.id = c /\ fresh.agent = agent
        OBVIOUS
      <4>. QED
        BY <2>1, <3>1, <4>1 DEF HasKeyRow
    <3>. QED
      BY <1>1, <2>1, <3>1, <3>2 DEF Progress, Whole, Told, Minted, InFlight
  <2>. QED
    BY <2>2, <2>3
<1>7. CASE CreateCredential(c)
  <2>1. /\ p = "storing" /\ pc'[c] = "responding"
        /\ UNCHANGED <<host, keyFiles, agents, keys, keyHistory, input, credential>>
    BY <1>1, <1>7 DEF CreateCredential, Goto, process, TypeOK
  <2>2. input[c].key \in Key \cup {None}
    BY <1>1, <2>1 DEF Progress
  <2>3. CASE input[c].key # None /\ index[input[c].key] # None
    <3>1. answer'[c] = index[input[c].key] /\ UNCHANGED <<stored, index>>
      BY <1>1, <1>7, <2>3 DEF CreateCredential, TypeOK
    <3>2. answer'[c] \in stored
      BY <2>2, <2>3, <3>1 DEF IInv, Indexed
    <3>. QED
      BY <1>1, <2>1, <2>2, <2>3, <3>1, <3>2
      DEF Progress, Whole, Told, Minted, InFlight, HasKeyRow
  <2>4. CASE ~(input[c].key # None /\ index[input[c].key] # None)
    <3>1. answer'[c] = c /\ c \in stored'
      BY <1>1, <1>7, <2>4 DEF CreateCredential, TypeOK
    <3>2. input[c].key # None => index'[input[c].key] = c
      BY <1>7, <2>2, <2>4 DEF CreateCredential
    <3>. QED
      BY <1>1, <2>1, <3>1, <3>2
      DEF Progress, Whole, Told, Minted, InFlight, HasKeyRow
  <2>. QED
    BY <2>3, <2>4
<1>8. CASE Respond(c)
  <2>1. /\ p = "responding" /\ pc'[c] = "answered"
        /\ UNCHANGED <<disk, process, input, credential, answer>>
    BY <1>1, <1>8 DEF Respond, Goto, TypeOK
  <2>. QED
    BY <1>1, <2>1
    DEF Progress, Whole, Told, Minted, InFlight, HasKeyRow, disk, process
<1>9. CASE Fail(c)
  <2>1. pc'[c] = "failed" /\ c \notin stored /\ UNCHANGED <<disk, process, credential>>
    BY <1>1, <1>9 DEF Fail, Goto, TypeOK, Progress, Minted
  <2>. QED
    BY <1>1, <2>1 DEF Progress, Whole, Told, Minted, InFlight, disk, process
<1>. QED
  BY <1>2, <1>3, <1>4, <1>5, <1>6, <1>7, <1>8, <1>9 DEF Step

\* An idempotency key stays bound to the stored credential it was bound to.
LEMMA IndexedKept ==
    ASSUME IInv, NEW c \in Call, Lookup(c) \/ Step(c) \/ Fail(c), NEW k \in Key
    PROVE  Indexed(k)'
<1>1. Frame(c) /\ Progress(c) /\ Indexed(k) /\ TypeOK
  BY StepFrame DEF IInv
<1>2. CASE index[k] # None
  <2>1. index'[k] = index[k] /\ index[k] \in stored'
    BY <1>1, <1>2 DEF Frame, Indexed
  <2>2. input'[index[k]].key = k
    <3>1. CASE Lookup(c)
      <4>1. index[k] # c
        BY <1>1, <1>2, <3>1 DEF Lookup, Progress, Indexed
      <4>2. index[k] \in Call
        BY <1>1, <1>2 DEF Indexed, TypeOK
      <4>. QED
        BY <1>1, <1>2, <4>1, <4>2 DEF Frame, Indexed
    <3>2. CASE Step(c) \/ Fail(c)
      <4>1. UNCHANGED input \/ Forget({c})
        BY <3>2 DEF Step, CreateKey, Issue, PutAgent, PutKey, CreateCredential, Respond, Fail
      <4>. QED
        BY <1>1, <1>2, <4>1, Forgotten DEF Indexed
    <3>. QED
      BY <3>1, <3>2
  <2>. QED
    BY <2>1, <2>2 DEF Indexed
<1>3. CASE index[k] = None
  <2>1. CASE CreateCredential(c)
    <3>1. index'[k] # None => index'[k] = c /\ c \in stored' /\ input[c].key = k
      BY <1>3, <2>1 DEF CreateCredential
    <3>2. UNCHANGED input
      BY <2>1 DEF CreateCredential
    <3>. QED
      BY <3>1, <3>2 DEF Indexed
  <2>2. CASE ~CreateCredential(c)
    <3>1. UNCHANGED index
      BY <2>2 DEF Step, Lookup, CreateKey, Issue, PutAgent, PutKey, Respond, Fail, disk
    <3>. QED
      BY <1>3, <3>1 DEF Indexed
  <2>. QED
    BY <2>1, <2>2
<1>. QED
  BY <1>2, <1>3

\* A call's new key row continues the agent's sequence and starts a history.
LEMMA KeysKept ==
    ASSUME IInv, NEW c \in Call, Lookup(c) \/ Step(c) \/ Fail(c)
    PROVE  (IsFiniteSet(keys) /\ HistoryAgrees /\ \A a \in Agent : Counted(a))'
<1>1. TypeOK /\ IsFiniteSet(keys) /\ HistoryAgrees /\ Progress(c)
  BY DEF IInv
<1>2. CASE UNCHANGED <<keys, keyHistory>>
  BY <1>1, <1>2 DEF IInv, HistoryAgrees, Counted, Advanced, KeysOf, NextSequence
<1>3. CASE ~UNCHANGED <<keys, keyHistory>>
  <2>. DEFINE agent == credential[c].subject
              fresh == [id |-> c, agent |-> agent, sequence |-> NextSequence(agent),
                        status |-> "active"]
  <2>1. PutKey(c)
    BY <1>3 DEF Step, Lookup, CreateKey, Issue, PutAgent, CreateCredential, Respond, Fail, disk
  <2>2. /\ keys' = keys \cup {fresh}
        /\ keyHistory' = keyHistory \cup {fresh}
        /\ \A h \in keyHistory : h.id # c
        /\ agent \in Agent
    BY <1>1, <1>3, <2>1 DEF PutKey, Progress, Minted, Credential
  <2>3. IsFiniteSet(keys')
    BY <1>1, <2>2, FS_AddElement
  <2>4. fresh.id = c /\ fresh.agent = agent /\ fresh.sequence = NextSequence(agent)
    OBVIOUS
  <2>. HIDE DEF fresh
  <2>5. HistoryAgrees'
    <3>0. NextSequence(agent) \in Nat
      BY <1>1, SequenceType
    <3>1. \A k \in keys : k.id # c
      BY <1>1, <2>2 DEF HistoryAgrees
    <3>2. keys' \subseteq keyHistory'
      BY <1>1, <2>2 DEF HistoryAgrees
    <3>3. \A k \in keys', h \in keyHistory' : k.id = h.id => h.sequence <= k.sequence
      BY <1>1, <2>2, <2>4, <3>0, <3>1 DEF HistoryAgrees
    <3>4. \A g, h \in keyHistory' : g.id = h.id /\ g.sequence = h.sequence => g = h
      BY <1>1, <2>2, <2>4 DEF HistoryAgrees
    <3>. QED
      BY <3>2, <3>3, <3>4 DEF HistoryAgrees
  <2>6. ASSUME NEW a \in Agent
        PROVE  Counted(a)'
    <3>1. CASE Advanced(a)
      BY <2>2, <3>1, AdvancedKept DEF Counted
    <3>2. CASE ~Advanced(a) /\ a # agent
      <4>1. KeysOf(a)' = KeysOf(a)
        BY <2>2, <2>4, <3>2 DEF KeysOf
      <4>. QED
        BY <3>2, <4>1 DEF IInv, Counted, NextSequence
    <3>3. CASE ~Advanced(a) /\ a = agent
      <4>1. KeysOf(a)' = KeysOf(a) \cup {fresh}
        BY <2>2, <2>4, <3>3 DEF KeysOf
      <4>2. fresh \notin KeysOf(a)
        BY <1>1, <2>2, <2>4 DEF KeysOf, HistoryAgrees
      <4>3. IsFiniteSet(KeysOf(a)) /\ NextSequence(a) \in Nat
        BY <1>1, SequenceType
      <4>4. NextSequence(a)' = NextSequence(a) + 1
        BY <4>1, <4>2, <4>3, FS_AddElement DEF NextSequence
      <4>5. \A k \in KeysOf(a) : k.sequence < NextSequence(a) /\ k.sequence \in Nat
        BY <1>1, <3>3 DEF IInv, Counted, KeysOf, TypeOK
      <4>6. \A k \in KeysOf(a)' : k.sequence < NextSequence(a)'
        BY <2>4, <3>3, <4>1, <4>3, <4>4, <4>5
      <4>. QED
        BY <4>6 DEF Counted
    <3>. QED
      BY <3>1, <3>2, <3>3
  <2>. QED
    BY <2>3, <2>5, <2>6
<1>. QED
  BY <1>2, <1>3

\* The bootstrap leaves every call and every table alone.
LEMMA BootstrapIInv ==
    ASSUME IInv,
           \/ \E p \in Passphrase : FindIssuer(p) \/ MissIssuer(p)
           \/ CreateIssuer
           \/ WriteReference
    PROVE  IInv'
<1>1. TypeOK'
  BY HostTypeOK DEF IInv, Whole, TypeOK
<1>2. /\ UNCHANGED <<keyFiles, agents, keys, keyHistory, stored, index>>
      /\ UNCHANGED <<pc, input, credential, answer>>
      /\ host # "up"
  BY DEF FindIssuer, MissIssuer, CreateIssuer, WriteReference, disk, calls
<1>3. host' = "creating" => unlocked' \in Passphrase
  BY DEF FindIssuer, MissIssuer, CreateIssuer, WriteReference, Open
<1>4. \A c \in Call : (Progress(c) /\ Whole(c) /\ Told(c))'
  BY <1>2 DEF IInv, Progress, Whole, Told, HasKeyRow, Advanced
<1>5. /\ \A k \in Key : Indexed(k)'
      /\ \A a \in Agent : Counted(a)'
      /\ HistoryAgrees'
      /\ IsFiniteSet(keys')
  BY <1>2 DEF IInv, Indexed, Counted, KeysOf, NextSequence, Advanced, HistoryAgrees
<1>. QED
  BY <1>1, <1>3, <1>4, <1>5 DEF IInv

\* A crash loses the calls in flight and no row.
LEMMA CrashIInv ==
    ASSUME IInv, Crash
    PROVE  IInv'
<1>1. TypeOK'
  BY HostTypeOK DEF IInv, Whole, TypeOK
<1>2. /\ UNCHANGED <<keyFiles, agents, keys, keyHistory, stored, index>>
      /\ \A c \in Call : pc[c] \notin InFlight => input'[c] = input[c] /\ answer'[c] = answer[c]
      /\ \A c \in stored : input'[c] = input[c] /\ credential'[c] = credential[c]
      /\ host' = "down"
      /\ \A c \in Call : pc'[c] = IF pc[c] \in InFlight THEN "lost" ELSE pc[c]
  <2>1. TypeOK /\ Forget({c \in Call : pc[c] \in InFlight}) /\ \A c \in stored : c \in Call
    BY DEF Crash, IInv, TypeOK
  <2>. QED
    BY <2>1, Forgotten DEF Crash
<1>3. \A c \in Call : (Progress(c) /\ Whole(c) /\ Told(c))'
  BY <1>2 DEF IInv, Progress, Whole, Told, HasKeyRow, Advanced, InFlight, Minted
<1>4. /\ \A k \in Key : Indexed(k)'
      /\ \A a \in Agent : Counted(a)'
      /\ HistoryAgrees'
      /\ IsFiniteSet(keys')
  BY <1>2 DEF IInv, Indexed, Counted, KeysOf, NextSequence, Advanced, HistoryAgrees
<1>. QED
  BY <1>1, <1>2, <1>3, <1>4 DEF IInv

\* An operator's later sequence extends the history of one key.
LEMMA AdvanceKeyIInv ==
    ASSUME IInv, NEW key \in keys, NEW status \in Status, NEW sequence \in 0 .. MaxSequence,
           AdvanceKey(key, status, sequence)
    PROVE  IInv'
<1>. DEFINE changed == [key EXCEPT !.status = status, !.sequence = sequence]
<1>1. TypeOK' /\ TypeOK /\ HistoryAgrees /\ IsFiniteSet(keys)
  BY HostTypeOK DEF IInv, Whole, TypeOK
<1>2. /\ keys' = (keys \ {key}) \cup {changed}
      /\ keyHistory' = keyHistory \cup {changed}
      /\ sequence > key.sequence
      /\ UNCHANGED <<keyFiles, agents, stored, index, host, unlocked, pc, input,
                     credential, answer>>
  BY DEF AdvanceKey, Advances, process, calls
<1>3. key \in [id : Call, agent : Agent, sequence : Nat, status : Status]
  BY <1>1 DEF TypeOK
<1>4. /\ changed.id = key.id /\ changed.agent = key.agent
      /\ changed.sequence = sequence /\ sequence \in Nat
  BY <1>3
<1>. HIDE DEF changed
<1>5. key \in keyHistory
  BY <1>1 DEF HistoryAgrees
<1>6. HistoryAgrees'
  <2>1. \A k \in keys : k.id = key.id => k = key
    <3>. SUFFICES ASSUME NEW k \in keys, k.id = key.id PROVE k = key
      OBVIOUS
    <3>1. k \in keyHistory /\ key \in keyHistory
      BY <1>1 DEF HistoryAgrees
    <3>2. k.sequence \in Nat /\ key.sequence \in Nat
      BY <1>1 DEF TypeOK
    <3>3. k.sequence = key.sequence
      BY <1>1, <3>1, <3>2 DEF HistoryAgrees
    <3>. QED
      BY <1>1, <3>1, <3>3 DEF HistoryAgrees
  <2>2. \A h \in keyHistory : h.id = key.id => h.sequence < sequence
    BY <1>1, <1>2, <1>3, <1>4 DEF HistoryAgrees, TypeOK
  <2>3. keys' \subseteq keyHistory'
    BY <1>1, <1>2 DEF HistoryAgrees
  <2>4. \A k \in keys', h \in keyHistory' : k.id = h.id => h.sequence <= k.sequence
    <3>. SUFFICES ASSUME NEW k \in keys', NEW h \in keyHistory', k.id = h.id
                  PROVE  h.sequence <= k.sequence
      OBVIOUS
    <3>1. h.sequence \in Nat /\ k.sequence \in Nat
      BY <1>1 DEF TypeOK
    <3>2. CASE k = changed
      BY <1>2, <1>4, <2>2, <3>1, <3>2
    <3>3. CASE k # changed
      BY <1>1, <1>2, <1>4, <2>1, <3>3 DEF HistoryAgrees
    <3>. QED
      BY <3>2, <3>3
  <2>5. \A g, h \in keyHistory' : g.id = h.id /\ g.sequence = h.sequence => g = h
    BY <1>1, <1>2, <1>4, <2>2 DEF HistoryAgrees, TypeOK
  <2>. QED
    BY <2>3, <2>4, <2>5 DEF HistoryAgrees
<1>7. IsFiniteSet(keys')
  BY <1>1, <1>2, FS_AddElement, FS_RemoveElement
<1>8. ASSUME NEW c \in Call
      PROVE  (Progress(c) /\ Whole(c) /\ Told(c))'
  <2>1. HasKeyRow(c) => HasKeyRow(c)'
    BY <1>2, <1>4 DEF HasKeyRow
  <2>2. (\A h \in keyHistory : h.id # c) => \A h \in keyHistory' : h.id # c
    BY <1>2, <1>4, <1>5
  <2>. QED
    BY <1>2, <2>1, <2>2 DEF IInv, Progress, Whole, Told
<1>9. \A k \in Key : Indexed(k)'
  BY <1>2 DEF IInv, Indexed
<1>10. ASSUME NEW a \in Agent
       PROVE  Counted(a)'
  <2>1. CASE a = key.agent
    <3>1. Advanced(a)'
      BY <1>2, <1>3, <1>4, <1>5, <2>1 DEF Advanced
    <3>. QED
      BY <3>1 DEF Counted
  <2>2. CASE a # key.agent
    <3>1. KeysOf(a)' = KeysOf(a)
      BY <1>2, <1>4, <2>2 DEF KeysOf
    <3>. QED
      BY <1>2, <3>1, AdvancedKept DEF IInv, Counted, NextSequence
  <2>. QED
    BY <2>1, <2>2
<1>. QED
  BY <1>1, <1>2, <1>6, <1>7, <1>8, <1>9, <1>10 DEF IInv

-----------------------------------------------------------------------------
LEMMA InitIInv == Init => IInv
<1>. SUFFICES ASSUME Init PROVE IInv
  OBVIOUS
<1>1. TypeOK
  BY CallAssumption DEF Init, TypeOK, Labels, InFlight
<1>2. IsFiniteSet(keys)
  BY FS_EmptySet DEF Init
<1>. QED
  BY <1>1, <1>2 DEF Init, IInv, HistoryAgrees, Progress, Whole, Told, Indexed,
    Counted, KeysOf, InFlight, Minted

LEMMA CallIInv ==
    ASSUME IInv, NEW c \in Call, Lookup(c) \/ Step(c) \/ Fail(c)
    PROVE  IInv'
<1>1. Frame(c)
  BY StepFrame DEF IInv
<1>2. TypeOK'
  BY CallTypeOK DEF IInv, Progress, Minted
<1>3. \A d \in Call : (Progress(d) /\ Whole(d) /\ Told(d))'
  BY <1>1, OwnKept, OthersKept
<1>4. host' = "creating" => unlocked' \in Passphrase
  <2>1. UNCHANGED <<host, unlocked>>
    BY DEF Step, Lookup, CreateKey, Issue, PutAgent, PutKey, CreateCredential, Respond, Fail, process
  <2>. QED
    BY <2>1 DEF IInv
<1>. QED
  BY <1>2, <1>3, <1>4, KeysKept, IndexedKept DEF IInv

LEMMA NextIInv ==
    ASSUME IInv, [Next]_vars
    PROVE  IInv'
<1>1. CASE UNCHANGED vars
  BY <1>1 DEF vars, disk, process, calls, IInv, TypeOK, HistoryAgrees, Progress, Whole, Told,
    Indexed, Counted, KeysOf, NextSequence, HasKeyRow, Advanced
<1>2. CASE Next
  BY <1>2, CallIInv, BootstrapIInv, CrashIInv, AdvanceKeyIInv DEF Next
<1>. QED
  BY <1>1, <1>2

LEMMA Invariance == Spec => []IInv
BY InitIInv, NextIInv, PTL DEF Spec

\* Every reachable state of the host is of the declared shape.
THEOREM TypeCorrect == Spec => []TypeOK
<1>1. IInv => TypeOK
  BY DEF IInv
<1>. QED
  BY <1>1, Invariance, PTL

\* Whatever crashes and conflicts come, a stored credential has its key file,
\* its agent row and its key row.
THEOREM StoredWhole == Spec => []StoredIsWhole
<1>1. IInv => StoredIsWhole
  BY DEF IInv, TypeOK, Whole, StoredIsWhole, HasKeyRow
<1>. QED
  BY <1>1, Invariance, PTL

\* Creations, their failures and the crashes between their transactions never
\* collide on a history sequence: only an operator's advance can take one.
THEOREM SequencesFree == Spec => []SequenceIsFree
<1>1. IInv => SequenceIsFree
  <2>. SUFFICES ASSUME IInv, NEW a \in Agent, Taken(a, NextSequence(a))
                PROVE  Advanced(a)
    BY DEF SequenceIsFree, Advanced
  <2>1. PICK k \in KeysOf(a) : k.sequence = NextSequence(a)
    BY DEF Taken
  <2>2. NextSequence(a) \in Nat
    BY SequenceType DEF IInv
  <2>. QED
    BY <2>1, <2>2 DEF IInv, Counted
<1>. QED
  BY <1>1, Invariance, PTL

\* The current view of the keys and their history never come apart.
THEOREM HistoriesAgree == Spec => []HistoryAgrees
<1>1. IInv => HistoryAgrees
  BY DEF IInv
<1>. QED
  BY <1>1, Invariance, PTL

-----------------------------------------------------------------------------
(* Trust across restarts *)

\* Every root credential a live call has issued has its root in the snapshot.
TInv ==
    /\ StoredIsTrusted
    /\ \A c \in Call :
         pc[c] \in Minted /\ credential[c].purpose = "agent-root-authority" =>
             credential[c].subject \in roots

\* The table of credentials is finite.
LEMMA StoredFinite ==
    ASSUME NEW s, s \subseteq Call
    PROVE  IsFiniteSet(s) /\ Cardinality(s) \in Nat
BY CallAssumption, FS_Subset, FS_CardinalityType

\* The roots the bootstrap rebuilds lack only what is beyond the page it reads.
LEMMA ReloadedMost ==
    ASSUME TypeOK, NEW r \in Reloaded,
           NEW missed, missed = {c \in stored : credential[c].subject \notin r}
    PROVE  missed = {} \/ Cardinality(missed) + ReloadLimit <= Cardinality(stored)
<1>1. IsFiniteSet(stored) /\ Cardinality(stored) \in Nat
  BY StoredFinite DEF TypeOK
<1>2. PICK page \in SUBSET stored :
        /\ Cardinality(page) = IF Cardinality(stored) <= ReloadLimit
                               THEN Cardinality(stored) ELSE ReloadLimit
        /\ r = {credential[d].subject : d \in page}
  BY DEF Reloaded
<1>3. missed \subseteq stored \ page
  BY <1>2
<1>4. CASE Cardinality(stored) <= ReloadLimit
  <2>1. page = stored
    BY <1>1, <1>2, <1>4, FS_Subset
  <2>. QED
    BY <1>3, <2>1
<1>5. CASE ~(Cardinality(stored) <= ReloadLimit)
  <2>1. IsFiniteSet(stored \ page) /\ Cardinality(stored \ page) \in Nat
    BY <1>1, FS_Difference, FS_CardinalityType
  <2>2. Cardinality(stored \ page) = Cardinality(stored) - Cardinality(stored \cap page)
    BY <1>1, FS_Difference
  <2>3. stored \cap page = page
    OBVIOUS
  <2>4. Cardinality(stored \ page) = Cardinality(stored) - ReloadLimit
    BY <1>2, <1>5, <2>2, <2>3
  <2>5. /\ IsFiniteSet(missed) /\ Cardinality(missed) \in Nat
        /\ Cardinality(missed) <= Cardinality(stored \ page)
    BY <1>3, <2>1, FS_Subset, FS_CardinalityType
  <2>. QED
    BY <1>1, <2>1, <2>4, <2>5, BoundAssumption
<1>. QED
  BY <1>4, <1>5

\* More credentials and fewer missing roots keep the bound.
LEMMA TrustKept ==
    ASSUME TypeOK, TypeOK', StoredIsTrusted, host = "up",
           stored \subseteq stored', Unrooted' \subseteq Unrooted
    PROVE  StoredIsTrusted'
<1>1. /\ IsFiniteSet(stored) /\ IsFiniteSet(stored') /\ IsFiniteSet(Unrooted)
      /\ Cardinality(stored) \in Nat /\ Cardinality(stored') \in Nat
      /\ Cardinality(Unrooted) \in Nat
  BY StoredFinite DEF TypeOK, Unrooted
<1>2. Cardinality(stored) <= Cardinality(stored')
  BY <1>1, FS_Subset
<1>3. IsFiniteSet(Unrooted') /\ Cardinality(Unrooted') <= Cardinality(Unrooted)
  BY <1>1, FS_Subset
<1>4. Cardinality(Unrooted') \in Nat
  BY <1>3, FS_CardinalityType
<1>5. CASE Unrooted = {}
  BY <1>5 DEF StoredIsTrusted
<1>6. CASE Unrooted # {}
  <2>1. Cardinality(Unrooted) + ReloadLimit <= Cardinality(stored)
    BY <1>6 DEF StoredIsTrusted
  <2>2. Cardinality(Unrooted') + ReloadLimit <= Cardinality(stored')
    BY <1>1, <1>2, <1>3, <1>4, <2>1, BoundAssumption
  <2>. QED
    BY <2>2 DEF StoredIsTrusted
<1>. QED
  BY <1>5, <1>6

\* A start, with roots read back from the table.
LEMMA OpenTrusts ==
    ASSUME IInv, NEW k, Open(k), host # "up", UNCHANGED <<stored, pc, credential>>
    PROVE  TInv'
<1>. DEFINE missed == {c \in stored : credential[c].subject \notin roots'}
<1>1. roots' \in Reloaded /\ TypeOK
  BY DEF Open, IInv
<1>2. missed = {} \/ Cardinality(missed) + ReloadLimit <= Cardinality(stored)
  BY <1>1, ReloadedMost
<1>3. IsFiniteSet(missed) /\ Cardinality(missed) \in Nat /\ Cardinality(stored) \in Nat
  BY <1>1, StoredFinite DEF TypeOK
<1>4. Unrooted' \subseteq missed
  BY DEF Unrooted
<1>. HIDE DEF missed
<1>5. IsFiniteSet(Unrooted') /\ Cardinality(Unrooted') <= Cardinality(missed)
  BY <1>3, <1>4, FS_Subset
<1>6. Cardinality(Unrooted') \in Nat
  BY <1>5, FS_CardinalityType
<1>7. StoredIsTrusted'
  <2>1. CASE missed = {}
    BY <1>4, <2>1 DEF StoredIsTrusted
  <2>2. CASE missed # {}
    <3>1. Cardinality(Unrooted') + ReloadLimit <= Cardinality(stored)
      BY <1>2, <1>3, <1>5, <1>6, <2>2, BoundAssumption
    <3>. QED
      BY <3>1 DEF StoredIsTrusted
  <2>. QED
    BY <2>1, <2>2
<1>8. \A c \in Call : pc'[c] \notin Minted
  BY DEF IInv, Progress, Minted, InFlight
<1>. QED
  BY <1>7, <1>8 DEF TInv

\* Roots are registered before credentials are stored, and only grow.
LEMMA TrustStep ==
    ASSUME IInv, IInv', TInv, [Next]_vars
    PROVE  TInv'
<1>0. TypeOK /\ TypeOK'
  BY DEF IInv
<1>1. CASE UNCHANGED vars
  BY <1>1 DEF vars, disk, process, calls, TInv, StoredIsTrusted, Unrooted
<1>2. ASSUME NEW p \in Passphrase, FindIssuer(p)
      PROVE  TInv'
  BY <1>2, OpenTrusts DEF FindIssuer, disk, calls
<1>3. CASE WriteReference
  BY <1>3, OpenTrusts DEF WriteReference, calls
<1>4. ASSUME (\E p \in Passphrase : MissIssuer(p)) \/ CreateIssuer \/ Crash
      PROVE  TInv'
  <2>1. host' # "up"
    BY <1>4 DEF MissIssuer, CreateIssuer, Crash
  <2>2. \A c \in Call : pc'[c] \notin Minted
    BY <2>1 DEF IInv, Progress, Minted, InFlight
  <2>. QED
    BY <2>1, <2>2 DEF TInv, StoredIsTrusted
<1>5. ASSUME NEW c \in Call, Lookup(c) \/ Step(c) \/ Fail(c)
      PROVE  TInv'
  <2>1. Frame(c) /\ Progress(c)
    BY <1>0, <1>5, StepFrame DEF IInv
  <2>2. host' = host /\ roots \subseteq roots'
    BY <1>5 DEF Step, Lookup, CreateKey, Issue, PutAgent, PutKey, CreateCredential, Respond,
      Fail, disk, process
  <2>3. CASE Issue(c)
    <3>1. /\ credential'[c] = [subject |-> input[c].subject, purpose |-> input[c].purpose,
                               issuer |-> issuer]
          /\ roots' = roots \cup (IF input[c].purpose = "agent-root-authority"
                                  THEN {input[c].subject} ELSE {})
          /\ UNCHANGED stored
          /\ c \notin stored /\ host = "up"
      BY <1>0, <2>1, <2>3 DEF Issue, Progress, TypeOK, disk, InFlight
    <3>2. Unrooted' \subseteq Unrooted
      BY <1>0, <2>1, <2>2, <3>1 DEF Unrooted, Frame, TypeOK
    <3>3. StoredIsTrusted'
      BY <1>0, <3>1, <3>2, TrustKept DEF TInv
    <3>4. \A d \in Call : pc'[d] \in Minted /\ credential'[d].purpose = "agent-root-authority"
                            => credential'[d].subject \in roots'
      BY <2>1, <2>2, <3>1 DEF TInv, Frame
    <3>. QED
      BY <3>3, <3>4 DEF TInv
  <2>4. CASE ~Issue(c)
    <3>1. UNCHANGED credential
      BY <1>5, <2>4
      DEF Step, Lookup, CreateKey, PutAgent, PutKey, CreateCredential, Respond, Fail
    <3>2. pc'[c] \in Minted => pc[c] \in Minted
      BY <1>0, <1>5, <2>4
      DEF Step, Lookup, CreateKey, PutAgent, PutKey, CreateCredential, Respond, Fail,
        Goto, Minted, TypeOK
    <3>3. c \in stored' => c \in stored \/ pc[c] \in Minted
      BY <1>5, <2>1, <2>4
      DEF Step, Lookup, CreateKey, PutAgent, PutKey, CreateCredential, Respond, Fail,
        Minted, disk
    <3>4. \A d \in Call : pc'[d] \in Minted /\ credential'[d].purpose = "agent-root-authority"
                            => credential'[d].subject \in roots'
      BY <2>1, <2>2, <3>1, <3>2 DEF TInv, Frame
    <3>5. Unrooted' \subseteq Unrooted
      BY <2>1, <2>2, <3>1, <3>3 DEF Unrooted, TInv, Frame
    <3>6. StoredIsTrusted'
      <4>1. CASE host = "up"
        BY <1>0, <2>1, <3>5, <4>1, TrustKept DEF TInv, Frame
      <4>2. CASE host # "up"
        BY <2>2, <4>2 DEF StoredIsTrusted
      <4>. QED
        BY <4>1, <4>2
    <3>. QED
      BY <3>4, <3>6 DEF TInv
  <2>. QED
    BY <2>3, <2>4
<1>6. ASSUME NEW key \in keys, NEW status \in Status, NEW sequence \in 0 .. MaxSequence,
             AdvanceKey(key, status, sequence)
      PROVE  TInv'
  BY <1>6 DEF AdvanceKey, process, calls, TInv, StoredIsTrusted, Unrooted
<1>. QED
  BY <1>1, <1>2, <1>3, <1>4, <1>5, <1>6 DEF Next

\* Whatever was stored before and whatever the bootstrap could not read, the
\* snapshot of a running host lacks no more roots than there are credentials
\* beyond the page the bootstrap reads.
THEOREM StoredTrusted == Spec => []StoredIsTrusted
<1>1. Init => TInv
  BY DEF Init, TInv, Minted, StoredIsTrusted
<1>2. IInv /\ IInv' /\ TInv /\ [Next]_vars => TInv'
  BY TrustStep
<1>3. TInv => StoredIsTrusted
  BY DEF TInv
<1>. QED
  BY <1>1, <1>2, <1>3, Invariance, PTL DEF Spec

-----------------------------------------------------------------------------
(* Implementation of IdentityRegistry *)

Bound == {<<k, index[k]>> : k \in {l \in Key : index[l] # None}}

Answers == {<<c, input[c].key, answer[c]>> : c \in {d \in Call : pc[d] = "answered"}}

\* What was told stays told as long as no call is answered.
LEMMA SameAnswers ==
    ASSUME \A c \in Call :
             /\ pc'[c] = "answered" <=> pc[c] = "answered"
             /\ pc[c] = "answered" => input'[c] = input[c] /\ answer'[c] = answer[c]
    PROVE  UNCHANGED Answers
BY DEF Answers

\* The transaction of credentials.create is the step that binds a key.
LEMMA CreateAdmits ==
    ASSUME IInv, NEW c \in Call, CreateCredential(c)
    PROVE  Registry!Next \/ UNCHANGED <<stored, Bound, Answers>>
<1>. DEFINE key == input[c].key
<1>1. /\ TypeOK /\ Progress(c) /\ Frame(c) /\ pc[c] = "storing" /\ c \notin stored
      /\ pc'[c] = "responding" /\ UNCHANGED input
  BY StepFrame DEF IInv, Step, CreateCredential, Progress, Minted, Goto, TypeOK
<1>2. key \in Key \cup {None}
  BY <1>1, CallAssumption DEF Progress
<1>3. UNCHANGED Answers
  BY <1>1, SameAnswers DEF Frame
<1>4. CASE key # None /\ index[key] # None
  <2>1. UNCHANGED <<stored, index>>
    BY <1>4 DEF CreateCredential
  <2>. QED
    BY <1>3, <2>1 DEF Bound
<1>5. CASE key = None
  <2>1. stored' = stored \cup {c} /\ \A k \in Key : index'[k] = index[k]
    BY <1>5, CallAssumption DEF CreateCredential
  <2>2. UNCHANGED Bound
    BY <2>1 DEF Bound
  <2>3. Registry!Admit(None, c)
    BY <1>1, <1>3, <2>1, <2>2 DEF Registry!Admit, Bound, Answers
  <2>. QED
    BY <2>3 DEF Registry!Next
<1>6. CASE key \in Key /\ index[key] = None
  <2>1. /\ stored' = stored \cup {c}
        /\ \A k \in Key : index'[k] = IF k = key THEN c ELSE index[k]
    BY <1>6, CallAssumption DEF CreateCredential
  <2>2. Bound' = Bound \cup {<<key, c>>}
    BY <1>6, <2>1, CallAssumption DEF Bound
  <2>3. \A b \in Bound : b[1] # key
    BY <1>6 DEF Bound
  <2>4. Registry!Admit(key, c)
    BY <1>1, <1>3, <1>6, <2>1, <2>2, <2>3 DEF Registry!Admit, Bound, Answers
  <2>. QED
    BY <1>6, <2>4 DEF Registry!Next
<1>. QED
  BY <1>2, <1>4, <1>5, <1>6

\* A response tells the caller what its key is bound to.
LEMMA RespondTells ==
    ASSUME IInv, NEW c \in Call, Respond(c)
    PROVE  Registry!Next
<1>1. /\ TypeOK /\ Progress(c) /\ Told(c) /\ pc[c] = "responding"
      /\ pc' = [pc EXCEPT ![c] = "answered"]
      /\ UNCHANGED <<disk, process, input, answer>>
  BY DEF IInv, Respond, Goto
<1>. PICK key \in Key \cup {None}, identity \in Call :
       key = input[c].key /\ identity = answer[c] /\ identity \in stored
  BY <1>1, CallAssumption DEF Progress, Told, InFlight, TypeOK
<1>3. UNCHANGED <<stored, Bound>>
  BY <1>1 DEF disk, Bound
<1>4. {d \in Call : pc'[d] = "answered"} = {d \in Call : pc[d] = "answered"} \cup {c}
  BY <1>1 DEF TypeOK
<1>5. Answers' = Answers \cup {<<c, key, identity>>}
  BY <1>1, <1>4 DEF Answers
<1>6. \A t \in Answers : t[1] # c
  BY <1>1 DEF Answers
<1>7. CASE key = None
  <2>1. ASSUME NEW d \in Call, pc[d] = "answered", answer[d] = identity
        PROVE  FALSE
    <3>1. identity = c /\ d # c
      BY <1>1, <1>7, <2>1 DEF Told
    <3>2. input[d].key \in Key \cup {None} /\ Told(d)
      BY <2>1, CallAssumption DEF IInv, Progress
    <3>3. CASE input[d].key = None
      BY <2>1, <3>1, <3>2, <3>3 DEF Told
    <3>4. CASE input[d].key # None
      <4>1. index[input[d].key] = c
        BY <2>1, <3>1, <3>2, <3>4 DEF Told
      <4>2. Indexed(input[d].key)
        BY <3>2, <3>4 DEF IInv
      <4>. QED
        BY <1>7, <3>4, <4>1, <4>2, CallAssumption DEF Indexed
    <3>. QED
      BY <3>3, <3>4
  <2>2. \A t \in Answers : t[3] # identity
    BY <2>1 DEF Answers
  <2>3. Registry!Tell(c, None, identity)
    BY <1>3, <1>5, <1>6, <1>7, <2>2 DEF Registry!Tell, Bound, Answers
  <2>. QED
    BY <1>7, <2>3 DEF Registry!Next
<1>8. CASE key \in Key
  <2>1. index[key] = identity /\ index[key] # None
    BY <1>1, <1>8, CallAssumption DEF Told
  <2>2. <<key, identity>> \in Bound
    BY <1>8, <2>1 DEF Bound
  <2>3. Registry!Tell(c, key, identity)
    BY <1>3, <1>5, <1>6, <1>8, <2>2 DEF Registry!Tell, Bound, Answers
  <2>. QED
    BY <1>8, <2>3 DEF Registry!Next
<1>. QED
  BY <1>7, <1>8

\* The host keeps the promise of the abstract registry.
THEOREM Implementation == Spec => ImplementsRegistry
<1>1. Init => Registry!Init
  BY DEF Init, Registry!Init
<1>2. ASSUME IInv, [Next]_vars
      PROVE  [Registry!Next]_(Registry!registryVars)
  <2>. SUFFICES Registry!Next \/ UNCHANGED <<stored, Bound, Answers>>
    BY DEF Registry!registryVars, Bound, Answers
  <2>1. CASE UNCHANGED vars
    BY <2>1 DEF vars, disk, process, calls, Bound, Answers
  <2>2. ASSUME NEW c \in Call, CreateCredential(c)
        PROVE  Registry!Next \/ UNCHANGED <<stored, Bound, Answers>>
    BY <1>2, <2>2, CreateAdmits
  <2>3. ASSUME NEW c \in Call, Respond(c)
        PROVE  Registry!Next
    BY <1>2, <2>3, RespondTells
  <2>4. ASSUME NEW c \in Call,
               Lookup(c) \/ CreateKey(c) \/ Issue(c) \/ PutAgent(c) \/ PutKey(c) \/ Fail(c)
        PROVE  UNCHANGED <<stored, Bound, Answers>>
    <3>1. UNCHANGED <<stored, index>>
      BY <2>4 DEF Lookup, CreateKey, Issue, PutAgent, PutKey, Fail, disk
    <3>2. Frame(c)
      BY <1>2, <2>4, StepFrame DEF IInv, Step
    <3>3. pc[c] # "answered" /\ pc'[c] # "answered"
      BY <1>2, <2>4 DEF Lookup, CreateKey, Issue, PutAgent, PutKey, Fail, Goto, IInv, TypeOK
    <3>. QED
      BY <3>1, <3>2, <3>3, SameAnswers DEF Bound, Frame
  <2>5. CASE Crash
    <3>1. /\ UNCHANGED <<stored, index>>
          /\ \A c \in Call : pc'[c] = "answered" <=> pc[c] = "answered"
          /\ \A c \in Call : pc[c] = "answered" => input'[c] = input[c] /\ answer'[c] = answer[c]
      BY <1>2, <2>5, Forgotten DEF Crash, InFlight, IInv
    <3>. QED
      BY <3>1, SameAnswers DEF Bound
  <2>6. ASSUME \/ \E p \in Passphrase : FindIssuer(p) \/ MissIssuer(p)
               \/ CreateIssuer
               \/ WriteReference
               \/ \E key \in keys, status \in Status, sequence \in 0 .. MaxSequence :
                    AdvanceKey(key, status, sequence)
        PROVE  UNCHANGED <<stored, Bound, Answers>>
    <3>1. UNCHANGED <<stored, index, input, answer, pc>>
      BY <2>6 DEF FindIssuer, MissIssuer, CreateIssuer, WriteReference, AdvanceKey, disk, calls
    <3>. QED
      BY <3>1 DEF Bound, Answers
  <2>. QED
    BY <1>2, <2>1, <2>2, <2>3, <2>4, <2>5, <2>6 DEF Next, Step
<1>. QED
  BY <1>1, <1>2, Invariance, PTL DEF Spec, ImplementsRegistry, Registry!Spec
=============================================================================
