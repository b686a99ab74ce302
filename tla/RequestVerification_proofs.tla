--------------------- MODULE RequestVerification_proofs ---------------------
(***************************************************************************)
(* Proofs about RequestVerification: its type invariant, that a request is *)
(* authorised once unless a call commits after it expired, how every key   *)
(* is burnt and every replay explained, and that it implements ReplayGate. *)
(***************************************************************************)
EXTENDS RequestVerification, TLAPS

\* The result that authorises a side effect needs a replay-protected call
\* whose key was not found used.
LEMMA AuthorisingVerdict ==
    ASSUME NEW artifacts, NEW status, NEW t, NEW m, NEW duplicate \in BOOLEAN,
           m.replayRequired \in BOOLEAN, m.online \in BOOLEAN,
           Verdict(artifacts, status, t, m, duplicate)
             = [code |-> "VALID", replayChecked |-> TRUE]
    PROVE  m.replayRequired /\ m.online /\ ~duplicate
BY DEF Verdict

\* Every verdict is a result.
LEMMA VerdictType ==
    ASSUME NEW artifacts, NEW status, NEW t, NEW m, NEW duplicate \in BOOLEAN,
           m.replayRequired \in BOOLEAN
    PROVE  Verdict(artifacts, status, t, m, duplicate)
             \in [code : Codes, replayChecked : BOOLEAN]
BY DEF Verdict, Codes

-----------------------------------------------------------------------------
(* Type correctness *)

\* A call that has begun has an input with a request and a mode.
LEMMA BegunInput ==
    ASSUME TypeOK, NEW c \in Call, pc[c] # "idle"
    PROVE  /\ input[c] \in [request : Request, mode : Mode, now : Nat]
           /\ input[c].mode.replayRequired \in BOOLEAN
           /\ input[c].mode.online \in BOOLEAN
           /\ Signed[input[c].request].expiresAt \in Nat
<1>1. input[c].request \in Request
  BY DEF TypeOK
<1>2. input[c] # NoInput
  BY <1>1, ArtifactAssumption DEF NoInput, Request
<1>3. input[c] \in [request : Request, mode : Mode, now : Nat]
  BY <1>2 DEF TypeOK
<1>4. Signed[input[c].request].expiresAt \in Nat
  BY <1>1, ArtifactAssumption DEF Request
<1>. QED
  BY <1>3, <1>4, ModeAssumption

LEMMA StepTypeOK ==
    ASSUME TypeOK, Next
    PROVE  TypeOK'
<1>1. ASSUME NEW c \in Call, Begin(c)
      PROVE  TypeOK'
  <2>1. PICK p \in Presented :
          /\ input' = [input EXCEPT ![c] = [request |-> p[1], mode |-> p[2], now |-> clock]]
          /\ cursor' = [cursor EXCEPT ![c] = p[1]]
          /\ gathered' = [gathered EXCEPT ![c] = {p[1]}]
    BY <1>1 DEF Begin
  <2>2. p[1] \in Request /\ p[1] \in Artifact /\ p[2] \in Mode
    BY ModeAssumption DEF Request
  <2>3. input' \in [Call -> {NoInput} \cup [request : Request, mode : Mode, now : Nat]]
    BY <2>1, <2>2 DEF TypeOK
  <2>4. /\ cursor' \in [Call -> Artifact \cup {None}]
        /\ gathered' \in [Call -> SUBSET Artifact]
    BY <2>1, <2>2 DEF TypeOK
  <2>5. /\ pc' \in [Call -> Labels]
        /\ known' \in [Call -> SUBSET [target : Artifact, effectiveAt : Nat]]
    BY <1>1 DEF TypeOK, Begin, Goto, Labels
  <2>6. \A d \in Call : pc'[d] # "idle" => input'[d].request \in Request
    BY <1>1, <2>1, <2>2 DEF TypeOK, Begin, Goto
  <2>. QED
    BY <1>1, <2>3, <2>4, <2>5, <2>6 DEF TypeOK, Begin
<1>2. ASSUME NEW c \in Call, FollowParent(c)
      PROVE  TypeOK'
  BY <1>2 DEF TypeOK, FollowParent, HasNewParent
<1>3. ASSUME NEW c \in Call, EndChain(c)
      PROVE  TypeOK'
  BY <1>3 DEF TypeOK, EndChain, Goto, Labels
<1>4. ASSUME NEW c \in Call, Preliminary(c)
      PROVE  TypeOK'
  <2>1. input[c].mode.replayRequired \in BOOLEAN
    BY <1>4, BegunInput DEF Preliminary
  <2>2. \A dup \in BOOLEAN :
          Verdict(gathered[c], revocations, input[c].now, input[c].mode, dup)
            \in [code : Codes, replayChecked : BOOLEAN]
    BY <2>1, VerdictType
  <2>3. /\ listed' \in [Call -> SUBSET [target : Artifact, effectiveAt : Nat]]
        /\ pc' \in [Call -> Labels]
    BY <1>4 DEF TypeOK, Preliminary, Return, Goto, Labels
  <2>4. result' \in [Call -> {NoResult} \cup [code : Codes, replayChecked : BOOLEAN]]
    BY <1>4, <2>2 DEF TypeOK, Preliminary, Return
  <2>5. \A d \in Call : pc'[d] # "idle" => pc[d] # "idle"
    BY <1>4 DEF TypeOK, Preliminary, Return, Goto
  <2>. QED
    BY <1>4, <2>3, <2>4, <2>5 DEF TypeOK, Preliminary
<1>5. ASSUME NEW c \in Call, CheckExpiry(c)
      PROVE  TypeOK'
  BY <1>5 DEF TypeOK, CheckExpiry, Goto, Labels
<1>6. ASSUME NEW c \in Call, Insert(c)
      PROVE  TypeOK'
  <2>1. input[c].request \in Request
    BY <1>6 DEF TypeOK, Insert
  <2>2. replay' \subseteq {Row(r) : r \in Request}
    BY <1>6, <2>1 DEF TypeOK, Insert
  <2>. QED
    BY <1>6, <2>2 DEF TypeOK, Insert, Goto, Labels
<1>7. ASSUME NEW c \in Call, Answer(c)
      PROVE  TypeOK'
  <2>1. input[c].mode.replayRequired \in BOOLEAN
    BY <1>7, BegunInput DEF Answer
  <2>2. VerdictOf(c, outcome[c] # "consumed") \in [code : Codes, replayChecked : BOOLEAN]
    BY <2>1, VerdictType DEF VerdictOf
  <2>. QED
    BY <1>7, <2>2 DEF TypeOK, Answer, Return, Goto, Labels
<1>8. ASSUME NEW c \in Call, Crash(c)
      PROVE  TypeOK'
  BY <1>8 DEF TypeOK, Crash, Goto, Labels
<1>9. ASSUME PurgeExpired
      PROVE  TypeOK'
  BY <1>9 DEF TypeOK, PurgeExpired, callVars
<1>10. ASSUME NEW a \in Artifact, Put(a)
       PROVE  TypeOK'
  BY <1>10 DEF TypeOK, Put, callVars
<1>11. ASSUME NEW a \in Revocable, NEW lead \in Lead, Publish(a, clock + lead)
       PROVE  TypeOK'
  <2>1. a \in Artifact /\ lead \in Nat
    BY ArtifactAssumption, ModeAssumption
  <2>2. revocations' \subseteq [target : Artifact, effectiveAt : Nat]
    BY <1>11, <2>1 DEF TypeOK, Publish
  <2>. QED
    BY <1>11, <2>2 DEF TypeOK, Publish, callVars
<1>12. ASSUME Tick
       PROVE  TypeOK'
  BY <1>12 DEF TypeOK, Tick, callVars
<1>. QED
  BY <1>1, <1>2, <1>3, <1>4, <1>5, <1>6, <1>7, <1>8, <1>9, <1>10, <1>11, <1>12
  DEF Next, Step

\* Every reachable state of the verifier is of the declared shape.
THEOREM TypeCorrect == Spec => []TypeOK
<1>1. Init => TypeOK
  BY ArtifactAssumption DEF Init, TypeOK, Labels
<1>2. TypeOK /\ UNCHANGED vars => TypeOK'
  BY DEF TypeOK, vars
<1>3. TypeOK /\ [Next]_vars => TypeOK'
  BY <1>2, StepTypeOK
<1>. QED
  BY <1>1, <1>3, PTL DEF Spec

-----------------------------------------------------------------------------
(* The inductive invariant behind OnceUnlessLate *)

Expiry(c) == Signed[input[c].request].expiresAt

\* What a call's place in verifyRequestWithReplay says about its clocks.
Staged(c) ==
    /\ pc[c] \in {"idle", "assembling", "listing", "consuming", "inserting"} =>
         outcome[c] = "none"
    /\ pc[c] \in {"consuming", "inserting", "answered"} =>
         input[c].mode.replayRequired
    /\ pc[c] = "inserting" =>
         checkedAt[c] < Expiry(c)
    /\ Consumed(c) =>
         /\ pc[c] # "idle"
         /\ checkedAt[c] < Expiry(c)
         /\ insertedAt[c] <= clock
    /\ Authorised(c) => Consumed(c)

\* A consumed key is in the table until its request has expired.
Held(c) == Consumed(c) => Row(input[c].request) \in replay \/ Expiry(c) < clock

\* Of two consumptions of one key, one came after the other's request expired.
Apart(c, d) ==
    c # d /\ Consumed(c) /\ Consumed(d) /\ Clashing(c, d) =>
        Expiry(c) < insertedAt[d] \/ Expiry(d) < insertedAt[c]

IInv ==
    /\ TypeOK
    /\ \A c \in Call : Staged(c)
    /\ \A c \in Call : Held(c)
    /\ \A c, d \in Call : Apart(c, d)

\* A step that leaves the replay table, the clock and a call's own record alone
\* keeps what is known of the call.
LEMMA OtherCall ==
    ASSUME NEW c \in Call,
           UNCHANGED clock,
           pc'[c] = pc[c], input'[c] = input[c], checkedAt'[c] = checkedAt[c],
           outcome'[c] = outcome[c], result'[c] = result[c],
           insertedAt'[c] = insertedAt[c]
    PROVE  Staged(c) => Staged(c)'
BY DEF Staged, Expiry, Consumed, Authorised

LEMMA InitIInv == Init => IInv
<1>. SUFFICES ASSUME Init PROVE IInv
  OBVIOUS
<1>1. TypeOK
  BY ArtifactAssumption DEF Init, TypeOK, Labels
<1>2. \A c \in Call : ~Consumed(c) /\ pc[c] = "idle"
  BY DEF Init, Consumed
<1>3. \A c \in Call : Staged(c)
  BY <1>2 DEF Staged, Authorised, Consumed, Init
<1>4. \A c \in Call : Held(c)
  BY <1>2 DEF Held
<1>5. \A c, d \in Call : Apart(c, d)
  BY <1>2 DEF Apart
<1>. QED
  BY <1>1, <1>3, <1>4, <1>5 DEF IInv

\* Only Insert consumes: any other step of a call keeps the consumptions.
LEMMA KeepsApart ==
    ASSUME IInv,
           \A c \in Call : Consumed(c)' => /\ Consumed(c)
                                           /\ input'[c] = input[c]
                                           /\ insertedAt'[c] = insertedAt[c]
    PROVE  \A c, d \in Call : Apart(c, d)'
BY DEF IInv, Apart, Consumed, Clashing, Expiry

LEMMA KeepsHeld ==
    ASSUME IInv,
           replay \subseteq replay',
           UNCHANGED clock,
           \A c \in Call : Consumed(c)' => Consumed(c) /\ input'[c] = input[c]
    PROVE  \A c \in Call : Held(c)'
BY DEF IInv, Held, Consumed, Expiry, Row

LEMMA InsertIInv ==
    ASSUME IInv, NEW c \in Call, Insert(c)
    PROVE  /\ \A d \in Call : Staged(d)'
           /\ \A d \in Call : Held(d)'
           /\ \A d, e \in Call : Apart(d, e)'
<1>. DEFINE r == input[c].request
<1>1. /\ pc[c] = "inserting" /\ outcome[c] = "none"
      /\ UNCHANGED <<clock, input, checkedAt, result>>
      /\ checkedAt[c] < Expiry(c)
      /\ input[c].mode.replayRequired
      /\ pc'[c] = "answered"
      /\ outcome'[c] \in {"consumed", "duplicate"}
  BY DEF IInv, TypeOK, Staged, Insert, Goto
<1>2. /\ r \in Request /\ Expiry(c) \in Nat /\ Row(r).expiresAt = Expiry(c)
      /\ Row(r).key = ReplayKey[r]
  BY <1>1, BegunInput DEF IInv, TypeOK, Expiry, Row
<1>3. \A d \in Call \ {c} : /\ outcome'[d] = outcome[d] /\ insertedAt'[d] = insertedAt[d]
                            /\ pc'[d] = pc[d]
  BY DEF IInv, TypeOK, Insert, Goto
<1>4. replay \subseteq replay'
  BY DEF Insert
<1>5. Consumed(c)' => ~Occupied(r) /\ replay' = replay \cup {Row(r)} /\ insertedAt'[c] = clock
  BY DEF IInv, TypeOK, Insert, Consumed
<1>6. \A d \in Call : Staged(d)'
  <2>1. ASSUME NEW d \in Call, d # c
        PROVE  Staged(d)'
    <3>1. Staged(d)
      BY DEF IInv
    <3>. QED
      BY <1>1, <1>3, <2>1, <3>1, OtherCall DEF IInv
  <2>2. Staged(c)'
    BY <1>1, <1>5 DEF Staged, Expiry, Authorised, Consumed, IInv, TypeOK
  <2>. QED
    BY <2>1, <2>2
<1>7. \A d \in Call : Held(d)'
  BY <1>1, <1>3, <1>4, <1>5 DEF IInv, Held, Consumed, Expiry, Row
<1>8. \A d \in Call \ {c} : Apart(c, d)' /\ Apart(d, c)'
  <2>. SUFFICES ASSUME NEW d \in Call \ {c}, Consumed(c)', Consumed(d)',
                       Clashing(c, d)' \/ Clashing(d, c)'
                PROVE  Expiry(d)' < insertedAt'[c]
    BY DEF Apart
  <2>1. Consumed(d) /\ ~Occupied(r) /\ insertedAt'[c] = clock
    BY <1>3, <1>5 DEF Consumed
  <2>2. SameKey(ReplayKey[input[d].request], ReplayKey[r])
    BY <1>1 DEF Clashing, SameKey
  <2>3. Row(input[d].request) \notin replay
    BY <2>1, <2>2 DEF Occupied, Row
  <2>4. Expiry(d) < clock
    BY <2>1, <2>3 DEF IInv, Held
  <2>. QED
    BY <1>1, <2>1, <2>4 DEF Expiry
<1>9. \A d, e \in Call \ {c} : Apart(d, e)'
  BY <1>1, <1>3 DEF IInv, Apart, Consumed, Clashing, Expiry
<1>10. Apart(c, c)'
  BY DEF Apart
<1>. QED
  BY <1>6, <1>7, <1>8, <1>9, <1>10

\* A step of one call that consumes nothing and leaves the table alone.
LEMMA QuietStep ==
    ASSUME IInv, NEW c \in Call,
           UNCHANGED <<clock, replay, insertedAt>>,
           Staged(c)',
           Consumed(c)' => Consumed(c) /\ input'[c] = input[c],
           \A d \in Call \ {c} :
               /\ pc'[d] = pc[d] /\ input'[d] = input[d]
               /\ checkedAt'[d] = checkedAt[d] /\ outcome'[d] = outcome[d]
               /\ result'[d] = result[d]
    PROVE  /\ \A d \in Call : Staged(d)'
           /\ \A d \in Call : Held(d)'
           /\ \A d, e \in Call : Apart(d, e)'
<1>1. ASSUME NEW d \in Call, d # c
      PROVE  Staged(d)'
  <2>1. Staged(d) /\ d \in Call \ {c} /\ insertedAt'[d] = insertedAt[d]
    BY <1>1 DEF IInv
  <2>. QED
    BY <2>1, OtherCall
<1>2. \A d \in Call : Consumed(d)' => /\ Consumed(d)
                                      /\ input'[d] = input[d]
                                      /\ insertedAt'[d] = insertedAt[d]
  BY DEF Consumed
<1>3. \A d \in Call : Held(d)'
  BY <1>2, KeepsHeld
<1>4. \A d, e \in Call : Apart(d, e)'
  BY <1>2, KeepsApart
<1>. QED
  BY <1>1, <1>3, <1>4

\* What no call does, the environment's steps do not disturb.
LEMMA EnvironmentIInv ==
    ASSUME IInv,
           UNCHANGED callVars,
           \/ UNCHANGED <<clock, replay>>
           \/ PurgeExpired
           \/ Tick
    PROVE  /\ \A d \in Call : Staged(d)'
           /\ \A d \in Call : Held(d)'
           /\ \A d, e \in Call : Apart(d, e)'
<1>1. /\ UNCHANGED <<pc, input, checkedAt, outcome, result, insertedAt>>
      /\ clock \in Nat /\ clock' \in Nat /\ clock <= clock'
      /\ \A d \in Call : Consumed(d) => Expiry(d) \in Nat
      /\ \A d \in Call : insertedAt[d] \in Nat /\ checkedAt[d] \in Nat
  <2>1. \A d \in Call : Consumed(d) => Expiry(d) \in Nat
    BY BegunInput DEF IInv, Staged, Expiry
  <2>. QED
    BY <2>1 DEF callVars, IInv, TypeOK, PurgeExpired, Tick
<1>2. \A d \in Call : Staged(d)'
  <2>. SUFFICES ASSUME NEW d \in Call PROVE Staged(d)'
    OBVIOUS
  <2>1. Staged(d) /\ checkedAt[d] \in Nat /\ insertedAt[d] \in Nat
    BY <1>1 DEF IInv
  <2>2. Consumed(d) => insertedAt[d] <= clock'
    BY <1>1, <2>1 DEF Staged
  <2>. QED
    BY <1>1, <2>1, <2>2 DEF Staged, Expiry, Consumed, Authorised
<1>3. \A d \in Call : Held(d)'
  <2>. SUFFICES ASSUME NEW d \in Call, Consumed(d), ~(Expiry(d) < clock')
                PROVE  Row(input[d].request) \in replay'
    BY <1>1 DEF Held, Consumed, Expiry, Row
  <2>1. ~(Expiry(d) < clock)
    BY <1>1
  <2>2. Row(input[d].request) \in replay
    BY <2>1 DEF IInv, Held
  <2>3. Row(input[d].request).expiresAt = Expiry(d)
    BY DEF Row, Expiry
  <2>. QED
    BY <2>1, <2>2, <2>3 DEF PurgeExpired, Tick
<1>4. \A d, e \in Call : Apart(d, e)'
  BY <1>1, KeepsApart DEF Consumed
<1>. QED
  BY <1>2, <1>3, <1>4

LEMMA StepIInv ==
    ASSUME IInv, Next
    PROVE  IInv'
<1>. DEFINE Goal == /\ \A d \in Call : Staged(d)'
                    /\ \A d \in Call : Held(d)'
                    /\ \A d, e \in Call : Apart(d, e)'
<1>1. TypeOK'
  BY StepTypeOK DEF IInv
<1>2. ASSUME NEW c \in Call, Begin(c)
      PROVE  Goal
  <2>1. Staged(c)' /\ ~Consumed(c)'
    BY <1>2 DEF IInv, TypeOK, Begin, Goto, Staged, Consumed, Authorised
  <2>. QED
    BY <1>2, <2>1, QuietStep DEF IInv, TypeOK, Begin, Goto
<1>3. ASSUME NEW c \in Call, FollowParent(c)
      PROVE  Goal
  <2>1. Staged(c)'
    BY <1>3 DEF IInv, FollowParent, Staged, Consumed, Authorised, Expiry
  <2>. QED
    BY <1>3, <2>1, QuietStep DEF FollowParent, Consumed
<1>4. ASSUME NEW c \in Call, EndChain(c)
      PROVE  Goal
  <2>1. Staged(c)' /\ ~Consumed(c)'
    BY <1>4 DEF IInv, TypeOK, EndChain, Goto, Staged, Consumed, Authorised
  <2>. QED
    BY <1>4, <2>1, QuietStep DEF IInv, TypeOK, EndChain, Goto
<1>5. ASSUME NEW c \in Call, Preliminary(c)
      PROVE  Goal
  <2>. DEFINE verdict(dup) == Verdict(gathered[c], revocations, input[c].now,
                                      input[c].mode, dup)
  <2>1. /\ pc[c] = "listing" /\ outcome[c] = "none"
        /\ input[c].mode.replayRequired \in BOOLEAN /\ input[c].mode.online \in BOOLEAN
    BY <1>5, BegunInput DEF IInv, Preliminary, Staged
  <2>2. ~Authorised(c)'
    <3>. SUFFICES ASSUME Authorised(c)' PROVE FALSE
      OBVIOUS
    <3>1. pc'[c] = "done" /\ result'[c] = [code |-> "VALID", replayChecked |-> TRUE]
      BY DEF Authorised
    <3>2. PICK dup \in BOOLEAN :
            /\ result'[c] = verdict(dup)
            /\ \/ dup
               \/ ~(/\ verdict(FALSE).code = "VALID"
                    /\ input[c].mode.replayRequired /\ input[c].mode.online)
      BY <1>5, <3>1 DEF IInv, TypeOK, Preliminary, Return, Goto
    <3>3. verdict(dup) = [code |-> "VALID", replayChecked |-> TRUE]
      BY <3>1, <3>2
    <3>4. input[c].mode.replayRequired /\ input[c].mode.online /\ ~dup
      BY <2>1, <3>3, AuthorisingVerdict
    <3>5. dup = FALSE
      BY <3>4
    <3>6. verdict(FALSE) = [code |-> "VALID", replayChecked |-> TRUE]
      BY <3>3, <3>5
    <3>7. \A v : v = [code |-> "VALID", replayChecked |-> TRUE] => v.code = "VALID"
      OBVIOUS
    <3>8. verdict(FALSE).code = "VALID"
      BY <3>6, <3>7
    <3>. QED
      BY <3>2, <3>4, <3>8
  <2>3. Staged(c)' /\ ~Consumed(c)'
    BY <1>5, <2>1, <2>2 DEF IInv, TypeOK, Preliminary, Return, Goto, Staged, Consumed
  <2>. QED
    BY <1>5, <2>3, QuietStep DEF IInv, TypeOK, Preliminary, Return, Goto
<1>6. ASSUME NEW c \in Call, CheckExpiry(c)
      PROVE  Goal
  <2>1. /\ pc[c] = "consuming" /\ outcome[c] = "none"
        /\ input[c].mode.replayRequired
        /\ Expiry(c) \in Nat
    BY <1>6, BegunInput DEF IInv, CheckExpiry, Staged, Expiry
  <2>2. Staged(c)' /\ ~Consumed(c)'
    BY <1>6, <2>1, ModeAssumption
    DEF IInv, TypeOK, CheckExpiry, Goto, Staged, Consumed, Authorised, Expiry
  <2>. QED
    BY <1>6, <2>2, QuietStep DEF IInv, TypeOK, CheckExpiry, Goto
<1>7. ASSUME NEW c \in Call, Insert(c)
      PROVE  Goal
  BY <1>7, InsertIInv
<1>8. ASSUME NEW c \in Call, Answer(c)
      PROVE  Goal
  <2>1. /\ pc[c] = "answered" /\ Staged(c)
        /\ input[c].mode.replayRequired
        /\ input[c].mode.online \in BOOLEAN /\ input[c].mode.replayRequired \in BOOLEAN
    BY <1>8, BegunInput DEF IInv, Answer, Staged
  <2>2. Authorised(c)' => Consumed(c)
    <3>. SUFFICES ASSUME Authorised(c)' PROVE Consumed(c)
      OBVIOUS
    <3>1. VerdictOf(c, outcome[c] # "consumed") = [code |-> "VALID", replayChecked |-> TRUE]
      BY <1>8 DEF Authorised, IInv, TypeOK, Answer, Return
    <3>2. ~(outcome[c] # "consumed")
      BY <2>1, <3>1, AuthorisingVerdict DEF VerdictOf
    <3>. QED
      BY <3>2 DEF Consumed
  <2>3. Staged(c)'
    BY <1>8, <2>1, <2>2 DEF IInv, TypeOK, Answer, Return, Goto, Staged, Consumed, Expiry
  <2>. QED
    BY <1>8, <2>3, QuietStep DEF IInv, TypeOK, Answer, Return, Goto, Consumed
<1>9. ASSUME NEW c \in Call, Crash(c)
      PROVE  Goal
  <2>1. Staged(c)'
    BY <1>9 DEF IInv, TypeOK, Crash, Goto, Staged, Consumed, Authorised, Expiry
  <2>. QED
    BY <1>9, <2>1, QuietStep DEF IInv, TypeOK, Crash, Goto, Consumed
<1>10. ASSUME PurgeExpired
       PROVE  Goal
  BY <1>10, EnvironmentIInv DEF PurgeExpired
<1>11. ASSUME NEW a \in Artifact, Put(a)
       PROVE  Goal
  BY <1>11, EnvironmentIInv DEF Put
<1>12. ASSUME NEW a \in Revocable, NEW lead \in Lead, Publish(a, clock + lead)
       PROVE  Goal
  BY <1>12, EnvironmentIInv DEF Publish
<1>13. ASSUME Tick
       PROVE  Goal
  BY <1>13, EnvironmentIInv DEF Tick
<1>14. Goal
  BY <1>2, <1>3, <1>4, <1>5, <1>6, <1>7, <1>8, <1>9, <1>10, <1>11, <1>12, <1>13
  DEF Next, Step
<1>. QED
  BY <1>1, <1>14 DEF IInv

LEMMA StutterIInv ==
    ASSUME IInv, UNCHANGED vars
    PROVE  IInv'
BY DEF vars, IInv, TypeOK, Staged, Held, Apart, Expiry, Consumed, Authorised, Clashing

LEMMA Invariance == Spec => []IInv
<1>1. IInv /\ [Next]_vars => IInv'
  BY StepIInv, StutterIInv
<1>. QED
  BY InitIInv, <1>1, PTL DEF Spec

-----------------------------------------------------------------------------
\* Of two consumptions of one request, one was checked before the request
\* expired and committed after: the first row is there until then.
LEMMA SecondIsLate ==
    ASSUME IInv, NEW c \in Call, NEW d \in Call, c # d, Consumed(c), Consumed(d),
           input[c].request = input[d].request
    PROVE  \E late \in {c, d} : checkedAt[late] < Expiry(late) /\ Expiry(late) < insertedAt[late]
<1>1. Clashing(c, d)
  BY DEF Clashing, SameKey
<1>2. Expiry(c) = Expiry(d)
  BY DEF Expiry
<1>3. Expiry(c) < insertedAt[d] \/ Expiry(d) < insertedAt[c]
  BY <1>1 DEF IInv, Apart
<1>4. checkedAt[c] < Expiry(c) /\ checkedAt[d] < Expiry(d)
  BY DEF IInv, Staged
<1>. QED
  BY <1>2, <1>3, <1>4

\* Whatever calls run concurrently, crash, retry or purge, a signed request
\* authorises a second side effect only through a call that stalls past its
\* expires_at between its clock and its commit.
THEOREM OnceUnlessLateHolds == Spec => []OnceUnlessLate
<1>1. IInv => OnceUnlessLate
  <2>. SUFFICES ASSUME IInv, NEW c \in Call, NEW d \in Call, c # d,
                       Authorised(c), Authorised(d), input[c].request = input[d].request
                PROVE  \E late \in {c, d} :
                         /\ checkedAt[late] < Expiry(late)
                         /\ Expiry(late) < insertedAt[late]
    BY DEF OnceUnlessLate, Expiry
  <2>1. Consumed(c) /\ Consumed(d)
    BY DEF IInv, Staged
  <2>. QED
    BY <2>1, SecondIsLate
<1>. QED
  BY <1>1, Invariance, PTL

-----------------------------------------------------------------------------
(* Refinement of ReplayGate *)

Spent == {<<c, input[c].request>> : c \in {d \in Call : Consumed(d)}}

\* A step that adds no consumption and keeps the clock is invisible.
LEMMA SameSpent ==
    ASSUME \A c \in Call : (Consumed(c)' <=> Consumed(c))
                           /\ (Consumed(c) => input'[c] = input[c])
    PROVE  Spent' = Spent
BY DEF Spent, Consumed

\* A committed row is a spend the gate allows: a clashing request that was
\* spent before, the same one included, has lost its row and so expired.
LEMMA InsertSpends ==
    ASSUME IInv, NEW c \in Call, Insert(c)
    PROVE  (\E t \in Call, r \in Request : Gate!Spend(t, r)) \/ UNCHANGED <<clock, Spent>>
<1>. DEFINE r == input[c].request
<1>1. /\ pc[c] = "inserting" /\ outcome[c] = "none" /\ UNCHANGED <<clock, input>>
      /\ outcome'[c] \in {"consumed", "duplicate"}
      /\ r \in Request
  BY BegunInput DEF IInv, TypeOK, Staged, Insert
<1>2. \A d \in Call \ {c} : outcome'[d] = outcome[d]
  BY DEF IInv, TypeOK, Insert
<1>3. CASE outcome'[c] = "duplicate"
  <2>1. \A d \in Call : Consumed(d)' <=> Consumed(d)
    BY <1>1, <1>2, <1>3 DEF Consumed
  <2>. QED
    BY <1>1, <2>1, SameSpent
<1>4. CASE outcome'[c] = "consumed"
  <2>1. Spent' = Spent \cup {<<c, r>>}
    BY <1>1, <1>2, <1>4 DEF Spent, Consumed
  <2>2. \A s \in Spent : s[1] # c
    BY <1>1 DEF Spent, Consumed
  <2>3. ASSUME NEW s \in Spent, SameKey(ReplayKey[s[2]], ReplayKey[r])
        PROVE  Signed[s[2]].expiresAt < clock
    <3>1. PICK d \in Call : Consumed(d) /\ s[2] = input[d].request
      BY DEF Spent
    <3>2. ~Occupied(r)
      BY <1>4 DEF IInv, TypeOK, Insert
    <3>3. Row(s[2]) \notin replay
      BY <2>3, <3>2 DEF Occupied, Row
    <3>. QED
      BY <3>1, <3>3 DEF IInv, Held, Expiry
  <2>4. ASSUME NEW s \in Spent,
               <<s[2], r>> \in {rs \in Request \X Request :
                                  SameKey(ReplayKey[rs[1]], ReplayKey[rs[2]])}
        PROVE  s[2] \in Request /\ Signed[s[2]].expiresAt < clock
    <3>1. s[2] \in Request /\ SameKey(ReplayKey[s[2]], ReplayKey[r])
      BY <2>4
    <3>. QED
      BY <2>3, <3>1
  <2>5. \E t \in Call, q \in Request : Gate!Spend(t, q)
    <3>. r \in Request
      BY <1>1
    <3>. SUFFICES Gate!Spend(c, r)
      BY Zenon DEF Gate!Spend
    <3>. QED
      BY <1>1, <2>1, <2>2, <2>4 DEF Gate!Spend, Spent
  <2>. QED
    BY <2>5
<1>. QED
  BY <1>1, <1>3, <1>4

\* Concurrent verification, the table, its purge and its crashes together keep
\* the promise of the abstract gate.
THEOREM Implementation == Spec => ImplementsGate
<1>1. Init => Gate!Init
  BY DEF Init, Gate!Init, Consumed
<1>2. ASSUME IInv, [Next]_vars
      PROVE  [Gate!Next]_(Gate!gateVars)
  <2>. SUFFICES Gate!Next \/ UNCHANGED <<clock, Spent>>
    BY DEF Gate!gateVars, Spent
  <2>1. CASE UNCHANGED vars
    BY <2>1, SameSpent DEF vars, Consumed
  <2>2. ASSUME NEW c \in Call, Begin(c) \/ FollowParent(c) \/ EndChain(c) \/ Preliminary(c)
                               \/ CheckExpiry(c) \/ Answer(c) \/ Crash(c)
        PROVE  UNCHANGED <<clock, Spent>>
    <3>1. UNCHANGED clock
      BY <2>2 DEF Begin, FollowParent, EndChain, Preliminary, CheckExpiry, Answer, Crash
    <3>2. \A d \in Call : (Consumed(d)' <=> Consumed(d)) /\ (Consumed(d) => input'[d] = input[d])
      <4>1. CASE Begin(c)
        <5>1. ~Consumed(c)
          BY <1>2, <4>1 DEF IInv, Staged, Begin, Consumed
        <5>. QED
          BY <1>2, <4>1, <5>1 DEF Begin, Consumed, IInv, TypeOK
      <4>2. CASE CheckExpiry(c)
        <5>1. ~Consumed(c)
          BY <1>2, <4>2 DEF IInv, Staged, CheckExpiry, Consumed
        <5>. QED
          BY <1>2, <4>2, <5>1 DEF CheckExpiry, Consumed, IInv, TypeOK
      <4>3. CASE FollowParent(c) \/ EndChain(c) \/ Preliminary(c) \/ Answer(c) \/ Crash(c)
        BY <4>3 DEF FollowParent, EndChain, Preliminary, Answer, Crash, Consumed
      <4>. QED
        BY <2>2, <4>1, <4>2, <4>3
    <3>. QED
      BY <3>1, <3>2, SameSpent
  <2>3. ASSUME NEW c \in Call, Insert(c)
        PROVE  Gate!Next \/ UNCHANGED <<clock, Spent>>
    BY <1>2, <2>3, InsertSpends DEF Gate!Next
  <2>4. ASSUME PurgeExpired \/ (\E a \in Artifact : Put(a))
               \/ \E a \in Revocable, lead \in Lead : Publish(a, clock + lead)
        PROVE  UNCHANGED <<clock, Spent>>
    <3>1. UNCHANGED <<clock, outcome, input>>
      BY <2>4 DEF PurgeExpired, Put, Publish, callVars
    <3>. QED
      BY <3>1, SameSpent DEF Consumed
  <2>5. CASE Tick
    <3>1. UNCHANGED <<outcome, input>> /\ clock' = clock + 1
      BY <2>5 DEF Tick, callVars
    <3>2. UNCHANGED Spent
      BY <3>1, SameSpent DEF Consumed
    <3>. QED
      BY <3>1, <3>2 DEF Gate!Next, Gate!Tick, Spent
  <2>. QED
    BY <1>2, <2>1, <2>2, <2>3, <2>4, <2>5 DEF Next, Step
<1>. QED
  BY <1>1, <1>2, Invariance, PTL DEF Spec, ImplementsGate, Gate!Spec

-----------------------------------------------------------------------------
(* Answers and their grounds *)

LEMMA ValidIsSound ==
    ASSUME NEW artifacts, NEW status, NEW t, NEW m, NEW duplicate,
           Verdict(artifacts, status, t, m, duplicate).code = "VALID"
    PROVE  Sound(artifacts, status, t)
BY DEF Verdict

LEMMA DetectedIsDuplicate ==
    ASSUME NEW artifacts, NEW status, NEW t, NEW m, NEW duplicate \in BOOLEAN,
           Verdict(artifacts, status, t, m, duplicate).code = "REPLAY_DETECTED"
    PROVE  duplicate
BY DEF Verdict

Authorising == [code |-> "VALID", replayChecked |-> TRUE]

\* What a call knew and what it was told, at every place it may stand.
Informed(c) ==
    /\ known[c] \subseteq revocations
    /\ pc[c] \in {"consuming", "inserting", "answered", "done"} \/ Consumed(c) =>
         known[c] \subseteq listed[c]
    /\ pc[c] = "done" /\ result[c].code = "VALID" =>
         Sound(gathered[c], listed[c], input[c].now)

\* What its outcome says of its verdict.
Judged(c) ==
    /\ pc[c] \in {"consuming", "inserting"} \/ Consumed(c) => VerdictOf(c, FALSE) = Authorising
    /\ Consumed(c) => pc[c] \in {"answered", "crashed"} \/ Authorised(c)
    /\ pc[c] \in {"answered", "done"} /\ outcome[c] = "expired" => Expiry(c) <= checkedAt[c]
    /\ pc[c] = "answered" => outcome[c] # "none"
    /\ pc[c] = "done" /\ result[c].code = "REPLAY_DETECTED" =>
         ~input[c].mode.hasStore \/ outcome[c] \in {"expired", "duplicate"}

\* A duplicate has an original.
Original(c) ==
    outcome[c] = "duplicate" => \E d \in Call \ {c} : Consumed(d) /\ Clashing(c, d)

\* c put the row there, after every row it clashes with had expired.
Owner(c, row) ==
    /\ Consumed(c)
    /\ Row(input[c].request) = row
    /\ \A d \in Call \ {c} : Consumed(d) /\ Clashing(c, d) => Expiry(d) < insertedAt[c]

JInv ==
    /\ \A c \in Call : Informed(c) /\ Judged(c) /\ Original(c)
    /\ \A row \in replay : \E c \in Call : Owner(c, row)

SameRecord(c) ==
    /\ pc'[c] = pc[c] /\ input'[c] = input[c] /\ gathered'[c] = gathered[c]
    /\ listed'[c] = listed[c] /\ checkedAt'[c] = checkedAt[c] /\ outcome'[c] = outcome[c]
    /\ result'[c] = result[c] /\ insertedAt'[c] = insertedAt[c] /\ known'[c] = known[c]

LEMMA SameRecordJudged ==
    ASSUME NEW c \in Call, SameRecord(c), revocations \subseteq revocations'
    PROVE  Informed(c) /\ Judged(c) => Informed(c)' /\ Judged(c)'
BY DEF SameRecord, Informed, Judged, Consumed, Authorised, Expiry, VerdictOf

\* A consumption lasts, and so do the duplicates and the owners it explains.
LEMMA KeepsOwners ==
    ASSUME JInv, replay' \subseteq replay,
           \A c \in Call : /\ Consumed(c)' <=> Consumed(c)
                           /\ Consumed(c) => input'[c] = input[c] /\ insertedAt'[c] = insertedAt[c]
                           /\ outcome'[c] = "duplicate" =>
                                outcome[c] = "duplicate" /\ input'[c] = input[c]
    PROVE  (\A c \in Call : Original(c)') /\ \A row \in replay' : \E c \in Call : Owner(c, row)'
<1>1. ASSUME NEW c \in Call, outcome'[c] = "duplicate"
      PROVE  \E d \in Call \ {c} : Consumed(d)' /\ Clashing(c, d)'
  <2>1. PICK d \in Call \ {c} : Consumed(d) /\ Clashing(c, d)
    BY <1>1 DEF JInv, Original
  <2>2. Consumed(d)' /\ Clashing(c, d)'
    BY <1>1, <2>1 DEF Clashing
  <2>. QED
    BY <2>2
<1>2. ASSUME NEW row \in replay'
      PROVE  \E c \in Call : Owner(c, row)'
  <2>1. PICK c \in Call : Owner(c, row)
    BY DEF JInv
  <2>2. Consumed(c)' /\ input'[c] = input[c] /\ insertedAt'[c] = insertedAt[c]
    BY <2>1 DEF Owner
  <2>3. ASSUME NEW d \in Call \ {c}, Consumed(d)', Clashing(c, d)'
        PROVE  Expiry(d)' < insertedAt'[c]
    <3>1. Consumed(d) /\ input'[d] = input[d]
      BY <2>3
    <3>2. Clashing(c, d)
      BY <2>2, <2>3, <3>1 DEF Clashing
    <3>3. Expiry(d) < insertedAt[c]
      BY <2>1, <3>1, <3>2 DEF Owner
    <3>. QED
      BY <2>2, <3>1, <3>3 DEF Expiry
  <2>4. Owner(c, row)'
    BY <2>1, <2>2, <2>3 DEF Owner, Row
  <2>. QED
    BY <2>4
<1>. QED
  BY <1>1, <1>2 DEF Original

\* A step of one call other than Insert.
LEMMA JudgedStep ==
    ASSUME JInv, NEW c \in Call, UNCHANGED <<replay, revocations>>,
           Informed(c)' /\ Judged(c)',
           Consumed(c)' <=> Consumed(c),
           Consumed(c) => input'[c] = input[c] /\ insertedAt'[c] = insertedAt[c],
           outcome'[c] = "duplicate" => outcome[c] = "duplicate" /\ input'[c] = input[c],
           \A d \in Call \ {c} : SameRecord(d)
    PROVE  JInv'
<1>1. \A d \in Call \ {c} : Informed(d)' /\ Judged(d)'
  BY SameRecordJudged DEF JInv
<1>2. (\A d \in Call : Original(d)') /\ \A row \in replay' : \E d \in Call : Owner(d, row)'
  BY KeepsOwners DEF SameRecord, Consumed
<1>. QED
  BY <1>1, <1>2 DEF JInv

LEMMA InsertJInv ==
    ASSUME IInv, JInv, NEW c \in Call, Insert(c)
    PROVE  JInv'
<1>. DEFINE r == input[c].request
<1>1. /\ pc[c] = "inserting" /\ outcome[c] = "none" /\ pc'[c] = "answered"
      /\ UNCHANGED <<clock, revocations, input, gathered, listed, checkedAt, result, known>>
      /\ outcome'[c] \in {"consumed", "duplicate"}
  BY DEF IInv, TypeOK, Staged, Insert, Goto
<1>2. \A d \in Call \ {c} : SameRecord(d)
  BY DEF IInv, TypeOK, Insert, Goto, SameRecord
<1>3. ~Consumed(c) /\ \A d \in Call \ {c} : Consumed(d)' <=> Consumed(d)
  BY <1>1, <1>2 DEF Consumed, SameRecord
<1>4. \A d \in Call \ {c} : Informed(d)' /\ Judged(d)'
  BY <1>1, <1>2, SameRecordJudged DEF JInv
<1>5. Informed(c)' /\ Judged(c)'
  BY <1>1 DEF JInv, Informed, Judged, VerdictOf, Consumed, Authorised
<1>6. ASSUME NEW d \in Call, outcome'[d] = "duplicate"
      PROVE  \E e \in Call \ {d} : Consumed(e)' /\ Clashing(d, e)'
  <2>1. CASE d = c
    <3>1. Occupied(r)
      BY <1>6, <2>1 DEF IInv, TypeOK, Insert
    <3>2. PICK row \in replay : SameKey(row.key, ReplayKey[r])
      BY <3>1 DEF Occupied
    <3>3. PICK e \in Call : Owner(e, row)
      BY DEF JInv
    <3>4. e # c /\ Consumed(e)' /\ Clashing(c, e)
      BY <1>3, <3>2, <3>3 DEF Owner, Row, Clashing, SameKey
    <3>. QED
      BY <1>1, <2>1, <3>4 DEF Clashing
  <2>2. CASE d # c
    <3>1. PICK e \in Call \ {d} : Consumed(e) /\ Clashing(d, e)
      BY <1>2, <1>6, <2>2 DEF JInv, Original, SameRecord
    <3>. QED
      BY <1>1, <1>3, <3>1 DEF Clashing
  <2>. QED
    BY <2>1, <2>2
<1>7. ASSUME NEW row \in replay'
      PROVE  \E d \in Call : Owner(d, row)'
  <2>1. CASE row \in replay
    <3>1. PICK d \in Call : Owner(d, row)
      BY <2>1 DEF JInv
    <3>2. d # c /\ Consumed(d)' /\ Row(input[d].request) = row
      BY <1>3, <3>1 DEF Owner
    <3>3. insertedAt'[d] = insertedAt[d]
      BY <1>2, <3>2 DEF SameRecord
    <3>4. ASSUME NEW e \in Call \ {d}, Consumed(e)', Clashing(d, e)
          PROVE  Expiry(e) < insertedAt[d]
      <4>1. CASE e = c
        <5>1. Occupied(r)
          BY <2>1, <3>2, <3>4, <4>1 DEF Occupied, Row, Clashing
        <5>2. outcome'[c] = "duplicate"
          BY <5>1 DEF IInv, TypeOK, Insert
        <5>. QED
          BY <3>4, <4>1, <5>2 DEF Consumed
      <4>2. CASE e # c
        BY <1>3, <3>1, <3>4, <4>2 DEF Owner
      <4>. QED
        BY <4>1, <4>2
    <3>5. Owner(d, row)'
      BY <1>1, <3>2, <3>3, <3>4 DEF Owner, Row, Clashing, Expiry
    <3>. QED
      BY <3>5
  <2>2. CASE row \notin replay
    <3>1. ~Occupied(r) /\ row = Row(r) /\ Consumed(c)' /\ insertedAt'[c] = clock
      BY <2>2 DEF IInv, TypeOK, Insert, Consumed
    <3>2. ASSUME NEW d \in Call \ {c}, Consumed(d), Clashing(c, d)
          PROVE  Expiry(d) < clock
      <4>1. Row(input[d].request) \notin replay
        BY <3>1, <3>2 DEF Occupied, Row, Clashing, SameKey
      <4>. QED
        BY <3>2, <4>1 DEF IInv, Held
    <3>3. Owner(c, row)'
      BY <1>1, <1>3, <3>1, <3>2 DEF Owner, Row, Clashing, Expiry
    <3>. QED
      BY <3>3
  <2>. QED
    BY <2>1, <2>2
<1>. QED
  BY <1>4, <1>5, <1>6, <1>7 DEF JInv, Original

LEMMA StepJInv ==
    ASSUME IInv, JInv, Next
    PROVE  JInv'
<1>0. TypeOK /\ \A c \in Call : Staged(c) /\ Informed(c) /\ Judged(c)
  BY DEF IInv, JInv
<1>1. ASSUME NEW c \in Call, Begin(c) \/ FollowParent(c) \/ EndChain(c)
      PROVE  JInv'
  <2>1. /\ ~Consumed(c) /\ ~Consumed(c)' /\ outcome'[c] = outcome[c] /\ outcome[c] = "none"
        /\ UNCHANGED <<replay, revocations>> /\ pc'[c] \in {"assembling", "listing"}
    BY <1>0, <1>1 DEF TypeOK, Staged, Begin, FollowParent, EndChain, Goto, Consumed
  <2>2. known'[c] \subseteq revocations
    BY <1>0, <1>1 DEF TypeOK, Begin, FollowParent, EndChain, Informed
  <2>3. Informed(c)' /\ Judged(c)'
    BY <2>1, <2>2 DEF Informed, Judged
  <2>4. \A d \in Call \ {c} : SameRecord(d)
    BY <1>0, <1>1 DEF TypeOK, Begin, FollowParent, EndChain, Goto, SameRecord
  <2>. QED
    BY <2>1, <2>3, <2>4, JudgedStep
<1>2. ASSUME NEW c \in Call, Preliminary(c)
      PROVE  JInv'
  <2>. DEFINE verdict(dup) == Verdict(gathered[c], revocations, input[c].now,
                                      input[c].mode, dup)
  <2>1. /\ ~Consumed(c) /\ outcome'[c] = outcome[c] /\ outcome[c] = "none"
        /\ UNCHANGED <<replay, revocations, input, gathered, known, outcome>>
        /\ listed'[c] = revocations /\ pc'[c] \in {"done", "consuming"}
        /\ input[c].mode.replayRequired \in BOOLEAN /\ input[c].mode.online \in BOOLEAN
    BY <1>0, <1>2, BegunInput DEF TypeOK, Staged, Preliminary, Return, Goto, Consumed
  <2>2. Informed(c)' /\ Judged(c)'
    <3>1. CASE pc'[c] = "consuming"
      <4>1. verdict(FALSE).code = "VALID" /\ input[c].mode.replayRequired /\ input[c].mode.online
        BY <1>0, <1>2, <3>1 DEF TypeOK, Preliminary, Return, Goto
      <4>2. verdict(FALSE) = Authorising
        BY <2>1, <4>1 DEF Verdict, Authorising
      <4>3. VerdictOf(c, FALSE)' = Authorising
        BY <2>1, <4>2 DEF VerdictOf
      <4>. QED
        BY <1>0, <2>1, <3>1, <4>3 DEF Informed, Judged, Consumed
    <3>2. CASE pc'[c] = "done"
      <4>1. PICK dup \in BOOLEAN :
              result'[c] = verdict(dup) /\ (dup => ~input[c].mode.hasStore)
        BY <1>0, <1>2, <3>2 DEF TypeOK, Preliminary, Return, Goto
      <4>2. result'[c].code = "VALID" => Sound(gathered[c], revocations, input[c].now)
        BY <4>1, ValidIsSound
      <4>3. result'[c].code = "REPLAY_DETECTED" => ~input[c].mode.hasStore
        BY <4>1, DetectedIsDuplicate
      <4>4. Informed(c)'
        BY <1>0, <2>1, <3>2, <4>2 DEF Informed, Sound, InWindow, Effective
      <4>. QED
        BY <1>0, <2>1, <3>2, <4>3, <4>4 DEF Judged, Consumed
    <3>. QED
      BY <2>1, <3>1, <3>2
  <2>3. \A d \in Call \ {c} : SameRecord(d)
    BY <1>0, <1>2 DEF TypeOK, Preliminary, Return, Goto, SameRecord
  <2>. QED
    BY <2>1, <2>2, <2>3, JudgedStep DEF Consumed
<1>3. ASSUME NEW c \in Call, CheckExpiry(c)
      PROVE  JInv'
  <2>1. /\ ~Consumed(c) /\ ~Consumed(c)' /\ outcome[c] = "none"
        /\ outcome'[c] \in {"none", "expired"}
        /\ UNCHANGED <<replay, revocations, input, gathered, listed, known>>
        /\ pc[c] = "consuming" /\ pc'[c] \in {"inserting", "answered"}
        /\ pc'[c] = "answered" => outcome'[c] = "expired" /\ Expiry(c) <= clock
        /\ checkedAt'[c] = clock
    BY <1>0, <1>3 DEF TypeOK, Staged, CheckExpiry, Goto, Consumed, Expiry
  <2>2. Informed(c)' /\ Judged(c)'
    BY <1>0, <2>1 DEF Informed, Judged, VerdictOf, Consumed, Expiry
  <2>3. \A d \in Call \ {c} : SameRecord(d)
    BY <1>0, <1>3 DEF TypeOK, CheckExpiry, Goto, SameRecord
  <2>. QED
    BY <2>1, <2>2, <2>3, JudgedStep
<1>4. ASSUME NEW c \in Call, Answer(c)
      PROVE  JInv'
  <2>1. /\ UNCHANGED <<replay, revocations, input, gathered, listed, known, outcome,
                       checkedAt, insertedAt>>
        /\ pc[c] = "answered" /\ pc'[c] = "done" /\ outcome[c] # "none"
        /\ result'[c] = VerdictOf(c, outcome[c] # "consumed")
    BY <1>0, <1>4 DEF TypeOK, Answer, Return, Goto, Judged
  <2>2. result'[c].code = "VALID" => Sound(gathered[c], listed[c], input[c].now)
    BY <2>1, ValidIsSound DEF VerdictOf
  <2>3. result'[c].code = "REPLAY_DETECTED" => outcome[c] \in {"expired", "duplicate"}
    <3>1. result'[c].code = "REPLAY_DETECTED" => outcome[c] # "consumed"
      BY <2>1, DetectedIsDuplicate DEF VerdictOf
    <3>. QED
      BY <1>0, <2>1, <3>1 DEF TypeOK
  <2>4. Consumed(c) => Authorised(c)'
    <3>1. ASSUME Consumed(c)
          PROVE  result'[c] = Authorising
      <4>1. (outcome[c] # "consumed") = FALSE
        BY <3>1 DEF Consumed
      <4>. QED
        BY <1>0, <2>1, <3>1, <4>1 DEF Judged
    <3>. QED
      BY <2>1, <3>1 DEF Authorised, Authorising
  <2>5. Informed(c)'
    BY <1>0, <2>1, <2>2 DEF Informed, Sound, InWindow, Effective
  <2>6. Judged(c)'
    BY <1>0, <2>1, <2>3, <2>4 DEF Judged, VerdictOf, Consumed, Expiry
  <2>7. \A d \in Call \ {c} : SameRecord(d)
    BY <1>0, <1>4 DEF TypeOK, Answer, Return, Goto, SameRecord
  <2>. QED
    BY <2>1, <2>5, <2>6, <2>7, JudgedStep DEF Consumed
<1>5. ASSUME NEW c \in Call, Crash(c)
      PROVE  JInv'
  <2>1. /\ UNCHANGED <<replay, revocations, input, outcome, result, insertedAt>>
        /\ pc'[c] = "crashed"
        /\ pc[c] # "done"
    BY <1>0, <1>5 DEF TypeOK, Crash, Goto
  <2>2. CASE Consumed(c)
    <3>1. UNCHANGED <<gathered, listed, known, checkedAt>>
      BY <1>5, <2>2 DEF Crash, Consumed
    <3>. QED
      <4>1. Informed(c)' /\ Judged(c)'
        BY <1>0, <2>1, <2>2, <3>1 DEF Informed, Judged, VerdictOf, Consumed
      <4>2. \A d \in Call \ {c} : SameRecord(d)
        BY <1>0, <1>5, <2>1, <3>1 DEF TypeOK, Crash, Goto, SameRecord
      <4>. QED
        BY <2>1, <4>1, <4>2, JudgedStep DEF Consumed
  <2>3. CASE ~Consumed(c)
    <3>1. known'[c] = {}
      BY <1>0, <1>5, <2>3 DEF TypeOK, Crash, Consumed
    <3>2. Informed(c)' /\ Judged(c)'
      BY <2>1, <2>3, <3>1 DEF Informed, Judged, Consumed
    <3>3. \A d \in Call \ {c} : SameRecord(d)
      BY <1>0, <1>5 DEF TypeOK, Crash, Goto, SameRecord
    <3>. QED
      BY <2>1, <2>3, <3>2, <3>3, JudgedStep DEF Consumed
  <2>. QED
    BY <2>2, <2>3
<1>6. ASSUME UNCHANGED callVars, replay' \subseteq replay, revocations \subseteq revocations'
      PROVE  JInv'
  <2>1. \A c \in Call : SameRecord(c)
    BY <1>6 DEF callVars, SameRecord
  <2>2. \A c \in Call : Informed(c)' /\ Judged(c)'
    BY <1>0, <1>6, <2>1, SameRecordJudged
  <2>. QED
    BY <1>6, <2>1, <2>2, KeepsOwners DEF JInv, SameRecord, Consumed
<1>7. CASE PurgeExpired
  BY <1>6, <1>7 DEF PurgeExpired
<1>8. ASSUME NEW a \in Artifact, Put(a)
      PROVE  JInv'
  BY <1>6, <1>8 DEF Put
<1>9. ASSUME NEW a \in Revocable, NEW lead \in Lead, Publish(a, clock + lead)
      PROVE  JInv'
  BY <1>6, <1>9 DEF Publish
<1>10. CASE Tick
  BY <1>6, <1>10 DEF Tick
<1>. QED
  BY <1>1, <1>2, <1>3, <1>4, <1>5, <1>7, <1>8, <1>9, <1>10, InsertJInv DEF Next, Step

LEMMA JudgementInvariance == Spec => [](IInv /\ JInv)
<1>1. Init => JInv
  BY DEF Init, JInv, Informed, Judged, Original, Consumed, NoResult
<1>2. IInv /\ JInv /\ [Next]_vars => JInv'
  <2>1. ASSUME JInv, UNCHANGED vars
        PROVE  JInv'
    <3>1. \A c \in Call : SameRecord(c)
      BY <2>1 DEF vars, SameRecord
    <3>2. \A c \in Call : Informed(c)' /\ Judged(c)'
      BY <2>1, <3>1, SameRecordJudged DEF JInv, vars
    <3>. QED
      BY <2>1, <3>1, <3>2, KeepsOwners DEF JInv, SameRecord, Consumed, vars
  <2>. QED
    BY <2>1, StepJInv
<1>. QED
  BY <1>1, <1>2, Invariance, PTL DEF Spec

\* A revocation published and in force before a call began is never missed.
THEOREM RevocationAlwaysRespected == Spec => []RevocationRespected
<1>1. JInv => RevocationRespected
  BY DEF JInv, Informed, RevocationRespected, Sound, Effective
<1>. QED
  BY <1>1, JudgementInvariance, PTL

\* A request is called replayed only for want of a store, after it expired, or
\* because another call consumed one of its keys.
THEOREM RejectionAlwaysJustified == Spec => []RejectionJustified
<1>1. JInv => RejectionJustified
  BY DEF JInv, Judged, Original, RejectionJustified, Expiry
<1>. QED
  BY <1>1, JudgementInvariance, PTL

\* Every row is some call's, which had passed every other stage and answers
\* VALID unless it dies: no verification burns a key and rejects the request.
THEOREM BurnedKeyAlwaysAccounted == Spec => []BurnedKeyAccounted
<1>1. JInv => BurnedKeyAccounted
  BY DEF JInv, Judged, Owner, BurnedKeyAccounted, Authorising, Expiry
<1>. QED
  BY <1>1, JudgementInvariance, PTL
=============================================================================
