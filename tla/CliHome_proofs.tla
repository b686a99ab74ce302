--------------------------- MODULE CliHome_proofs ---------------------------
(***************************************************************************)
(* Proofs about CliHome, for any commands, identities and migrations.      *)
(***************************************************************************)
EXTENDS CliHome, TLAPS

Content == [state : {"absent", "torn", "whole"}, anchors : SUBSET Identity]

Operation == {"none", "init", "inspect", "identity", "trust", "sign", "verify"}

AnyCommand ==
    [op : Operation, of : Identity \cup Artifact \cup {"none", "product"}, force : BOOLEAN]

Label == {"idle", "start", "issuerKey", "subjectKey", "identity", "evidence",
          "open", "fill", "database", "migrate"}

TypeInv ==
    /\ files \in [File -> Content]
    /\ schema \in Seq(Nat)
    /\ rows \subseteq Artifact
    /\ pc \in [Proc -> Label]
    /\ cmd \in [Proc -> AnyCommand]
    /\ target \in [Proc -> File \cup {"none"}]
    /\ held \in [Proc -> SUBSET Identity]
    /\ applied \in [Proc -> Nat]
    /\ kept \subseteq Identity
    /\ raced \in BOOLEAN

\* Where a command can stand, and what it writes there.
Writing(p) == pc[p] \in {"open", "fill"}

Stands(p) ==
    CASE cmd[p].op = "none" -> pc[p] = "idle"
      [] cmd[p].op = "init" ->
            /\ pc[p] \in {"start", "open", "fill"}
            /\ Writing(p) => target[p] \in {"config", "product"}
      [] cmd[p].op = "identity" ->
            /\ cmd[p].of \in Identity
            /\ pc[p] \in {"start", "issuerKey", "subjectKey", "open", "fill"}
            /\ Writing(p) => target[p] = cmd[p].of
      [] cmd[p].op = "trust" ->
            /\ cmd[p].of \in Identity
            /\ pc[p] \in {"start", "identity", "open", "fill"}
            /\ Writing(p) => target[p] = "config"
      [] cmd[p].op = "sign" ->
            /\ cmd[p].of \in Artifact
            /\ pc[p] \in {"start", "evidence", "open", "fill", "database", "migrate"}
            /\ Writing(p) => target[p] = cmd[p].of
      [] OTHER -> pc[p] \in {"start", "database", "migrate"}

TInv == TypeInv /\ \A p \in Proc : Stands(p)

LEMMA ContentTypes ==
    /\ Absent \in Content /\ Torn \in Content
    /\ \A s \in SUBSET Identity : Whole(s) \in Content
BY DEF Absent, Torn, Whole, Content

LEMMA NoCommandType == NoCommand \in AnyCommand
BY DEF NoCommand, AnyCommand, Operation

LEMMA CommandTypes ==
    ASSUME NEW c \in Command
    PROVE  /\ c \in AnyCommand /\ c.op # "none"
           /\ c.op \in {"identity", "trust"} => c.of \in Identity
           /\ c.op = "sign" => c.of \in Artifact
           /\ c.op = "trust" => c.force = FALSE
           /\ c.op = "identity" => FreshIdentity(c.of)
           /\ c.op = "sign" /\ c.of \in Request => FreshRequest(c.of)
<1>. USE DEF Run, AnyCommand, Operation, Artifact
<1>1. CASE c \in {Run("init", "product"), [op |-> "init", of |-> "product", force |-> TRUE],
                  Run("inspect", "none")}
  <2>1. c \in AnyCommand
    <3>1. \A op \in Operation, of \in {"product", "none"}, force \in BOOLEAN :
             [op |-> op, of |-> of, force |-> force] \in AnyCommand
      OBVIOUS
    <3>2. Run("init", "product") \in AnyCommand /\ Run("inspect", "none") \in AnyCommand
      BY <3>1
    <3>3. [op |-> "init", of |-> "product", force |-> TRUE] \in AnyCommand
      BY <3>1
    <3>. QED
      BY <1>1, <3>2, <3>3
  <2>2. c.op \in {"init", "inspect"}
    BY <1>1
  <2>. QED
    BY <2>1, <2>2
<1>2. CASE c \in {Run("identity", i) : i \in {j \in Identity : FreshIdentity(j)}}
  <2>1. PICK i \in Identity : FreshIdentity(i) /\ c = Run("identity", i)
    BY <1>2
  <2>2. c.op = "identity" /\ c.of = i /\ c.force = FALSE /\ FreshIdentity(c.of)
    BY <2>1
  <2>. QED
    BY <2>1, <2>2
<1>3. CASE c \in {Run("trust", i) : i \in Identity}
  <2>1. PICK i \in Identity : c = Run("trust", i)
    BY <1>3
  <2>2. c.op = "trust" /\ c.of = i /\ c.force = FALSE /\ c \in AnyCommand
    BY <2>1
  <2>. QED
    BY <2>1, <2>2
<1>4. CASE c \in {Run("sign", a) : a \in Delegation \cup {r \in Request : FreshRequest(r)}}
  <2>1. PICK a \in Artifact : c = Run("sign", a) /\ (a \in Request => FreshRequest(a))
    BY <1>4, HomeAssumption
  <2>2. c.op = "sign" /\ c.of = a /\ c.force = FALSE /\ (c.of \in Request => FreshRequest(c.of))
    BY <2>1
  <2>. QED
    BY <2>1, <2>2
<1>5. CASE c \in {Run("verify", a) : a \in Artifact}
  <2>1. PICK a \in Artifact : c = Run("verify", a)
    BY <1>5
  <2>2. c.op = "verify" /\ c.of = a /\ c \in AnyCommand
    BY <2>1
  <2>. QED
    BY <2>1, <2>2
<1>. QED
  BY <1>1, <1>2, <1>3, <1>4, <1>5 DEF Command

LEMMA OverlaidIn ==
    ASSUME NEW old \in Content, NEW new \in Content, NEW c \in Overlaid(old, new)
    PROVE  c \in Content /\ c \in {new, Torn}
BY ContentTypes DEF Overlaid

LEMMA EndTypes ==
    ASSUME TypeInv, NEW p \in Proc, End(p)
    PROVE  /\ pc' \in [Proc -> Label] /\ cmd' \in [Proc -> AnyCommand]
           /\ target' \in [Proc -> File \cup {"none"}]
           /\ held' \in [Proc -> SUBSET Identity] /\ applied' \in [Proc -> Nat]
           /\ cmd'[p].op = "none" /\ pc'[p] = "idle"
           /\ cmd'[p].of = "none"
           /\ \A q \in Proc \ {p} :
                 /\ pc'[q] = pc[q] /\ cmd'[q] = cmd[q] /\ target'[q] = target[q]
                 /\ held'[q] = held[q] /\ applied'[q] = applied[q]
           /\ applied'[p] = 0
BY NoCommandType DEF End, Goto, TypeInv, Label, NoCommand

\* A step of one command leaves what the others know alone.
Others(p) ==
    \A q \in Proc \ {p} :
        /\ pc'[q] = pc[q] /\ cmd'[q] = cmd[q] /\ target'[q] = target[q]
        /\ held'[q] = held[q] /\ applied'[q] = applied[q]

LocalTypes ==
    /\ pc \in [Proc -> Label] /\ cmd \in [Proc -> AnyCommand]
    /\ target \in [Proc -> File \cup {"none"}]
    /\ held \in [Proc -> SUBSET Identity] /\ applied \in [Proc -> Nat]

LEMMA StandsOthers ==
    ASSUME NEW p \in Proc, Others(p), \A q \in Proc : Stands(q), Stands(p)'
    PROVE  (\A q \in Proc : Stands(q))'
BY DEF Others, Stands, Writing

\* The command stays what it is and moves to another label.
LEMMA MoveTypes ==
    ASSUME LocalTypes, NEW p \in Proc, NEW label \in Label, Goto(p, label), UNCHANGED locals
    PROVE  LocalTypes' /\ Others(p) /\ pc'[p] = label
BY DEF LocalTypes, Goto, Others, locals

LEMMA WriteTypes ==
    ASSUME LocalTypes, NEW p \in Proc, NEW f \in File, Write(p, f), UNCHANGED <<cmd, held, applied>>
    PROVE  LocalTypes' /\ Others(p) /\ pc'[p] = "open" /\ target'[p] = f /\ cmd'[p] = cmd[p]
BY DEF LocalTypes, Goto, Write, Others, Label

LEMMA StepLocals ==
    ASSUME TInv, NEW p \in Proc, Begin(p) \/ Stop(p) \/ Step(p)
    PROVE  LocalTypes' /\ (\A q \in Proc : Stands(q))' /\ Others(p)
<1>0. LocalTypes /\ Stands(p)
  BY DEF TInv, TypeInv, LocalTypes
<1>1. SUFFICES LocalTypes' /\ Stands(p)' /\ Others(p)
  BY StandsOthers DEF TInv
<1>2. ASSUME End(p)
      PROVE  LocalTypes' /\ Stands(p)' /\ Others(p)
  BY <1>2, EndTypes DEF LocalTypes, Others, Stands, TInv
<1>3. ASSUME NEW f \in File, Write(p, f), UNCHANGED <<cmd, held, applied>>,
             \/ cmd[p].op = "init" /\ f \in {"config", "product"}
             \/ cmd[p].op \in {"identity", "sign"} /\ f = cmd[p].of
             \/ cmd[p].op = "trust" /\ f = "config"
      PROVE  LocalTypes' /\ Stands(p)' /\ Others(p)
  BY <1>0, <1>3, WriteTypes DEF Stands, Writing
<1>4. ASSUME NEW label \in Label, Goto(p, label), UNCHANGED locals,
             \/ cmd[p].op = "identity" /\ label \in {"issuerKey", "subjectKey"}
             \/ cmd[p].op = "sign" /\ label \in {"evidence", "database", "migrate"}
             \/ cmd[p].op \in {"verify", "inspect"} /\ label \in {"database", "migrate"}
      PROVE  LocalTypes' /\ Stands(p)' /\ Others(p)
  <2>1. LocalTypes' /\ Others(p) /\ pc'[p] = label /\ cmd'[p] = cmd[p]
    BY <1>0, <1>4, MoveTypes DEF locals
  <2>. QED
    BY <1>0, <1>4, <2>1 DEF Stands, Writing
<1>5. CASE Begin(p)
  <2>1. PICK c \in Command : cmd' = [cmd EXCEPT ![p] = c]
    BY <1>5 DEF Begin
  <2>2. /\ c \in AnyCommand /\ c.op # "none"
        /\ c.op \in {"identity", "trust"} => c.of \in Identity
        /\ c.op = "sign" => c.of \in Artifact
    BY CommandTypes
  <2>3. LocalTypes' /\ Others(p) /\ pc'[p] = "start" /\ cmd'[p] = c
    BY <1>0, <1>5, <2>1, <2>2 DEF Begin, Goto, LocalTypes, Label, Others
  <2>. QED
    BY <2>2, <2>3 DEF Stands, Writing
<1>6. CASE Stop(p)
  BY <1>2, <1>6 DEF Stop
<1>7. CASE Open(p)
  <2>1. LocalTypes' /\ Others(p) /\ pc'[p] = "fill" /\ UNCHANGED locals
    BY <1>0, <1>7, MoveTypes DEF Open, Label
  <2>. QED
    BY <1>0, <1>7, <2>1 DEF Open, Stands, Writing, locals
<1>8. CASE Fill(p)
  <2>1. CASE cmd[p].op = "init" /\ target[p] = "product"
    BY <1>3, <1>8, <2>1 DEF Fill, File
  <2>2. CASE cmd[p].op = "sign"
    BY <1>4, <1>8, <2>2 DEF Fill, Label
  <2>3. CASE cmd[p].op # "sign" /\ ~(cmd[p].op = "init" /\ target[p] = "product")
    BY <1>2, <1>8, <2>3 DEF Fill
  <2>. QED
    BY <2>1, <2>2, <2>3
<1>9. CASE Initialise(p)
  BY <1>2, <1>3, <1>9 DEF Initialise, At, File
<1>10. CASE CreateIdentity(p)
  BY <1>2, <1>4, <1>10 DEF CreateIdentity, At, Label
<1>11. CASE Seal(p)
  BY <1>0, <1>11 DEF Seal, locals, LocalTypes, Others, Stands, Writing
<1>12. CASE Rename(p)
  <2>1. cmd[p].op = "identity" /\ cmd[p].of \in File
    BY <1>0, <1>12 DEF Rename, Stands, File, LocalTypes, AnyCommand, Operation
  <2>2. CASE pc[p] = "issuerKey"
    BY <1>4, <1>12, <2>1, <2>2 DEF Rename, Label, locals
  <2>3. CASE pc[p] # "issuerKey"
    BY <1>3, <1>12, <2>1, <2>3 DEF Rename
  <2>. QED
    BY <2>2, <2>3
<1>13. CASE ReadAnchors(p)
  <2>1. CASE Readable("config")
    <3>1. LocalTypes' /\ Others(p) /\ pc'[p] = "identity" /\ cmd' = cmd
      <4>1. files["config"].anchors \in SUBSET Identity
        BY DEF TInv, TypeInv, File, Content
      <4>. QED
        BY <1>0, <1>13, <2>1, <4>1 DEF ReadAnchors, Goto, LocalTypes, Label, Others
    <3>. QED
      BY <1>0, <1>13, <3>1 DEF ReadAnchors, At, Stands, Writing
  <2>. QED
    BY <1>2, <1>13, <2>1 DEF ReadAnchors
<1>14. CASE AddAnchor(p)
  BY <1>2, <1>3, <1>14 DEF AddAnchor, At, File
<1>15. CASE ReadConfig(p)
  BY <1>2, <1>4, <1>15 DEF ReadConfig, At, Label
<1>16. CASE SignArtifact(p)
  <2>1. cmd[p].of \in File
    BY <1>0, <1>16 DEF SignArtifact, At, Stands, File
  <2>. QED
    BY <1>2, <1>3, <1>16, <2>1 DEF SignArtifact, At
<1>17. CASE StartReading(p)
  BY <1>2, <1>4, <1>17 DEF StartReading, Label
<1>18. CASE Connect(p)
  <2>1. CASE Len(schema) <= Migrations /\ \A n \in DOMAIN schema : schema[n] = n
    <3>1. Len(schema) \in Nat
      BY DEF TInv, TypeInv
    <3>2. LocalTypes' /\ Others(p) /\ pc'[p] = "migrate" /\ cmd' = cmd
      BY <1>0, <1>18, <2>1, <3>1 DEF Connect, Goto, LocalTypes, Label, Others
    <3>. QED
      BY <1>0, <1>18, <3>2 DEF Connect, Stands, Writing
  <2>. QED
    BY <1>2, <1>18, <2>1 DEF Connect
<1>19. CASE Migrate(p)
  <2>1. CASE \E n \in DOMAIN schema : schema[n] = Due(p)
    BY <1>2, <1>19, <2>1 DEF Migrate
  <2>2. CASE ~\E n \in DOMAIN schema : schema[n] = Due(p)
    <3>1. Due(p) \in Nat
      BY <1>0 DEF Due, LocalTypes
    <3>. QED
      BY <1>0, <1>19, <2>2, <3>1 DEF Migrate, LocalTypes, Others, Stands, Writing
  <2>. QED
    BY <2>1, <2>2
<1>20. CASE Finish(p)
  BY <1>2, <1>20 DEF Finish
<1>. QED
  BY <1>5, <1>6, <1>7, <1>8, <1>9, <1>10, <1>11, <1>12, <1>13, <1>14, <1>15, <1>16,
     <1>17, <1>18, <1>19, <1>20 DEF Step

\* What a command writes is a file.
LEMMA WritesFile ==
    ASSUME TInv, NEW p \in Proc, Writing(p)
    PROVE  target[p] \in File
BY DEF TInv, TypeInv, Stands, Writing, File, AnyCommand

LEMMA WrittenType ==
    ASSUME TInv, NEW p \in Proc
    PROVE  Written(p) \in Content /\ Written(p).state = "whole"
<1>1. Stands(p) /\ held[p] \subseteq Identity /\ cmd[p] \in AnyCommand
  BY DEF TInv, TypeInv
<1>2. CASE target[p] = "config" /\ cmd[p].op = "trust"
  <2>1. held[p] \cup {cmd[p].of} \subseteq Identity
    BY <1>1, <1>2 DEF Stands
  <2>. QED
    BY <1>2, <2>1 DEF Written, Whole, Content
<1>3. CASE ~(target[p] = "config" /\ cmd[p].op = "trust")
  BY <1>3 DEF Written, Whole, Content
<1>. QED
  BY <1>2, <1>3

LEMMA FillWrites ==
    ASSUME TInv, NEW p \in Proc, Fill(p)
    PROVE  \E c \in Content :
              /\ files' = [files EXCEPT ![target[p]] = c]
              /\ c \in {Written(p), Torn}
              /\ files[target[p]].state # "whole" => c = Written(p)
<1>1. target[p] \in File
  BY WritesFile DEF Fill, Writing
<1>2. files[target[p]] \in Content /\ Written(p) \in Content
  BY <1>1, WrittenType DEF TInv, TypeInv
<1>3. PICK c \in Overlaid(files[target[p]], Written(p)) : files' = [files EXCEPT ![target[p]] = c]
  BY DEF Fill
<1>4. files[target[p]].state # "whole" => c = Written(p)
  BY <1>3 DEF Overlaid
<1>. QED
  BY <1>2, <1>3, <1>4, OverlaidIn

LEMMA StepTInv ==
    ASSUME TInv, [Next]_vars
    PROVE  TInv'
<1>1. CASE UNCHANGED vars
  BY <1>1 DEF TInv, TypeInv, Stands, Writing, vars, disk, locals, ghosts
<1>2. ASSUME NEW p \in Proc, Begin(p) \/ Stop(p) \/ Step(p)
      PROVE  TInv'
  <2>1. LocalTypes' /\ (\A q \in Proc : Stands(q))'
    BY <1>2, StepLocals
  <2>2. files' \in [File -> Content] /\ schema' \in Seq(Nat) /\ rows' \subseteq Artifact
        /\ kept' \subseteq Identity /\ raced' \in BOOLEAN
    <3>. USE DEF TInv, TypeInv
    <3>1. CASE Open(p)
      BY <3>1, ContentTypes DEF Open, ghosts
    <3>2. CASE Fill(p)
      <4>1. files' \in [File -> Content]
        BY <3>2, FillWrites
      <4>2. kept' \subseteq Identity /\ raced' \in BOOLEAN
        <5>1. Stands(p)
          OBVIOUS
        <5>2. CASE target[p] # "config"
          BY <3>2, <5>2 DEF Fill, ghosts
        <5>3. CASE target[p] = "config"
          <6>1. cmd[p].op = "trust" => cmd[p].of \in Identity
            BY <5>1 DEF Stands
          <6>2. kept' = kept \/ kept' = {} \/ (cmd[p].op = "trust" /\ kept' = kept \cup {cmd[p].of})
            BY <3>2, <5>3 DEF Fill
          <6>3. kept' \subseteq Identity
            BY <6>1, <6>2
          <6>4. raced' = (Racing(p) \/ files'["config"] = Torn \/ (raced /\ ~cmd[p].force))
            BY <3>2, <5>3 DEF Fill
          <6>5. raced' \in BOOLEAN
            BY <6>4
          <6>. QED
            BY <6>3, <6>5
        <5>. QED
          BY <5>2, <5>3
      <4>. QED
        BY <3>2, <4>1, <4>2 DEF Fill
    <3>3. CASE Migrate(p)
      <4>1. Due(p) \in Nat
        BY DEF Due
      <4>2. schema' = schema \/ schema' = Append(schema, Due(p))
        BY <3>3 DEF Migrate, disk
      <4>3. files' = files /\ rows' = rows
        BY <3>3 DEF Migrate, disk
      <4>4. kept' = kept /\ raced' = raced
        BY <3>3 DEF Migrate, ghosts
      <4>5. schema' \in Seq(Nat)
        <5>1. schema \in Seq(Nat)
          OBVIOUS
        <5>. HIDE DEF TInv, TypeInv
        <5>2. CASE schema' = Append(schema, Due(p))
          BY <4>1, <5>1, <5>2
        <5>. QED
          BY <4>2, <5>1, <5>2
      <4>. QED
        BY <4>3, <4>4, <4>5
    <3>4. CASE Finish(p)
      <4>1. cmd[p].op = "sign" => cmd[p].of \in Artifact
        BY DEF Stands
      <4>. QED
        BY <3>4, <4>1 DEF Finish, ghosts
    <3>5. CASE Begin(p) \/ Stop(p)
      BY <3>5 DEF Begin, Stop, disk, ghosts
    <3>6. CASE Seal(p) \/ Rename(p)
      BY <3>6 DEF Seal, Rename, ghosts
    <3>7. CASE \/ Initialise(p) \/ CreateIdentity(p) \/ ReadAnchors(p) \/ AddAnchor(p)
               \/ ReadConfig(p) \/ SignArtifact(p) \/ StartReading(p) \/ Connect(p)
      <4>1. UNCHANGED disk /\ UNCHANGED ghosts
        BY <3>7 DEF Initialise, CreateIdentity, ReadAnchors, AddAnchor, ReadConfig,
                    SignArtifact, StartReading, Connect
      <4>. QED
        BY <4>1 DEF disk, ghosts
    <3>. QED
      BY <1>2, <3>1, <3>2, <3>3, <3>4, <3>5, <3>6, <3>7 DEF Step
  <2>. QED
    BY <2>1, <2>2 DEF TInv, TypeInv, LocalTypes
<1>. QED
  BY <1>1, <1>2 DEF Next

LEMMA TypeInvariance == Spec => []TInv
<1>1. ASSUME Init
      PROVE  TInv
  <2>1. TypeInv
    <3>1. files \in [File -> Content] /\ cmd \in [Proc -> AnyCommand]
      BY <1>1, ContentTypes, NoCommandType DEF Init
    <3>2. schema \in Seq(Nat)
      BY <1>1 DEF Init
    <3>. QED
      BY <1>1, <3>1, <3>2 DEF Init, TypeInv, Label
  <2>2. \A p \in Proc : cmd[p].op = "none" /\ pc[p] = "idle"
    BY <1>1 DEF Init, NoCommand
  <2>. QED
    BY <2>1, <2>2 DEF TInv, Stands
<1>. QED
  BY <1>1, StepTInv, PTL DEF Spec

-----------------------------------------------------------------------------
(* Migrations *)

SchemaInv ==
    /\ Len(schema) <= Migrations
    /\ \A n \in 1 .. Len(schema) : schema[n] = n
    /\ \A p \in Proc : applied[p] <= Len(schema)
    /\ rows # {} => Len(schema) = Migrations

\* Steps that leave the schema and the rows alone.
LEMMA SchemaQuiet ==
    ASSUME TInv, SchemaInv, NEW p \in Proc, Others(p), UNCHANGED <<schema, rows>>,
           applied'[p] \in {0, Len(schema), applied[p]}
    PROVE  SchemaInv'
<1>1. Len(schema) \in Nat /\ applied \in [Proc -> Nat]
  BY DEF TInv, TypeInv
<1>2. applied'[p] <= Len(schema)
  BY <1>1 DEF SchemaInv
<1>. QED
  BY <1>2 DEF SchemaInv, Others

LEMMA StepSchemaInv ==
    ASSUME TInv, SchemaInv, NEW p \in Proc, Begin(p) \/ Stop(p) \/ Step(p)
    PROVE  SchemaInv'
<1>0. /\ Others(p) /\ schema \in Seq(Nat) /\ Len(schema) \in Nat
      /\ applied \in [Proc -> Nat] /\ applied[p] \in Nat
  BY StepLocals DEF TInv, TypeInv
<1>1. ASSUME End(p)
      PROVE  applied'[p] = 0
  BY <1>1, EndTypes DEF TInv
<1>2. CASE Begin(p) \/ Stop(p)
  BY <1>0, <1>1, <1>2, SchemaQuiet DEF Begin, Stop, disk
<1>3. CASE Open(p) \/ Seal(p) \/ Rename(p)
  BY <1>0, <1>3, SchemaQuiet DEF Open, Seal, Rename, locals
<1>4. CASE Fill(p)
  BY <1>0, <1>1, <1>4, SchemaQuiet DEF Fill, locals
<1>5. CASE \/ Initialise(p) \/ CreateIdentity(p) \/ ReadAnchors(p) \/ AddAnchor(p)
           \/ ReadConfig(p) \/ SignArtifact(p) \/ StartReading(p)
  <2>1. UNCHANGED <<schema, rows>>
    BY <1>5 DEF Initialise, CreateIdentity, ReadAnchors, AddAnchor, ReadConfig,
                SignArtifact, StartReading, disk
  <2>2. End(p) \/ applied' = applied
    BY <1>5 DEF Initialise, CreateIdentity, ReadAnchors, AddAnchor, ReadConfig,
                SignArtifact, StartReading, locals
  <2>. QED
    BY <1>0, <1>1, <2>1, <2>2, SchemaQuiet
<1>6. CASE Connect(p)
  <2>1. UNCHANGED <<schema, rows>>
    BY <1>6 DEF Connect, disk
  <2>2. applied'[p] \in {0, Len(schema)}
    BY <1>0, <1>1, <1>6 DEF Connect
  <2>. QED
    BY <1>0, <2>1, <2>2, SchemaQuiet
<1>7. CASE Migrate(p)
  <2>1. CASE End(p) /\ UNCHANGED disk
    BY <1>0, <1>1, <2>1, SchemaQuiet DEF disk
  <2>2. CASE ~\E n \in DOMAIN schema : schema[n] = Due(p)
    <3>1. /\ schema' = Append(schema, Due(p)) /\ applied' = [applied EXCEPT ![p] = Due(p)]
          /\ rows' = rows /\ applied[p] < Migrations
      BY <1>7, <2>2 DEF Migrate
    <3>2. Due(p) = applied[p] + 1 /\ Due(p) \in Nat
      BY <1>0 DEF Due
    <3>3. Due(p) = Len(schema) + 1
      <4>1. applied[p] <= Len(schema)
        BY DEF SchemaInv
      <4>2. ASSUME Due(p) <= Len(schema)
            PROVE  FALSE
        <5>1. Due(p) \in 1 .. Len(schema) /\ DOMAIN schema = 1 .. Len(schema)
          BY <1>0, <3>2, <4>2
        <5>. QED
          BY <2>2, <5>1 DEF SchemaInv
      <4>. QED
        BY <1>0, <3>2, <4>1, <4>2
    <3>4. Len(schema') = Len(schema) + 1
          /\ \A n \in 1 .. Len(schema') : schema'[n] = n
      BY <1>0, <3>1, <3>2, <3>3 DEF SchemaInv
    <3>5. Len(schema') <= Migrations /\ Migrations \in Nat
      BY <1>0, <3>1, <3>2, <3>3, <3>4, HomeAssumption
    <3>6. rows' = {}
      BY <1>0, <3>1, <3>4, <3>5 DEF SchemaInv
    <3>7. \A q \in Proc : applied'[q] <= Len(schema')
      BY <1>0, <3>1, <3>2, <3>3, <3>4 DEF SchemaInv
    <3>. QED
      BY <3>4, <3>5, <3>6, <3>7 DEF SchemaInv
  <2>. QED
    BY <1>7, <2>1, <2>2 DEF Migrate
<1>8. CASE Finish(p)
  <2>1. schema' = schema /\ applied[p] = Migrations /\ applied'[p] = 0
    BY <1>1, <1>8 DEF Finish
  <2>2. Len(schema) = Migrations
    BY <1>0, <2>1, HomeAssumption DEF SchemaInv
  <2>3. \A q \in Proc : applied'[q] <= Len(schema)
    BY <1>0, <2>1 DEF SchemaInv, Others
  <2>. QED
    BY <2>1, <2>2, <2>3 DEF SchemaInv
<1>. QED
  BY <1>2, <1>3, <1>4, <1>5, <1>6, <1>7, <1>8 DEF Step

\* However many commands open the file, the migrations committed are a prefix
\* of the program's, each once, and no row is under less than all of them.
THEOREM SchemaIsAlwaysPrefix == Spec => []SchemaIsPrefix
<1>1. Init => SchemaInv
  BY HomeAssumption DEF Init, SchemaInv
<1>2. TInv /\ SchemaInv /\ [Next]_vars => SchemaInv'
  <2>1. ASSUME SchemaInv, UNCHANGED vars
        PROVE  SchemaInv'
    BY <2>1 DEF SchemaInv, vars, disk, locals
  <2>. QED
    BY <2>1, StepSchemaInv DEF Next
<1>3. TInv /\ SchemaInv => SchemaIsPrefix
  BY DEF TInv, TypeInv, SchemaInv, SchemaIsPrefix
<1>. QED
  BY <1>1, <1>2, <1>3, TypeInvariance, PTL DEF Spec

-----------------------------------------------------------------------------
(* Identities and anchors *)

KeysOf(i) == {IssuerKey(i), SubjectKey(i)}

\* identity create writes the file last, and nobody else writes it.
IdentityOf(p) ==
    cmd[p].op = "identity" =>
        /\ files[cmd[p].of].state # "whole"
        /\ pc[p] = "subjectKey" => IssuerKey(cmd[p].of) \in keys
        /\ Writing(p) => KeysOf(cmd[p].of) \subseteq keys

\* trust add holds anchors whose identities it or another could read.
AnchorsOf(p) ==
    /\ \A i \in held[p] : Readable(i)
    /\ cmd[p].op = "trust" /\ Writing(p) => Readable(cmd[p].of)

IdInv ==
    /\ \A i \in Identity : files[i].state # "absent" => KeysOf(i) \subseteq keys
    /\ \A i \in files["config"].anchors : Readable(i)
    /\ \A p \in Proc : IdentityOf(p) /\ AnchorsOf(p)
    /\ \A p, q \in Proc :
          cmd[p].op = "identity" /\ cmd[q].op = "identity" /\ cmd[p].of = cmd[q].of => p = q

\* Only identity create writes the file of an identity.
LEMMA WritesIdentity ==
    ASSUME TInv, NEW p \in Proc, Writing(p), target[p] \in Identity
    PROVE  cmd[p].op = "identity" /\ target[p] = cmd[p].of
BY HomeAssumption DEF TInv, Stands, Writing

LEMMA WritesConfig ==
    ASSUME TInv, NEW p \in Proc, Writing(p), target[p] = "config"
    PROVE  cmd[p].op \in {"init", "trust"}
BY HomeAssumption DEF TInv, Stands, Writing

\* Files that were made stay, and an identity that can be read stays readable.
FilesKeep ==
    /\ \A f \in File : files[f].state # "absent" => files'[f].state # "absent"
    /\ \A i \in Identity : Readable(i) => Readable(i)'

LEMMA StepFiles ==
    ASSUME TInv, IdInv, NEW p \in Proc, Begin(p) \/ Stop(p) \/ Step(p)
    PROVE  FilesKeep /\ keys \subseteq keys' /\ (Open(p) \/ Fill(p) \/ files' = files)
<1>0. files \in [File -> Content] /\ Identity \subseteq File
  BY DEF TInv, TypeInv, File
<1>1. CASE Open(p)
  <2>1. target[p] \in File
    BY <1>1, WritesFile DEF Open, Writing
  <2>2. files' = [files EXCEPT ![target[p]] = Torn] /\ keys' = keys
    BY <1>1 DEF Open
  <2>3. target[p] \in Identity => ~Readable(target[p])
    BY <1>1, WritesIdentity DEF IdInv, IdentityOf, Readable, Open, Writing
  <2>4. \A f \in File : files[f].state # "absent" => files'[f].state # "absent"
    BY <1>0, <2>1, <2>2 DEF Torn
  <2>5. \A i \in Identity : Readable(i) => Readable(i)'
    BY <1>0, <2>1, <2>2, <2>3 DEF Readable
  <2>. QED
    BY <1>1, <2>2, <2>4, <2>5 DEF FilesKeep
<1>2. CASE Fill(p)
  <2>1. target[p] \in File
    BY <1>2, WritesFile DEF Fill, Writing
  <2>2. PICK c \in Content : files' = [files EXCEPT ![target[p]] = c] /\ c \in {Written(p), Torn}
    BY <1>2, FillWrites
  <2>3. keys' = keys
    BY <1>2 DEF Fill
  <2>4. c.state # "absent"
    BY <2>2, WrittenType DEF Torn
  <2>5. target[p] \in Identity => ~Readable(target[p])
    BY <1>2, WritesIdentity DEF IdInv, IdentityOf, Readable, Fill, Writing
  <2>6. \A f \in File : files[f].state # "absent" => files'[f].state # "absent"
    BY <1>0, <2>1, <2>2, <2>4
  <2>7. \A i \in Identity : Readable(i) => Readable(i)'
    BY <1>0, <2>1, <2>2, <2>5 DEF Readable
  <2>. QED
    BY <1>2, <2>3, <2>6, <2>7 DEF FilesKeep
<1>3. ASSUME files' = files, keys \subseteq keys'
      PROVE  FilesKeep
  BY <1>3 DEF FilesKeep, Readable
<1>4. CASE Begin(p) \/ Stop(p)
  BY <1>3, <1>4 DEF Begin, Stop, disk
<1>5. CASE Seal(p) \/ Rename(p) \/ Finish(p)
  BY <1>3, <1>5 DEF Seal, Rename, Finish
<1>6. CASE \/ Initialise(p) \/ CreateIdentity(p) \/ ReadAnchors(p) \/ AddAnchor(p)
           \/ ReadConfig(p) \/ SignArtifact(p) \/ StartReading(p) \/ Connect(p)
  BY <1>3, <1>6 DEF Initialise, CreateIdentity, ReadAnchors, AddAnchor, ReadConfig,
                    SignArtifact, StartReading, Connect, disk
<1>7. CASE Migrate(p)
  BY <1>3, <1>7 DEF Migrate, disk
<1>. QED
  BY <1>1, <1>2, <1>4, <1>5, <1>6, <1>7 DEF Step

\* What a step leaves to show, once nothing but p's command has moved.
LEMMA IdOthers ==
    ASSUME TInv, IdInv, NEW p \in Proc, Others(p), FilesKeep, keys \subseteq keys',
           \A i \in Identity : files'[i].state # "absent" => KeysOf(i) \subseteq keys',
           \A i \in files'["config"].anchors : Readable(i)',
           \A q \in Proc \ {p} : cmd[q].op = "identity" => files'[cmd[q].of].state # "whole",
           IdentityOf(p)', AnchorsOf(p)',
           cmd'[p].op = "identity" =>
               \A q \in Proc \ {p} : ~(cmd[q].op = "identity" /\ cmd[q].of = cmd'[p].of)
    PROVE  IdInv'
<1>1. ASSUME NEW q \in Proc \ {p}
      PROVE  IdentityOf(q)' /\ AnchorsOf(q)'
  <2>1. /\ pc'[q] = pc[q] /\ cmd'[q] = cmd[q] /\ held'[q] = held[q]
        /\ IdentityOf(q) /\ AnchorsOf(q) /\ Stands(q) /\ held[q] \subseteq Identity
    BY DEF Others, IdInv, TInv, TypeInv
  <2>2. IdentityOf(q)'
    BY <2>1 DEF IdentityOf, Writing
  <2>3. AnchorsOf(q)'
    <3>1. cmd[q].op = "trust" => cmd[q].of \in Identity
      BY <2>1 DEF Stands
    <3>2. Writing(q)' <=> Writing(q)
      BY <2>1 DEF Writing
    <3>. QED
      BY <2>1, <3>1, <3>2 DEF AnchorsOf, FilesKeep
  <2>. QED
    BY <2>2, <2>3
<1>2. \A q, r \in Proc :
          cmd'[q].op = "identity" /\ cmd'[r].op = "identity" /\ cmd'[q].of = cmd'[r].of => q = r
  BY DEF Others, IdInv
<1>. QED
  BY <1>1, <1>2 DEF IdInv

\* The same where no file is written either.
LEMMA IdQuiet ==
    ASSUME TInv, IdInv, NEW p \in Proc, Others(p), files' = files, keys \subseteq keys',
           IdentityOf(p)', AnchorsOf(p)',
           cmd'[p].op = "identity" =>
               \A q \in Proc \ {p} : ~(cmd[q].op = "identity" /\ cmd[q].of = cmd'[p].of)
    PROVE  IdInv'
<1>1. FilesKeep
  BY DEF FilesKeep, Readable
<1>2. \A i \in Identity : files'[i].state # "absent" => KeysOf(i) \subseteq keys'
  BY DEF IdInv
<1>3. \A i \in files'["config"].anchors : Readable(i)'
  BY DEF IdInv, Readable
<1>4. \A q \in Proc : cmd[q].op = "identity" => files'[cmd[q].of].state # "whole"
  BY DEF IdInv, IdentityOf
<1>. QED
  BY <1>1, <1>2, <1>3, <1>4, IdOthers

LEMMA StepIdInv ==
    ASSUME TInv, IdInv, NEW p \in Proc, Begin(p) \/ Stop(p) \/ Step(p)
    PROVE  IdInv'
<1>0. /\ Others(p) /\ FilesKeep /\ keys \subseteq keys' /\ IdentityOf(p) /\ AnchorsOf(p)
      /\ files \in [File -> Content] /\ held \in [Proc -> SUBSET Identity]
      /\ cmd[p].op = "identity" =>
             \A q \in Proc \ {p} : ~(cmd[q].op = "identity" /\ cmd[q].of = cmd[p].of)
  BY StepLocals, StepFiles DEF IdInv, TInv, TypeInv
<1>1. ASSUME End(p)
      PROVE  IdentityOf(p)' /\ AnchorsOf(p)' /\ cmd'[p].op = "none"
  <2>1. cmd'[p].op = "none" /\ held'[p] = {}
    BY <1>1, EndTypes DEF End, TInv, TypeInv
  <2>. QED
    BY <2>1 DEF IdentityOf, AnchorsOf
<1>2. ASSUME End(p), files' = files
      PROVE  IdInv'
  BY <1>0, <1>1, <1>2, IdQuiet
<1>3. ASSUME files' = files, cmd' = cmd, held' = held, ~Writing(p)', pc'[p] # "subjectKey"
      PROVE  IdInv'
  <2>1. IdentityOf(p)' /\ AnchorsOf(p)'
    BY <1>0, <1>3 DEF IdentityOf, AnchorsOf, Readable
  <2>. QED
    BY <1>0, <1>3, <2>1, IdQuiet
<1>4. CASE Begin(p)
  <2>1. PICK c \in Command : cmd' = [cmd EXCEPT ![p] = c]
    BY <1>4 DEF Begin
  <2>2. /\ cmd'[p] = c /\ pc'[p] = "start" /\ held'[p] = held[p] /\ files' = files
    BY <1>4, <2>1 DEF Begin, Goto, disk, TInv, TypeInv
  <2>3. c.op = "identity" => FreshIdentity(c.of)
    BY CommandTypes
  <2>4. IdentityOf(p)' /\ AnchorsOf(p)'
    BY <1>0, <2>2, <2>3 DEF IdentityOf, AnchorsOf, Readable, Writing, FreshIdentity, Absent
  <2>5. c.op = "identity" => \A q \in Proc : cmd[q].of # c.of
    BY <2>3 DEF FreshIdentity, InUse
  <2>. QED
    BY <1>0, <2>2, <2>4, <2>5, IdQuiet
<1>5. CASE Stop(p)
  BY <1>2, <1>5 DEF Stop, disk
<1>6. CASE Open(p)
  <2>1. /\ target[p] \in File /\ files' = [files EXCEPT ![target[p]] = Torn]
        /\ Writing(p) /\ Writing(p)' /\ keys' = keys /\ cmd' = cmd /\ held' = held
        /\ pc'[p] = "fill"
    BY <1>6, WritesFile DEF Open, Writing, Goto, locals, TInv, TypeInv
  <2>2. \A i \in Identity : files'[i].state # "absent" => KeysOf(i) \subseteq keys'
    <3>1. target[p] \in Identity => KeysOf(target[p]) \subseteq keys
      BY <1>0, <2>1, WritesIdentity DEF IdentityOf
    <3>2. \A i \in Identity : i # target[p] => files'[i] = files[i]
      BY <1>0, <2>1 DEF File
    <3>. QED
      BY <2>1, <3>1, <3>2 DEF IdInv
  <2>3. \A i \in files'["config"].anchors : Readable(i)'
    <3>1. files'["config"].anchors = {} \/ files'["config"] = files["config"]
      BY <1>0, <2>1 DEF Torn, File
    <3>2. files["config"].anchors \subseteq Identity
      BY <1>0 DEF File, Content
    <3>. QED
      BY <1>0, <3>1, <3>2 DEF IdInv, FilesKeep
  <2>4. \A q \in Proc : cmd[q].op = "identity" => files'[cmd[q].of].state # "whole"
    <3>1. \A f \in File : files'[f].state = "whole" => files[f].state = "whole"
      BY <1>0, <2>1 DEF Torn
    <3>2. \A q \in Proc : cmd[q].op = "identity" => cmd[q].of \in File
      BY DEF TInv, Stands, File
    <3>. QED
      BY <3>1, <3>2 DEF IdInv, IdentityOf
  <2>5. IdentityOf(p)'
    BY <1>0, <2>1, <2>4 DEF IdentityOf
  <2>6. AnchorsOf(p)'
    <3>1. held[p] \subseteq Identity /\ (cmd[p].op = "trust" => cmd[p].of \in Identity)
      BY <1>0 DEF TInv, Stands
    <3>. QED
      BY <1>0, <2>1, <3>1 DEF AnchorsOf, FilesKeep
  <2>. QED
    BY <1>0, <2>1, <2>2, <2>3, <2>4, <2>5, <2>6, IdOthers
<1>7. CASE Fill(p)
  <2>1. PICK c \in Content :
          /\ files' = [files EXCEPT ![target[p]] = c]
          /\ c \in {Written(p), Torn}
    BY <1>7, FillWrites
  <2>2. target[p] \in File /\ Writing(p) /\ keys' = keys
    BY <1>7, WritesFile DEF Fill, Writing
  <2>3. \A i \in Identity : files'[i].state # "absent" => KeysOf(i) \subseteq keys'
    <3>1. target[p] \in Identity => KeysOf(target[p]) \subseteq keys
      BY <1>0, <2>2, WritesIdentity DEF IdentityOf
    <3>2. \A i \in Identity : i # target[p] => files'[i] = files[i]
      BY <1>0, <2>1, <2>2 DEF File
    <3>. QED
      BY <2>2, <3>1, <3>2 DEF IdInv
  <2>4. \A i \in files'["config"].anchors : Readable(i)'
    <3>1. CASE target[p] # "config"
      <4>1. files'["config"] = files["config"] /\ files["config"].anchors \subseteq Identity
        BY <1>0, <2>1, <2>2, <3>1 DEF File, Content
      <4>. QED
        BY <1>0, <4>1 DEF IdInv, FilesKeep
    <3>2. CASE target[p] = "config"
      <4>1. files'["config"] = c
        BY <1>0, <2>1, <2>2, <3>2
      <4>2. held[p] \subseteq Identity /\ (cmd[p].op = "trust" => cmd[p].of \in Identity)
        BY <1>0 DEF TInv, Stands
      <4>3. \A i \in c.anchors : i \in held[p] \/ (cmd[p].op = "trust" /\ i = cmd[p].of)
        BY <2>1 DEF Written, Whole, Torn
      <4>. QED
        BY <1>0, <2>2, <4>1, <4>2, <4>3 DEF AnchorsOf, FilesKeep
    <3>. QED
      BY <3>1, <3>2
  <2>5. \A q \in Proc \ {p} : cmd[q].op = "identity" => files'[cmd[q].of].state # "whole"
    <3>. SUFFICES ASSUME NEW q \in Proc \ {p}, cmd[q].op = "identity"
                  PROVE  files'[cmd[q].of].state # "whole"
      OBVIOUS
    <3>1. cmd[q].of \in Identity /\ cmd[q].of \in File
      BY DEF TInv, Stands, File
    <3>2. cmd[q].of # target[p]
      BY <2>2, <3>1, WritesIdentity DEF IdInv
    <3>3. files'[cmd[q].of] = files[cmd[q].of]
      BY <1>0, <2>1, <3>1, <3>2
    <3>. QED
      BY <3>3 DEF IdInv, IdentityOf
  <2>6. CASE End(p)
    BY <1>0, <1>1, <2>2, <2>3, <2>4, <2>5, <2>6, IdOthers
  <2>7. CASE cmd' = cmd /\ held' = held /\ cmd[p].op \in {"init", "sign"}
    <3>1. IdentityOf(p)' /\ AnchorsOf(p)'
      <4>1. held[p] \subseteq Identity
        BY <1>0
      <4>. QED
        BY <1>0, <2>7, <4>1 DEF IdentityOf, AnchorsOf, FilesKeep
    <3>. QED
      BY <1>0, <2>2, <2>3, <2>4, <2>5, <2>7, <3>1, IdOthers
  <2>. QED
    BY <1>7, <2>6, <2>7 DEF Fill, locals
<1>8. CASE Initialise(p)
  <2>1. CASE cmd' = cmd /\ held' = held /\ cmd[p].op = "init"
    <3>1. files' = files
      BY <1>8 DEF Initialise, disk
    <3>2. IdentityOf(p)' /\ AnchorsOf(p)'
      BY <1>0, <2>1, <3>1 DEF IdentityOf, AnchorsOf, Readable
    <3>. QED
      BY <1>0, <2>1, <3>1, <3>2, IdQuiet
  <2>. QED
    BY <1>2, <1>8, <2>1 DEF Initialise, At, disk
<1>9. CASE CreateIdentity(p) \/ ReadConfig(p) \/ StartReading(p)
  <2>1. CASE Goto(p, "issuerKey") \/ Goto(p, "evidence") \/ Goto(p, "database")
    BY <1>3, <1>9, <2>1
       DEF CreateIdentity, ReadConfig, StartReading, Goto, locals, disk, Writing, TInv, TypeInv, End
  <2>. QED
    BY <1>2, <1>9, <2>1 DEF CreateIdentity, ReadConfig, StartReading, disk
<1>10. CASE Seal(p)
  <2>1. files' = files /\ cmd' = cmd /\ held' = held /\ pc' = pc /\ keys' = keys
    BY <1>10 DEF Seal, locals
  <2>2. IdentityOf(p)' /\ AnchorsOf(p)'
    BY <1>0, <2>1 DEF IdentityOf, AnchorsOf, Readable, Writing
  <2>. QED
    BY <1>0, <2>1, <2>2, IdQuiet
<1>11. CASE Rename(p)
  <2>1. /\ files' = files /\ cmd' = cmd /\ held' = held /\ keys' = keys \cup {Forged(p)}
        /\ cmd[p].op = "identity"
    BY <1>11 DEF Rename, TInv, Stands
  <2>2. AnchorsOf(p)'
    BY <1>0, <2>1 DEF AnchorsOf, Readable
  <2>3. CASE pc[p] = "issuerKey"
    <3>1. pc'[p] = "subjectKey"
      BY <1>11, <2>3 DEF Rename, Goto, TInv, TypeInv
    <3>2. IdentityOf(p)'
      BY <1>0, <2>1, <2>3, <3>1 DEF IdentityOf, Forged, Writing
    <3>. QED
      BY <1>0, <2>1, <2>2, <3>2, IdQuiet
  <2>4. CASE pc[p] = "subjectKey"
    <3>1. pc'[p] = "open"
      BY <1>11, <2>4 DEF Rename, Write, Goto, TInv, TypeInv
    <3>2. IdentityOf(p)'
      BY <1>0, <2>1, <2>4, <3>1 DEF IdentityOf, Forged, KeysOf
    <3>. QED
      BY <1>0, <2>1, <2>2, <3>2, IdQuiet
  <2>. QED
    BY <1>11, <2>3, <2>4 DEF Rename
<1>12. CASE ReadAnchors(p)
  <2>1. CASE Readable("config")
    <3>1. /\ files' = files /\ cmd' = cmd /\ held'[p] = files["config"].anchors
          /\ pc'[p] = "identity" /\ cmd[p].op = "trust"
      BY <1>0, <1>12, <2>1 DEF ReadAnchors, At, Goto, disk, TInv, TypeInv
    <3>2. IdentityOf(p)' /\ AnchorsOf(p)'
      BY <3>1 DEF IdentityOf, AnchorsOf, Readable, Writing, IdInv
    <3>. QED
      BY <1>0, <3>1, <3>2, IdQuiet
  <2>. QED
    BY <1>2, <1>12, <2>1 DEF ReadAnchors, disk
<1>13. CASE AddAnchor(p)
  <2>1. CASE Readable(cmd[p].of) /\ cmd[p].of \notin held[p]
    <3>1. files' = files /\ cmd' = cmd /\ held' = held /\ cmd[p].op = "trust"
      BY <1>13, <2>1 DEF AddAnchor, At, disk
    <3>2. IdentityOf(p)' /\ AnchorsOf(p)'
      BY <1>0, <2>1, <3>1 DEF IdentityOf, AnchorsOf, Readable
    <3>. QED
      BY <1>0, <3>1, <3>2, IdQuiet
  <2>. QED
    BY <1>2, <1>13, <2>1 DEF AddAnchor, disk
<1>14. CASE SignArtifact(p)
  <2>1. CASE cmd' = cmd /\ held' = held /\ cmd[p].op = "sign"
    <3>1. files' = files
      BY <1>14 DEF SignArtifact, disk
    <3>2. IdentityOf(p)' /\ AnchorsOf(p)'
      BY <1>0, <2>1, <3>1 DEF IdentityOf, AnchorsOf, Readable
    <3>. QED
      BY <1>0, <2>1, <3>1, <3>2, IdQuiet
  <2>. QED
    BY <1>2, <1>14, <2>1 DEF SignArtifact, At, disk
<1>15. CASE Connect(p)
  <2>1. CASE pc'[p] = "migrate" /\ cmd' = cmd /\ held' = held
    BY <1>3, <1>15, <2>1 DEF Connect, Writing, disk
  <2>. QED
    BY <1>2, <1>15, <2>1 DEF Connect, Goto, disk, TInv, TypeInv
<1>16. CASE Migrate(p)
  <2>1. CASE files' = files /\ pc' = pc /\ cmd' = cmd /\ held' = held
    BY <1>3, <1>16, <2>1 DEF Migrate, Writing
  <2>. QED
    BY <1>2, <1>16, <2>1 DEF Migrate, disk
<1>17. CASE Finish(p)
  BY <1>2, <1>17 DEF Finish
<1>. QED
  BY <1>4, <1>5, <1>6, <1>7, <1>8, <1>9, <1>10, <1>11, <1>12, <1>13, <1>14, <1>15,
     <1>16, <1>17 DEF Step

LEMMA IdInvariance == Spec => [](TInv /\ IdInv)
<1>1. Init => IdInv
  BY DEF Init, IdInv, IdentityOf, AnchorsOf, NoCommand, Absent, File
<1>2. TInv /\ IdInv /\ [Next]_vars => IdInv'
  <2>1. ASSUME IdInv, UNCHANGED vars
        PROVE  IdInv'
    BY <2>1 DEF IdInv, IdentityOf, AnchorsOf, Readable, Writing, vars, disk, locals
  <2>. QED
    BY <2>1, StepIdInv DEF Next
<1>. QED
  BY <1>1, <1>2, TypeInvariance, PTL DEF Spec

\* Whatever stops where, an identity that can be read has its two keys, and
\* the anchors of the configuration are identities that can be read.
THEOREM IdentitiesAreAlwaysWhole == Spec => []IdentitiesAreWhole
<1>1. TInv /\ IdInv => IdentitiesAreWhole
  BY DEF IdInv, IdentitiesAreWhole, Readable, KeysOf
<1>. QED
  BY <1>1, IdInvariance, PTL

-----------------------------------------------------------------------------
(* Rows *)

\* What a signed artifact rests on, once it was read.
Grounded(a) ==
    /\ Readable(Signer[a])
    /\ a \in Request => files[Authority[a]].state # "absent"

\* A command signs over what it has read, writes the file and then the row.
SignOf(p) ==
    cmd[p].op = "sign" =>
        /\ Writing(p) \/ pc[p] \in {"database", "migrate"} => Grounded(cmd[p].of)
        /\ pc[p] \in {"database", "migrate"} => files[cmd[p].of].state # "absent"

RowInv ==
    /\ \A a \in rows : Grounded(a) /\ files[a].state # "absent"
    /\ \A p \in Proc : SignOf(p)

LEMMA GroundedKept ==
    ASSUME FilesKeep, NEW a \in Artifact, Grounded(a)
    PROVE  Grounded(a)'
BY HomeAssumption DEF FilesKeep, Grounded, File, Artifact

\* Steps that add no row and leave p's command in order.
LEMMA RowQuiet ==
    ASSUME TInv, RowInv, FilesKeep, NEW p \in Proc, Others(p), rows' = rows, SignOf(p)'
    PROVE  RowInv'
<1>1. \A a \in rows : a \in Artifact /\ a \in File
  BY DEF TInv, TypeInv, File
<1>2. \A a \in rows : Grounded(a)' /\ files'[a].state # "absent"
  BY <1>1, GroundedKept DEF RowInv, FilesKeep
<1>3. ASSUME NEW q \in Proc \ {p}
      PROVE  SignOf(q)'
  <2>1. pc'[q] = pc[q] /\ cmd'[q] = cmd[q] /\ SignOf(q)
    BY DEF Others, RowInv
  <2>2. cmd[q].op = "sign" => cmd[q].of \in Artifact /\ cmd[q].of \in File
    BY DEF TInv, Stands, File
  <2>3. Writing(q)' <=> Writing(q)
    BY <2>1 DEF Writing
  <2>4. cmd[q].op = "sign" /\ Grounded(cmd[q].of) => Grounded(cmd[q].of)'
    <3>1. cmd[q].op = "sign" =>
             /\ Signer[cmd[q].of] \in Identity
             /\ cmd[q].of \in Request => Authority[cmd[q].of] \in File
      BY <2>2, HomeAssumption DEF File, Artifact
    <3>. QED
      BY <2>1, <3>1 DEF Grounded, FilesKeep, Readable
  <2>. QED
    BY <2>1, <2>2, <2>3, <2>4 DEF SignOf, FilesKeep
<1>. QED
  BY <1>2, <1>3 DEF RowInv

LEMMA StepRowInv ==
    ASSUME TInv, IdInv, RowInv, NEW p \in Proc, Begin(p) \/ Stop(p) \/ Step(p)
    PROVE  RowInv'
<1>0. /\ Others(p) /\ FilesKeep /\ SignOf(p) /\ Stands(p) /\ cmd \in [Proc -> AnyCommand]
      /\ pc \in [Proc -> Label] /\ files \in [File -> Content]
  BY StepLocals, StepFiles DEF RowInv, TInv, TypeInv
<1>1. ASSUME End(p), rows' = rows
      PROVE  RowInv'
  <2>1. cmd'[p].op = "none"
    BY <1>1, EndTypes DEF TInv
  <2>. QED
    BY <1>0, <1>1, <2>1, RowQuiet DEF SignOf
<1>2. ASSUME cmd[p].op # "sign", cmd' = cmd, rows' = rows
      PROVE  RowInv'
  BY <1>0, <1>2, RowQuiet DEF SignOf
<1>3. ASSUME rows' = rows, pc'[p] \in {"start", "evidence"}
      PROVE  RowInv'
  BY <1>0, <1>3, RowQuiet DEF SignOf, Writing
<1>4. ASSUME cmd[p].op = "sign", cmd' = cmd, rows' = rows, Grounded(cmd[p].of),
             pc'[p] \in {"database", "migrate"} => files'[cmd[p].of].state # "absent"
      PROVE  RowInv'
  <2>1. cmd[p].of \in Artifact
    BY <1>0, <1>4 DEF Stands
  <2>2. Grounded(cmd[p].of)'
    <3>1. \A a \in Artifact : Grounded(a) => Grounded(a)'
      BY <1>0, GroundedKept
    <3>2. Grounded(cmd[p].of) => Readable(Signer[cmd[p].of])
      BY DEF Grounded
    <3>3. /\ Signer[cmd[p].of] \in Identity
          /\ cmd[p].of \in Request => Authority[cmd[p].of] \in File
      BY <2>1, HomeAssumption DEF File, Artifact
    <3>4. /\ Readable(Signer[cmd[p].of])'
          /\ cmd[p].of \in Request => files'[Authority[cmd[p].of]].state # "absent"
      BY <1>0, <1>4, <3>3 DEF FilesKeep, Grounded, Readable
    <3>. QED
      BY <1>4, <3>4 DEF Grounded, Readable
  <2>3. SignOf(p)'
    BY <1>4, <2>2 DEF SignOf
  <2>. QED
    BY <1>0, <1>4, <2>3, RowQuiet
<1>5. CASE Begin(p)
  BY <1>0, <1>3, <1>5 DEF Begin, Goto, disk
<1>6. CASE Stop(p)
  BY <1>1, <1>6 DEF Stop, disk
<1>7. CASE Open(p)
  <2>1. rows' = rows /\ cmd' = cmd /\ pc'[p] = "fill" /\ Writing(p)
    BY <1>0, <1>7 DEF Open, Goto, locals, Writing
  <2>. QED
    BY <1>0, <1>2, <1>4, <2>1 DEF SignOf
<1>8. CASE Fill(p)
  <2>1. rows' = rows /\ Writing(p)
    BY <1>8 DEF Fill, Writing
  <2>2. CASE cmd[p].op = "sign"
    <3>1. cmd' = cmd
      BY <1>8, <2>2 DEF Fill, locals
    <3>2. target[p] = cmd[p].of /\ target[p] \in File
      BY <1>0, <2>1, <2>2 DEF Stands, File
    <3>3. files'[target[p]].state # "absent"
      <4>1. PICK c \in Content :
              files' = [files EXCEPT ![target[p]] = c] /\ c \in {Written(p), Torn}
        BY <1>8, FillWrites
      <4>2. c.state # "absent"
        BY <4>1, WrittenType DEF Torn
      <4>. QED
        BY <1>0, <3>2, <4>1, <4>2
    <3>. QED
      BY <1>0, <1>4, <2>1, <2>2, <3>1, <3>2, <3>3 DEF SignOf
  <2>3. CASE cmd[p].op # "sign"
    <3>1. End(p) \/ cmd' = cmd
      BY <1>8, <2>3 DEF Fill
    <3>. QED
      BY <1>1, <1>2, <2>1, <2>3, <3>1
  <2>. QED
    BY <2>2, <2>3
<1>9. CASE Initialise(p) \/ CreateIdentity(p) \/ ReadAnchors(p) \/ AddAnchor(p)
  <2>1. rows' = rows /\ cmd[p].op # "sign"
    BY <1>9 DEF Initialise, CreateIdentity, ReadAnchors, AddAnchor, At, disk
  <2>2. End(p) \/ cmd' = cmd
    BY <1>9 DEF Initialise, CreateIdentity, ReadAnchors, AddAnchor, locals
  <2>. QED
    BY <1>1, <1>2, <2>1, <2>2
<1>10. CASE Seal(p) \/ Rename(p)
  <2>1. rows' = rows /\ cmd' = cmd /\ cmd[p].op # "sign"
    BY <1>0, <1>10 DEF Seal, Rename, locals, Stands
  <2>. QED
    BY <1>2, <2>1
<1>11. CASE ReadConfig(p)
  BY <1>0, <1>1, <1>3, <1>11 DEF ReadConfig, Goto, disk
<1>12. CASE SignArtifact(p)
  <2>1. rows' = rows /\ cmd[p].op = "sign"
    BY <1>12 DEF SignArtifact, At, disk
  <2>2. CASE Signable(cmd[p].of)
    <3>1. cmd' = cmd /\ pc'[p] = "open"
      BY <1>0, <1>12, <2>2 DEF SignArtifact, Write, Goto
    <3>2. Grounded(cmd[p].of)
      BY <2>2 DEF Signable, Grounded, Readable
    <3>. QED
      BY <1>4, <2>1, <3>1, <3>2
  <2>. QED
    BY <1>1, <1>12, <2>1, <2>2 DEF SignArtifact
<1>13. CASE StartReading(p)
  <2>1. rows' = rows /\ cmd[p].op # "sign"
    BY <1>13 DEF StartReading, disk
  <2>2. End(p) \/ cmd' = cmd
    BY <1>13 DEF StartReading, locals
  <2>. QED
    BY <1>1, <1>2, <2>1, <2>2
<1>14. CASE Connect(p) \/ Migrate(p)
  <2>1. rows' = rows /\ files' = files /\ pc[p] \in {"database", "migrate"}
    BY <1>14 DEF Connect, Migrate, disk
  <2>2. End(p) \/ cmd' = cmd
    BY <1>14 DEF Connect, Migrate
  <2>3. cmd[p].op = "sign" => Grounded(cmd[p].of) /\ files'[cmd[p].of].state # "absent"
    BY <1>0, <2>1 DEF SignOf
  <2>. QED
    BY <1>1, <1>2, <1>4, <2>1, <2>2, <2>3
<1>15. CASE Finish(p)
  <2>1. /\ files' = files /\ cmd'[p].op = "none" /\ pc[p] = "migrate"
        /\ rows' = IF cmd[p].op = "sign" THEN rows \cup {cmd[p].of} ELSE rows
    BY <1>15, EndTypes DEF Finish, TInv
  <2>2. \A a \in rows' : Grounded(a) /\ files[a].state # "absent"
    BY <1>0, <2>1 DEF RowInv, SignOf
  <2>3. \A a : Grounded(a)' <=> Grounded(a)
    BY <2>1 DEF Grounded, Readable
  <2>4. \A a \in rows' : Grounded(a)' /\ files'[a].state # "absent"
    BY <2>1, <2>2, <2>3
  <2>5. ASSUME NEW q \in Proc
        PROVE  SignOf(q)'
    <3>1. CASE q = p
      BY <2>1, <3>1 DEF SignOf
    <3>2. CASE q # p
      <4>1. pc'[q] = pc[q] /\ cmd'[q] = cmd[q] /\ SignOf(q)
        BY <1>0, <3>2 DEF Others, RowInv
      <4>. QED
        BY <2>1, <2>3, <4>1 DEF SignOf, Writing
    <3>. QED
      BY <3>1, <3>2
  <2>. QED
    BY <2>4, <2>5 DEF RowInv
<1>. QED
  BY <1>5, <1>6, <1>7, <1>8, <1>9, <1>10, <1>11, <1>12, <1>13, <1>14, <1>15 DEF Step

\* A row never lacks the file, the identity, the keys or the delegation it is
\* backed by, wherever commands interleave or stop.
THEOREM RowsAreAlwaysBacked == Spec => []RowsAreBacked
<1>1. Init => RowInv
  BY DEF Init, RowInv, SignOf, NoCommand
<1>2. TInv /\ IdInv /\ RowInv /\ [Next]_vars => RowInv'
  <2>1. ASSUME RowInv, UNCHANGED vars
        PROVE  RowInv'
    BY <2>1 DEF RowInv, SignOf, Grounded, Readable, Writing, vars, disk, locals
  <2>. QED
    BY <2>1, StepRowInv DEF Next
<1>3. TInv /\ IdInv /\ RowInv => RowsAreBacked
  <2>. SUFFICES ASSUME TInv, IdInv, RowInv, NEW a \in rows
                PROVE  /\ files[a] # Absent
                       /\ Readable(Signer[a])
                       /\ KeysOf(Signer[a]) \subseteq keys
                       /\ a \in Request => files[Authority[a]] # Absent
    BY DEF RowsAreBacked, KeysOf
  <2>1. Grounded(a) /\ files[a].state # "absent" /\ Signer[a] \in Identity
    BY HomeAssumption DEF RowInv, TInv, TypeInv
  <2>2. KeysOf(Signer[a]) \subseteq keys
    BY <2>1 DEF IdInv, Grounded, Readable
  <2>. QED
    BY <2>1, <2>2 DEF Grounded, Absent
<1>. QED
  BY <1>1, <1>2, <1>3, IdInvariance, PTL DEF Spec

-----------------------------------------------------------------------------
(* The anchors that were acknowledged *)

Filling(p) == pc[p] = "fill" /\ target[p] = "config"

\* Without a race: a configuration being written is empty until it is whole,
\* trust add holds what was acknowledged, and init found no configuration.
WriterOf(p) ==
    /\ Filling(p) => files["config"].state = "torn"
    /\ cmd[p].op = "trust" /\ pc[p] # "start" => held[p] = kept
    /\ cmd[p].op = "init" /\ ~cmd[p].force /\ pc[p] # "start" => kept = {}

Settled ==
    (\A p \in Proc : ~Filling(p)) =>
        files["config"].state # "torn" /\ files["config"].anchors = kept

ConfigInv ==
    /\ \A p \in Proc : cmd[p].op = "trust" => ~cmd[p].force
    /\ files["config"].state # "whole" => files["config"].anchors = {}
    /\ ~raced => Settled /\ \A p \in Proc : WriterOf(p)

\* Steps that do not touch the configuration, in what they leave to show.
LEMMA ConfigQuiet ==
    ASSUME TInv, ConfigInv, NEW p \in Proc, Others(p), UNCHANGED ghosts,
           files'["config"] = files["config"],
           cmd'[p].op = "trust" => ~cmd'[p].force,
           ~raced => ~Filling(p) /\ ~Filling(p)' /\ WriterOf(p)'
    PROVE  ConfigInv'
<1>1. raced' = raced /\ kept' = kept
  BY DEF ghosts
<1>2. \A q \in Proc : cmd'[q].op = "trust" => ~cmd'[q].force
  BY DEF ConfigInv, Others
<1>3. ASSUME ~raced
      PROVE  Settled' /\ \A q \in Proc : WriterOf(q)'
  <2>1. \A q \in Proc : Filling(q)' <=> Filling(q)
    BY <1>3 DEF Filling, Others
  <2>2. Settled'
    BY <1>1, <1>3, <2>1 DEF Settled, ConfigInv
  <2>3. \A q \in Proc : WriterOf(q)'
    BY <1>1, <1>3, <2>1 DEF WriterOf, ConfigInv, Others
  <2>. QED
    BY <2>2, <2>3
<1>. QED
  BY <1>1, <1>2, <1>3 DEF ConfigInv

LEMMA StepConfigInv ==
    ASSUME TInv, ConfigInv, NEW p \in Proc, Begin(p) \/ Stop(p) \/ Step(p)
    PROVE  ConfigInv'
<1>0. /\ Others(p) /\ Stands(p) /\ Stands(p)' /\ files \in [File -> Content] /\ "config" \in File
      /\ pc \in [Proc -> Label] /\ target \in [Proc -> File \cup {"none"}]
      /\ held \in [Proc -> SUBSET Identity] /\ kept \subseteq Identity /\ raced \in BOOLEAN
      /\ cmd[p].op = "trust" => ~cmd[p].force
      /\ ~raced => Settled /\ WriterOf(p)
  BY StepLocals DEF TInv, TypeInv, File, ConfigInv
<1>1. ASSUME End(p), UNCHANGED ghosts, files' = files, ~Filling(p)
      PROVE  ConfigInv'
  <2>1. cmd'[p].op = "none" /\ pc'[p] = "idle"
    BY <1>1, EndTypes DEF TInv
  <2>. QED
    BY <1>0, <1>1, <2>1, ConfigQuiet DEF WriterOf, Filling
<1>2. ASSUME UNCHANGED ghosts, files'["config"] = files["config"], ~Filling(p), cmd' = cmd,
             pc'[p] # "fill", cmd[p].op # "trust",
             cmd[p].op = "init" => (~raced /\ ~cmd[p].force => kept = {})
      PROVE  ConfigInv'
  BY <1>0, <1>2, ConfigQuiet DEF WriterOf, Filling, ghosts
<1>3. CASE Begin(p)
  <2>1. PICK c \in Command : cmd' = [cmd EXCEPT ![p] = c]
    BY <1>3 DEF Begin
  <2>2. cmd'[p] = c /\ pc'[p] = "start" /\ pc[p] = "idle" /\ files' = files /\ UNCHANGED ghosts
    BY <1>0, <1>3, <2>1 DEF Begin, Goto, disk, TInv, TypeInv
  <2>3. c.op = "trust" => c.force = FALSE
    BY CommandTypes
  <2>. QED
    BY <1>0, <2>2, <2>3, ConfigQuiet DEF WriterOf, Filling
<1>4. CASE Stop(p)
  <2>1. files' = files /\ kept' = kept /\ raced' = (raced \/ Filling(p))
    BY <1>4 DEF Stop, disk, Filling
  <2>2. End(p) /\ cmd'[p].op = "none"
    BY <1>4, EndTypes DEF Stop, TInv
  <2>3. CASE Filling(p)
    <3>1. raced' = TRUE
      BY <2>1, <2>3
    <3>2. \A q \in Proc : cmd'[q].op = "trust" => ~cmd'[q].force
      BY <1>0, <2>2 DEF ConfigInv, Others
    <3>. QED
      BY <2>1, <3>1, <3>2 DEF ConfigInv
  <2>4. CASE ~Filling(p)
    <3>1. UNCHANGED ghosts
      BY <1>0, <2>1, <2>4 DEF ghosts
    <3>. QED
      BY <1>1, <2>1, <2>2, <2>4, <3>1
  <2>. QED
    BY <2>3, <2>4
<1>5. CASE Open(p)
  <2>1. /\ target[p] \in File /\ files' = [files EXCEPT ![target[p]] = Torn]
        /\ cmd' = cmd /\ target' = target /\ held' = held /\ UNCHANGED ghosts
        /\ pc[p] = "open" /\ pc'[p] = "fill"
    BY <1>0, <1>5, WritesFile DEF Open, Writing, Goto, locals
  <2>2. CASE target[p] # "config"
    <3>1. files'["config"] = files["config"] /\ ~Filling(p) /\ ~Filling(p)'
      BY <1>0, <2>1, <2>2 DEF Filling
    <3>2. ~raced => WriterOf(p)'
      BY <1>0, <2>1, <3>1 DEF WriterOf, ghosts
    <3>. QED
      BY <1>0, <2>1, <3>1, <3>2, ConfigQuiet
  <2>3. CASE target[p] = "config"
    <3>1. files'["config"] = Torn
      BY <1>0, <2>1, <2>3
    <3>2. raced' = raced /\ kept' = kept
      BY <2>1 DEF ghosts
    <3>3. Filling(p)'
      BY <2>1, <2>3 DEF Filling
    <3>4. ASSUME ~raced, NEW q \in Proc
          PROVE  WriterOf(q)'
      <4>1. WriterOf(q) /\ (q # p => pc'[q] = pc[q]) /\ pc[p] # "start"
        BY <1>0, <2>1, <3>4 DEF ConfigInv, Others
      <4>2. held'[q] = held[q] /\ cmd'[q] = cmd[q] /\ (pc'[q] # "start" => pc[q] # "start")
        BY <2>1, <4>1
      <4>. QED
        BY <3>1, <3>2, <4>1, <4>2 DEF WriterOf, Torn
    <3>. QED
      BY <2>1, <3>1, <3>2, <3>3, <3>4 DEF ConfigInv, Settled, Torn
  <2>. QED
    BY <2>2, <2>3
<1>6. CASE Fill(p) /\ target[p] # "config"
  <2>1. PICK c \in Content : files' = [files EXCEPT ![target[p]] = c]
    BY <1>6, FillWrites
  <2>2. target[p] \in File /\ UNCHANGED ghosts /\ pc[p] = "fill"
    BY <1>6, WritesFile DEF Fill, Writing
  <2>3. files'["config"] = files["config"] /\ ~Filling(p)
    BY <1>0, <1>6, <2>1, <2>2 DEF Filling
  <2>4. CASE End(p)
    <3>1. cmd'[p].op = "none" /\ pc'[p] = "idle"
      BY <2>4, EndTypes DEF TInv
    <3>. QED
      BY <1>0, <2>2, <2>3, <3>1, ConfigQuiet DEF WriterOf, Filling
  <2>5. CASE cmd' = cmd /\ cmd[p].op \in {"init", "sign"} /\ pc'[p] # "fill"
    <3>1. cmd[p].op = "init" => (~raced /\ ~cmd[p].force => kept = {})
      BY <1>0, <2>2 DEF WriterOf
    <3>. QED
      BY <1>2, <2>2, <2>3, <2>5, <3>1
  <2>6. End(p) \/ (cmd' = cmd /\ cmd[p].op \in {"init", "sign"} /\ pc'[p] # "fill")
    BY <1>0, <1>6 DEF Fill, Goto, Write, locals
  <2>. QED
    BY <2>4, <2>5, <2>6
<1>7. CASE Fill(p) /\ target[p] = "config"
  <2>1. PICK c \in Content :
          files' = [files EXCEPT !["config"] = c] /\ c \in {Written(p), Torn}
    BY <1>7, FillWrites
  <2>2. /\ raced' = (Racing(p) \/ files'["config"] = Torn \/ (raced /\ ~cmd[p].force))
        /\ cmd[p].op = "trust" /\ ~cmd[p].force => kept' = kept \cup {cmd[p].of}
        /\ cmd[p].op = "init" => kept' = IF cmd[p].force THEN {} ELSE kept
    BY <1>7 DEF Fill
  <2>3. cmd[p].op \in {"init", "trust"} /\ pc[p] = "fill" /\ Filling(p)
    BY <1>7, WritesConfig DEF Fill, Writing, Filling
  <2>4. End(p) /\ cmd'[p].op = "none" /\ pc'[p] = "idle"
    <3>1. End(p)
      BY <1>7, <2>3 DEF Fill
    <3>. QED
      BY <3>1, EndTypes DEF TInv
  <2>5. files'["config"] = c
    BY <1>0, <2>1
  <2>6. Written(p).state = "whole" /\ Torn.state = "torn" /\ Torn.anchors = {}
    BY WrittenType DEF Torn
  <2>7. \A q \in Proc : cmd'[q].op = "trust" => ~cmd'[q].force
    BY <1>0, <2>4 DEF ConfigInv, Others
  <2>8. ASSUME ~raced'
        PROVE  Settled' /\ \A q \in Proc : WriterOf(q)'
    <3>1. ~Racing(p) /\ c = Written(p) /\ (raced => cmd[p].force)
      BY <2>1, <2>2, <2>5, <2>8
    <3>2. \A q \in Proc \ {p} : cmd[q].op \in {"init", "trust"} => pc[q] = "start"
      BY <3>1 DEF Racing
    <3>3. \A q \in Proc : ~Filling(q)'
      <4>1. \A q \in Proc \ {p} : ~Filling(q)
        BY <3>2, WritesConfig DEF Filling, Writing
      <4>. QED
        BY <1>0, <2>4, <4>1 DEF Filling, Others
    <3>4. \A q \in Proc : WriterOf(q)'
      BY <1>0, <2>4, <3>2, <3>3 DEF WriterOf, Others
    <3>5. c.anchors = kept'
      <4>1. CASE cmd[p].op = "trust"
        <5>1. ~raced /\ held[p] = kept
          BY <1>0, <2>3, <3>1, <4>1 DEF WriterOf
        <5>2. kept' = kept \cup {cmd[p].of}
          BY <1>0, <2>2, <4>1
        <5>3. Written(p).anchors = held[p] \cup {cmd[p].of}
          BY <1>7, <4>1 DEF Written, Whole
        <5>. QED
          BY <3>1, <5>1, <5>2, <5>3
      <4>2. CASE cmd[p].op = "init"
        <5>1. Written(p).anchors = {}
          BY <4>2 DEF Written, Whole
        <5>2. ~cmd[p].force => kept = {}
          BY <1>0, <2>3, <3>1, <4>2 DEF WriterOf
        <5>3. kept' = {}
          BY <2>2, <4>2, <5>2
        <5>. QED
          BY <3>1, <5>1, <5>3
      <4>. QED
        BY <2>3, <4>1, <4>2
    <3>. QED
      BY <2>5, <2>6, <3>1, <3>4, <3>5 DEF Settled
  <2>. QED
    BY <2>1, <2>5, <2>6, <2>7, <2>8 DEF ConfigInv
<1>8. CASE Initialise(p)
  <2>1. files' = files /\ UNCHANGED ghosts /\ ~Filling(p) /\ cmd[p].op = "init"
    BY <1>8 DEF Initialise, At, disk, Filling
  <2>2. CASE files["config"] # Absent /\ ~cmd[p].force
    BY <1>1, <1>8, <2>1, <2>2 DEF Initialise
  <2>3. CASE ~(files["config"] # Absent /\ ~cmd[p].force)
    <3>1. cmd' = cmd /\ pc'[p] = "open"
      BY <1>0, <1>8, <2>3 DEF Initialise, Write, Goto
    <3>2. ~raced /\ ~cmd[p].force => kept = {}
      <4>1. ASSUME ~raced, ~cmd[p].force
            PROVE  kept = {}
        <5>1. files["config"].state = "absent" /\ files["config"].anchors = {}
          BY <2>3, <4>1 DEF Absent
        <5>2. \A q \in Proc : ~Filling(q)
          BY <4>1, <5>1 DEF ConfigInv, WriterOf
        <5>. QED
          BY <1>0, <4>1, <5>1, <5>2 DEF Settled
      <4>. QED
        BY <4>1
    <3>. QED
      BY <1>2, <2>1, <3>1, <3>2
  <2>. QED
    BY <2>2, <2>3
<1>9. CASE ReadAnchors(p)
  <2>1. files' = files /\ UNCHANGED ghosts /\ ~Filling(p) /\ cmd[p].op = "trust"
    BY <1>9 DEF ReadAnchors, At, disk, Filling
  <2>2. CASE Readable("config")
    <3>1. cmd' = cmd /\ pc'[p] = "identity" /\ held'[p] = files["config"].anchors
      BY <1>0, <1>9, <2>2 DEF ReadAnchors, Goto
    <3>2. ASSUME ~raced
          PROVE  held'[p] = kept
      <4>1. \A q \in Proc : ~Filling(q)
        BY <2>2, <3>2 DEF ConfigInv, WriterOf, Readable
      <4>. QED
        BY <1>0, <3>1, <3>2, <4>1 DEF Settled
    <3>3. ~raced => WriterOf(p)' /\ ~Filling(p)'
      BY <2>1, <3>1, <3>2 DEF WriterOf, Filling, ghosts
    <3>. QED
      BY <1>0, <2>1, <3>1, <3>3, ConfigQuiet
  <2>. QED
    BY <1>1, <1>9, <2>1, <2>2 DEF ReadAnchors
<1>10. CASE AddAnchor(p)
  <2>1. files' = files /\ UNCHANGED ghosts /\ ~Filling(p) /\ cmd[p].op = "trust"
    BY <1>10 DEF AddAnchor, At, disk, Filling
  <2>2. CASE Readable(cmd[p].of) /\ cmd[p].of \notin held[p]
    <3>1. cmd' = cmd /\ pc'[p] = "open" /\ held' = held /\ pc[p] # "start"
      BY <1>0, <1>10, <2>2 DEF AddAnchor, At, Write, Goto
    <3>2. ~raced => WriterOf(p)' /\ ~Filling(p)'
      BY <1>0, <2>1, <3>1 DEF WriterOf, Filling, ghosts
    <3>. QED
      BY <1>0, <2>1, <3>1, <3>2, ConfigQuiet
  <2>. QED
    BY <1>1, <1>10, <2>1, <2>2 DEF AddAnchor
<1>11. CASE \/ CreateIdentity(p) \/ ReadConfig(p) \/ SignArtifact(p) \/ StartReading(p)
            \/ Seal(p) \/ Rename(p) \/ Connect(p) \/ Migrate(p) \/ Finish(p)
  <2>1. files' = files /\ UNCHANGED ghosts /\ ~Filling(p)
    BY <1>11 DEF CreateIdentity, ReadConfig, SignArtifact, StartReading, Seal, Rename,
                 Connect, Migrate, Finish, At, disk, Filling
  <2>2. cmd[p].op \notin {"init", "trust"}
    BY <1>0, <1>11 DEF CreateIdentity, ReadConfig, SignArtifact, StartReading, Seal, Rename,
                 Connect, Migrate, Finish, At, Stands
  <2>3. End(p) \/ (cmd' = cmd /\ pc'[p] # "fill")
    <3>1. CASE CreateIdentity(p) \/ ReadConfig(p) \/ StartReading(p)
      BY <1>0, <3>1 DEF CreateIdentity, ReadConfig, StartReading, Goto, locals
    <3>2. CASE SignArtifact(p)
      BY <1>0, <3>2 DEF SignArtifact, Write, Goto
    <3>3. CASE Seal(p)
      BY <3>3 DEF Seal, locals
    <3>4. CASE Rename(p)
      BY <1>0, <3>4 DEF Rename, Write, Goto
    <3>5. CASE Connect(p)
      BY <1>0, <3>5 DEF Connect, Goto
    <3>6. CASE Migrate(p)
      BY <3>6 DEF Migrate
    <3>7. CASE Finish(p)
      BY <3>7 DEF Finish
    <3>. QED
      BY <1>11, <3>1, <3>2, <3>3, <3>4, <3>5, <3>6, <3>7
  <2>. QED
    BY <1>1, <1>2, <2>1, <2>2, <2>3
<1>. QED
  BY <1>3, <1>4, <1>5, <1>6, <1>7, <1>8, <1>9, <1>10, <1>11 DEF Step

\* Without a race on the configuration no acknowledged anchor is lost and none
\* comes back: it holds what trust add acknowledged since the last forced init.
THEOREM AnchorsAreAlwaysKept == Spec => []AnchorsAreKept
<1>1. Init => ConfigInv
  BY DEF Init, ConfigInv, Settled, WriterOf, Filling, NoCommand, Absent, File
<1>2. TInv /\ ConfigInv /\ [Next]_vars => ConfigInv'
  <2>1. ASSUME ConfigInv, UNCHANGED vars
        PROVE  ConfigInv'
    BY <2>1 DEF ConfigInv, Settled, WriterOf, Filling, vars, disk, locals, ghosts
  <2>. QED
    BY <2>1, StepConfigInv DEF Next
<1>3. ConfigInv => AnchorsAreKept
  BY DEF ConfigInv, Settled, Filling, AnchorsAreKept
<1>. QED
  BY <1>1, <1>2, <1>3, TypeInvariance, PTL DEF Spec
=============================================================================
