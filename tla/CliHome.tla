------------------------------ MODULE CliHome ------------------------------
(***************************************************************************)
(* The home directory of agentctl: the configuration with its trust        *)
(* anchors, identity and artifact files, sealed keys, and the SQLite file  *)
(* that every command opens and migrates for itself.                       *)
(*                                                                         *)
(* Each command is a process.  It holds no lock, so commands interleave at *)
(* every await, and one may stop anywhere: the process dies, a call throws *)
(* or a passphrase opens no key.  A JSON file is truncated and written in  *)
(* place; a key is written beside its place and renamed; a migration and a *)
(* row are transactions.                                                   *)
(***************************************************************************)
EXTENDS Naturals, Sequences

CONSTANTS
    Proc,        \* running commands
    Identity,    \* credentials that identity create can make
    Delegation,  \* delegations, by their content
    Request,     \* requests
    Signer,      \* the identity that signs each of them
    Authority,   \* the delegation each request is under
    Migrations   \* the number of migrations of the program

Artifact == Delegation \cup Request

ASSUME HomeAssumption ==
    /\ Signer \in [Artifact -> Identity]
    /\ Authority \in [Request -> Delegation]
    /\ Migrations \in Nat \ {0}
    /\ Identity \cap Artifact = {} /\ Delegation \cap Request = {}
    /\ {"config", "product", "none"} \cap (Identity \cup Artifact) = {}

File == {"config", "product"} \cup Identity \cup Artifact

\* A file holds a JSON value, of which only the anchors matter, or no value.
Absent == [state |-> "absent", anchors |-> {}]
Torn == [state |-> "torn", anchors |-> {}]
Whole(anchors) == [state |-> "whole", anchors |-> anchors]

\* The two keys of an identity.
IssuerKey(i) == [of |-> i, role |-> "issuer"]
SubjectKey(i) == [of |-> i, role |-> "subject"]

VARIABLES
    files,        \* the JSON files
    keys,         \* sealed keys
    temporaries,  \* key files that were not renamed yet
    schema,       \* the migrations committed, in order
    rows,         \* signed_artifacts
    pc,           \* where each command stands
    cmd,          \* [op, of, force]: the command
    target,       \* the file it writes
    held,         \* the anchors trust add read
    applied,      \* the migrations it knows to be applied
    kept,         \* anchors acknowledged since the last forced init
    raced         \* the configuration was written by two at once, or half

disk == <<files, keys, temporaries, schema, rows>>
ghosts == <<kept, raced>>
locals == <<cmd, target, held, applied>>
vars == <<disk, pc, locals, ghosts>>

NoCommand == [op |-> "none", of |-> "none", force |-> FALSE]

Init ==
    /\ files = [f \in File |-> Absent]
    /\ keys = {}
    /\ temporaries = {}
    /\ schema = << >>
    /\ rows = {}
    /\ pc = [p \in Proc |-> "idle"]
    /\ cmd = [p \in Proc |-> NoCommand]
    /\ target = [p \in Proc |-> "none"]
    /\ held = [p \in Proc |-> {}]
    /\ applied = [p \in Proc |-> 0]
    /\ kept = {}
    /\ raced = FALSE

At(p, label, op) == pc[p] = label /\ cmd[p].op = op

Goto(p, label) == pc' = [pc EXCEPT ![p] = label]

\* The command ends; what it knew is gone.
End(p) ==
    /\ Goto(p, "idle")
    /\ cmd' = [cmd EXCEPT ![p] = NoCommand]
    /\ target' = [target EXCEPT ![p] = "none"]
    /\ held' = [held EXCEPT ![p] = {}]
    /\ applied' = [applied EXCEPT ![p] = 0]

\* The command goes on to write f.
Write(p, f) ==
    /\ Goto(p, "open")
    /\ target' = [target EXCEPT ![p] = f]

Readable(f) == files[f].state = "whole"

-----------------------------------------------------------------------------
(* Commands *)

InUse(x) == \E p \in Proc : cmd[p].of = x

\* Identities and requests carry random keys and nonces: each is made once.  A
\* delegation made twice in one second is one delegation.
FreshIdentity(i) ==
    /\ files[i] = Absent
    /\ ~InUse(i)
    /\ \A k \in keys \cup temporaries : k.of # i

FreshRequest(r) == files[r] = Absent /\ ~InUse(r)

Run(op, of) == [op |-> op, of |-> of, force |-> FALSE]

Command ==
    {Run("init", "product"), [op |-> "init", of |-> "product", force |-> TRUE],
     Run("inspect", "none")}
    \cup {Run("identity", i) : i \in {j \in Identity : FreshIdentity(j)}}
    \cup {Run("trust", i) : i \in Identity}
    \cup {Run("sign", a) : a \in Delegation \cup {r \in Request : FreshRequest(r)}}
    \cup {Run("verify", a) : a \in Artifact}

Begin(p) ==
    /\ pc[p] = "idle"
    /\ \E c \in Command : cmd' = [cmd EXCEPT ![p] = c]
    /\ Goto(p, "start")
    /\ UNCHANGED <<disk, target, held, applied, ghosts>>

\* The process dies or throws.  A configuration that was truncated stays so.
Stop(p) ==
    /\ pc[p] # "idle"
    /\ End(p)
    /\ raced' = (raced \/ (pc[p] = "fill" /\ target[p] = "config"))
    /\ UNCHANGED <<disk, kept>>

-----------------------------------------------------------------------------
(* writeJson: the file is truncated, then written *)

Open(p) ==
    /\ pc[p] = "open"
    /\ files' = [files EXCEPT ![target[p]] = Torn]
    /\ Goto(p, "fill")
    /\ UNCHANGED <<keys, temporaries, schema, rows, locals, ghosts>>

\* Mutant of Written: the anchors that were read are replaced.
WrittenAlone(p) ==
    IF target[p] = "config" /\ cmd[p].op = "trust" THEN Whole({cmd[p].of}) ELSE Whole({})

\* What the command writes: init no anchors, trust add one more.
Written(p) ==
    IF target[p] = "config" /\ cmd[p].op = "trust" THEN Whole(held[p] \cup {cmd[p].of})
    ELSE Whole({})

\* A text that another command wrote since the truncation is written over: if
\* it was the longer one its end remains, and the file is no JSON.
Overlaid(old, new) ==
    IF old.state = "whole" /\ ~(old.anchors \subseteq new.anchors) THEN {new, Torn} ELSE {new}

\* Another command has looked at the configuration and will write it.
Racing(p) ==
    \E q \in Proc \ {p} : cmd[q].op \in {"init", "trust"} /\ pc[q] # "start"

\* Once its file is written a command goes on: init to the configuration, a
\* signed artifact to its row; trust add and identity create are done.
Fill(p) ==
    /\ pc[p] = "fill"
    /\ \E content \in Overlaid(files[target[p]], Written(p)) :
          files' = [files EXCEPT ![target[p]] = content]
    /\ CASE cmd[p].op = "init" /\ target[p] = "product" ->
              Write(p, "config") /\ UNCHANGED <<cmd, held, applied>>
         [] cmd[p].op = "sign" -> Goto(p, "database") /\ UNCHANGED locals
         [] OTHER -> End(p)
    /\ IF target[p] # "config" THEN UNCHANGED ghosts
       ELSE /\ raced' = (Racing(p) \/ files'["config"] = Torn \/ (raced /\ ~cmd[p].force))
            /\ kept' = CASE cmd[p].op = "trust" -> kept \cup {cmd[p].of}
                         [] cmd[p].force -> {}
                         [] OTHER -> kept
    /\ UNCHANGED <<keys, temporaries, schema, rows>>

-----------------------------------------------------------------------------
(* init *)

Initialise(p) ==
    /\ At(p, "start", "init")
    /\ IF files["config"] # Absent /\ ~cmd[p].force
       THEN End(p)
       ELSE Write(p, "product") /\ UNCHANGED <<cmd, held, applied>>
    /\ UNCHANGED <<disk, ghosts>>

-----------------------------------------------------------------------------
(* identity create --dev-self-issue *)

\* Mutant of CreateIdentity: the file is written before the subject has a key.
CreateIdentityEarly(p) ==
    /\ At(p, "start", "identity")
    /\ IF Readable("config") THEN Write(p, cmd[p].of) /\ UNCHANGED <<cmd, held, applied>>
       ELSE End(p)
    /\ UNCHANGED <<disk, ghosts>>

CreateIdentity(p) ==
    /\ At(p, "start", "identity")
    /\ IF Readable("config") THEN Goto(p, "issuerKey") /\ UNCHANGED locals ELSE End(p)
    /\ UNCHANGED <<disk, ghosts>>

\* The key that create makes next.
Forged(p) == IF pc[p] = "issuerKey" THEN IssuerKey(cmd[p].of) ELSE SubjectKey(cmd[p].of)

\* atomicWrite: the sealed key beside its place ...
Seal(p) ==
    /\ pc[p] \in {"issuerKey", "subjectKey"}
    /\ Forged(p) \notin temporaries
    /\ temporaries' = temporaries \cup {Forged(p)}
    /\ UNCHANGED <<files, keys, schema, rows, pc, locals, ghosts>>

\* ... and renamed.  With both keys the credential is signed and written.
Rename(p) ==
    /\ pc[p] \in {"issuerKey", "subjectKey"}
    /\ Forged(p) \in temporaries
    /\ temporaries' = temporaries \ {Forged(p)}
    /\ keys' = keys \cup {Forged(p)}
    /\ IF pc[p] = "issuerKey" THEN Goto(p, "subjectKey") /\ UNCHANGED target
       ELSE Write(p, cmd[p].of)
    /\ UNCHANGED <<files, schema, rows, cmd, held, applied, ghosts>>

-----------------------------------------------------------------------------
(* trust add --dev-self-issue *)

ReadAnchors(p) ==
    /\ At(p, "start", "trust")
    /\ IF Readable("config")
       THEN /\ held' = [held EXCEPT ![p] = files["config"].anchors]
            /\ Goto(p, "identity")
            /\ UNCHANGED <<cmd, target, applied>>
       ELSE End(p)
    /\ UNCHANGED <<disk, ghosts>>

AddAnchor(p) ==
    /\ At(p, "identity", "trust")
    /\ IF Readable(cmd[p].of) /\ cmd[p].of \notin held[p]
       THEN Write(p, "config") /\ UNCHANGED <<cmd, held, applied>>
       ELSE End(p)
    /\ UNCHANGED <<disk, ghosts>>

-----------------------------------------------------------------------------
(* delegate create and request sign *)

ReadConfig(p) ==
    /\ At(p, "start", "sign")
    /\ IF Readable("config") THEN Goto(p, "evidence") /\ UNCHANGED locals ELSE End(p)
    /\ UNCHANGED <<disk, ghosts>>

\* Mutant of Signable: the identity file alone will do.
SignableUnread(a) == Readable(Signer[a])

\* What the signature needs: the identity, its key, and the delegation's file.
Signable(a) ==
    /\ Readable(Signer[a])
    /\ SubjectKey(Signer[a]) \in keys
    /\ a \in Request => Readable(Authority[a])

SignArtifact(p) ==
    /\ At(p, "evidence", "sign")
    /\ IF Signable(cmd[p].of) THEN Write(p, cmd[p].of) /\ UNCHANGED <<cmd, held, applied>>
       ELSE End(p)
    /\ UNCHANGED <<disk, ghosts>>

-----------------------------------------------------------------------------
(* The SQLite file *)

\* Commands that read only open the database as well: verify for its rows,
\* revoked and provenance for theirs.
StartReading(p) ==
    /\ pc[p] = "start"
    /\ cmd[p].op \in {"verify", "inspect"}
    /\ IF cmd[p].op = "verify" /\ ~Readable(cmd[p].of) THEN End(p)
       ELSE Goto(p, "database") /\ UNCHANGED locals
    /\ UNCHANGED <<disk, ghosts>>

\* The history is read outside of any transaction, and has to be known.
Connect(p) ==
    /\ pc[p] = "database"
    /\ IF Len(schema) <= Migrations /\ \A n \in DOMAIN schema : schema[n] = n
       THEN /\ applied' = [applied EXCEPT ![p] = Len(schema)]
            /\ Goto(p, "migrate")
            /\ UNCHANGED <<cmd, target, held>>
       ELSE End(p)
    /\ UNCHANGED <<disk, ghosts>>

Due(p) == applied[p] + 1

\* Mutant of Migrate: a table that is there already is no error.
MigrateIfMissing(p) ==
    /\ pc[p] = "migrate"
    /\ applied[p] < Migrations
    /\ schema' = Append(schema, Due(p))
    /\ applied' = [applied EXCEPT ![p] = Due(p)]
    /\ UNCHANGED <<files, keys, temporaries, rows, pc, cmd, target, held, ghosts>>

\* One transaction: its tables must be new, or it is rolled back and thrown.
Migrate(p) ==
    /\ pc[p] = "migrate"
    /\ applied[p] < Migrations
    /\ IF \E n \in DOMAIN schema : schema[n] = Due(p)
       THEN End(p) /\ UNCHANGED disk
       ELSE /\ schema' = Append(schema, Due(p))
            /\ applied' = [applied EXCEPT ![p] = Due(p)]
            /\ UNCHANGED <<files, keys, temporaries, rows, pc, cmd, target, held>>
    /\ UNCHANGED ghosts

\* The last part of a command: the row of what was signed, or the answer.
Finish(p) ==
    /\ pc[p] = "migrate"
    /\ applied[p] = Migrations
    /\ rows' = IF cmd[p].op = "sign" THEN rows \cup {cmd[p].of} ELSE rows
    /\ End(p)
    /\ UNCHANGED <<files, keys, temporaries, schema, ghosts>>

-----------------------------------------------------------------------------
Step(p) ==
    \/ Open(p)
    \/ Fill(p)
    \/ Initialise(p)
    \/ CreateIdentity(p)
    \/ Seal(p)
    \/ Rename(p)
    \/ ReadAnchors(p)
    \/ AddAnchor(p)
    \/ ReadConfig(p)
    \/ SignArtifact(p)
    \/ StartReading(p)
    \/ Connect(p)
    \/ Migrate(p)
    \/ Finish(p)

Next == \E p \in Proc : Begin(p) \/ Stop(p) \/ Step(p)

Spec == Init /\ [][Next]_vars

-----------------------------------------------------------------------------
(* Properties *)

\* A row is backed by the directory: its file is there (half written, if the
\* same delegation was made again), its signer has an identity file and both
\* keys, and a request's delegation has its file, whatever stopped where.
RowsAreBacked ==
    \A a \in rows :
        /\ files[a] # Absent
        /\ Readable(Signer[a])
        /\ {IssuerKey(Signer[a]), SubjectKey(Signer[a])} \subseteq keys
        /\ a \in Request => files[Authority[a]] # Absent

\* An identity that can be read can sign, and only such identities are ever
\* anchors: nothing refers to what a stop between two writes left out, and no
\* race on the configuration brings in an anchor that was not there.
IdentitiesAreWhole ==
    /\ \A i \in Identity :
          Readable(i) => {IssuerKey(i), SubjectKey(i)} \subseteq keys
    /\ \A i \in files["config"].anchors : Readable(i)

\* Unless two commands wrote the configuration at once, or one stopped halfway,
\* it holds the anchors that trust add acknowledged since init, and no others.
AnchorsAreKept ==
    \/ raced
    \/ \E p \in Proc : pc[p] = "fill" /\ target[p] = "config"
    \/ files["config"].state # "torn" /\ files["config"].anchors = kept

\* However many commands open a fresh file at once, each migration is committed
\* once and in order, and a row is stored under the full schema.
SchemaIsPrefix ==
    /\ Len(schema) <= Migrations
    /\ \A n \in DOMAIN schema : schema[n] = n
    /\ rows # {} => Len(schema) = Migrations
=============================================================================
