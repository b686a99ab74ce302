--------------------------- MODULE SignedEvidence ---------------------------
(***************************************************************************)
(* Signed artifacts as the verifiers of packages/core see them, and the    *)
(* checks that verify.ts and delegation.ts both make, each in a copy of    *)
(* its own.                                                                *)
(*                                                                         *)
(* An artifact is a record.  Each has id, kind, kid (its proof's key),     *)
(* formed (PARSE and VERSION find no fault) and genuine (its signature is  *)
(* by the key kid); further                                                *)
(*   credential  purpose, issuer, subject, key, issued, window, ceiling    *)
(*   delegation  delegator, delegate, parent, ceiling                      *)
(*   request     signer, parent, issued, window, audience, action,         *)
(*               resource, task, linked (its digests are the expected)     *)
(*   key_status  publisher, target, sequence, previous, state, asOf, until *)
(*   revocation  publisher, type, target, effective                        *)
(* where parent is [kind, id], window is [from, until] and a ceiling, the  *)
(* constraints, is [capabilities, resources, tasks, audiences, depth,      *)
(* from, until].  An id is derived from the content, so previous_digest is *)
(* the id of the record it links to.                                       *)
(*                                                                         *)
(* A trust snapshot is [issuers, publishers, roots, water, maxDepth, skew, *)
(* policy]: the role sets map key to principal.                            *)
(***************************************************************************)
EXTENDS Integers, Sequences, FiniteSets

Elements(s) == {s[i] : i \in DOMAIN s}

\* Array.find: the first element of s that is in S.
Find(s, S) == s[CHOOSE i \in DOMAIN s : s[i] \in S /\ \A j \in 1 .. (i - 1) : s[j] \notin S]

\* A loop over checks returns at the first that fails.
FirstFault(faults) ==
    LET failing == {i \in DOMAIN faults : faults[i] # "none"}
    IN  IF failing = {} THEN "none"
        ELSE faults[CHOOSE i \in failing : \A j \in failing : i <= j]

OfKind(s, kinds) == {a \in Elements(s) : a.kind \in kinds}

Roots(s) == {c \in OfKind(s, {"credential"}) : c.purpose = "agent-root-authority"}

Distinct(s) == \A i, j \in DOMAIN s : s[i].id = s[j].id => i = j

-----------------------------------------------------------------------------
(* CRYPTO *)

\* The key of the proof is one the snapshot pins for the artifact's role.
Pinned(a, snapshot) ==
    \/ a.kind = "credential" /\ a.kid \in DOMAIN snapshot.issuers
    \/ a.kind \in {"key_status", "revocation"} /\ a.kid \in DOMAIN snapshot.publishers

\* The credential of a key: the Map keeps the last that names it.
HasHolder(s, key) == \E i \in DOMAIN s : s[i].kind = "credential" /\ s[i].key = key

Holder(s, key) ==
    s[CHOOSE i \in DOMAIN s :
        /\ s[i].kind = "credential" /\ s[i].key = key
        /\ \A j \in (i + 1) .. Len(s) : s[j].kind = "credential" => s[j].key # key].subject

StatedSigner(a) == IF a.kind = "delegation" THEN a.delegator ELSE a.signer

CryptoFault(a, s, snapshot) ==
    IF ~Pinned(a, snapshot) /\ ~HasHolder(s, a.kid)
      THEN IF a.kind # "credential" THEN "MISSING_REFERENCE"
           ELSE IF \E k \in DOMAIN snapshot.issuers : snapshot.issuers[k] = a.issuer
             THEN "UNTRUSTED_KEY" ELSE "UNTRUSTED_ISSUER"
    ELSE IF ~a.genuine THEN "INVALID_SIGNATURE"
    ELSE IF /\ a.kind \in {"delegation", "request"}
            /\ Holder(s, a.kid) # StatedSigner(a) THEN "SIGNER_MISMATCH"
    ELSE IF /\ a.kind \in {"key_status", "revocation"}
            /\ ~Pinned(a, snapshot) \/ snapshot.publishers[a.kid] # a.publisher THEN "UNTRUSTED_KEY"
    ELSE "none"

CryptoFaults(s, snapshot) == FirstFault([i \in DOMAIN s |-> CryptoFault(s[i], s, snapshot)])

-----------------------------------------------------------------------------
(* TIME and TRUST *)

Spans(a) ==
    CASE a.kind = "credential" -> {a.window, a.ceiling}
      [] a.kind = "delegation" -> {a.ceiling}
      [] a.kind = "request" -> {a.window}
      [] OTHER -> {}

Ordered(a) ==
    /\ a.kind \in {"credential", "request"} => a.window.from <= a.issued /\ a.issued <= a.window.until
    /\ \A w \in Spans(a) : w.from <= w.until

TimeFault(a, now, skew) ==
    IF ~Ordered(a) THEN "INVALID_TIME_INTERVAL"
    ELSE IF \E w \in Spans(a) : now < w.from - skew THEN "NOT_YET_VALID"
    ELSE IF \E w \in Spans(a) : now > w.until + skew THEN "EXPIRED"
    ELSE "none"

TimeFaults(s, now, skew) == FirstFault([i \in DOMAIN s |-> TimeFault(s[i], now, skew)])

RootFault(root, snapshot) ==
    IF root.kid \notin DOMAIN snapshot.issuers \/ snapshot.issuers[root.kid] # root.issuer
      THEN "UNTRUSTED_ISSUER"
    ELSE IF [issuer |-> root.issuer, subject |-> root.subject] \notin snapshot.roots
      THEN "MIXED_TRUST_ROOT"
    ELSE "none"

-----------------------------------------------------------------------------
(* CHAIN and STATUS *)

Dimensions == {"capabilities", "resources", "tasks", "audiences"}

\* Mutant of Attenuates: the depth may stay.
AttenuatesAtDepth(child, parent) ==
    /\ child.depth <= parent.depth
    /\ parent.from <= child.from /\ child.until <= parent.until
    /\ \A d \in Dimensions : child[d] \subseteq parent[d]

Attenuates(child, parent) ==
    /\ child.depth < parent.depth
    /\ parent.from <= child.from /\ child.until <= parent.until
    /\ \A d \in Dimensions : child[d] \subseteq parent[d]

StatusOf(s, key) == {r \in Elements(s) : r.kind = "key_status" /\ r.target = key}

\* The record of the highest sequence, whoever publishes it.
StatusFor(s, key) ==
    LET records == StatusOf(s, key)
    IN  Find(s, {r \in records : \A q \in records : q.sequence <= r.sequence})

\* The publisher's records on the key run from 1, each linked to the one before,
\* and the selected record is the last.
StatusChainValid(s, selected) ==
    LET stream == {i \in DOMAIN s : /\ s[i].kind = "key_status" /\ s[i].target = selected.target
                                    /\ s[i].publisher = selected.publisher}
    IN  /\ {s[i].sequence : i \in stream} = 1 .. selected.sequence
        /\ \A i, j \in stream :
              /\ s[i].sequence = s[j].sequence => i = j
              /\ s[i].sequence = s[j].sequence + 1 => s[i].previous = s[j].id
        /\ \A i \in stream : s[i].sequence = 1 => s[i].previous = "null"

AtHighWater(selected, snapshot) ==
    [publisher |-> selected.publisher, target |-> selected.target,
     sequence |-> selected.sequence, digest |-> selected.id] \in snapshot.water

Revokes(r, ids, keys, now) ==
    /\ r.kind = "revocation" /\ r.effective <= now
    /\ r.target \in (IF r.type = "key" THEN keys ELSE ids)
=============================================================================
