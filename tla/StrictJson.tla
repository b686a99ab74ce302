----------------------------- MODULE StrictJson -----------------------------
(***************************************************************************)
(* parseStrictJson (protocol/parse.ts), the first thing that happens to    *)
(* bytes from outside, one token at a time: scanForDuplicateMembers, a     *)
(* recursive descent whose calls are a stack here, then JSON.parse and     *)
(* assertIJson.  Tokens are the punctuation by name, strings as they are   *)
(* spelled (escapes let one string be spelled in several ways), and        *)
(*   "lone"      a string with an unpaired surrogate                       *)
(*   "n", "big"  a literal, and an integer that no double holds exactly    *)
(* White space and the characters of strings and literals are left out.    *)
(***************************************************************************)
EXTENDS Naturals, Sequences, FiniteSets

CONSTANTS
    MaxTokens,  \* bound on the length of the input
    Decoded     \* what JSON.parse makes of each string, as it is spelled

Punctuation == {"lbrace", "rbrace", "lbracket", "rbracket", "colon", "comma"}

\* Spellings are told apart from the other tokens.
ASSUME TokensAssumption ==
    MaxTokens \in Nat /\ DOMAIN Decoded \cap (Punctuation \cup {"lone", "n", "big"}) = {}

VARIABLES
    read,    \* the tokens so far
    calls,   \* the calls of value() under way: [of, members], innermost last
    expect,  \* what the innermost call looks at next
    result   \* "reading", "accepted" or why not

jsonVars == <<read, calls, expect, result>>

Strings == DOMAIN Decoded
Names == {Decoded[t] : t \in Strings}
Atoms == Strings \cup {"lone", "n", "big"}
Tokens == Punctuation \cup Atoms

InitJson == read = << >> /\ calls = << >> /\ expect = "value" /\ result = "reading"

-----------------------------------------------------------------------------
Depth == Len(calls)

To(next) == [calls |-> calls, expect |-> next]

Enter(of, next) == [calls |-> Append(calls, [of |-> of, members |-> {}]), expect |-> next]

\* A value is complete: the call that waits for it goes on.
Complete(waiting) ==
    [calls |-> waiting, expect |-> IF waiting = << >> THEN "end" ELSE "rest"]

Leave == Complete(SubSeq(calls, 1, Depth - 1))

\* Mutant of Repeats: members are compared as they are spelled.
RepeatsSpelling(t) == t \in calls[Depth].members

Repeats(t) == Decoded[t] \in calls[Depth].members

WithMember(t) ==
    [calls |-> [calls EXCEPT ![Depth].members = @ \cup {Decoded[t]}], expect |-> "colon"]

InObject == calls[Depth].of = "object"

OnlyIf(condition, move) == IF condition THEN {move} ELSE {}

\* Where a token takes the scanner; nowhere if it is refused.
OfValue(t) ==
    OnlyIf(t = "lbrace", Enter("object", "firstKey"))
    \cup OnlyIf(t = "lbracket", Enter("array", "firstValue"))
    \cup OnlyIf(t \in Atoms, Complete(calls))

OfKey(t) == IF t \notin Strings \/ Repeats(t) THEN {} ELSE {WithMember(t)}

Moves(t) ==
    CASE expect = "value" -> OfValue(t)
      [] expect = "firstValue" -> OfValue(t) \cup OnlyIf(t = "rbracket", Leave)
      [] expect = "key" -> OfKey(t)
      [] expect = "firstKey" -> OfKey(t) \cup OnlyIf(t = "rbrace", Leave)
      [] expect = "colon" -> OnlyIf(t = "colon", To("value"))
      [] expect = "rest" -> OnlyIf(t = "comma", To(IF InObject THEN "key" ELSE "value"))
                            \cup OnlyIf(t = (IF InObject THEN "rbrace" ELSE "rbracket"), Leave)
      [] expect = "end" -> {}

Read(t) ==
    /\ result = "reading" /\ Len(read) < MaxTokens
    /\ read' = Append(read, t)

Scan ==
    \E t \in Tokens : \E move \in Moves(t) :
        /\ Read(t)
        /\ calls' = move.calls
        /\ expect' = move.expect
        /\ UNCHANGED result

Refuse ==
    \E t \in Tokens :
        /\ Moves(t) = {}
        /\ Read(t)
        /\ result' = IF expect \in {"key", "firstKey"} /\ t \in Strings
                       THEN "DUPLICATE_MEMBER" ELSE "MALFORMED_JSON"
        /\ UNCHANGED <<calls, expect>>

\* assertIJson over the whole value.
IsIJson == \A i \in DOMAIN read : read[i] \notin {"lone", "big"}

\* The input is at its end; "incomplete" is MALFORMED_JSON too.
EndOfInput ==
    /\ result = "reading"
    /\ result' = IF expect = "end" /\ IsIJson THEN "accepted" ELSE "incomplete"
    /\ UNCHANGED <<read, calls, expect>>

NextJson == Scan \/ Refuse \/ EndOfInput

-----------------------------------------------------------------------------
(* The documents: I-JSON values whose objects have no member twice, by the *)
(* grammar of JSON and the number of tokens.                               *)

Joined(left, right) == UNION {{l \o (<<"comma">> \o r) : r \in right} : l \in left}

Enclosed(open, insides, close) == {<<open>> \o (s \o <<close>>) : s \in insides}

Member(k, values) == {<<k, "colon">> \o v : v \in values}

\* No tokens: no value, and nothing in an array or an object.  What is in an
\* object is told apart by the names of its members.
Nothing ==
    [values |-> {}, items |-> {<< >>},
     members |-> [names \in SUBSET Names |-> IF names = {} THEN {<< >>} ELSE {}]]

\* What n tokens make of shorter parts.
Longer(n, shorter) ==
    LET values ==
          IF n = 1 THEN {<<t>> : t \in Strings \cup {"n"}}
          ELSE Enclosed("lbracket", shorter[n - 2].items, "rbracket")
               \cup Enclosed("lbrace", UNION {shorter[n - 2].members[names] : names \in SUBSET Names}, "rbrace")
        First(names) == {k \in Strings : Decoded[k] \in names}
    IN  [values |-> values,
         items |-> values \cup
           UNION {Joined(shorter[i].values, shorter[n - 1 - i].items) : i \in 1 .. (n - 2)},
         members |-> [names \in SUBSET Names |->
           (UNION {Member(k, IF n > 2 THEN shorter[n - 2].values ELSE {}) :
                     k \in {f \in First(names) : names = {Decoded[f]}}})
           \cup UNION {UNION {Joined(Member(k, shorter[i].values),
                                     shorter[n - 3 - i].members[names \ {Decoded[k]}]) :
                                k \in First(names)} : i \in 1 .. (n - 4)}]]

\* The parts of 0 to n tokens.
UpTo[n \in Nat] ==
    IF n = 0 THEN [i \in {0} |-> Nothing]
    ELSE LET shorter == UpTo[n - 1]
         IN  [i \in 0 .. n |-> IF i < n THEN shorter[i] ELSE Longer(n, shorter)]

Documents == UNION {UpTo[MaxTokens][n].values : n \in 1 .. MaxTokens}

Beginnings == UNION {{SubSeq(d, 1, i) : i \in 0 .. Len(d)} : d \in Documents}

\* Exactly the documents are accepted, whole, and a token is refused only where
\* no document goes on with it: the scan and JSON.parse after it agree, and no
\* member hides behind another of its name.
ScansExactly ==
    /\ result = "accepted" => read \in Documents
    /\ result \notin {"accepted", "reading"} => read \notin Documents
    /\ result \in {"MALFORMED_JSON", "DUPLICATE_MEMBER"} => read \notin Beginnings
=============================================================================
