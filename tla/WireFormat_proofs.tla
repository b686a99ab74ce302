-------------------------- MODULE WireFormat_proofs --------------------------
(***************************************************************************)
(* Proofs about WireFormat: the scanner accepts exactly the documents of   *)
(* the grammar, for any strings, what they decode to and any number of     *)
(* tokens; and what a receiver accepts of artifacts that were altered on   *)
(* the way, for any keys, kinds and number of alterations.                 *)
(***************************************************************************)
EXTENDS WireFormat, SequenceTheorems, WellFoundedInduction, TLAPS

-----------------------------------------------------------------------------
(* Induction by the least counterexample, and UpTo as its own equation *)

\* Every set of numbers that is not empty has a least one.
LEMMA LeastOf ==
    ASSUME NEW S, S \subseteq Nat, S # {}
    PROVE  \E i \in S : \A j \in S : i <= j
<1> DEFINE R == {ss \in Nat \X Nat : ss[1] < ss[2]}
<1>1. IsWellFoundedOn(R, Nat)
  BY NatLessThanWellFounded DEF OpToRel
<1> HIDE DEF R
<1>2. PICK i \in S : \A j \in S : ~(<<j, i>> \in R)
  BY <1>1, WFMin
<1>3. ASSUME NEW j \in S, j < i
      PROVE  FALSE
  <2>1. <<j, i>> \in Nat \X Nat /\ <<j, i>>[1] < <<j, i>>[2]
    BY <1>3
  <2>2. <<j, i>> \in R
    BY <2>1, Zenon DEF R
  <2>. QED
    BY <1>2, <2>2
<1>. QED
  BY <1>3, SMT

\* The body of UpTo, of any function in its place.
OneMore(f, n) ==
    IF n = 0 THEN [i \in {0} |-> Nothing]
    ELSE [i \in 0 .. n |-> IF i < n THEN f[n - 1][i] ELSE Longer(n, f[n - 1])]

\* The body looks at the one part before only.
LEMMA OneMoreSame ==
    ASSUME NEW f, NEW g, NEW n \in Nat, n # 0 => f[n - 1] = g[n - 1]
    PROVE  OneMore(f, n) = OneMore(g, n)
BY DEF OneMore

\* f satisfies the equation of UpTo from 0 to n.
StartOf(f, n) == f = [m \in 0 .. n |-> OneMore(f, m)]

\* Two such functions agree where both are defined.
LEMMA StartsAgree ==
    ASSUME NEW n \in Nat, NEW m \in Nat, NEW f, NEW g, StartOf(f, n), StartOf(g, m)
    PROVE  \A i \in Nat : i <= n /\ i <= m => f[i] = g[i]
<1> DEFINE Bad == {i \in Nat : i <= n /\ i <= m /\ f[i] # g[i]}
<1>1. ASSUME Bad # {}
      PROVE  FALSE
  <2>1. PICK i \in Bad : \A j \in Bad : i <= j
    BY <1>1, LeastOf
  <2>2. i \in 0 .. n /\ i \in 0 .. m /\ (i # 0 => i - 1 \in Nat /\ i - 1 <= n /\ i - 1 <= m /\ ~(i <= i - 1))
    BY <2>1
  <2>3. f[i] = OneMore(f, i) /\ g[i] = OneMore(g, i)
    <3>1. \A h, k : h = [x \in 0 .. k |-> OneMore(h, x)] /\ i \in 0 .. k => h[i] = OneMore(h, i)
      OBVIOUS
    <3>. QED
      BY <2>2, <3>1 DEF StartOf
  <2>4. i # 0 => f[i - 1] = g[i - 1]
    BY <2>1, <2>2
  <2>5. OneMore(f, i) = OneMore(g, i)
    BY <2>1, <2>4, OneMoreSame
  <2>. QED
    BY <2>1, <2>3, <2>5
<1>. QED
  BY <1>1

\* There is one up to any n.
LEMMA StartsExist ==
    \A n \in Nat : \E f : StartOf(f, n)
<1> DEFINE Bad == {n \in Nat : ~ \E f : StartOf(f, n)}
<1>1. ASSUME Bad # {}
      PROVE  FALSE
  <2>1. PICK n \in Bad : \A m \in Bad : n <= m
    BY <1>1, LeastOf
  <2>2. CASE n = 0
    <3> DEFINE f == [m \in 0 .. 0 |-> [i \in {0} |-> Nothing]]
    <3>1. \A m \in 0 .. 0 : OneMore(f, m) = [i \in {0} |-> Nothing]
      BY DEF OneMore
    <3>2. f = [m \in 0 .. 0 |-> OneMore(f, m)]
      BY <3>1
    <3>. QED
      BY <2>1, <2>2, <3>2 DEF StartOf
  <2>3. CASE n # 0
    <3>1. n \in Nat /\ n - 1 \in Nat /\ ~(n <= n - 1)
      BY <2>1, <2>3
    <3>2. PICK f : StartOf(f, n - 1)
      BY <2>1, <3>1
    <3> DEFINE h == [m \in 0 .. n |-> IF m = n THEN OneMore(f, n) ELSE f[m]]
    <3>3. \A m \in 0 .. n : m # n => h[m] = f[m] /\ m \in 0 .. (n - 1)
      BY <3>1
    <3>4. h[n] = OneMore(f, n)
      BY <3>1
    <3>5. \A m \in 0 .. (n - 1) : f[m] = OneMore(f, m)
      <4>1. \A g, k : g = [x \in 0 .. k |-> OneMore(g, x)] => \A m \in 0 .. k : g[m] = OneMore(g, m)
        OBVIOUS
      <4>. QED
        BY <3>2, <4>1 DEF StartOf
    <3>6. ASSUME NEW m \in 0 .. n
          PROVE  h[m] = OneMore(h, m)
      <4>1. m # 0 => m - 1 \in 0 .. n /\ m - 1 # n
        BY <3>1
      <4>2. m # 0 => h[m - 1] = f[m - 1]
        BY <3>3, <4>1
      <4>3. OneMore(f, m) = OneMore(h, m)
        <5> HIDE DEF h
        <5>. QED
          BY <4>2, OneMoreSame
      <4>. QED
        BY <3>3, <3>4, <3>5, <4>3
    <3>7. h = [m \in 0 .. n |-> OneMore(h, m)]
      <4>1. \A g, k : [m \in 0 .. n |-> k] = [m \in 0 .. n |-> k]
        OBVIOUS
      <4>2. DOMAIN h = 0 .. n /\ h = [m \in 0 .. n |-> h[m]]
        OBVIOUS
      <4> HIDE DEF h
      <4>. QED
        BY <3>6, <4>2
    <3>. QED
      BY <2>1, <3>7 DEF StartOf
  <2>. QED
    BY <2>2, <2>3
<1>. QED
  BY <1>1

\* So UpTo satisfies its own equation.
LEMMA UpToIs == \A n \in Nat : UpTo[n] = OneMore(UpTo, n)
<1> DEFINE G(n) == CHOOSE f : StartOf(f, n)
           u == [n \in Nat |-> G(n)[n]]
<1>1. \A n \in Nat : StartOf(G(n), n)
  BY StartsExist
<1> HIDE DEF G
<1>2. ASSUME NEW n \in Nat
      PROVE  u[n] = OneMore(u, n)
  <2>1. G(n)[n] = OneMore(G(n), n)
    <3>1. \A g, k : k \in Nat /\ g = [x \in 0 .. k |-> OneMore(g, x)] => g[k] = OneMore(g, k)
      OBVIOUS
    <3>. QED
      BY <1>1, <3>1 DEF StartOf
  <2>2. n # 0 => G(n)[n - 1] = G(n - 1)[n - 1]
    <3>1. n # 0 => n - 1 \in Nat /\ n - 1 <= n
      OBVIOUS
    <3>. QED
      BY <1>1, <3>1, StartsAgree
  <2>3. n # 0 => u[n - 1] = G(n)[n - 1]
    BY <2>2
  <2>4. OneMore(u, n) = OneMore(G(n), n)
    <3> HIDE DEF u
    <3>. QED
      BY <2>3, OneMoreSame
  <2>. QED
    BY <2>1, <2>4
<1>3. u = [n \in Nat |-> OneMore(u, n)]
  <2>1. u = [n \in Nat |-> u[n]]
    OBVIOUS
  <2> HIDE DEF u
  <2>. QED
    BY <1>2, <2>1
<1> HIDE DEF u
<1>4. \E f : f = [n \in Nat |-> OneMore(f, n)]
  BY <1>3
<1>5. UpTo = CHOOSE f : f = [n \in Nat |-> OneMore(f, n)]
  BY DEF UpTo, OneMore
<1>6. UpTo = [n \in Nat |-> OneMore(UpTo, n)]
  BY <1>4, <1>5
<1>7. \A f : f = [n \in Nat |-> OneMore(f, n)] => \A n \in Nat : f[n] = OneMore(f, n)
  OBVIOUS
<1>. QED
  BY <1>6, <1>7

\* A part, once there, stays as it is in the longer histories.
LEMMA UpToSame == \A n \in Nat : \A i \in 0 .. n : UpTo[n][i] = UpTo[i][i]
<1> DEFINE Bad == {n \in Nat : \E i \in 0 .. n : UpTo[n][i] # UpTo[i][i]}
<1>1. ASSUME Bad # {}
      PROVE  FALSE
  <2>1. PICK n \in Bad : \A m \in Bad : n <= m
    BY <1>1, LeastOf
  <2>2. PICK i \in 0 .. n : UpTo[n][i] # UpTo[i][i]
    BY <2>1
  <2>3. n \in Nat /\ n # 0 /\ i < n /\ n - 1 \in Nat /\ ~(n <= n - 1) /\ i \in 0 .. (n - 1)
    BY <2>1, <2>2
  <2>4. UpTo[n][i] = UpTo[n - 1][i]
    BY <2>2, <2>3, UpToIs DEF OneMore
  <2>5. UpTo[n - 1][i] = UpTo[i][i]
    BY <2>1, <2>3
  <2>. QED
    BY <2>2, <2>4, <2>5
<1>. QED
  BY <1>1

-----------------------------------------------------------------------------
(* The parts of n tokens *)

\* The tokens assertIJson lets pass.
Clean == Tokens \ {"lone", "big"}

\* The parts of exactly n tokens.
Part(n) == UpTo[n][n]

\* What there is without tokens, and what n tokens make of fewer.
LEMMA PartIs ==
    /\ Part(0) = Nothing
    /\ \A n \in Nat \ {0} : /\ Part(n) = Longer(n, UpTo[n - 1])
                            /\ \A i \in 0 .. (n - 1) : UpTo[n - 1][i] = Part(i)
<1>1. UpTo[0] = [i \in {0} |-> Nothing]
  BY UpToIs DEF OneMore
<1>2. ASSUME NEW n \in Nat \ {0}
      PROVE  /\ UpTo[n][n] = Longer(n, UpTo[n - 1])
             /\ \A i \in 0 .. (n - 1) : UpTo[n - 1][i] = UpTo[i][i]
  <2>1. UpTo[n] = [i \in 0 .. n |-> IF i < n THEN UpTo[n - 1][i] ELSE Longer(n, UpTo[n - 1])]
    BY UpToIs DEF OneMore
  <2>. QED
    BY <2>1, UpToSame
<1>. QED
  BY <1>1, <1>2 DEF Part

\* Sequences of n clean tokens.
Words(n) == {s \in Seq(Clean) : Len(s) = n}

\* What is joined, with the sets opened.
LEMMA JoinedIs ==
    ASSUME NEW left, NEW right
    PROVE  \A s : s \in Joined(left, right) <=> \E l \in left : \E r \in right : s = l \o (<<"comma">> \o r)
<1>1. ASSUME NEW l \in left, NEW r \in right
      PROVE  l \o (<<"comma">> \o r) \in Joined(left, right)
  <2>1. l \o (<<"comma">> \o r) \in {l \o (<<"comma">> \o rr) : rr \in right}
    OBVIOUS
  <2>2. {l \o (<<"comma">> \o rr) : rr \in right} \in {{ll \o (<<"comma">> \o rr) : rr \in right} : ll \in left}
    BY Zenon
  <2>. QED
    BY <2>1, <2>2, Zenon DEF Joined
<1>2. ASSUME NEW s \in Joined(left, right)
      PROVE  \E l \in left : \E r \in right : s = l \o (<<"comma">> \o r)
  BY DEF Joined
<1>. QED
  BY <1>1, <1>2

\* Joining adds one token, the comma.
LEMMA JoinedTyped ==
    ASSUME NEW i \in Nat, NEW j \in Nat, NEW left, NEW right,
           left \subseteq Words(i), right \subseteq Words(j)
    PROVE  Joined(left, right) \subseteq Words(i + 1 + j)
<1>1. ASSUME NEW l \in left, NEW r \in right
      PROVE  l \o (<<"comma">> \o r) \in Words(i + 1 + j)
  <2>1. l \in Seq(Clean) /\ Len(l) = i /\ r \in Seq(Clean) /\ Len(r) = j
    BY DEF Words
  <2>2. <<"comma">> \in Seq(Clean) /\ Len(<<"comma">>) = 1
    BY DEF Clean, Tokens, Punctuation
  <2>3. <<"comma">> \o r \in Seq(Clean) /\ Len(<<"comma">> \o r) = 1 + j
    BY <2>1, <2>2, ConcatProperties
  <2>4. l \o (<<"comma">> \o r) \in Seq(Clean) /\ Len(l \o (<<"comma">> \o r)) = i + (1 + j)
    BY <2>1, <2>3, ConcatProperties
  <2>. QED
    BY <2>4 DEF Words
<1>2. ASSUME NEW s \in Joined(left, right)
      PROVE  s \in Words(i + 1 + j)
  <2>1. PICK l \in left, r \in right : s = l \o (<<"comma">> \o r)
    BY JoinedIs
  <2>. QED
    BY <1>1, <2>1
<1>. QED
  BY <1>2

\* Enclosing adds two tokens.
LEMMA EnclosedTyped ==
    ASSUME NEW i \in Nat, NEW insides, insides \subseteq Words(i), NEW open \in Clean, NEW close \in Clean
    PROVE  Enclosed(open, insides, close) \subseteq Words(i + 2)
<1>1. ASSUME NEW s \in insides
      PROVE  <<open>> \o (s \o <<close>>) \in Words(i + 2)
  <2>1. s \in Seq(Clean) /\ Len(s) = i
    BY DEF Words
  <2>2. <<open>> \in Seq(Clean) /\ Len(<<open>>) = 1 /\ <<close>> \in Seq(Clean) /\ Len(<<close>>) = 1
    OBVIOUS
  <2>3. s \o <<close>> \in Seq(Clean) /\ Len(s \o <<close>>) = i + 1
    BY <2>1, <2>2, ConcatProperties
  <2>4. <<open>> \o (s \o <<close>>) \in Seq(Clean) /\ Len(<<open>> \o (s \o <<close>>)) = 1 + (i + 1)
    BY <2>2, <2>3, ConcatProperties
  <2>. QED
    BY <2>4 DEF Words
<1>. QED
  BY <1>1 DEF Enclosed

\* A member is two tokens longer than its value.
LEMMA MemberTyped ==
    ASSUME NEW i \in Nat, NEW values, values \subseteq Words(i), NEW k \in Strings
    PROVE  Member(k, values) \subseteq Words(i + 2)
<1>1. ASSUME NEW v \in values
      PROVE  <<k, "colon">> \o v \in Words(i + 2)
  <2>1. v \in Seq(Clean) /\ Len(v) = i
    BY DEF Words
  <2>2. k \in Clean /\ "colon" \in Clean
    BY TokensAssumption DEF Clean, Tokens, Atoms, Strings, Punctuation
  <2>3. <<k, "colon">> \in Seq(Clean) /\ Len(<<k, "colon">>) = 2
    BY <2>2
  <2>4. <<k, "colon">> \o v \in Seq(Clean) /\ Len(<<k, "colon">> \o v) = 2 + i
    BY <2>1, <2>3, ConcatProperties
  <2>. QED
    BY <2>4 DEF Words
<1>. QED
  BY <1>1 DEF Member

\* The type of the parts of n tokens.
Level(n) == [values : SUBSET Words(n), items : SUBSET Words(n),
             members : [SUBSET Names -> SUBSET Words(n)]]

\* The parts of n tokens have n clean tokens, if the shorter ones do.
LEMMA LongerTyped ==
    ASSUME NEW n \in Nat \ {0}, NEW shorter, \A i \in 0 .. (n - 1) : shorter[i] \in Level(i)
    PROVE  Longer(n, shorter) \in Level(n)
<1> DEFINE values == IF n = 1 THEN {<<t>> : t \in Strings \cup {"n"}}
                     ELSE Enclosed("lbracket", shorter[n - 2].items, "rbracket")
                          \cup Enclosed("lbrace", UNION {shorter[n - 2].members[names] : names \in SUBSET Names}, "rbrace")
           First(names) == {k \in Strings : Decoded[k] \in names}
           one(names) == UNION {Member(k, IF n > 2 THEN shorter[n - 2].values ELSE {}) :
                                   k \in {f \in First(names) : names = {Decoded[f]}}}
           pair(names, i, k) == Joined(Member(k, shorter[i].values),
                                       shorter[n - 3 - i].members[names \ {Decoded[k]}])
           more(names) == UNION {UNION {pair(names, i, k) : k \in First(names)} : i \in 1 .. (n - 4)}
           lists == UNION {Joined(shorter[i].values, shorter[n - 1 - i].items) : i \in 1 .. (n - 2)}
<1>1. \A i \in 0 .. (n - 1) : /\ shorter[i].values \subseteq Words(i)
                              /\ shorter[i].items \subseteq Words(i)
                              /\ \A names \in SUBSET Names : shorter[i].members[names] \subseteq Words(i)
  BY DEF Level
<1>2. values \subseteq Words(n)
  <2>1. CASE n = 1
    <3>1. \A t \in Clean : <<t>> \in Words(1)
      BY DEF Words
    <3>2. Strings \cup {"n"} \subseteq Clean
      BY TokensAssumption DEF Clean, Tokens, Atoms, Strings, Punctuation
    <3>. QED
      BY <2>1, <3>1, <3>2
  <2>2. CASE n # 1
    <3>1. n - 2 \in 0 .. (n - 1) /\ n - 2 \in Nat /\ (n - 2) + 2 = n
      BY <2>2
    <3>2. {"lbracket", "rbracket", "lbrace", "rbrace"} \subseteq Clean
      BY DEF Clean, Tokens, Atoms, Punctuation
    <3>3. Enclosed("lbracket", shorter[n - 2].items, "rbracket") \subseteq Words(n)
      BY <1>1, <3>1, <3>2, EnclosedTyped
    <3>4. UNION {shorter[n - 2].members[names] : names \in SUBSET Names} \subseteq Words(n - 2)
      BY <1>1, <3>1
    <3>5. Enclosed("lbrace", UNION {shorter[n - 2].members[names] : names \in SUBSET Names}, "rbrace") \subseteq Words(n)
      BY <3>1, <3>2, <3>4, EnclosedTyped
    <3>. QED
      BY <2>2, <3>3, <3>5
  <2>. QED
    BY <2>1, <2>2
<1>3. lists \subseteq Words(n)
  <2>1. ASSUME NEW i \in 1 .. (n - 2)
        PROVE  Joined(shorter[i].values, shorter[n - 1 - i].items) \subseteq Words(n)
    <3>1. i \in 0 .. (n - 1) /\ n - 1 - i \in 0 .. (n - 1) /\ i \in Nat /\ n - 1 - i \in Nat
          /\ i + 1 + (n - 1 - i) = n
      OBVIOUS
    <3>2. shorter[i].values \subseteq Words(i) /\ shorter[n - 1 - i].items \subseteq Words(n - 1 - i)
      BY <1>1, <3>1
    <3>3. Joined(shorter[i].values, shorter[n - 1 - i].items) \subseteq Words(i + 1 + (n - 1 - i))
      BY <3>1, <3>2, JoinedTyped
    <3>. QED
      BY <3>1, <3>3
  <2>. QED
    BY <2>1
<1>4. ASSUME NEW names \in SUBSET Names
      PROVE  one(names) \subseteq Words(n)
  <2>1. ASSUME NEW k \in Strings
        PROVE  Member(k, IF n > 2 THEN shorter[n - 2].values ELSE {}) \subseteq Words(n)
    <3>1. CASE n > 2
      <4>1. n - 2 \in 0 .. (n - 1) /\ n - 2 \in Nat /\ (n - 2) + 2 = n
        BY <3>1
      <4>. QED
        BY <1>1, <3>1, <4>1, MemberTyped
    <3>2. CASE ~(n > 2)
      BY <3>2 DEF Member
    <3>. QED
      BY <3>1, <3>2
  <2>. QED
    BY <2>1
<1>5. ASSUME NEW names \in SUBSET Names
      PROVE  more(names) \subseteq Words(n)
  <2>1. ASSUME NEW i \in 1 .. (n - 4), NEW k \in Strings
        PROVE  Joined(Member(k, shorter[i].values), shorter[n - 3 - i].members[names \ {Decoded[k]}])
                 \subseteq Words(n)
    <3>1. i \in 0 .. (n - 1) /\ n - 3 - i \in 0 .. (n - 1) /\ i \in Nat /\ i + 2 \in Nat /\ n - 3 - i \in Nat
          /\ (i + 2) + 1 + (n - 3 - i) = n
      OBVIOUS
    <3>2. Member(k, shorter[i].values) \subseteq Words(i + 2)
      BY <1>1, <3>1, MemberTyped
    <3>3. shorter[n - 3 - i].members[names \ {Decoded[k]}] \subseteq Words(n - 3 - i)
      <4>1. names \ {Decoded[k]} \in SUBSET Names
        OBVIOUS
      <4>. QED
        BY <1>1, <3>1, <4>1
    <3>4. Joined(Member(k, shorter[i].values), shorter[n - 3 - i].members[names \ {Decoded[k]}])
            \subseteq Words((i + 2) + 1 + (n - 3 - i))
      BY <3>1, <3>2, <3>3, JoinedTyped
    <3>. QED
      BY <3>1, <3>4
  <2>2. \A i \in 1 .. (n - 4) : \A k \in First(names) : pair(names, i, k) \subseteq Words(n)
    BY <2>1
  <2> HIDE DEF pair, First
  <2>. QED
    BY <2>2
<1>6. Longer(n, shorter) = [values |-> values, items |-> values \cup lists,
                            members |-> [names \in SUBSET Names |-> one(names) \cup more(names)]]
  BY DEF Longer
<1> HIDE DEF values, lists, one, more
<1>7. \A names \in SUBSET Names : one(names) \cup more(names) \in SUBSET Words(n)
  BY <1>4, <1>5
<1>. QED
  BY <1>2, <1>3, <1>6, <1>7 DEF Level

\* Every part has as many tokens as it says, all of them clean.
LEMMA PartTyped == \A n \in Nat : Part(n) \in Level(n)
<1> DEFINE Bad == {n \in Nat : Part(n) \notin Level(n)}
<1>1. ASSUME Bad # {}
      PROVE  FALSE
  <2>1. PICK n \in Bad : \A m \in Bad : n <= m
    BY <1>1, LeastOf
  <2>2. CASE n = 0
    <3>1. << >> \in Words(0)
      BY DEF Words
    <3>2. Nothing \in Level(0)
      BY <3>1 DEF Nothing, Level
    <3>. QED
      BY <2>1, <2>2, <3>2, PartIs
  <2>3. CASE n # 0
    <3>1. n \in Nat \ {0} /\ \A i \in 0 .. (n - 1) : i \in Nat /\ ~(n <= i)
      BY <2>1, <2>3
    <3>2. \A i \in 0 .. (n - 1) : Part(i) \in Level(i)
      BY <2>1, <3>1
    <3>3. \A i \in 0 .. (n - 1) : UpTo[n - 1][i] \in Level(i)
      BY <3>1, <3>2, PartIs
    <3>4. Longer(n, UpTo[n - 1]) \in Level(n)
      BY <3>1, <3>3, LongerTyped
    <3>. QED
      BY <2>1, <3>1, <3>4, PartIs
  <2>. QED
    BY <2>2, <2>3
<1>. QED
  BY <1>1

-----------------------------------------------------------------------------
(* The grammar as equations *)

\* The values, whatever their length.
Values == UNION {Part(n).values : n \in Nat}

\* What an array holds that is not empty.
Items == UNION {Part(n).items : n \in Nat \ {0}}

\* What an object holds that has exactly these names, and one at least.
MembersOf(names) == UNION {Part(n).members[names] : n \in Nat \ {0}}

\* The values of n tokens, with the sets opened.
LEMMA PartValues ==
    ASSUME NEW n \in Nat \ {0}
    PROVE  \A s : s \in Part(n).values <=>
                  \/ n = 1 /\ \E t \in Strings \cup {"n"} : s = <<t>>
                  \/ n # 1 /\ \E i \in Part(n - 2).items : s = <<"lbracket">> \o (i \o <<"rbracket">>)
                  \/ n # 1 /\ \E names \in SUBSET Names : \E m \in Part(n - 2).members[names] :
                                 s = <<"lbrace">> \o (m \o <<"rbrace">>)
<1>1. Part(n) = Longer(n, UpTo[n - 1])
  BY PartIs
<1>2. n # 1 => UpTo[n - 1][n - 2] = Part(n - 2)
  <2>1. n # 1 => n - 2 \in 0 .. (n - 1)
    OBVIOUS
  <2>. QED
    BY <2>1, PartIs
<1>3. Part(n).values = IF n = 1 THEN {<<t>> : t \in Strings \cup {"n"}}
                       ELSE Enclosed("lbracket", UpTo[n - 1][n - 2].items, "rbracket")
                            \cup Enclosed("lbrace", UNION {UpTo[n - 1][n - 2].members[names] : names \in SUBSET Names}, "rbrace")
  BY <1>1 DEF Longer
<1>4. CASE n = 1
  BY <1>3, <1>4
<1>5. CASE n # 1
  <2>1. Part(n).values = Enclosed("lbracket", Part(n - 2).items, "rbracket")
                         \cup Enclosed("lbrace", UNION {Part(n - 2).members[names] : names \in SUBSET Names}, "rbrace")
    BY <1>2, <1>3, <1>5
  <2>2. ASSUME NEW m
        PROVE  m \in UNION {Part(n - 2).members[names] : names \in SUBSET Names}
                  <=> \E names \in SUBSET Names : m \in Part(n - 2).members[names]
    OBVIOUS
  <2> SUFFICES ASSUME NEW s
               PROVE  s \in Part(n).values <=>
                        \/ \E i \in Part(n - 2).items : s = <<"lbracket">> \o (i \o <<"rbracket">>)
                        \/ \E names \in SUBSET Names : \E m \in Part(n - 2).members[names] :
                              s = <<"lbrace">> \o (m \o <<"rbrace">>)
    BY <1>5
  <2> DEFINE U == UNION {Part(n - 2).members[names] : names \in SUBSET Names}
  <2> HIDE DEF U
  <2>3. s \in Enclosed("lbracket", Part(n - 2).items, "rbracket")
           <=> \E i \in Part(n - 2).items : s = <<"lbracket">> \o (i \o <<"rbracket">>)
    BY DEF Enclosed
  <2>4. s \in Enclosed("lbrace", U, "rbrace") <=> \E m \in U : s = <<"lbrace">> \o (m \o <<"rbrace">>)
    BY DEF Enclosed
  <2>5. (\E m \in U : s = <<"lbrace">> \o (m \o <<"rbrace">>))
           <=> \E names \in SUBSET Names : \E m \in Part(n - 2).members[names] :
                  s = <<"lbrace">> \o (m \o <<"rbrace">>)
    BY <2>2 DEF U
  <2>. QED
    BY <2>1, <2>3, <2>4, <2>5 DEF U
<1>. QED
  BY <1>4, <1>5

\* The items of n tokens, with the sets opened.
LEMMA PartItems ==
    ASSUME NEW n \in Nat \ {0}
    PROVE  \A s : s \in Part(n).items <=>
                  \/ s \in Part(n).values
                  \/ \E i \in 1 .. (n - 2) : s \in Joined(Part(i).values, Part(n - 1 - i).items)
<1>1. Part(n) = Longer(n, UpTo[n - 1])
  BY PartIs
<1>2. \A i \in 1 .. (n - 2) : UpTo[n - 1][i] = Part(i) /\ UpTo[n - 1][n - 1 - i] = Part(n - 1 - i)
  <2>1. \A i \in 1 .. (n - 2) : i \in 0 .. (n - 1) /\ n - 1 - i \in 0 .. (n - 1)
    OBVIOUS
  <2>. QED
    BY <2>1, PartIs
<1>3. Part(n).items = Part(n).values \cup
         UNION {Joined(UpTo[n - 1][i].values, UpTo[n - 1][n - 1 - i].items) : i \in 1 .. (n - 2)}
  BY <1>1 DEF Longer
<1>4. ASSUME NEW s
      PROVE  s \in UNION {Joined(UpTo[n - 1][i].values, UpTo[n - 1][n - 1 - i].items) : i \in 1 .. (n - 2)}
                <=> \E i \in 1 .. (n - 2) : s \in Joined(UpTo[n - 1][i].values, UpTo[n - 1][n - 1 - i].items)
  OBVIOUS
<1>. QED
  BY <1>2, <1>3, <1>4

\* The members of n tokens, with the sets opened.
LEMMA PartMembers ==
    ASSUME NEW n \in Nat \ {0}, NEW names \in SUBSET Names
    PROVE  \A s : s \in Part(n).members[names] <=>
                  \/ n > 2 /\ \E k \in Strings : names = {Decoded[k]} /\ s \in Member(k, Part(n - 2).values)
                  \/ \E i \in 1 .. (n - 4) : \E k \in Strings :
                        /\ Decoded[k] \in names
                        /\ s \in Joined(Member(k, Part(i).values), Part(n - 3 - i).members[names \ {Decoded[k]}])
<1> DEFINE u == UpTo[n - 1]
           First(ns) == {k \in Strings : Decoded[k] \in ns}
           more(ns, i, k) == Joined(Member(k, u[i].values), u[n - 3 - i].members[ns \ {Decoded[k]}])
<1>1. Part(n) = Longer(n, u)
  BY PartIs
<1>2. \A i \in 1 .. (n - 4) : u[i] = Part(i) /\ u[n - 3 - i] = Part(n - 3 - i)
  <2>1. \A i \in 1 .. (n - 4) : i \in 0 .. (n - 1) /\ n - 3 - i \in 0 .. (n - 1)
    OBVIOUS
  <2>. QED
    BY <2>1, PartIs
<1>3. n > 2 => u[n - 2] = Part(n - 2)
  <2>1. n > 2 => n - 2 \in 0 .. (n - 1)
    OBVIOUS
  <2>. QED
    BY <2>1, PartIs
<1> HIDE DEF u
<1>4. Part(n).members[names] =
         (UNION {Member(k, IF n > 2 THEN u[n - 2].values ELSE {}) :
                   k \in {f \in First(names) : names = {Decoded[f]}}})
         \cup UNION {UNION {more(names, i, k) : k \in First(names)} : i \in 1 .. (n - 4)}
  BY <1>1 DEF Longer
<1>5. ASSUME NEW s
      PROVE  s \in UNION {UNION {more(names, i, k) : k \in First(names)} : i \in 1 .. (n - 4)}
                <=> \E i \in 1 .. (n - 4) : \E k \in First(names) : s \in more(names, i, k)
  <2> HIDE DEF more, First
  <2>. QED
    OBVIOUS
<1>6. ASSUME NEW s
      PROVE  s \in UNION {Member(k, IF n > 2 THEN u[n - 2].values ELSE {}) :
                              k \in {f \in First(names) : names = {Decoded[f]}}}
                <=> n > 2 /\ \E k \in Strings : names = {Decoded[k]} /\ s \in Member(k, u[n - 2].values)
  <2>1. CASE n > 2
    <3>1. \A k \in Strings : names = {Decoded[k]} => k \in First(names)
      OBVIOUS
    <3> HIDE DEF First
    <3>2. First(names) \subseteq Strings
      BY DEF First
    <3>. QED
      BY <2>1, <3>1, <3>2
  <2>2. CASE ~(n > 2)
    BY <2>2 DEF Member
  <2>. QED
    BY <2>1, <2>2
<1>7. \A i \in 1 .. (n - 4) : \A k \in Strings :
         more(names, i, k) = Joined(Member(k, Part(i).values), Part(n - 3 - i).members[names \ {Decoded[k]}])
  BY <1>2
<1> HIDE DEF more
<1>8. SUFFICES ASSUME NEW s
      PROVE  s \in Part(n).members[names] <=>
                \/ n > 2 /\ \E k \in Strings : names = {Decoded[k]} /\ s \in Member(k, Part(n - 2).values)
                \/ \E i \in 1 .. (n - 4) : \E k \in Strings :
                      /\ Decoded[k] \in names
                      /\ s \in Joined(Member(k, Part(i).values), Part(n - 3 - i).members[names \ {Decoded[k]}])
  OBVIOUS
<1> HIDE DEF First
<1>9. \A k : k \in First(names) <=> k \in Strings /\ Decoded[k] \in names
  BY DEF First
<1>10. s \in UNION {UNION {more(names, i, k) : k \in First(names)} : i \in 1 .. (n - 4)}
         <=> \E i \in 1 .. (n - 4) : \E k \in Strings :
                /\ Decoded[k] \in names
                /\ s \in Joined(Member(k, Part(i).values), Part(n - 3 - i).members[names \ {Decoded[k]}])
  <2>1. s \in UNION {UNION {more(names, i, k) : k \in First(names)} : i \in 1 .. (n - 4)}
           <=> \E i \in 1 .. (n - 4) : \E k \in First(names) : s \in more(names, i, k)
    BY <1>5
  <2>2. ASSUME NEW i \in 1 .. (n - 4), NEW k \in First(names)
        PROVE  more(names, i, k) = Joined(Member(k, Part(i).values), Part(n - 3 - i).members[names \ {Decoded[k]}])
    BY <1>7, <1>9
  <2>. QED
    BY <2>1, <2>2, <1>9
<1>11. s \in UNION {Member(k, IF n > 2 THEN u[n - 2].values ELSE {}) :
                              k \in {f \in First(names) : names = {Decoded[f]}}}
         <=> n > 2 /\ \E k \in Strings : names = {Decoded[k]} /\ s \in Member(k, Part(n - 2).values)
  BY <1>3, <1>6
<1>. QED
  BY <1>4, <1>10, <1>11

\* A value is a string or a literal, an array or an object.
LEMMA ValueIs ==
    \A s : s \in Values <=>
       \/ \E t \in Strings \cup {"n"} : s = <<t>>
       \/ \E i \in Items \cup {<< >>} : s = <<"lbracket">> \o (i \o <<"rbracket">>)
       \/ \E names \in SUBSET Names : \E m \in MembersOf(names) \cup {<< >>} :
             s = <<"lbrace">> \o (m \o <<"rbrace">>)
<1> SUFFICES ASSUME NEW s
             PROVE  s \in Values <=>
                       \/ \E t \in Strings \cup {"n"} : s = <<t>>
                       \/ \E i \in Items \cup {<< >>} : s = <<"lbracket">> \o (i \o <<"rbracket">>)
                       \/ \E names \in SUBSET Names : \E m \in MembersOf(names) \cup {<< >>} :
                             s = <<"lbrace">> \o (m \o <<"rbrace">>)
  OBVIOUS
<1>1. Part(0).values = {} /\ Part(0).items = {<< >>}
      /\ \A names \in SUBSET Names : Part(0).members[names] = IF names = {} THEN {<< >>} ELSE {}
  <2>1. Part(0) = Nothing
    BY PartIs
  <2> DEFINE none == [names \in SUBSET Names |-> IF names = {} THEN {<< >>} ELSE {}]
  <2>2. Nothing = [values |-> {}, items |-> {<< >>}, members |-> none]
    BY DEF Nothing
  <2>3. \A names \in SUBSET Names : none[names] = IF names = {} THEN {<< >>} ELSE {}
    OBVIOUS
  <2> HIDE DEF none
  <2>4. \A names \in SUBSET Names : Part(0).members[names] = IF names = {} THEN {<< >>} ELSE {}
    BY <2>1, <2>2, <2>3
  <2>5. Part(0).values = {} /\ Part(0).items = {<< >>}
    BY <2>1 DEF Nothing
  <2>. QED
    BY <2>4, <2>5, Zenon
<1>2. ASSUME s \in Values
      PROVE  \/ \E t \in Strings \cup {"n"} : s = <<t>>
             \/ \E i \in Items \cup {<< >>} : s = <<"lbracket">> \o (i \o <<"rbracket">>)
             \/ \E names \in SUBSET Names : \E m \in MembersOf(names) \cup {<< >>} :
                   s = <<"lbrace">> \o (m \o <<"rbrace">>)
  <2>1. PICK n \in Nat : s \in Part(n).values
    BY <1>2 DEF Values
  <2>2. n \in Nat \ {0}
    BY <1>1, <2>1
  <2>3. CASE n = 1
    BY <2>1, <2>2, <2>3, PartValues
  <2>4. CASE n # 1
    <3>1. n - 2 \in Nat
      BY <2>2, <2>4
    <3>2. Part(n - 2).items \subseteq Items \cup {<< >>}
      BY <1>1, <3>1 DEF Items
    <3>3. \A names \in SUBSET Names : Part(n - 2).members[names] \subseteq MembersOf(names) \cup {<< >>}
      BY <1>1, <3>1 DEF MembersOf
    <3>4. \/ \E i \in Part(n - 2).items : s = <<"lbracket">> \o (i \o <<"rbracket">>)
          \/ \E names \in SUBSET Names : \E m \in Part(n - 2).members[names] :
                s = <<"lbrace">> \o (m \o <<"rbrace">>)
      BY <2>1, <2>2, <2>4, PartValues
    <3>. QED
      BY <3>2, <3>3, <3>4
  <2>. QED
    BY <2>3, <2>4
<1>3. ASSUME NEW t \in Strings \cup {"n"}, s = <<t>>
      PROVE  s \in Values
  <2>1. s \in Part(1).values
    BY <1>3, PartValues
  <2>. QED
    BY <2>1 DEF Values
<1>4. ASSUME NEW i \in Items \cup {<< >>}, s = <<"lbracket">> \o (i \o <<"rbracket">>)
      PROVE  s \in Values
  <2>1. PICK n \in Nat : i \in Part(n).items
    BY <1>1 DEF Items
  <2>2. n + 2 \in Nat \ {0} /\ n + 2 # 1 /\ (n + 2) - 2 = n
    OBVIOUS
  <2>3. s \in Part(n + 2).values
    BY <1>4, <2>1, <2>2, PartValues
  <2>. QED
    BY <2>2, <2>3 DEF Values
<1>5. ASSUME NEW names \in SUBSET Names, NEW m \in MembersOf(names) \cup {<< >>},
             s = <<"lbrace">> \o (m \o <<"rbrace">>)
      PROVE  s \in Values
  <2>1. PICK n \in Nat, ns \in SUBSET Names : m \in Part(n).members[ns]
    <3>1. CASE m \in MembersOf(names)
      BY <3>1 DEF MembersOf
    <3>2. CASE m = << >>
      <4>1. 0 \in Nat /\ {} \in SUBSET Names /\ m \in Part(0).members[{}]
        BY <1>1, <3>2
      <4>. QED
        BY <4>1
    <3>. QED
      BY <3>1, <3>2
  <2>2. n + 2 \in Nat \ {0} /\ n + 2 # 1 /\ (n + 2) - 2 = n
    OBVIOUS
  <2>3. s \in Part(n + 2).values
    BY <1>5, <2>1, <2>2, PartValues
  <2>. QED
    BY <2>2, <2>3 DEF Values
<1>. QED
  BY <1>2, <1>3, <1>4, <1>5

\* Items are a value, or a value and more items.
LEMMA ItemsIs ==
    \A s : s \in Items <=>
       s \in Values \/ \E v \in Values : \E r \in Items : s = v \o (<<"comma">> \o r)
<1> SUFFICES ASSUME NEW s
             PROVE  s \in Items <=>
                       s \in Values \/ \E v \in Values : \E r \in Items : s = v \o (<<"comma">> \o r)
  OBVIOUS
<1>1. Part(0).values = {}
  BY PartIs DEF Nothing
<1>2. ASSUME s \in Items
      PROVE  s \in Values \/ \E v \in Values : \E r \in Items : s = v \o (<<"comma">> \o r)
  <2>1. PICK n \in Nat \ {0} : s \in Part(n).items
    BY <1>2 DEF Items
  <2>2. CASE s \in Part(n).values
    BY <2>2 DEF Values
  <2>3. ASSUME NEW i \in 1 .. (n - 2), s \in Joined(Part(i).values, Part(n - 1 - i).items)
        PROVE  \E v \in Values : \E r \in Items : s = v \o (<<"comma">> \o r)
    <3>1. i \in Nat /\ n - 1 - i \in Nat \ {0}
      BY <2>1
    <3>2. Part(i).values \subseteq Values /\ Part(n - 1 - i).items \subseteq Items
      BY <3>1 DEF Values, Items
    <3>3. \E v \in Part(i).values : \E r \in Part(n - 1 - i).items : s = v \o (<<"comma">> \o r)
      <4> DEFINE A == Part(i).values
                 B == Part(n - 1 - i).items
      <4>1. s \in Joined(A, B)
        BY <2>3
      <4> HIDE DEF A, B
      <4>2. \E v \in A : \E r \in B : s = v \o (<<"comma">> \o r)
        BY <4>1, JoinedIs
      <4>. QED
        BY <4>2 DEF A, B
    <3>. QED
      BY <3>2, <3>3
  <2>. QED
    BY <2>1, <2>2, <2>3, PartItems
<1>3. ASSUME s \in Values
      PROVE  s \in Items
  <2>1. PICK n \in Nat : s \in Part(n).values
    BY <1>3 DEF Values
  <2>2. n \in Nat \ {0}
    BY <1>1, <2>1
  <2>3. s \in Part(n).items
    BY <2>1, <2>2, PartItems
  <2>. QED
    BY <2>2, <2>3 DEF Items
<1>4. ASSUME NEW v \in Values, NEW r \in Items, s = v \o (<<"comma">> \o r)
      PROVE  s \in Items
  <2>1. PICK i \in Nat : v \in Part(i).values
    BY DEF Values
  <2>2. PICK j \in Nat \ {0} : r \in Part(j).items
    BY DEF Items
  <2>3. i # 0
    BY <1>1, <2>1
  <2> DEFINE n == i + 1 + j
  <2>4. n \in Nat \ {0} /\ i \in 1 .. (n - 2) /\ n - 1 - i = j
    BY <2>3
  <2> HIDE DEF n
  <2>5. s \in Joined(Part(i).values, Part(n - 1 - i).items)
    BY <1>4, <2>1, <2>2, <2>4, JoinedIs
  <2>6. s \in Part(n).items
    BY <2>4, <2>5, PartItems
  <2>. QED
    BY <2>4, <2>6 DEF Items
<1>. QED
  BY <1>2, <1>3, <1>4

\* Members are one member, or one member and more of other names.
LEMMA MembersIs ==
    ASSUME NEW names \in SUBSET Names
    PROVE  \A s : s \in MembersOf(names) <=>
              \E k \in Strings : \E v \in Values :
                 \/ names = {Decoded[k]} /\ s = <<k, "colon">> \o v
                 \/ /\ Decoded[k] \in names
                    /\ \E r \in MembersOf(names \ {Decoded[k]}) : s = (<<k, "colon">> \o v) \o (<<"comma">> \o r)
<1> SUFFICES ASSUME NEW s
             PROVE  s \in MembersOf(names) <=>
                \E k \in Strings : \E v \in Values :
                   \/ names = {Decoded[k]} /\ s = <<k, "colon">> \o v
                   \/ /\ Decoded[k] \in names
                      /\ \E r \in MembersOf(names \ {Decoded[k]}) : s = (<<k, "colon">> \o v) \o (<<"comma">> \o r)
  OBVIOUS
<1>1. Part(0).values = {}
  BY PartIs DEF Nothing
<1>2. ASSUME NEW S, NEW k
      PROVE  \A x : x \in Member(k, S) <=> \E v \in S : x = <<k, "colon">> \o v
  BY DEF Member
<1>3. \A k : names \ {Decoded[k]} \in SUBSET Names
  OBVIOUS
<1>4. ASSUME s \in MembersOf(names)
      PROVE  \E k \in Strings : \E v \in Values :
                \/ names = {Decoded[k]} /\ s = <<k, "colon">> \o v
                \/ /\ Decoded[k] \in names
                   /\ \E r \in MembersOf(names \ {Decoded[k]}) : s = (<<k, "colon">> \o v) \o (<<"comma">> \o r)
  <2>1. PICK n \in Nat \ {0} : s \in Part(n).members[names]
    BY <1>4 DEF MembersOf
  <2>2. ASSUME n > 2, NEW k \in Strings, names = {Decoded[k]}, s \in Member(k, Part(n - 2).values)
        PROVE  \E v \in Values : s = <<k, "colon">> \o v
    <3>1. n - 2 \in Nat
      BY <2>2
    <3>2. PICK v \in Part(n - 2).values : s = <<k, "colon">> \o v
      BY <1>2, <2>2
    <3>3. v \in Values
      BY <3>1, <3>2 DEF Values
    <3>. QED
      BY <3>2, <3>3
  <2>3. ASSUME NEW i \in 1 .. (n - 4), NEW k \in Strings, Decoded[k] \in names,
               s \in Joined(Member(k, Part(i).values), Part(n - 3 - i).members[names \ {Decoded[k]}])
        PROVE  \E v \in Values : \E r \in MembersOf(names \ {Decoded[k]}) :
                  s = (<<k, "colon">> \o v) \o (<<"comma">> \o r)
    <3>1. i \in Nat /\ n - 3 - i \in Nat \ {0}
      BY <2>1
    <3>2. PICK l \in Member(k, Part(i).values), r \in Part(n - 3 - i).members[names \ {Decoded[k]}] :
             s = l \o (<<"comma">> \o r)
      BY <2>3, JoinedIs
    <3>3. PICK v \in Part(i).values : l = <<k, "colon">> \o v
      <4> DEFINE A == Part(i).values
      <4>1. l \in Member(k, A)
        BY <3>2
      <4> HIDE DEF A
      <4>2. \E v \in A : l = <<k, "colon">> \o v
        BY <4>1, <1>2
      <4>. QED
        BY <4>2 DEF A
    <3>4. v \in Values /\ r \in MembersOf(names \ {Decoded[k]})
      BY <3>1, <3>2, <3>3 DEF Values, MembersOf
    <3>. QED
      BY <3>2, <3>3, <3>4
  <2>4. \/ n > 2 /\ \E k \in Strings : names = {Decoded[k]} /\ s \in Member(k, Part(n - 2).values)
        \/ \E i \in 1 .. (n - 4) : \E k \in Strings :
              /\ Decoded[k] \in names
              /\ s \in Joined(Member(k, Part(i).values), Part(n - 3 - i).members[names \ {Decoded[k]}])
    BY <2>1, PartMembers
  <2>5. CASE n > 2 /\ \E k \in Strings : names = {Decoded[k]} /\ s \in Member(k, Part(n - 2).values)
    BY <2>2, <2>5
  <2>6. CASE \E i \in 1 .. (n - 4) : \E k \in Strings :
                /\ Decoded[k] \in names
                /\ s \in Joined(Member(k, Part(i).values), Part(n - 3 - i).members[names \ {Decoded[k]}])
    BY <2>3, <2>6
  <2>. QED
    BY <2>4, <2>5, <2>6
<1>5. ASSUME NEW k \in Strings, NEW v \in Values, names = {Decoded[k]}, s = <<k, "colon">> \o v
      PROVE  s \in MembersOf(names)
  <2>1. PICK i \in Nat : v \in Part(i).values
    BY DEF Values
  <2>2. i # 0
    BY <1>1, <2>1
  <2> DEFINE n == i + 2
  <2>3. n \in Nat \ {0} /\ n > 2 /\ n - 2 = i
    BY <2>2
  <2> HIDE DEF n
  <2>4. s \in Member(k, Part(n - 2).values)
    BY <1>2, <1>5, <2>1, <2>3
  <2>5. s \in Part(n).members[names]
    BY <1>5, <2>3, <2>4, PartMembers
  <2>. QED
    BY <2>3, <2>5 DEF MembersOf
<1>6. ASSUME NEW k \in Strings, NEW v \in Values, Decoded[k] \in names,
             NEW r \in MembersOf(names \ {Decoded[k]}), s = (<<k, "colon">> \o v) \o (<<"comma">> \o r)
      PROVE  s \in MembersOf(names)
  <2>1. PICK i \in Nat : v \in Part(i).values
    BY DEF Values
  <2>2. i # 0
    BY <1>1, <2>1
  <2>3. PICK j \in Nat \ {0} : r \in Part(j).members[names \ {Decoded[k]}]
    BY DEF MembersOf
  <2> DEFINE n == i + 3 + j
  <2>4. n \in Nat \ {0} /\ i \in 1 .. (n - 4) /\ n - 3 - i = j
    BY <2>2
  <2> HIDE DEF n
  <2>5. <<k, "colon">> \o v \in Member(k, Part(i).values)
    BY <1>2, <2>1
  <2>6. s \in Joined(Member(k, Part(i).values), Part(n - 3 - i).members[names \ {Decoded[k]}])
    BY <1>6, <2>3, <2>4, <2>5, JoinedIs
  <2>7. s \in Part(n).members[names]
    BY <1>6, <2>4, <2>6, PartMembers
  <2>. QED
    BY <2>4, <2>7 DEF MembersOf
<1>. QED
  BY <1>4, <1>5, <1>6

\* The languages consist of clean tokens, and of one at least.
LEMMA GrammarTyped ==
    /\ Values \subseteq Seq(Clean) /\ << >> \notin Values
    /\ Items \subseteq Seq(Clean) /\ << >> \notin Items
    /\ \A names \in SUBSET Names : MembersOf(names) \subseteq Seq(Clean) /\ << >> \notin MembersOf(names)
    /\ MembersOf({}) = {}
<1>1. ASSUME NEW n \in Nat
      PROVE  Part(n).values \subseteq Words(n) /\ Part(n).items \subseteq Words(n)
             /\ \A names \in SUBSET Names : Part(n).members[names] \subseteq Words(n)
  BY PartTyped DEF Level
<1>2. \A n \in Nat : Words(n) \subseteq Seq(Clean) /\ (n # 0 => << >> \notin Words(n))
  BY DEF Words
<1>3. Part(0).values = {}
  BY PartIs DEF Nothing
<1>4. \A names \in SUBSET Names : MembersOf(names) \subseteq Seq(Clean) /\ << >> \notin MembersOf(names)
  BY <1>1, <1>2 DEF MembersOf
<1>5. Values \subseteq Seq(Clean) /\ << >> \notin Values
  BY <1>1, <1>2, <1>3 DEF Values
<1>6. Items \subseteq Seq(Clean) /\ << >> \notin Items
  BY <1>1, <1>2 DEF Items
<1>7. MembersOf({}) = {}
  <2>1. {} \in SUBSET Names
    OBVIOUS
  <2>. QED
    BY <2>1, MembersIs
<1>. QED
  BY <1>4, <1>5, <1>6, <1>7

\* The documents are the values that fit into the bound.
LEMMA DocumentsAre == Documents = {v \in Values : Len(v) <= MaxTokens}
<1>1. \A n \in 1 .. MaxTokens : UpTo[MaxTokens][n] = Part(n)
  <2>1. \A n \in 1 .. MaxTokens : n \in 0 .. MaxTokens
    BY TokensAssumption
  <2>. QED
    BY <2>1, UpToSame, TokensAssumption DEF Part
<1>2. \A n \in Nat : Part(n).values \subseteq Words(n)
  BY PartTyped DEF Level
<1>3. ASSUME NEW v \in Documents
      PROVE  v \in Values /\ Len(v) <= MaxTokens
  <2>1. PICK n \in 1 .. MaxTokens : v \in Part(n).values
    BY <1>1 DEF Documents
  <2>. QED
    BY <1>2, <2>1, TokensAssumption DEF Values, Words
<1>4. ASSUME NEW v \in Values, Len(v) <= MaxTokens
      PROVE  v \in Documents
  <2>1. PICK n \in Nat : v \in Part(n).values
    BY DEF Values
  <2>2. Len(v) = n /\ n # 0
    <3>1. v # << >>
      BY GrammarTyped
    <3>. QED
      BY <1>2, <2>1, <3>1 DEF Words
  <2>3. n \in 1 .. MaxTokens
    BY <1>4, <2>1, <2>2, TokensAssumption
  <2>. QED
    BY <1>1, <2>1, <2>3 DEF Documents
<1>. QED
  BY <1>3, <1>4

-----------------------------------------------------------------------------
(* Words, by their first token *)

\* Sequences of clean tokens.
Word == Seq(Clean)

\* One word after another; kept apart from \o so that only the laws below are
\* used of it.
Cat(a, b) == a \o b

\* A token before a word.
Cons(t, a) == <<t>> \o a

\* The empty word.
LEMMA NoneIsWord == << >> \in Word
BY DEF Word

\* Words are closed under concatenation.
LEMMA CatIsWord == \A a \in Word, b \in Word : Cat(a, b) \in Word
BY ConcatProperties DEF Word, Cat

\* A clean token before a word makes a word.
LEMMA ConsIsWord == \A t \in Clean, a \in Word : Cons(t, a) \in Word
<1>1. \A t \in Clean : <<t>> \in Word
  BY DEF Word
<1>. QED
  BY <1>1, CatIsWord DEF Cons, Cat

\* The empty word adds nothing.
LEMMA CatNone == \A a \in Word : Cat(<< >>, a) = a /\ Cat(a, << >>) = a
BY ConcatEmptySeq DEF Word, Cat

\* Concatenation is associative.
LEMMA CatAssoc == \A a \in Word, b \in Word, c \in Word : Cat(Cat(a, b), c) = Cat(a, Cat(b, c))
BY ConcatAssociative DEF Word, Cat

\* The first token of the left word stays first.
LEMMA CatCons == \A t \in Clean, a \in Word, b \in Word : Cat(Cons(t, a), b) = Cons(t, Cat(a, b))
<1>1. \A t \in Clean : <<t>> \in Word
  BY DEF Word
<1>. QED
  BY <1>1, CatAssoc DEF Cons, Cat

\* Only empty words make the empty word.
LEMMA CatEmpty == \A a \in Word, b \in Word : Cat(a, b) = << >> => a = << >> /\ b = << >>
BY ConcatEqualIffEmpty DEF Word, Cat

\* A word that starts with a token is not empty.
LEMMA ConsNotEmpty == \A t \in Clean, a \in Word : Cons(t, a) # << >>
<1>1. \A t \in Clean : <<t>> \in Word /\ <<t>> # << >>
  BY DEF Word
<1>. QED
  BY <1>1, CatEmpty DEF Cons, Cat

\* A word has one first token and one rest.
LEMMA ConsSame ==
    ASSUME NEW t \in Clean, NEW u \in Clean, NEW a \in Word, NEW b \in Word, Cons(t, a) = Cons(u, b)
    PROVE  t = u /\ a = b
<1>1. <<t>> \in Word /\ <<u>> \in Word /\ Len(<<t>>) = 1 /\ Len(<<u>>) = 1 /\ <<t>>[1] = t /\ <<u>>[1] = u
  BY DEF Word
<1>2. (<<t>> \o a)[1] = t /\ (<<u>> \o b)[1] = u
  <2>1. Len(a) \in Nat /\ Len(b) \in Nat
    BY DEF Word
  <2>2. 1 \in 1 .. Len(<<t>>) + Len(a) /\ 1 \in 1 .. Len(<<u>>) + Len(b)
    BY <1>1, <2>1
  <2>. QED
    BY <1>1, <2>2, ConcatProperties DEF Word
<1>3. t = u
  BY <1>2 DEF Cons
<1>4. \A x \in Word, y \in Word, z \in Word : x \o y = x \o z => y = z
  <2>1. \A S : \A x, y, z \in Seq(S) : x \o y = x \o z => y = z
    BY ConcatSimplifications
  <2>. QED
    BY <2>1 DEF Word
<1>5. a = b
  BY <1>1, <1>3, <1>4 DEF Cons
<1>. QED
  BY <1>3, <1>5

\* Which tokens are which.
LEMMA TokenFacts ==
    /\ {"lbracket", "rbracket", "lbrace", "rbrace", "comma", "colon", "n"} \subseteq Clean
    /\ Strings \subseteq Clean
    /\ Strings \cap {"lbracket", "rbracket", "lbrace", "rbrace", "comma", "colon", "n", "lone", "big"} = {}
    /\ Clean = Strings \cup {"lbracket", "rbracket", "lbrace", "rbrace", "comma", "colon", "n"}
    /\ Tokens = Clean \cup {"lone", "big"}
    /\ Atoms \cap Clean = Strings \cup {"n"}
    /\ \A t \in Strings : Decoded[t] \in Names
BY TokensAssumption DEF Clean, Tokens, Atoms, Strings, Punctuation, Names

\* GrammarTyped, of words.
LEMMA GrammarWords ==
    /\ Values \in SUBSET Word /\ << >> \notin Values
    /\ Items \in SUBSET Word /\ << >> \notin Items
    /\ \A names \in SUBSET Names : MembersOf(names) \in SUBSET Word /\ << >> \notin MembersOf(names)
    /\ MembersOf({}) = {}
BY GrammarTyped DEF Word

\* ValueIs, of words.
LEMMA ValueWords ==
    ASSUME NEW s
    PROVE  s \in Values <=>
       \/ \E t \in Strings \cup {"n"} : s = Cons(t, << >>)
       \/ \E i \in Items \cup {<< >>} : s = Cons("lbracket", Cat(i, Cons("rbracket", << >>)))
       \/ \E names \in SUBSET Names : \E m \in MembersOf(names) \cup {<< >>} :
             s = Cons("lbrace", Cat(m, Cons("rbrace", << >>)))
<1>1. \A t \in Clean : <<t>> = Cons(t, << >>)
  <2>1. \A t \in Clean : <<t>> \in Word
    BY DEF Word
  <2>. QED
    BY <2>1, CatNone DEF Cons, Cat
<1>2. ASSUME NEW i
      PROVE  /\ <<"lbracket">> \o (i \o <<"rbracket">>) = Cons("lbracket", Cat(i, Cons("rbracket", << >>)))
             /\ <<"lbrace">> \o (i \o <<"rbrace">>) = Cons("lbrace", Cat(i, Cons("rbrace", << >>)))
  <2>1. <<"rbracket">> = Cons("rbracket", << >>) /\ <<"rbrace">> = Cons("rbrace", << >>)
    BY <1>1, TokenFacts
  <2>2. \A x : <<"lbracket">> \o (i \o x) = Cons("lbracket", Cat(i, x)) /\ <<"lbrace">> \o (i \o x) = Cons("lbrace", Cat(i, x))
    BY Zenon DEF Cons, Cat
  <2>. QED
    BY <2>1, <2>2, Zenon
<1>3. \A t \in Strings \cup {"n"} : <<t>> = Cons(t, << >>)
  BY <1>1, TokenFacts
<1>4. s \in Values <=>
       \/ \E t \in Strings \cup {"n"} : s = <<t>>
       \/ \E i \in Items \cup {<< >>} : s = <<"lbracket">> \o (i \o <<"rbracket">>)
       \/ \E names \in SUBSET Names : \E m \in MembersOf(names) \cup {<< >>} :
             s = <<"lbrace">> \o (m \o <<"rbrace">>)
  BY ValueIs, Zenon
<1>. QED
  BY <1>2, <1>3, <1>4, Zenon

\* ItemsIs, of words.
LEMMA ItemsWords ==
    ASSUME NEW s
    PROVE  s \in Items <=>
              s \in Values \/ \E v \in Values : \E r \in Items : s = Cat(v, Cons("comma", r))
<1>1. \A v, r : v \o (<<"comma">> \o r) = Cat(v, Cons("comma", r))
  BY Zenon DEF Cat, Cons
<1>2. s \in Items <=> s \in Values \/ \E v \in Values : \E r \in Items : s = v \o (<<"comma">> \o r)
  BY ItemsIs
<1>. QED
  BY <1>1, <1>2, Zenon

\* MembersIs, of words.
LEMMA MembersWords ==
    ASSUME NEW names \in SUBSET Names, NEW s
    PROVE  s \in MembersOf(names) <=>
              \E k \in Strings : \E v \in Values :
                 \/ names = {Decoded[k]} /\ s = Cons(k, Cons("colon", v))
                 \/ /\ Decoded[k] \in names
                    /\ \E r \in MembersOf(names \ {Decoded[k]}) :
                          s = Cons(k, Cons("colon", Cat(v, Cons("comma", r))))
<1>1. ASSUME NEW k \in Strings, NEW v \in Word
      PROVE  <<k, "colon">> \o v = Cons(k, Cons("colon", v))
  <2>1. <<k>> \in Word /\ <<"colon">> \in Word
    BY TokenFacts DEF Word
  <2>2. <<k, "colon">> = <<k>> \o <<"colon">>
    OBVIOUS
  <2>3. (<<k>> \o <<"colon">>) \o v = <<k>> \o (<<"colon">> \o v)
    BY <2>1, CatAssoc, Zenon DEF Cat
  <2>. QED
    BY <2>2, <2>3, Zenon DEF Cons
<1>2. ASSUME NEW k \in Strings, NEW v \in Word, NEW r \in Word
      PROVE  (<<k, "colon">> \o v) \o (<<"comma">> \o r) = Cons(k, Cons("colon", Cat(v, Cons("comma", r))))
  <2>1. k \in Clean /\ "colon" \in Clean /\ "comma" \in Clean
    BY TokenFacts
  <2>2. Cons("comma", r) \in Word /\ Cons("colon", v) \in Word
    BY <2>1, ConsIsWord
  <2>3. Cat(Cons(k, Cons("colon", v)), Cons("comma", r)) = Cons(k, Cat(Cons("colon", v), Cons("comma", r)))
    BY <2>1, <2>2, CatCons
  <2>4. Cat(Cons("colon", v), Cons("comma", r)) = Cons("colon", Cat(v, Cons("comma", r)))
    BY <2>1, <2>2, CatCons
  <2>5. (<<k, "colon">> \o v) \o (<<"comma">> \o r) = Cat(Cons(k, Cons("colon", v)), Cons("comma", r))
    <3>1. <<"comma">> \o r = Cons("comma", r)
      BY Zenon DEF Cons
    <3>2. \A a, b : a \o b = Cat(a, b)
      BY Zenon DEF Cat
    <3>. QED
      BY <1>1, <3>1, <3>2, Zenon
  <2>. QED
    BY <2>3, <2>4, <2>5, Zenon
<1>3. \A k : names \ {Decoded[k]} \in SUBSET Names
  OBVIOUS
<1>4. \A v \in Values : v \in Word
  BY GrammarWords
<1>5. \A k : \A r \in MembersOf(names \ {Decoded[k]}) : r \in Word
  BY <1>3, GrammarWords
<1>6. s \in MembersOf(names) <=>
              \E k \in Strings : \E v \in Values :
                 \/ names = {Decoded[k]} /\ s = <<k, "colon">> \o v
                 \/ /\ Decoded[k] \in names
                    /\ \E r \in MembersOf(names \ {Decoded[k]}) : s = (<<k, "colon">> \o v) \o (<<"comma">> \o r)
  <2>1. \A x : x \in MembersOf(names) <=>
              \E k \in Strings : \E v \in Values :
                 \/ names = {Decoded[k]} /\ x = <<k, "colon">> \o v
                 \/ /\ Decoded[k] \in names
                    /\ \E r \in MembersOf(names \ {Decoded[k]}) : x = (<<k, "colon">> \o v) \o (<<"comma">> \o r)
    BY MembersIs, Zenon
  <2>. QED
    BY <2>1, Zenon
<1>7. ASSUME NEW k \in Strings, NEW v \in Values
      PROVE  (\E r \in MembersOf(names \ {Decoded[k]}) : s = (<<k, "colon">> \o v) \o (<<"comma">> \o r))
                <=> \E r \in MembersOf(names \ {Decoded[k]}) : s = Cons(k, Cons("colon", Cat(v, Cons("comma", r))))
  BY <1>2, <1>4, <1>5, Zenon
<1>8. ASSUME NEW k \in Strings, NEW v \in Values
      PROVE  s = <<k, "colon">> \o v <=> s = Cons(k, Cons("colon", v))
  BY <1>1, <1>4, Zenon
<1>. QED
  BY <1>6, <1>7, <1>8, Zenon

-----------------------------------------------------------------------------
(* What may follow a value, the items or the members *)

\* The words that start with a token and go on with one of K.
StartedBy(t, K) == {w \in Word : \E k \in K : w = Cons(t, k)}

\* A value and then one of K.
ValueThen(K) == {w \in Word : \E v \in Values : \E k \in K : w = Cat(v, k)}

\* Items, the end of the array, and then one of K.
ItemsThen(K) == {w \in Word : \E i \in Items : \E k \in K : w = Cat(i, Cons("rbracket", k))}

\* Members none of whose names is taken, the end of the object, and then one of K.
MembersThen(taken, K) ==
    {w \in Word : \E names \in SUBSET (Names \ taken) : \E m \in MembersOf(names) : \E k \in K :
        w = Cat(m, Cons("rbrace", k))}

\* After the opening bracket of an array.
AfterBracket(K) == StartedBy("rbracket", K) \cup ItemsThen(K)

\* After an item of an array.
AfterItem(K) == StartedBy("rbracket", K) \cup StartedBy("comma", ItemsThen(K))

\* After the opening brace of an object.
AfterBrace(taken, K) == StartedBy("rbrace", K) \cup MembersThen(taken, K)

\* After a member of an object.
AfterMember(taken, K) == StartedBy("rbrace", K) \cup StartedBy("comma", MembersThen(taken, K))

\* What is left of the words started by a token once it is read.
LEMMA FirstDerived ==
    ASSUME NEW t \in Clean, NEW u \in Clean, NEW K \in SUBSET Word, NEW w \in Word
    PROVE  Cons(t, w) \in StartedBy(u, K) <=> t = u /\ w \in K
BY ConsIsWord, ConsSame DEF StartedBy

\* All of these are words.
LEMMA ThenIsWords ==
    /\ \A t, K : StartedBy(t, K) \in SUBSET Word
    /\ \A K : /\ ValueThen(K) \in SUBSET Word /\ ItemsThen(K) \in SUBSET Word
              /\ AfterBracket(K) \in SUBSET Word /\ AfterItem(K) \in SUBSET Word
    /\ \A taken, K : /\ MembersThen(taken, K) \in SUBSET Word
                     /\ AfterBrace(taken, K) \in SUBSET Word /\ AfterMember(taken, K) \in SUBSET Word
BY DEF StartedBy, ValueThen, ItemsThen, MembersThen, AfterBracket, AfterItem, AfterBrace, AfterMember

\* Something between two tokens and then more.
LEMMA EnclosedThen ==
    ASSUME NEW i \in Word, NEW k \in Word, NEW open \in Clean, NEW close \in Clean
    PROVE  /\ Cat(Cons(open, Cat(i, Cons(close, << >>))), k) = Cons(open, Cat(i, Cons(close, k)))
           /\ Cat(i, Cons(close, k)) \in Word
<1>1. Cons(close, << >>) \in Word /\ Cons(close, k) \in Word
  BY NoneIsWord, ConsIsWord
<1>2. Cat(i, Cons(close, << >>)) \in Word /\ Cat(i, Cons(close, k)) \in Word
  BY <1>1, CatIsWord
<1>3. Cat(Cons(open, Cat(i, Cons(close, << >>))), k) = Cons(open, Cat(Cat(i, Cons(close, << >>)), k))
  BY <1>2, CatCons
<1>4. Cat(Cat(i, Cons(close, << >>)), k) = Cat(i, Cat(Cons(close, << >>), k))
  BY <1>1, CatAssoc
<1>5. Cat(Cons(close, << >>), k) = Cons(close, k)
  <2>1. Cat(Cons(close, << >>), k) = Cons(close, Cat(<< >>, k))
    BY NoneIsWord, CatCons
  <2>. QED
    BY <2>1, CatNone
<1>. QED
  BY <1>2, <1>3, <1>4, <1>5, Zenon

\* A value and then one of K, by its first token.
LEMMA ValueThenIs ==
    ASSUME NEW K \in SUBSET Word, NEW w \in Word
    PROVE  w \in ValueThen(K) <=>
              \/ \E t \in Strings \cup {"n"} : w \in StartedBy(t, K)
              \/ w \in StartedBy("lbracket", AfterBracket(K))
              \/ w \in StartedBy("lbrace", AfterBrace({}, K))
<1>1. {"lbracket", "rbracket", "lbrace", "rbrace"} \subseteq Clean /\ Strings \cup {"n"} \subseteq Clean
  BY TokenFacts
<1>2. ASSUME NEW v \in Values, NEW k \in K, w = Cat(v, k)
      PROVE  \/ \E t \in Strings \cup {"n"} : w \in StartedBy(t, K)
             \/ w \in StartedBy("lbracket", AfterBracket(K))
             \/ w \in StartedBy("lbrace", AfterBrace({}, K))
  <2>1. ASSUME NEW t \in Strings \cup {"n"}, v = Cons(t, << >>)
        PROVE  w \in StartedBy(t, K)
    <3>1. t \in Clean /\ k \in Word
      BY <1>1
    <3>2. w = Cons(t, Cat(<< >>, k))
      BY <1>2, <2>1, <3>1, NoneIsWord, CatCons
    <3>3. w = Cons(t, k)
      BY <3>1, <3>2, CatNone
    <3>. QED
      BY <3>3 DEF StartedBy
  <2>2. ASSUME NEW i \in Items \cup {<< >>}, v = Cons("lbracket", Cat(i, Cons("rbracket", << >>)))
        PROVE  w \in StartedBy("lbracket", AfterBracket(K))
    <3>1. i \in Word /\ k \in Word
      BY GrammarWords, NoneIsWord
    <3> DEFINE x == Cat(i, Cons("rbracket", k))
    <3>2. w = Cons("lbracket", x) /\ x \in Word
      BY <1>1, <1>2, <2>2, <3>1, EnclosedThen
    <3>3. CASE i \in Items
      <4>1. x \in ItemsThen(K)
        BY <3>2, <3>3 DEF ItemsThen
      <4> HIDE DEF x
      <4>. QED
        BY <3>2, <4>1 DEF StartedBy, AfterBracket
    <3>4. CASE i = << >>
      <4>1. Cons("rbracket", k) \in Word
        BY <1>1, <3>1, ConsIsWord
      <4>2. x = Cons("rbracket", k)
        BY <3>4, <4>1, CatNone
      <4>3. x \in StartedBy("rbracket", K)
        BY <4>1, <4>2 DEF StartedBy
      <4> HIDE DEF x
      <4>. QED
        BY <3>2, <4>3 DEF StartedBy, AfterBracket
    <3>. QED
      BY <3>3, <3>4
  <2>3. ASSUME NEW names \in SUBSET Names, NEW m \in MembersOf(names) \cup {<< >>},
               v = Cons("lbrace", Cat(m, Cons("rbrace", << >>)))
        PROVE  w \in StartedBy("lbrace", AfterBrace({}, K))
    <3>1. m \in Word /\ k \in Word
      BY GrammarWords, NoneIsWord
    <3> DEFINE x == Cat(m, Cons("rbrace", k))
    <3>2. w = Cons("lbrace", x) /\ x \in Word
      BY <1>1, <1>2, <2>3, <3>1, EnclosedThen
    <3>3. CASE m \in MembersOf(names)
      <4>1. names \in SUBSET (Names \ {})
        OBVIOUS
      <4>2. x \in MembersThen({}, K)
        BY <3>2, <3>3, <4>1 DEF MembersThen
      <4> HIDE DEF x
      <4>. QED
        BY <3>2, <4>2 DEF StartedBy, AfterBrace
    <3>4. CASE m = << >>
      <4>1. Cons("rbrace", k) \in Word
        BY <1>1, <3>1, ConsIsWord
      <4>2. x = Cons("rbrace", k)
        BY <3>4, <4>1, CatNone
      <4>3. x \in StartedBy("rbrace", K)
        BY <4>1, <4>2 DEF StartedBy
      <4> HIDE DEF x
      <4>. QED
        BY <3>2, <4>3 DEF StartedBy, AfterBrace
    <3>. QED
      BY <3>3, <3>4
  <2>. QED
    BY <2>1, <2>2, <2>3, ValueWords, Zenon
<1>3. ASSUME NEW t \in Strings \cup {"n"}, w \in StartedBy(t, K)
      PROVE  w \in ValueThen(K)
  <2>1. PICK k \in K : w = Cons(t, k)
    BY <1>3 DEF StartedBy
  <2>2. Cons(t, << >>) \in Values
    BY ValueWords, Zenon
  <2>3. Cat(Cons(t, << >>), k) = Cons(t, Cat(<< >>, k))
    BY <1>1, NoneIsWord, CatCons
  <2>4. Cat(<< >>, k) = k
    BY CatNone
  <2>. QED
    BY <2>1, <2>2, <2>3, <2>4 DEF ValueThen
<1>4. ASSUME w \in StartedBy("lbracket", AfterBracket(K))
      PROVE  w \in ValueThen(K)
  <2>1. PICK x \in AfterBracket(K) : w = Cons("lbracket", x)
    BY <1>4 DEF StartedBy
  <2>2. \E i \in Items \cup {<< >>} : \E k \in K : x = Cat(i, Cons("rbracket", k))
    <3>1. CASE x \in ItemsThen(K)
      BY <3>1 DEF ItemsThen
    <3>2. CASE x \in StartedBy("rbracket", K)
      <4>1. PICK k \in K : x = Cons("rbracket", k)
        BY <3>2 DEF StartedBy
      <4>2. x = Cat(<< >>, Cons("rbracket", k))
        BY <1>1, <4>1, ConsIsWord, CatNone
      <4>. QED
        BY <4>2
    <3>. QED
      BY <2>1, <3>1, <3>2 DEF AfterBracket
  <2>3. PICK i \in Items \cup {<< >>}, k \in K : x = Cat(i, Cons("rbracket", k))
    BY <2>2
  <2>4. i \in Word
    BY GrammarWords, NoneIsWord
  <2>5. Cons("lbracket", Cat(i, Cons("rbracket", << >>))) \in Values
    BY ValueWords, Zenon
  <2>6. w = Cat(Cons("lbracket", Cat(i, Cons("rbracket", << >>))), k)
    BY <1>1, <2>1, <2>3, <2>4, EnclosedThen
  <2>. QED
    BY <2>5, <2>6 DEF ValueThen
<1>5. ASSUME w \in StartedBy("lbrace", AfterBrace({}, K))
      PROVE  w \in ValueThen(K)
  <2>1. PICK x \in AfterBrace({}, K) : w = Cons("lbrace", x)
    BY <1>5 DEF StartedBy
  <2>2. \E names \in SUBSET Names : \E m \in MembersOf(names) \cup {<< >>} : \E k \in K : x = Cat(m, Cons("rbrace", k))
    <3>1. CASE x \in MembersThen({}, K)
      BY <3>1 DEF MembersThen
    <3>2. CASE x \in StartedBy("rbrace", K)
      <4>1. PICK k \in K : x = Cons("rbrace", k)
        BY <3>2 DEF StartedBy
      <4>2. x = Cat(<< >>, Cons("rbrace", k))
        BY <1>1, <4>1, ConsIsWord, CatNone
      <4>3. {} \in SUBSET Names
        OBVIOUS
      <4>. QED
        BY <4>2, <4>3
    <3>. QED
      BY <2>1, <3>1, <3>2 DEF AfterBrace
  <2>3. PICK names \in SUBSET Names : \E m \in MembersOf(names) \cup {<< >>} : \E k \in K : x = Cat(m, Cons("rbrace", k))
    BY <2>2
  <2>4. PICK m \in MembersOf(names) \cup {<< >>}, k \in K : x = Cat(m, Cons("rbrace", k))
    BY <2>3
  <2>5. m \in Word
    BY GrammarWords, NoneIsWord
  <2>6. Cons("lbrace", Cat(m, Cons("rbrace", << >>))) \in Values
    BY ValueWords, Zenon
  <2>7. w = Cat(Cons("lbrace", Cat(m, Cons("rbrace", << >>))), k)
    BY <1>1, <2>1, <2>4, <2>5, EnclosedThen
  <2>. QED
    BY <2>6, <2>7 DEF ValueThen
<1>6. ASSUME w \in ValueThen(K)
      PROVE  \E v \in Values : \E k \in K : w = Cat(v, k)
  BY <1>6 DEF ValueThen
<1>. QED
  BY <1>2, <1>3, <1>4, <1>5, <1>6, Zenon

\* Items are a value and what may come after an item.
LEMMA ItemsThenIs ==
    ASSUME NEW K \in SUBSET Word
    PROVE  ItemsThen(K) = ValueThen(AfterItem(K))
<1>1. "rbracket" \in Clean /\ "comma" \in Clean
  BY TokenFacts
<1>2. ASSUME NEW w \in ItemsThen(K)
      PROVE  w \in ValueThen(AfterItem(K))
  <2>1. PICK i \in Items, k \in K : w = Cat(i, Cons("rbracket", k))
    BY DEF ItemsThen
  <2>2. w \in Word /\ Cons("rbracket", k) \in Word
    BY <1>1, ThenIsWords, ConsIsWord
  <2>3. CASE i \in Values
    <3>1. Cons("rbracket", k) \in AfterItem(K)
      BY <2>2 DEF AfterItem, StartedBy
    <3>. QED
      BY <2>1, <2>2, <2>3, <3>1 DEF ValueThen
  <2>4. ASSUME NEW v \in Values, NEW r \in Items, i = Cat(v, Cons("comma", r))
        PROVE  w \in ValueThen(AfterItem(K))
    <3> DEFINE x == Cat(r, Cons("rbracket", k))
    <3>1. v \in Word /\ r \in Word
      BY GrammarWords
    <3>2. Cons("comma", r) \in Word /\ x \in Word
      BY <1>1, <2>2, <3>1, ConsIsWord, CatIsWord
    <3>3. x \in ItemsThen(K)
      BY <3>2 DEF ItemsThen
    <3>4. w = Cat(v, Cat(Cons("comma", r), Cons("rbracket", k)))
      BY <2>1, <2>2, <2>4, <3>1, <3>2, CatAssoc
    <3>5. Cat(Cons("comma", r), Cons("rbracket", k)) = Cons("comma", x)
      BY <1>1, <2>2, <3>1, CatCons
    <3>6. Cons("comma", x) \in Word
      BY <1>1, <3>2, ConsIsWord
    <3> HIDE DEF x
    <3>7. Cons("comma", x) \in AfterItem(K)
      BY <3>3, <3>6 DEF AfterItem, StartedBy
    <3>. QED
      BY <2>2, <3>4, <3>5, <3>7 DEF ValueThen
  <2>. QED
    BY <2>3, <2>4, ItemsWords, Zenon
<1>3. ASSUME NEW w \in ValueThen(AfterItem(K))
      PROVE  w \in ItemsThen(K)
  <2>1. PICK v \in Values, x \in AfterItem(K) : w = Cat(v, x)
    BY DEF ValueThen
  <2>2. w \in Word /\ v \in Word
    BY ThenIsWords, GrammarWords
  <2>3. CASE x \in StartedBy("rbracket", K)
    <3>1. PICK k \in K : x = Cons("rbracket", k)
      BY <2>3 DEF StartedBy
    <3>2. v \in Items
      BY ItemsWords, Zenon
    <3>. QED
      BY <2>1, <2>2, <3>1, <3>2 DEF ItemsThen
  <2>4. CASE x \in StartedBy("comma", ItemsThen(K))
    <3>1. PICK y \in ItemsThen(K) : x = Cons("comma", y)
      BY <2>4 DEF StartedBy
    <3>2. PICK r \in Items, k \in K : y = Cat(r, Cons("rbracket", k))
      BY DEF ItemsThen
    <3>3. r \in Word /\ k \in Word
      BY GrammarWords
    <3>4. Cons("rbracket", k) \in Word /\ Cons("comma", r) \in Word
      BY <1>1, <3>3, ConsIsWord
    <3>5. Cat(v, Cons("comma", r)) \in Items
      BY ItemsWords, Zenon
    <3>6. Cat(Cat(v, Cons("comma", r)), Cons("rbracket", k)) = Cat(v, Cat(Cons("comma", r), Cons("rbracket", k)))
      BY <2>2, <3>4, CatAssoc
    <3>7. Cat(Cons("comma", r), Cons("rbracket", k)) = Cons("comma", y)
      BY <1>1, <3>2, <3>3, <3>4, CatCons
    <3>8. w = Cat(Cat(v, Cons("comma", r)), Cons("rbracket", k))
      BY <2>1, <3>1, <3>6, <3>7, Zenon
    <3>. QED
      BY <2>2, <3>5, <3>8 DEF ItemsThen
  <2>. QED
    BY <2>3, <2>4 DEF AfterItem
<1>. QED
  BY <1>2, <1>3

\* Members are a name that is not taken, a colon, a value, and what may come after
\* a member.
LEMMA MembersThenIs ==
    ASSUME NEW taken \in SUBSET Names, NEW K \in SUBSET Word, NEW w \in Word
    PROVE  w \in MembersThen(taken, K) <=>
              \E n \in Strings : /\ Decoded[n] \notin taken
                                 /\ w \in StartedBy(n, StartedBy("colon", ValueThen(AfterMember(taken \cup {Decoded[n]}, K))))
<1>1. {"rbrace", "comma", "colon"} \subseteq Clean /\ Strings \subseteq Clean /\ \A n \in Strings : Decoded[n] \in Names
  BY TokenFacts
<1>2. ASSUME NEW n \in Strings, NEW v \in Word, NEW x \in Word
      PROVE  /\ Cat(Cons(n, Cons("colon", v)), x) = Cons(n, Cons("colon", Cat(v, x)))
             /\ Cat(v, x) \in Word /\ Cons("colon", Cat(v, x)) \in Word
             /\ Cons("colon", v) \in Word /\ Cons(n, Cons("colon", v)) \in Word
  <2>1. Cat(v, x) \in Word
    BY CatIsWord
  <2>2. Cons("colon", Cat(v, x)) \in Word /\ Cons("colon", v) \in Word
    BY <1>1, <2>1, ConsIsWord
  <2>3. Cat(Cons(n, Cons("colon", v)), x) = Cons(n, Cat(Cons("colon", v), x))
    BY <1>1, <2>2, CatCons
  <2>4. Cat(Cons("colon", v), x) = Cons("colon", Cat(v, x))
    BY <1>1, CatCons
  <2>5. Cons(n, Cons("colon", v)) \in Word
    BY <1>1, <2>2, ConsIsWord
  <2>. QED
    BY <2>1, <2>2, <2>3, <2>4, <2>5, Zenon
<1>3. ASSUME NEW n \in Strings, NEW some, NEW v \in Values, NEW x \in AfterMember(some, K), w = Cons(n, Cons("colon", Cat(v, x)))
      PROVE  w \in StartedBy(n, StartedBy("colon", ValueThen(AfterMember(some, K))))
  <2>1. v \in Word /\ x \in Word
    BY GrammarWords, ThenIsWords
  <2>2. Cat(v, x) \in Word /\ Cons("colon", Cat(v, x)) \in Word
    BY <1>2, <2>1
  <2>3. Cat(v, x) \in ValueThen(AfterMember(some, K))
    BY <2>2 DEF ValueThen
  <2>4. Cons("colon", Cat(v, x)) \in StartedBy("colon", ValueThen(AfterMember(some, K)))
    BY <2>2, <2>3 DEF StartedBy
  <2>. QED
    BY <1>3, <2>4 DEF StartedBy
<1>4. ASSUME w \in MembersThen(taken, K)
      PROVE  \E n \in Strings : /\ Decoded[n] \notin taken
                                /\ w \in StartedBy(n, StartedBy("colon", ValueThen(AfterMember(taken \cup {Decoded[n]}, K))))
  <2>1. PICK names \in SUBSET (Names \ taken) : \E m \in MembersOf(names) : \E k \in K : w = Cat(m, Cons("rbrace", k))
    BY <1>4 DEF MembersThen
  <2>2. PICK m \in MembersOf(names), k \in K : w = Cat(m, Cons("rbrace", k))
    BY <2>1
  <2>3. names \in SUBSET Names /\ Cons("rbrace", k) \in Word
    BY <1>1, ConsIsWord
  <2>4. PICK n \in Strings, v \in Values :
           \/ names = {Decoded[n]} /\ m = Cons(n, Cons("colon", v))
           \/ /\ Decoded[n] \in names
              /\ \E r \in MembersOf(names \ {Decoded[n]}) : m = Cons(n, Cons("colon", Cat(v, Cons("comma", r))))
    <3>1. m \in MembersOf(names) <=>
             \E n \in Strings : \E v \in Values :
                \/ names = {Decoded[n]} /\ m = Cons(n, Cons("colon", v))
                \/ /\ Decoded[n] \in names
                   /\ \E r \in MembersOf(names \ {Decoded[n]}) : m = Cons(n, Cons("colon", Cat(v, Cons("comma", r))))
      <4>1. names \in SUBSET Names
        BY <2>3
      <4>. QED
        BY <4>1, MembersWords, SMT
    <3>. QED
      BY <2>2, <3>1, Zenon
  <2>5. v \in Word /\ Decoded[n] \notin taken
    BY <2>4, GrammarWords
  <2> DEFINE some == taken \cup {Decoded[n]}
  <2>6. CASE names = {Decoded[n]} /\ m = Cons(n, Cons("colon", v))
    <3>1. w = Cons(n, Cons("colon", Cat(v, Cons("rbrace", k))))
      BY <1>2, <2>2, <2>3, <2>5, <2>6
    <3>2. Cons("rbrace", k) \in AfterMember(some, K)
      BY <2>3 DEF AfterMember, StartedBy
    <3> HIDE DEF some
    <3>3. w \in StartedBy(n, StartedBy("colon", ValueThen(AfterMember(some, K))))
      BY <1>3, <3>1, <3>2
    <3>. QED
      BY <2>5, <3>3 DEF some
  <2>7. ASSUME Decoded[n] \in names, NEW r \in MembersOf(names \ {Decoded[n]}),
               m = Cons(n, Cons("colon", Cat(v, Cons("comma", r))))
        PROVE  w \in StartedBy(n, StartedBy("colon", ValueThen(AfterMember(some, K))))
    <3>1. names \ {Decoded[n]} \in SUBSET (Names \ some) /\ names \ {Decoded[n]} \in SUBSET Names
      OBVIOUS
    <3>2. r \in Word
      BY <3>1, GrammarWords
    <3> DEFINE x == Cat(r, Cons("rbrace", k))
    <3>3. x \in Word /\ Cons("comma", r) \in Word
      BY <1>1, <2>3, <3>2, CatIsWord, ConsIsWord
    <3>4. x \in MembersThen(some, K)
      BY <3>1, <3>3 DEF MembersThen
    <3>5. Cons("comma", x) \in Word /\ Cat(v, Cons("comma", r)) \in Word
      BY <1>1, <2>5, <3>3, CatIsWord, ConsIsWord
    <3>6. w = Cons(n, Cons("colon", Cat(Cat(v, Cons("comma", r)), Cons("rbrace", k))))
      BY <1>2, <2>2, <2>3, <2>7, <3>5
    <3>7. Cat(Cat(v, Cons("comma", r)), Cons("rbrace", k)) = Cat(v, Cat(Cons("comma", r), Cons("rbrace", k)))
      BY <2>3, <2>5, <3>3, CatAssoc
    <3>8. Cat(Cons("comma", r), Cons("rbrace", k)) = Cons("comma", x)
      BY <1>1, <2>3, <3>2, CatCons
    <3> HIDE DEF x, some
    <3>9. Cons("comma", x) \in AfterMember(some, K)
      BY <3>4, <3>5 DEF AfterMember, StartedBy
    <3>10. w = Cons(n, Cons("colon", Cat(v, Cons("comma", x))))
      BY <3>6, <3>7, <3>8, Zenon
    <3>. QED
      BY <1>3, <3>9, <3>10
  <2>. QED
    BY <2>4, <2>5, <2>6, <2>7
<1>5. ASSUME NEW n \in Strings, Decoded[n] \notin taken,
             w \in StartedBy(n, StartedBy("colon", ValueThen(AfterMember(taken \cup {Decoded[n]}, K))))
      PROVE  w \in MembersThen(taken, K)
  <2> DEFINE some == taken \cup {Decoded[n]}
  <2> HIDE DEF some
  <2>1. \E v \in Values : \E x \in AfterMember(some, K) : w = Cons(n, Cons("colon", Cat(v, x)))
    <3>1. w \in StartedBy(n, StartedBy("colon", ValueThen(AfterMember(some, K))))
      BY <1>5 DEF some
    <3>2. PICK a \in StartedBy("colon", ValueThen(AfterMember(some, K))) : w = Cons(n, a)
      BY <3>1 DEF StartedBy
    <3>3. PICK b \in ValueThen(AfterMember(some, K)) : a = Cons("colon", b)
      BY DEF StartedBy
    <3>4. PICK v \in Values, x \in AfterMember(some, K) : b = Cat(v, x)
      BY DEF ValueThen
    <3>. QED
      BY <3>2, <3>3, <3>4
  <2>2. PICK v \in Values, x \in AfterMember(some, K) : w = Cons(n, Cons("colon", Cat(v, x)))
    BY <2>1
  <2>3. v \in Word /\ x \in Word
    BY GrammarWords, ThenIsWords
  <2>4. CASE x \in StartedBy("rbrace", K)
    <3>1. PICK k \in K : x = Cons("rbrace", k)
      BY <2>4 DEF StartedBy
    <3>2. {Decoded[n]} \in SUBSET (Names \ taken) /\ {Decoded[n]} \in SUBSET Names
      BY <1>1, <1>5
    <3>3. Cons(n, Cons("colon", v)) \in MembersOf({Decoded[n]})
      BY <3>2, MembersWords, Zenon
    <3>4. w = Cat(Cons(n, Cons("colon", v)), Cons("rbrace", k))
      BY <1>2, <2>2, <2>3, <3>1
    <3>. QED
      BY <3>2, <3>3, <3>4 DEF MembersThen
  <2>5. CASE x \in StartedBy("comma", MembersThen(some, K))
    <3>1. PICK y \in MembersThen(some, K) : x = Cons("comma", y)
      BY <2>5 DEF StartedBy
    <3>2. PICK rest \in SUBSET (Names \ some) : \E r \in MembersOf(rest) : \E k \in K : y = Cat(r, Cons("rbrace", k))
      BY DEF MembersThen
    <3>3. PICK r \in MembersOf(rest), k \in K : y = Cat(r, Cons("rbrace", k))
      BY <3>2
    <3> DEFINE names == rest \cup {Decoded[n]}
    <3>4. /\ names \in SUBSET (Names \ taken) /\ names \in SUBSET Names
          /\ Decoded[n] \in names /\ names \ {Decoded[n]} = rest /\ rest \in SUBSET Names
      BY <1>1, <1>5 DEF some
    <3> HIDE DEF names
    <3>5. r \in Word /\ k \in Word
      BY <3>4, GrammarWords
    <3>6. Cons("rbrace", k) \in Word /\ Cons("comma", r) \in Word
      BY <1>1, <3>5, ConsIsWord
    <3>7. Cat(v, Cons("comma", r)) \in Word
      BY <2>3, <3>6, CatIsWord
    <3>8. Cons(n, Cons("colon", Cat(v, Cons("comma", r)))) \in MembersOf(names)
      BY <3>4, MembersWords, Zenon
    <3>9. Cat(Cons(n, Cons("colon", Cat(v, Cons("comma", r)))), Cons("rbrace", k))
            = Cons(n, Cons("colon", Cat(Cat(v, Cons("comma", r)), Cons("rbrace", k))))
      BY <1>2, <3>6, <3>7
    <3>10. Cat(Cat(v, Cons("comma", r)), Cons("rbrace", k)) = Cat(v, Cat(Cons("comma", r), Cons("rbrace", k)))
      BY <2>3, <3>6, CatAssoc
    <3>11. Cat(Cons("comma", r), Cons("rbrace", k)) = x
      BY <1>1, <3>1, <3>3, <3>5, <3>6, CatCons
    <3>12. w = Cat(Cons(n, Cons("colon", Cat(v, Cons("comma", r)))), Cons("rbrace", k))
      BY <2>2, <3>9, <3>10, <3>11, Zenon
    <3>. QED
      BY <3>4, <3>8, <3>12 DEF MembersThen
  <2>. QED
    BY <2>4, <2>5 DEF AfterMember
<1>. QED
  BY <1>4, <1>5

-----------------------------------------------------------------------------
(* What completes the input, by the calls under way *)

\* A call of value() under way.
Frame == [of : {"array", "object"}, members : SUBSET Names]

\* What completes the innermost call after one of its values, and then one of K.
FrameThen(f, K) == IF f.of = "array" THEN AfterItem(K) ELSE AfterMember(f.members, K)

\* Closing one frame after another, the innermost first, builds the rest of the
\* input from its end: p[i] closes the first i frames.
Closings(c) == {p \in [0 .. Len(c) -> Word] :
                  p[0] = << >> /\ \A i \in 1 .. Len(c) : p[i] \in FrameThen(c[i], {p[i - 1]})}

\* What completes all the calls, each after one of its values.
After(c) == {p[Len(c)] : p \in Closings(c)}

\* The calls but the innermost, and the innermost.
Outer(c) == SubSeq(c, 1, Len(c) - 1)
Inner(c) == c[Len(c)]

\* What makes a value of what was read, where the scanner stands with the calls c
\* and expects e.
Fits(c, e) ==
    CASE e = "value" -> ValueThen(After(c))
      [] e = "firstValue" -> AfterBracket(After(Outer(c)))
      [] e = "key" -> MembersThen(Inner(c).members, After(Outer(c)))
      [] e = "firstKey" -> AfterBrace(Inner(c).members, After(Outer(c)))
      [] e = "colon" -> StartedBy("colon", ValueThen(After(c)))
      [] e \in {"rest", "end"} -> After(c)

\* What completes a call is words.
LEMMA FrameThenIsWords == \A f, K : FrameThen(f, K) \in SUBSET Word
BY ThenIsWords DEF FrameThen

\* Completing a call and going on with one of K, one at a time.
LEMMA FrameThenOne ==
    ASSUME NEW f, NEW K \in SUBSET Word, NEW w
    PROVE  w \in FrameThen(f, K) <=> \E k \in K : w \in FrameThen(f, {k})
<1>1. \A t : w \in StartedBy(t, K) <=> \E k \in K : w \in StartedBy(t, {k})
  BY DEF StartedBy
<1>2. w \in StartedBy("comma", ItemsThen(K)) <=> \E k \in K : w \in StartedBy("comma", ItemsThen({k}))
  <2>1. \A x : x \in ItemsThen(K) <=> \E k \in K : x \in ItemsThen({k})
    BY DEF ItemsThen
  <2>. QED
    BY <2>1 DEF StartedBy
<1>3. \A taken : w \in StartedBy("comma", MembersThen(taken, K)) <=> \E k \in K : w \in StartedBy("comma", MembersThen(taken, {k}))
  <2>1. \A taken, x : x \in MembersThen(taken, K) <=> \E k \in K : x \in MembersThen(taken, {k})
    BY DEF MembersThen
  <2>. QED
    BY <2>1 DEF StartedBy
<1>. QED
  BY <1>1, <1>2, <1>3 DEF FrameThen, AfterItem, AfterMember

\* What completes the calls is words.
LEMMA AfterIsWords ==
    ASSUME NEW c \in Seq(Frame)
    PROVE  After(c) \in SUBSET Word
<1>1. Len(c) \in 0 .. Len(c)
  OBVIOUS
<1>. QED
  BY <1>1 DEF After, Closings

\* Without calls nothing is missing.
LEMMA AfterNone == After(<< >>) = {<< >>}
<1>1. Len(<< >>) = 0 /\ 0 .. 0 = {0} /\ 1 .. 0 = {}
  OBVIOUS
<1> DEFINE q == [i \in {0} |-> << >>]
<1>2. q \in [{0} -> Word] /\ q[0] = << >>
  BY NoneIsWord
<1> HIDE DEF q
<1>3. q \in Closings(<< >>)
  BY <1>1, <1>2 DEF Closings
<1>4. \A p \in Closings(<< >>) : p[0] = << >>
  BY DEF Closings
<1>. QED
  BY <1>1, <1>2, <1>3, <1>4 DEF After

\* What completes the calls completes the innermost, and then the others.
LEMMA AfterInner ==
    ASSUME NEW c \in Seq(Frame), NEW f \in Frame
    PROVE  After(Append(c, f)) = FrameThen(f, After(c))
<1> DEFINE d == Append(c, f)
           n == Len(c)
<1>1. n \in Nat /\ Len(d) = n + 1 /\ d[n + 1] = f /\ \A i \in 1 .. n : d[i] = c[i]
  OBVIOUS
<1> HIDE DEF d
<1>2. ASSUME NEW w \in After(d)
      PROVE  w \in FrameThen(f, After(c))
  <2>1. PICK p \in Closings(d) : w = p[n + 1]
    BY <1>1 DEF After
  <2>2. /\ p \in [0 .. (n + 1) -> Word] /\ p[0] = << >>
        /\ \A i \in 1 .. (n + 1) : p[i] \in FrameThen(d[i], {p[i - 1]})
    BY <1>1 DEF Closings
  <2> DEFINE q == [i \in 0 .. n |-> p[i]]
  <2>3. q \in [0 .. n -> Word] /\ q[0] = << >>
    BY <1>1, <2>2
  <2>4. ASSUME NEW i \in 1 .. n
        PROVE  q[i] \in FrameThen(c[i], {q[i - 1]})
    <3>1. i \in 1 .. (n + 1) /\ i \in 0 .. n /\ i - 1 \in 0 .. n
      BY <1>1
    <3>2. q[i] = p[i] /\ q[i - 1] = p[i - 1] /\ d[i] = c[i]
      BY <1>1, <3>1
    <3> HIDE DEF q
    <3>. QED
      BY <2>2, <3>1, <3>2
  <2>5. q[n] = p[n]
    BY <1>1
  <2> HIDE DEF q
  <2>6. q \in Closings(c)
    BY <2>3, <2>4 DEF Closings
  <2>7. p[n] \in After(c)
    BY <2>5, <2>6 DEF After
  <2>8. n + 1 \in 1 .. (n + 1) /\ (n + 1) - 1 = n
    BY <1>1
  <2>9. p[n + 1] \in FrameThen(f, {p[n]})
    BY <1>1, <2>2, <2>8
  <2>. QED
    BY <2>1, <2>7, <2>9, AfterIsWords, FrameThenOne
<1>3. ASSUME NEW w \in FrameThen(f, After(c))
      PROVE  w \in After(d)
  <2>1. PICK k \in After(c) : w \in FrameThen(f, {k})
    BY AfterIsWords, FrameThenOne
  <2>2. PICK q \in Closings(c) : k = q[n]
    BY DEF After
  <2>3. /\ q \in [0 .. n -> Word] /\ q[0] = << >>
        /\ \A i \in 1 .. n : q[i] \in FrameThen(c[i], {q[i - 1]})
    BY DEF Closings
  <2> DEFINE p == [i \in 0 .. (n + 1) |-> IF i = n + 1 THEN w ELSE q[i]]
  <2>4. w \in Word
    BY FrameThenIsWords
  <2>5. p \in [0 .. (n + 1) -> Word] /\ p[0] = << >> /\ p[n + 1] = w
    BY <1>1, <2>3, <2>4
  <2>6. \A i \in 0 .. n : p[i] = q[i]
    BY <1>1
  <2> HIDE DEF p
  <2>7. ASSUME NEW i \in 1 .. (n + 1)
        PROVE  p[i] \in FrameThen(d[i], {p[i - 1]})
    <3>1. CASE i = n + 1
      <4>1. i - 1 = n /\ n \in 0 .. n
        BY <1>1, <3>1
      <4>. QED
        BY <1>1, <2>1, <2>2, <2>5, <2>6, <3>1, <4>1
    <3>2. CASE i # n + 1
      <4>1. i \in 1 .. n /\ i \in 0 .. n /\ i - 1 \in 0 .. n
        BY <1>1, <3>2
      <4>. QED
        BY <1>1, <2>3, <2>6, <4>1
    <3>. QED
      BY <3>1, <3>2
  <2>8. p \in Closings(d)
    BY <1>1, <2>5, <2>7 DEF Closings
  <2>. QED
    BY <1>1, <2>5, <2>8 DEF After
<1>. QED
  BY <1>2, <1>3 DEF d

\* The same, of any calls that are not empty.
LEMMA AfterSplit ==
    ASSUME NEW c \in Seq(Frame), c # << >>
    PROVE  /\ Outer(c) \in Seq(Frame) /\ Inner(c) \in Frame
           /\ c = Append(Outer(c), Inner(c))
           /\ After(c) = FrameThen(Inner(c), After(Outer(c)))
<1>1. PICK o \in Seq(Frame), f \in Frame : c = Append(o, f)
  BY SequenceEmptyOrAppend
<1>2. Outer(c) = o /\ Inner(c) = f
  BY <1>1 DEF Outer, Inner
<1>. QED
  BY <1>1, <1>2, AfterInner

-----------------------------------------------------------------------------
(* One token *)

\* What the scanner may look for.
Expectations == {"value", "firstValue", "key", "firstKey", "colon", "rest", "end"}

\* What is expected fits the innermost call.
ShapeOf(c, e) ==
    /\ c \in Seq(Frame) /\ e \in Expectations
    /\ e = "end" => c = << >>
    /\ e \in {"firstValue", "key", "firstKey", "colon", "rest"} => c # << >>
    /\ e = "firstValue" => Inner(c).of = "array"
    /\ e \in {"key", "firstKey", "colon"} => Inner(c).of = "object"

\* A call on top of the others.
LEMMA PushedFrame ==
    ASSUME NEW c \in Seq(Frame), NEW f \in Frame
    PROVE  /\ Append(c, f) \in Seq(Frame) /\ Append(c, f) # << >>
           /\ Outer(Append(c, f)) = c /\ Inner(Append(c, f)) = f
BY DEF Outer, Inner

\* A complete value leaves what completes the calls.
LEMMA CompletedValue ==
    ASSUME NEW c \in Seq(Frame)
    PROVE  /\ Fits(Complete(c).calls, Complete(c).expect) = After(c)
           /\ ShapeOf(Complete(c).calls, Complete(c).expect)
<1>1. Complete(c).calls = c /\ Complete(c).expect = IF c = << >> THEN "end" ELSE "rest"
  BY DEF Complete
<1>2. Fits(c, "end") = After(c) /\ Fits(c, "rest") = After(c)
  BY DEF Fits
<1>. QED
  BY <1>1, <1>2 DEF ShapeOf, Expectations

\* An opening brace leads to the first key or the end of the object.
LEMMA EnteredObject ==
    ASSUME calls \in Seq(Frame)
    PROVE  /\ Fits(Enter("object", "firstKey").calls, Enter("object", "firstKey").expect) = AfterBrace({}, After(calls))
           /\ ShapeOf(Enter("object", "firstKey").calls, Enter("object", "firstKey").expect)
<1> DEFINE f == [of |-> "object", members |-> {}]
<1>1. f \in Frame /\ f.of = "object" /\ f.members = {}
  BY DEF Frame
<1>2. Enter("object", "firstKey") = [calls |-> Append(calls, f), expect |-> "firstKey"]
  BY DEF Enter
<1> HIDE DEF f
<1>3. Fits(Append(calls, f), "firstKey") = AfterBrace({}, After(calls))
  BY <1>1, PushedFrame DEF Fits
<1>4. ShapeOf(Append(calls, f), "firstKey")
  BY <1>1, PushedFrame DEF ShapeOf, Expectations
<1>5. Enter("object", "firstKey").calls = Append(calls, f) /\ Enter("object", "firstKey").expect = "firstKey"
  BY <1>2
<1>. QED
  BY <1>3, <1>4, <1>5, Zenon

\* An opening bracket leads to the first item or the end of the array.
LEMMA EnteredArray ==
    ASSUME calls \in Seq(Frame)
    PROVE  /\ Fits(Enter("array", "firstValue").calls, Enter("array", "firstValue").expect) = AfterBracket(After(calls))
           /\ ShapeOf(Enter("array", "firstValue").calls, Enter("array", "firstValue").expect)
<1> DEFINE f == [of |-> "array", members |-> {}]
<1>1. f \in Frame /\ f.of = "array" /\ f.members = {}
  BY DEF Frame
<1>2. Enter("array", "firstValue") = [calls |-> Append(calls, f), expect |-> "firstValue"]
  BY DEF Enter
<1> HIDE DEF f
<1>3. Fits(Append(calls, f), "firstValue") = AfterBracket(After(calls))
  BY <1>1, PushedFrame DEF Fits
<1>4. ShapeOf(Append(calls, f), "firstValue")
  BY <1>1, PushedFrame DEF ShapeOf, Expectations
<1>5. Enter("array", "firstValue").calls = Append(calls, f) /\ Enter("array", "firstValue").expect = "firstValue"
  BY <1>2
<1>. QED
  BY <1>3, <1>4, <1>5, Zenon

\* Where a value is due, every clean token leads to what may follow it.
LEMMA OfValueDerives ==
    ASSUME calls \in Seq(Frame), NEW t \in Clean, NEW w \in Word
    PROVE  /\ Cons(t, w) \in ValueThen(After(calls)) <=> \E move \in OfValue(t) : w \in Fits(move.calls, move.expect)
           /\ \A move \in OfValue(t) : ShapeOf(move.calls, move.expect)
<1> DEFINE K == After(calls)
           o == Enter("object", "firstKey")
           a == Enter("array", "firstValue")
           d == Complete(calls)
<1>1. K \in SUBSET Word /\ Cons(t, w) \in Word
  BY AfterIsWords, ConsIsWord
<1>2. /\ Fits(o.calls, o.expect) = AfterBrace({}, K) /\ ShapeOf(o.calls, o.expect)
      /\ Fits(a.calls, a.expect) = AfterBracket(K) /\ ShapeOf(a.calls, a.expect)
      /\ Fits(d.calls, d.expect) = K /\ ShapeOf(d.calls, d.expect)
  BY EnteredObject, EnteredArray, CompletedValue
<1>3. OfValue(t) = OnlyIf(t = "lbrace", o) \cup OnlyIf(t = "lbracket", a) \cup OnlyIf(t \in Atoms, d)
  BY DEF OfValue
<1> HIDE DEF K, o, a, d
<1>4. Cons(t, w) \in ValueThen(K) <=>
         \/ t \in Strings \cup {"n"} /\ w \in K
         \/ t = "lbracket" /\ w \in AfterBracket(K)
         \/ t = "lbrace" /\ w \in AfterBrace({}, K)
  <2>1. \A u \in Strings \cup {"n"} : u \in Clean
    BY TokenFacts
  <2>2. (\E u \in Strings \cup {"n"} : Cons(t, w) \in StartedBy(u, K)) <=> t \in Strings \cup {"n"} /\ w \in K
    BY <1>1, <2>1, FirstDerived
  <2>3. "lbracket" \in Clean /\ "lbrace" \in Clean
    BY TokenFacts
  <2>4. Cons(t, w) \in StartedBy("lbracket", AfterBracket(K)) <=> t = "lbracket" /\ w \in AfterBracket(K)
    BY <2>3, ThenIsWords, FirstDerived
  <2>5. Cons(t, w) \in StartedBy("lbrace", AfterBrace({}, K)) <=> t = "lbrace" /\ w \in AfterBrace({}, K)
    BY <2>3, ThenIsWords, FirstDerived
  <2>. QED
    BY <1>1, <2>2, <2>4, <2>5, ValueThenIs, Zenon
<1>5. t \in Atoms <=> t \in Strings \cup {"n"}
  BY TokenFacts
<1>6. \A move : move \in OfValue(t) <=>
         \/ t = "lbrace" /\ move = o
         \/ t = "lbracket" /\ move = a
         \/ t \in Atoms /\ move = d
  BY <1>3 DEF OnlyIf
<1>7. Cons(t, w) \in ValueThen(K) <=> \E move \in OfValue(t) : w \in Fits(move.calls, move.expect)
  BY <1>2, <1>4, <1>5, <1>6
<1>8. \A move \in OfValue(t) : ShapeOf(move.calls, move.expect)
  BY <1>2, <1>6
<1>. QED
  BY <1>7, <1>8 DEF K

\* A key leads to its value, with its name taken.
LEMMA AddedMember ==
    ASSUME calls \in Seq(Frame), calls # << >>, Inner(calls).of = "object", NEW t \in Strings
    PROVE  /\ ShapeOf(WithMember(t).calls, WithMember(t).expect)
           /\ Fits(WithMember(t).calls, WithMember(t).expect) =
                    StartedBy("colon", ValueThen(AfterMember(Inner(calls).members \cup {Decoded[t]}, After(Outer(calls)))))
<1> DEFINE g == [Inner(calls) EXCEPT !.members = @ \cup {Decoded[t]}]
           d == Append(Outer(calls), g)
<1>1. Outer(calls) \in Seq(Frame) /\ Inner(calls) \in Frame
  BY AfterSplit
<1>2. g \in Frame /\ g.of = "object" /\ g.members = Inner(calls).members \cup {Decoded[t]}
  BY <1>1, TokenFacts DEF Frame
<1>3. WithMember(t).calls = d /\ WithMember(t).expect = "colon"
  <2> DEFINE e == [calls EXCEPT ![Len(calls)].members = @ \cup {Decoded[t]}]
  <2>1. Len(calls) \in Nat \ {0}
    OBVIOUS
  <2>2. e = [calls EXCEPT ![Len(calls)] = g]
    BY DEF Inner
  <2> HIDE DEF e, g
  <2>3. Len(calls) \in 1 .. Len(calls)
    BY <2>1
  <2>4. /\ e \in Seq(Frame) /\ Len(e) = Len(calls)
        /\ \A i \in 1 .. Len(calls) : e[i] = IF i = Len(calls) THEN g ELSE calls[i]
    BY <1>2, <2>2, <2>3, ExceptSeq
  <2>5. Len(Outer(calls)) = Len(calls) - 1 /\ \A i \in 1 .. (Len(calls) - 1) : Outer(calls)[i] = calls[i]
    <3>1. calls = Append(Outer(calls), Inner(calls)) /\ Inner(calls) \in Frame
      BY AfterSplit
    <3>2. /\ Len(calls) = Len(Outer(calls)) + 1
          /\ \A i \in 1 .. Len(Outer(calls)) : calls[i] = Outer(calls)[i]
      BY <1>1, <3>1, AppendProperties
    <3>. QED
      BY <1>1, <3>2
  <2>6. /\ d \in Seq(Frame) /\ Len(d) = Len(calls)
        /\ \A i \in 1 .. Len(calls) : d[i] = IF i = Len(calls) THEN g ELSE calls[i]
    BY <1>1, <1>2, <2>1, <2>5
  <2> HIDE DEF d
  <2> HIDE DEF e
  <2>7. e = d
    BY <2>4, <2>6, SeqEqual
  <2>. QED
    BY <2>7 DEF WithMember, Depth, e
<1> HIDE DEF g, d
<1>4. d \in Seq(Frame) /\ d # << >> /\ Outer(d) = Outer(calls) /\ Inner(d) = g
  BY <1>1, <1>2, PushedFrame DEF d
<1>5. After(d) = AfterMember(Inner(calls).members \cup {Decoded[t]}, After(Outer(calls)))
  BY <1>2, <1>4, AfterSplit DEF FrameThen
<1>6. ShapeOf(d, "colon")
  BY <1>2, <1>4 DEF ShapeOf, Expectations
<1>7. Fits(d, "colon") = StartedBy("colon", ValueThen(After(d)))
  BY DEF Fits
<1>. QED
  BY <1>3, <1>5, <1>6, <1>7

\* Where a key is due, every clean token leads to what may follow it, and a name
\* that is taken leads nowhere.
LEMMA OfKeyDerives ==
    ASSUME calls \in Seq(Frame), calls # << >>, Inner(calls).of = "object", NEW t \in Clean, NEW w \in Word
    PROVE  /\ Cons(t, w) \in MembersThen(Inner(calls).members, After(Outer(calls)))
                <=> \E move \in OfKey(t) : w \in Fits(move.calls, move.expect)
           /\ \A move \in OfKey(t) : ShapeOf(move.calls, move.expect)
<1> DEFINE K == After(Outer(calls))
           taken == Inner(calls).members
           more(n) == StartedBy("colon", ValueThen(AfterMember(taken \cup {Decoded[n]}, K)))
<1>1. K \in SUBSET Word /\ Cons(t, w) \in Word /\ taken \in SUBSET Names
  BY AfterSplit, AfterIsWords, ConsIsWord DEF Frame
<1> HIDE DEF K, taken
<1>2. Cons(t, w) \in MembersThen(taken, K) <=> t \in Strings /\ Decoded[t] \notin taken /\ w \in more(t)
  <2>1. \A n : more(n) \in SUBSET Word
    BY ThenIsWords
  <2>2. \A n \in Strings : n \in Clean
    BY TokenFacts
  <2>3. Cons(t, w) \in MembersThen(taken, K) <=>
           \E n \in Strings : Decoded[n] \notin taken /\ Cons(t, w) \in StartedBy(n, more(n))
    BY <1>1, MembersThenIs, Zenon
  <2> HIDE DEF more
  <2>. QED
    BY <2>1, <2>2, <2>3, FirstDerived
<1>3. Repeats(t) <=> Decoded[t] \in taken
  BY DEF Repeats, taken, Inner, Depth
<1>4. \A move : move \in OfKey(t) <=> t \in Strings /\ Decoded[t] \notin taken /\ move = WithMember(t)
  BY <1>3 DEF OfKey
<1>5. t \in Strings => /\ ShapeOf(WithMember(t).calls, WithMember(t).expect)
                       /\ Fits(WithMember(t).calls, WithMember(t).expect) = more(t)
  BY AddedMember DEF taken, K
<1> HIDE DEF more
<1>6. Cons(t, w) \in MembersThen(taken, K) <=> \E move \in OfKey(t) : w \in Fits(move.calls, move.expect)
  BY <1>2, <1>4, <1>5
<1>7. \A move \in OfKey(t) : ShapeOf(move.calls, move.expect)
  BY <1>4, <1>5
<1>. QED
  BY <1>6, <1>7 DEF K, taken

\* The end of a call leaves what completes the others.
LEMMA LeftFrame ==
    ASSUME calls \in Seq(Frame), calls # << >>
    PROVE  /\ Fits(Leave.calls, Leave.expect) = After(Outer(calls))
           /\ ShapeOf(Leave.calls, Leave.expect)
<1>1. Leave = Complete(Outer(calls)) /\ Outer(calls) \in Seq(Frame)
  BY AfterSplit DEF Leave, Outer, Depth
<1>. QED
  BY <1>1, CompletedValue

\* A token is followed by what the place fits after it, where the scanner goes
\* with it, and by nothing where it is refused.
LEMMA MovesDerive ==
    ASSUME ShapeOf(calls, expect), NEW t \in Clean, NEW w \in Word
    PROVE  /\ Cons(t, w) \in Fits(calls, expect) <=> \E move \in Moves(t) : w \in Fits(move.calls, move.expect)
           /\ \A move \in Moves(t) : ShapeOf(move.calls, move.expect)
<1>1. calls \in Seq(Frame) /\ {"rbracket", "rbrace", "comma", "colon"} \subseteq Clean
  BY TokenFacts DEF ShapeOf
<1> DEFINE K == After(Outer(calls))
<1>2. calls # << >> => /\ K \in SUBSET Word
                       /\ Fits(Leave.calls, Leave.expect) = K /\ ShapeOf(Leave.calls, Leave.expect)
                       /\ After(calls) = FrameThen(Inner(calls), K)
                       /\ Inner(calls).of = "array" \/ Inner(calls).of = "object"
  BY <1>1, AfterSplit, AfterIsWords, LeftFrame DEF Frame
<1>3. InObject <=> Inner(calls).of = "object"
  BY DEF InObject, Inner, Depth
<1> HIDE DEF K
<1>4. ASSUME NEW u \in Clean, NEW S \in SUBSET Word
      PROVE  Cons(t, w) \in StartedBy(u, S) <=> t = u /\ w \in S
  BY FirstDerived
<1>5. CASE expect = "value"
  <2>1. Moves(t) = OfValue(t) /\ Fits(calls, expect) = ValueThen(After(calls))
    BY <1>5 DEF Moves, Fits
  <2>. QED
    BY <1>1, <2>1, OfValueDerives
<1>6. CASE expect = "firstValue"
  <2>1. Moves(t) = OfValue(t) \cup OnlyIf(t = "rbracket", Leave) /\ Fits(calls, expect) = StartedBy("rbracket", K) \cup ItemsThen(K)
    BY <1>6 DEF Moves, Fits, AfterBracket, K
  <2>2. calls # << >> /\ Inner(calls).of = "array"
    BY <1>6 DEF ShapeOf
  <2>3. ItemsThen(K) = ValueThen(After(calls))
    BY <1>2, <2>2, ItemsThenIs DEF FrameThen
  <2>4. Cons(t, w) \in ItemsThen(K) <=> \E move \in OfValue(t) : w \in Fits(move.calls, move.expect)
    BY <1>1, <2>3, OfValueDerives
  <2>5. \A move \in OfValue(t) : ShapeOf(move.calls, move.expect)
    BY <1>1, OfValueDerives
  <2>6. Cons(t, w) \in StartedBy("rbracket", K) <=> t = "rbracket" /\ w \in K
    BY <1>1, <1>2, <1>4, <2>2
  <2>7. \A move : move \in Moves(t) <=> move \in OfValue(t) \/ (t = "rbracket" /\ move = Leave)
    BY <2>1 DEF OnlyIf
  <2>. QED
    BY <1>2, <2>1, <2>2, <2>4, <2>5, <2>6, <2>7
<1>7. CASE expect = "key"
  <2>1. Moves(t) = OfKey(t) /\ Fits(calls, expect) = MembersThen(Inner(calls).members, After(Outer(calls)))
    BY <1>7 DEF Moves, Fits
  <2>2. calls # << >> /\ Inner(calls).of = "object"
    BY <1>7 DEF ShapeOf
  <2>. QED
    BY <1>1, <2>1, <2>2, OfKeyDerives
<1>8. CASE expect = "firstKey"
  <2>1. Moves(t) = OfKey(t) \cup OnlyIf(t = "rbrace", Leave)
        /\ Fits(calls, expect) = StartedBy("rbrace", K) \cup MembersThen(Inner(calls).members, K)
    BY <1>8 DEF Moves, Fits, AfterBrace, K
  <2>2. calls # << >> /\ Inner(calls).of = "object"
    BY <1>8 DEF ShapeOf
  <2>3. Cons(t, w) \in MembersThen(Inner(calls).members, K) <=> \E move \in OfKey(t) : w \in Fits(move.calls, move.expect)
    BY <1>1, <2>2, OfKeyDerives DEF K
  <2>4. \A move \in OfKey(t) : ShapeOf(move.calls, move.expect)
    BY <1>1, <2>2, OfKeyDerives
  <2>5. Cons(t, w) \in StartedBy("rbrace", K) <=> t = "rbrace" /\ w \in K
    BY <1>1, <1>2, <1>4, <2>2
  <2>6. \A move : move \in Moves(t) <=> move \in OfKey(t) \/ (t = "rbrace" /\ move = Leave)
    BY <2>1 DEF OnlyIf
  <2>. QED
    BY <1>2, <2>1, <2>2, <2>3, <2>4, <2>5, <2>6
<1>9. CASE expect = "colon"
  <2>1. Moves(t) = OnlyIf(t = "colon", To("value")) /\ Fits(calls, expect) = StartedBy("colon", ValueThen(After(calls)))
    BY <1>9 DEF Moves, Fits
  <2>2. To("value").calls = calls /\ To("value").expect = "value"
    BY DEF To
  <2>3. Fits(calls, "value") = ValueThen(After(calls)) /\ ShapeOf(calls, "value")
    BY <1>1 DEF Fits, ShapeOf, Expectations
  <2>4. Cons(t, w) \in StartedBy("colon", ValueThen(After(calls))) <=> t = "colon" /\ w \in ValueThen(After(calls))
    BY <1>1, <1>4, ThenIsWords
  <2>5. \A move : move \in Moves(t) <=> t = "colon" /\ move = To("value")
    BY <2>1 DEF OnlyIf
  <2>. QED
    BY <2>1, <2>2, <2>3, <2>4, <2>5
<1>10. CASE expect = "rest"
  <2>1. Fits(calls, expect) = After(calls) /\ calls # << >>
    BY <1>10 DEF Fits, ShapeOf
  <2>2. Moves(t) = OnlyIf(t = "comma", To(IF InObject THEN "key" ELSE "value"))
                   \cup OnlyIf(t = (IF InObject THEN "rbrace" ELSE "rbracket"), Leave)
    BY <1>10 DEF Moves
  <2>3. CASE Inner(calls).of = "array"
    <3>1. \A move : move \in Moves(t) <=> (t = "comma" /\ move = To("value")) \/ (t = "rbracket" /\ move = Leave)
      BY <1>3, <2>2, <2>3 DEF OnlyIf
    <3>2. To("value").calls = calls /\ To("value").expect = "value"
      BY DEF To
    <3>3. Fits(calls, "value") = ValueThen(After(calls)) /\ ShapeOf(calls, "value")
      BY <1>1 DEF Fits, ShapeOf, Expectations
    <3>4. After(calls) = AfterItem(K) /\ ItemsThen(K) = ValueThen(After(calls))
      BY <1>2, <2>1, <2>3, ItemsThenIs DEF FrameThen
    <3>5. Cons(t, w) \in After(calls) <=> (t = "rbracket" /\ w \in K) \/ (t = "comma" /\ w \in ItemsThen(K))
      <4>1. After(calls) = StartedBy("rbracket", K) \cup StartedBy("comma", ItemsThen(K))
        BY <3>4, Zenon DEF AfterItem
      <4>2. ItemsThen(K) \in SUBSET Word /\ K \in SUBSET Word
        BY <1>2, <2>1, ThenIsWords
      <4>. QED
        BY <1>1, <1>4, <4>1, <4>2
    <3>. QED
      BY <1>2, <2>1, <3>1, <3>2, <3>3, <3>4, <3>5
  <2>4. CASE Inner(calls).of = "object"
    <3>1. \A move : move \in Moves(t) <=> (t = "comma" /\ move = To("key")) \/ (t = "rbrace" /\ move = Leave)
      BY <1>3, <2>2, <2>4 DEF OnlyIf
    <3>2. To("key").calls = calls /\ To("key").expect = "key"
      BY DEF To
    <3>3. Fits(calls, "key") = MembersThen(Inner(calls).members, K) /\ ShapeOf(calls, "key")
      BY <1>1, <2>1, <2>4 DEF Fits, ShapeOf, Expectations, K
    <3>4. After(calls) = AfterMember(Inner(calls).members, K)
      BY <1>2, <2>1, <2>4 DEF FrameThen
    <3>5. Cons(t, w) \in After(calls) <=>
             (t = "rbrace" /\ w \in K) \/ (t = "comma" /\ w \in MembersThen(Inner(calls).members, K))
      <4>1. After(calls) = StartedBy("rbrace", K) \cup StartedBy("comma", MembersThen(Inner(calls).members, K))
        BY <3>4, Zenon DEF AfterMember
      <4>2. MembersThen(Inner(calls).members, K) \in SUBSET Word /\ K \in SUBSET Word
        BY <1>2, <2>1, ThenIsWords
      <4>. QED
        BY <1>1, <1>4, <4>1, <4>2
    <3>. QED
      BY <1>2, <2>1, <3>1, <3>2, <3>3, <3>4, <3>5
  <2>. QED
    BY <1>2, <2>1, <2>3, <2>4
<1>11. CASE expect = "end"
  <2>1. calls = << >> /\ Moves(t) = {} /\ Fits(calls, expect) = After(calls)
    BY <1>11 DEF ShapeOf, Moves, Fits
  <2>2. Cons(t, w) # << >>
    BY ConsNotEmpty
  <2>. QED
    BY <2>1, <2>2, AfterNone
<1>12. expect \in Expectations
  BY DEF ShapeOf
<1>. QED
  BY <1>5, <1>6, <1>7, <1>8, <1>9, <1>10, <1>11, <1>12 DEF Expectations

\* The input may stop only where "end" is expected.
LEMMA StopFits ==
    ASSUME ShapeOf(calls, expect)
    PROVE  << >> \in Fits(calls, expect) <=> expect = "end"
<1>1. calls \in Seq(Frame) /\ {"rbracket", "rbrace", "comma", "colon"} \subseteq Clean
  BY TokenFacts DEF ShapeOf
<1>2. \A t \in Clean, K \in SUBSET Word : << >> \notin StartedBy(t, K)
  BY ConsNotEmpty DEF StartedBy
<1>3. \A K \in SUBSET Word : << >> \notin ValueThen(K)
  <2>1. ASSUME NEW K \in SUBSET Word, << >> \in ValueThen(K)
        PROVE  FALSE
    <3>1. PICK v \in Values, k \in K : << >> = Cat(v, k)
      BY <2>1 DEF ValueThen
    <3>. QED
      BY <3>1, GrammarWords, CatEmpty
  <2>. QED
    BY <2>1
<1>4. \A K \in SUBSET Word : << >> \notin ItemsThen(K)
  BY <1>3, ItemsThenIs, ThenIsWords
<1>5. \A K \in SUBSET Word : \A taken \in SUBSET Names : << >> \notin MembersThen(taken, K)
  <2>1. ASSUME NEW K \in SUBSET Word, NEW taken \in SUBSET Names, << >> \in MembersThen(taken, K)
        PROVE  FALSE
    <3>1. PICK n \in Strings : << >> \in StartedBy(n, StartedBy("colon", ValueThen(AfterMember(taken \cup {Decoded[n]}, K))))
      BY <2>1, MembersThenIs, NoneIsWord, Zenon
    <3>2. n \in Clean
      BY TokenFacts
    <3>. QED
      BY <1>2, <3>1, <3>2, ThenIsWords, Zenon
  <2>. QED
    BY <2>1
<1>6. calls # << >> => After(Outer(calls)) \in SUBSET Word /\ Inner(calls).members \in SUBSET Names
  BY <1>1, AfterSplit, AfterIsWords DEF Frame
<1>7. calls # << >> => << >> \notin After(calls)
  <2>1. calls # << >> => After(calls) = FrameThen(Inner(calls), After(Outer(calls)))
    BY <1>1, AfterSplit
  <2>. QED
    BY <1>1, <1>2, <1>6, <2>1, ThenIsWords DEF FrameThen, AfterItem, AfterMember
<1>8. CASE expect = "value"
  BY <1>1, <1>3, <1>8, AfterIsWords DEF Fits
<1>9. CASE expect = "firstValue"
  BY <1>1, <1>2, <1>4, <1>6, <1>9 DEF Fits, ShapeOf, AfterBracket
<1>10. CASE expect = "key"
  BY <1>5, <1>6, <1>10 DEF Fits, ShapeOf
<1>11. CASE expect = "firstKey"
  BY <1>1, <1>2, <1>5, <1>6, <1>11 DEF Fits, ShapeOf, AfterBrace
<1>12. CASE expect = "colon"
  BY <1>1, <1>2, <1>12, ThenIsWords DEF Fits
<1>13. CASE expect = "rest"
  BY <1>7, <1>13 DEF Fits, ShapeOf
<1>14. CASE expect = "end"
  BY <1>14, AfterNone DEF Fits, ShapeOf
<1>. QED
  BY <1>8, <1>9, <1>10, <1>11, <1>12, <1>13, <1>14 DEF ShapeOf, Expectations

-----------------------------------------------------------------------------
(* One token leads to one place *)

\* No token leads to two places.
LEMMA OneMove ==
    ASSUME NEW t \in Tokens, NEW m1 \in Moves(t), NEW m2 \in Moves(t), expect \in Expectations
    PROVE  m1 = m2
<1>1. /\ Atoms \cap Punctuation = {} /\ Strings \cap Punctuation = {}
  BY TokensAssumption DEF Atoms, Punctuation, Strings
<1>2. \A n1 \in OfValue(t), n2 \in OfValue(t) : n1 = n2
  BY <1>1 DEF OfValue, OnlyIf, Punctuation
<1>3. t = "rbracket" => OfValue(t) = {}
  BY <1>1 DEF OfValue, OnlyIf, Punctuation
<1>4. t = "rbrace" => OfKey(t) = {}
  BY <1>1 DEF OfKey, Punctuation
<1>5. \A n1 \in OfKey(t), n2 \in OfKey(t) : n1 = n2
  BY DEF OfKey
<1>6. CASE expect = "value"
  BY <1>2, <1>6 DEF Moves
<1>7. CASE expect = "firstValue"
  BY <1>2, <1>3, <1>7 DEF Moves, OnlyIf
<1>8. CASE expect = "key"
  BY <1>5, <1>8 DEF Moves
<1>9. CASE expect = "firstKey"
  BY <1>4, <1>5, <1>9 DEF Moves, OnlyIf
<1>10. CASE expect = "colon"
  BY <1>10 DEF Moves, OnlyIf
<1>11. CASE expect = "rest"
  BY <1>11 DEF Moves, OnlyIf
<1>12. CASE expect = "end"
  BY <1>12 DEF Moves
<1>. QED
  BY <1>6, <1>7, <1>8, <1>9, <1>10, <1>11, <1>12 DEF Expectations

\* The tokens assertIJson refuses later are literals to the scanner.
LEMMA LikeLiteral ==
    ASSUME NEW t \in {"lone", "big"}, expect \in Expectations
    PROVE  Moves(t) = Moves("n")
<1>1. t \in Atoms /\ "n" \in Atoms /\ t \notin Strings /\ "n" \notin Strings
  BY TokensAssumption DEF Atoms, Strings
<1>2. OfValue(t) = OfValue("n") /\ OfKey(t) = OfKey("n")
  BY <1>1 DEF OfValue, OfKey, OnlyIf
<1>. QED
  BY <1>2 DEF Moves, OnlyIf, Expectations

\* Every token leads to a place of the right shape.
LEMMA MovesKeepShape ==
    ASSUME ShapeOf(calls, expect), NEW t \in Tokens, NEW move \in Moves(t)
    PROVE  ShapeOf(move.calls, move.expect)
<1>1. CASE t \in Clean
  BY <1>1, MovesDerive, NoneIsWord
<1>2. CASE t \in {"lone", "big"}
  <2>1. Moves(t) = Moves("n") /\ "n" \in Clean
    BY <1>2, LikeLiteral, TokenFacts DEF ShapeOf
  <2>. QED
    BY <2>1, MovesDerive, NoneIsWord
<1>. QED
  BY <1>1, <1>2, TokenFacts

\* Appending a token, and what the rest of the input may hold.
LEMMA AppendToken ==
    ASSUME NEW r \in Word, NEW t \in Clean, NEW w \in Word
    PROVE  Cat(Append(r, t), w) = Cat(r, Cons(t, w))
<1>1. Append(r, t) = Cat(r, <<t>>)
  BY AppendIsConcat DEF Cat, Word
<1>2. <<t>> \in Word
  BY DEF Word
<1>3. Cat(Cat(r, <<t>>), w) = Cat(r, Cat(<<t>>, w))
  BY <1>2, CatAssoc
<1>. QED
  BY <1>1, <1>3 DEF Cons, Cat

\* Only clean tokens can be completed to clean ones.
LEMMA PrefixClean ==
    ASSUME NEW r \in Seq(Tokens), NEW w \in Word, Cat(r, w) \in Word
    PROVE  r \in Word
<1>1. w \in Seq(Tokens)
  BY DEF Word, Clean
<1>2. /\ Len(r) \in Nat /\ Len(w) \in Nat
      /\ Len(r \o w) = Len(r) + Len(w)
      /\ \A i \in 1 .. Len(r) + Len(w) : (r \o w)[i] = IF i <= Len(r) THEN r[i] ELSE w[i - Len(r)]
  BY <1>1, ConcatProperties
<1>3. ASSUME NEW i \in 1 .. Len(r)
      PROVE  r[i] \in Clean
  <2>1. i \in 1 .. Len(r \o w) /\ (r \o w)[i] = r[i]
    BY <1>2
  <2>2. r \o w \in Seq(Clean)
    BY DEF Cat, Word
  <2>. QED
    BY <2>1, <2>2, ElementOfSeq
<1>. QED
  BY <1>3 DEF Word

\* A token appended keeps the input clean if it is clean.
LEMMA AppendClean ==
    ASSUME NEW r \in Seq(Tokens), NEW t \in Tokens
    PROVE  /\ Append(r, t) \in Seq(Tokens)
           /\ Append(r, t) \in Word <=> r \in Word /\ t \in Clean
<1>1. Append(r, t) \in Seq(Tokens) /\ Len(r) \in Nat /\ Len(Append(r, t)) = Len(r) + 1
  OBVIOUS
<1>2. /\ \A i \in 1 .. Len(r) : Append(r, t)[i] = r[i]
      /\ Append(r, t)[Len(r) + 1] = t
  OBVIOUS
<1>3. ASSUME Append(r, t) \in Word
      PROVE  r \in Word /\ t \in Clean
  <2>1. \A i \in 1 .. (Len(r) + 1) : Append(r, t)[i] \in Clean
    BY <1>1, <1>3, ElementOfSeq DEF Word
  <2>2. Len(r) + 1 \in 1 .. (Len(r) + 1) /\ \A i \in 1 .. Len(r) : i \in 1 .. (Len(r) + 1)
    BY <1>1
  <2>3. t \in Clean /\ \A i \in 1 .. Len(r) : r[i] \in Clean
    BY <1>2, <2>1, <2>2
  <2>. QED
    BY <2>3 DEF Word
<1>4. ASSUME r \in Word, t \in Clean
      PROVE  Append(r, t) \in Word
  BY <1>4 DEF Word
<1>. QED
  BY <1>1, <1>3, <1>4

\* assertIJson accepts the clean inputs.
LEMMA CleanIsIJson ==
    ASSUME read \in Seq(Tokens)
    PROVE  IsIJson <=> read \in Word
<1>1. DOMAIN read = 1 .. Len(read) /\ \A i \in DOMAIN read : read[i] \in Tokens
  OBVIOUS
<1>2. IsIJson <=> \A i \in 1 .. Len(read) : read[i] \in Clean
  BY <1>1 DEF IsIJson, Clean
<1>3. read \in Word => \A i \in 1 .. Len(read) : read[i] \in Clean
  BY ElementOfSeq DEF Word
<1>4. (\A i \in 1 .. Len(read) : read[i] \in Clean) => read \in Word
  BY DEF Word
<1>. QED
  BY <1>2, <1>3, <1>4

-----------------------------------------------------------------------------
(* The scanner *)

\* The type of the scanner's state.
JsonType ==
    /\ read \in Seq(Tokens) /\ Len(read) <= MaxTokens
    /\ ShapeOf(calls, expect)
    /\ result \in {"reading", "accepted", "incomplete", "MALFORMED_JSON", "DUPLICATE_MEMBER"}

\* While the scanner reads, what makes a value of the tokens so far is what fits.
FitsExactly ==
    result = "reading" /\ read \in Word =>
        \A w \in Word : Cat(read, w) \in Values <=> w \in Fits(calls, expect)

\* What was decided is right: accepted input is a value, incomplete input is none,
\* and refused input is the beginning of none.
Judged ==
    /\ result = "accepted" => read \in Values
    /\ result = "incomplete" => read \notin Values
    /\ result \in {"MALFORMED_JSON", "DUPLICATE_MEMBER"} => \A w \in Word : Cat(read, w) \notin Values

\* The inductive invariant.
JsonInv == JsonType /\ FitsExactly /\ Judged

\* Before the first token exactly the values fit.
LEMMA InitJsonInv ==
    ASSUME InitJson
    PROVE  JsonInv
<1>1. JsonType
  <2>1. ShapeOf(<< >>, "value")
    BY DEF ShapeOf, Expectations
  <2>. QED
    BY <2>1, TokensAssumption DEF InitJson, JsonType
<1>2. FitsExactly
  <2>1. ASSUME NEW w \in Word
        PROVE  Cat(<< >>, w) \in Values <=> w \in Fits(<< >>, "value")
    <3>1. Cat(<< >>, w) = w
      BY CatNone
    <3>2. w \in Fits(<< >>, "value") <=> \E v \in Values : w = Cat(v, << >>)
      BY AfterNone DEF Fits, ValueThen
    <3>3. \A v \in Values : Cat(v, << >>) = v
      BY CatNone, GrammarWords
    <3>. QED
      BY <3>1, <3>2, <3>3
  <2>. QED
    BY <2>1 DEF InitJson, FitsExactly
<1>3. Judged
  BY DEF InitJson, Judged
<1>. QED
  BY <1>1, <1>2, <1>3 DEF JsonInv

\* A token read on: what fits now is what fitted after it (MovesDerive).
LEMMA ScanKeepsJsonInv ==
    ASSUME JsonInv, Scan
    PROVE  JsonInv'
<1>1. PICK t \in Tokens : \E move \in Moves(t) :
         /\ Read(t)
         /\ calls' = move.calls
         /\ expect' = move.expect
         /\ UNCHANGED result
  BY DEF Scan
<1>2. PICK move \in Moves(t) : Read(t) /\ calls' = move.calls /\ expect' = move.expect /\ result' = result
  BY <1>1
<1>3. result = "reading" /\ read' = Append(read, t) /\ Len(read) < MaxTokens
  BY <1>2 DEF Read
<1>4. read \in Seq(Tokens) /\ ShapeOf(calls, expect)
  BY DEF JsonInv, JsonType
<1>5. read' \in Seq(Tokens) /\ (read' \in Word <=> read \in Word /\ t \in Clean)
  BY <1>3, <1>4, AppendClean
<1>6. JsonType'
  <2>1. ShapeOf(calls', expect')
    BY <1>2, <1>4, MovesKeepShape
  <2>2. Len(read') <= MaxTokens
    BY <1>3, <1>4, TokensAssumption
  <2>. QED
    BY <1>2, <1>3, <1>5, <2>1, <2>2 DEF JsonType, ShapeOf, Inner
<1>7. FitsExactly'
  <2>1. ASSUME read' \in Word, NEW w \in Word
        PROVE  Cat(read', w) \in Values <=> w \in Fits(calls', expect')
    <3>1. read \in Word /\ t \in Clean
      BY <1>5, <2>1
    <3>2. Cat(read', w) = Cat(read, Cons(t, w)) /\ Cons(t, w) \in Word
      BY <1>3, <3>1, AppendToken, ConsIsWord
    <3>3. Cat(read, Cons(t, w)) \in Values <=> Cons(t, w) \in Fits(calls, expect)
      BY <1>3, <3>1, <3>2 DEF JsonInv, FitsExactly
    <3>4. Cons(t, w) \in Fits(calls, expect) <=> \E m \in Moves(t) : w \in Fits(m.calls, m.expect)
      BY <1>4, <3>1, MovesDerive
    <3>5. \A m \in Moves(t) : m = move
      BY <1>2, <1>4, OneMove DEF ShapeOf
    <3>. QED
      BY <1>2, <3>2, <3>3, <3>4, <3>5
  <2>. QED
    BY <2>1 DEF FitsExactly, Fits, After, Closings, Outer, Inner
<1>8. Judged'
  BY <1>2, <1>3 DEF Judged
<1>. QED
  BY <1>6, <1>7, <1>8 DEF JsonInv

\* A token refused: nothing that fitted starts with it.
LEMMA RefuseKeepsJsonInv ==
    ASSUME JsonInv, Refuse
    PROVE  JsonInv'
<1>1. PICK t \in Tokens :
        /\ Moves(t) = {}
        /\ Read(t)
        /\ result' = IF expect \in {"key", "firstKey"} /\ t \in Strings
                       THEN "DUPLICATE_MEMBER" ELSE "MALFORMED_JSON"
        /\ UNCHANGED <<calls, expect>>
  BY DEF Refuse
<1>2. result = "reading" /\ read' = Append(read, t) /\ Len(read) < MaxTokens
  BY <1>1 DEF Read
<1>3. read \in Seq(Tokens) /\ ShapeOf(calls, expect)
  BY DEF JsonInv, JsonType
<1>4. read' \in Seq(Tokens) /\ (read' \in Word <=> read \in Word /\ t \in Clean)
  BY <1>2, <1>3, AppendClean
<1>5. JsonType'
  <2>1. ShapeOf(calls', expect')
    BY <1>1, <1>3
  <2>2. Len(read') <= MaxTokens
    BY <1>2, <1>3, TokensAssumption
  <2>. QED
    BY <1>1, <1>4, <2>1, <2>2 DEF JsonType, ShapeOf, Inner
<1>6. ASSUME NEW w \in Word, Cat(read', w) \in Values
      PROVE  FALSE
  <2>1. read' \in Word
    BY <1>4, <1>6, GrammarWords, PrefixClean
  <2>2. read \in Word /\ t \in Clean
    BY <1>4, <2>1
  <2>3. Cat(read', w) = Cat(read, Cons(t, w)) /\ Cons(t, w) \in Word
    BY <1>2, <2>2, AppendToken, ConsIsWord
  <2>4. Cons(t, w) \in Fits(calls, expect)
    BY <1>2, <1>6, <2>2, <2>3 DEF JsonInv, FitsExactly
  <2>. QED
    BY <1>1, <1>3, <2>2, <2>4, MovesDerive
<1>7. FitsExactly' /\ Judged'
  BY <1>1, <1>6 DEF FitsExactly, Judged
<1>. QED
  BY <1>5, <1>7 DEF JsonInv

\* The end of the input: the empty word fits only at the end (StopFits).
LEMMA EndKeepsJsonInv ==
    ASSUME JsonInv, EndOfInput
    PROVE  JsonInv'
<1>1. /\ result = "reading"
      /\ result' = IF expect = "end" /\ IsIJson THEN "accepted" ELSE "incomplete"
      /\ read' = read /\ calls' = calls /\ expect' = expect
  BY DEF EndOfInput
<1>2. read \in Seq(Tokens) /\ ShapeOf(calls, expect) /\ Len(read) <= MaxTokens
  BY DEF JsonInv, JsonType
<1>3. IsIJson <=> read \in Word
  BY <1>2, CleanIsIJson
<1>4. read \in Values <=> expect = "end" /\ IsIJson
  <2>1. read \in Values => read \in Word
    BY GrammarWords
  <2>2. read \in Word => Cat(read, << >>) = read
    BY CatNone
  <2>3. read \in Word => (Cat(read, << >>) \in Values <=> << >> \in Fits(calls, expect))
    BY <1>1, NoneIsWord DEF JsonInv, FitsExactly
  <2>4. << >> \in Fits(calls, expect) <=> expect = "end"
    BY <1>2, StopFits
  <2>. QED
    BY <1>3, <2>1, <2>2, <2>3, <2>4
<1>5. JsonType'
  BY <1>1, <1>2 DEF JsonType, ShapeOf, Inner
<1>6. FitsExactly' /\ Judged'
  BY <1>1, <1>4 DEF FitsExactly, Judged
<1>. QED
  BY <1>5, <1>6 DEF JsonInv

\* The steps that leave the scanner alone.
LEMMA SameJsonInv ==
    ASSUME JsonInv, UNCHANGED jsonVars
    PROVE  JsonInv'
BY DEF jsonVars, JsonInv, JsonType, FitsExactly, Judged, ShapeOf, Inner, Outer, Fits, After, Closings

\* The scanner's invariant holds in every state.
LEMMA JsonInvariance == Spec => []JsonInv
<1>1. Init => JsonInv
  BY InitJsonInv DEF Init
<1>2. ASSUME JsonInv, [Next]_<<jsonVars, wireVars>>
      PROVE  JsonInv'
  BY <1>2, ScanKeepsJsonInv, RefuseKeepsJsonInv, EndKeepsJsonInv, SameJsonInv DEF Next, NextJson
<1>. QED
  BY <1>1, <1>2, PTL DEF Spec

\* The invariant is stronger than ScansExactly.
LEMMA InvScansExactly ==
    ASSUME JsonInv
    PROVE  ScansExactly
<1>1. read \in Seq(Tokens) /\ Len(read) <= MaxTokens
  BY DEF JsonInv, JsonType
<1>2. result = "accepted" => read \in Documents
  BY <1>1, DocumentsAre DEF JsonInv, Judged
<1>3. ASSUME NEW d \in Documents, NEW i \in 0 .. Len(d), read = SubSeq(d, 1, i),
             result \in {"MALFORMED_JSON", "DUPLICATE_MEMBER"}
      PROVE  FALSE
  <2>1. d \in Values /\ d \in Seq(Clean)
    BY DocumentsAre, GrammarTyped
  <2> DEFINE w == SubSeq(d, i + 1, Len(d))
  <2>2. SubSeq(d, 1, i) \o w = SubSeq(d, 1, Len(d))
    <3>1. Len(d) \in Nat
      BY <2>1
    <3>2. 1 \in 1 .. Len(d) + 1 /\ i \in 1 - 1 .. Len(d) /\ Len(d) \in i .. Len(d)
      BY <3>1
    <3>. QED
      BY <2>1, <3>2, ConcatAdjacentSubSeq
  <2>3. SubSeq(d, 1, Len(d)) = d
    BY <2>1, SubSeqFull
  <2>4. w \in Word
    BY <2>1 DEF Word
  <2>5. Cat(read, w) = d
    BY <1>3, <2>2, <2>3 DEF Cat
  <2>. QED
    BY <1>3, <2>1, <2>4, <2>5 DEF JsonInv, Judged
<1>4. result \in {"MALFORMED_JSON", "DUPLICATE_MEMBER"} => read \notin Beginnings
  BY <1>3 DEF Beginnings
<1>5. result \notin {"accepted", "reading"} => read \notin Documents
  <2>1. CASE result = "incomplete"
    BY <2>1, DocumentsAre DEF JsonInv, Judged
  <2>2. CASE result \in {"MALFORMED_JSON", "DUPLICATE_MEMBER"}
    <3>1. ASSUME read \in Documents
          PROVE  FALSE
      <4>1. read \in Values /\ read \in Word
        BY <3>1, DocumentsAre, GrammarWords
      <4>2. Cat(read, << >>) = read
        BY <4>1, CatNone
      <4>. QED
        BY <2>2, <4>1, <4>2, NoneIsWord DEF JsonInv, Judged
    <3>. QED
      BY <3>1
  <2>. QED
    BY <2>1, <2>2 DEF JsonInv, JsonType
<1>. QED
  BY <1>2, <1>4, <1>5 DEF ScansExactly

\* parseStrictJson accepts exactly the documents of the grammar, reads them whole,
\* and refuses a token only where no document goes on with it, for any set of
\* strings, whatever they decode to, and any number of tokens.
THEOREM AlwaysScansExactly == Spec => []ScansExactly
BY JsonInvariance, InvScansExactly, PTL

-----------------------------------------------------------------------------
(* Signatures *)

\* Everything a key holder made carries its own content as its id, and a
\* signature by the key it names over the two.
SignedWhole ==
    \A s \in signed : s.id = ContentOf(s) /\ SignatureValid(s)

EnvelopeFields == {"version", "kind", "body", "id", "alg", "kid", "sig"}

\* Alterations move signatures and never make one.
SignatureKnown ==
    wire # None => /\ DOMAIN wire = EnvelopeFields
                   /\ \E s \in signed : wire.sig = s.sig

\* A receiver's code is about the artifact as it is.
CodeIsCurrent ==
    Received => code = [chain |-> ChainCode(wire), identity |-> IdentityCode(wire)]

SigInv ==
    /\ SignedWhole
    /\ \A s \in signed : DOMAIN s = EnvelopeFields
    /\ SignatureKnown
    /\ Received => wire # None
    /\ CodeIsCurrent

LEMMA SignMakesWhole ==
    ASSUME NEW key, NEW kind, NEW body
    PROVE  LET s == SignArtifact(key, kind, body)
           IN  s.id = ContentOf(s) /\ SignatureValid(s) /\ DOMAIN s = EnvelopeFields
BY DEF SignArtifact, ContentOf, SignatureValid, SigningInputFor, EnvelopeFields

\* What an alteration leaves of an artifact.
LEMMA AlteredSignature ==
    ASSUME NEW a, DOMAIN a = EnvelopeFields, NEW b \in Altered(a)
    PROVE  /\ DOMAIN b = EnvelopeFields
           /\ b.sig = a.sig \/ \E s \in signed : b.sig = s.sig
<1>. USE DEF EnvelopeFields
<1>1. CASE b \in {[a EXCEPT !.body = new] : new \in BodyAltered(a)}
  BY <1>1
<1>2. CASE b \in {[a EXCEPT !.version = "agent-proof/v2"], [a EXCEPT !.alg = "none"],
                  [a EXCEPT !.id = ArtifactIdFor(a)]}
  BY <1>2
<1>3. CASE b \in {[a EXCEPT !.kind = kind] : kind \in {"credential", "delegation", "unknown"}}
  BY <1>3
<1>4. CASE b \in {[a EXCEPT !.kid = key] : key \in Key}
  BY <1>4
<1>5. CASE b \in {[a EXCEPT !.id = s.id, !.sig = s.sig] : s \in signed}
  <2>1. PICK s \in signed : b = [a EXCEPT !.id = s.id, !.sig = s.sig]
    BY <1>5
  <2>2. DOMAIN b = DOMAIN a /\ b.sig = s.sig
    BY <2>1
  <2>. QED
    BY <2>2
<1>. QED
  BY <1>1, <1>2, <1>3, <1>4, <1>5 DEF Altered

LEMMA SignKeepsSigInv ==
    ASSUME SigInv, Sign
    PROVE  SigInv'
<1>1. wire = None /\ UNCHANGED <<wire, code>>
  BY DEF Sign
<1>2. ASSUME NEW s \in signed'
      PROVE  s.id = ContentOf(s) /\ SignatureValid(s) /\ DOMAIN s = EnvelopeFields
  <2>1. s \in signed \/ \E key, kind, body : s = SignArtifact(key, kind, body)
    <3>1. PICK key \in Key, kind \in MadeKinds :
            \/ signed' = signed \cup {SignArtifact(key, kind, [m \in Members(kind) |-> "proper"])}
            \/ \E m \in Members(kind), v \in {"wrapped", "local", "improper"} :
                  signed' = {SignArtifact(key, kind,
                                          [[n \in Members(kind) |-> "proper"] EXCEPT ![m] = v])}
      BY DEF Sign
    <3>2. CASE signed' = signed \cup {SignArtifact(key, kind, [m \in Members(kind) |-> "proper"])}
      <4>1. s \in signed \/ s = SignArtifact(key, kind, [m \in Members(kind) |-> "proper"])
        BY <3>2
      <4>. QED
        BY <4>1, Zenon
    <3>3. ASSUME NEW body, signed' = {SignArtifact(key, kind, body)}
          PROVE  \E k, i, b : s = SignArtifact(k, i, b)
      BY <3>3, Zenon
    <3>. QED
      BY <3>1, <3>2, <3>3, Zenon
  <2>2. CASE s \in signed
    BY <2>2 DEF SigInv, SignedWhole
  <2>3. ASSUME NEW key, NEW kind, NEW body, s = SignArtifact(key, kind, body)
        PROVE  s.id = ContentOf(s) /\ SignatureValid(s) /\ DOMAIN s = EnvelopeFields
    BY <2>3, SignMakesWhole
  <2>. QED
    BY <2>1, <2>2, <2>3
<1>. QED
  BY <1>1, <1>2 DEF SigInv, SignedWhole, SignatureKnown, CodeIsCurrent, Received

LEMMA StepSigInv ==
    ASSUME SigInv, [Next]_<<jsonVars, wireVars>>
    PROVE  SigInv'
<1>. USE DEF SigInv
<1>1. CASE UNCHANGED wireVars
  BY <1>1 DEF wireVars, SignedWhole, SignatureKnown, CodeIsCurrent, Received
<1>2. CASE Send
  <2>1. wire' \in signed /\ UNCHANGED <<signed, code>> /\ wire = None
    BY <1>2 DEF Send
  <2>. QED
    BY <2>1 DEF SignedWhole, SignatureKnown, CodeIsCurrent, Received
<1>3. CASE Alter
  <2>1. wire # None /\ code = Undecided /\ wire' \in Altered(wire) /\ UNCHANGED <<signed, code>>
    BY <1>3 DEF Alter
  <2>2. /\ DOMAIN wire' = EnvelopeFields
        /\ wire'.sig = wire.sig \/ \E s \in signed : wire'.sig = s.sig
    BY <2>1, AlteredSignature DEF SignatureKnown
  <2>. QED
    BY <2>1, <2>2 DEF SignedWhole, SignatureKnown, CodeIsCurrent, Received
<1>4. CASE Receive
  BY <1>4 DEF Receive, SignedWhole, SignatureKnown, CodeIsCurrent, Received
<1>. QED
  BY <1>1, <1>2, <1>3, <1>4, SignKeepsSigInv DEF Next, NextWire

LEMMA SigInvariance == Spec => []SigInv
<1>1. Init => SigInv
  BY DEF Init, InitWire, SigInv, SignedWhole, SignatureKnown, CodeIsCurrent, Received
<1>. QED
  BY <1>1, StepSigInv, PTL DEF Spec

-----------------------------------------------------------------------------
(* What the receivers' codes say *)

\* The checks both of them make.
Sound(a) ==
    /\ ValidateArtifact(a)
    /\ a.id = ArtifactIdFor(a)
    /\ ~KeyIdMismatch(a)
    /\ SignatureValid(a)

LEMMA ChainCodeValid ==
    ASSUME NEW a
    PROVE  ChainCode(a) = "VALID" <=>
              Sound(a) /\ "critical" \notin DOMAIN a.body /\ ~ResourceUnfit(a)
BY DEF ChainCode, Sound, ValidateArtifact

LEMMA IdentityCodeValid ==
    ASSUME NEW a
    PROVE  IdentityCode(a) = "VALID" <=> Sound(a) /\ a.kind = "credential"
BY DEF IdentityCode, Sound, ValidateArtifact

LEMMA SoundHasForm ==
    ASSUME NEW a, Sound(a)
    PROVE  /\ DOMAIN a.body = Members(a.kind)
           /\ \A m \in DOMAIN a.body :
                 \/ a.body[m] \in {"proper", "other"}
                 \/ a.body[m] = "wrapped" /\ m \in Tested
                 \/ a.body[m] = "local" /\ m \in Located
           /\ a.kind = "credential" => a.body["key_id"] = a.body["public_jwk"]
<1>1. /\ DOMAIN a.body = Members(a.kind)
      /\ \A m \in DOMAIN a.body : a.body[m] \in ProperIn(m)
      /\ ~KeyIdMismatch(a)
  BY DEF Sound, ValidateArtifact
<1>2. \A m \in DOMAIN a.body :
         \/ a.body[m] \in {"proper", "other"}
         \/ a.body[m] = "wrapped" /\ m \in Tested
         \/ a.body[m] = "local" /\ m \in Located
  BY <1>1 DEF ProperIn
<1>3. a.kind = "credential" => {"key_id", "public_jwk"} \subseteq DOMAIN a.body
  BY <1>1 DEF Members
<1>. QED
  BY <1>1, <1>2, <1>3 DEF KeyIdMismatch

\* Whatever a receiver accepts was signed, content and id, by a holder of the
\* key it names, and has the members of its kind, each in its form or one of the
\* two exceptions, however it was altered.
THEOREM AcceptedIsAlwaysSigned == Spec => []AcceptedIsSigned
<1>1. SigInv => AcceptedIsSigned
  <2>. SUFFICES ASSUME SigInv, Received, "VALID" \in {code.chain, code.identity}
                PROVE  /\ \E s \in signed : /\ ContentOf(s) = ContentOf(wire)
                                            /\ s.id = wire.id /\ s.sig.key = wire.kid
                       /\ DOMAIN wire.body = Members(wire.kind)
                       /\ \A m \in DOMAIN wire.body :
                             \/ wire.body[m] \in {"proper", "other"}
                             \/ wire.body[m] = "wrapped" /\ m \in Tested
                             \/ wire.body[m] = "local" /\ m \in Located /\ code.chain # "VALID"
                       /\ wire.kind = "credential" =>
                             wire.body["key_id"] = wire.body["public_jwk"]
    BY DEF AcceptedIsSigned
  <2>1. code.chain = ChainCode(wire) /\ code.identity = IdentityCode(wire)
    BY DEF SigInv, CodeIsCurrent
  <2>2. Sound(wire)
    BY <2>1, ChainCodeValid, IdentityCodeValid
  <2>3. PICK s \in signed : wire.sig = s.sig
    BY DEF SigInv, SignatureKnown
  <2>4. wire.sig = [key |-> wire.kid, input |-> SigningInputFor(wire)]
    BY <2>2 DEF Sound, SignatureValid
  <2>5. s.sig = [key |-> s.kid, input |-> SigningInputFor(s)]
    BY DEF SigInv, SignedWhole, SignatureValid
  <2>6. s.sig.key = wire.kid /\ SigningInputFor(s) = SigningInputFor(wire)
    <3>1. wire.sig.key = wire.kid /\ wire.sig.input = SigningInputFor(wire)
      BY <2>4
    <3>2. s.sig.input = SigningInputFor(s)
      BY <2>5
    <3>. QED
      BY <2>3, <3>1, <3>2
  <2>7. ContentOf(s) = ContentOf(wire) /\ s.id = wire.id
    BY <2>6 DEF SigningInputFor
  <2>8. \A m \in Located \cap DOMAIN wire.body : code.chain = "VALID" => wire.body[m] # "local"
    BY <2>1, ChainCodeValid DEF ResourceUnfit
  <2>. QED
    BY <2>2, <2>6, <2>7, <2>8, SoundHasForm
<1>. QED
  BY <1>1, SigInvariance, PTL

\* The two receivers take the same credentials, but for the resources of a
\* ceiling, at which only one of them looks.
THEOREM AlwaysSameForm == Spec => []SameForm
<1>1. SigInv => SameForm
  <2>. SUFFICES ASSUME SigInv, Received, wire.kind = "credential"
                PROVE  /\ code.chain = "VALID" => code.identity = "VALID"
                       /\ code.identity = "VALID" /\ code.chain # "VALID" => ResourceUnfit(wire)
    BY DEF SameForm
  <2>1. code.chain = ChainCode(wire) /\ code.identity = IdentityCode(wire)
    BY DEF SigInv, CodeIsCurrent
  <2>2. Sound(wire) => "critical" \notin DOMAIN wire.body
    <3>1. "critical" \notin Members("credential")
      BY DEF Members
    <3>. QED
      BY <3>1, SoundHasForm
  <2>. QED
    BY <2>1, <2>2, ChainCodeValid, IdentityCodeValid
<1>. QED
  BY <1>1, SigInvariance, PTL
=============================================================================
