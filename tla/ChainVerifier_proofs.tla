------------------------ MODULE ChainVerifier_proofs ------------------------
(***************************************************************************)
(* Proofs about ChainVerifier, for any calls whatever.                     *)
(***************************************************************************)
EXTENDS VerifierAgreement, FiniteSetTheorems, WellFoundedInduction, TLAPS

-----------------------------------------------------------------------------
(* What the searches of the verifiers return *)

\* A set of naturals has a least element.
LEMMA Least ==
    ASSUME NEW S, S \subseteq Nat, S # {}
    PROVE  \E i \in S : \A j \in S : i <= j
<1> DEFINE R == {ss \in Nat \X Nat : ss[1] < ss[2]}
<1>1. IsWellFoundedOn(R, Nat)
  BY NatLessThanWellFounded DEF OpToRel
<1> HIDE DEF R
<1>2. PICK i \in S : \A j \in S : ~(<<j, i>> \in R)
  BY <1>1, WFMin
<1>3. ASSUME NEW j \in S, j < i
      PROVE  FALSE
  <2>1. <<j, i>> \in Nat \X Nat /\ <<j, i>>[1] < <<j, i>>[2]
    BY <1>3
  <2>2. <<j, i>> \in R
    BY <2>1, Zenon DEF R
  <2>. QED
    BY <1>2, <2>2
<1>. QED
  BY <1>3, SMT

\* What Array.find returns is in the list, and is what was looked for.
LEMMA FindFinds ==
    ASSUME NEW s, s \in Seq(Elements(s)), NEW S, \E i \in DOMAIN s : s[i] \in S
    PROVE  Find(s, S) \in S /\ Find(s, S) \in Elements(s)
<1> DEFINE I == {i \in DOMAIN s : s[i] \in S}
<1>1. DOMAIN s = 1 .. Len(s) /\ Len(s) \in Nat
  OBVIOUS
<1>2. I \subseteq Nat /\ I # {}
  BY <1>1
<1>3. PICK i \in I : \A j \in I : i <= j
  BY <1>2, Least
<1>4. i \in DOMAIN s /\ s[i] \in S /\ i \in Nat /\ \A j \in DOMAIN s : s[j] \in S => i <= j
  BY <1>1, <1>3
<1>5. \A j \in 1 .. (i - 1) : s[j] \notin S
  BY <1>1, <1>4
<1> DEFINE first == CHOOSE k \in DOMAIN s : s[k] \in S /\ \A j \in 1 .. (k - 1) : s[j] \notin S
<1>6. first \in DOMAIN s /\ s[first] \in S
  BY <1>4, <1>5
<1>7. Find(s, S) = s[first]
  BY DEF Find
<1> HIDE DEF first
<1>. QED
  BY <1>6, <1>7 DEF Elements

\* A loop over checks returns one of their faults, or none when none has one.
LEMMA FirstFaultFinds ==
    ASSUME NEW faults, DOMAIN faults \subseteq Nat
    PROVE  /\ FirstFault(faults) = "none" => \A i \in DOMAIN faults : faults[i] = "none"
           /\ FirstFault(faults) # "none" => \E i \in DOMAIN faults : FirstFault(faults) = faults[i]
<1> DEFINE I == {i \in DOMAIN faults : faults[i] # "none"}
<1>1. CASE I = {}
  BY <1>1 DEF FirstFault
<1>2. CASE I # {}
  <2>1. I \subseteq Nat
    OBVIOUS
  <2>2. \E i \in I : \A j \in I : i <= j
    BY <1>2, <2>1, Least
  <2>3. FirstFault(faults) = faults[CHOOSE i \in I : \A j \in I : i <= j]
    BY <1>2 DEF FirstFault
  <2>. QED
    BY <2>2, <2>3
<1>. QED
  BY <1>1, <1>2

-----------------------------------------------------------------------------
(* Every stage ends with a fault of its own, none, or the verdict *)

Faults == Codes \ {"none", "VALID"}

Outcomes == Faults \cup {"none"}

LEMMA FirstFaultType ==
    ASSUME NEW faults, DOMAIN faults \subseteq Nat,
           \A i \in DOMAIN faults : faults[i] \in Outcomes
    PROVE  FirstFault(faults) \in Outcomes
BY FirstFaultFinds DEF Outcomes

LEMMA PairFaults ==
    ASSUME NEW f, NEW g
    PROVE  /\ f \in Outcomes /\ g \in Outcomes => FirstFault(<<f, g>>) \in Outcomes
           /\ FirstFault(<<f, g>>) = "none" => f = "none" /\ g = "none"
<1>1. DOMAIN <<f, g>> = {1, 2} /\ <<f, g>>[1] = f /\ <<f, g>>[2] = g
  OBVIOUS
<1>. QED
  BY <1>1, FirstFaultFinds, FirstFaultType

LEMMA ArtifactsType ==
    ASSUME input \in Input
    PROVE  /\ Artifacts \in Seq(Elements(Artifacts))
           /\ DOMAIN Artifacts = 1 .. Len(Artifacts) /\ Len(Artifacts) \in Nat
<1>1. Artifacts \in Seq(Elements(Artifacts))
  BY InputAssumption DEF Artifacts
<1>. QED
  BY <1>1

\* What PARSE lets pass has the numbers the later stages compare.
LEMMA Formed ==
    ASSUME input \in Input, ParseFault = "none"
    PROVE  /\ \A a \in Elements(Artifacts) :
                 a.kind \in {"credential", "delegation"} =>
                    a.ceiling.depth \in Nat /\ a.ceiling.from \in Int /\ a.ceiling.until \in Int
           /\ \A r \in Elements(Artifacts) :
                 r.kind = "key_status" => r.sequence \in Nat /\ r.asOf \in Int /\ r.until \in Int
           /\ Distinct(Artifacts)
           /\ input.snapshot.maxDepth \in Nat /\ input.now \in Int
<1>1. \A a \in Elements(Artifacts) : a.formed
  BY DEF ParseFault
<1>2. Distinct(Artifacts)
  BY DEF ParseFault
<1>3. /\ \A a \in {b \in OfKind(Artifacts, {"credential", "delegation"}) : b.formed} :
            a.ceiling.depth \in Nat /\ a.ceiling.from \in Int /\ a.ceiling.until \in Int
      /\ \A r \in {b \in OfKind(Artifacts, {"key_status"}) : b.formed} :
            r.sequence \in Nat /\ r.asOf \in Int /\ r.until \in Int
      /\ input.snapshot.maxDepth \in Nat /\ input.now \in Int
  BY InputAssumption DEF Artifacts
<1>. QED
  BY <1>1, <1>2, <1>3 DEF OfKind

LEMMA EarlyFaults ==
    ASSUME input \in Input
    PROVE  /\ ParseFault \in Outcomes
           /\ FirstFault(<<CryptoFaults(Artifacts, input.snapshot), RequestFault>>) \in Outcomes
           /\ TimeFaults(Artifacts, input.now, input.snapshot.skew) \in Outcomes
           /\ TrustFault \in Outcomes
<1>1. DOMAIN Artifacts \subseteq Nat
  BY ArtifactsType
<1>2. ParseFault \in Outcomes
  BY DEF ParseFault, Outcomes, Faults, Codes
<1>3. \A a : CryptoFault(a, Artifacts, input.snapshot) \in Outcomes
  BY DEF CryptoFault, Outcomes, Faults, Codes
<1>4. CryptoFaults(Artifacts, input.snapshot) \in Outcomes
  <2> DEFINE f == [i \in DOMAIN Artifacts |-> CryptoFault(Artifacts[i], Artifacts, input.snapshot)]
  <2>1. DOMAIN f \subseteq Nat /\ \A i \in DOMAIN f : f[i] \in Outcomes
    BY <1>1, <1>3
  <2>2. CryptoFaults(Artifacts, input.snapshot) = FirstFault(f)
    BY DEF CryptoFaults
  <2> HIDE DEF f
  <2>. QED
    BY <2>1, <2>2, FirstFaultType
<1>5. RequestFault \in Outcomes
  BY DEF RequestFault, Outcomes, Faults, Codes
<1>6. \A a : TimeFault(a, input.now, input.snapshot.skew) \in Outcomes
  BY DEF TimeFault, Outcomes, Faults, Codes
<1>7. TimeFaults(Artifacts, input.now, input.snapshot.skew) \in Outcomes
  <2> DEFINE f == [i \in DOMAIN Artifacts |-> TimeFault(Artifacts[i], input.now, input.snapshot.skew)]
  <2>1. DOMAIN f \subseteq Nat /\ \A i \in DOMAIN f : f[i] \in Outcomes
    BY <1>1, <1>6
  <2>2. TimeFaults(Artifacts, input.now, input.snapshot.skew) = FirstFault(f)
    BY DEF TimeFaults
  <2> HIDE DEF f
  <2>. QED
    BY <2>1, <2>2, FirstFaultType
<1>8. TrustFault \in Outcomes
  BY DEF TrustFault, RootFault, Outcomes, Faults, Codes
<1>. QED
  BY <1>2, <1>4, <1>5, <1>7, <1>8, PairFaults

LEMMA LateFaults ==
    ASSUME chain \in Seq(Elements(Artifacts))
    PROVE  /\ \A a : LinkFault(a) \in Outcomes
           /\ StatusFault \in Outcomes
           /\ BindingFault \in Outcomes
           /\ Verdict \in Codes \ {"none"}
<1>1. \A a : LinkFault(a) \in Outcomes
  BY DEF LinkFault, Outcomes, Faults, Codes
<1>2. BindingFault \in Outcomes
  BY DEF BindingFault, Outcomes, Faults, Codes
<1>3. Verdict \in Codes \ {"none"}
  BY DEF Verdict, Codes
<1>4. \A key : KeyFault(key) \in Outcomes
  BY DEF KeyFault, Outcomes, Faults, Codes
<1>5. FirstFault([i \in DOMAIN ChainKeys |-> KeyFault(ChainKeys[i])]) \in Outcomes
  <2> DEFINE f == [i \in DOMAIN ChainKeys |-> KeyFault(ChainKeys[i])]
  <2>1. DOMAIN ChainKeys \subseteq Nat
    BY DEF ChainKeys
  <2>2. DOMAIN f \subseteq Nat /\ \A i \in DOMAIN f : f[i] \in Outcomes
    BY <1>4, <2>1
  <2> HIDE DEF f
  <2>3. FirstFault(f) \in Outcomes
    BY <2>2, FirstFaultType
  <2>. QED
    BY <2>3 DEF f
<1>6. RevocationFault \in Outcomes
  BY DEF RevocationFault, Outcomes, Faults, Codes
<1>. QED
  BY <1>1, <1>2, <1>3, <1>5, <1>6, PairFaults DEF StatusFault

-----------------------------------------------------------------------------
(* What each stage leaves established *)

\* The chain so far: the request, and each next artifact the one that gives its
\* authority to the signer of the one before.
Linked ==
    /\ chain # << >>
    /\ chain[1] = Request
    /\ Len(chain) > 1 => chain[2].kind = "delegation"
    /\ \A i \in 1 .. (Len(chain) - 1) : GivenTo(chain[i + 1], StatedSigner(chain[i]))

\* The ceilings up to the position: each is within every one above it, and the
\* depth grows by one at least.
Nested ==
    /\ position \in 2 .. Len(chain)
    /\ \A i \in 2 .. position : chain[i].kind \in {"credential", "delegation"}
    /\ \A i, j \in 2 .. position : i < j => Attenuates(chain[i].ceiling, chain[j].ceiling)
    /\ \A i \in 2 .. position : chain[2].ceiling.depth + (i - 2) <= chain[i].ceiling.depth

Complete == Len(chain) > 2 /\ Current = Root

IInv ==
    /\ TypeOK
    /\ input \in Input
    /\ stage \notin {"parse", "done"} => ParseFault = "none"
    /\ stage \notin {"parse", "crypto", "done"} => OfKind(Artifacts, {"request"}) # {}
    /\ stage \in {"chain", "attenuation", "status", "binding", "replay"} =>
          TrustFault = "none" /\ Linked
    /\ stage \in {"attenuation", "status", "binding", "replay"} => Complete /\ Nested
    /\ stage \in {"status", "binding", "replay"} => position = Len(chain)
    /\ stage = "replay" => BindingFault = "none"
    /\ ValidIsBounded

LEMMA Counted == \A m \in Nat \ {0} : m = 1 \/ (m > 1 /\ (m = 2 \/ m > 2))
OBVIOUS

LEMMA RequestFound ==
    ASSUME input \in Input, OfKind(Artifacts, {"request"}) # {}
    PROVE  Request \in Elements(Artifacts) /\ Request.kind = "request"
<1>1. \E i \in DOMAIN Artifacts : Artifacts[i] \in OfKind(Artifacts, {"request"})
  BY DEF OfKind, Elements
<1>2. Request \in OfKind(Artifacts, {"request"})
  BY <1>1, ArtifactsType, FindFinds DEF Request
<1>. QED
  BY <1>2 DEF OfKind

LEMMA RootFound ==
    ASSUME input \in Input, Roots(Artifacts) # {}
    PROVE  Root \in Elements(Artifacts) /\ Root.kind = "credential" /\ Root \in Roots(Artifacts)
<1>1. \E i \in DOMAIN Artifacts : Artifacts[i] \in Roots(Artifacts)
  BY DEF Roots, OfKind, Elements
<1>2. Root \in Roots(Artifacts)
  BY <1>1, ArtifactsType, FindFinds DEF Root
<1>. QED
  BY <1>2 DEF Roots, OfKind

\* What only depends on the call stays as it is.
LEMMA SameCall ==
    ASSUME input' = input
    PROVE  /\ Artifacts' = Artifacts
           /\ Request' = Request /\ Root' = Root /\ TrustFault' = TrustFault
           /\ ParseFault' = ParseFault
<1>1. Artifacts' = Artifacts
  BY DEF Artifacts
<1>2. Request' = Request /\ Root' = Root
  BY <1>1 DEF Request, Root
<1>. QED
  BY <1>1, <1>2 DEF TrustFault, ParseFault

\* Before REPLAY ends, everything a VALID decision claims is established.
Bounded ==
    LET n == Len(chain)
    IN  /\ n > 2 /\ chain[1] = Request
        /\ chain[n].kid \in DOMAIN input.snapshot.issuers
        /\ [issuer |-> input.snapshot.issuers[chain[n].kid], subject |-> chain[n].subject]
             \in input.snapshot.roots
        /\ \A i \in 1 .. (n - 1) : GivenTo(chain[i + 1], StatedSigner(chain[i]))
        /\ \A i, j \in 2 .. n : i < j => Attenuates(chain[i].ceiling, chain[j].ceiling)
        /\ \A i \in 2 .. n : /\ Request.action \in chain[i].ceiling.capabilities
                             /\ Request.resource \in chain[i].ceiling.resources
                             /\ Request.task \in chain[i].ceiling.tasks
        /\ chain[2].ceiling.depth + (n - 2) <= chain[n].ceiling.depth

LEMMA ReplayBounded ==
    ASSUME IInv, stage = "replay"
    PROVE  Bounded
<1> DEFINE n == Len(chain)
<1>1. n \in Nat /\ n > 2 /\ position = n /\ chain[n] = Root
  BY DEF IInv, TypeOK, Complete, Current
<1>2. /\ chain[n].kid \in DOMAIN input.snapshot.issuers
      /\ [issuer |-> input.snapshot.issuers[chain[n].kid], subject |-> chain[n].subject]
           \in input.snapshot.roots
  <2>1. TrustFault = "none"
    BY DEF IInv
  <2>. QED
    BY <1>1, <2>1 DEF TrustFault, RootFault
<1>3. /\ Request.action \in chain[2].ceiling.capabilities
      /\ Request.resource \in chain[2].ceiling.resources
      /\ Request.task \in chain[2].ceiling.tasks
  <2>1. BindingFault = "none"
    BY DEF IInv
  <2>. QED
    BY <2>1 DEF BindingFault, Effective
<1>4. \A i, j \in 2 .. n : i < j => Attenuates(chain[i].ceiling, chain[j].ceiling)
  BY <1>1 DEF IInv, Nested
<1>5. ASSUME NEW i \in 2 .. n
      PROVE  /\ Request.action \in chain[i].ceiling.capabilities
             /\ Request.resource \in chain[i].ceiling.resources
             /\ Request.task \in chain[i].ceiling.tasks
  <2>1. CASE i = 2
    BY <1>3, <2>1
  <2>2. CASE i # 2
    <3>1. 2 \in 2 .. n /\ 2 < i
      BY <1>1, <2>2
    <3>2. Attenuates(chain[2].ceiling, chain[i].ceiling)
      BY <1>4, <3>1
    <3>3. /\ chain[2].ceiling.capabilities \subseteq chain[i].ceiling.capabilities
          /\ chain[2].ceiling.resources \subseteq chain[i].ceiling.resources
          /\ chain[2].ceiling.tasks \subseteq chain[i].ceiling.tasks
      BY <3>2 DEF Attenuates, Dimensions
    <3>. QED
      BY <1>3, <3>3
  <2>. QED
    BY <2>1, <2>2
<1>6. chain[1] = Request /\ \A i \in 1 .. (n - 1) : GivenTo(chain[i + 1], StatedSigner(chain[i]))
  BY DEF IInv, Linked
<1>7. chain[2].ceiling.depth + (n - 2) <= chain[n].ceiling.depth
  BY <1>1 DEF IInv, Nested
<1>. QED
  BY <1>1, <1>2, <1>4, <1>5, <1>6, <1>7 DEF Bounded

-----------------------------------------------------------------------------
(* Each step preserves it *)

LEMMA StopStep ==
    ASSUME IInv, NEW c \in Codes \ {"none"}, c = "VALID" => stage = "replay", Stop(c)
    PROVE  IInv'
<1>1. /\ input' = input /\ Artifacts' = Artifacts /\ Request' = Request
      /\ stage' = "done" /\ code' = c /\ chain' = chain /\ position' = position /\ input' = input
  BY SameCall DEF Stop
<1>2. TypeOK'
  BY <1>1 DEF IInv, TypeOK, Stages
<1>3. ValidIsBounded'
  <2>1. CASE c # "VALID"
    BY <1>1, <2>1 DEF ValidIsBounded
  <2>2. CASE c = "VALID"
    <3>1. Bounded
      BY <2>2, ReplayBounded
    <3>2. Bounded'
      BY <1>1, <3>1 DEF Bounded
    <3>. QED
      BY <3>2 DEF Bounded, ValidIsBounded
  <2>. QED
    BY <2>1, <2>2
<1>. QED
  BY <1>1, <1>2, <1>3 DEF IInv

LEMMA FaultStep ==
    ASSUME IInv, NEW c \in Outcomes, c # "none", Stop(c)
    PROVE  IInv'
<1>1. c \in Codes \ {"none"} /\ c # "VALID"
  BY DEF Outcomes, Faults
<1>. QED
  BY <1>1, StopStep

\* The type part of a step that decides nothing.
LEMMA GoOnType ==
    ASSUME IInv, input' = input, code' = code, code = "none", stage' \in Stages \ {"done"},
           chain' \in Seq(Elements(Artifacts)), position' \in Nat \ {0}
    PROVE  TypeOK' /\ ValidIsBounded' /\ ParseFault' = ParseFault
<1>1. Artifacts' = Artifacts /\ ParseFault' = ParseFault
  BY SameCall
<1>2. TypeOK'
  BY <1>1 DEF IInv, TypeOK
<1>3. ValidIsBounded'
  BY DEF ValidIsBounded
<1>. QED
  BY <1>1, <1>2, <1>3

LEMMA Undecided ==
    ASSUME IInv, stage # "done"
    PROVE  /\ code = "none" /\ input \in Input
           /\ chain \in Seq(Elements(Artifacts)) /\ position \in Nat \ {0}
BY DEF IInv, TypeOK

LEMMA ParseStep == ASSUME IInv, Parse PROVE IInv'
<1>1. stage = "parse" /\ Conclude(ParseFault, "crypto")
  BY DEF Parse
<1>2. CASE ParseFault # "none"
  BY <1>1, <1>2, EarlyFaults, FaultStep, Undecided DEF Conclude
<1>3. CASE ParseFault = "none"
  <2>1. stage' = "crypto" /\ UNCHANGED <<input, chain, position, code>>
    BY <1>1, <1>3 DEF Conclude
  <2>. QED
    BY <1>1, <1>3, <2>1, GoOnType, Undecided DEF IInv, Stages
<1>. QED
  BY <1>2, <1>3

LEMMA CryptoStep == ASSUME IInv, Crypto PROVE IInv'
<1> DEFINE fault == FirstFault(<<CryptoFaults(Artifacts, input.snapshot), RequestFault>>)
<1>1. stage = "crypto" /\ Conclude(fault, "time")
  BY DEF Crypto
<1>2. fault \in Outcomes /\ (fault = "none" => RequestFault = "none")
  BY <1>1, EarlyFaults, PairFaults, Undecided
<1> HIDE DEF fault
<1>3. CASE fault # "none"
  BY <1>1, <1>2, <1>3, FaultStep DEF Conclude
<1>4. CASE fault = "none"
  <2>1. stage' = "time" /\ UNCHANGED <<input, chain, position, code>>
    BY <1>1, <1>4 DEF Conclude
  <2>2. OfKind(Artifacts, {"request"}) # {}
    BY <1>2, <1>4 DEF RequestFault
  <2>3. Artifacts' = Artifacts
    BY <2>1, SameCall
  <2>. QED
    BY <1>1, <2>1, <2>2, <2>3, GoOnType, Undecided DEF IInv, Stages
<1>. QED
  BY <1>3, <1>4

LEMMA TimeStep == ASSUME IInv, Time PROVE IInv'
<1> DEFINE fault == TimeFaults(Artifacts, input.now, input.snapshot.skew)
<1>1. stage = "time" /\ Conclude(fault, "trust")
  BY DEF Time
<1>2. fault \in Outcomes
  BY <1>1, EarlyFaults, Undecided
<1> HIDE DEF fault
<1>3. CASE fault # "none"
  BY <1>1, <1>2, <1>3, FaultStep DEF Conclude
<1>4. CASE fault = "none"
  <2>1. stage' = "trust" /\ UNCHANGED <<input, chain, position, code>>
    BY <1>1, <1>4 DEF Conclude
  <2>2. Artifacts' = Artifacts
    BY <2>1, SameCall
  <2>. QED
    BY <1>1, <2>1, <2>2, GoOnType, Undecided DEF IInv, Stages
<1>. QED
  BY <1>3, <1>4

LEMMA TrustStep == ASSUME IInv, Trust PROVE IInv'
<1>1. stage = "trust"
  BY DEF Trust
<1>2. CASE TrustFault # "none" /\ Stop(TrustFault)
  BY <1>1, <1>2, EarlyFaults, FaultStep, Undecided
<1>3. CASE TrustFault = "none" /\ ~(TrustFault # "none" /\ Stop(TrustFault))
  <2>1. stage' = "chain" /\ chain' = <<Request>> /\ UNCHANGED <<input, position, code>>
    BY <1>3 DEF Trust
  <2>2. /\ Request' = Request /\ TrustFault' = TrustFault /\ Artifacts' = Artifacts
    BY <2>1, SameCall
  <2>3. OfKind(Artifacts, {"request"}) # {}
    BY <1>1 DEF IInv
  <2>4. chain' \in Seq(Elements(Artifacts)) /\ Len(chain') = 1 /\ chain'[1] = Request
    BY <1>1, <2>1, <2>3, RequestFound, Undecided
  <2>5. Linked'
    BY <2>2, <2>4 DEF Linked
  <2>. QED
    BY <1>1, <1>3, <2>1, <2>2, <2>3, <2>4, <2>5, GoOnType, Undecided DEF IInv, Stages
<1>. QED
  BY <1>2, <1>3 DEF Trust

LEMMA FollowStep == ASSUME IInv, Follow PROVE IInv'
<1>1. stage = "chain"
  BY DEF Follow
<1>2. CASE LinkFault(Current) # "none" /\ Stop(LinkFault(Current))
  BY <1>1, <1>2, LateFaults, FaultStep, Undecided
<1>3. CASE LinkFault(Current) = "none" /\ ~(LinkFault(Current) # "none" /\ Stop(LinkFault(Current)))
  <2> DEFINE n == Len(chain)
             parent == Parent(Current)
  <2>1. chain' = Append(chain, parent) /\ UNCHANGED <<input, stage, position, code>>
    BY <1>3 DEF Follow
  <2>2. /\ Named(Current) # {} /\ GivenTo(parent, StatedSigner(Current))
        /\ Current.kind = "request" => parent.kind = "delegation"
    BY <1>3 DEF LinkFault
  <2>3. parent \in Elements(Artifacts)
    BY <2>2 DEF Parent, Named
  <2> HIDE DEF parent
  <2>4. chain \in Seq(Elements(Artifacts)) /\ Linked /\ TrustFault = "none"
        /\ OfKind(Artifacts, {"request"}) # {} /\ code = "none"
    BY <1>1, Undecided DEF IInv
  <2>5. /\ n \in Nat \ {0} /\ chain' \in Seq(Elements(Artifacts)) /\ Len(chain') = n + 1
        /\ chain'[n + 1] = parent /\ \A i \in 1 .. n : chain'[i] = chain[i]
    BY <2>1, <2>3, <2>4 DEF Linked
  <2>6. /\ Request' = Request /\ TrustFault' = TrustFault /\ Artifacts' = Artifacts
    BY <2>1, SameCall
  <2>7. Linked'
    <3>1. chain' # << >> /\ chain'[1] = Request
      BY <2>4, <2>5 DEF Linked
    <3>2. chain'[2].kind = "delegation"
      <4>1. CASE n = 1
        <5>1. Current = Request
          BY <2>4, <4>1 DEF Linked, Current
        <5>2. Request.kind = "request"
          BY <1>1, <2>4, RequestFound, Undecided
        <5>. QED
          BY <2>2, <2>5, <4>1, <5>1, <5>2
      <4>2. CASE n > 1
        BY <2>4, <2>5, <4>2 DEF Linked
      <4>3. n = 1 \/ n > 1
        BY <2>5, Counted
      <4> HIDE DEF n
      <4>. QED
        BY <4>1, <4>2, <4>3
    <3>3. ASSUME NEW i \in 1 .. n
          PROVE  GivenTo(chain'[i + 1], StatedSigner(chain'[i]))
      <4>1. CASE i = n
        BY <2>2, <2>5, <4>1 DEF Current
      <4>2. CASE i < n
        <5>1. i \in 1 .. (n - 1) /\ i + 1 \in 1 .. n
          BY <2>5, <4>2
        <5>. QED
          BY <2>4, <2>5, <5>1 DEF Linked
      <4>. QED
        BY <2>5, <4>1, <4>2
    <3>. QED
      BY <2>5, <2>6, <3>1, <3>2, <3>3 DEF Linked
  <2>8. TypeOK' /\ ValidIsBounded' /\ ParseFault' = ParseFault
    BY <1>1, <2>1, <2>4, <2>5, GoOnType, Undecided DEF Stages
  <2>. QED
    BY <1>1, <2>1, <2>4, <2>6, <2>7, <2>8 DEF IInv
<1>. QED
  BY <1>2, <1>3 DEF Follow

LEMMA EndChainStep == ASSUME IInv, EndChain PROVE IInv'
<1>1. stage = "chain" /\ Current.kind \notin {"request", "delegation"}
  BY DEF EndChain
<1>2. CASE Stop("CHAIN_BOUNDS_EXCEEDED")
  BY <1>2, FaultStep DEF Outcomes, Faults, Codes
<1>3. CASE ~Stop("CHAIN_BOUNDS_EXCEEDED")
  <2>1. /\ Current = Root /\ stage' = "attenuation" /\ position' = 2
        /\ UNCHANGED <<input, chain, code>>
    BY <1>3 DEF EndChain
  <2>2. /\ chain \in Seq(Elements(Artifacts)) /\ Linked /\ TrustFault = "none"
        /\ OfKind(Artifacts, {"request"}) # {} /\ code = "none" /\ input \in Input
    BY <1>1, Undecided DEF IInv
  <2>3. /\ Request' = Request /\ TrustFault' = TrustFault /\ Artifacts' = Artifacts
        /\ Root' = Root
    BY <2>1, SameCall
  <2>4. Len(chain) > 2 /\ chain[2].kind = "delegation" /\ chain[2] \in Elements(Artifacts)
    <3>1. Len(chain) \in Nat \ {0}
      BY <2>2 DEF Linked
    <3>2. Len(chain) # 1
      BY <1>1, <2>2, RequestFound DEF Linked, Current
    <3>3. Len(chain) > 1 => chain[2].kind = "delegation"
      BY <2>2 DEF Linked
    <3>4. ASSUME Len(chain) = 2
          PROVE  FALSE
      <4>1. Current = chain[2] /\ chain[2].kind = "delegation"
        BY <3>3, <3>4 DEF Current
      <4>. QED
        BY <1>1, <4>1
    <3>5. Len(chain) > 2
      BY <3>1, <3>2, <3>4, Counted
    <3>6. 2 \in 1 .. Len(chain)
      BY <3>1, <3>5
    <3>7. chain[2] \in Elements(Artifacts)
      BY <2>2, <3>6
    <3>. QED
      BY <3>3, <3>5, <3>7
  <2>5. chain[2].ceiling.depth \in Nat
    BY <1>1, <2>2, <2>4, Formed DEF IInv
  <2>6. Nested'
    BY <2>1, <2>2, <2>4, <2>5 DEF Nested
  <2>7. Complete' /\ Linked'
    BY <2>1, <2>2, <2>3, <2>4 DEF Complete, Current, Linked
  <2>8. TypeOK' /\ ValidIsBounded' /\ ParseFault' = ParseFault
    BY <2>1, <2>2, GoOnType DEF Stages
  <2>. QED
    BY <1>1, <2>1, <2>2, <2>3, <2>6, <2>7, <2>8 DEF IInv
<1>. QED
  BY <1>2, <1>3

LEMMA AttenuateStep == ASSUME IInv, Attenuate PROVE IInv'
<1>1. stage = "attenuation" /\ position < Len(chain)
  BY DEF Attenuate
<1>2. CASE Stop("ATTENUATION_VIOLATION")
  BY <1>2, FaultStep DEF Outcomes, Faults, Codes
<1>3. CASE ~Stop("ATTENUATION_VIOLATION")
  <2> DEFINE p == position
             depth(i) == chain[i].ceiling.depth
  <2>1. /\ Narrows(chain[p], chain[p + 1]) /\ position' = p + 1
        /\ UNCHANGED <<input, stage, chain, code>>
    BY <1>3 DEF Attenuate
  <2>2. /\ chain \in Seq(Elements(Artifacts)) /\ Linked /\ TrustFault = "none"
        /\ OfKind(Artifacts, {"request"}) # {} /\ code = "none" /\ input \in Input
        /\ Complete /\ Nested
    BY <1>1, Undecided DEF IInv
  <2>3. /\ Request' = Request /\ TrustFault' = TrustFault /\ Artifacts' = Artifacts
        /\ Root' = Root
    BY <2>1, SameCall
  <2>4. p \in 2 .. Len(chain) /\ p + 1 \in 2 .. Len(chain) /\ Len(chain) \in Nat
    BY <1>1, <2>2 DEF Nested
  <2>5. \A i \in 2 .. (p + 1) : chain[i].kind \in {"credential", "delegation"}
    BY <2>1, <2>2, <2>4 DEF Nested, Narrows
  <2>6. \A i \in 2 .. (p + 1) : /\ depth(i) \in Nat /\ chain[i].ceiling.from \in Int
                                 /\ chain[i].ceiling.until \in Int
    BY <1>1, <2>2, <2>4, <2>5, Formed DEF IInv
  <2>7. Attenuates(chain[p].ceiling, chain[p + 1].ceiling)
    BY <2>1 DEF Narrows
  <2>8. ASSUME NEW i \in 2 .. p
        PROVE  Attenuates(chain[i].ceiling, chain[p + 1].ceiling)
    <3>1. CASE i = p
      BY <2>7, <3>1
    <3>2. CASE i < p
      <4>1. Attenuates(chain[i].ceiling, chain[p].ceiling)
        BY <2>2, <2>4, <3>2 DEF Nested
      <4>2. i \in 2 .. (p + 1) /\ p \in 2 .. (p + 1) /\ p + 1 \in 2 .. (p + 1)
        BY <2>4
      <4>3. /\ depth(i) < depth(p + 1)
            /\ chain[p + 1].ceiling.from <= chain[i].ceiling.from
            /\ chain[i].ceiling.until <= chain[p + 1].ceiling.until
        BY <2>6, <2>7, <4>1, <4>2 DEF Attenuates
      <4>4. \A d \in Dimensions : chain[i].ceiling[d] \subseteq chain[p + 1].ceiling[d]
        BY <2>7, <4>1 DEF Attenuates
      <4>. QED
        BY <4>3, <4>4 DEF Attenuates
    <3>. QED
      BY <2>4, <3>1, <3>2
  <2>9. depth(2) + (p + 1 - 2) <= depth(p + 1)
    <3>1. depth(2) + (p - 2) <= depth(p) /\ depth(p) < depth(p + 1)
      BY <2>2, <2>4, <2>7 DEF Nested, Attenuates
    <3>2. depth(2) \in Nat /\ depth(p) \in Nat /\ depth(p + 1) \in Nat
      BY <2>4, <2>6
    <3> HIDE DEF depth
    <3>. QED
      BY <2>4, <3>1, <3>2
  <2>10. Nested'
    <3>1. \A i, j \in 2 .. (p + 1) : i < j => Attenuates(chain[i].ceiling, chain[j].ceiling)
      BY <2>2, <2>4, <2>8 DEF Nested
    <3>2. \A i \in 2 .. (p + 1) : chain[2].ceiling.depth + (i - 2) <= chain[i].ceiling.depth
      BY <2>2, <2>4, <2>9 DEF Nested
    <3>. QED
      BY <2>1, <2>4, <2>5, <3>1, <3>2 DEF Nested
  <2>11. Complete' /\ Linked'
    BY <2>1, <2>2, <2>3 DEF Complete, Current, Linked
  <2>12. TypeOK' /\ ValidIsBounded' /\ ParseFault' = ParseFault
    BY <1>1, <2>1, <2>2, <2>4, GoOnType DEF Stages
  <2>. QED
    BY <1>1, <2>1, <2>2, <2>3, <2>10, <2>11, <2>12 DEF IInv
<1>. QED
  BY <1>2, <1>3

\* A stage after the loops ends with a fault, or leaves the chain to the next.
LEMMA ConcludeStep ==
    ASSUME IInv, NEW fault \in Outcomes, NEW next, Conclude(fault, next),
           \/ stage = "attenuation" /\ next = "status" /\ position = Len(chain)
           \/ stage = "status" /\ next = "binding"
           \/ stage = "binding" /\ next = "replay" /\ fault = BindingFault
    PROVE  IInv'
<1>1. CASE fault # "none"
  BY <1>1, FaultStep DEF Conclude
<1>2. CASE fault = "none"
  <2>1. stage' = next /\ UNCHANGED <<input, chain, position, code>>
    BY <1>2 DEF Conclude
  <2>2. /\ chain \in Seq(Elements(Artifacts)) /\ Linked /\ TrustFault = "none"
        /\ OfKind(Artifacts, {"request"}) # {} /\ code = "none" /\ input \in Input
        /\ Complete /\ Nested /\ position = Len(chain) /\ position \in Nat \ {0}
    BY Undecided DEF IInv
  <2>3. /\ Request' = Request /\ TrustFault' = TrustFault /\ Artifacts' = Artifacts
        /\ Root' = Root /\ input' = input
    BY <2>1, SameCall
  <2>4. Complete' /\ Linked' /\ Nested'
    BY <2>1, <2>2, <2>3 DEF Complete, Current, Linked, Nested
  <2>5. stage' = "replay" => BindingFault' = "none"
    BY <1>2, <2>1, <2>3 DEF BindingFault, Effective
  <2>6. TypeOK' /\ ValidIsBounded' /\ ParseFault' = ParseFault
    BY <2>1, <2>2, GoOnType DEF Stages
  <2>. QED
    BY <2>1, <2>2, <2>3, <2>4, <2>5, <2>6 DEF IInv
<1>. QED
  BY <1>1, <1>2

LEMMA StepIInv == ASSUME IInv, [Next]_vars PROVE IInv'
<1>1. CASE UNCHANGED vars
  <2>1. /\ UNCHANGED <<input, stage, chain, position, code>> /\ input' = input
        /\ Artifacts' = Artifacts /\ Request' = Request /\ Root' = Root /\ TrustFault' = TrustFault
        /\ ParseFault' = ParseFault
    BY <1>1, SameCall DEF vars
  <2>2. TypeOK' /\ ValidIsBounded'
    BY <2>1 DEF IInv, TypeOK, ValidIsBounded
  <2>3. (Complete <=> Complete') /\ (Linked <=> Linked') /\ (Nested <=> Nested')
    BY <2>1 DEF Complete, Current, Linked, Nested
  <2>4. BindingFault' = BindingFault
    BY <2>1 DEF BindingFault, Effective
  <2>. QED
    BY <2>1, <2>2, <2>3, <2>4 DEF IInv
<1>2. CASE EndAttenuation
  BY <1>2, ConcludeStep DEF EndAttenuation, Outcomes
<1>3. CASE Status
  BY <1>3, ConcludeStep, LateFaults, Undecided DEF Status
<1>4. CASE Binding
  BY <1>4, ConcludeStep, LateFaults, Undecided DEF Binding
<1>5. CASE Replay
  BY <1>5, StopStep, LateFaults, Undecided DEF Replay
<1>. QED
  BY <1>1, <1>2, <1>3, <1>4, <1>5, ParseStep, CryptoStep, TimeStep, TrustStep, FollowStep,
     EndChainStep, AttenuateStep DEF Next

LEMMA InitIInv == Init => IInv
<1> SUFFICES ASSUME Init PROVE IInv
  OBVIOUS
<1>1. << >> \in Seq(Elements(Artifacts))
  OBVIOUS
<1>. QED
  BY <1>1 DEF Init, IInv, TypeOK, ValidIsBounded, Stages, Codes

LEMMA Invariance == Spec => []IInv
<1>. QED
  BY InitIInv, StepIInv, PTL DEF Spec

\* Whatever the artifacts and the snapshot, the call is always in a stage with
\* a chain of artifacts it was given, and done exactly when it has a code of
\* the protocol.
THEOREM TypeCorrect == Spec => []TypeOK
<1>1. IInv => TypeOK
  BY DEF IInv
<1>. QED
  BY <1>1, Invariance, PTL

\* verifyArtifacts answers VALID only for authority handed down from a root of
\* local policy, for an action, a resource and a task within every ceiling on the
\* way (the audience is compared with none: AudienceIsBound), whatever the
\* artifacts are, in whatever order they come and however long the chain is.
THEOREM ValidBounded == Spec => []ValidIsBounded
<1>1. IInv => ValidIsBounded
  BY DEF IInv
<1>. QED
  BY <1>1, Invariance, PTL

-----------------------------------------------------------------------------
(* What holds authority, level by level *)

Levels(n, g) ==
    g = [k \in 0 .. n |-> IF k = 0 THEN TrustedRoots ELSE g[k - 1] \cup HeldUnder(g[k - 1])]

\* The recursion has a solution for any number of levels.
LEMMA LevelsExist ==
    ASSUME NEW n \in Nat
    PROVE  \E g : Levels(n, g)
<1> DEFINE Bad == {k \in Nat : ~ \E g : Levels(k, g)}
<1> SUFFICES ASSUME Bad # {} PROVE FALSE
  OBVIOUS
<1>1. PICK m \in Bad : \A k \in Bad : m <= k
  <2>1. Bad \subseteq Nat
    OBVIOUS
  <2> HIDE DEF Bad
  <2>. QED
    BY <2>1, Least
<1>2. m # 0
  <2>1. Levels(0, [k \in 0 .. 0 |-> TrustedRoots])
    BY DEF Levels
  <2>. QED
    BY <2>1
<1>3. m - 1 \in Nat /\ m - 1 \notin Bad /\ m \in Nat
  BY <1>1, <1>2
<1>4. PICK g : Levels(m - 1, g)
  BY <1>3
<1> DEFINE h == [k \in 0 .. m |-> IF k = m THEN g[m - 1] \cup HeldUnder(g[m - 1]) ELSE g[k]]
<1>5. \A k \in 0 .. (m - 1) : h[k] = g[k]
  BY <1>3
<1>6. \A k \in 0 .. (m - 1) : g[k] = IF k = 0 THEN TrustedRoots ELSE g[k - 1] \cup HeldUnder(g[k - 1])
  BY <1>3, <1>4 DEF Levels
<1>7. h[m] = g[m - 1] \cup HeldUnder(g[m - 1]) /\ DOMAIN h = 0 .. m /\ h = [k \in 0 .. m |-> h[k]]
  BY <1>3
<1> HIDE DEF h
<1>8. \A k \in 0 .. m : h[k] = IF k = 0 THEN TrustedRoots ELSE h[k - 1] \cup HeldUnder(h[k - 1])
  <2> SUFFICES ASSUME NEW k \in 0 .. m
               PROVE  h[k] = IF k = 0 THEN TrustedRoots ELSE h[k - 1] \cup HeldUnder(h[k - 1])
    OBVIOUS
  <2>1. CASE k = m
    <3>1. m - 1 \in 0 .. (m - 1)
      BY <1>3
    <3>2. h[m - 1] = g[m - 1]
      BY <1>5, <3>1
    <3>3. h[m] = h[m - 1] \cup HeldUnder(h[m - 1])
      BY <1>7, <3>2
    <3>. QED
      BY <1>2, <2>1, <3>3
  <2>2. CASE k # m
    <3>1. k \in 0 .. (m - 1) /\ (k # 0 => k - 1 \in 0 .. (m - 1))
      BY <1>3, <2>2
    <3>. QED
      BY <1>5, <1>6, <3>1
  <2>. QED
    BY <2>1, <2>2
<1>9. Levels(m, h)
  BY <1>7, <1>8, Zenon DEF Levels
<1>. QED
  BY <1>1, <1>9

LEMMA BackedLevels ==
    ASSUME input.snapshot.maxDepth \in Nat
    PROVE  \A k \in 0 .. input.snapshot.maxDepth :
              BackedAt[k] = IF k = 0 THEN TrustedRoots ELSE BackedAt[k - 1] \cup HeldUnder(BackedAt[k - 1])
<1> DEFINE N == input.snapshot.maxDepth
           g == CHOOSE f : Levels(N, f)
<1>1. Levels(N, g)
  BY LevelsExist, Zenon
<1>2. BackedAt = g
  BY Zenon DEF BackedAt, Levels
<1> HIDE DEF g
<1>. QED
  BY <1>1, <1>2 DEF Levels

\* A deeper level holds whatever one above it holds.
LEMMA LevelsGrow ==
    ASSUME input.snapshot.maxDepth \in Nat, NEW k \in Nat, NEW n \in Nat, k <= n,
           n <= input.snapshot.maxDepth
    PROVE  BackedAt[k] \subseteq BackedAt[n]
<1> DEFINE Bad == {m \in Nat : k <= m /\ m <= n /\ ~(BackedAt[k] \subseteq BackedAt[m])}
<1> SUFFICES ASSUME Bad # {} PROVE FALSE
  OBVIOUS
<1>1. PICK m \in Bad : \A j \in Bad : m <= j
  <2>1. Bad \subseteq Nat
    OBVIOUS
  <2> HIDE DEF Bad
  <2>. QED
    BY <2>1, Least
<1>2. m # k /\ m \in 0 .. input.snapshot.maxDepth /\ m - 1 \in Nat /\ m # 0 /\ k <= m - 1 /\ m - 1 <= n
  BY <1>1
<1>3. BackedAt[k] \subseteq BackedAt[m - 1]
  BY <1>1, <1>2
<1>4. BackedAt[m] = BackedAt[m - 1] \cup HeldUnder(BackedAt[m - 1])
  BY <1>2, BackedLevels
<1>. QED
  BY <1>1, <1>3, <1>4

\* What holds authority at some level first held it at the level of the roots,
\* or under the level before.
LEMMA FirstHeld ==
    ASSUME input.snapshot.maxDepth \in Nat, NEW n \in 0 .. input.snapshot.maxDepth,
           NEW a \in BackedAt[n]
    PROVE  \/ a \in TrustedRoots
           \/ n > 0 /\ a \in HeldUnder(BackedAt[n - 1])
<1> DEFINE Has == {m \in Nat : m <= n /\ a \in BackedAt[m]}
<1>1. PICK m \in Has : \A j \in Has : m <= j
  <2>1. Has \subseteq Nat /\ Has # {}
    OBVIOUS
  <2> HIDE DEF Has
  <2>. QED
    BY <2>1, Least
<1>2. m \in 0 .. input.snapshot.maxDepth /\ m <= n /\ a \in BackedAt[m]
  BY <1>1
<1>3. CASE m = 0
  BY <1>2, <1>3, BackedLevels
<1>4. CASE m # 0
  <2>1. m - 1 \in Nat /\ m - 1 <= n - 1 /\ n - 1 \in Nat /\ n > 0 /\ n - 1 <= input.snapshot.maxDepth
        /\ m - 1 <= n
    BY <1>2, <1>4
  <2>2. a \notin BackedAt[m - 1]
    BY <1>1, <2>1
  <2>3. a \in HeldUnder(BackedAt[m - 1])
    BY <1>2, <1>4, <2>2, BackedLevels
  <2>4. BackedAt[m - 1] \subseteq BackedAt[n - 1]
    BY <2>1, LevelsGrow
  <2>. QED
    BY <2>1, <2>3, <2>4 DEF HeldUnder
<1>. QED
  BY <1>3, <1>4

\* Whatever holds authority is live, and a trusted root or a delegation; and
\* only under a trusted root does anything hold authority.
LEMMA HoldersAre ==
    ASSUME input.snapshot.maxDepth \in Nat, NEW n \in 0 .. input.snapshot.maxDepth,
           NEW a \in BackedAt[n]
    PROVE  /\ a \in Elements(Artifacts) /\ Live(a)
           /\ \/ a.kind = "credential" /\ a \in TrustedRoots
              \/ a.kind = "delegation" /\ n > 0 /\ a \in HeldUnder(BackedAt[n - 1])
           /\ TrustedRoots # {}
<1>1. \/ a.kind = "credential" /\ a \in TrustedRoots
      \/ a.kind = "delegation" /\ n > 0 /\ a \in HeldUnder(BackedAt[n - 1])
  <2>1. a \in TrustedRoots => a.kind = "credential"
    BY DEF TrustedRoots, Roots, OfKind
  <2>2. n > 0 /\ a \in HeldUnder(BackedAt[n - 1]) => a.kind = "delegation"
    BY DEF HeldUnder, OfKind
  <2>. QED
    BY <2>1, <2>2, FirstHeld
<1>2. a \in Elements(Artifacts) /\ Live(a)
  BY <1>1 DEF TrustedRoots, HeldUnder, Roots, OfKind
<1>3. TrustedRoots # {}
  <2> DEFINE Has == {m \in Nat : m <= input.snapshot.maxDepth /\ BackedAt[m] # {}}
  <2>1. PICK m \in Has : \A j \in Has : m <= j
    <3>1. Has \subseteq Nat /\ Has # {}
      OBVIOUS
    <3> HIDE DEF Has
    <3>. QED
      BY <3>1, Least
  <2>2. m \in 0 .. input.snapshot.maxDepth /\ BackedAt[m] # {}
    BY <2>1
  <2>3. CASE m = 0
    BY <2>2, <2>3, BackedLevels
  <2>4. CASE m # 0
    <3>1. m - 1 \in Nat /\ m - 1 <= input.snapshot.maxDepth /\ ~(m <= m - 1)
      BY <2>2, <2>4
    <3>2. BackedAt[m - 1] = {}
      BY <2>1, <3>1
    <3>3. HeldUnder({}) = {}
      BY DEF HeldUnder
    <3>. QED
      BY <2>2, <2>4, <3>2, <3>3, BackedLevels
  <2>. QED
    BY <2>3, <2>4
<1>. QED
  BY <1>1, <1>2, <1>3

-----------------------------------------------------------------------------
(* The checks on a list, as checks on its elements *)

LEMMA NoFault ==
    ASSUME NEW faults, DOMAIN faults \subseteq Nat, \A i \in DOMAIN faults : faults[i] = "none"
    PROVE  FirstFault(faults) = "none"
BY FirstFaultFinds

LEMMA NoFaultPair ==
    ASSUME NEW f, NEW g, f = "none", g = "none"
    PROVE  FirstFault(<<f, g>>) = "none"
<1>1. DOMAIN <<f, g>> = {1, 2} /\ <<f, g>>[1] = f /\ <<f, g>>[2] = g
  OBVIOUS
<1>. QED
  BY <1>1, NoFault

\* The checks of a list find no fault when those of its elements do not.
LEMMA ListFaults ==
    ASSUME NEW s, DOMAIN s \subseteq Nat, NEW snapshot, NEW now, NEW skew
    PROVE  /\ CryptoFaults(s, snapshot) \in Outcomes /\ TimeFaults(s, now, skew) \in Outcomes
           /\ CryptoFaults(s, snapshot) = "none"
                <=> \A a \in Elements(s) : CryptoFault(a, s, snapshot) = "none"
           /\ TimeFaults(s, now, skew) = "none"
                <=> \A a \in Elements(s) : TimeFault(a, now, skew) = "none"
<1> DEFINE cf == [i \in DOMAIN s |-> CryptoFault(s[i], s, snapshot)]
           tf == [i \in DOMAIN s |-> TimeFault(s[i], now, skew)]
<1>1. DOMAIN cf = DOMAIN s /\ DOMAIN tf = DOMAIN s
  OBVIOUS
<1>2. CryptoFaults(s, snapshot) = FirstFault(cf) /\ TimeFaults(s, now, skew) = FirstFault(tf)
  BY DEF CryptoFaults, TimeFaults
<1>3. /\ (\A a \in Elements(s) : CryptoFault(a, s, snapshot) = "none") <=> \A i \in DOMAIN s : cf[i] = "none"
      /\ (\A a \in Elements(s) : TimeFault(a, now, skew) = "none") <=> \A i \in DOMAIN s : tf[i] = "none"
  BY DEF Elements
<1>4. \A a : CryptoFault(a, s, snapshot) \in Outcomes /\ TimeFault(a, now, skew) \in Outcomes
  BY DEF CryptoFault, TimeFault, Outcomes, Faults, Codes
<1>5. \A i \in DOMAIN s : cf[i] \in Outcomes /\ tf[i] \in Outcomes
  BY <1>4
<1> HIDE DEF cf, tf
<1>6. FirstFault(cf) \in Outcomes /\ FirstFault(tf) \in Outcomes
  BY <1>1, <1>5, FirstFaultType
<1>7. FirstFault(cf) = "none" <=> \A i \in DOMAIN cf : cf[i] = "none"
  BY <1>1, NoFault, FirstFaultFinds
<1>8. FirstFault(tf) = "none" <=> \A i \in DOMAIN tf : tf[i] = "none"
  BY <1>1, NoFault, FirstFaultFinds
<1>. QED
  BY <1>1, <1>2, <1>3, <1>6, <1>7, <1>8

\* CRYPTO and TIME find no fault when no artifact has one.
LEMMA SoundAll ==
    ASSUME input \in Input
    PROVE  /\ CryptoFaults(Artifacts, input.snapshot) = "none"
           /\ TimeFaults(Artifacts, input.now, input.snapshot.skew) = "none"
           <=> \A a \in Elements(Artifacts) : Sound(a)
<1>1. DOMAIN Artifacts \subseteq Nat
  BY ArtifactsType
<1>. QED
  BY <1>1, ListFaults DEF Sound

\* The credential that the Map keeps for a key is one that names it.
LEMMA HolderFound ==
    ASSUME NEW s, s \in Seq(Elements(s)), NEW c \in Elements(s), c.kind = "credential"
    PROVE  \E b \in Elements(s) : b.kind = "credential" /\ b.key = c.key /\ Holder(s, c.key) = b.subject
<1> DEFINE n == Len(s)
           Names1(i) == s[i].kind = "credential" /\ s[i].key = c.key
           D == {d \in 0 .. n : n - d \in 1 .. n /\ Names1(n - d)}
<1>1. n \in Nat /\ DOMAIN s = 1 .. n
  OBVIOUS
<1> HIDE DEF n
<1>2. PICK k \in 1 .. n : s[k] = c
  BY <1>1 DEF Elements
<1>3. n - k \in D
  <2>1. n - k \in 0 .. n /\ n - (n - k) = k
    BY <1>1
  <2>. QED
    BY <1>2, <2>1
<1>4. PICK d \in D : \A e \in D : d <= e
  <2>1. D \subseteq Nat
    OBVIOUS
  <2> HIDE DEF D
  <2>2. D # {}
    BY <1>3
  <2>. QED
    BY <2>1, <2>2, Least
<1>5. n - d \in 1 .. n /\ Names1(n - d) /\ d \in 0 .. n
  BY <1>4
<1>6. ASSUME NEW j \in ((n - d) + 1) .. n, Names1(j)
      PROVE  FALSE
  <2>1. n - j \in 0 .. n /\ n - (n - j) = j /\ j \in 1 .. n /\ ~(d <= n - j)
    BY <1>1, <1>5
  <2>2. n - j \in D
    BY <1>6, <2>1
  <2>. QED
    BY <1>4, <2>1, <2>2
<1> DEFINE last == CHOOSE i \in DOMAIN s :
                      /\ s[i].kind = "credential" /\ s[i].key = c.key
                      /\ \A j \in (i + 1) .. Len(s) : s[j].kind = "credential" => s[j].key # c.key
<1>7. n - d \in DOMAIN s /\ \A j \in ((n - d) + 1) .. Len(s) : s[j].kind = "credential" => s[j].key # c.key
  BY <1>1, <1>5, <1>6 DEF n
<1>8. last \in DOMAIN s /\ s[last].kind = "credential" /\ s[last].key = c.key
  BY <1>5, <1>7
<1>9. Holder(s, c.key) = s[last].subject
  BY DEF Holder
<1> HIDE DEF last
<1>10. s[last] \in Elements(s)
  BY <1>8 DEF Elements
<1>. QED
  BY <1>8, <1>9, <1>10

\* When only one names it, it is that one.
LEMMA HolderIs ==
    ASSUME NEW s, s \in Seq(Elements(s)), NEW c \in Elements(s), c.kind = "credential",
           \A b \in Elements(s) : b.kind = "credential" /\ b.key = c.key => b = c
    PROVE  Holder(s, c.key) = c.subject
BY HolderFound

\* The list's holder of a key is among the set's, and none of another name is
\* unless the list is ambiguous.
LEMMA HolderAmong ==
    ASSUME input \in Input, NEW key
    PROVE  /\ HasHolder(Artifacts, key) <=> Holders(key) # {}
           /\ HasHolder(Artifacts, key) => Holder(Artifacts, key) \in Holders(key)
           /\ Unambiguous => \A h, g \in Holders(key) : h = g
<1>1. Artifacts \in Seq(Elements(Artifacts))
  BY ArtifactsType
<1>2. HasHolder(Artifacts, key) <=> \E c \in Elements(Artifacts) : c.kind = "credential" /\ c.key = key
  BY DEF HasHolder, Elements
<1>3. HasHolder(Artifacts, key) <=> Holders(key) # {}
  BY <1>2 DEF Holders, OfKind
<1>4. ASSUME HasHolder(Artifacts, key)
      PROVE  Holder(Artifacts, key) \in Holders(key)
  <2>1. PICK c \in Elements(Artifacts) : c.kind = "credential" /\ c.key = key
    BY <1>2, <1>4
  <2>2. PICK b \in Elements(Artifacts) : b.kind = "credential" /\ b.key = c.key
                                       /\ Holder(Artifacts, c.key) = b.subject
    BY <1>1, <2>1, HolderFound
  <2>. QED
    BY <2>1, <2>2 DEF Holders, OfKind
<1>5. Unambiguous => \A h, g \in Holders(key) : h = g
  BY DEF Unambiguous, Holders
<1>. QED
  BY <1>3, <1>4, <1>5

\* An artifact without fault on the list is authentic, and an authentic one has
\* no fault unless the list is ambiguous.
LEMMA AuthenticSound ==
    ASSUME input \in Input, NEW a \in Elements(Artifacts)
    PROVE  /\ Sound(a) => Authentic(a)
           /\ Unambiguous /\ Authentic(a) => Sound(a)
<1>1. a.kind \in {"credential", "delegation", "request", "key_status", "revocation"}
  BY InputAssumption DEF Artifacts
<1>2. /\ HasHolder(Artifacts, a.kid) <=> Holders(a.kid) # {}
      /\ HasHolder(Artifacts, a.kid) => Holder(Artifacts, a.kid) \in Holders(a.kid)
      /\ Unambiguous => \A h, g \in Holders(a.kid) : h = g
  BY HolderAmong
<1>3. CASE a.kind = "credential"
  BY <1>2, <1>3 DEF Sound, Authentic, CryptoFault, Pinned
<1>4. CASE a.kind \in {"delegation", "request"}
  <2>1. ~Pinned(a, input.snapshot)
    BY <1>4 DEF Pinned
  <2>. QED
    BY <1>2, <1>4, <2>1 DEF Sound, Authentic, CryptoFault
<1>5. CASE a.kind \in {"key_status", "revocation"}
  <2>1. Pinned(a, input.snapshot) <=> a.kid \in DOMAIN input.snapshot.publishers
    BY <1>5 DEF Pinned
  <2>. QED
    BY <1>2, <1>5, <2>1 DEF Sound, Authentic, CryptoFault
<1>. QED
  BY <1>1, <1>3, <1>4, <1>5

\* Of artifacts of which there is at most one, all are the same.
LEMMA AtMostOne ==
    ASSUME input \in Input, NEW S, S \subseteq Elements(Artifacts), Cardinality(S) <= 1,
           NEW a \in S, NEW b \in S
    PROVE  a = b
<1> DEFINE at == [i \in 1 .. Len(Artifacts) |-> Artifacts[i]]
<1>1. IsFiniteSet(Elements(Artifacts))
  <2>1. IsFiniteSet(1 .. Len(Artifacts))
    BY ArtifactsType, FS_Interval
  <2>2. at \in Surjection(1 .. Len(Artifacts), Elements(Artifacts))
    BY ArtifactsType DEF Surjection, Elements
  <2>. QED
    BY <2>1, <2>2, FS_Surjection
<1>2. IsFiniteSet(S)
  BY <1>1, FS_Subset
<1>3. ASSUME a # b
      PROVE  FALSE
  <2>1. IsFiniteSet(S \ {a}) /\ Cardinality(S \ {a}) = Cardinality(S) - 1
    BY <1>2, FS_RemoveElement
  <2>2. Cardinality(S \ {a}) \in Nat /\ Cardinality(S) \in Nat
    BY <1>2, <2>1, FS_CardinalityType
  <2>3. Cardinality(S \ {a}) = 0
    BY <2>1, <2>2
  <2>4. S \ {a} = {}
    BY <2>1, <2>3, FS_EmptySet
  <2>. QED
    BY <1>3, <2>4
<1>. QED
  BY <1>3

-----------------------------------------------------------------------------
(* The records on a key *)

\* Of the records on a key that are among the first of the list, if there are
\* any, one has the highest number.
LEMMA HighestOfFirst ==
    ASSUME input \in Input, ParseFault = "none", NEW key, NEW n \in 0 .. Len(Artifacts),
           NEW i \in 1 .. n, Artifacts[i] \in StatusOf(Artifacts, key)
    PROVE  \E j \in 1 .. n :
              /\ Artifacts[j] \in StatusOf(Artifacts, key)
              /\ \A k \in 1 .. n : Artifacts[k] \in StatusOf(Artifacts, key) =>
                                      Artifacts[k].sequence <= Artifacts[j].sequence
<1> DEFINE S == StatusOf(Artifacts, key)
           Highest(m) == \E j \in 1 .. m :
                            /\ Artifacts[j] \in S
                            /\ \A k \in 1 .. m : Artifacts[k] \in S =>
                                                    Artifacts[k].sequence <= Artifacts[j].sequence
           Some(m) == \E j \in 1 .. m : Artifacts[j] \in S
           Bad == {m \in Nat : m <= n /\ Some(m) /\ ~Highest(m)}
<1>1. Len(Artifacts) \in Nat /\ n \in Nat
  BY ArtifactsType
<1>2. \A j \in 1 .. n : Artifacts[j] \in S => Artifacts[j].sequence \in Nat
  BY <1>1, Formed DEF StatusOf
<1> HIDE DEF S
<1>3. Bad = {}
  <2> SUFFICES ASSUME Bad # {} PROVE FALSE
    OBVIOUS
  <2> HIDE DEF Highest, Some
  <2>1. PICK m \in Nat : m <= n /\ Some(m) /\ ~Highest(m) /\ \A j \in Bad : m <= j
    <3>1. Bad \subseteq Nat
      OBVIOUS
    <3> HIDE DEF Bad
    <3>2. PICK m \in Bad : \A j \in Bad : m <= j
      BY <3>1, Least
    <3>. QED
      BY <3>2 DEF Bad
  <2>2. m # 0
    BY <2>1 DEF Some
  <2>3. /\ m - 1 \in Nat /\ m - 1 <= n /\ ~(m <= m - 1) /\ m \in 1 .. m /\ m \in 1 .. n
        /\ \A j \in 1 .. m : j \in 1 .. n
        /\ \A j \in 1 .. (m - 1) : j \in 1 .. m
    BY <1>1, <2>1, <2>2
  <2>4. Some(m - 1) => Highest(m - 1)
    BY <2>1, <2>3
  <2>5. Some(m) /\ ~Highest(m)
    BY <2>1
  <2> HIDE DEF Bad
  <2> USE DEF Highest, Some
  <2>6. \A k \in 1 .. m : k = m \/ k \in 1 .. (m - 1)
    BY <2>1, <2>2
  <2>7. CASE Artifacts[m] \notin S
    <3>1. \E j \in 1 .. (m - 1) : Artifacts[j] \in S
      BY <2>5, <2>6, <2>7
    <3>2. PICK j \in 1 .. (m - 1) : /\ Artifacts[j] \in S
                                    /\ \A k \in 1 .. (m - 1) : Artifacts[k] \in S =>
                                          Artifacts[k].sequence <= Artifacts[j].sequence
      BY <2>4, <3>1
    <3>3. j \in 1 .. m
      BY <2>3
    <3>4. Highest(m)
      BY <2>6, <2>7, <3>2, <3>3
    <3>. QED
      BY <2>5, <3>4
  <2>8. CASE Artifacts[m] \in S /\ ~ \E j \in 1 .. (m - 1) : Artifacts[j] \in S
    <3>1. Artifacts[m].sequence <= Artifacts[m].sequence
      BY <1>2, <2>3, <2>8
    <3>2. Highest(m)
      BY <2>3, <2>6, <2>8, <3>1
    <3>. QED
      BY <2>5, <3>2
  <2>9. CASE Artifacts[m] \in S /\ \E j \in 1 .. (m - 1) : Artifacts[j] \in S
    <3>1. PICK j \in 1 .. (m - 1) : /\ Artifacts[j] \in S
                                    /\ \A k \in 1 .. (m - 1) : Artifacts[k] \in S =>
                                          Artifacts[k].sequence <= Artifacts[j].sequence
      BY <2>4, <2>9
    <3>2. j \in 1 .. m /\ Artifacts[j].sequence \in Nat /\ Artifacts[m].sequence \in Nat
          /\ \A k \in 1 .. m : Artifacts[k] \in S => Artifacts[k].sequence \in Nat
      BY <1>2, <2>3, <2>9, <3>1
    <3>3. CASE Artifacts[m].sequence <= Artifacts[j].sequence
      <4>1. Highest(m)
        BY <2>6, <3>1, <3>2, <3>3
      <4>. QED
        BY <2>5, <4>1
    <3>4. CASE Artifacts[j].sequence <= Artifacts[m].sequence
      <4>1. \A k \in 1 .. m : Artifacts[k] \in S => Artifacts[k].sequence <= Artifacts[m].sequence
        BY <2>6, <3>1, <3>2, <3>4
      <4>2. Highest(m)
        BY <2>3, <2>9, <4>1
      <4>. QED
        BY <2>5, <4>2
    <3>. QED
      BY <3>2, <3>3, <3>4
  <2>. QED
    BY <2>7, <2>8, <2>9
<1>4. Highest(n)
  <2>1. Some(n) /\ n <= n
    BY <1>1 DEF S
  <2> HIDE DEF Some, Highest
  <2>. QED
    BY <1>1, <1>3, <2>1
<1>. QED
  BY <1>4 DEF S

\* What statusFor selects is a record on the key, of the highest number.
LEMMA StatusSelected ==
    ASSUME input \in Input, ParseFault = "none", NEW key, StatusOf(Artifacts, key) # {}
    PROVE  /\ StatusFor(Artifacts, key) \in StatusOf(Artifacts, key)
           /\ \A q \in StatusOf(Artifacts, key) : q.sequence <= StatusFor(Artifacts, key).sequence
<1> DEFINE S == StatusOf(Artifacts, key)
           M == {r \in S : \A q \in S : q.sequence <= r.sequence}
<1>1. Len(Artifacts) \in 0 .. Len(Artifacts) /\ DOMAIN Artifacts = 1 .. Len(Artifacts)
  BY ArtifactsType
<1>2. \A r \in S : \E i \in 1 .. Len(Artifacts) : r = Artifacts[i]
  BY <1>1 DEF StatusOf, Elements
<1>3. PICK i \in 1 .. Len(Artifacts) : Artifacts[i] \in S
  BY <1>2
<1>4. PICK j \in 1 .. Len(Artifacts) :
        /\ Artifacts[j] \in S
        /\ \A k \in 1 .. Len(Artifacts) : Artifacts[k] \in S => Artifacts[k].sequence <= Artifacts[j].sequence
  BY <1>1, <1>3, HighestOfFirst
<1>5. \A q \in S : q.sequence <= Artifacts[j].sequence
  BY <1>2, <1>4
<1>6. Artifacts[j] \in M
  BY <1>4, <1>5
<1>7. Find(Artifacts, M) \in M
  <2> HIDE DEF M
  <2>. QED
    BY <1>1, <1>6, ArtifactsType, FindFinds
<1>8. StatusFor(Artifacts, key) = Find(Artifacts, M)
  BY DEF StatusFor
<1>. QED
  BY <1>7, <1>8

\* The loop over the keys passes a key that is usable, and no other.  That it
\* passes each takes that one number on one key is one publisher's.
LEMMA UsableKey ==
    ASSUME input \in Input, ParseFault = "none", NEW key
    PROVE  /\ KeyFault(key) = "none" => Usable(key)
           /\ Unambiguous /\ Usable(key) => KeyFault(key) = "none"
<1> DEFINE S == StatusOf(Artifacts, key)
           r == StatusFor(Artifacts, key)
<1>1. CASE S = {}
  BY <1>1 DEF KeyFault, Usable
<1>2. CASE S # {}
  <2>1. r \in S /\ \A q \in S : q.sequence <= r.sequence
    BY <1>2, StatusSelected
  <2>2. \A q \in S : q \in Elements(Artifacts) /\ q.kind = "key_status" /\ q.target = key
    BY DEF StatusOf
  <2>3. \A q \in S : q.sequence \in Nat /\ q.asOf \in Int /\ q.until \in Int
    BY <2>2, Formed
  <2>4. input.now \in Int
    BY Formed
  <2>5. KeyFault(key) = "none" <=>
          /\ r.state = "active"
          /\ StatusChainValid(Artifacts, r)
          /\ \/ OfflineInspection
             \/ AtHighWater(r, input.snapshot) /\ r.asOf <= input.now /\ input.now <= r.until
    <3>1. r.asOf \in Int /\ r.until \in Int
      BY <2>1, <2>3
    <3>2. r.asOf > input.now \/ r.until < input.now <=> ~(r.asOf <= input.now /\ input.now <= r.until)
      BY <2>4, <3>1
    <3> HIDE DEF r
    <3>. QED
      BY <1>2, <3>2, Zenon DEF KeyFault, r
  <2>6. Usable(key) <=>
          \E q \in S : /\ q.state = "active"
                       /\ \A p \in S : p.sequence <= q.sequence
                       /\ StatusChainValid(Artifacts, q)
                       /\ \/ OfflineInspection
                          \/ AtHighWater(q, input.snapshot) /\ q.asOf <= input.now /\ input.now <= q.until
    BY <1>2 DEF Usable
  <2>7. ASSUME Unambiguous, NEW q \in S, \A p \in S : p.sequence <= q.sequence,
               StatusChainValid(Artifacts, q)
        PROVE  q = r
    <3>1. q.sequence = r.sequence
      BY <2>1, <2>3, <2>7
    <3>2. q.target = r.target /\ q \in OfKind(Artifacts, {"key_status"})
          /\ r \in OfKind(Artifacts, {"key_status"})
      BY <2>1, <2>2 DEF OfKind
    <3>3. q.publisher = r.publisher
      BY <2>7, <3>1, <3>2 DEF Unambiguous
    <3>4. PICK i \in DOMAIN Artifacts : Artifacts[i] = q
      BY <2>2 DEF Elements
    <3>5. PICK j \in DOMAIN Artifacts : Artifacts[j] = r
      BY <2>1, <2>2 DEF Elements
    <3> DEFINE stream == {k \in DOMAIN Artifacts : /\ Artifacts[k].kind = "key_status"
                                                   /\ Artifacts[k].target = q.target
                                                   /\ Artifacts[k].publisher = q.publisher}
    <3>6. i \in stream /\ j \in stream
      BY <2>1, <2>2, <3>2, <3>3, <3>4, <3>5
    <3>7. \A k, l \in stream : Artifacts[k].sequence = Artifacts[l].sequence => k = l
      BY <2>7 DEF StatusChainValid
    <3>8. i = j
      BY <3>1, <3>4, <3>5, <3>6, <3>7
    <3>. QED
      BY <3>4, <3>5, <3>8
  <2> HIDE DEF r, S
  <2>8. KeyFault(key) = "none" => Usable(key)
    BY <2>1, <2>5, <2>6
  <2>9. Unambiguous /\ Usable(key) => KeyFault(key) = "none"
    BY <2>5, <2>6, <2>7
  <2>. QED
    BY <2>8, <2>9
<1>. QED
  BY <1>1, <1>2

-----------------------------------------------------------------------------
(* STATUS passes a chain all of which is live *)

OwnKeys(a) == {a.kid} \cup (IF a.kind = "credential" THEN {a.key} ELSE {})

\* A chain that ends in a credential, its only one.
OneRoot ==
    /\ chain \in Seq(Elements(Artifacts)) /\ chain # << >>
    /\ Current.kind = "credential"
    /\ \A i \in 1 .. (Len(chain) - 1) : chain[i].kind # "credential"

LEMMA KeysOfChain ==
    ASSUME OneRoot
    PROVE  /\ \A a \in Elements(chain) : OwnKeys(a) \subseteq Elements(ChainKeys)
           /\ \A k \in Elements(ChainKeys) : \E a \in Elements(chain) : k \in OwnKeys(a)
<1> DEFINE n == Len(chain)
<1>1. n \in Nat \ {0} /\ DOMAIN chain = 1 .. n /\ n \in 1 .. n /\ n + 1 \in 1 .. (n + 1)
  <2>1. chain \in Seq(Elements(Artifacts)) /\ chain # << >>
    BY DEF OneRoot
  <2>2. n \in Nat \ {0} /\ DOMAIN chain = 1 .. n
    BY <2>1
  <2> HIDE DEF n
  <2>. QED
    BY <2>2
<1> HIDE DEF n
<1>2. \A i \in 1 .. n : i \in 1 .. (n + 1) /\ ~(n + 1 <= n) /\ i <= n /\ (i = n \/ i \in 1 .. (n - 1))
  BY <1>1
<1>3. DOMAIN ChainKeys = 1 .. (n + 1) /\ ChainKeys[n + 1] = Current.key
      /\ \A i \in 1 .. n : ChainKeys[i] = chain[i].kid
  BY <1>1, <1>2 DEF ChainKeys, n
<1>4. Current = chain[n] /\ Current.kind = "credential"
  BY DEF OneRoot, Current, n
<1>5. \A i \in 1 .. (n - 1) : chain[i].kind # "credential"
  BY DEF OneRoot, n
<1>6. ASSUME NEW a \in Elements(chain), NEW k \in OwnKeys(a)
      PROVE  k \in Elements(ChainKeys)
  <2>1. PICK i \in 1 .. n : chain[i] = a
    BY <1>1 DEF Elements
  <2>2. CASE k = a.kid
    BY <1>2, <1>3, <2>1, <2>2 DEF Elements
  <2>3. CASE k # a.kid
    <3>1. a.kind = "credential" /\ k = a.key
      BY <1>6, <2>3 DEF OwnKeys
    <3>2. i = n
      BY <1>2, <1>5, <2>1, <3>1
    <3>3. k = ChainKeys[n + 1]
      BY <1>3, <1>4, <2>1, <3>1, <3>2
    <3>. QED
      BY <1>1, <1>3, <3>3 DEF Elements
  <2>. QED
    BY <2>2, <2>3
<1>7. ASSUME NEW k \in Elements(ChainKeys)
      PROVE  \E a \in Elements(chain) : k \in OwnKeys(a)
  <2>1. PICK i \in 1 .. (n + 1) : k = ChainKeys[i]
    BY <1>3 DEF Elements
  <2>2. CASE i = n + 1
    BY <1>1, <1>3, <1>4, <2>1, <2>2 DEF Elements, OwnKeys
  <2>3. CASE i # n + 1
    <3>1. i \in 1 .. n
      BY <1>1, <2>3
    <3>. QED
      BY <1>1, <1>3, <2>1, <3>1 DEF Elements, OwnKeys
  <2>. QED
    BY <2>2, <2>3
<1>. QED
  BY <1>6, <1>7

\* STATUS passes when no key of the chain is at fault and nothing is revoked.
LEMMA StatusHolds ==
    StatusFault = "none" <=>
        /\ \A k \in Elements(ChainKeys) : KeyFault(k) = "none"
        /\ \A r \in Elements(Artifacts) :
              ~Revokes(r, {a.id : a \in Elements(chain)}, Elements(ChainKeys), input.now)
<1> DEFINE f == [i \in DOMAIN ChainKeys |-> KeyFault(ChainKeys[i])]
<1>1. StatusFault = FirstFault(<<FirstFault(f), RevocationFault>>)
  BY DEF StatusFault
<1>2. DOMAIN f \subseteq Nat
  BY DEF ChainKeys
<1>3. (\A i \in DOMAIN f : f[i] = "none") <=> (\A k \in Elements(ChainKeys) : KeyFault(k) = "none")
  BY DEF Elements
<1> HIDE DEF f
<1>4. (FirstFault(f) = "none") <=> (\A k \in Elements(ChainKeys) : KeyFault(k) = "none")
  BY <1>2, <1>3, NoFault, FirstFaultFinds
<1>5. StatusFault = "none" <=> FirstFault(f) = "none" /\ RevocationFault = "none"
  BY <1>1, PairFaults, NoFaultPair
<1>6. RevocationFault = "none" <=>
        \A r \in Elements(Artifacts) :
           ~Revokes(r, {a.id : a \in Elements(chain)}, Elements(ChainKeys), input.now)
  BY DEF RevocationFault
<1>. QED
  BY <1>4, <1>5, <1>6

LEMMA LiveAll ==
    ASSUME input \in Input, ParseFault = "none", OneRoot
    PROVE  /\ StatusFault = "none" => \A a \in Elements(chain) : Live(a)
           /\ Unambiguous /\ (\A a \in Elements(chain) : Live(a)) => StatusFault = "none"
<1> DEFINE ids == {a.id : a \in Elements(chain)}
           keys == Elements(ChainKeys)
<1>1. StatusFault = "none" <=> /\ \A k \in keys : KeyFault(k) = "none"
                               /\ \A r \in Elements(Artifacts) : ~Revokes(r, ids, keys, input.now)
  BY StatusHolds
<1>2. \A a : Live(a) <=> /\ \A k \in OwnKeys(a) : Usable(k)
                         /\ \A r \in Elements(Artifacts) : ~Revokes(r, {a.id}, OwnKeys(a), input.now)
  BY DEF Live, OwnKeys
<1>3. ASSUME StatusFault = "none", NEW a \in Elements(chain)
      PROVE  Live(a)
  <2>1. OwnKeys(a) \subseteq keys /\ a.id \in ids
    BY KeysOfChain
  <2>2. \A k \in OwnKeys(a) : Usable(k)
    BY <1>1, <1>3, <2>1, UsableKey
  <2>3. ASSUME NEW r \in Elements(Artifacts), Revokes(r, {a.id}, OwnKeys(a), input.now)
        PROVE  FALSE
    <3>1. Revokes(r, ids, keys, input.now)
      BY <2>1, <2>3 DEF Revokes
    <3>. QED
      BY <1>1, <1>3, <3>1
  <2>. QED
    BY <1>2, <2>2, <2>3
<1>4. ASSUME Unambiguous, \A a \in Elements(chain) : Live(a)
      PROVE  StatusFault = "none"
  <2>1. \A k \in keys : KeyFault(k) = "none"
    BY <1>2, <1>4, KeysOfChain, UsableKey
  <2>2. ASSUME NEW r \in Elements(Artifacts), Revokes(r, ids, keys, input.now)
        PROVE  FALSE
    <3>1. CASE r.type = "key"
      <4>1. r.target \in keys
        BY <2>2, <3>1 DEF Revokes
      <4>2. PICK a \in Elements(chain) : r.target \in OwnKeys(a)
        BY <4>1, KeysOfChain
      <4>3. Revokes(r, {a.id}, OwnKeys(a), input.now)
        BY <2>2, <3>1, <4>2 DEF Revokes
      <4>. QED
        BY <1>2, <1>4, <4>3
    <3>2. CASE r.type # "key"
      <4>1. PICK a \in Elements(chain) : r.target = a.id
        BY <2>2, <3>2 DEF Revokes
      <4>2. Revokes(r, {a.id}, OwnKeys(a), input.now)
        BY <2>2, <3>2, <4>1 DEF Revokes
      <4>. QED
        BY <1>2, <1>4, <4>2
    <3>. QED
      BY <3>1, <3>2
  <2>. QED
    BY <1>1, <2>1, <2>2
<1>. QED
  BY <1>3, <1>4

-----------------------------------------------------------------------------
(* What a call that goes on has checked, and what a VALID decision rests on *)

Followed ==
    \A i \in 1 .. (Len(chain) - 1) :
        chain[i].kind \in {"request", "delegation"} /\ Names(chain[i], chain[i + 1])

Checked ==
    /\ stage \notin {"parse", "crypto", "done"} =>
          CryptoFaults(Artifacts, input.snapshot) = "none" /\ RequestFault = "none"
    /\ stage \notin {"parse", "crypto", "time", "done"} =>
          TimeFaults(Artifacts, input.now, input.snapshot.skew) = "none"
    /\ stage \in {"chain", "attenuation", "status", "binding", "replay"} => Followed
    /\ stage \in {"attenuation", "status", "binding", "replay"} => ~TooLong
    /\ stage \in {"binding", "replay"} => StatusFault = "none"

\* The chain once its ceilings are compared: delegations between the request
\* and the root.
LEMMA ChainShape ==
    ASSUME IInv, Checked, stage \in {"status", "binding", "replay"}
    PROVE  /\ OneRoot /\ Len(chain) \in Nat /\ Len(chain) > 2
           /\ chain[Len(chain)] = Root /\ Root \in Roots(Artifacts)
           /\ RootFault(Root, input.snapshot) = "none"
           /\ chain[1] = Request /\ Request \in Elements(Artifacts) /\ Request.kind = "request"
           /\ \A i \in 2 .. (Len(chain) - 1) : chain[i].kind = "delegation"
<1> DEFINE n == Len(chain)
<1>1. /\ input \in Input /\ chain \in Seq(Elements(Artifacts)) /\ n \in Nat /\ n > 2
      /\ chain[n] = Root /\ Current = Root
      /\ TrustFault = "none" /\ OfKind(Artifacts, {"request"}) # {}
      /\ Linked /\ Nested /\ position = n /\ Followed
  BY DEF IInv, TypeOK, Complete, Current, Checked
<1>2. /\ Root \in Roots(Artifacts) /\ Root.kind = "credential"
      /\ RootFault(Root, input.snapshot) = "none"
  BY <1>1, RootFound DEF TrustFault
<1>3. chain[1] = Request /\ Request \in Elements(Artifacts) /\ Request.kind = "request"
  BY <1>1, RequestFound DEF Linked
<1>4. \A i \in 2 .. (n - 1) : chain[i].kind = "delegation"
  <2>1. \A i \in 2 .. (n - 1) : i \in 1 .. (n - 1) /\ i \in 2 .. n
    BY <1>1
  <2>. QED
    BY <1>1, <2>1 DEF Nested, Followed
<1>5. OneRoot
  <2>1. chain # << >>
    BY <1>1 DEF Linked
  <2>2. \A i \in 1 .. (n - 1) : chain[i].kind # "credential"
    BY <1>1 DEF Followed
  <2>. QED
    BY <1>1, <1>2, <2>1, <2>2 DEF OneRoot
<1>. QED
  BY <1>1, <1>2, <1>3, <1>4, <1>5

\* From the root downwards each artifact of the chain holds authority.
LEMMA ChainHolds ==
    ASSUME IInv, Checked, stage = "replay"
    PROVE  Len(chain) - 2 <= input.snapshot.maxDepth
           /\ \A m \in 0 .. (Len(chain) - 2) : chain[Len(chain) - m] \in BackedAt[m]
<1> DEFINE n == Len(chain)
           N == input.snapshot.maxDepth
<1>1. /\ input \in Input /\ ParseFault = "none" /\ ~TooLong /\ StatusFault = "none"
      /\ Linked /\ Nested /\ position = n /\ Followed
      /\ chain \in Seq(Elements(Artifacts))
  BY DEF IInv, Checked, TypeOK
<1>2. /\ n \in Nat /\ n > 2 /\ OneRoot /\ chain[n] = Root /\ Root \in Roots(Artifacts)
      /\ RootFault(Root, input.snapshot) = "none"
      /\ \A i \in 2 .. (n - 1) : chain[i].kind = "delegation"
  BY ChainShape
<1>3. N \in Nat /\ n - 2 <= N
  BY <1>1, <1>2, Formed DEF TooLong
<1>4. \A i \in 1 .. n : chain[i] \in Elements(chain) /\ chain[i] \in Elements(Artifacts)
  BY <1>1 DEF Elements
<1>5. \A i \in 1 .. n : Live(chain[i])
  BY <1>1, <1>2, <1>4, LiveAll
<1> DEFINE Bad == {m \in Nat : m <= n - 2 /\ chain[n - m] \notin BackedAt[m]}
<1>6. ASSUME Bad # {}
      PROVE  FALSE
  <2>1. PICK m \in Nat : m <= n - 2 /\ chain[n - m] \notin BackedAt[m] /\ \A j \in Bad : m <= j
    <3>1. Bad \subseteq Nat
      OBVIOUS
    <3> HIDE DEF Bad
    <3>2. PICK m \in Bad : \A j \in Bad : m <= j
      BY <1>6, <3>1, Least
    <3>. QED
      BY <3>2 DEF Bad
  <2>2. CASE m = 0
    <3>1. chain[n] \in TrustedRoots
      BY <1>2, <1>5 DEF TrustedRoots
    <3>2. BackedAt[0] = TrustedRoots
      <4>1. 0 \in 0 .. N /\ N \in Nat
        BY <1>3
      <4>. QED
        BY <4>1, BackedLevels
    <3>3. n - m = n
      BY <1>2, <2>2
    <3>. QED
      BY <2>1, <2>2, <3>1, <3>2, <3>3
  <2>3. CASE m # 0
    <3> DEFINE i == n - m
    <3>1. /\ m - 1 \in Nat /\ m - 1 <= n - 2 /\ ~(m <= m - 1) /\ n - (m - 1) = i + 1
          /\ i \in 2 .. (n - 1) /\ i \in 1 .. (n - 1) /\ i \in 1 .. n /\ i \in 2 .. n /\ i + 1 \in 2 .. n
          /\ i < i + 1
          /\ m \in 0 .. N
      BY <1>2, <1>3, <2>1, <2>3
    <3>2. m - 1 \notin Bad
      BY <2>1, <3>1
    <3>3. chain[i + 1] \in BackedAt[m - 1]
      BY <3>1, <3>2
    <3>4. /\ chain[i].kind = "delegation" /\ chain[i] \in Elements(Artifacts) /\ Live(chain[i])
          /\ Names(chain[i], chain[i + 1])
      BY <1>1, <1>2, <1>4, <1>5, <3>1 DEF Followed
    <3>5. GivenTo(chain[i + 1], chain[i].delegator)
      <4>1. GivenTo(chain[i + 1], StatedSigner(chain[i]))
        BY <1>1, <3>1 DEF Linked
      <4>. QED
        BY <3>4, <4>1 DEF StatedSigner
    <3>6. Attenuates(chain[i].ceiling, chain[i + 1].ceiling)
      BY <1>1, <3>1 DEF Nested
    <3>7. chain[i] \in HeldUnder(BackedAt[m - 1])
      BY <3>3, <3>4, <3>5, <3>6 DEF HeldUnder, OfKind
    <3>8. BackedAt[m] = BackedAt[m - 1] \cup HeldUnder(BackedAt[m - 1])
      BY <1>3, <2>3, <3>1, BackedLevels
    <3>. QED
      BY <2>1, <3>7, <3>8
  <2>. QED
    BY <2>2, <2>3
<1>. QED
  BY <1>2, <1>3, <1>6

\* REPLAY answers VALID only to a call whose artifacts give the request
\* authority.
LEMMA ValidAcceptable ==
    ASSUME IInv, Checked, stage = "replay", Verdict = "VALID"
    PROVE  Acceptable
<1> DEFINE n == Len(chain)
           N == input.snapshot.maxDepth
<1>1. /\ input \in Input /\ ParseFault = "none" /\ StatusFault = "none" /\ RequestFault = "none"
      /\ BindingFault = "none" /\ Linked /\ Followed
      /\ CryptoFaults(Artifacts, input.snapshot) = "none"
      /\ TimeFaults(Artifacts, input.now, input.snapshot.skew) = "none"
      /\ chain \in Seq(Elements(Artifacts))
  BY DEF IInv, Checked, TypeOK
<1>2. /\ n \in Nat /\ n > 2 /\ OneRoot
      /\ chain[1] = Request /\ Request \in Elements(Artifacts) /\ Request.kind = "request"
      /\ \A i \in 2 .. (n - 1) : chain[i].kind = "delegation"
  BY ChainShape
<1>3. 1 \in 1 .. (n - 1) /\ 2 \in 2 .. (n - 1) /\ 1 \in 1 .. n
      /\ n - 2 \in 0 .. (n - 2) /\ n - (n - 2) = 2 /\ 1 + 1 = 2 /\ n - 2 \in Nat
  BY <1>2
<1>4. \A a \in Elements(Artifacts) : Authentic(a)
  BY <1>1, SoundAll, AuthenticSound
<1>5. Request.linked
  BY <1>1 DEF RequestFault
<1>6. Live(Request)
  BY <1>1, <1>2, <1>3, LiveAll DEF Elements
<1>7. chain[2] \in Backed
  <2>1. N \in Nat
    BY <1>1, Formed
  <2>2. chain[2] \in BackedAt[n - 2] /\ n - 2 <= N
    BY <1>3, ChainHolds
  <2>3. BackedAt[n - 2] \subseteq BackedAt[N]
    BY <1>3, <2>1, <2>2, LevelsGrow
  <2>. QED
    BY <2>2, <2>3 DEF Backed
<1>8. chain[2].kind = "delegation" /\ Names(Request, chain[2])
  BY <1>1, <1>2, <1>3 DEF Followed
<1>9. GivenTo(chain[2], Request.signer)
  <2>1. GivenTo(chain[2], StatedSigner(Request))
    BY <1>1, <1>2, <1>3 DEF Linked
  <2>. QED
    BY <1>2, <2>1 DEF StatedSigner
<1>10. Asked(Request, chain[2].ceiling)
  BY <1>1 DEF BindingFault, Effective, Asked
<1>11. Request \in OfKind(Artifacts, {"request"})
  BY <1>2 DEF OfKind
<1>. QED
  BY <1>1, <1>4, <1>5, <1>6, <1>7, <1>8, <1>9, <1>10, <1>11 DEF Acceptable

-----------------------------------------------------------------------------
(* What holds of a call that should be VALID: the way up meets only artifacts *)
(* that hold authority, one level higher at each turn                        *)

Backing ==
    /\ \A i \in 2 .. Len(chain) :
          /\ i - 2 <= input.snapshot.maxDepth
          /\ chain[i] \in BackedAt[input.snapshot.maxDepth - (i - 2)]
          /\ chain[i].ceiling.depth <= Current.ceiling.depth
    /\ \A i \in 2 .. (Len(chain) - 1) : Attenuates(chain[i].ceiling, chain[i + 1].ceiling)
    /\ Len(chain) > 1 => Asked(Request, chain[2].ceiling)

\* The one request, the one root, and the one artifact of an id are what the
\* searches find.
LEMMA OnlyRequest ==
    ASSUME input \in Input, Unambiguous, NEW q \in OfKind(Artifacts, {"request"})
    PROVE  q = Request
<1>1. Request \in OfKind(Artifacts, {"request"})
  BY RequestFound DEF OfKind
<1>2. OfKind(Artifacts, {"request"}) \subseteq Elements(Artifacts)
  BY DEF OfKind
<1>3. Cardinality(OfKind(Artifacts, {"request"})) <= 1
  BY DEF Unambiguous
<1>. QED
  BY <1>1, <1>2, <1>3, AtMostOne

LEMMA OnlyRoot ==
    ASSUME input \in Input, Unambiguous, NEW r \in Roots(Artifacts)
    PROVE  r = Root
<1>1. Root \in Roots(Artifacts)
  BY RootFound
<1>2. Roots(Artifacts) \subseteq Elements(Artifacts)
  BY DEF Roots, OfKind
<1>3. Cardinality(Roots(Artifacts)) <= 1
  BY DEF Unambiguous
<1>. QED
  BY <1>1, <1>2, <1>3, AtMostOne

LEMMA OnlyParent ==
    ASSUME input \in Input, ParseFault = "none", NEW a, NEW p \in Elements(Artifacts), Names(a, p)
    PROVE  Named(a) # {} /\ Parent(a) = p
<1>1. p \in Named(a)
  BY DEF Named, Names
<1>2. ASSUME NEW q \in Named(a)
      PROVE  q = p
  <2>1. PICK i \in DOMAIN Artifacts : Artifacts[i] = q
    BY DEF Named, Elements
  <2>2. PICK j \in DOMAIN Artifacts : Artifacts[j] = p
    BY DEF Elements
  <2>3. Artifacts[i].id = Artifacts[j].id
    BY <1>1, <2>1, <2>2 DEF Named
  <2>4. i = j
    BY <2>3, Formed DEF Distinct
  <2>. QED
    BY <2>1, <2>2, <2>4
<1>3. Parent(a) \in Named(a)
  BY <1>1 DEF Parent
<1>. QED
  BY <1>1, <1>2, <1>3

LEMMA FollowBacked ==
    ASSUME IInv, Backing, Unambiguous, Acceptable,
           stage = "chain", Current.kind \in {"request", "delegation"}
    PROVE  /\ LinkFault(Current) = "none"
           /\ Len(chain) - 1 <= input.snapshot.maxDepth
           /\ Parent(Current) \in BackedAt[input.snapshot.maxDepth - (Len(chain) - 1)]
           /\ Len(chain) = 1 => Asked(Request, Parent(Current).ceiling)
           /\ Len(chain) > 1 => Current.kind = "delegation"
                                /\ Attenuates(Current.ceiling, Parent(Current).ceiling)
<1> DEFINE n == Len(chain)
           N == input.snapshot.maxDepth
<1>1. /\ input \in Input /\ ParseFault = "none" /\ Linked /\ chain \in Seq(Elements(Artifacts))
      /\ OfKind(Artifacts, {"request"}) # {}
  BY DEF IInv, TypeOK
<1>2. n \in Nat \ {0} /\ DOMAIN chain = 1 .. n
  BY <1>1 DEF Linked
<1>3. N \in Nat
  BY <1>1, Formed
<1>4. chain[1] = Request /\ Request \in Elements(Artifacts) /\ Request.kind = "request"
  BY <1>1, RequestFound DEF Linked
<1>5. n = 1 \/ n > 1
  BY <1>2, Counted
<1>6. CASE n = 1
  <2>1. Current = Request
    BY <1>4, <1>6 DEF Current
  <2>2. PICK q \in OfKind(Artifacts, {"request"}) :
          \E d \in Backed : d.kind = "delegation" /\ Names(q, d) /\ GivenTo(d, q.signer)
                            /\ Asked(q, d.ceiling)
    BY DEF Acceptable
  <2>3. q = Request
    BY <1>1, OnlyRequest
  <2>4. PICK d \in Backed : d.kind = "delegation" /\ Names(Request, d) /\ GivenTo(d, Request.signer)
                            /\ Asked(Request, d.ceiling)
    BY <2>2, <2>3
  <2>5. d \in BackedAt[N] /\ N \in 0 .. N /\ N - (n - 1) = N /\ n - 1 <= N
    BY <1>3, <1>6 DEF Backed
  <2>6. d \in Elements(Artifacts)
    BY <1>3, <2>5, HoldersAre
  <2>7. Named(Current) # {} /\ Parent(Current) = d
    BY <1>1, <2>1, <2>4, <2>6, OnlyParent
  <2>8. d \notin Elements(chain)
    <3>1. \A a \in Elements(chain) : a = Request
      BY <1>2, <1>4, <1>6 DEF Elements
    <3>. QED
      BY <1>4, <2>4, <3>1
  <2>9. LinkFault(Current) = "none"
    BY <1>4, <2>1, <2>4, <2>7, <2>8 DEF LinkFault, Names, StatedSigner
  <2> HIDE DEF n, N
  <2>. QED
    BY <1>6, <2>4, <2>5, <2>7, <2>9 DEF n, N
<1>7. CASE n > 1
  <2> DEFINE k == N - (n - 2)
  <2>1. Current = chain[n] /\ n \in 2 .. n /\ n \in 1 .. n
    BY <1>2, <1>7 DEF Current
  <2>2. n - 2 <= N /\ Current \in BackedAt[k]
    BY <2>1 DEF Backing
  <2>3. k \in 0 .. N /\ k - 1 = N - (n - 1)
    BY <1>2, <1>3, <1>7, <2>2
  <2>4. Current.kind = "delegation" /\ k > 0 /\ Current \in HeldUnder(BackedAt[k - 1])
    BY <1>3, <2>2, <2>3, HoldersAre
  <2>5. n - 1 <= N /\ k - 1 \in 0 .. N
    BY <1>2, <1>3, <2>3, <2>4
  <2> HIDE DEF k
  <2>6. PICK p \in BackedAt[k - 1] :
          Names(Current, p) /\ GivenTo(p, Current.delegator) /\ Attenuates(Current.ceiling, p.ceiling)
    BY <2>4 DEF HeldUnder
  <2>7. /\ p \in Elements(Artifacts) /\ p.kind \in {"credential", "delegation"}
    BY <1>3, <2>5, HoldersAre
  <2>8. Named(Current) # {} /\ Parent(Current) = p
    BY <1>1, <2>6, <2>7, OnlyParent
  <2>9. ASSUME NEW i \in 1 .. n, p = chain[i]
        PROVE  FALSE
    <3>1. CASE i = 1
      BY <1>4, <2>7, <2>9, <3>1
    <3>2. CASE i # 1
      <4>1. i \in 2 .. n
        BY <1>2, <3>2
      <4>2. p.ceiling.depth <= Current.ceiling.depth
        BY <2>9, <4>1 DEF Backing
      <4>3. Current.ceiling.depth < p.ceiling.depth
        BY <2>6 DEF Attenuates
      <4>4. Current \in Elements(Artifacts)
        BY <2>4 DEF HeldUnder, OfKind
      <4>5. Current.ceiling.depth \in Nat /\ p.ceiling.depth \in Nat
        BY <1>1, <2>4, <2>7, <4>4, Formed
      <4>. QED
        BY <4>2, <4>3, <4>5
    <3>. QED
      BY <3>1, <3>2
  <2>10. p \notin Elements(chain)
    BY <1>2, <2>9 DEF Elements
  <2>11. LinkFault(Current) = "none"
    BY <2>4, <2>6, <2>8, <2>10 DEF LinkFault, Names, StatedSigner
  <2>12. p \in BackedAt[N - (n - 1)]
    BY <2>3, <2>6
  <2> HIDE DEF n, N
  <2>13. n # 1
    BY <1>2, <1>7
  <2>. QED
    BY <2>4, <2>5, <2>6, <2>8, <2>11, <2>12, <2>13, Zenon DEF n, N
<1>. QED
  BY <1>5, <1>6, <1>7

-----------------------------------------------------------------------------
(* Both together, step by step *)

InChain == {"chain", "attenuation", "status", "binding", "replay"}

DInv ==
    /\ Checked
    /\ code = "VALID" => Acceptable
    /\ Unambiguous /\ Acceptable => /\ code \in {"none", "VALID"}
                                    /\ stage \in InChain => Backing

\* What depends on the call alone, or on it and the chain, stays as it is.
LEMMA SameReference ==
    ASSUME input' = input
    PROVE  /\ Artifacts' = Artifacts /\ RequestFault' = RequestFault
           /\ Unambiguous' <=> Unambiguous
           /\ Acceptable' <=> Acceptable
           /\ BackedAt' = BackedAt
           /\ \A q, c : Asked(q, c)' <=> Asked(q, c)
<1>1. Artifacts' = Artifacts
  BY DEF Artifacts
<1>2. RequestFault' = RequestFault
  BY <1>1 DEF RequestFault, Request
<1>3. Unambiguous' <=> Unambiguous
  BY <1>1 DEF Unambiguous
<1>4. BackedAt' = BackedAt
  BY <1>1 DEF BackedAt, TrustedRoots, HeldUnder, Live, Usable, OfflineInspection
<1>5. \A q, c : Asked(q, c)' <=> Asked(q, c)
  BY DEF Asked
<1>6. Acceptable' <=> Acceptable
  BY <1>1, <1>4 DEF Acceptable, ParseFault, Authentic, Holders, Live, Usable, OfflineInspection, Backed, Asked, Verdict
<1>. QED
  BY <1>1, <1>2, <1>3, <1>4, <1>5, <1>6

LEMMA SameChain ==
    ASSUME input' = input, chain' = chain
    PROVE  /\ Followed' <=> Followed
           /\ TooLong' <=> TooLong
           /\ StatusFault' = StatusFault
           /\ Backing' <=> Backing
<1>1. Artifacts' = Artifacts /\ BackedAt' = BackedAt /\ Request' = Request
  BY SameReference, SameCall
<1>2. Followed' <=> Followed
  BY DEF Followed
<1>3. TooLong' <=> TooLong
  BY DEF TooLong
<1>4. StatusFault' = StatusFault
  BY <1>1 DEF StatusFault, RevocationFault, ChainKeys, KeyFault, Current, OfflineInspection
<1>5. Backing' <=> Backing
  BY <1>1 DEF Backing, Current, Asked
<1>. QED
  BY <1>2, <1>3, <1>4, <1>5

LEMMA StopDecides ==
    ASSUME DInv, NEW c, c = "VALID" => Acceptable,
           Unambiguous /\ Acceptable => c = "VALID", Stop(c)
    PROVE  DInv'
<1>1. input' = input /\ stage' = "done" /\ code' = c
  BY DEF Stop
<1>. QED
  BY <1>1, SameReference DEF DInv, Checked, InChain

LEMMA FaultDecides ==
    ASSUME DInv, NEW c \in Outcomes, c # "none", Stop(c), ~(Unambiguous /\ Acceptable)
    PROVE  DInv'
<1>1. c # "VALID"
  BY DEF Outcomes, Faults
<1>. QED
  BY <1>1, StopDecides

\* A step that leaves the chain alone and decides nothing.
LEMMA GoOnDecides ==
    ASSUME IInv, DInv, stage # "done", UNCHANGED <<input, chain, code>>, Checked',
           stage' \in InChain => stage \in InChain
    PROVE  DInv'
<1>1. code' = "none"
  BY Undecided
<1>2. (Unambiguous' <=> Unambiguous) /\ (Acceptable' <=> Acceptable) /\ (Backing' <=> Backing)
  BY SameReference, SameChain
<1>. QED
  BY <1>1, <1>2 DEF DInv

LEMMA ParseDecides == ASSUME IInv, DInv, Parse PROVE DInv'
<1>1. stage = "parse" /\ Conclude(ParseFault, "crypto") /\ input \in Input
  BY DEF Parse, IInv
<1>2. CASE ParseFault # "none"
  BY <1>1, <1>2, EarlyFaults, FaultDecides DEF Conclude, Acceptable
<1>3. CASE ParseFault = "none"
  <2>1. stage' = "crypto" /\ UNCHANGED <<input, chain, position, code>>
    BY <1>1, <1>3 DEF Conclude
  <2>2. Checked'
    BY <2>1 DEF Checked
  <2>. QED
    BY <1>1, <2>1, <2>2, GoOnDecides DEF InChain
<1>. QED
  BY <1>2, <1>3

LEMMA CryptoDecides == ASSUME IInv, DInv, Crypto PROVE DInv'
<1> DEFINE cf == CryptoFaults(Artifacts, input.snapshot)
           fault == FirstFault(<<cf, RequestFault>>)
<1>1. stage = "crypto" /\ Conclude(fault, "time") /\ input \in Input
  BY DEF Crypto, IInv
<1>2. fault \in Outcomes /\ (fault = "none" => cf = "none" /\ RequestFault = "none")
  BY <1>1, EarlyFaults, PairFaults
<1>3. Unambiguous /\ Acceptable => fault = "none"
  <2> SUFFICES ASSUME Unambiguous, Acceptable PROVE fault = "none"
    OBVIOUS
  <2>1. cf = "none"
    <3>1. \A a \in Elements(Artifacts) : Sound(a)
      BY <1>1, AuthenticSound DEF Acceptable
    <3>. QED
      BY <1>1, <3>1, SoundAll
  <2>2. PICK q \in OfKind(Artifacts, {"request"}) : q.linked
    BY DEF Acceptable
  <2>3. q = Request
    BY <1>1, OnlyRequest
  <2>4. RequestFault = "none"
    BY <2>2, <2>3 DEF RequestFault
  <2>. QED
    BY <2>1, <2>4, NoFaultPair
<1> HIDE DEF fault
<1>4. CASE fault # "none"
  BY <1>1, <1>2, <1>3, <1>4, FaultDecides DEF Conclude
<1>5. CASE fault = "none"
  <2>1. stage' = "time" /\ UNCHANGED <<input, chain, position, code>>
    BY <1>1, <1>5 DEF Conclude
  <2>2. Checked'
    BY <1>2, <1>5, <2>1, SameReference DEF Checked
  <2>. QED
    BY <1>1, <2>1, <2>2, GoOnDecides DEF InChain
<1>. QED
  BY <1>4, <1>5

LEMMA TimeDecides == ASSUME IInv, DInv, Time PROVE DInv'
<1> DEFINE fault == TimeFaults(Artifacts, input.now, input.snapshot.skew)
<1>1. stage = "time" /\ Conclude(fault, "trust") /\ input \in Input
  BY DEF Time, IInv
<1>2. fault \in Outcomes
  BY <1>1, EarlyFaults
<1>3. Acceptable => fault = "none"
  <2>1. DOMAIN Artifacts \subseteq Nat
    BY <1>1, ArtifactsType
  <2>2. fault = "none" <=> \A a \in Elements(Artifacts) : TimeFault(a, input.now, input.snapshot.skew) = "none"
    BY <2>1, ListFaults
  <2>. QED
    BY <2>2 DEF Acceptable, Authentic
<1>4. CASE fault # "none"
  <2> HIDE DEF fault
  <2>. QED
    BY <1>1, <1>2, <1>3, <1>4, FaultDecides DEF Conclude
<1>5. CASE fault = "none"
  <2>1. stage' = "trust" /\ UNCHANGED <<input, chain, position, code>>
    BY <1>1, <1>5 DEF Conclude
  <2>2. Checked'
    BY <1>1, <1>5, <2>1, SameReference DEF DInv, Checked
  <2>. QED
    BY <1>1, <2>1, <2>2, GoOnDecides DEF InChain
<1>. QED
  BY <1>4, <1>5

LEMMA TrustDecides == ASSUME IInv, DInv, Trust PROVE DInv'
<1>1. stage = "trust" /\ input \in Input /\ ParseFault = "none" /\ code = "none"
  BY Undecided DEF Trust, IInv
<1>2. Unambiguous /\ Acceptable => TrustFault = "none"
  <2> SUFFICES ASSUME Unambiguous, Acceptable PROVE TrustFault = "none"
    OBVIOUS
  <2>1. PICK d \in Backed : TRUE
    BY DEF Acceptable
  <2>2. input.snapshot.maxDepth \in Nat
    BY <1>1, Formed
  <2>3. TrustedRoots # {}
    BY <2>1, <2>2, HoldersAre DEF Backed
  <2>4. PICK r \in Roots(Artifacts) : RootFault(r, input.snapshot) = "none"
    BY <2>3 DEF TrustedRoots
  <2>5. r = Root
    BY <1>1, OnlyRoot
  <2>. QED
    BY <2>4, <2>5 DEF TrustFault
<1>3. CASE TrustFault # "none" /\ Stop(TrustFault)
  BY <1>1, <1>2, <1>3, EarlyFaults, FaultDecides
<1>4. CASE TrustFault = "none" /\ ~(TrustFault # "none" /\ Stop(TrustFault))
  <2>1. stage' = "chain" /\ chain' = <<Request>> /\ UNCHANGED <<input, position, code>>
    BY <1>4 DEF Trust
  <2>2. Len(chain') = 1
    BY <2>1
  <2>3. Followed' /\ Backing'
    BY <2>2 DEF Followed, Backing
  <2>4. Checked'
    BY <1>1, <2>1, <2>3, SameReference DEF DInv, Checked
  <2>. QED
    BY <1>1, <2>1, <2>3, <2>4, SameReference DEF DInv
<1>. QED
  BY <1>3, <1>4 DEF Trust

LEMMA FollowDecides == ASSUME IInv, DInv, Follow PROVE DInv'
<1>1. /\ stage = "chain" /\ Current.kind \in {"request", "delegation"}
      /\ code = "none" /\ input \in Input /\ ParseFault = "none"
      /\ chain \in Seq(Elements(Artifacts)) /\ chain # << >>
  BY Undecided DEF Follow, IInv, Linked
<1>2. Unambiguous /\ Acceptable => Backing
  BY <1>1 DEF DInv, InChain
<1>3. CASE LinkFault(Current) # "none" /\ Stop(LinkFault(Current))
  <2>1. ~(Unambiguous /\ Acceptable)
    BY <1>1, <1>2, <1>3, FollowBacked
  <2>. QED
    BY <1>1, <1>3, <2>1, LateFaults, FaultDecides
<1>4. CASE LinkFault(Current) = "none" /\ ~(LinkFault(Current) # "none" /\ Stop(LinkFault(Current)))
  <2> DEFINE n == Len(chain)
             parent == Parent(Current)
             N == input.snapshot.maxDepth
  <2>1. chain' = Append(chain, parent) /\ UNCHANGED <<input, stage, position, code>>
    BY <1>4 DEF Follow
  <2>2. Named(Current) # {} /\ parent.kind = Current.parent.kind
    BY <1>4 DEF LinkFault
  <2>3. parent \in Elements(Artifacts) /\ Names(Current, parent)
    BY <2>2 DEF Parent, Named, Names
  <2> HIDE DEF parent
  <2>4. /\ n \in Nat \ {0} /\ Len(chain') = n + 1 /\ chain'[n + 1] = parent
        /\ \A i \in 1 .. n : chain'[i] = chain[i]
    BY <1>1, <2>1, <2>3
  <2>5. Current = chain[n] /\ Current' = parent
    BY <2>4 DEF Current
  <2> HIDE DEF n
  <2>6. Followed'
    <3>1. Followed
      BY <1>1 DEF DInv, Checked
    <3>2. ASSUME NEW i \in 1 .. n
          PROVE  chain'[i].kind \in {"request", "delegation"} /\ Names(chain'[i], chain'[i + 1])
      <4>1. CASE i = n
        BY <1>1, <2>3, <2>4, <2>5, <4>1
      <4>2. CASE i # n
        <5>1. i \in 1 .. (n - 1) /\ i + 1 \in 1 .. n
          BY <2>4, <4>2
        <5>. QED
          BY <2>4, <3>1, <5>1 DEF Followed, n
      <4>. QED
        BY <4>1, <4>2
    <3>3. Len(chain') - 1 = n
      BY <2>4
    <3>. QED
      BY <3>2, <3>3 DEF Followed
  <2>7. Checked'
    BY <1>1, <2>1, <2>6, SameReference DEF DInv, Checked
  <2>8. ASSUME Unambiguous, Acceptable
        PROVE  Backing'
    <3>1. Backing
      BY <1>2, <2>8
    <3>2. /\ n - 1 <= N /\ parent \in BackedAt[N - (n - 1)]
          /\ n = 1 => Asked(Request, parent.ceiling)
          /\ n > 1 => Current.kind = "delegation" /\ Attenuates(Current.ceiling, parent.ceiling)
      BY <1>1, <2>8, <3>1, FollowBacked DEF n, parent
    <3>3. BackedAt' = BackedAt /\ Request' = Request /\ input' = input
      BY <2>1, SameReference, SameCall
    <3>4. (n + 1) - 2 = n - 1 /\ N \in Nat /\ (n = 1 \/ n > 1)
      <4>1. N \in Nat
        BY <1>1, Formed
      <4> HIDE DEF N
      <4>. QED
        BY <2>4, <4>1, Counted
    <3>5. \A i \in 2 .. n : /\ i - 2 <= N /\ chain[i] \in BackedAt[N - (i - 2)]
                            /\ chain[i].ceiling.depth <= Current.ceiling.depth
      BY <3>1 DEF Backing, n
    <3>6. \A i \in 2 .. n : chain[i].ceiling.depth \in Nat
      <4>1. ASSUME NEW i \in 2 .. n
            PROVE  chain[i].ceiling.depth \in Nat
        <5>1. i - 2 <= N /\ chain[i] \in BackedAt[N - (i - 2)]
          BY <3>5
        <5>2. N - (i - 2) \in 0 .. N
          BY <2>4, <3>4, <5>1
        <5>. QED
          BY <1>1, <3>4, <5>1, <5>2, HoldersAre, Formed
      <4>. QED
        BY <4>1
    <3>7. parent.ceiling.depth \in Nat
      <4>1. N - (n - 1) \in 0 .. N
        BY <2>4, <3>2, <3>4
      <4>. QED
        BY <1>1, <3>2, <3>4, <4>1, HoldersAre, Formed
    <3>8. ASSUME NEW i \in 2 .. (n + 1)
          PROVE  /\ i - 2 <= N /\ chain'[i] \in BackedAt[N - (i - 2)]
                 /\ chain'[i].ceiling.depth <= parent.ceiling.depth
      <4>1. CASE i = n + 1
        BY <2>4, <3>2, <3>4, <3>7, <4>1
      <4>2. CASE i # n + 1
        <5>1. i \in 2 .. n /\ i \in 1 .. n /\ n \in 2 .. n /\ n > 1
          BY <2>4, <4>2
        <5>2. chain[i].ceiling.depth <= chain[n].ceiling.depth
          BY <2>5, <3>5, <5>1
        <5>3. chain[n].ceiling.depth < parent.ceiling.depth
          BY <2>5, <3>2, <5>1 DEF Attenuates
        <5>4. chain[i].ceiling.depth \in Nat /\ chain[n].ceiling.depth \in Nat
          BY <3>6, <5>1
        <5>5. chain[i].ceiling.depth <= parent.ceiling.depth
          BY <3>7, <5>2, <5>3, <5>4
        <5>. QED
          BY <2>4, <3>5, <5>1, <5>5
      <4>. QED
        BY <4>1, <4>2
    <3>9. ASSUME NEW i \in 2 .. n
          PROVE  Attenuates(chain'[i].ceiling, chain'[i + 1].ceiling)
      <4>1. CASE i = n
        BY <2>4, <2>5, <3>2, <4>1
      <4>2. CASE i # n
        <5>1. i \in 2 .. (n - 1) /\ i \in 1 .. n /\ i + 1 \in 1 .. n
          BY <2>4, <4>2
        <5>2. Attenuates(chain[i].ceiling, chain[i + 1].ceiling)
          BY <3>1, <5>1 DEF Backing, n
        <5>. QED
          BY <2>4, <5>1, <5>2
      <4>. QED
        BY <4>1, <4>2
    <3>10. Asked(Request, chain'[2].ceiling)
      <4>1. CASE n = 1
        BY <2>4, <3>2, <4>1
      <4>2. CASE n > 1
        <5>1. 2 \in 1 .. n
          BY <2>4, <4>2
        <5>. QED
          BY <2>4, <3>1, <4>2, <5>1 DEF Backing, n
      <4>. QED
        BY <3>4, <4>1, <4>2
    <3>11. Len(chain') = n + 1 /\ Len(chain') - 1 = n
      BY <2>4
    <3>12. (Len(chain) > 1 => Asked(Request, chain[2].ceiling))'
      BY <3>3, <3>10 DEF Asked
    <3>. QED
      BY <2>5, <3>3, <3>8, <3>9, <3>11, <3>12 DEF Backing
  <2>. QED
    BY <1>1, <2>1, <2>7, <2>8, SameReference DEF DInv
<1>. QED
  BY <1>3, <1>4 DEF Follow

LEMMA EndChainDecides == ASSUME IInv, DInv, EndChain PROVE DInv'
<1> DEFINE n == Len(chain)
           N == input.snapshot.maxDepth
<1>1. /\ stage = "chain" /\ Current.kind \notin {"request", "delegation"}
      /\ input \in Input /\ ParseFault = "none" /\ code = "none" /\ Linked
      /\ OfKind(Artifacts, {"request"}) # {} /\ chain \in Seq(Elements(Artifacts))
  BY Undecided DEF EndChain, IInv
<1>2. Unambiguous /\ Acceptable => Current = Root /\ ~TooLong
  <2> SUFFICES ASSUME Unambiguous, Acceptable PROVE Current = Root /\ ~TooLong
    OBVIOUS
  <2>1. Backing
    BY <1>1 DEF DInv, InChain
  <2>2. n \in Nat \ {0}
    BY <1>1 DEF Linked
  <2>3. n # 1
    BY <1>1, RequestFound DEF Linked, Current
  <2>4. N \in Nat
    BY <1>1, Formed
  <2>5. Current = chain[n]
    BY DEF Current
  <2> HIDE DEF n
  <2>6. n \in 2 .. n
    BY <2>2, <2>3
  <2>7. n - 2 <= N /\ Current \in BackedAt[N - (n - 2)]
    BY <2>1, <2>5, <2>6 DEF Backing, n
  <2>8. N - (n - 2) \in 0 .. N
    BY <2>4, <2>6, <2>7
  <2>9. Current \in TrustedRoots
    BY <1>1, <2>4, <2>7, <2>8, HoldersAre
  <2>10. Current = Root
    BY <1>1, <2>9, OnlyRoot DEF TrustedRoots
  <2>11. ~(n - 2 > N)
    BY <2>2, <2>4, <2>7
  <2>. QED
    BY <2>10, <2>11 DEF TooLong, n
<1>3. CASE Stop("CHAIN_BOUNDS_EXCEEDED")
  <2>1. CASE Current # Root \/ TooLong
    BY <1>2, <1>3, <2>1, FaultDecides DEF Outcomes, Faults, Codes
  <2>2. CASE ~(Current # Root \/ TooLong)
    BY <1>1, <1>3, <2>2 DEF EndChain, Stop
  <2>. QED
    BY <2>1, <2>2
<1>4. CASE ~Stop("CHAIN_BOUNDS_EXCEEDED")
  <2>1. ~TooLong /\ stage' = "attenuation" /\ UNCHANGED <<input, chain, code>>
    BY <1>4 DEF EndChain
  <2>2. Checked'
    BY <1>1, <2>1, SameReference, SameChain DEF DInv, Checked
  <2>. QED
    BY <1>1, <2>1, <2>2, GoOnDecides DEF InChain
<1>. QED
  BY <1>3, <1>4

LEMMA AttenuateDecides == ASSUME IInv, DInv, Attenuate PROVE DInv'
<1> DEFINE n == Len(chain)
           N == input.snapshot.maxDepth
           p == position
<1>1. /\ stage = "attenuation" /\ position < Len(chain)
      /\ input \in Input /\ ParseFault = "none" /\ Nested /\ chain \in Seq(Elements(Artifacts))
  BY Undecided DEF Attenuate, IInv
<1>2. Unambiguous /\ Acceptable => Narrows(chain[position], chain[position + 1])
  <2> SUFFICES ASSUME Unambiguous, Acceptable PROVE Narrows(chain[position], chain[position + 1])
    OBVIOUS
  <2>1. Backing
    BY <1>1 DEF DInv, InChain
  <2>2. N \in Nat /\ n \in Nat
    BY <1>1, Formed
  <2>3. p \in 2 .. n /\ p < n
    BY <1>1 DEF Nested
  <2>4. \A i \in 2 .. n : i - 2 <= N /\ chain[i] \in BackedAt[N - (i - 2)]
    BY <2>1 DEF Backing
  <2>5. \A i \in 2 .. (n - 1) : Attenuates(chain[i].ceiling, chain[i + 1].ceiling)
    BY <2>1 DEF Backing
  <2> HIDE DEF n, N, p
  <2>6. p \in 2 .. (n - 1) /\ p + 1 \in 2 .. n
    BY <2>2, <2>3
  <2>7. ASSUME NEW i \in 2 .. n
        PROVE  chain[i].kind \in {"credential", "delegation"}
    <3>1. i - 2 <= N /\ chain[i] \in BackedAt[N - (i - 2)]
      BY <2>4
    <3>2. N - (i - 2) \in 0 .. N
      BY <2>2, <3>1
    <3>. QED
      BY <2>2, <3>1, <3>2, HoldersAre DEF N
  <2>8. {chain[p].kind, chain[p + 1].kind} \subseteq {"credential", "delegation"}
    BY <2>3, <2>6, <2>7
  <2>9. Attenuates(chain[p].ceiling, chain[p + 1].ceiling)
    BY <2>5, <2>6
  <2>. QED
    BY <2>8, <2>9 DEF Narrows, p
<1>3. CASE ~Narrows(chain[position], chain[position + 1])
  <2>1. Stop("ATTENUATION_VIOLATION")
    BY <1>3 DEF Attenuate
  <2>. QED
    BY <1>2, <1>3, <2>1, FaultDecides DEF Outcomes, Faults, Codes
<1>4. CASE Narrows(chain[position], chain[position + 1])
  <2>1. UNCHANGED <<input, stage, chain, code>>
    BY <1>4 DEF Attenuate
  <2>2. Checked'
    BY <1>1, <2>1, SameReference, SameChain DEF DInv, Checked
  <2>. QED
    BY <1>1, <2>1, <2>2, GoOnDecides
<1>. QED
  BY <1>3, <1>4

LEMMA EndAttenuationDecides == ASSUME IInv, DInv, EndAttenuation PROVE DInv'
<1>1. stage = "attenuation" /\ stage' = "status" /\ UNCHANGED <<input, chain, code>>
  BY DEF EndAttenuation, Conclude
<1>2. Checked'
  BY <1>1, SameReference, SameChain DEF DInv, Checked
<1>. QED
  BY <1>1, <1>2, GoOnDecides DEF InChain

LEMMA StatusDecides == ASSUME IInv, DInv, Status PROVE DInv'
<1> DEFINE n == Len(chain)
           N == input.snapshot.maxDepth
<1>1. /\ stage = "status" /\ Conclude(StatusFault, "binding")
      /\ input \in Input /\ ParseFault = "none" /\ chain \in Seq(Elements(Artifacts))
  BY Undecided DEF Status, IInv
<1>2. StatusFault \in Outcomes
  BY <1>1, LateFaults
<1>3. OneRoot /\ n \in Nat /\ n > 2 /\ chain[1] = Request
  BY <1>1, ChainShape DEF DInv
<1>4. Unambiguous /\ Acceptable => StatusFault = "none"
  <2> SUFFICES ASSUME Unambiguous, Acceptable PROVE StatusFault = "none"
    OBVIOUS
  <2>1. Backing
    BY <1>1 DEF DInv, InChain
  <2>2. PICK q \in OfKind(Artifacts, {"request"}) : Live(q)
    BY DEF Acceptable
  <2>3. Live(chain[1])
    BY <1>1, <1>3, <2>2, OnlyRequest
  <2>4. N \in Nat
    BY <1>1, Formed
  <2>5. ASSUME NEW i \in 1 .. n
        PROVE  Live(chain[i])
    <3>1. CASE i = 1
      BY <2>3, <3>1
    <3>2. CASE i # 1
      <4>1. i \in 2 .. n
        BY <1>3, <3>2
      <4>2. i - 2 <= N /\ chain[i] \in BackedAt[N - (i - 2)]
        BY <2>1, <4>1 DEF Backing
      <4>3. N - (i - 2) \in 0 .. N
        BY <1>3, <2>4, <4>1, <4>2
      <4>. QED
        BY <2>4, <4>2, <4>3, HoldersAre
    <3>. QED
      BY <3>1, <3>2
  <2>6. \A a \in Elements(chain) : Live(a)
    BY <1>1, <2>5 DEF Elements
  <2>. QED
    BY <1>1, <1>3, <2>6, LiveAll
<1>5. CASE StatusFault # "none"
  BY <1>1, <1>2, <1>4, <1>5, FaultDecides DEF Conclude
<1>6. CASE StatusFault = "none"
  <2>1. stage' = "binding" /\ UNCHANGED <<input, chain, position, code>>
    BY <1>1, <1>6 DEF Conclude
  <2>2. Checked'
    BY <1>1, <1>6, <2>1, SameReference, SameChain DEF DInv, Checked
  <2>. QED
    BY <1>1, <2>1, <2>2, GoOnDecides DEF InChain
<1>. QED
  BY <1>5, <1>6

LEMMA BindingDecides == ASSUME IInv, DInv, Binding PROVE DInv'
<1>1. /\ stage = "binding" /\ Conclude(BindingFault, "replay")
      /\ input \in Input /\ chain \in Seq(Elements(Artifacts))
  BY Undecided DEF Binding, IInv
<1>2. BindingFault \in Outcomes
  BY <1>1, LateFaults
<1>3. Unambiguous /\ Acceptable => BindingFault = "none"
  <2> SUFFICES ASSUME Unambiguous, Acceptable PROVE BindingFault = "none"
    OBVIOUS
  <2>1. Backing
    BY <1>1 DEF DInv, InChain
  <2>2. Len(chain) \in Nat /\ Len(chain) > 2
    BY <1>1, ChainShape DEF DInv
  <2>3. Asked(Request, chain[2].ceiling)
    <3>1. Len(chain) > 1
      BY <2>2
    <3>. QED
      BY <2>1, <3>1 DEF Backing
  <2>. QED
    BY <2>3 DEF Asked, BindingFault, Effective
<1>4. CASE BindingFault # "none"
  BY <1>1, <1>2, <1>3, <1>4, FaultDecides DEF Conclude
<1>5. CASE BindingFault = "none"
  <2>1. stage' = "replay" /\ UNCHANGED <<input, chain, position, code>>
    BY <1>1, <1>5 DEF Conclude
  <2>2. Checked'
    BY <1>1, <2>1, SameReference, SameChain DEF DInv, Checked
  <2>. QED
    BY <1>1, <2>1, <2>2, GoOnDecides DEF InChain
<1>. QED
  BY <1>4, <1>5

LEMMA ReplayDecides == ASSUME IInv, DInv, Replay PROVE DInv'
<1>1. stage = "replay" /\ Stop(Verdict) /\ Checked
  BY DEF Replay, DInv
<1>2. Verdict = "VALID" => Acceptable
  BY <1>1, ValidAcceptable
<1>3. Acceptable => Verdict = "VALID"
  BY DEF Acceptable
<1>. QED
  BY <1>1, <1>2, <1>3, StopDecides

LEMMA StepDecides == ASSUME IInv, DInv, [Next]_vars PROVE DInv'
<1>1. CASE UNCHANGED vars
  <2>1. UNCHANGED <<input, stage, chain, code>>
    BY <1>1 DEF vars
  <2>2. Checked'
    BY <2>1, SameReference, SameChain DEF DInv, Checked
  <2>. QED
    BY <2>1, <2>2, SameReference, SameChain DEF DInv
<1>. QED
  BY <1>1, ParseDecides, CryptoDecides, TimeDecides, TrustDecides, FollowDecides, EndChainDecides,
     AttenuateDecides, EndAttenuationDecides, StatusDecides, BindingDecides, ReplayDecides DEF Next

LEMMA InitDecides == Init => DInv
BY DEF Init, DInv, Checked, InChain

LEMMA DInvariance == Spec => []DInv
<1>. QED
  BY Invariance, InitDecides, StepDecides, PTL DEF Spec

\* verifyArtifacts decides VALID only when each artifact is authentic and among
\* them is authority for the request, whatever the artifacts are, however many,
\* in whatever order, and however long the chain is; and always then, unless two
\* of them compete for one part (root credentials, requests, holders of a key,
\* publishers with one number on one key).  None of these conditions mentions a
\* place of the list.
THEOREM ContentDecides == Spec => []DecidesByContent
<1>1. DInv => DecidesByContent
  BY DEF DInv, DecidesByContent
<1>. QED
  BY <1>1, DInvariance, PTL

-----------------------------------------------------------------------------
(* How the callers of verifyDelegationChain split the list *)

\* A recursive function from a value, by a step for each number, has a solution.
LEMMA Recursion ==
    ASSUME NEW n \in Nat, NEW D, NEW d \in D, NEW g \in [(1 .. n) \X D -> D]
    PROVE  \E f \in [0 .. n -> D] : \A i \in 0 .. n : f[i] = IF i = 0 THEN d ELSE g[<<i, f[i - 1]>>]
<1> DEFINE Solves(f, m) == \A i \in 0 .. m : f[i] = IF i = 0 THEN d ELSE g[<<i, f[i - 1]>>]
           Bad == {m \in Nat : m <= n /\ ~ \E f \in [0 .. m -> D] : Solves(f, m)}
<1>1. ASSUME Bad # {}
      PROVE  FALSE
  <2>1. PICK m \in Nat : m <= n /\ ~ (\E f \in [0 .. m -> D] : Solves(f, m)) /\ \A j \in Bad : m <= j
    <3> HIDE DEF Solves
    <3>1. Bad \subseteq Nat
      OBVIOUS
    <3> HIDE DEF Bad
    <3>2. PICK m \in Bad : \A j \in Bad : m <= j
      BY <1>1, <3>1, Least
    <3> USE DEF Bad
    <3>. QED
      BY <3>2
  <2>2. CASE m = 0
    <3> DEFINE f == [i \in 0 .. 0 |-> d]
    <3>1. f \in [0 .. 0 -> D] /\ Solves(f, 0)
      OBVIOUS
    <3>. QED
      BY <2>1, <2>2, <3>1
  <2>3. CASE m # 0
    <3>1. m - 1 \in Nat /\ m - 1 <= n /\ ~(m <= m - 1) /\ m \in 1 .. n /\ m - 1 \in 0 .. (m - 1)
          /\ \A i \in 0 .. m : i # m => i \in 0 .. (m - 1) /\ (i # 0 => i - 1 \in 0 .. (m - 1))
      BY <2>1, <2>3
    <3>2. m - 1 \notin Bad
      BY <2>1, <3>1
    <3>3. PICK f \in [0 .. (m - 1) -> D] : Solves(f, m - 1)
      <4> HIDE DEF Solves
      <4>. QED
        BY <3>1, <3>2
    <3> DEFINE last == g[<<m, f[m - 1]>>]
               h == [i \in 0 .. m |-> IF i = m THEN last ELSE f[i]]
    <3>4. f[m - 1] \in D /\ last \in D
      BY <3>1, <3>3
    <3>5. h \in [0 .. m -> D]
      <4> HIDE DEF last
      <4>. QED
        BY <3>1, <3>3, <3>4
    <3>6. h[m] = last /\ \A i \in 0 .. (m - 1) : h[i] = f[i]
      <4> HIDE DEF last
      <4>. QED
        BY <2>1, <3>1
    <3> HIDE DEF h
    <3>7. ASSUME NEW i \in 0 .. m
          PROVE  h[i] = IF i = 0 THEN d ELSE g[<<i, h[i - 1]>>]
      <4>1. CASE i = m
        <5>1. h[m - 1] = f[m - 1]
          BY <3>1, <3>6
        <5>. QED
          BY <2>3, <3>6, <4>1, <5>1
      <4>2. CASE i # m
        <5>1. i \in 0 .. (m - 1) /\ (i # 0 => i - 1 \in 0 .. (m - 1))
          BY <3>1, <4>2
        <5>2. h[i] = f[i] /\ (i # 0 => h[i - 1] = f[i - 1])
          BY <3>6, <5>1
        <5>. QED
          BY <3>3, <5>1, <5>2
      <4>. QED
        BY <4>1, <4>2
    <3>8. Solves(h, m)
      BY <3>7
    <3>. QED
      BY <2>1, <3>5, <3>8
  <2>. QED
    BY <2>2, <2>3
<1>. QED
  <2> HIDE DEF Solves
  <2>1. n \notin Bad
    BY <1>1
  <2>2. \E f \in [0 .. n -> D] : Solves(f, n)
    BY <2>1
  <2>. QED
    BY <2>2 DEF Solves

Keeps(S, f) ==
    f = [i \in 0 .. Len(Artifacts) |->
            IF i = 0 THEN << >>
            ELSE IF Artifacts[i] \in S THEN Append(f[i - 1], Artifacts[i])
            ELSE f[i - 1]]

LEMMA FilterSteps ==
    ASSUME input \in Input, NEW S
    PROVE  \E f : Keeps(S, f) /\ Filter(S) = f[Len(Artifacts)]
<1> DEFINE n == Len(Artifacts)
           D == Seq(Elements(Artifacts))
           g == [p \in (1 .. n) \X D |->
                    IF Artifacts[p[1]] \in S THEN Append(p[2], Artifacts[p[1]]) ELSE p[2]]
<1>1. n \in Nat /\ DOMAIN Artifacts = 1 .. n /\ << >> \in D
  BY ArtifactsType
<1>2. \A i \in 1 .. n : Artifacts[i] \in Elements(Artifacts)
  BY <1>1 DEF Elements
<1> HIDE DEF n
<1>3. ASSUME NEW p \in (1 .. n) \X D
      PROVE  (IF Artifacts[p[1]] \in S THEN Append(p[2], Artifacts[p[1]]) ELSE p[2]) \in D
  <2>1. Artifacts[p[1]] \in Elements(Artifacts) /\ p[2] \in D
    BY <1>2
  <2>2. Append(p[2], Artifacts[p[1]]) \in D
    BY <2>1
  <2>. QED
    BY <2>1, <2>2
<1>4. g \in [(1 .. n) \X D -> D]
  <2> HIDE DEF D
  <2>. QED
    BY <1>3
<1> HIDE DEF D
<1>5. PICK f \in [0 .. n -> D] : \A i \in 0 .. n : f[i] = IF i = 0 THEN << >> ELSE g[<<i, f[i - 1]>>]
  <2> DEFINE nil == << >>
  <2>1. n \in Nat /\ nil \in D
    BY <1>1
  <2> HIDE DEF g, nil
  <2>2. \E f \in [0 .. n -> D] : \A i \in 0 .. n : f[i] = IF i = 0 THEN nil ELSE g[<<i, f[i - 1]>>]
    BY <1>4, <2>1, Recursion
  <2>. QED
    BY <2>2 DEF nil
<1>6. ASSUME NEW i \in 0 .. n
      PROVE  f[i] = IF i = 0 THEN << >>
                    ELSE IF Artifacts[i] \in S THEN Append(f[i - 1], Artifacts[i])
                    ELSE f[i - 1]
  <2>1. CASE i = 0
    BY <1>5, <2>1
  <2>2. CASE i # 0
    <3>1. i \in 1 .. n /\ i - 1 \in 0 .. n
      BY <1>1, <2>2
    <3>2. <<i, f[i - 1]>> \in (1 .. n) \X D
      BY <1>5, <3>1
    <3>3. f[i] = g[<<i, f[i - 1]>>]
      BY <1>5, <2>2
    <3>. QED
      BY <2>2, <3>2, <3>3
  <2>. QED
    BY <2>1, <2>2
<1>7. Keeps(S, f)
  BY <1>5, <1>6 DEF Keeps, n
<1> DEFINE kept == CHOOSE k : Keeps(S, k)
<1>8. Keeps(S, kept)
  BY <1>7, Zenon
<1>9. Filter(S) = kept[Len(Artifacts)]
  BY Zenon DEF Filter, Keeps
<1>. QED
  BY <1>8, <1>9

\* The places of a list's elements in the first n of the artifacts.
Embeds(h, t, n, S) ==
    /\ t \in Seq(Elements(Artifacts))
    /\ h \in [1 .. Len(t) -> 1 .. n]
    /\ \A i \in 1 .. Len(t) : t[i] = Artifacts[h[i]] /\ t[i] \in S
    /\ \A i, j \in 1 .. Len(t) : i < j => h[i] < h[j]
    /\ \A k \in 1 .. n : Artifacts[k] \in S => \E i \in 1 .. Len(t) : h[i] = k

LEMMA EmbedsNext ==
    ASSUME input \in Input, NEW S, NEW n \in 1 .. Len(Artifacts), NEW t, NEW h, Embeds(h, t, n - 1, S)
    PROVE  \E g : Embeds(g, IF Artifacts[n] \in S THEN Append(t, Artifacts[n]) ELSE t, n, S)
<1> DEFINE m == Len(t)
           a == Artifacts[n]
<1>1. n \in Nat \ {0} /\ DOMAIN Artifacts = 1 .. Len(Artifacts)
      /\ a \in Elements(Artifacts)
      /\ (\A k \in 1 .. n : k = n \/ k \in 1 .. (n - 1))
      /\ (\A k \in 1 .. (n - 1) : k \in 1 .. n /\ k < n)
  <2>1. Len(Artifacts) \in Nat /\ DOMAIN Artifacts = 1 .. Len(Artifacts)
    BY ArtifactsType
  <2>. QED
    BY <2>1 DEF Elements
<1>2. t \in Seq(Elements(Artifacts)) /\ m \in Nat /\ h \in [1 .. m -> 1 .. (n - 1)]
      /\ (\A i \in 1 .. m : t[i] = Artifacts[h[i]] /\ t[i] \in S)
      /\ (\A i, j \in 1 .. m : i < j => h[i] < h[j])
      /\ (\A k \in 1 .. (n - 1) : Artifacts[k] \in S => \E i \in 1 .. m : h[i] = k)
  BY DEF Embeds
<1>3. CASE a \notin S
  <2>1. h \in [1 .. m -> 1 .. n]
    BY <1>1, <1>2
  <2>2. \A k \in 1 .. n : Artifacts[k] \in S => \E i \in 1 .. m : h[i] = k
    BY <1>1, <1>2, <1>3
  <2>3. Embeds(h, t, n, S)
    BY <1>2, <2>1, <2>2 DEF Embeds
  <2>. QED
    BY <1>3, <2>3
<1>4. CASE a \in S
  <2> DEFINE u == Append(t, a)
             g == [i \in 1 .. (m + 1) |-> IF i = m + 1 THEN n ELSE h[i]]
  <2>1. /\ u \in Seq(Elements(Artifacts)) /\ Len(u) = m + 1 /\ u[m + 1] = a
        /\ \A i \in 1 .. m : u[i] = t[i]
    BY <1>1, <1>2
  <2>2. /\ m + 1 \in 1 .. (m + 1)
        /\ \A i \in 1 .. (m + 1) : i = m + 1 \/ i \in 1 .. m
        /\ \A i \in 1 .. m : i \in 1 .. (m + 1) /\ i # m + 1 /\ ~(m + 1 < i)
    BY <1>2
  <2> HIDE DEF u, m, a
  <2>3. g[m + 1] = n /\ (\A i \in 1 .. m : g[i] = h[i])
    BY <2>2
  <2>4. g \in [1 .. (m + 1) -> 1 .. n]
    BY <1>1, <1>2, <2>2
  <2> HIDE DEF g
  <2>5. \A i \in 1 .. (m + 1) : u[i] = Artifacts[g[i]] /\ u[i] \in S
    BY <1>2, <1>4, <2>1, <2>2, <2>3 DEF a
  <2>6. ASSUME NEW i \in 1 .. (m + 1), NEW j \in 1 .. (m + 1), i < j
        PROVE  g[i] < g[j]
    <3>1. CASE j = m + 1
      <4>1. i \in 1 .. m
        BY <1>2, <2>6, <3>1
      <4>2. h[i] \in 1 .. (n - 1) /\ g[i] = h[i] /\ g[j] = n
        BY <1>2, <2>3, <3>1, <4>1
      <4>. QED
        BY <1>1, <4>2
    <3>2. CASE j # m + 1
      <4>1. i \in 1 .. m /\ j \in 1 .. m
        BY <1>2, <2>6, <3>2
      <4>. QED
        BY <1>2, <2>3, <2>6, <4>1
    <3>. QED
      BY <3>1, <3>2
  <2>7. ASSUME NEW k \in 1 .. n, Artifacts[k] \in S
        PROVE  \E i \in 1 .. (m + 1) : g[i] = k
    <3>1. CASE k = n
      BY <2>2, <2>3, <3>1
    <3>2. CASE k # n
      <4>1. k \in 1 .. (n - 1)
        BY <1>1, <3>2
      <4>2. PICK i \in 1 .. m : h[i] = k
        BY <1>2, <2>7, <4>1
      <4>. QED
        BY <2>2, <2>3, <4>2
    <3>. QED
      BY <3>1, <3>2
  <2>8. Embeds(g, u, n, S)
    BY <2>1, <2>4, <2>5, <2>6, <2>7 DEF Embeds
  <2>. QED
    BY <1>4, <2>8 DEF u, a
<1>. QED
  BY <1>3, <1>4

\* Array.filter keeps the order, drops what is not in S, and nothing else.
LEMMA Filtering ==
    ASSUME input \in Input, NEW S
    PROVE  \E h : Embeds(h, Filter(S), Len(Artifacts), S)
<1> DEFINE N == Len(Artifacts)
<1>1. N \in Nat
  BY ArtifactsType
<1>2. PICK f : Keeps(S, f) /\ Filter(S) = f[N]
  BY FilterSteps
<1>3. \A i \in 0 .. N : f[i] = IF i = 0 THEN << >>
                               ELSE IF Artifacts[i] \in S THEN Append(f[i - 1], Artifacts[i])
                               ELSE f[i - 1]
  <2>1. f = [i \in 0 .. N |-> IF i = 0 THEN << >>
                              ELSE IF Artifacts[i] \in S THEN Append(f[i - 1], Artifacts[i])
                              ELSE f[i - 1]]
    BY <1>2, Zenon DEF Keeps
  <2>. QED
    BY <2>1
<1> DEFINE Bad == {n \in Nat : n <= N /\ ~ \E h : Embeds(h, f[n], n, S)}
<1>4. ASSUME Bad # {}
      PROVE  FALSE
  <2>1. PICK n \in Nat : n <= N /\ ~ (\E h : Embeds(h, f[n], n, S)) /\ \A j \in Bad : n <= j
    <3>1. Bad \subseteq Nat
      OBVIOUS
    <3> HIDE DEF Bad
    <3>2. PICK n \in Bad : \A j \in Bad : n <= j
      BY <1>4, <3>1, Least
    <3> USE DEF Bad
    <3>. QED
      BY <3>2
  <2>2. CASE n = 0
    <3> DEFINE h == [i \in 1 .. 0 |-> i]
    <3>1. f[n] = << >>
      BY <1>1, <1>3, <2>2
    <3>2. << >> \in Seq(Elements(Artifacts)) /\ Len(<< >>) = 0 /\ 1 .. 0 = {} /\ h \in [1 .. 0 -> 1 .. 0]
      OBVIOUS
    <3> HIDE DEF h
    <3>3. Embeds(h, << >>, 0, S)
      BY <3>2 DEF Embeds
    <3>. QED
      BY <2>1, <2>2, <3>1, <3>3
  <2>3. CASE n # 0
    <3>1. n - 1 \in Nat /\ n - 1 <= N /\ ~(n <= n - 1) /\ n \in 1 .. N /\ n \in 0 .. N
      BY <1>1, <2>1, <2>3
    <3>2. n - 1 \notin Bad
      BY <2>1, <3>1
    <3>3. PICK h : Embeds(h, f[n - 1], n - 1, S)
      BY <3>1, <3>2
    <3>4. \E g : Embeds(g, IF Artifacts[n] \in S THEN Append(f[n - 1], Artifacts[n]) ELSE f[n - 1], n, S)
      BY <3>1, <3>3, EmbedsNext
    <3>. QED
      BY <1>3, <2>1, <2>3, <3>1, <3>4
  <2>. QED
    BY <2>2, <2>3
<1>5. N \notin Bad
  BY <1>4
<1>. QED
  BY <1>1, <1>2, <1>5

LEMMA FilterElements ==
    ASSUME input \in Input, NEW S
    PROVE  /\ Filter(S) \in Seq(Elements(Artifacts))
           /\ Elements(Filter(S)) = Elements(Artifacts) \cap S
<1> DEFINE t == Filter(S)
           N == Len(Artifacts)
<1>1. DOMAIN Artifacts = 1 .. N
  BY ArtifactsType
<1>2. PICK h : Embeds(h, t, N, S)
  BY Filtering
<1> HIDE DEF t, N
<1>3. /\ t \in Seq(Elements(Artifacts)) /\ h \in [1 .. Len(t) -> 1 .. N]
      /\ \A i \in 1 .. Len(t) : t[i] = Artifacts[h[i]] /\ t[i] \in S
      /\ \A k \in 1 .. N : Artifacts[k] \in S => \E i \in 1 .. Len(t) : h[i] = k
  BY <1>2 DEF Embeds
<1>4. DOMAIN t = 1 .. Len(t)
  BY <1>3
<1>5. Elements(t) \subseteq Elements(Artifacts) \cap S
  BY <1>1, <1>3, <1>4 DEF Elements
<1>6. Elements(Artifacts) \cap S \subseteq Elements(t)
  BY <1>1, <1>3, <1>4 DEF Elements
<1>. QED
  BY <1>3, <1>5, <1>6 DEF t

\* Array.find, when one knows which is first.
LEMMA FindIs ==
    ASSUME NEW s, s \in Seq(Elements(s)), NEW T, NEW k \in DOMAIN s, s[k] \in T,
           \A j \in 1 .. (k - 1) : s[j] \notin T
    PROVE  Find(s, T) = s[k]
<1> DEFINE First(i) == i \in DOMAIN s /\ s[i] \in T /\ \A j \in 1 .. (i - 1) : s[j] \notin T
           first == CHOOSE i \in DOMAIN s : s[i] \in T /\ \A j \in 1 .. (i - 1) : s[j] \notin T
<1>1. DOMAIN s = 1 .. Len(s) /\ Len(s) \in Nat
  OBVIOUS
<1>2. First(first)
  OBVIOUS
<1>3. Find(s, T) = s[first]
  BY DEF Find
<1> HIDE DEF first
<1>4. k \in Nat /\ first \in Nat /\ 1 <= k /\ 1 <= first
  BY <1>1, <1>2
<1>5. ~(first < k)
  BY <1>2, <1>4
<1>6. ~(k < first)
  BY <1>2, <1>4
<1>. QED
  BY <1>3, <1>4, <1>5, <1>6

LEMMA FilterFind ==
    ASSUME input \in Input, NEW S, NEW T, T \subseteq S, NEW a \in Elements(Artifacts), a \in T
    PROVE  Find(Filter(S), T) = Find(Artifacts, T)
<1> DEFINE t == Filter(S)
           N == Len(Artifacts)
           I == {i \in 1 .. N : Artifacts[i] \in T}
<1>1. /\ DOMAIN Artifacts = 1 .. N /\ N \in Nat /\ Artifacts \in Seq(Elements(Artifacts))
  BY ArtifactsType
<1>2. PICK k \in 1 .. N : Artifacts[k] \in T /\ \A i \in 1 .. N : Artifacts[i] \in T => k <= i
  <2>1. I \subseteq Nat /\ I # {}
    BY <1>1 DEF Elements
  <2>2. PICK k \in I : \A i \in I : k <= i
    <3> HIDE DEF I
    <3>. QED
      BY <2>1, Least
  <2>. QED
    BY <2>2
<1>3. \A j \in 1 .. (k - 1) : Artifacts[j] \notin T
  BY <1>1, <1>2
<1>4. Find(Artifacts, T) = Artifacts[k]
  BY <1>1, <1>2, <1>3, FindIs
<1>5. PICK h : Embeds(h, t, N, S)
  BY Filtering
<1> HIDE DEF t, N, I
<1>6. /\ t \in Seq(Elements(Artifacts)) /\ h \in [1 .. Len(t) -> 1 .. N]
      /\ \A i \in 1 .. Len(t) : t[i] = Artifacts[h[i]] /\ t[i] \in S
      /\ \A i, j \in 1 .. Len(t) : i < j => h[i] < h[j]
      /\ \A m \in 1 .. N : Artifacts[m] \in S => \E i \in 1 .. Len(t) : h[i] = m
  BY <1>5 DEF Embeds
<1>7. DOMAIN t = 1 .. Len(t) /\ Len(t) \in Nat /\ t \in Seq(Elements(t))
  <2>1. DOMAIN t = 1 .. Len(t) /\ Len(t) \in Nat /\ t = [i \in 1 .. Len(t) |-> t[i]]
    BY <1>6
  <2>2. \A i \in 1 .. Len(t) : t[i] \in Elements(t)
    BY <2>1 DEF Elements
  <2>3. t \in [1 .. Len(t) -> Elements(t)]
    BY <2>1, <2>2
  <2>. QED
    BY <2>1, <2>3
<1>8. PICK i \in 1 .. Len(t) : h[i] = k
  BY <1>2, <1>6
<1>9. t[i] = Artifacts[k] /\ t[i] \in T
  BY <1>2, <1>6, <1>8
<1>10. ASSUME NEW j \in 1 .. (i - 1), t[j] \in T
       PROVE  FALSE
  <2>1. j \in 1 .. Len(t) /\ j < i
    BY <1>7
  <2>2. h[j] < k /\ h[j] \in 1 .. N /\ Artifacts[h[j]] \in T
    BY <1>6, <1>8, <1>10, <2>1
  <2>. QED
    BY <1>1, <1>2, <2>2
<1>11. Find(t, T) = t[i]
  BY <1>7, <1>9, <1>10, FindIs
<1>. QED
  BY <1>4, <1>9, <1>11 DEF t

\* Taking all key-status records leaves their streams as they are.
LEMMA FilterStream ==
    ASSUME input \in Input, NEW S, OfKind(Artifacts, {"key_status"}) \subseteq S, NEW r
    PROVE  StatusChainValid(Filter(S), r) <=> StatusChainValid(Artifacts, r)
<1> DEFINE t == Filter(S)
           N == Len(Artifacts)
           A == Artifacts
           Streams(a) == a.kind = "key_status" /\ a.target = r.target /\ a.publisher = r.publisher
           I == {i \in DOMAIN A : Streams(A[i])}
           J == {i \in DOMAIN t : Streams(t[i])}
<1>1. DOMAIN A = 1 .. N /\ N \in Nat
  BY ArtifactsType
<1>2. PICK h : Embeds(h, t, N, S)
  BY Filtering
<1>3. \A i \in DOMAIN A : Streams(A[i]) => A[i] \in S
  BY DEF OfKind, Elements
<1>4. StatusChainValid(A, r) <=>
        /\ {A[i].sequence : i \in I} = 1 .. r.sequence
        /\ \A i, j \in I : /\ A[i].sequence = A[j].sequence => i = j
                           /\ A[i].sequence = A[j].sequence + 1 => A[i].previous = A[j].id
        /\ \A i \in I : A[i].sequence = 1 => A[i].previous = "null"
  BY DEF StatusChainValid
<1>5. StatusChainValid(t, r) <=>
        /\ {t[i].sequence : i \in J} = 1 .. r.sequence
        /\ \A i, j \in J : /\ t[i].sequence = t[j].sequence => i = j
                           /\ t[i].sequence = t[j].sequence + 1 => t[i].previous = t[j].id
        /\ \A i \in J : t[i].sequence = 1 => t[i].previous = "null"
  BY DEF StatusChainValid
<1>6. /\ t \in Seq(Elements(A)) /\ h \in [1 .. Len(t) -> 1 .. N]
      /\ \A i \in 1 .. Len(t) : t[i] = A[h[i]] /\ t[i] \in S
      /\ \A i, j \in 1 .. Len(t) : i < j => h[i] < h[j]
      /\ \A m \in 1 .. N : A[m] \in S => \E i \in 1 .. Len(t) : h[i] = m
  BY <1>2 DEF Embeds
<1> HIDE DEF t, N, A
<1>7. DOMAIN t = 1 .. Len(t) /\ Len(t) \in Nat
  BY <1>6
<1>8. \A i \in J : h[i] \in I /\ t[i] = A[h[i]]
  BY <1>1, <1>6, <1>7
<1>9. ASSUME NEW k \in I
      PROVE  \E i \in J : h[i] = k
  <2>1. k \in 1 .. N /\ A[k] \in S /\ Streams(A[k])
    BY <1>1, <1>3
  <2>2. PICK i \in 1 .. Len(t) : h[i] = k
    BY <1>6, <2>1
  <2>3. t[i] = A[k] /\ i \in DOMAIN t
    BY <1>6, <1>7, <2>2
  <2>. QED
    BY <2>1, <2>2, <2>3
<1>10. \A i, j \in J : h[i] = h[j] => i = j
  <2> SUFFICES ASSUME NEW i \in J, NEW j \in J, h[i] = h[j], i # j
               PROVE  FALSE
    OBVIOUS
  <2>1. i \in 1 .. Len(t) /\ j \in 1 .. Len(t) /\ h[i] \in Nat /\ h[j] \in Nat
    BY <1>1, <1>6, <1>7
  <2>2. i < j \/ j < i
    BY <2>1
  <2>. QED
    BY <1>6, <2>1, <2>2
<1> HIDE DEF I, J
<1>11. {t[i].sequence : i \in J} = {A[i].sequence : i \in I}
  BY <1>8, <1>9
<1>12. (\A i \in J : t[i].sequence = 1 => t[i].previous = "null")
       <=> (\A i \in I : A[i].sequence = 1 => A[i].previous = "null")
  BY <1>8, <1>9
<1>13. (\A i, j \in J : /\ t[i].sequence = t[j].sequence => i = j
                        /\ t[i].sequence = t[j].sequence + 1 => t[i].previous = t[j].id)
       <=> (\A i, j \in I : /\ A[i].sequence = A[j].sequence => i = j
                            /\ A[i].sequence = A[j].sequence + 1 => A[i].previous = A[j].id)
  <2>1. ASSUME \A i, j \in I : /\ A[i].sequence = A[j].sequence => i = j
                               /\ A[i].sequence = A[j].sequence + 1 => A[i].previous = A[j].id,
               NEW i \in J, NEW j \in J
        PROVE  /\ t[i].sequence = t[j].sequence => i = j
               /\ t[i].sequence = t[j].sequence + 1 => t[i].previous = t[j].id
    <3>1. h[i] \in I /\ h[j] \in I /\ t[i] = A[h[i]] /\ t[j] = A[h[j]]
      BY <1>8
    <3>. QED
      BY <1>10, <2>1, <3>1
  <2>2. ASSUME \A i, j \in J : /\ t[i].sequence = t[j].sequence => i = j
                               /\ t[i].sequence = t[j].sequence + 1 => t[i].previous = t[j].id,
               NEW k \in I, NEW l \in I
        PROVE  /\ A[k].sequence = A[l].sequence => k = l
               /\ A[k].sequence = A[l].sequence + 1 => A[k].previous = A[l].id
    <3>1. PICK i \in J : h[i] = k
      BY <1>9
    <3>2. PICK j \in J : h[j] = l
      BY <1>9
    <3>3. t[i] = A[k] /\ t[j] = A[l]
      BY <1>8, <3>1, <3>2
    <3>. QED
      BY <2>2, <3>1, <3>2, <3>3
  <2>. QED
    BY <2>1, <2>2
<1>. QED
  BY <1>4, <1>5, <1>11, <1>12, <1>13 DEF t, A

-----------------------------------------------------------------------------
(* verifyDelegationChain and verifyArtifacts look at the same artifacts, and *)
(* find the same faults in each                                             *)

LEMMA Concatenation ==
    ASSUME NEW U, NEW s \in Seq(U), NEW t \in Seq(U)
    PROVE  s \o t \in Seq(U) /\ Elements(s \o t) = Elements(s) \cup Elements(t)
<1> DEFINE m == Len(s)
           n == Len(t)
           u == s \o t
<1>1. m \in Nat /\ n \in Nat /\ DOMAIN s = 1 .. m /\ DOMAIN t = 1 .. n
  OBVIOUS
<1>2. /\ u \in Seq(U) /\ DOMAIN u = 1 .. (m + n)
      /\ \A i \in 1 .. (m + n) : u[i] = IF i <= m THEN s[i] ELSE t[i - m]
  OBVIOUS
<1> HIDE DEF m, n, u
<1>3. \A i \in 1 .. (m + n) : (i <= m /\ i \in 1 .. m) \/ (~(i <= m) /\ i - m \in 1 .. n)
  BY <1>1
<1>4. Elements(u) \subseteq Elements(s) \cup Elements(t)
  BY <1>1, <1>2, <1>3 DEF Elements
<1>5. \A i \in 1 .. m : i \in 1 .. (m + n) /\ u[i] = s[i]
  BY <1>1, <1>2
<1>6. \A i \in 1 .. n : m + i \in 1 .. (m + n) /\ u[m + i] = t[i]
  <2> SUFFICES ASSUME NEW i \in 1 .. n
               PROVE  m + i \in 1 .. (m + n) /\ u[m + i] = t[i]
    OBVIOUS
  <2>1. m + i \in 1 .. (m + n) /\ ~(m + i <= m) /\ (m + i) - m = i
    BY <1>1
  <2>. QED
    BY <1>2, <2>1
<1>7. Elements(s) \subseteq Elements(u) /\ Elements(t) \subseteq Elements(u)
  <2>1. \A i \in DOMAIN s : \E j \in DOMAIN u : u[j] = s[i]
    BY <1>1, <1>2, <1>5
  <2>2. \A i \in DOMAIN t : \E j \in DOMAIN u : u[j] = t[i]
    BY <1>1, <1>2, <1>6
  <2>. QED
    BY <2>1, <2>2 DEF Elements
<1>. QED
  BY <1>2, <1>4, <1>7 DEF u

LEMMA SameId ==
    ASSUME Distinct(Artifacts), NEW a \in Elements(Artifacts), NEW b \in Elements(Artifacts), a.id = b.id
    PROVE  a = b
BY DEF Distinct, Elements

LEMMA InputParts ==
    ASSUME input \in Input, Roots(Artifacts) # {}
    PROVE  LET in == DelegationInput
               delegations == OfKind(Artifacts, {"delegation"})
           IN  /\ in.root = Root /\ in.snapshot = input.snapshot /\ in.now = input.now
               /\ in.offline = OfflineInspection
               /\ in.status = Filter(OfKind(Artifacts, {"key_status", "revocation"}))
               /\ in.delegations \in Seq(Elements(Artifacts))
               /\ Elements(in.bindings) = {c \in OfKind(Artifacts, {"credential"}) : c.id # Root.id}
               /\ Elements(in.delegations) = delegations
               /\ Elements(in.status) = OfKind(Artifacts, {"key_status", "revocation"})
               /\ Linkable(in) \in Seq(Elements(Artifacts)) /\ All(in) \in Seq(Elements(Artifacts))
               /\ Elements(Linkable(in)) = {Root} \cup delegations
               /\ Distinct(Artifacts) =>
                     Elements(All(in)) = {a \in Elements(Artifacts) : a.kind # "request"}
<1> DEFINE in == DelegationInput
           U == Elements(Artifacts)
           others == {c \in OfKind(Artifacts, {"credential"}) : c.id # Root.id}
           delegations == OfKind(Artifacts, {"delegation"})
           status == OfKind(Artifacts, {"key_status", "revocation"})
<1>1. /\ in.root = Root /\ in.snapshot = input.snapshot /\ in.now = input.now
      /\ in.offline = OfflineInspection
      /\ in.bindings = Filter(others) /\ in.delegations = Filter(delegations)
      /\ in.status = Filter(status)
  BY DEF DelegationInput
<1> DEFINE first == <<in.root>>
<1> HIDE DEF in
<1>2. /\ Linkable(in) = first \o in.delegations
      /\ All(in) = ((first \o in.bindings) \o in.delegations) \o in.status
  BY DEF Linkable, All
<1>3. others \subseteq U /\ delegations \subseteq U /\ status \subseteq U
  BY DEF OfKind
<1>4. Root \in U /\ Root.kind = "credential"
  BY RootFound
<1> HIDE DEF U, others, delegations, status
<1>5. /\ in.bindings \in Seq(U) /\ Elements(in.bindings) = others
      /\ in.delegations \in Seq(U) /\ Elements(in.delegations) = delegations
      /\ in.status \in Seq(U) /\ Elements(in.status) = status
  BY <1>1, <1>3, FilterElements DEF U
<1>6. first \in Seq(U) /\ Elements(first) = {Root}
  <2>1. DOMAIN <<Root>> = {1} /\ <<Root>>[1] = Root
    OBVIOUS
  <2>. QED
    BY <1>1, <1>4, <2>1 DEF Elements
<1> HIDE DEF first
<1>7. Linkable(in) \in Seq(U) /\ Elements(Linkable(in)) = {Root} \cup delegations
  BY <1>2, <1>5, <1>6, Concatenation
<1>8. All(in) \in Seq(U) /\ Elements(All(in)) = {Root} \cup others \cup delegations \cup status
  <2> DEFINE second == first \o in.bindings
             third == second \o in.delegations
  <2>1. second \in Seq(U) /\ Elements(second) = {Root} \cup others
    BY <1>5, <1>6, Concatenation
  <2> HIDE DEF second
  <2>2. third \in Seq(U) /\ Elements(third) = {Root} \cup others \cup delegations
    BY <1>5, <2>1, Concatenation
  <2>3. All(in) = third \o in.status
    BY <1>2 DEF second
  <2> HIDE DEF third
  <2>. QED
    BY <1>5, <2>2, <2>3, Concatenation
<1>9. ASSUME Distinct(Artifacts)
      PROVE  {Root} \cup others \cup delegations \cup status = {a \in U : a.kind # "request"}
  <2>1. \A a \in U : a.kind \in {"credential", "delegation", "request", "key_status", "revocation"}
    BY InputAssumption DEF Artifacts, U
  <2>2. \A a \in U : a.kind = "credential" => a = Root \/ a \in others
    BY <1>4, <1>9, SameId DEF others, OfKind, U
  <2>. QED
    BY <1>4, <2>1, <2>2 DEF others, delegations, status, OfKind, U
<1>. QED
  BY <1>1, <1>5, <1>7, <1>8, <1>9 DEF in, U, others, delegations, status

\* No delegation or request stands in for another's key, and so CRYPTO finds of
\* an artifact what verifyArtifacts finds.
LEMMA SameCryptoFault ==
    ASSUME input \in Input, Roots(Artifacts) # {}, Distinct(Artifacts),
           \A b, c \in OfKind(Artifacts, {"credential"}) : b.key = c.key => b = c,
           NEW a
    PROVE  CryptoFault(a, All(DelegationInput), input.snapshot) = CryptoFault(a, Artifacts, input.snapshot)
<1> DEFINE s == All(DelegationInput)
           A == Artifacts
<1>1. /\ s \in Seq(Elements(A)) /\ Elements(s) = {b \in Elements(A) : b.kind # "request"}
  BY InputParts
<1>2. A \in Seq(Elements(A))
  BY ArtifactsType
<1>3. \A b, c \in Elements(A) : b.kind = "credential" /\ c.kind = "credential" /\ b.key = c.key => b = c
  BY DEF OfKind
<1> HIDE DEF s, A
<1>4. s \in Seq(Elements(s))
  <2>1. DOMAIN s = 1 .. Len(s) /\ Len(s) \in Nat /\ s = [i \in 1 .. Len(s) |-> s[i]]
    BY <1>1
  <2>2. \A i \in 1 .. Len(s) : s[i] \in Elements(s)
    BY <2>1 DEF Elements
  <2>3. s \in [1 .. Len(s) -> Elements(s)]
    BY <2>1, <2>2
  <2>. QED
    BY <2>1, <2>3
<1>5. /\ HasHolder(A, a.kid) <=> \E c \in Elements(A) : c.kind = "credential" /\ c.key = a.kid
      /\ HasHolder(s, a.kid) <=> \E c \in Elements(s) : c.kind = "credential" /\ c.key = a.kid
  BY DEF HasHolder, Elements
<1>6. HasHolder(s, a.kid) <=> HasHolder(A, a.kid)
  BY <1>1, <1>5
<1>7. ASSUME HasHolder(A, a.kid)
      PROVE  Holder(s, a.kid) = Holder(A, a.kid)
  <2>1. PICK c \in Elements(A) : c.kind = "credential" /\ c.key = a.kid
    BY <1>5, <1>7
  <2>2. c \in Elements(s)
    BY <1>1, <2>1
  <2>3. /\ \A b \in Elements(A) : b.kind = "credential" /\ b.key = c.key => b = c
        /\ \A b \in Elements(s) : b.kind = "credential" /\ b.key = c.key => b = c
    BY <1>1, <1>3, <2>1
  <2>4. Holder(A, c.key) = c.subject
    BY <1>2, <2>1, <2>3, HolderIs
  <2>5. Holder(s, c.key) = c.subject
    BY <1>4, <2>1, <2>2, <2>3, HolderIs
  <2>. QED
    BY <2>1, <2>4, <2>5
<1>8. CASE HasHolder(A, a.kid)
  BY <1>6, <1>7, <1>8 DEF CryptoFault, s, A
<1>9. CASE ~HasHolder(A, a.kid) /\ ~Pinned(a, input.snapshot)
  BY <1>6, <1>9 DEF CryptoFault, s, A
<1>10. CASE ~HasHolder(A, a.kid) /\ Pinned(a, input.snapshot)
  <2>1. a.kind \notin {"delegation", "request"}
    BY <1>10 DEF Pinned
  <2>. QED
    BY <1>6, <1>10, <2>1 DEF CryptoFault, s, A
<1>. QED
  BY <1>8, <1>9, <1>10

LEMMA SameKeyFault ==
    ASSUME input \in Input, Roots(Artifacts) # {}, ParseFault = "none", NEW key
    PROVE  DelegationKeyFault(DelegationInput, key) = "none" <=> KeyFault(key) = "none"
<1> DEFINE in == DelegationInput
           S == OfKind(Artifacts, {"key_status", "revocation"})
           t == Filter(S)
           records == StatusOf(Artifacts, key)
           highest == {r \in records : \A q \in records : q.sequence <= r.sequence}
<1>1. /\ in.status = t /\ in.offline = OfflineInspection
      /\ in.snapshot = input.snapshot /\ in.now = input.now
  BY InputParts
<1>2. Elements(t) = Elements(Artifacts) \cap S
  BY FilterElements
<1>3. StatusOf(t, key) = records
  BY <1>2 DEF StatusOf, OfKind
<1>4. \A r : StatusChainValid(t, r) <=> StatusChainValid(Artifacts, r)
  <2>1. OfKind(Artifacts, {"key_status"}) \subseteq S
    BY DEF OfKind
  <2> HIDE DEF S
  <2>. QED
    BY <2>1, FilterStream
<1>5. CASE records = {}
  BY <1>1, <1>3, <1>5 DEF DelegationKeyFault, KeyFault
<1>6. CASE records # {}
  <2> DEFINE r == StatusFor(Artifacts, key)
  <2>1. r \in highest
    BY <1>6, StatusSelected
  <2>2. highest \subseteq S /\ r \in Elements(Artifacts)
    BY <2>1 DEF StatusOf, OfKind
  <2>3. r = Find(Artifacts, highest)
    BY DEF StatusFor
  <2>4. StatusFor(t, key) = Find(t, highest)
    BY <1>3 DEF StatusFor
  <2> HIDE DEF r, S, highest
  <2>5. Find(t, highest) = Find(Artifacts, highest)
    BY <2>1, <2>2, FilterFind
  <2>6. StatusFor(t, key) = r
    BY <2>3, <2>4, <2>5
  <2> HIDE DEF t, in
  <2>7. DelegationKeyFault(in, key) = "none" <=>
          /\ StatusChainValid(t, r) /\ r.state = "active"
          /\ \/ OfflineInspection
             \/ AtHighWater(r, input.snapshot) /\ ~(r.asOf > input.now \/ r.until < input.now)
    BY <1>1, <1>3, <1>6, <2>6 DEF DelegationKeyFault
  <2>8. KeyFault(key) = "none" <=>
          /\ StatusChainValid(Artifacts, r) /\ r.state = "active"
          /\ \/ OfflineInspection
             \/ AtHighWater(r, input.snapshot) /\ ~(r.asOf > input.now \/ r.until < input.now)
    BY <1>6 DEF KeyFault, r
  <2>. QED
    BY <1>4, <2>7, <2>8 DEF in, t
<1>. QED
  BY <1>5, <1>6

LEMMA FourFaults ==
    ASSUME NEW e \in Outcomes, NEW f \in Outcomes, NEW g \in Outcomes, NEW h \in Outcomes
    PROVE  /\ FirstFault(<<e, f, g, h>>) \in Outcomes
           /\ FirstFault(<<e, f, g, h>>) = "none" <=> e = "none" /\ f = "none" /\ g = "none" /\ h = "none"
<1> DEFINE s == <<e, f, g, h>>
<1>1. DOMAIN s = 1 .. 4 /\ s[1] = e /\ s[2] = f /\ s[3] = g /\ s[4] = h
  OBVIOUS
<1>2. \A i \in 1 .. 4 : i = 1 \/ i = 2 \/ i = 3 \/ i = 4
  OBVIOUS
<1> HIDE DEF s
<1>3. DOMAIN s \subseteq Nat /\ \A i \in DOMAIN s : s[i] \in Outcomes
  BY <1>1, <1>2
<1>4. FirstFault(s) \in Outcomes
  BY <1>3, FirstFaultType
<1>5. FirstFault(s) = "none" <=> \A i \in DOMAIN s : s[i] = "none"
  BY <1>3, NoFault, FirstFaultFinds
<1>6. (\A i \in DOMAIN s : s[i] = "none") <=> e = "none" /\ f = "none" /\ g = "none" /\ h = "none"
  BY <1>1, <1>2
<1>. QED
  BY <1>4, <1>5, <1>6 DEF s

Accepts == DelegationDecisions(DelegationInput) = {"VALID"}

\* It accepts when none of its stages finds a fault.
LEMMA AcceptsWhen ==
    ASSUME input \in Input, Roots(Artifacts) # {}
    PROVE  LET in == DelegationInput
           IN  Accepts <=>
                 /\ DelegationParseFault(in) = "none"
                 /\ CryptoFaults(All(in), input.snapshot) = "none"
                 /\ TimeFaults(All(in), input.now, input.snapshot.skew) = "none"
                 /\ RootFault(Root, input.snapshot) = "none"
                 /\ ~Unlinked(in) /\ Cardinality(Leaves(in)) = 1 /\ LineFault(in) = "none"
                 /\ DelegationStatusFaults(in) = {}
<1> DEFINE in == DelegationInput
           parse == DelegationParseFault(in)
           crypto == CryptoFaults(All(in), input.snapshot)
           time == TimeFaults(All(in), input.now, input.snapshot.skew)
           root == RootFault(Root, input.snapshot)
           early == FirstFault(<<parse, crypto, time, root>>)
           along == DelegationChainFault(in)
           status == DelegationStatusFaults(in)
<1>1. in.root = Root /\ in.snapshot = input.snapshot /\ in.now = input.now
      /\ All(in) \in Seq(Elements(Artifacts))
  BY InputParts
<1> HIDE DEF in
<1>2. DOMAIN All(in) \subseteq Nat
  BY <1>1
<1>3. parse \in Outcomes
  BY DEF DelegationParseFault, Outcomes, Faults, Codes
<1>4. crypto \in Outcomes /\ time \in Outcomes
  BY <1>2, ListFaults
<1>5. root \in Outcomes
  BY DEF RootFault, Outcomes, Faults, Codes
<1>6. LineFault(in) \in {"CHAIN_PARENT_MISSING", "CHAIN_BOUNDS_EXCEEDED", "ATTENUATION_VIOLATION", "none"}
  BY DEF LineFault
<1>7. along # "VALID"
      /\ (along = "none" <=> ~Unlinked(in) /\ Cardinality(Leaves(in)) = 1 /\ LineFault(in) = "none")
  BY <1>6 DEF DelegationChainFault
<1>8. \A key : DelegationKeyFault(in, key) # "VALID"
  BY DEF DelegationKeyFault
<1>9. "VALID" \notin status
  BY <1>8 DEF DelegationStatusFaults
<1>10. DelegationDecisions(in) =
         IF early # "none" THEN {early}
         ELSE IF along # "none" THEN {along}
         ELSE IF status # {} THEN status
         ELSE {"VALID"}
  BY <1>1 DEF DelegationDecisions
<1> HIDE DEF parse, crypto, time, root, along, status
<1>11. early \in Outcomes
       /\ (early = "none" <=> parse = "none" /\ crypto = "none" /\ time = "none" /\ root = "none")
  BY <1>3, <1>4, <1>5, FourFaults
<1>12. early # "VALID"
  BY <1>11 DEF Outcomes, Faults
<1> HIDE DEF early
<1>13. DelegationDecisions(in) = {"VALID"} <=> early = "none" /\ along = "none" /\ status = {}
  BY <1>7, <1>9, <1>10, <1>12
<1>14. Accepts <=> DelegationDecisions(in) = {"VALID"}
  BY DEF Accepts, in
<1>. QED
  BY <1>7, <1>11, <1>13, <1>14 DEF in, parse, crypto, time, root, status

LEMMA LinkableDistinct ==
    ASSUME input \in Input, Roots(Artifacts) # {}, Distinct(Artifacts)
    PROVE  Distinct(Linkable(DelegationInput))
<1> DEFINE S == OfKind(Artifacts, {"delegation"})
           t == Filter(S)
           N == Len(Artifacts)
           u == <<Root>> \o t
<1>1. DOMAIN Artifacts = 1 .. N /\ N \in Nat
  BY ArtifactsType
<1>2. PICK h : Embeds(h, t, N, S)
  BY Filtering
<1>3. Linkable(DelegationInput) = u
  BY DEF Linkable, DelegationInput
<1>4. Root \in Elements(Artifacts) /\ Root.kind = "credential"
  BY RootFound
<1>5. \A a \in S : a \in Elements(Artifacts) /\ a.kind = "delegation"
  BY DEF OfKind
<1> HIDE DEF t, S, N
<1>6. /\ t \in Seq(Elements(Artifacts)) /\ h \in [1 .. Len(t) -> 1 .. N]
      /\ \A i \in 1 .. Len(t) : t[i] = Artifacts[h[i]] /\ t[i] \in S
      /\ \A i, j \in 1 .. Len(t) : i < j => h[i] < h[j]
  BY <1>2 DEF Embeds
<1>7. Len(t) \in Nat /\ DOMAIN t = 1 .. Len(t)
  BY <1>6
<1>8. DOMAIN u = 1 .. (Len(t) + 1) /\ u[1] = Root /\ \A i \in 2 .. (Len(t) + 1) : u[i] = t[i - 1]
  BY <1>6, <1>7
<1>9. ASSUME NEW i \in 1 .. Len(t), NEW j \in 1 .. Len(t), t[i].id = t[j].id
      PROVE  i = j
  <2>1. h[i] \in 1 .. N /\ h[j] \in 1 .. N /\ Artifacts[h[i]].id = Artifacts[h[j]].id
    BY <1>6, <1>9
  <2>2. h[i] = h[j]
    BY <1>1, <2>1 DEF Distinct
  <2>3. h[i] \in Nat /\ h[j] \in Nat /\ i \in Nat /\ j \in Nat
    BY <1>1, <1>7, <2>1
  <2>4. ~(i < j) /\ ~(j < i)
    BY <1>6, <2>2, <2>3
  <2>. QED
    BY <2>3, <2>4
<1>10. ASSUME NEW i \in 1 .. Len(t)
       PROVE  t[i].id # Root.id
  <2>1. t[i] \in Elements(Artifacts) /\ t[i].kind = "delegation"
    BY <1>5, <1>6
  <2>. QED
    BY <1>4, <2>1, SameId
<1> HIDE DEF u
<1>11. ASSUME NEW i \in DOMAIN u, NEW j \in DOMAIN u, u[i].id = u[j].id
       PROVE  i = j
  <2>1. \A k \in DOMAIN u : k = 1 \/ (k \in 2 .. (Len(t) + 1) /\ k - 1 \in 1 .. Len(t) /\ k \in Nat)
    BY <1>7, <1>8
  <2>2. CASE i = 1 /\ j = 1
    BY <2>2
  <2>3. CASE i = 1 /\ j # 1
    BY <1>8, <1>10, <1>11, <2>1, <2>3
  <2>4. CASE i # 1 /\ j = 1
    BY <1>8, <1>10, <1>11, <2>1, <2>4
  <2>5. CASE i # 1 /\ j # 1
    <3>1. /\ i - 1 \in 1 .. Len(t) /\ j - 1 \in 1 .. Len(t) /\ i \in Nat /\ j \in Nat
          /\ t[i - 1].id = t[j - 1].id
      BY <1>8, <1>11, <2>1, <2>5
    <3>2. i - 1 = j - 1
      BY <1>9, <3>1
    <3>. QED
      BY <3>1, <3>2
  <2>. QED
    BY <2>2, <2>3, <2>4, <2>5
<1>. QED
  BY <1>3, <1>11 DEF Distinct

\* What PARSE, CRYPTO and TIME check of the whole list, verifyDelegationChain
\* checks of all but the request.
LEMMA SameChecks ==
    ASSUME input \in Input, ChainOnly, Distinct(Artifacts)
    PROVE  LET in == DelegationInput
           IN  (/\ DelegationParseFault(in) = "none"
                /\ CryptoFaults(All(in), input.snapshot) = "none"
                /\ TimeFaults(All(in), input.now, input.snapshot.skew) = "none"
                /\ Request.formed /\ Sound(Request))
               <=> ParseFault = "none" /\ \A a \in Elements(Artifacts) : Sound(a)
<1> DEFINE in == DelegationInput
           s == All(in)
           A == Artifacts
<1>1. /\ Cardinality(Roots(A)) = 1 /\ Cardinality(OfKind(A, {"request"})) = 1
      /\ \A b, c \in OfKind(A, {"credential"}) : b.key = c.key => b = c
  BY DEF ChainOnly
<1>2. Roots(A) # {} /\ OfKind(A, {"request"}) # {}
  BY <1>1, FS_EmptySet
<1>3. /\ in.root = Root /\ in.snapshot = input.snapshot
      /\ s \in Seq(Elements(A)) /\ Elements(s) = {b \in Elements(A) : b.kind # "request"}
  BY <1>2, InputParts
<1>4. Root \in Roots(A) /\ Root \in Elements(A) /\ Root.kind = "credential"
      /\ Root.purpose = "agent-root-authority"
  BY <1>2, RootFound DEF Roots
<1>5. Request \in Elements(A) /\ Request.kind = "request"
  BY <1>2, RequestFound
<1>6. \A a \in Elements(A) : a \in Elements(s) \/ a = Request
  <2>1. OfKind(A, {"request"}) \subseteq Elements(A) /\ Request \in OfKind(A, {"request"})
    BY <1>5 DEF OfKind
  <2>2. Cardinality(OfKind(A, {"request"})) <= 1
    BY <1>1
  <2>3. \A a \in OfKind(A, {"request"}) : a = Request
    BY <2>1, <2>2, AtMostOne
  <2>. QED
    BY <1>3, <2>3 DEF OfKind
<1>7. Distinct(Linkable(in))
  BY <1>2, LinkableDistinct
<1>8. \A a : CryptoFault(a, s, input.snapshot) = CryptoFault(a, A, input.snapshot)
  BY <1>1, <1>2, SameCryptoFault
<1> HIDE DEF in, s, A
<1>9. Root \in Roots(s)
  BY <1>3, <1>4 DEF Roots, OfKind
<1>10. DelegationParseFault(in) = "none" <=>
         /\ \A a \in Elements(s) : a.formed
         /\ DOMAIN input.snapshot.issuers \cap DOMAIN input.snapshot.publishers = {}
  BY <1>3, <1>7, <1>9 DEF DelegationParseFault, s
<1>11. ParseFault = "none" <=>
         /\ \A a \in Elements(A) : a.formed
         /\ DOMAIN input.snapshot.issuers \cap DOMAIN input.snapshot.publishers = {}
  BY DEF ParseFault, A
<1>12. DOMAIN s \subseteq Nat
  BY <1>3
<1>13. /\ CryptoFaults(s, input.snapshot) = "none"
            <=> \A a \in Elements(s) : CryptoFault(a, s, input.snapshot) = "none"
       /\ TimeFaults(s, input.now, input.snapshot.skew) = "none"
            <=> \A a \in Elements(s) : TimeFault(a, input.now, input.snapshot.skew) = "none"
  BY <1>12, ListFaults
<1>14. /\ CryptoFaults(s, input.snapshot) = "none" /\ TimeFaults(s, input.now, input.snapshot.skew) = "none"
       <=> \A a \in Elements(s) : Sound(a)
  BY <1>8, <1>13 DEF Sound, A
<1>15. Elements(s) \subseteq Elements(A)
  BY <1>3
<1>16. (/\ DelegationParseFault(in) = "none"
        /\ CryptoFaults(s, input.snapshot) = "none" /\ TimeFaults(s, input.now, input.snapshot.skew) = "none"
        /\ Request.formed /\ Sound(Request))
       <=> ParseFault = "none" /\ \A a \in Elements(A) : Sound(a)
  BY <1>5, <1>6, <1>10, <1>11, <1>14, <1>15
<1>. QED
  BY <1>16 DEF s, in, A

-----------------------------------------------------------------------------
(* The line of delegations that verifyDelegationChain climbs *)

\* Each delegation that is linked has one parent, the same for both verifiers.
LEMMA ParentIs ==
    ASSUME input \in Input, Roots(Artifacts) # {}, Distinct(Artifacts), ~Unlinked(DelegationInput),
           NEW d \in OfKind(Artifacts, {"delegation"})
    PROVE  LET p == ParentIn(DelegationInput, d)
           IN  /\ p \in {Root} \cup OfKind(Artifacts, {"delegation"})
               /\ p \in Elements(Artifacts) /\ Names(d, p)
               /\ \A q \in Elements(Artifacts) : q.id = d.parent.id => q = p
<1> DEFINE in == DelegationInput
           S == Elements(Linkable(in))
           D == OfKind(Artifacts, {"delegation"})
           p == ParentIn(in, d)
<1>1. S = {Root} \cup D /\ Elements(in.delegations) = D
  BY InputParts
<1>2. Root \in Elements(Artifacts) /\ D \subseteq Elements(Artifacts)
  BY RootFound DEF OfKind
<1>3. PICK q \in S : q.kind = d.parent.kind /\ q.id = d.parent.id
  BY <1>1 DEF Unlinked
<1>4. p \in S /\ p.id = d.parent.id
  BY <1>3, Zenon DEF ParentIn
<1> HIDE DEF in, S, D, p
<1>5. p \in Elements(Artifacts) /\ q \in Elements(Artifacts)
  BY <1>1, <1>2, <1>4
<1>6. \A o \in Elements(Artifacts) : o.id = d.parent.id => o = p
  BY <1>4, <1>5, SameId
<1>7. p = q
  BY <1>3, <1>5, <1>6
<1>. QED
  BY <1>1, <1>3, <1>4, <1>5, <1>6, <1>7 DEF Names, p, D, in

Climbs(up, leaf) ==
    LET in == DelegationInput
    IN  up = [n \in 0 .. Len(in.delegations) |->
                 IF n = 0 THEN <<leaf>>
                 ELSE LET parent == ParentIn(in, up[n - 1][Len(up[n - 1])])
                      IN  IF parent = in.root THEN up[n - 1] ELSE Append(up[n - 1], parent)]

LEMMA LineClimbs ==
    ASSUME input \in Input, Roots(Artifacts) # {}, Distinct(Artifacts), ~Unlinked(DelegationInput),
           NEW leaf, Leaves(DelegationInput) = {leaf}
    PROVE  \E up : /\ Climbs(up, leaf) /\ Line(DelegationInput) = up[Len(DelegationInput.delegations)]
                   /\ \A n \in 0 .. Len(DelegationInput.delegations) :
                         up[n] \in Seq(OfKind(Artifacts, {"delegation"})) /\ up[n] # << >>
<1> DEFINE in == DelegationInput
           N == Len(in.delegations)
           U == OfKind(Artifacts, {"delegation"})
           D == Seq(U) \ {<< >>}
           Next1(s) == LET parent == ParentIn(in, s[Len(s)])
                       IN  IF parent = in.root THEN s ELSE Append(s, parent)
           g == [p \in (1 .. N) \X D |-> Next1(p[2])]
           d == <<leaf>>
<1>1. N \in Nat /\ in.root = Root /\ Elements(in.delegations) = U
  <2>1. in.delegations \in Seq(Elements(Artifacts)) /\ in.root = Root /\ Elements(in.delegations) = U
    BY InputParts
  <2>. QED
    BY <2>1
<1>2. leaf \in U
  BY <1>1 DEF Leaves
<1>3. \A e \in U : ParentIn(in, e) \in {Root} \cup U
  BY ParentIs
<1>4. (CHOOSE e \in Leaves(in) : TRUE) = leaf
  <2>1. (CHOOSE e \in Leaves(in) : TRUE) \in Leaves(in)
    OBVIOUS
  <2>. QED
    BY <2>1
<1>5. d \in D
  BY <1>2
<1> HIDE DEF N, U, in
<1>6. ASSUME NEW s \in D
      PROVE  Next1(s) \in D
  <2>1. s \in Seq(U) /\ Len(s) \in DOMAIN s
    BY <1>6
  <2>2. s[Len(s)] \in U
    BY <2>1
  <2> DEFINE parent == ParentIn(in, s[Len(s)])
  <2>3. parent = Root \/ parent \in U
    BY <1>3, <2>2
  <2> HIDE DEF parent
  <2>4. parent \in U => Append(s, parent) \in D
    BY <2>1
  <2>. QED
    BY <1>1, <2>3, <2>4 DEF parent
<1> HIDE DEF D, d, Next1
<1>7. g \in [(1 .. N) \X D -> D]
  BY <1>6
<1> HIDE DEF g
<1>8. PICK f \in [0 .. N -> D] : \A i \in 0 .. N : f[i] = IF i = 0 THEN d ELSE g[<<i, f[i - 1]>>]
  <2>1. N \in Nat
    BY <1>1
  <2>2. \E f \in [0 .. N -> D] : \A i \in 0 .. N : f[i] = IF i = 0 THEN d ELSE g[<<i, f[i - 1]>>]
    BY <1>5, <1>7, <2>1, Recursion
  <2>. QED
    BY <2>2
<1>9. ASSUME NEW i \in 0 .. N
      PROVE  f[i] = IF i = 0 THEN d ELSE Next1(f[i - 1])
  <2>1. CASE i = 0
    BY <1>8, <2>1
  <2>2. CASE i # 0
    <3>1. i \in 1 .. N /\ i - 1 \in 0 .. N
      BY <1>1, <2>2
    <3>2. <<i, f[i - 1]>> \in (1 .. N) \X D
      BY <1>8, <3>1
    <3>3. f[i] = g[<<i, f[i - 1]>>]
      BY <1>8, <2>2
    <3>. QED
      BY <2>2, <3>2, <3>3 DEF g
  <2>. QED
    BY <2>1, <2>2
<1>10. f = [i \in 0 .. N |-> IF i = 0 THEN d ELSE Next1(f[i - 1])]
  BY <1>8, <1>9
<1>11. Climbs(f, leaf)
  BY <1>10, Zenon DEF Climbs, Next1, d, N, in
<1> DEFINE up == CHOOSE u : Climbs(u, leaf)
<1>12. Climbs(up, leaf)
  BY <1>11, Zenon
<1>13. Line(in) = up[N]
  BY <1>4, Zenon DEF Line, Climbs, N, in
<1> HIDE DEF up
<1>14. \A i \in 0 .. N : up[i] = IF i = 0 THEN d ELSE Next1(up[i - 1])
  <2>1. up = [i \in 0 .. N |-> IF i = 0 THEN d ELSE Next1(up[i - 1])]
    BY <1>12, Zenon DEF Climbs, Next1, d, N, in
  <2>. QED
    BY <2>1
<1> DEFINE Bad == {i \in 0 .. N : up[i] \notin D}
<1>15. ASSUME Bad # {}
       PROVE  FALSE
  <2>1. Bad \subseteq Nat
    BY <1>1
  <2> HIDE DEF Bad
  <2>2. PICK i \in Bad : \A j \in Bad : i <= j
    BY <1>15, <2>1, Least
  <2> USE DEF Bad
  <2>3. i \in 0 .. N /\ up[i] \notin D /\ i \in Nat
    BY <1>1, <2>2
  <2>4. i # 0
    BY <1>5, <1>14, <2>3
  <2>5. i - 1 \in 0 .. N /\ ~(i <= i - 1)
    BY <1>1, <2>3, <2>4
  <2>6. up[i - 1] \in D
    BY <2>2, <2>5
  <2>. QED
    BY <1>6, <1>14, <2>3, <2>4, <2>6
<1>16. \A i \in 0 .. N : up[i] \in D
  BY <1>15
<1>17. \A i \in 0 .. N : up[i] \in Seq(U) /\ up[i] # << >>
  BY <1>16 DEF D
<1>. QED
  BY <1>12, <1>13, <1>17 DEF U, N, in

\* The line starts at the leaf, each next delegation is the parent of the one
\* before, and it ends below the root, or is longer than the delegations.
LEMMA LineIs ==
    ASSUME input \in Input, Roots(Artifacts) # {}, Distinct(Artifacts), ~Unlinked(DelegationInput),
           NEW leaf, Leaves(DelegationInput) = {leaf}
    PROVE  LET in == DelegationInput
               line == Line(in)
           IN  /\ line \in Seq(OfKind(Artifacts, {"delegation"})) /\ line # << >> /\ line[1] = leaf
               /\ \A i \in 1 .. (Len(line) - 1) : line[i + 1] = ParentIn(in, line[i])
               /\ ParentIn(in, line[Len(line)]) = Root \/ Len(line) > Len(in.delegations)
<1> DEFINE in == DelegationInput
           N == Len(in.delegations)
           U == OfKind(Artifacts, {"delegation"})
<1>1. N \in Nat /\ in.root = Root
  <2>1. in.delegations \in Seq(Elements(Artifacts)) /\ in.root = Root
    BY InputParts
  <2>. QED
    BY <2>1
<1>2. PICK up : /\ Climbs(up, leaf) /\ Line(in) = up[N]
                /\ \A n \in 0 .. N : up[n] \in Seq(U) /\ up[n] # << >>
  BY LineClimbs
<1>3. up = [n \in 0 .. N |->
                 IF n = 0 THEN <<leaf>>
                 ELSE LET parent == ParentIn(in, up[n - 1][Len(up[n - 1])])
                      IN  IF parent = in.root THEN up[n - 1] ELSE Append(up[n - 1], parent)]
  BY <1>2, Zenon DEF Climbs
<1> HIDE DEF in, N, U
<1> DEFINE Good(n) ==
             /\ up[n][1] = leaf
             /\ \A i \in 1 .. (Len(up[n]) - 1) : up[n][i + 1] = ParentIn(in, up[n][i])
             /\ ParentIn(in, up[n][Len(up[n])]) = Root \/ Len(up[n]) > n
           Bad == {n \in 0 .. N : ~Good(n)}
<1>4. Good(0)
  <2>1. up[0] = <<leaf>>
    BY <1>1, <1>3
  <2>2. Len(up[0]) = 1 /\ up[0][1] = leaf
    BY <2>1
  <2>. QED
    BY <2>2
<1>5. ASSUME NEW n \in 0 .. N, n # 0, Good(n - 1)
      PROVE  Good(n)
  <2> DEFINE s == up[n - 1]
             m == Len(s)
             parent == ParentIn(in, s[m])
  <2>1. n - 1 \in 0 .. N /\ n \in Nat
    BY <1>1, <1>5
  <2>2. s \in Seq(U) /\ s # << >>
    BY <1>2, <2>1
  <2>3. up[n] = IF parent = Root THEN s ELSE Append(s, parent)
    BY <1>1, <1>3, <1>5
  <2>4. /\ s[1] = leaf /\ \A i \in 1 .. (m - 1) : s[i + 1] = ParentIn(in, s[i])
        /\ parent = Root \/ m > n - 1
    BY <1>5
  <2> HIDE DEF s, parent, Good
  <2>5. m \in Nat \ {0}
    BY <2>2
  <2>6. CASE parent = Root
    <3>1. up[n] = s
      BY <2>3, <2>6
    <3>. QED
      BY <2>4, <2>6, <3>1 DEF Good, parent
  <2>7. CASE parent # Root
    <3> DEFINE t == Append(s, parent)
    <3>1. up[n] = t
      BY <2>3, <2>7
    <3>2. Len(t) = m + 1 /\ t[m + 1] = parent /\ \A i \in 1 .. m : t[i] = s[i]
      BY <2>2
    <3> HIDE DEF t, m
    <3>3. \A i \in 1 .. m : i = m \/ (i \in 1 .. (m - 1) /\ i + 1 \in 1 .. m)
      BY <2>5
    <3>4. \A i \in 1 .. m : t[i + 1] = ParentIn(in, t[i])
      BY <2>4, <3>2, <3>3 DEF parent
    <3>5. t[1] = leaf
      BY <2>4, <2>5, <3>2
    <3>6. m + 1 > n /\ (m + 1) - 1 = m
      BY <2>1, <2>4, <2>5, <2>7
    <3>. QED
      BY <3>1, <3>2, <3>4, <3>5, <3>6 DEF Good
  <2>. QED
    BY <2>6, <2>7
<1> HIDE DEF Good
<1>6. ASSUME Bad # {}
      PROVE  FALSE
  <2>1. Bad \subseteq Nat
    BY <1>1
  <2> HIDE DEF Bad
  <2>2. PICK n \in Bad : \A j \in Bad : n <= j
    BY <1>6, <2>1, Least
  <2> USE DEF Bad
  <2>3. n \in 0 .. N /\ ~Good(n) /\ n \in Nat
    BY <1>1, <2>2
  <2>4. n # 0
    BY <1>4, <2>3
  <2>5. n - 1 \in 0 .. N /\ ~(n <= n - 1)
    BY <1>1, <2>3, <2>4
  <2>6. Good(n - 1)
    BY <2>2, <2>5
  <2>. QED
    BY <1>5, <2>3, <2>4, <2>6
<1>7. Good(N) /\ N \in 0 .. N
  BY <1>1, <1>6
<1>8. up[N] \in Seq(U) /\ up[N] # << >>
  BY <1>2, <1>7
<1>. QED
  BY <1>2, <1>7, <1>8 DEF Good, U, N, in

-----------------------------------------------------------------------------
(* Depths: a list along which they grow repeats nothing *)

Deepens(s) ==
    /\ \A i \in 1 .. Len(s) : s[i].ceiling.depth \in Nat
    /\ \A i \in 1 .. (Len(s) - 1) : s[i].ceiling.depth < s[i + 1].ceiling.depth

LEMMA Deeper ==
    ASSUME NEW U, NEW s \in Seq(U), Deepens(s)
    PROVE  \A i, j \in 1 .. Len(s) : i < j => s[i].ceiling.depth < s[j].ceiling.depth
<1> DEFINE n == Len(s)
           depth(i) == s[i].ceiling.depth
           Bad == {j \in 1 .. n : \E i \in 1 .. n : i < j /\ ~(depth(i) < depth(j))}
<1>1. n \in Nat
  OBVIOUS
<1>2. /\ \A i \in 1 .. n : depth(i) \in Nat
      /\ \A i \in 1 .. (n - 1) : depth(i) < depth(i + 1)
  BY DEF Deepens
<1> HIDE DEF n, depth
<1>3. ASSUME Bad # {}
      PROVE  FALSE
  <2>1. Bad \subseteq Nat
    BY <1>1
  <2> HIDE DEF Bad
  <2>2. PICK j \in Bad : \A k \in Bad : j <= k
    BY <1>3, <2>1, Least
  <2> USE DEF Bad
  <2>3. PICK i \in 1 .. n : i < j /\ ~(depth(i) < depth(j))
    BY <2>2
  <2>4. /\ j \in 1 .. n /\ j - 1 \in 1 .. (n - 1) /\ j - 1 \in 1 .. n /\ (j - 1) + 1 = j
        /\ ~(j <= j - 1)
    BY <1>1, <2>2, <2>3
  <2>5. depth(j - 1) < depth(j)
    BY <1>2, <2>4
  <2>6. i # j - 1
    BY <2>3, <2>5
  <2>7. i < j - 1
    BY <1>1, <2>3, <2>4, <2>6
  <2>8. depth(i) < depth(j - 1)
    BY <2>2, <2>4, <2>7
  <2>9. depth(i) \in Nat /\ depth(j) \in Nat /\ depth(j - 1) \in Nat
    BY <1>2, <2>4
  <2>. QED
    BY <2>3, <2>5, <2>8, <2>9
<1>. QED
  BY <1>3 DEF n, depth

LEMMA Shorter ==
    ASSUME NEW U, NEW s \in Seq(U), NEW t \in Seq(U), Deepens(s), Elements(s) \subseteq Elements(t)
    PROVE  Len(s) <= Len(t)
<1> DEFINE m == Len(s)
           n == Len(t)
           f == [i \in 1 .. m |-> CHOOSE k \in 1 .. n : t[k] = s[i]]
<1>1. m \in Nat /\ n \in Nat /\ DOMAIN s = 1 .. m /\ DOMAIN t = 1 .. n
  OBVIOUS
<1>2. \A i, j \in 1 .. m : i < j => s[i].ceiling.depth < s[j].ceiling.depth
  BY Deeper
<1>3. \A i \in 1 .. m : s[i].ceiling.depth \in Nat
  BY DEF Deepens
<1> HIDE DEF m, n
<1>4. \A i \in 1 .. m : \E k \in 1 .. n : t[k] = s[i]
  BY <1>1 DEF Elements
<1>5. \A i \in 1 .. m : f[i] \in 1 .. n /\ t[f[i]] = s[i]
  BY <1>4
<1>6. f \in [1 .. m -> 1 .. n]
  BY <1>5
<1> HIDE DEF f
<1>7. ASSUME NEW i \in 1 .. m, NEW j \in 1 .. m, f[i] = f[j]
      PROVE  i = j
  <2>1. s[i] = s[j]
    BY <1>5, <1>7
  <2>2. ~(i < j) /\ ~(j < i)
    BY <1>2, <1>3, <2>1
  <2>. QED
    BY <1>1, <2>2
<1>8. f \in Injection(1 .. m, 1 .. n)
  BY <1>6, <1>7 DEF Injection, IsInjective
<1>9. /\ IsFiniteSet(1 .. n) /\ Cardinality(1 .. n) = (IF 1 > n THEN 0 ELSE n - 1 + 1)
      /\ Cardinality(1 .. m) = (IF 1 > m THEN 0 ELSE m - 1 + 1)
  BY <1>1, FS_Interval
<1>10. Cardinality(1 .. m) <= Cardinality(1 .. n)
  BY <1>8, <1>9, FS_Injection
<1>. QED
  BY <1>1, <1>9, <1>10 DEF m, n

-----------------------------------------------------------------------------
(* Evidence of one chain and no more *)

LEMMA OnlyOnes ==
    ASSUME input \in Input, ChainOnly
    PROVE  /\ Request \in Elements(Artifacts) /\ Request.kind = "request"
           /\ Roots(Artifacts) # {} /\ Root \in Roots(Artifacts)
           /\ Root \in Elements(Artifacts) /\ Root.kind = "credential"
           /\ \A q \in Elements(Artifacts) : q.kind = "request" => q = Request
<1>1. Cardinality(Roots(Artifacts)) = 1 /\ Cardinality(OfKind(Artifacts, {"request"})) = 1
  BY DEF ChainOnly
<1>2. Roots(Artifacts) # {} /\ OfKind(Artifacts, {"request"}) # {}
  BY <1>1, FS_EmptySet
<1>3. Request \in Elements(Artifacts) /\ Request.kind = "request"
  BY <1>2, RequestFound
<1>4. OfKind(Artifacts, {"request"}) \subseteq Elements(Artifacts)
      /\ Request \in OfKind(Artifacts, {"request"})
  BY <1>3 DEF OfKind
<1>5. \A q \in OfKind(Artifacts, {"request"}) : q = Request
  BY <1>1, <1>4, AtMostOne
<1>6. \A q \in Elements(Artifacts) : q.kind = "request" => q = Request
  BY <1>5 DEF OfKind
<1>. QED
  BY <1>2, <1>3, <1>6, RootFound

\* What names a delegation as its parent, of the delegations and the request,
\* is there, and is one.
LEMMA OneChild ==
    ASSUME input \in Input, ChainOnly, NEW d \in OfKind(Artifacts, {"delegation"})
    PROVE  LET signed == OfKind(Artifacts, {"delegation", "request"})
           IN  /\ \E a \in signed : a.parent.id = d.id
               /\ \A a, b \in signed : a.parent.id = d.id /\ b.parent.id = d.id => a = b
<1> DEFINE signed == OfKind(Artifacts, {"delegation", "request"})
           S == {a \in signed : a.parent.id = d.id}
<1>1. Cardinality(S) = 1
  BY DEF ChainOnly
<1>2. S \subseteq Elements(Artifacts)
  BY DEF OfKind
<1> HIDE DEF S
<1>3. S # {}
  BY <1>1, FS_EmptySet
<1>4. \A a, b \in S : a = b
  BY <1>1, <1>2, AtMostOne
<1>. QED
  BY <1>3, <1>4 DEF S

\* The delegations above the request are all the delegations there are.
LEMMA Exhausts ==
    ASSUME input \in Input, ChainOnly, NEW S, S \subseteq OfKind(Artifacts, {"delegation"}),
           \A d \in OfKind(Artifacts, {"delegation"}) : d.id = Request.parent.id => d \in S,
           \A e \in S : \A d \in OfKind(Artifacts, {"delegation"}) : d.id = e.parent.id => d \in S
    PROVE  S = OfKind(Artifacts, {"delegation"})
<1> DEFINE D == OfKind(Artifacts, {"delegation"})
           some == D \ S
<1>1. ASSUME some # {}
      PROVE  FALSE
  <2>1. some \in SUBSET D
    OBVIOUS
  <2>2. PICK d \in some : \A e \in some : e.parent.id # d.id
    <3>1. \A x \in SUBSET D : x # {} => \E d \in x : \A e \in x : e.parent.id # d.id
      BY DEF ChainOnly
    <3>. QED
      BY <1>1, <2>1, <3>1
  <2>3. PICK a \in OfKind(Artifacts, {"delegation", "request"}) : a.parent.id = d.id
    BY OneChild
  <2>4. a \in D \/ (a \in Elements(Artifacts) /\ a.kind = "request")
    BY DEF OfKind
  <2>5. CASE a \in D
    <3>1. a \in S
      BY <2>2, <2>3, <2>5
    <3>. QED
      BY <2>2, <2>3, <3>1
  <2>6. CASE a \in Elements(Artifacts) /\ a.kind = "request"
    <3>1. a = Request
      BY <2>6, OnlyOnes
    <3>. QED
      BY <2>2, <2>3, <3>1
  <2>. QED
    BY <2>4, <2>5, <2>6
<1>. QED
  BY <1>1


-----------------------------------------------------------------------------
(* What verifyArtifacts accepts for the request, verifyDelegationChain accepts *)

\* Past STATUS the chain is all the delegations there are, between the request
\* and the root.
LEMMA ChainIsAll ==
    ASSUME IInv, Checked, stage \in {"binding", "replay"}, ChainOnly
    PROVE  OfKind(Artifacts, {"delegation"}) = {chain[i] : i \in 2 .. (Len(chain) - 1)}
<1> DEFINE n == Len(chain)
           D == OfKind(Artifacts, {"delegation"})
           S == {chain[i] : i \in 2 .. (n - 1)}
<1>1. /\ input \in Input /\ ParseFault = "none" /\ Followed /\ chain \in Seq(Elements(Artifacts))
  BY DEF IInv, Checked, TypeOK
<1>2. /\ n \in Nat /\ n > 2 /\ chain[n] = Root /\ chain[1] = Request
      /\ \A i \in 2 .. (n - 1) : chain[i].kind = "delegation"
  BY ChainShape
<1>3. Distinct(Artifacts)
  BY <1>1, Formed
<1>4. \A i \in 1 .. n : chain[i] \in Elements(Artifacts)
  BY <1>1
<1>5. \A i \in 1 .. (n - 1) : Names(chain[i], chain[i + 1])
  BY <1>1 DEF Followed
<1>6. Root.kind = "credential"
  BY <1>1, OnlyOnes
<1> HIDE DEF n
<1>7. \A i \in 2 .. (n - 1) : i \in 1 .. n /\ i \in 1 .. (n - 1) /\ i + 1 \in 1 .. n
                              /\ (i + 1 = n \/ i + 1 \in 2 .. (n - 1))
  BY <1>2
<1>8. S \subseteq D
  BY <1>2, <1>4, <1>7 DEF OfKind
<1>9. ASSUME NEW d \in D, d.id = Request.parent.id
      PROVE  d \in S
  <2>1. 1 \in 1 .. (n - 1) /\ 1 + 1 = 2 /\ 2 \in 1 .. n /\ 2 \in 2 .. (n - 1)
    BY <1>2
  <2>2. chain[2].id = d.id
    BY <1>2, <1>5, <1>9, <2>1 DEF Names
  <2>3. d = chain[2]
    BY <1>3, <1>4, <2>1, <2>2, SameId DEF OfKind
  <2>. QED
    BY <2>1, <2>3
<1>10. ASSUME NEW e \in S, NEW d \in D, d.id = e.parent.id
       PROVE  d \in S
  <2>1. PICK i \in 2 .. (n - 1) : e = chain[i]
    OBVIOUS
  <2>2. chain[i + 1].id = d.id
    BY <1>5, <1>7, <1>10, <2>1 DEF Names
  <2>3. d = chain[i + 1]
    BY <1>3, <1>4, <1>7, <2>2, SameId DEF OfKind
  <2>4. i + 1 # n
    BY <1>2, <1>6, <2>3 DEF OfKind
  <2>. QED
    BY <1>7, <2>3, <2>4
<1> HIDE DEF S
<1>11. S = D
  BY <1>1, <1>8, <1>9, <1>10, Exhausts
<1>. QED
  BY <1>11 DEF S, n

\* The parents, the ends and the line that verifyDelegationChain finds.
LEMMA ChainIsLinked ==
    ASSUME IInv, Checked, stage \in {"binding", "replay"}, ChainOnly
    PROVE  LET in == DelegationInput
           IN  /\ ~Unlinked(in) /\ Cardinality(Leaves(in)) = 1 /\ LineFault(in) = "none"
               /\ Elements(Line(in)) \subseteq OfKind(Artifacts, {"delegation"})
<1> DEFINE in == DelegationInput
           n == Len(chain)
           D == OfKind(Artifacts, {"delegation"})
           N == input.snapshot.maxDepth
<1>1. /\ input \in Input /\ ParseFault = "none" /\ Followed /\ Linked /\ Nested /\ position = n
      /\ ~TooLong /\ chain \in Seq(Elements(Artifacts))
  BY DEF IInv, Checked, TypeOK
<1>2. /\ n \in Nat /\ n > 2 /\ chain[n] = Root /\ chain[1] = Request
      /\ \A i \in 2 .. (n - 1) : chain[i].kind = "delegation"
  BY ChainShape
<1>3. Distinct(Artifacts) /\ N \in Nat
  BY <1>1, Formed
<1>4. \A i \in 1 .. n : chain[i] \in Elements(Artifacts)
  BY <1>1
<1>5. \A i \in 1 .. (n - 1) : Names(chain[i], chain[i + 1]) /\ GivenTo(chain[i + 1], StatedSigner(chain[i]))
  BY <1>1 DEF Followed, Linked
<1>6. /\ Root.kind = "credential" /\ Root \in Elements(Artifacts) /\ Roots(Artifacts) # {}
      /\ Request \in Elements(Artifacts) /\ Request.kind = "request"
  BY <1>1, OnlyOnes
<1>7. D = {chain[i] : i \in 2 .. (n - 1)}
  BY ChainIsAll
<1>8. \A i, j \in 2 .. n : i < j => Attenuates(chain[i].ceiling, chain[j].ceiling)
  BY <1>1 DEF Nested
<1>9. n - 2 <= N
  BY <1>1, <1>2, <1>3 DEF TooLong
<1>10. /\ in.root = Root /\ in.snapshot = input.snapshot /\ Elements(in.delegations) = D
       /\ Elements(Linkable(in)) = {Root} \cup D
  BY <1>1, <1>6, InputParts
<1>11. \A d \in D : d \in Elements(Artifacts) /\ d.kind = "delegation"
  BY DEF OfKind
<1> HIDE DEF n, in, N
<1>12. \A i \in 2 .. (n - 1) : /\ i \in 1 .. n /\ i \in 1 .. (n - 1) /\ i + 1 \in 1 .. n /\ i \in 2 .. n
                               /\ i + 1 \in 2 .. n /\ i < i + 1
                               /\ (i + 1 = n \/ i + 1 \in 2 .. (n - 1)) /\ i - 1 \in 1 .. (n - 1)
                               /\ (i - 1) + 1 = i /\ (i = 2 \/ i - 1 \in 2 .. (n - 1))
  BY <1>2
<1>13. \A i \in 2 .. (n - 1) : chain[i + 1] \in {Root} \cup D
  BY <1>2, <1>7, <1>12
<1>14. ~Unlinked(in)
  <2>1. ASSUME NEW d \in D
        PROVE  \E p \in {Root} \cup D : p.kind = d.parent.kind /\ p.id = d.parent.id
    <3>1. PICK i \in 2 .. (n - 1) : d = chain[i]
      BY <1>7
    <3>2. Names(d, chain[i + 1])
      BY <1>5, <1>12, <3>1
    <3>. QED
      BY <1>13, <3>2 DEF Names
  <2>. QED
    BY <1>10, <2>1 DEF Unlinked
<1>15. \A i \in 2 .. (n - 1) : ParentIn(in, chain[i]) = chain[i + 1]
  <2>1. ASSUME NEW i \in 2 .. (n - 1)
        PROVE  ParentIn(in, chain[i]) = chain[i + 1]
    <3>1. chain[i] \in D /\ chain[i + 1] \in Elements(Artifacts) /\ chain[i + 1].id = chain[i].parent.id
      BY <1>4, <1>5, <1>7, <1>12 DEF Names
    <3>2. \A q \in Elements(Artifacts) : q.id = chain[i].parent.id => q = ParentIn(in, chain[i])
      BY <1>1, <1>3, <1>6, <1>14, <3>1, ParentIs DEF in
    <3>. QED
      BY <3>1, <3>2
  <2>. QED
    BY <2>1
<1>16. 1 \in 1 .. (n - 1) /\ 2 \in 2 .. (n - 1) /\ 1 + 1 = 2
  BY <1>2
<1>17. Leaves(in) = {chain[2]}
  <2>1. chain[2] \in D /\ Names(Request, chain[2])
    BY <1>2, <1>5, <1>7, <1>16
  <2>2. ASSUME NEW e \in D, e.parent.id = chain[2].id
        PROVE  FALSE
    <3>1. e \in OfKind(Artifacts, {"delegation", "request"})
          /\ Request \in OfKind(Artifacts, {"delegation", "request"})
      BY <1>6, <1>11 DEF OfKind
    <3>2. Request.parent.id = chain[2].id
      BY <2>1 DEF Names
    <3>3. e = Request
      BY <1>1, <2>1, <2>2, <3>1, <3>2, OneChild
    <3>. QED
      BY <1>6, <1>11, <3>3
  <2>3. ASSUME NEW d \in Leaves(in)
        PROVE  d = chain[2]
    <3>1. d \in D /\ \A e \in D : e.parent.id # d.id
      BY <1>10 DEF Leaves
    <3>2. PICK i \in 2 .. (n - 1) : d = chain[i]
      BY <1>7, <3>1
    <3>3. ASSUME i # 2
          PROVE  FALSE
      <4>1. i - 1 \in 2 .. (n - 1) /\ chain[i - 1] \in D
        BY <1>7, <1>12, <3>3
      <4>2. Names(chain[i - 1], chain[i])
        BY <1>5, <1>12
      <4>. QED
        BY <3>1, <3>2, <4>1, <4>2 DEF Names
    <3>. QED
      BY <3>2, <3>3
  <2>4. chain[2] \in Leaves(in)
    BY <1>10, <2>1, <2>2 DEF Leaves
  <2>. QED
    BY <2>3, <2>4
<1>18. Cardinality(Leaves(in)) = 1
  BY <1>17, FS_Singleton
<1> DEFINE line == Line(in)
<1>19. /\ line \in Seq(D)
       /\ \A i \in 1 .. (Len(line) - 1) : line[i + 1] = ParentIn(in, line[i])
  BY <1>1, <1>3, <1>6, <1>14, <1>17, LineIs DEF in
<1> HIDE DEF line, D
<1>20. Elements(line) \subseteq D /\ Len(line) \in Nat /\ \A i \in 1 .. Len(line) : line[i] \in D
  <2>1. DOMAIN line = 1 .. Len(line) /\ Len(line) \in Nat /\ \A i \in 1 .. Len(line) : line[i] \in D
    BY <1>19
  <2>. QED
    BY <2>1 DEF Elements
<1>21. ASSUME NEW d \in D
       PROVE  /\ Recipient(ParentIn(in, d)) = d.delegator
              /\ Attenuates(d.ceiling, ParentIn(in, d).ceiling)
  <2>1. PICK i \in 2 .. (n - 1) : d = chain[i]
    BY <1>7
  <2>2. ParentIn(in, d) = chain[i + 1] /\ chain[i + 1] \in {Root} \cup D
    BY <1>13, <1>15, <2>1
  <2>3. GivenTo(chain[i + 1], d.delegator)
    BY <1>5, <1>11, <1>12, <2>1 DEF StatedSigner
  <2>4. Attenuates(chain[i].ceiling, chain[i + 1].ceiling)
    BY <1>8, <1>12
  <2>. QED
    BY <1>6, <1>11, <2>1, <2>2, <2>3, <2>4 DEF Recipient, GivenTo
<1>22. Deepens(line)
  <2>1. \A d \in D : d.ceiling.depth \in Nat
    BY <1>1, <1>11, Formed
  <2>2. ASSUME NEW i \in 1 .. (Len(line) - 1)
        PROVE  line[i].ceiling.depth < line[i + 1].ceiling.depth
    <3>1. i \in 1 .. Len(line)
      BY <1>20
    <3>2. Attenuates(line[i].ceiling, line[i + 1].ceiling)
      BY <1>19, <1>20, <1>21, <3>1
    <3>. QED
      BY <3>2 DEF Attenuates
  <2>. QED
    BY <1>20, <2>1, <2>2 DEF Deepens
<1>23. Len(line) <= n - 2
  <2> DEFINE t == [i \in 1 .. (n - 2) |-> chain[i + 1]]
  <2>1. /\ \A i \in 1 .. (n - 2) : i + 1 \in 2 .. (n - 1)
        /\ \A i \in 2 .. (n - 1) : i - 1 \in 1 .. (n - 2) /\ (i - 1) + 1 = i
        /\ n - 2 \in Nat
    BY <1>2
  <2>2. \A i \in 1 .. (n - 2) : chain[i + 1] \in D
    BY <1>7, <2>1
  <2>3. t \in Seq(D) /\ Len(t) = n - 2 /\ DOMAIN t = 1 .. (n - 2)
    BY <2>1, <2>2
  <2>4. D \subseteq Elements(t)
    <3>1. ASSUME NEW d \in D
          PROVE  \E i \in DOMAIN t : t[i] = d
      <4>1. PICK i \in 2 .. (n - 1) : d = chain[i]
        BY <1>7
      <4>2. i - 1 \in 1 .. (n - 2) /\ t[i - 1] = chain[i]
        BY <2>1
      <4>. QED
        BY <2>3, <4>1, <4>2
    <3>. QED
      BY <3>1 DEF Elements
  <2> HIDE DEF t
  <2>5. Len(line) <= Len(t)
    BY <1>19, <1>20, <1>22, <2>3, <2>4, Shorter
  <2>. QED
    BY <2>3, <2>5
<1>24. ~(Len(line) > N)
  BY <1>2, <1>3, <1>9, <1>20, <1>23
<1>25. LineFault(in) = "none"
  <2>1. \A d \in Elements(line) : /\ Recipient(ParentIn(in, d)) = d.delegator
                                  /\ Attenuates(d.ceiling, ParentIn(in, d).ceiling)
    BY <1>20, <1>21
  <2>. QED
    BY <1>10, <1>24, <2>1 DEF LineFault, line, N
<1>. QED
  BY <1>14, <1>18, <1>20, <1>25 DEF in, line, D

\* STATUS of verifyDelegationChain looks at no key that the chain does not have:
\* each binding's key signs something on it.
LEMMA ChainKeysSuffice ==
    ASSUME IInv, Checked, stage \in {"binding", "replay"}, ChainOnly
    PROVE  DelegationStatusFaults(DelegationInput) = {}
<1> DEFINE in == DelegationInput
           n == Len(chain)
           D == OfKind(Artifacts, {"delegation"})
           keys == Elements(ChainKeys)
           ids == {a.id : a \in Elements(chain)}
           ordered == {Root} \cup Elements(Line(in))
           others == Elements(in.bindings)
           used == KeysOf(ordered \cup others)
<1>1. /\ input \in Input /\ ParseFault = "none" /\ StatusFault = "none"
      /\ chain \in Seq(Elements(Artifacts))
  BY DEF IInv, Checked, TypeOK
<1>2. /\ OneRoot /\ n \in Nat /\ n > 2 /\ chain[n] = Root /\ chain[1] = Request
  BY ChainShape
<1>3. /\ Roots(Artifacts) # {} /\ Root \in Elements(Artifacts) /\ Root.kind = "credential"
      /\ \A q \in Elements(Artifacts) : q.kind = "request" => q = Request
  BY <1>1, OnlyOnes
<1>4. D = {chain[i] : i \in 2 .. (n - 1)} /\ Elements(Line(in)) \subseteq D
  BY ChainIsAll, ChainIsLinked
<1>5. /\ in.root = Root /\ in.now = input.now
      /\ others = {c \in OfKind(Artifacts, {"credential"}) : c.id # Root.id}
      /\ Elements(in.status) = OfKind(Artifacts, {"key_status", "revocation"})
  BY <1>1, <1>3, InputParts
<1>6. \A a \in Elements(chain) : OwnKeys(a) \subseteq keys
  BY <1>2, KeysOfChain
<1>7. /\ \A k \in keys : KeyFault(k) = "none"
      /\ \A r \in Elements(Artifacts) : ~Revokes(r, ids, keys, input.now)
  BY <1>1, StatusHolds
<1>8. Root \in Elements(chain) /\ Request \in Elements(chain) /\ D \subseteq Elements(chain)
  <2>1. DOMAIN chain = 1 .. n
    BY <1>1
  <2>2. n \in 1 .. n /\ 1 \in 1 .. n /\ \A i \in 2 .. (n - 1) : i \in 1 .. n
    BY <1>2
  <2>. QED
    BY <1>2, <1>4, <2>1, <2>2 DEF Elements
<1>9. \A c \in OfKind(Artifacts, {"credential"}) :
        (\E a \in OfKind(Artifacts, {"delegation", "request"}) : a.kid = c.key) /\ c.kid = Root.kid
  BY DEF ChainOnly
<1>10. \A a \in OfKind(Artifacts, {"delegation", "request"}) : a \in D \/ a = Request
  BY <1>3 DEF OfKind
<1> HIDE DEF n, D, keys, ids, in
<1>11. \A a : a.kid \in OwnKeys(a) /\ (a.kind = "credential" => a.key \in OwnKeys(a))
  BY DEF OwnKeys
<1>12. \A a \in ordered : a \in Elements(chain)
  BY <1>4, <1>8
<1>13. ASSUME NEW a \in ordered \cup others
       PROVE  a.kid \in keys /\ (a.kind = "credential" => a.key \in keys)
  <2>1. CASE a \in ordered
    BY <1>6, <1>11, <1>12, <2>1
  <2>2. CASE a \in others
    <3>1. a \in OfKind(Artifacts, {"credential"})
      BY <1>5, <2>2
    <3>2. PICK b \in OfKind(Artifacts, {"delegation", "request"}) : b.kid = a.key
      BY <1>9, <3>1
    <3>3. b \in Elements(chain)
      BY <1>8, <1>10
    <3>. QED
      BY <1>6, <1>8, <1>9, <1>11, <3>1, <3>2, <3>3
  <2>. QED
    BY <2>1, <2>2
<1> HIDE DEF ordered, others
<1>14. used \subseteq keys
  BY <1>13 DEF KeysOf
<1> HIDE DEF used
<1>15. \A k \in used : DelegationKeyFault(in, k) = "none"
  BY <1>1, <1>3, <1>7, <1>14, SameKeyFault DEF in
<1>16. ASSUME NEW r \in Elements(in.status), Revokes(r, {a.id : a \in ordered}, used, in.now)
       PROVE  FALSE
  <2>1. r \in Elements(Artifacts)
    BY <1>5 DEF OfKind
  <2>2. {a.id : a \in ordered} \subseteq ids
    BY <1>12 DEF ids
  <2>3. Revokes(r, ids, keys, input.now)
    BY <1>5, <1>14, <1>16, <2>2 DEF Revokes
  <2>. QED
    BY <1>7, <2>1, <2>3
<1>17. DelegationStatusFaults(in) =
         LET faults == {DelegationKeyFault(in, k) : k \in used} \ {"none"}
         IN  IF faults # {} THEN faults
             ELSE IF \E r \in Elements(in.status) : Revokes(r, {a.id : a \in ordered}, used, in.now)
               THEN {"REVOKED"}
             ELSE {}
  BY <1>5 DEF DelegationStatusFaults, used, ordered, others
<1>18. {DelegationKeyFault(in, k) : k \in used} \ {"none"} = {}
  BY <1>15
<1>. QED
  BY <1>16, <1>17, <1>18 DEF in

LEMMA ChainAccepted ==
    ASSUME IInv, Checked, stage \in {"binding", "replay"}, ChainOnly
    PROVE  Accepts
<1>1. /\ input \in Input /\ ParseFault = "none"
      /\ CryptoFaults(Artifacts, input.snapshot) = "none"
      /\ TimeFaults(Artifacts, input.now, input.snapshot.skew) = "none"
  BY DEF IInv, Checked, TypeOK
<1>2. Distinct(Artifacts)
  BY <1>1, Formed
<1>3. \A a \in Elements(Artifacts) : Sound(a)
  BY <1>1, SoundAll
<1>4. Roots(Artifacts) # {}
  BY <1>1, OnlyOnes
<1>5. LET in == DelegationInput
      IN  /\ DelegationParseFault(in) = "none"
          /\ CryptoFaults(All(in), input.snapshot) = "none"
          /\ TimeFaults(All(in), input.now, input.snapshot.skew) = "none"
  BY <1>1, <1>2, <1>3, SameChecks
<1>6. RootFault(Root, input.snapshot) = "none"
  BY ChainShape
<1>. QED
  BY <1>1, <1>4, <1>5, <1>6, ChainIsLinked, ChainKeysSuffice, AcceptsWhen

-----------------------------------------------------------------------------
(* What verifyDelegationChain accepts, verifyArtifacts does not stop at before *)
(* it has passed STATUS, unless the request is at fault                       *)

GoodRequest ==
    /\ Request.formed /\ Request.linked /\ Sound(Request) /\ Live(Request)
    /\ GivenTo(Parent(Request), Request.signer)
    /\ Request.signer = input.context.signer
    /\ input.archived # "bad"
    /\ Distinct(Artifacts)

Agreed == ChainOnly /\ Accepts /\ GoodRequest

LEMMA AgreedEarly ==
    ASSUME input \in Input, Agreed
    PROVE  /\ ParseFault = "none" /\ \A a \in Elements(Artifacts) : Sound(a)
           /\ RequestFault = "none" /\ TrustFault = "none"
           /\ ~Unlinked(DelegationInput) /\ \E leaf : Leaves(DelegationInput) = {leaf}
           /\ LineFault(DelegationInput) = "none"
           /\ DelegationStatusFaults(DelegationInput) = {}
<1> DEFINE in == DelegationInput
<1>1. ChainOnly /\ Accepts /\ Request.formed /\ Request.linked /\ Sound(Request) /\ Distinct(Artifacts)
  BY DEF Agreed, GoodRequest
<1>2. /\ Request \in Elements(Artifacts) /\ Request.kind = "request" /\ Roots(Artifacts) # {}
  BY <1>1, OnlyOnes
<1>3. /\ DelegationParseFault(in) = "none"
      /\ CryptoFaults(All(in), input.snapshot) = "none"
      /\ TimeFaults(All(in), input.now, input.snapshot.skew) = "none"
      /\ RootFault(Root, input.snapshot) = "none"
      /\ ~Unlinked(in) /\ Cardinality(Leaves(in)) = 1 /\ LineFault(in) = "none"
      /\ DelegationStatusFaults(in) = {}
  BY <1>1, <1>2, AcceptsWhen
<1>4. Elements(in.delegations) = OfKind(Artifacts, {"delegation"})
  BY <1>2, InputParts
<1>5. Leaves(in) \subseteq Elements(Artifacts)
  BY <1>4 DEF Leaves, OfKind
<1> DEFINE S == Leaves(in)
<1> HIDE DEF S
<1>6. S \subseteq Elements(Artifacts) /\ Cardinality(S) = 1
  BY <1>3, <1>5 DEF S
<1>7. S # {}
  BY <1>6, FS_EmptySet
<1>8. PICK leaf \in S : TRUE
  BY <1>7
<1>9. \A d \in S : d = leaf
  BY <1>6, AtMostOne
<1>10. S = {leaf}
  BY <1>9
<1>11. ParseFault = "none" /\ \A a \in Elements(Artifacts) : Sound(a)
  BY <1>1, <1>3, SameChecks
<1>12. RequestFault = "none"
  BY <1>1, <1>2 DEF RequestFault, OfKind
<1>13. TrustFault = "none"
  BY <1>2, <1>3 DEF TrustFault
<1>. QED
  BY <1>3, <1>10, <1>11, <1>12, <1>13 DEF S, in

\* The request names the leaf.
LEMMA RequestNamesLeaf ==
    ASSUME input \in Input, Agreed, NEW leaf, Leaves(DelegationInput) = {leaf}
    PROVE  /\ Request.parent.kind = "delegation" /\ Request.parent.id = leaf.id
           /\ leaf \in OfKind(Artifacts, {"delegation"})
<1> DEFINE D == OfKind(Artifacts, {"delegation"})
<1>1. ChainOnly /\ Request.formed
  BY DEF Agreed, GoodRequest
<1>2. /\ Request \in Elements(Artifacts) /\ Request.kind = "request" /\ Roots(Artifacts) # {}
      /\ \A q \in Elements(Artifacts) : q.kind = "request" => q = Request
  BY <1>1, OnlyOnes
<1>3. Elements(DelegationInput.delegations) = D
  BY <1>2, InputParts
<1>4. leaf \in D /\ \A e \in D : e.parent.id # leaf.id
  BY <1>3 DEF Leaves
<1>5. PICK a \in OfKind(Artifacts, {"delegation", "request"}) : a.parent.id = leaf.id
  BY <1>1, <1>4, OneChild
<1>6. a = Request
  BY <1>2, <1>4, <1>5 DEF OfKind
<1>7. Request.parent.kind = "delegation"
  <2>1. \A q \in {b \in OfKind(Artifacts, {"request"}) : b.formed} : q.parent.kind = "delegation"
    BY InputAssumption DEF Artifacts
  <2>. QED
    BY <1>1, <1>2, <2>1 DEF OfKind
<1>. QED
  BY <1>4, <1>5, <1>6, <1>7

\* The line has all the delegations: each is given by the one above it, within
\* its ceiling.
LEMMA LineIsAll ==
    ASSUME input \in Input, Agreed
    PROVE  LET in == DelegationInput
               D == OfKind(Artifacts, {"delegation"})
           IN  /\ Line(in) \in Seq(D) /\ Elements(Line(in)) = D
               /\ Len(Line(in)) <= input.snapshot.maxDepth
               /\ \A d \in D : /\ Recipient(ParentIn(in, d)) = d.delegator
                               /\ Attenuates(d.ceiling, ParentIn(in, d).ceiling)
<1> DEFINE in == DelegationInput
           D == OfKind(Artifacts, {"delegation"})
           line == Line(in)
           m == Len(line)
           S == Elements(line)
<1>1. /\ ChainOnly /\ Distinct(Artifacts)
      /\ ParseFault = "none" /\ ~Unlinked(in) /\ LineFault(in) = "none"
  BY AgreedEarly DEF Agreed, GoodRequest
<1>2. PICK leaf : Leaves(in) = {leaf}
  BY AgreedEarly
<1>3. Roots(Artifacts) # {} /\ Root.kind = "credential"
  BY <1>1, OnlyOnes
<1>4. /\ in.snapshot = input.snapshot /\ in.delegations \in Seq(Elements(Artifacts))
      /\ Elements(in.delegations) = D
  BY <1>3, InputParts
<1>5. input.snapshot.maxDepth \in Nat
  BY <1>1, Formed
<1>6. Request.parent.id = leaf.id /\ leaf \in D
  BY <1>2, RequestNamesLeaf
<1>7. /\ line \in Seq(D) /\ line # << >> /\ line[1] = leaf
      /\ \A i \in 1 .. (m - 1) : line[i + 1] = ParentIn(in, line[i])
      /\ ParentIn(in, line[m]) = Root \/ m > Len(in.delegations)
  BY <1>1, <1>2, <1>3, LineIs
<1>8. \A d \in D : /\ ParentIn(in, d) \in {Root} \cup D
                   /\ \A q \in Elements(Artifacts) : q.id = d.parent.id => q = ParentIn(in, d)
  BY <1>1, <1>3, ParentIs
<1>9. \A d \in D : d \in Elements(Artifacts) /\ d.kind = "delegation" /\ d.ceiling.depth \in Nat
  BY <1>1, Formed DEF OfKind
<1>10. /\ \A d \in S : /\ Recipient(ParentIn(in, d)) = d.delegator
                       /\ Attenuates(d.ceiling, ParentIn(in, d).ceiling)
       /\ ~(m > input.snapshot.maxDepth)
  BY <1>1, <1>4 DEF LineFault
<1> HIDE DEF in, D, line
<1>11. m \in Nat \ {0} /\ DOMAIN line = 1 .. m
  BY <1>7
<1> HIDE DEF m
<1>12. /\ \A i \in 1 .. m : line[i] \in S /\ line[i] \in D
       /\ \A i \in 1 .. (m - 1) : i \in 1 .. m /\ i + 1 \in 1 .. m
       /\ \A i \in 1 .. m : i = m \/ i \in 1 .. (m - 1)
       /\ 1 \in 1 .. m /\ m \in 1 .. m
  BY <1>7, <1>11 DEF Elements
<1>13. S \subseteq D
  BY <1>11, <1>12 DEF Elements
<1>14. Deepens(line)
  <2>1. \A i \in 1 .. (m - 1) : line[i].ceiling.depth < line[i + 1].ceiling.depth
    BY <1>7, <1>10, <1>12 DEF Attenuates
  <2>. QED
    BY <1>9, <1>12, <2>1 DEF Deepens, m
<1>15. m <= Len(in.delegations)
  <2>1. line \in Seq(Elements(Artifacts))
    <3>1. D \subseteq Elements(Artifacts)
      BY <1>9
    <3>. QED
      BY <1>7, <3>1
  <2>. QED
    BY <1>4, <1>13, <1>14, <2>1, Shorter DEF m
<1>16. ParentIn(in, line[m]) = Root
  <2>1. Len(in.delegations) \in Nat
    BY <1>4
  <2>. QED
    BY <1>7, <1>11, <1>15, <2>1
<1>17. ASSUME NEW d \in D, d.id = Request.parent.id
       PROVE  d \in S
  <2>1. d = leaf
    BY <1>1, <1>6, <1>9, <1>17, SameId
  <2>. QED
    BY <1>7, <1>12, <2>1
<1>18. ASSUME NEW e \in S, NEW d \in D, d.id = e.parent.id
       PROVE  d \in S
  <2>1. PICK i \in 1 .. m : e = line[i]
    BY <1>11 DEF Elements
  <2>2. d = ParentIn(in, e)
    BY <1>8, <1>9, <1>13, <1>18
  <2>3. i # m
    BY <1>3, <1>9, <1>16, <2>1, <2>2
  <2>. QED
    BY <1>7, <1>12, <2>1, <2>2, <2>3
<1> HIDE DEF S
<1>19. S = D
  BY <1>1, <1>13, <1>17, <1>18, Exhausts DEF D
<1>20. m <= input.snapshot.maxDepth
  BY <1>5, <1>10, <1>11
<1>. QED
  BY <1>7, <1>10, <1>19, <1>20 DEF S, m, line, D, in

\* On the way up from the request there are delegations, and then the root.
LEMMA AgreedChain ==
    ASSUME IInv, Checked, Agreed, stage \in InChain
    PROVE  LET in == DelegationInput
               D == OfKind(Artifacts, {"delegation"})
               n == Len(chain)
           IN  /\ n \in Nat \ {0} /\ DOMAIN chain = 1 .. n /\ chain[1] = Request
               /\ \A i \in 2 .. n : chain[i] \in {Root} \cup D /\ chain[i].ceiling.depth \in Nat
               /\ \A i \in 2 .. (n - 1) : chain[i] \in D
                                          /\ Attenuates(chain[i].ceiling, chain[i + 1].ceiling)
<1> DEFINE in == DelegationInput
           D == OfKind(Artifacts, {"delegation"})
           n == Len(chain)
<1>1. /\ input \in Input /\ Linked /\ Followed /\ chain \in Seq(Elements(Artifacts)) /\ ChainOnly
      /\ ParseFault = "none" /\ Distinct(Artifacts) /\ ~Unlinked(in)
  BY AgreedEarly DEF IInv, TypeOK, Checked, InChain, Agreed, GoodRequest
<1>2. /\ Root.kind = "credential" /\ Root \in Elements(Artifacts) /\ Roots(Artifacts) # {}
      /\ \A q \in Elements(Artifacts) : q.kind = "request" => q = Request
  BY <1>1, OnlyOnes
<1>3. Request.parent.kind = "delegation"
  BY <1>1, AgreedEarly, RequestNamesLeaf
<1>4. \A d \in D : /\ ParentIn(in, d) \in {Root} \cup D
                   /\ \A q \in Elements(Artifacts) : q.id = d.parent.id => q = ParentIn(in, d)
  BY <1>1, <1>2, ParentIs
<1>5. \A d \in D : Attenuates(d.ceiling, ParentIn(in, d).ceiling)
  BY <1>1, LineIsAll
<1>6. \A a \in Elements(Artifacts) : a.kind = "delegation" <=> a \in D
  BY DEF OfKind
<1>7. \A a \in {Root} \cup D : a.ceiling.depth \in Nat
  BY <1>1, <1>2, Formed DEF OfKind
<1>8. /\ n \in Nat \ {0} /\ DOMAIN chain = 1 .. n /\ chain[1] = Request
      /\ \A i \in 1 .. n : chain[i] \in Elements(Artifacts)
  BY <1>1 DEF Linked
<1>9. \A i \in 1 .. (n - 1) : chain[i].kind \in {"request", "delegation"} /\ Names(chain[i], chain[i + 1])
  BY <1>1 DEF Followed
<1> HIDE DEF n, D, in
<1>10. \A i \in 2 .. n : i \in 1 .. n /\ i - 1 \in 1 .. (n - 1) /\ i - 1 \in 1 .. n /\ (i - 1) + 1 = i
  BY <1>8
<1>11. ASSUME NEW i \in 2 .. n
       PROVE  chain[i] \in {Root} \cup D
  <2>1. /\ chain[i - 1].kind \in {"request", "delegation"} /\ Names(chain[i - 1], chain[i])
        /\ chain[i] \in Elements(Artifacts) /\ chain[i - 1] \in Elements(Artifacts)
    BY <1>8, <1>9, <1>10
  <2>2. CASE chain[i - 1].kind = "request"
    <3>1. chain[i].kind = "delegation"
      BY <1>2, <1>3, <2>1, <2>2 DEF Names
    <3>. QED
      BY <1>6, <2>1, <3>1
  <2>3. CASE chain[i - 1].kind = "delegation"
    <3>1. chain[i - 1] \in D /\ chain[i].id = chain[i - 1].parent.id
      BY <1>6, <2>1, <2>3 DEF Names
    <3>2. chain[i] = ParentIn(in, chain[i - 1])
      BY <1>4, <2>1, <3>1
    <3>. QED
      BY <1>4, <3>1, <3>2
  <2>. QED
    BY <2>1, <2>2, <2>3
<1>12. ASSUME NEW i \in 2 .. (n - 1)
       PROVE  chain[i] \in D /\ Attenuates(chain[i].ceiling, chain[i + 1].ceiling)
  <2>1. i \in 2 .. n /\ i \in 1 .. (n - 1) /\ i + 1 \in 1 .. n
    BY <1>8
  <2>2. chain[i] \in D
    BY <1>2, <1>9, <1>11, <2>1
  <2>3. chain[i + 1] = ParentIn(in, chain[i])
    BY <1>4, <1>8, <1>9, <2>1, <2>2 DEF Names
  <2>. QED
    BY <1>5, <2>2, <2>3
<1>. QED
  BY <1>7, <1>8, <1>11, <1>12 DEF n, D

LEMMA AgreedFollow ==
    ASSUME IInv, Checked, Agreed, stage = "chain", Current.kind \in {"request", "delegation"}
    PROVE  LinkFault(Current) = "none"
<1> DEFINE in == DelegationInput
           D == OfKind(Artifacts, {"delegation"})
           n == Len(chain)
<1>1. /\ input \in Input /\ ChainOnly /\ Distinct(Artifacts) /\ ~Unlinked(in) /\ ParseFault = "none"
      /\ GivenTo(Parent(Request), Request.signer)
  BY AgreedEarly DEF IInv, Agreed, GoodRequest
<1>2. /\ Root.kind = "credential" /\ Root.purpose = "agent-root-authority"
      /\ Request.kind = "request" /\ Roots(Artifacts) # {}
  BY <1>1, OnlyOnes DEF Roots
<1>3. /\ n \in Nat \ {0} /\ DOMAIN chain = 1 .. n /\ chain[1] = Request
      /\ \A i \in 2 .. n : chain[i] \in {Root} \cup D /\ chain[i].ceiling.depth \in Nat
      /\ \A i \in 2 .. (n - 1) : chain[i] \in D
                                 /\ Attenuates(chain[i].ceiling, chain[i + 1].ceiling)
  BY AgreedChain DEF InChain
<1>4. \A a \in D : a \in Elements(Artifacts) /\ a.kind = "delegation"
  BY DEF OfKind
<1>5. Current = chain[n]
  BY DEF Current
<1>6. \A i \in 1 .. n : i = 1 \/ i \in 2 .. n
  BY <1>3
<1>7. CASE n = 1
  <2>1. Current = Request
    BY <1>3, <1>5, <1>7
  <2>2. PICK leaf \in D : Request.parent.kind = "delegation" /\ Request.parent.id = leaf.id
    BY <1>1, AgreedEarly, RequestNamesLeaf
  <2>3. leaf \in Named(Request)
    BY <1>4, <2>2 DEF Named
  <2>4. \A o \in Named(Request) : o = leaf
    BY <1>1, <1>4, <2>2, SameId DEF Named
  <2>5. Parent(Request) = leaf
    BY <2>3, <2>4 DEF Parent
  <2>6. leaf \notin Elements(chain)
    <3>1. \A a \in Elements(chain) : a = Request
      BY <1>3, <1>7 DEF Elements
    <3>. QED
      BY <1>2, <1>4, <3>1
  <2>. QED
    BY <1>1, <1>2, <1>4, <2>1, <2>2, <2>3, <2>5, <2>6 DEF LinkFault, StatedSigner
<1>8. CASE n # 1
  <2> DEFINE p == ParentIn(in, Current)
  <2>1. n \in 2 .. n
    BY <1>3, <1>8
  <2>2. Current \in D
    BY <1>2, <1>3, <1>5, <2>1
  <2>3. /\ p \in {Root} \cup D /\ p \in Elements(Artifacts) /\ Names(Current, p)
        /\ \A q \in Elements(Artifacts) : q.id = Current.parent.id => q = p
    BY <1>1, <1>2, <2>2, ParentIs
  <2>4. Recipient(p) = Current.delegator /\ Attenuates(Current.ceiling, p.ceiling)
    BY <1>1, <2>2, LineIsAll
  <2> HIDE DEF p, n, D
  <2>5. p \in Named(Current) /\ \A o \in Named(Current) : o = p
    BY <2>3 DEF Named, Names
  <2>6. Parent(Current) = p
    BY <2>5 DEF Parent
  <2>7. p.kind \in {"credential", "delegation"} /\ p.ceiling.depth \in Nat
    <3>1. p.kind \in {"credential", "delegation"}
      BY <1>2, <1>4, <2>3
    <3>. QED
      BY <1>1, <2>3, <3>1, Formed
  <2>8. ASSUME NEW j \in 1 .. n, p = chain[j]
        PROVE  FALSE
    <3>1. j # 1
      BY <1>2, <1>3, <2>7, <2>8
    <3>2. j \in 2 .. n
      BY <1>6, <3>1
    <3> DEFINE s == [i \in 1 .. (n - 1) |-> chain[i + 1]]
               U == {Root} \cup D
    <3>3. /\ \A i \in 1 .. (n - 1) : i + 1 \in 2 .. n
          /\ \A i \in 1 .. ((n - 1) - 1) : i + 1 \in 2 .. (n - 1) /\ i \in 1 .. (n - 1) /\ i + 1 \in 1 .. (n - 1)
          /\ n - 1 \in Nat
      BY <1>3
    <3>4. \A i \in 1 .. (n - 1) : chain[i + 1] \in U
      BY <1>3, <3>3
    <3>5. s \in Seq(U) /\ Len(s) = n - 1 /\ \A i \in 1 .. (n - 1) : s[i] = chain[i + 1]
      BY <3>3, <3>4
    <3> HIDE DEF s, U
    <3>6. Deepens(s)
      <4>1. \A i \in 1 .. (n - 1) : s[i].ceiling.depth \in Nat
        BY <1>3, <3>3, <3>5
      <4>2. ASSUME NEW i \in 1 .. ((n - 1) - 1)
            PROVE  s[i].ceiling.depth < s[i + 1].ceiling.depth
        <5>1. Attenuates(chain[i + 1].ceiling, chain[(i + 1) + 1].ceiling)
          BY <1>3, <3>3
        <5>2. s[i] = chain[i + 1] /\ s[i + 1] = chain[(i + 1) + 1]
          BY <3>3, <3>5
        <5>. QED
          BY <5>1, <5>2 DEF Attenuates
      <4>. QED
        BY <3>5, <4>1, <4>2 DEF Deepens
    <3>7. \A i, k \in 1 .. Len(s) : i < k => s[i].ceiling.depth < s[k].ceiling.depth
      BY <3>5, <3>6, Deeper
    <3>8. j - 1 \in 1 .. (n - 1) /\ n - 1 \in 1 .. (n - 1) /\ (j - 1 < n - 1 \/ j = n)
          /\ (j - 1) + 1 = j /\ (n - 1) + 1 = n
      BY <1>3, <3>2
    <3>9. s[j - 1] = p /\ s[n - 1] = Current
      BY <1>5, <2>8, <3>5, <3>8 DEF n
    <3>10. p.ceiling.depth < Current.ceiling.depth \/ p = Current
      BY <1>5, <2>8, <3>5, <3>7, <3>8, <3>9 DEF n
    <3>11. Current.ceiling.depth < p.ceiling.depth /\ Current.ceiling.depth \in Nat
      BY <1>3, <1>5, <2>1, <2>4 DEF Attenuates, n
    <3>. QED
      BY <2>7, <3>10, <3>11
  <2>9. p \notin Elements(chain)
    BY <1>3, <2>8 DEF Elements, n
  <2>10. GivenTo(p, Current.delegator)
    BY <1>2, <1>4, <2>3, <2>4, <2>7 DEF GivenTo, Recipient
  <2>. QED
    BY <1>4, <2>2, <2>3, <2>5, <2>6, <2>9, <2>10 DEF LinkFault, StatedSigner, Names
<1>. QED
  BY <1>7, <1>8

LEMMA AgreedEndChain ==
    ASSUME IInv, Checked, Agreed, stage = "chain", Current.kind \notin {"request", "delegation"}
    PROVE  Current = Root /\ ~TooLong
<1> DEFINE D == OfKind(Artifacts, {"delegation"})
           n == Len(chain)
           line == Line(DelegationInput)
           N == input.snapshot.maxDepth
<1>1. input \in Input /\ ChainOnly /\ ParseFault = "none"
  BY AgreedEarly DEF IInv, Agreed
<1>2. Request.kind = "request"
  BY <1>1, OnlyOnes
<1>3. /\ n \in Nat \ {0} /\ DOMAIN chain = 1 .. n /\ chain[1] = Request
      /\ \A i \in 2 .. n : chain[i] \in {Root} \cup D /\ chain[i].ceiling.depth \in Nat
      /\ \A i \in 2 .. (n - 1) : chain[i] \in D
                                 /\ Attenuates(chain[i].ceiling, chain[i + 1].ceiling)
  BY AgreedChain DEF InChain
<1>4. \A a \in D : a \in Elements(Artifacts) /\ a.kind = "delegation"
  BY DEF OfKind
<1>5. Current = chain[n]
  BY DEF Current
<1>6. line \in Seq(D) /\ Elements(line) = D /\ Len(line) <= N
  BY <1>1, LineIsAll
<1>7. N \in Nat
  BY <1>1, Formed
<1> HIDE DEF n, D, line, N
<1>8. n # 1 /\ n \in 2 .. n
  BY <1>2, <1>3, <1>5
<1>9. Current = Root
  BY <1>3, <1>4, <1>5, <1>8
<1> DEFINE s == [i \in 1 .. (n - 2) |-> chain[i + 1]]
<1>10. /\ \A i \in 1 .. (n - 2) : i + 1 \in 2 .. (n - 1) /\ i + 1 \in 2 .. n
       /\ \A i \in 1 .. ((n - 2) - 1) : i \in 1 .. (n - 2) /\ i + 1 \in 1 .. (n - 2)
       /\ n - 2 \in Nat
  BY <1>8
<1>11. s \in Seq(D) /\ Len(s) = n - 2 /\ DOMAIN s = 1 .. (n - 2) /\ \A i \in 1 .. (n - 2) : s[i] = chain[i + 1]
  BY <1>3, <1>10
<1> HIDE DEF s
<1>12. Deepens(s)
  <2>1. \A i \in 1 .. (n - 2) : s[i].ceiling.depth \in Nat
    BY <1>3, <1>10, <1>11
  <2>2. ASSUME NEW i \in 1 .. ((n - 2) - 1)
        PROVE  s[i].ceiling.depth < s[i + 1].ceiling.depth
    <3>1. Attenuates(chain[i + 1].ceiling, chain[(i + 1) + 1].ceiling)
      BY <1>3, <1>10
    <3>2. s[i] = chain[i + 1] /\ s[i + 1] = chain[(i + 1) + 1]
      BY <1>10, <1>11
    <3>. QED
      BY <3>1, <3>2 DEF Attenuates
  <2>. QED
    BY <1>11, <2>1, <2>2 DEF Deepens
<1>13. Elements(s) \subseteq Elements(line)
  BY <1>3, <1>6, <1>10, <1>11 DEF Elements
<1>14. n - 2 <= Len(line)
  BY <1>6, <1>11, <1>12, <1>13, Shorter
<1>15. Len(line) \in Nat
  BY <1>6
<1>16. ~(n - 2 > N)
  BY <1>6, <1>7, <1>10, <1>14, <1>15
<1>. QED
  BY <1>9, <1>16 DEF TooLong, n, N

LEMMA AgreedAttenuate ==
    ASSUME IInv, Checked, Agreed, stage = "attenuation", position < Len(chain)
    PROVE  Narrows(chain[position], chain[position + 1])
<1> DEFINE D == OfKind(Artifacts, {"delegation"})
           n == Len(chain)
           p == position
<1>1. input \in Input /\ ChainOnly /\ p \in 2 .. n /\ p < n
  BY DEF IInv, Agreed, Nested
<1>2. Root.kind = "credential"
  BY <1>1, OnlyOnes
<1>3. /\ n \in Nat \ {0}
      /\ \A i \in 2 .. n : chain[i] \in {Root} \cup D
      /\ \A i \in 2 .. (n - 1) : chain[i] \in D
                                 /\ Attenuates(chain[i].ceiling, chain[i + 1].ceiling)
  BY AgreedChain DEF InChain
<1>4. \A a \in D : a.kind = "delegation"
  BY DEF OfKind
<1> HIDE DEF n, p, D
<1>5. p \in 2 .. (n - 1) /\ p + 1 \in 2 .. n
  BY <1>1, <1>3
<1>6. chain[p].kind \in {"credential", "delegation"} /\ chain[p + 1].kind \in {"credential", "delegation"}
  BY <1>1, <1>2, <1>3, <1>4, <1>5
<1>. QED
  BY <1>3, <1>5, <1>6 DEF Narrows, p

\* The keys and the artifacts of the chain are among those that
\* verifyDelegationChain has looked at, but for the request, which is live.
LEMMA AgreedStatus ==
    ASSUME IInv, Checked, Agreed, stage = "status"
    PROVE  StatusFault = "none"
<1> DEFINE in == DelegationInput
           n == Len(chain)
           D == OfKind(Artifacts, {"delegation"})
           keys == Elements(ChainKeys)
           ids == {a.id : a \in Elements(chain)}
           ordered == {Root} \cup Elements(Line(in))
           others == Elements(in.bindings)
           used == KeysOf(ordered \cup others)
<1>1. /\ input \in Input /\ ParseFault = "none" /\ chain \in Seq(Elements(Artifacts))
      /\ ChainOnly /\ Distinct(Artifacts) /\ Live(Request) /\ Sound(Request)
      /\ DelegationStatusFaults(in) = {}
  BY AgreedEarly DEF IInv, TypeOK, Agreed, GoodRequest
<1>2. OneRoot /\ n \in Nat /\ chain[1] = Request
  BY ChainShape
<1>3. /\ Roots(Artifacts) # {} /\ Root \in Elements(Artifacts) /\ Root.kind = "credential"
      /\ Request.kind = "request"
  BY <1>1, OnlyOnes
<1>4. \A i \in 2 .. n : chain[i] \in {Root} \cup D
  BY AgreedChain DEF InChain
<1>5. Elements(Line(in)) = D
  BY <1>1, LineIsAll
<1>6. /\ in.root = Root /\ in.now = input.now
      /\ others = {c \in OfKind(Artifacts, {"credential"}) : c.id # Root.id}
      /\ Elements(in.status) = OfKind(Artifacts, {"key_status", "revocation"})
  BY <1>1, <1>3, InputParts
<1>7. \A k \in keys : \E a \in Elements(chain) : k \in OwnKeys(a)
  BY <1>2, KeysOfChain
<1>8. \A a \in Elements(chain) : a = Request \/ a \in ordered
  <2>1. DOMAIN chain = 1 .. n
    BY <1>1
  <2>2. \A i \in 1 .. n : i = 1 \/ i \in 2 .. n
    BY <1>2
  <2>. QED
    BY <1>2, <1>4, <1>5, <2>1, <2>2 DEF Elements
<1>9. \A a : CryptoFault(a, Artifacts, input.snapshot) = "none" =>
               Pinned(a, input.snapshot) \/ HasHolder(Artifacts, a.kid)
  BY DEF CryptoFault
<1>10. DelegationStatusFaults(in) =
         LET faults == {DelegationKeyFault(in, k) : k \in used} \ {"none"}
         IN  IF faults # {} THEN faults
             ELSE IF \E r \in Elements(in.status) : Revokes(r, {a.id : a \in ordered}, used, in.now)
               THEN {"REVOKED"}
             ELSE {}
  BY <1>6 DEF DelegationStatusFaults
<1> HIDE DEF n, D, keys, ids, in, used
<1>11. /\ \A k \in used : DelegationKeyFault(in, k) = "none"
       /\ \A r \in Elements(in.status) : ~Revokes(r, {a.id : a \in ordered}, used, in.now)
  BY <1>1, <1>10
<1>12. \A a \in ordered \cup others : a.kid \in used /\ (a.kind = "credential" => a.key \in used)
  <2> HIDE DEF ordered, others
  <2>. QED
    BY DEF used, KeysOf
<1>13. Request.kid \in used
  <2>1. HasHolder(Artifacts, Request.kid)
    BY <1>1, <1>3, <1>9 DEF Sound, Pinned
  <2>2. PICK c \in Elements(Artifacts) : c.kind = "credential" /\ c.key = Request.kid
    BY <2>1 DEF HasHolder, Elements
  <2>3. c = Root \/ c \in others
    BY <1>1, <1>3, <1>6, <2>2, SameId DEF OfKind
  <2>4. c \in ordered \cup others
    BY <2>3
  <2>. QED
    BY <1>12, <2>2, <2>4
<1>14. keys \subseteq used
  <2>1. ASSUME NEW k \in keys
        PROVE  k \in used
    <3>1. PICK a \in Elements(chain) : k \in OwnKeys(a)
      BY <1>7
    <3>2. CASE a = Request
      BY <1>3, <1>13, <3>1, <3>2 DEF OwnKeys
    <3>3. CASE a \in ordered
      BY <1>12, <3>1, <3>3 DEF OwnKeys
    <3>. QED
      BY <1>8, <3>2, <3>3
  <2>. QED
    BY <2>1
<1>15. \A k \in keys : KeyFault(k) = "none"
  BY <1>1, <1>3, <1>11, <1>14, SameKeyFault DEF in
<1>16. ASSUME NEW r \in Elements(Artifacts), Revokes(r, ids, keys, input.now)
       PROVE  FALSE
  <2>1. r \in Elements(in.status)
    BY <1>6, <1>16 DEF Revokes, OfKind
  <2>2. CASE r.type = "key"
    <3>1. Revokes(r, {a.id : a \in ordered}, used, in.now)
      BY <1>6, <1>14, <1>16, <2>2 DEF Revokes
    <3>. QED
      BY <1>11, <2>1, <3>1
  <2>3. CASE r.type # "key"
    <3>1. PICK a \in Elements(chain) : r.target = a.id
      BY <1>16, <2>3 DEF Revokes, ids
    <3>2. CASE a = Request
      BY <1>1, <1>16, <2>3, <3>1, <3>2 DEF Revokes, Live
    <3>3. CASE a \in ordered
      <4>1. r.target \in {b.id : b \in ordered}
        BY <3>1, <3>3
      <4>2. Revokes(r, {b.id : b \in ordered}, used, in.now)
        BY <1>6, <1>16, <2>3, <4>1 DEF Revokes
      <4>. QED
        BY <1>11, <2>1, <4>2
    <3>. QED
      BY <1>8, <3>2, <3>3
  <2>. QED
    BY <2>2, <2>3
<1>. QED
  BY <1>15, <1>16, StatusHolds DEF keys, ids

-----------------------------------------------------------------------------
(* The codes of a call that has passed STATUS are those of BINDING and REPLAY *)

Late == {"VALID", "AUDIENCE_MISMATCH", "ACTION_NOT_ALLOWED", "RESOURCE_NOT_ALLOWED",
         "TASK_NOT_ALLOWED", "OFFLINE_REPLAY_UNAVAILABLE", "REPLAY_DETECTED"}

LEMMA FirstIsNotLate ==
    ASSUME NEW faults, DOMAIN faults \subseteq Nat, \A i \in DOMAIN faults : faults[i] \notin Late
    PROVE  FirstFault(faults) \notin Late
<1>1. FirstFault(faults) = "none" \/ \E i \in DOMAIN faults : FirstFault(faults) = faults[i]
  BY FirstFaultFinds
<1>2. "none" \notin Late
  BY DEF Late
<1>. QED
  BY <1>1, <1>2

LEMMA PairIsNotLate ==
    ASSUME NEW f, NEW g, f \notin Late, g \notin Late
    PROVE  FirstFault(<<f, g>>) \notin Late
<1>1. DOMAIN <<f, g>> = {1, 2} /\ <<f, g>>[1] = f /\ <<f, g>>[2] = g
  OBVIOUS
<1>. QED
  BY <1>1, FirstIsNotLate

LEMMA BeforeBinding ==
    ASSUME input \in Input
    PROVE  /\ ParseFault \notin Late
           /\ FirstFault(<<CryptoFaults(Artifacts, input.snapshot), RequestFault>>) \notin Late
           /\ TimeFaults(Artifacts, input.now, input.snapshot.skew) \notin Late
           /\ TrustFault \notin Late /\ StatusFault \notin Late
           /\ \A a : LinkFault(a) \notin Late
<1>1. DOMAIN Artifacts \subseteq Nat
  BY ArtifactsType
<1>2. CryptoFaults(Artifacts, input.snapshot) \notin Late
  <2> DEFINE f == [i \in DOMAIN Artifacts |-> CryptoFault(Artifacts[i], Artifacts, input.snapshot)]
  <2>1. \A a : CryptoFault(a, Artifacts, input.snapshot) \notin Late
    BY DEF CryptoFault, Late
  <2>2. DOMAIN f \subseteq Nat /\ \A i \in DOMAIN f : f[i] \notin Late
    BY <1>1, <2>1
  <2>3. CryptoFaults(Artifacts, input.snapshot) = FirstFault(f)
    BY DEF CryptoFaults
  <2> HIDE DEF f
  <2>. QED
    BY <2>2, <2>3, FirstIsNotLate
<1>3. TimeFaults(Artifacts, input.now, input.snapshot.skew) \notin Late
  <2> DEFINE f == [i \in DOMAIN Artifacts |-> TimeFault(Artifacts[i], input.now, input.snapshot.skew)]
  <2>1. \A a : TimeFault(a, input.now, input.snapshot.skew) \notin Late
    BY DEF TimeFault, Late
  <2>2. DOMAIN f \subseteq Nat /\ \A i \in DOMAIN f : f[i] \notin Late
    BY <1>1, <2>1
  <2>3. TimeFaults(Artifacts, input.now, input.snapshot.skew) = FirstFault(f)
    BY DEF TimeFaults
  <2> HIDE DEF f
  <2>. QED
    BY <2>2, <2>3, FirstIsNotLate
<1>4. StatusFault \notin Late
  <2> DEFINE f == [i \in DOMAIN ChainKeys |-> KeyFault(ChainKeys[i])]
  <2>1. \A key : KeyFault(key) \notin Late
    BY DEF KeyFault, Late
  <2>2. DOMAIN f \subseteq Nat /\ \A i \in DOMAIN f : f[i] \notin Late
    BY <2>1 DEF ChainKeys
  <2>3. StatusFault = FirstFault(<<FirstFault(f), RevocationFault>>)
    BY DEF StatusFault
  <2>4. RevocationFault \notin Late
    BY DEF RevocationFault, Late
  <2> HIDE DEF f
  <2>5. FirstFault(f) \notin Late
    BY <2>2, FirstIsNotLate
  <2>. QED
    BY <2>3, <2>4, <2>5, PairIsNotLate
<1>5. RequestFault \notin Late
  BY DEF RequestFault, Late
<1>6. ParseFault \notin Late
  BY DEF ParseFault, Late
<1>7. TrustFault \notin Late
  BY DEF TrustFault, RootFault, Late
<1>8. \A a : LinkFault(a) \notin Late
  BY DEF LinkFault, Late
<1>. QED
  BY <1>2, <1>3, <1>4, <1>5, <1>6, <1>7, <1>8, PairIsNotLate

-----------------------------------------------------------------------------
(* The two verifiers, step by step *)

\* What a decision past STATUS rests on.
Holds ==
    /\ ParseFault = "none" /\ \A a \in Elements(Artifacts) : Sound(a)
    /\ TrustFault = "none"
    /\ ChainOnly => Accepts

AInv ==
    /\ code \in Late => Holds
    /\ Agreed => code \in {"none"} \cup Late

LEMMA SameAgreement ==
    ASSUME input' = input
    PROVE  (Holds' <=> Holds) /\ (Agreed' <=> Agreed)
<1>1. Artifacts' = Artifacts /\ Root' = Root /\ Request' = Request
      /\ ParseFault' = ParseFault /\ TrustFault' = TrustFault
  BY SameCall
<1>2. ChainOnly' <=> ChainOnly
  BY <1>1 DEF ChainOnly
<1>3. DelegationInput' = DelegationInput
  BY <1>1 DEF DelegationInput, Filter, OfflineInspection
<1>4. Accepts' <=> Accepts
  BY <1>3 DEF Accepts
<1>5. \A a : Sound(a)' <=> Sound(a)
  BY <1>1 DEF Sound
<1>6. Live(Request)' <=> Live(Request)
  BY <1>1 DEF Live, Usable, OfflineInspection
<1>7. Sound(Request)' <=> Sound(Request)
  BY <1>1 DEF Sound
<1>8. Parent(Request)' = Parent(Request)
  BY <1>1 DEF Parent, Named
<1>9. GoodRequest' <=> GoodRequest
  BY <1>1, <1>6, <1>7, <1>8 DEF GoodRequest, GivenTo
<1>10. Holds' <=> Holds
  BY <1>1, <1>2, <1>4, <1>5 DEF Holds
<1>. QED
  BY <1>2, <1>4, <1>9, <1>10 DEF Agreed

LEMMA StopAgrees ==
    ASSUME AInv, NEW c, Stop(c), c \in Late => Holds, Agreed => c \in Late
    PROVE  AInv'
<1>1. input' = input /\ code' = c
  BY DEF Stop
<1>. QED
  BY <1>1, SameAgreement DEF AInv, Late

LEMMA GoOnAgrees ==
    ASSUME AInv, UNCHANGED <<input, code>>
    PROVE  AInv'
BY SameAgreement DEF AInv, Late

\* A stage before BINDING that stops has met a fault that disagreement explains.
LEMMA FaultAgrees ==
    ASSUME AInv, NEW c, Stop(c), c \notin Late, ~Agreed
    PROVE  AInv'
BY StopAgrees

LEMMA EarlyAgree == ASSUME IInv, Checked, AInv, Parse \/ Crypto \/ Time \/ Trust PROVE AInv'
<1> DEFINE cf == CryptoFaults(Artifacts, input.snapshot)
           tf == TimeFaults(Artifacts, input.now, input.snapshot.skew)
           fault == FirstFault(<<cf, RequestFault>>)
<1>1. input \in Input
  BY DEF IInv
<1>2. ParseFault \notin Late /\ fault \notin Late /\ tf \notin Late /\ TrustFault \notin Late
  BY <1>1, BeforeBinding
<1>3. Agreed => ParseFault = "none" /\ fault = "none" /\ tf = "none" /\ TrustFault = "none"
  <2> SUFFICES ASSUME Agreed
               PROVE  ParseFault = "none" /\ fault = "none" /\ tf = "none" /\ TrustFault = "none"
    OBVIOUS
  <2>1. ParseFault = "none" /\ RequestFault = "none" /\ TrustFault = "none" /\ cf = "none" /\ tf = "none"
    BY <1>1, AgreedEarly, SoundAll
  <2>2. fault = "none"
    BY <2>1, NoFaultPair
  <2>. QED
    BY <2>1, <2>2
<1> HIDE DEF fault, tf
<1>4. \A f, next : f \notin Late /\ (Agreed => f = "none") /\ Conclude(f, next) => AInv'
  BY FaultAgrees, GoOnAgrees DEF Conclude
<1>5. CASE Parse
  BY <1>2, <1>3, <1>4, <1>5 DEF Parse
<1>6. CASE Crypto
  BY <1>2, <1>3, <1>4, <1>6 DEF Crypto, fault
<1>7. CASE Time
  BY <1>2, <1>3, <1>4, <1>7 DEF Time, tf
<1>8. CASE Trust
  BY <1>2, <1>3, <1>8, FaultAgrees, GoOnAgrees DEF Trust
<1>. QED
  BY <1>5, <1>6, <1>7, <1>8

LEMMA ChainAgrees ==
    ASSUME IInv, Checked, AInv, Follow \/ EndChain \/ Attenuate \/ EndAttenuation
    PROVE  AInv'
<1>1. \A a : LinkFault(a) \notin Late
  BY BeforeBinding DEF IInv
<1>2. "CHAIN_BOUNDS_EXCEEDED" \notin Late /\ "ATTENUATION_VIOLATION" \notin Late
  BY DEF Late
<1>3. CASE Follow
  BY <1>1, <1>3, AgreedFollow, FaultAgrees, GoOnAgrees DEF Follow
<1>4. CASE EndChain
  BY <1>2, <1>4, AgreedEndChain, FaultAgrees, GoOnAgrees DEF EndChain
<1>5. CASE Attenuate
  BY <1>2, <1>5, AgreedAttenuate, FaultAgrees, GoOnAgrees DEF Attenuate
<1>6. CASE EndAttenuation
  BY <1>6, GoOnAgrees DEF EndAttenuation, Conclude
<1>. QED
  BY <1>3, <1>4, <1>5, <1>6

LEMMA StatusAgrees == ASSUME IInv, Checked, AInv, Status PROVE AInv'
<1>1. stage = "status" /\ Conclude(StatusFault, "binding") /\ input \in Input
  BY DEF Status, IInv
<1>2. StatusFault \notin Late /\ (Agreed => StatusFault = "none")
  BY <1>1, BeforeBinding, AgreedStatus
<1>. QED
  BY <1>1, <1>2, FaultAgrees, GoOnAgrees DEF Conclude

\* BINDING and REPLAY stop only a call for which all before holds.
LEMMA LateHolds ==
    ASSUME IInv, Checked, stage \in {"binding", "replay"}
    PROVE  Holds
<1>1. /\ input \in Input /\ ParseFault = "none" /\ TrustFault = "none"
      /\ CryptoFaults(Artifacts, input.snapshot) = "none"
      /\ TimeFaults(Artifacts, input.now, input.snapshot.skew) = "none"
  BY DEF IInv, Checked
<1>2. \A a \in Elements(Artifacts) : Sound(a)
  BY <1>1, SoundAll
<1>. QED
  BY <1>1, <1>2, ChainAccepted DEF Holds

LEMMA BindingAgrees == ASSUME IInv, Checked, AInv, Binding PROVE AInv'
<1>1. Conclude(BindingFault, "replay") /\ Holds
  BY LateHolds DEF Binding
<1>2. Agreed => BindingFault \in Late \cup {"none"}
  BY DEF Agreed, GoodRequest, BindingFault, Late
<1>. QED
  BY <1>1, <1>2, StopAgrees, GoOnAgrees DEF Conclude

LEMMA ReplayAgrees == ASSUME IInv, Checked, AInv, Replay PROVE AInv'
<1>1. Stop(Verdict) /\ Holds
  BY LateHolds DEF Replay
<1>2. Agreed => Verdict \in Late
  BY DEF Agreed, GoodRequest, Verdict, Late
<1>. QED
  BY <1>1, <1>2, StopAgrees

LEMMA StepAgrees == ASSUME IInv, Checked, AInv, [Next]_vars PROVE AInv'
<1>1. CASE UNCHANGED vars
  BY <1>1, GoOnAgrees DEF vars
<1>. QED
  BY <1>1, EarlyAgree, ChainAgrees, StatusAgrees, BindingAgrees, ReplayAgrees DEF Next

LEMMA AInvariance == Spec => []AInv
<1>1. Init => AInv
  BY DEF Init, AInv, Late
<1>2. DInv => Checked
  BY DEF DInv
<1>. QED
  BY <1>1, <1>2, StepAgrees, Invariance, DInvariance, PTL DEF Spec

-----------------------------------------------------------------------------
(* The identity verifier on the root *)

\* What each says of the root when its own checks pass.
LEMMA RootHolds ==
    ASSUME input \in Input, ChainOnly, Holds
    PROVE  LET decisions == IdentityDecisions(Root, input.snapshot, input.now)
               keys == IssuerKeys(Root.issuer, input.snapshot)
           IN  /\ Root.kid \in keys
               /\ "VALID" \in decisions /\ decisions \subseteq {"VALID", "UNTRUSTED_KEY"}
               /\ keys = {Root.kid} => decisions = {"VALID"}
<1> DEFINE snapshot == input.snapshot
           skew == snapshot.skew
           now == input.now
           keys == IssuerKeys(Root.issuer, snapshot)
           trust(first) == IdentityTrustFault(Root, snapshot, first)
<1>1. /\ Root \in Elements(Artifacts) /\ Root.kind = "credential"
      /\ Root.purpose = "agent-root-authority"
  BY OnlyOnes DEF Roots
<1>2. Root.formed
  BY <1>1 DEF Holds, ParseFault
<1>3. /\ CryptoFault(Root, Artifacts, snapshot) = "none" /\ TimeFault(Root, now, skew) = "none"
  BY <1>1 DEF Holds, Sound
<1>4. RootFault(Root, snapshot) = "none"
  BY DEF Holds, TrustFault
<1>5. /\ Root.kid \in DOMAIN snapshot.issuers /\ snapshot.issuers[Root.kid] = Root.issuer
      /\ [issuer |-> Root.issuer, subject |-> Root.subject] \in snapshot.roots
  BY <1>4 DEF RootFault
<1>6. Root.genuine
  BY <1>3 DEF CryptoFault
<1>7. /\ Root.issued \in Int /\ Root.window.from \in Int /\ Root.window.until \in Int
      /\ now \in Int /\ skew \in Int
  <2>1. /\ \A a \in {b \in OfKind(Artifacts, {"credential"}) : b.formed} :
             a.issued \in Int /\ a.window.from \in Int /\ a.window.until \in Int
        /\ now \in Int /\ skew \in Int
    BY InputAssumption DEF Artifacts
  <2>. QED
    BY <1>1, <1>2, <2>1 DEF OfKind
<1>8. Spans(Root) = {Root.window, Root.ceiling}
  BY <1>1 DEF Spans
<1>9. /\ Ordered(Root) /\ ~(now < Root.window.from - skew) /\ ~(now > Root.window.until + skew)
  BY <1>3, <1>8 DEF TimeFault
<1>10. Root.window.from <= Root.issued /\ Root.issued <= Root.window.until
  BY <1>1, <1>9 DEF Ordered
<1>11. IdentityTimeFault(Root, now, skew) = "none"
  BY <1>7, <1>9, <1>10 DEF IdentityTimeFault
<1>12. Root.kid \in keys
  BY <1>5 DEF IssuerKeys
<1>13. \A first : trust(first) = IF first # Root.kid THEN "UNTRUSTED_KEY" ELSE "VALID"
  BY <1>1, <1>5, <1>6 DEF IdentityTrustFault
<1> HIDE DEF keys, trust
<1>14. IdentityDecisions(Root, snapshot, now) = {trust(first) : first \in keys}
  BY <1>2, <1>11, <1>12 DEF IdentityDecisions, keys, trust
<1>. QED
  BY <1>12, <1>13, <1>14 DEF keys

LEMMA RootIdentified ==
    ASSUME input \in Input, ChainOnly, ParseFault = "none",
           IdentityDecisions(Root, input.snapshot, input.now) = {"VALID"}
    PROVE  /\ RootFault(Root, input.snapshot) = "none"
           /\ CryptoFault(Root, Artifacts, input.snapshot) = "none"
           /\ TimeFault(Root, input.now, input.snapshot.skew) = "none"
                \/ Root.ceiling.from - input.snapshot.skew > input.now
                \/ Root.ceiling.until + input.snapshot.skew < input.now
                \/ Root.ceiling.from > Root.ceiling.until
<1> DEFINE snapshot == input.snapshot
           skew == snapshot.skew
           now == input.now
           keys == IssuerKeys(Root.issuer, snapshot)
           time == IdentityTimeFault(Root, now, skew)
           trust(first) == IdentityTrustFault(Root, snapshot, first)
<1>1. /\ Root \in Elements(Artifacts) /\ Root.kind = "credential"
  BY OnlyOnes
<1>2. Root.formed
  BY <1>1 DEF ParseFault
<1>3. /\ Root.issued \in Int /\ Root.window.from \in Int /\ Root.window.until \in Int
      /\ Root.ceiling.from \in Int /\ Root.ceiling.until \in Int /\ now \in Int /\ skew \in Int
  <2>1. /\ \A a \in {b \in OfKind(Artifacts, {"credential"}) : b.formed} :
             a.issued \in Int /\ a.window.from \in Int /\ a.window.until \in Int
        /\ now \in Int /\ skew \in Int
    BY InputAssumption DEF Artifacts
  <2>. QED
    BY <1>1, <1>2, <2>1, Formed DEF OfKind
<1>4. time \in {"none", "INVALID_TIME_INTERVAL", "NOT_YET_VALID", "EXPIRED"}
  BY DEF IdentityTimeFault
<1>5. IdentityDecisions(Root, snapshot, now) =
        IF time # "none" THEN {time}
        ELSE IF keys = {} THEN {"UNTRUSTED_ISSUER"}
        ELSE {trust(first) : first \in keys}
  BY <1>2 DEF IdentityDecisions
<1> HIDE DEF keys, trust, time
<1>6. time = "none" /\ keys # {} /\ \A first \in keys : trust(first) = "VALID"
  BY <1>4, <1>5
<1>7. PICK first \in keys : trust(first) = "VALID"
  BY <1>6
<1>8. /\ first = Root.kid /\ Root.genuine
      /\ [issuer |-> Root.issuer, subject |-> Root.subject] \in snapshot.roots
  BY <1>7 DEF trust, IdentityTrustFault
<1>9. Root.kid \in DOMAIN snapshot.issuers /\ snapshot.issuers[Root.kid] = Root.issuer
  BY <1>7, <1>8 DEF keys, IssuerKeys
<1>10. RootFault(Root, snapshot) = "none"
  BY <1>8, <1>9 DEF RootFault
<1>11. CryptoFault(Root, Artifacts, snapshot) = "none"
  BY <1>1, <1>8, <1>9 DEF CryptoFault, Pinned
<1>12. /\ Root.issued \in Root.window.from .. Root.window.until
       /\ ~(now < Root.window.from - skew) /\ ~(now > Root.window.until + skew)
  BY <1>6 DEF time, IdentityTimeFault
<1>13. Spans(Root) = {Root.window, Root.ceiling}
  BY <1>1 DEF Spans
<1>14. ASSUME ~(Root.ceiling.from - skew > now), ~(Root.ceiling.until + skew < now),
              ~(Root.ceiling.from > Root.ceiling.until)
       PROVE  TimeFault(Root, now, skew) = "none"
  <2>1. \A w \in Spans(Root) : w = Root.window \/ w = Root.ceiling
    BY <1>13
  <2>2. Root.window.from <= Root.issued /\ Root.issued <= Root.window.until
        /\ Root.window.from <= Root.window.until /\ Root.ceiling.from <= Root.ceiling.until
    BY <1>3, <1>12, <1>14
  <2>3. Ordered(Root)
    BY <2>1, <2>2 DEF Ordered
  <2>4. ~(now < Root.ceiling.from - skew) /\ ~(now > Root.ceiling.until + skew)
    BY <1>3, <1>14
  <2>. QED
    BY <1>12, <2>1, <2>3, <2>4 DEF TimeFault
<1>. QED
  BY <1>10, <1>11, <1>14

LEMMA RootsAgree ==
    ASSUME input \in Input, ChainOnly, PassedStatus => Holds
    PROVE  RootAgrees
<1> DEFINE decisions == IdentityDecisions(Root, input.snapshot, input.now)
           keys == IssuerKeys(Root.issuer, input.snapshot)
<1>1. IsFiniteSet(keys)
  <2>1. IsFiniteSet(DOMAIN input.snapshot.issuers)
    BY InputAssumption
  <2>2. keys \in SUBSET (DOMAIN input.snapshot.issuers)
    BY DEF IssuerKeys
  <2>. QED
    BY <2>1, <2>2, FS_Subset
<1>2. ASSUME Root.kid \in keys, ~(Cardinality(keys) > 1)
      PROVE  keys = {Root.kid}
  <2> HIDE DEF keys
  <2>1. IsFiniteSet(keys \ {Root.kid}) /\ Cardinality(keys \ {Root.kid}) = Cardinality(keys) - 1
    BY <1>1, <1>2, FS_RemoveElement
  <2>2. Cardinality(keys \ {Root.kid}) \in Nat /\ Cardinality(keys) \in Nat
    BY <1>1, <2>1, FS_CardinalityType
  <2>3. Cardinality(keys \ {Root.kid}) = 0
    BY <1>2, <2>1, <2>2
  <2>4. keys \ {Root.kid} = {}
    BY <2>1, <2>3, FS_EmptySet
  <2>. QED
    BY <1>2, <2>4
<1>3. ASSUME PassedStatus
      PROVE  /\ "VALID" \in decisions
             /\ decisions \subseteq {"VALID"} \cup (IF Cardinality(keys) > 1 THEN {"UNTRUSTED_KEY"} ELSE {})
  <2>1. /\ Root.kid \in keys
        /\ "VALID" \in decisions /\ decisions \subseteq {"VALID", "UNTRUSTED_KEY"}
        /\ keys = {Root.kid} => decisions = {"VALID"}
    BY <1>3, RootHolds
  <2> HIDE DEF decisions, keys
  <2>. QED
    BY <1>2, <2>1
<1>4. decisions = {"VALID"} /\ ParseFault = "none" =>
        /\ RootFault(Root, input.snapshot) = "none"
        /\ CryptoFault(Root, Artifacts, input.snapshot) = "none"
        /\ TimeFault(Root, input.now, input.snapshot.skew) = "none"
             \/ Root.ceiling.from - input.snapshot.skew > input.now
             \/ Root.ceiling.until + input.snapshot.skew < input.now
             \/ Root.ceiling.from > Root.ceiling.until
  BY RootIdentified
<1>. QED
  BY <1>3, <1>4 DEF RootAgrees

\* On evidence of one chain and no more, whatever it is and in whatever order,
\* the two verifiers of authority agree: what verifyArtifacts passes through
\* STATUS verifyDelegationChain accepts, what only the latter accepts has a fault
\* of the request's, an archived snapshot's or an id given twice to blame, and
\* verifyIdentityCredential agrees with both on the root.
THEOREM VerifiersAgree == Spec => []SameAuthority
<1>1. IInv /\ AInv => SameAuthority
  <2> SUFFICES ASSUME IInv, AInv, code # "none", ChainOnly
               PROVE  LET accepts == DelegationDecisions(DelegationInput) = {"VALID"}
                      IN  /\ PassedStatus => accepts
                          /\ accepts /\ ~PassedStatus =>
                                \/ ~Request.formed \/ ~Request.linked \/ ~Sound(Request)
                                \/ ~Live(Request)
                                \/ ~GivenTo(Parent(Request), Request.signer)
                                \/ Request.signer # input.context.signer
                                \/ input.archived = "bad"
                                \/ ~Distinct(Artifacts)
                          /\ RootAgrees
    BY DEF SameAuthority
  <2>1. input \in Input
    BY DEF IInv
  <2>2. PassedStatus <=> code \in Late
    BY DEF PassedStatus, Late
  <2>3. PassedStatus => Holds
    BY <2>2 DEF AInv
  <2>4. RootAgrees
    BY <2>1, <2>3, RootsAgree
  <2>5. PassedStatus => Accepts
    BY <2>3 DEF Holds
  <2>6. Accepts /\ ~PassedStatus => ~GoodRequest
    BY <2>2 DEF AInv, Agreed
  <2>. QED
    BY <2>4, <2>5, <2>6 DEF Accepts, GoodRequest
<1>. QED
  BY <1>1, Invariance, AInvariance, PTL

-----------------------------------------------------------------------------
(* A call ends: its loops go on only with what they have not met *)

\* The artifacts the chain has not reached.
Ahead == Elements(Artifacts) \ Elements(chain)

Given == Cardinality(Elements(Artifacts))

\* The steps a call can still take at most.
StepsLeft ==
    [parse |-> 2 * Given + 6, crypto |-> 2 * Given + 5, time |-> 2 * Given + 4,
     trust |-> 2 * Given + 3, chain |-> 2 * Cardinality(Ahead) + Len(chain) + 3,
     attenuation |-> Len(chain) - position + 4,
     status |-> 3, binding |-> 2, replay |-> 1, done |-> 0][stage]

\* A list has finitely many elements.
LEMMA FiniteElements ==
    ASSUME NEW s, s \in Seq(Elements(s))
    PROVE  IsFiniteSet(Elements(s))
<1>1. s \in [1 .. Len(s) -> Elements(s)] /\ Len(s) \in Nat
  OBVIOUS
<1>2. s \in Surjection(1 .. Len(s), Elements(s))
  BY <1>1 DEF Surjection, Elements
<1>3. IsFiniteSet(1 .. Len(s))
  BY <1>1, FS_Interval
<1>. QED
  BY <1>2, <1>3, FS_Surjection

LEMMA FiniteAhead ==
    ASSUME input \in Input
    PROVE  /\ IsFiniteSet(Ahead) /\ Cardinality(Ahead) \in Nat
           /\ IsFiniteSet(Elements(Artifacts)) /\ Given \in Nat
<1>1. IsFiniteSet(Elements(Artifacts))
  BY ArtifactsType, FiniteElements
<1>2. IsFiniteSet(Ahead)
  BY <1>1, FS_Subset DEF Ahead
<1>. QED
  BY <1>1, <1>2, FS_CardinalityType DEF Given

\* Only the two loops have a count of their own, and it stays positive.
LEMMA StepsLeftIs ==
    ASSUME IInv
    PROVE  /\ StepsLeft \in Nat
           /\ stage # "done" => StepsLeft > 0
           /\ stage = "attenuation" => position <= Len(chain)
<1>1. stage \in Stages /\ input \in Input /\ Len(chain) \in Nat
  BY DEF IInv, TypeOK
<1>2. Cardinality(Ahead) \in Nat /\ Given \in Nat
  BY <1>1, FiniteAhead
<1>3. stage = "attenuation" => position \in Nat /\ position <= Len(chain)
  BY <1>1 DEF IInv, Nested
<1>4. CASE stage = "attenuation"
  BY <1>1, <1>3, <1>4 DEF StepsLeft
<1>5. CASE stage = "chain"
  BY <1>1, <1>2, <1>5 DEF StepsLeft
<1>6. CASE stage \in {"parse", "crypto", "time", "trust"}
  BY <1>2, <1>6 DEF StepsLeft
<1>7. CASE stage \in {"status", "binding", "replay", "done"}
  BY <1>7 DEF StepsLeft
<1>. QED
  BY <1>1, <1>4, <1>5, <1>6, <1>7 DEF Stages

LEMMA StopShortens ==
    ASSUME IInv, stage # "done", NEW c, Stop(c)
    PROVE  StepsLeft' < StepsLeft
<1>1. StepsLeft' = 0
  BY DEF Stop, StepsLeft
<1>. QED
  BY <1>1, StepsLeftIs

LEMMA ConcludeShortens ==
    ASSUME IInv, NEW fault, NEW next, Conclude(fault, next),
           <<stage, next>> \in {<<"parse", "crypto">>, <<"crypto", "time">>, <<"time", "trust">>,
                                <<"attenuation", "status">>, <<"status", "binding">>,
                                <<"binding", "replay">>}
    PROVE  StepsLeft' < StepsLeft
<1>1. CASE fault # "none"
  BY <1>1, StopShortens DEF Conclude
<1>2. CASE fault = "none"
  <2>1. stage' = next /\ input' = input
    BY <1>2 DEF Conclude
  <2>2. Given' = Given /\ Given \in Nat
    BY <2>1, SameCall, FiniteAhead DEF IInv, Given
  <2>3. stage = "attenuation" => position <= Len(chain) /\ position \in Nat /\ Len(chain) \in Nat
    BY StepsLeftIs DEF IInv, TypeOK
  <2>. QED
    BY <2>1, <2>2, <2>3 DEF StepsLeft
<1>. QED
  BY <1>1, <1>2

\* TRUST leaves the request as the chain, and everything else ahead.
LEMMA TrustShortens == ASSUME IInv, Trust PROVE StepsLeft' < StepsLeft
<1>1. stage = "trust"
  BY DEF Trust
<1>2. CASE Stop(TrustFault)
  BY <1>1, <1>2, StopShortens
<1>3. CASE ~Stop(TrustFault)
  <2>1. stage' = "chain" /\ chain' = <<Request>> /\ input' = input
    BY <1>3 DEF Trust
  <2>2. Artifacts' = Artifacts /\ input \in Input /\ Request \in Elements(Artifacts)
    BY <1>1, <2>1, SameCall, RequestFound DEF IInv
  <2>3. Elements(<<Request>>) = {Request}
    BY DEF Elements
  <2>4. Ahead' = Elements(Artifacts) \ {Request}
    BY <2>1, <2>2, <2>3 DEF Ahead
  <2>5. Cardinality(Ahead') = Given - 1 /\ Given' = Given
    BY <2>2, <2>4, FiniteAhead, FS_RemoveElement DEF Given
  <2>6. Given \in Nat /\ Len(chain') = 1
    BY <2>1, <2>2, FiniteAhead
  <2>. QED
    BY <1>1, <2>1, <2>2, <2>5, <2>6 DEF StepsLeft
<1>. QED
  BY <1>2, <1>3

\* The parent a turn of the loop reaches was still ahead: LinkFault refuses one
\* that the chain has, so a cycle of parents ends the loop.
LEMMA FollowShortens == ASSUME IInv, Follow PROVE StepsLeft' < StepsLeft
<1>1. stage = "chain"
  BY DEF Follow
<1>2. CASE Stop(LinkFault(Current))
  BY <1>1, <1>2, StopShortens
<1>3. CASE ~Stop(LinkFault(Current))
  <2> DEFINE parent == Parent(Current)
  <2>1. LinkFault(Current) = "none" /\ chain' = Append(chain, parent) /\ stage' = stage /\ input' = input
    BY <1>3 DEF Follow
  <2>2. Named(Current) # {} /\ parent \notin Elements(chain)
    BY <2>1 DEF LinkFault
  <2>3. parent \in Ahead
    BY <2>2 DEF Ahead, Parent, Named
  <2> HIDE DEF parent
  <2>4. chain \in Seq(Elements(Artifacts)) /\ input \in Input /\ Artifacts' = Artifacts
    BY <2>1, SameCall DEF IInv, TypeOK
  <2>5. Len(chain') = Len(chain) + 1 /\ Elements(chain') = Elements(chain) \cup {parent}
    <3>1. /\ Len(chain) \in Nat /\ Len(chain') = Len(chain) + 1
          /\ DOMAIN chain = 1 .. Len(chain) /\ DOMAIN chain' = 1 .. (Len(chain) + 1)
          /\ chain'[Len(chain) + 1] = parent /\ \A i \in 1 .. Len(chain) : chain'[i] = chain[i]
      BY <2>1, <2>3, <2>4 DEF Ahead
    <3>. QED
      BY <3>1 DEF Elements
  <2>6. Ahead' = Ahead \ {parent}
    BY <2>4, <2>5 DEF Ahead
  <2>7. Cardinality(Ahead') = Cardinality(Ahead) - 1
    BY <2>3, <2>4, <2>6, FiniteAhead, FS_RemoveElement
  <2>8. Cardinality(Ahead) \in Nat /\ Len(chain) \in Nat
    BY <2>4, FiniteAhead
  <2>. QED
    BY <1>1, <2>1, <2>5, <2>7, <2>8 DEF StepsLeft
<1>. QED
  BY <1>2, <1>3

LEMMA EndChainShortens == ASSUME IInv, EndChain PROVE StepsLeft' < StepsLeft
<1>1. stage = "chain"
  BY DEF EndChain
<1>2. CASE Stop("CHAIN_BOUNDS_EXCEEDED")
  BY <1>1, <1>2, StopShortens
<1>3. CASE ~Stop("CHAIN_BOUNDS_EXCEEDED")
  <2>1. stage' = "attenuation" /\ position' = 2 /\ chain' = chain
    BY <1>3 DEF EndChain
  <2>2. Cardinality(Ahead) \in Nat /\ Len(chain) \in Nat
    BY FiniteAhead DEF IInv, TypeOK
  <2>. QED
    BY <1>1, <2>1, <2>2 DEF StepsLeft
<1>. QED
  BY <1>2, <1>3

LEMMA AttenuateShortens == ASSUME IInv, Attenuate PROVE StepsLeft' < StepsLeft
<1>1. stage = "attenuation"
  BY DEF Attenuate
<1>2. CASE Stop("ATTENUATION_VIOLATION")
  BY <1>1, <1>2, StopShortens
<1>3. CASE ~Stop("ATTENUATION_VIOLATION")
  <2>1. position' = position + 1 /\ stage' = stage /\ chain' = chain
    BY <1>3 DEF Attenuate
  <2>2. position \in Nat /\ Len(chain) \in Nat
    BY DEF IInv, TypeOK
  <2>. QED
    BY <1>1, <2>1, <2>2 DEF StepsLeft
<1>. QED
  BY <1>2, <1>3

LEMMA StepShortens == ASSUME IInv, Next PROVE StepsLeft' < StepsLeft
<1>1. CASE Parse \/ Crypto \/ Time \/ EndAttenuation \/ Status \/ Binding
  BY <1>1, ConcludeShortens DEF Parse, Crypto, Time, EndAttenuation, Status, Binding
<1>2. CASE Replay
  BY <1>2, StopShortens DEF Replay
<1>. QED
  BY <1>1, <1>2, TrustShortens, FollowShortens, EndChainShortens, AttenuateShortens DEF Next

\* A call of verifyArtifacts takes at most 2n + 6 steps on n artifacts, whatever
\* they are: each step leaves fewer to take, although neither loop of CHAIN has a
\* bound of its own and the parents may form a cycle.
THEOREM CallsEnd ==
    Spec => /\ StepsLeft = 2 * Given + 6
            /\ [](StepsLeft \in Nat)
            /\ [][StepsLeft' < StepsLeft]_vars
<1>1. Init => StepsLeft = 2 * Given + 6
  BY DEF Init, StepsLeft
<1>2. IInv => StepsLeft \in Nat
  BY StepsLeftIs
<1>3. IInv /\ [Next]_vars => [StepsLeft' < StepsLeft]_vars
  BY StepShortens
<1>. QED
  BY <1>1, <1>2, <1>3, Invariance, PTL DEF Spec
=============================================================================
