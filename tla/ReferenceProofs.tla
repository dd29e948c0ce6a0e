---------------------------- MODULE ReferenceProofs ---------------------------
(***************************************************************************)
(* The pure functions of the engine against what they promise.  A verdict is *)
(* decided on merit for every set of interpretations, every answer about     *)
(* them and every set of sources that answered; the basis points it compares *)
(* keep the order of the fractions they stand for.  The claims of an accepted *)
(* interpretation are the ones its author submitted, and a source has one    *)
(* name however its URL is spelled, for every input.                         *)
(***************************************************************************)
EXTENDS ScoringCheck, InputCheck, SumTheorems, FiniteSetTheorems, SequenceTheorems,
        WellFoundedInduction, TLAPS

-----------------------------------------------------------------------------
(* Basis points                                                            *)

\* A quotient rounded down.
LEMMA Floor ==
    ASSUME NEW a \in Nat, NEW b \in Nat \ {0}
    PROVE  /\ a \div b \in Nat
           /\ b * (a \div b) <= a
           /\ a < b * (a \div b) + b
<1> DEFINE q == a \div b
           r == a % b
<1>1. a = b * q + r /\ r \in Nat /\ r < b /\ q \in Nat
  OBVIOUS
<1>2. b * q \in Nat
  <2>1. \A x, y \in Nat : x * y \in Nat
    OBVIOUS
  <2> QED
    BY <1>1, <2>1
<1> HIDE DEF q, r
<1>3. b * q <= a /\ a < b * q + b
  BY <1>1, <1>2
<1> QED
  BY <1>1, <1>3 DEF q

\* Of two shares with small denominators, the larger one has the larger floor.
LEMMA SharesApart ==
    ASSUME NEW a \in Nat, NEW b \in Nat \ {0}, NEW c \in Nat, NEW d \in Nat \ {0},
           b * d <= 10000
    PROVE  (a * 10000) \div b <= (c * 10000) \div d <=> a * d <= c * b
<1> DEFINE x == (a * 10000) \div b
           y == (c * 10000) \div d
           ad == a * d
           cb == c * b
           bd == b * d
<1>1. /\ x \in Nat /\ b * x <= a * 10000 /\ a * 10000 < b * x + b
      /\ y \in Nat /\ d * y <= c * 10000 /\ c * 10000 < d * y + d
  BY Floor
<1>2. ad \in Nat /\ cb \in Nat /\ bd \in Nat /\ bd > 0
  OBVIOUS
<1>3. \A u, v, w \in Nat : u <= v => u * w <= v * w
  OBVIOUS
<1>4. \A u, v, w \in Nat : u < v /\ w > 0 => u * w < v * w
  OBVIOUS
<1> HIDE DEF x, y
<1>5. /\ bd * x <= ad * 10000 /\ ad * 10000 < bd * x + bd
      /\ bd * y <= cb * 10000 /\ cb * 10000 < bd * y + bd
  <2>1. (b * x) * d <= (a * 10000) * d /\ (a * 10000) * d < (b * x + b) * d
    BY <1>1, <1>3, <1>4
  <2>2. (d * y) * b <= (c * 10000) * b /\ (c * 10000) * b < (d * y + d) * b
    BY <1>1, <1>3, <1>4
  <2>3. /\ (b * x) * d = bd * x /\ (a * 10000) * d = ad * 10000 /\ (b * x + b) * d = bd * x + bd
        /\ (d * y) * b = bd * y /\ (c * 10000) * b = cb * 10000 /\ (d * y + d) * b = bd * y + bd
    BY <1>1
  <2> QED
    BY <2>1, <2>2, <2>3
<1>6. bd <= 10000
  OBVIOUS
<1> HIDE DEF ad, cb, bd
<1>7. ASSUME x <= y, ~(ad <= cb) PROVE FALSE
  <2>1. bd * x <= bd * y
    BY <1>1, <1>2, <1>3, <1>7
  <2>2. bd * x \in Nat /\ bd * y \in Nat
    BY <1>1, <1>2
  <2>3. ad * 10000 >= cb * 10000 + 10000
    BY <1>2, <1>7
  <2> QED
    BY <1>2, <1>5, <1>6, <2>1, <2>2, <2>3
<1>8. ASSUME ad <= cb, ~(x <= y) PROVE FALSE
  <2>1. y + 1 <= x
    BY <1>1, <1>8
  <2>2. (y + 1) * bd <= x * bd
    BY <1>1, <1>2, <1>3, <2>1
  <2>3. (y + 1) * bd = bd * y + bd /\ x * bd = bd * x
    BY <1>1, <1>2
  <2>4. bd * x \in Nat /\ bd * y \in Nat
    BY <1>1, <1>2
  <2> QED
    BY <1>2, <1>5, <1>8, <2>2, <2>3, <2>4
<1> QED
  BY <1>7, <1>8 DEF x, y, ad, cb

\* Two products of numbers of claims are small enough.
LEMMA ClaimsProduct ==
    ASSUME NEW b \in Nat, NEW d \in Nat, b <= MaxClaims, d <= MaxClaims
    PROVE  b * d <= 10000
<1>1. \A u, v, w \in Nat : u <= v => u * w <= v * w /\ w * u <= w * v
  OBVIOUS
<1>2. b * d <= MaxClaims * d /\ MaxClaims * d <= MaxClaims * MaxClaims
  BY <1>1, ClaimsAssumption
<1>3. b * d \in Nat /\ MaxClaims * d \in Nat /\ MaxClaims * MaxClaims \in Nat
  <2>1. \A x, y \in Nat : x * y \in Nat
    OBVIOUS
  <2> QED
    BY <2>1, ClaimsAssumption
<1> QED
  BY <1>2, <1>3, ClaimsAssumption

\* Roll-ups compare as the exact fractions do, below zero as zero.
LEMMA BpsOrder ==
    ASSUME NEW p \in Int, NEW n \in Nat \ {0}, NEW q \in Int, NEW m \in Nat \ {0},
           n <= MaxClaims, m <= MaxClaims
    PROVE  NetBps(p, n) <= NetBps(q, m) <=> p <= 0 \/ p * m <= q * n
<1>1. \A a \in Nat, b \in Nat \ {0} : (a * 10000) \div b \in Nat
  OBVIOUS
<1>2. CASE p <= 0
  <2>1. NetBps(p, n) = 0
    <3>1. p = 0 => (p * 10000) \div n = 0
      OBVIOUS
    <3> QED
      BY <1>2, <3>1 DEF NetBps
  <2>2. NetBps(q, m) >= 0
    BY <1>1 DEF NetBps
  <2> QED
    BY <1>2, <2>1, <2>2
<1>3. CASE p > 0 /\ q >= 0
  <2>1. n * m <= 10000
    BY ClaimsProduct
  <2>2. (p * 10000) \div n <= (q * 10000) \div m <=> p * m <= q * n
    BY <1>3, <2>1, SharesApart
  <2>3. NetBps(p, n) = (p * 10000) \div n /\ NetBps(q, m) = (q * 10000) \div m
    BY <1>3 DEF NetBps
  <2> QED
    BY <1>3, <2>2, <2>3
<1>4. CASE p > 0 /\ q < 0
  <2>1. NetBps(q, m) = 0
    BY <1>4 DEF NetBps
  <2>2. NetBps(p, n) \in Nat /\ NetBps(p, n) > 0
    <3>1. NetBps(p, n) = (p * 10000) \div n
      BY <1>4 DEF NetBps
    <3>2. p * 10000 >= 10000 /\ n <= 10000
      <4>1. n * 1 <= 10000
        <5>1. 1 <= MaxClaims
          BY ClaimsAssumption
        <5> QED
          BY <5>1, ClaimsProduct
      <4> QED
        BY <1>4, <4>1
    <3>3. p * 10000 < n * ((p * 10000) \div n) + n /\ (p * 10000) \div n \in Nat
      BY <1>4, Floor
    <3> QED
      BY <3>1, <3>2, <3>3
  <2>3. ~(p * m <= q * n)
    <3>1. p * m > 0 /\ q * n < 0
      BY <1>4
    <3> QED
      BY <3>1
  <2> QED
    BY <1>4, <2>1, <2>2, <2>3
<1> QED
  BY <1>2, <1>3, <1>4

-----------------------------------------------------------------------------
(* The rows of an answer                                                   *)

\* Counting the rows and counting what the gates keep of them is the same.
LEMMA RowsCounted ==
    ASSUME NEW c \in Candidate
    PROVE  /\ Supported(answer, c, ok) = For(c)
           /\ Contradicted(answer, c, ok) = Against(c)
           /\ Corroborating(answer, c, ok) = {s \in ok : Backing(c, s) # {}}
<1>1. Supported(answer, c, ok) = For(c)
  BY DEF Supported, ClaimsWith, ClaimVerdict, Cited, For, Backing, RowOf
<1>2. Contradicted(answer, c, ok) = Against(c)
  BY DEF Contradicted, ClaimsWith, ClaimVerdict, Cited, Against, RowOf
<1>3. Corroborating(answer, c, ok) = {s \in ok : Backing(c, s) # {}}
  <2>1. ASSUME NEW s
        PROVE  s \in Corroborating(answer, c, ok) <=> s \in ok /\ Backing(c, s) # {}
    <3>1. s \in Corroborating(answer, c, ok) <=>
              \E k \in Supported(answer, c, ok) : s \in Cited(answer, c, k, ok)
      BY DEF Corroborating
    <3>2. \A k \in Interpretation[c].claims :
              k \in Supported(answer, c, ok) /\ s \in Cited(answer, c, k, ok)
                  <=> s \in ok /\ k \in Backing(c, s)
      BY DEF Supported, ClaimsWith, ClaimVerdict, Cited, Backing, RowOf
    <3>3. Supported(answer, c, ok) \subseteq Interpretation[c].claims
          /\ Backing(c, s) \subseteq Interpretation[c].claims
      BY DEF Supported, ClaimsWith, Backing
    <3> QED
      BY <3>1, <3>2, <3>3
  <2> QED
    BY <2>1
<1> QED
  BY <1>1, <1>2, <1>3

\* The rows of an interpretation are as many as its claims at most.
LEMMA RowNumbers ==
    ASSUME NEW c \in Candidate
    PROVE  /\ Net(c) \in Int /\ Size(c) \in Nat /\ Size(c) <= MaxClaims
           /\ Size(c) = 0 => Net(c) = 0 /\ For(c) = {}
           /\ IsFiniteSet(For(c))
<1> DEFINE claims == Interpretation[c].claims
<1>1. IsFiniteSet(claims)
  BY InterpretationAssumption
<1>2. For(c) \subseteq claims /\ Against(c) \subseteq claims
  BY DEF For, Backing, Against
<1>3. /\ IsFiniteSet(For(c)) /\ IsFiniteSet(Against(c))
      /\ Cardinality(For(c)) \in Nat /\ Cardinality(Against(c)) \in Nat
  BY <1>1, <1>2, FS_Subset, FS_CardinalityType
<1>4. Size(c) \in Nat /\ Size(c) <= MaxClaims
  BY <1>1, ClaimsAssumption, FS_CardinalityType DEF Size
<1>5. Size(c) = 0 => For(c) = {} /\ Against(c) = {}
  BY <1>1, <1>2, FS_EmptySet DEF Size
<1>6. Size(c) = 0 => Net(c) = 0
  <2>1. Cardinality({}) = 0
    BY FS_EmptySet
  <2> QED
    BY <1>5, <2>1 DEF Net
<1> QED
  BY <1>3, <1>4, <1>5, <1>6 DEF Net

\* A rival rolls up to more exactly if it has the larger share of its claims
\* established; an interpretation without claims would have none.
LEMMA RollupIsShare ==
    ASSUME NEW c \in Candidate, NEW w \in Candidate, Size(w) > 0
    PROVE  Rollup(answer, c, ok) <= Rollup(answer, w, ok) <=> ~Ahead(c, w)
<1>1. /\ Net(c) \in Int /\ Size(c) \in Nat /\ Size(c) <= MaxClaims /\ (Size(c) = 0 => Net(c) = 0)
      /\ Net(w) \in Int /\ Size(w) \in Nat /\ Size(w) <= MaxClaims
  BY RowNumbers
<1>2. /\ Rollup(answer, c, ok) = NetBps(Net(c), AtLeastOne(Size(c)))
      /\ Rollup(answer, w, ok) = NetBps(Net(w), AtLeastOne(Size(w)))
  BY RowsCounted DEF Rollup, Net, Size
<1>3. AtLeastOne(Size(w)) = Size(w)
  BY <1>1 DEF AtLeastOne
<1>4. CASE Size(c) = 0
  <2>1. AtLeastOne(Size(c)) = 1 /\ 1 <= MaxClaims
    BY <1>1, <1>4, ClaimsAssumption DEF AtLeastOne
  <2>2. NetBps(Net(c), 1) <= NetBps(Net(w), Size(w))
    BY <1>1, <1>4, <2>1, BpsOrder
  <2>3. ~Ahead(c, w)
    BY <1>1, <1>4 DEF Ahead
  <2> QED
    BY <1>2, <1>3, <2>1, <2>2, <2>3
<1>5. CASE Size(c) > 0
  <2>1. AtLeastOne(Size(c)) = Size(c)
    BY <1>1, <1>5 DEF AtLeastOne
  <2>2. NetBps(Net(c), Size(c)) <= NetBps(Net(w), Size(w))
            <=> Net(c) <= 0 \/ Net(c) * Size(w) <= Net(w) * Size(c)
    BY <1>1, <1>5, BpsOrder
  <2>3. Net(c) * Size(w) \in Int /\ Net(w) * Size(c) \in Int
    BY <1>1
  <2>4. Ahead(c, w) <=> ~(Net(c) <= 0 \/ Net(c) * Size(w) <= Net(w) * Size(c))
    BY <1>1, <2>3 DEF Ahead
  <2> QED
    BY <1>2, <1>3, <2>1, <2>2, <2>4
<1> QED
  BY <1>1, <1>4, <1>5

-----------------------------------------------------------------------------
(* The ranking                                                             *)

\* As many ids as places: no id is ranked twice.
LEMMA RankingCounted ==
    ASSUME Len(answer.ranking) \in Nat, DOMAIN answer.ranking = 1..Len(answer.ranking)
    PROVE  RankingReadable(answer) <=> Readable
<1> DEFINE n == Len(answer.ranking)
           f == [i \in 1..n |-> answer.ranking[i].id]
<1>1. IsFiniteSet(1..n) /\ Cardinality(1..n) = n
  BY FS_Interval
<1>2. f \in Surjection(1..n, RankedIds(answer))
  BY DEF Surjection, RankedIds
<1>3. Cardinality(RankedIds(answer)) = n <=> f \in Injection(1..n, RankedIds(answer))
  <2> HIDE DEF f
  <2> QED
    BY <1>1, <1>2, FS_Surjection
<1>4. f \in Injection(1..n, RankedIds(answer))
          <=> \A i, j \in 1..n : answer.ranking[i].id = answer.ranking[j].id => i = j
  <2>1. f \in [1..n -> RankedIds(answer)] /\ DOMAIN f = 1..n
    BY DEF RankedIds
  <2>2. \A i \in 1..n : f[i] = answer.ranking[i].id
    OBVIOUS
  <2> HIDE DEF f, n
  <2> QED
    BY <2>1, <2>2 DEF Injection, IsInjective
<1>5. RankedIds(answer) \subseteq Candidate <=> \A i \in 1..n : answer.ranking[i].id \in Candidate
  BY DEF RankedIds
<1> HIDE DEF n, f
<1>6. DOMAIN answer.ranking = 1..n /\ Len(answer.ranking) = n
  BY DEF n
<1>7. Readable <=> /\ \A i \in 1..n : answer.ranking[i].id \in Candidate
                   /\ \A i, j \in 1..n : answer.ranking[i].id = answer.ranking[j].id => i = j
  <2>1. CASE n \in Nat /\ 1..n = {}
    BY <1>6, <2>1 DEF Readable
  <2>2. CASE 1..n # {}
    BY <1>6, <2>2 DEF Readable
  <2> QED
    BY <2>1, <2>2 DEF n
<1> QED
  BY <1>3, <1>4, <1>5, <1>6, <1>7 DEF RankingReadable

-----------------------------------------------------------------------------
(* Theorems                                                                *)

\* Every verdict is the score of its answer, and every pair is one of roll-ups.
ScoringInductive ==
    /\ Len(answer.ranking) \in Nat /\ DOMAIN answer.ranking = 1..Len(answer.ranking)
    /\ ok \subseteq Source
    /\ verdict \in {NoVerdict, ScoreVerdict(answer, ok)}
    /\ count = <<>> \/ \E p, q \in Pair : count = <<p, q>>

\* A verdict, once given, is the score of the answer it was given for.
THEOREM ScoringInvariant == Spec => []ScoringInductive
<1>1. Init => ScoringInductive
  <2> SUFFICES ASSUME Init PROVE ScoringInductive
    OBVIOUS
  <2>1. answer.ranking \in Ranking
    BY DEF Init, Answers
  <2> QED
    BY <2>1, RankingAssumption DEF Init, ScoringInductive
<1>2. ScoringInductive /\ [Next]_vars => ScoringInductive'
  <2> SUFFICES ASSUME ScoringInductive, [Next]_vars PROVE ScoringInductive'
    OBVIOUS
  <2> USE DEF ScoringInductive
  <2>1. CASE Score
    BY <2>1 DEF Score
  <2>2. CASE Compare
    BY <2>2 DEF Compare
  <2>3. CASE UNCHANGED vars
    BY <2>3 DEF vars
  <2> QED
    BY <2>1, <2>2, <2>3 DEF Next
<1> QED
  BY <1>1, <1>2, PTL DEF Spec

\* Basis points rounded down lose no order, for every number of claims whose
\* square is at most 10000.
THEOREM RollupsCompare == Spec => []RollupOrderExact
<1>1. ASSUME ScoringInductive PROVE RollupOrderExact
  <2>1. SUFFICES ASSUME NEW p \in Pair, NEW q \in Pair
                 PROVE  NetBps(p.net, p.n) <= NetBps(q.net, q.n)
                            <=> (p.net <= 0 \/ p.net * q.n <= q.net * p.n)
    BY <1>1 DEF ScoringInductive, RollupOrderExact
  <2>2. /\ p.net \in Int /\ p.n \in Nat \ {0} /\ p.n <= MaxClaims
        /\ q.net \in Int /\ q.n \in Nat \ {0} /\ q.n <= MaxClaims
    BY ClaimsAssumption DEF Pair
  <2> QED
    BY <2>2, BpsOrder
<1> QED
  BY <1>1, ScoringInvariant, PTL

\* A verdict is decided exactly if the named interpretation deserves it on the
\* rows of the answer, and called insufficiently corroborated only if it lacks
\* nothing but sources.
THEOREM MeritDecides == Spec => []DecidedOnMerit
<1>1. ASSUME ScoringInductive PROVE DecidedOnMerit
  <2> DEFINE w == answer.winner
             Best == \A d \in Candidate : Ahead(d, w) => Out(d)
             Backed == {s \in ok : Backing(w, s) # {}}
  <2>1. SUFFICES ASSUME verdict = ScoreVerdict(answer, ok)
                 PROVE  /\ verdict.decision = "decided" <=> Readable /\ OnTop /\ Merited(w)
                        /\ verdict.decision = "insufficient_corroboration" =>
                               /\ ~Out(w)
                               /\ Best
                               /\ Cardinality(Backed) < CorroborationMinSources
    BY <1>1 DEF ScoringInductive, DecidedOnMerit
  <2>2. verdict.decision = Decision(answer, ok)
    BY <2>1 DEF ScoreVerdict
  <2>3. CASE w \notin Candidate
    BY <2>2, <2>3 DEF Decision, Merited
  <2>4. CASE w \in Candidate
    <3>1. Ranked(answer) <=> Readable /\ OnTop
      BY <1>1, RankingCounted DEF ScoringInductive, Ranked, OnTop, WinnerOnTop
    <3>2. \A c \in Candidate : Disqualified(answer, c, ok) <=> Out(c)
      BY RowsCounted DEF Disqualified, Out
    <3>3. Corroborating(answer, w, ok) = Backed /\ Supported(answer, w, ok) = For(w)
      BY <2>4, RowsCounted
    <3>4. IsFiniteSet(Backed) /\ Cardinality(Backed) \in Nat /\ CorroborationMinSources \in Nat
      BY <1>1, ThresholdAssumption, FS_Subset, FS_CardinalityType DEF ScoringInductive
    <3>5. For(w) = {} => Backed = {}
      BY DEF For
    <3>6. Corroborated(answer, ok) <=> Cardinality(Backed) >= CorroborationMinSources
      <4>1. Backed = {} => Cardinality(Backed) = 0
        BY FS_EmptySet
      <4> HIDE DEF Backed
      <4> QED
        BY <3>3, <3>4, <3>5, <4>1, ClaimsAssumption DEF Corroborated
    <3>7. CASE Size(w) > 0
      <4>1. Consistent(answer, ok) <=> ~Out(w) /\ Best
        <5>1. \A c \in Candidate :
                  Rollup(answer, c, ok) <= Rollup(answer, w, ok) <=> ~Ahead(c, w)
          BY <2>4, <3>7, RollupIsShare
        <5>2. ~Ahead(w, w)
          <6>1. Net(w) * Size(w) \in Int
            BY <2>4, RowNumbers
          <6> QED
            BY <6>1 DEF Ahead
        <5> QED
          BY <2>4, <3>2, <5>1, <5>2 DEF Consistent
      <4>2. Merited(w) <=> ~Out(w) /\ Best /\ Cardinality(Backed) >= CorroborationMinSources
        BY <2>4 DEF Merited
      <4> HIDE DEF Best, Backed
      <4> QED
        BY <2>2, <2>4, <3>1, <3>4, <3>6, <4>1, <4>2 DEF Decision
    <3>8. CASE Size(w) = 0
      <4>1. For(w) = {} /\ Net(w) = 0
        BY <2>4, <3>8, RowNumbers
      <4>2. Cardinality(Backed) = 0 /\ ~(Cardinality(Backed) >= CorroborationMinSources)
        BY <3>4, <3>5, <4>1, FS_EmptySet, ClaimsAssumption
      <4>3. Best
        <5>1. ASSUME NEW d \in Candidate PROVE ~Ahead(d, w)
          <6>1. Net(d) * 0 = 0 /\ 0 * Size(d) = 0
            BY RowNumbers
          <6> QED
            BY <3>8, <4>1, <6>1 DEF Ahead
        <5> QED
          BY <5>1
      <4>4. ~Merited(w)
        BY <4>2 DEF Merited
      <4>5. Consistent(answer, ok) => ~Out(w)
        BY <2>4, <3>2 DEF Consistent
      <4> HIDE DEF Best, Backed
      <4> QED
        BY <2>2, <2>4, <3>4, <3>6, <4>2, <4>3, <4>4, <4>5 DEF Decision
    <3> QED
      BY <2>4, <3>7, <3>8, RowNumbers
  <2> QED
    BY <2>3, <2>4
<1> QED
  BY <1>1, ScoringInvariant, PTL

-----------------------------------------------------------------------------
(* The least, the greatest                                                 *)

\* The least and the greatest of a set of numbers.
LEMMA LeastIs ==
    ASSUME NEW S \in SUBSET Int, NEW m \in S, \A i \in S : m <= i
    PROVE  Min(S) = m
<1>1. \A x \in S : (\A y \in S : x <= y) => x = m
  OBVIOUS
<1> QED
  BY <1>1 DEF Min

\* Likewise the greatest.
LEMMA GreatestIs ==
    ASSUME NEW S \in SUBSET Int, NEW m \in S, \A i \in S : m >= i
    PROVE  Max(S) = m
<1>1. \A x \in S : (\A y \in S : x >= y) => x = m
  OBVIOUS
<1> QED
  BY <1>1 DEF Max

\* A bounded set of numbers has a greatest.
LEMMA GreatestExists ==
    ASSUME NEW n \in Nat, NEW S \in SUBSET (1..n), S # {}
    PROVE  \E m \in S : \A i \in S : m >= i
<1> DEFINE B == {k \in Nat : n - k \in S}
<1>1. PICK x \in S : TRUE
  OBVIOUS
<1>2. n - x \in B
  BY <1>1
<1>3. PICK k \in B : \A j \in B : ~(j < k)
  <2>1. B \subseteq Nat /\ B # {}
    BY <1>2
  <2> HIDE DEF B
  <2>2. PICK k \in B : \A j \in B : ~(<<j, k>> \in OpToRel(<, Nat))
    BY <2>1, NatLessThanWellFounded, WFMin
  <2> QED
    BY <2>1, <2>2 DEF OpToRel
<1>4. ASSUME NEW i \in S PROVE i <= n - k
  <2>1. n - i \in B
    OBVIOUS
  <2> QED
    BY <1>3, <2>1
<1> QED
  BY <1>3, <1>4

-----------------------------------------------------------------------------
(* Sets of numbers in order                                                *)

\* A sequence that lists the numbers of S in order.
IsOrder(p, S) ==
    /\ p \in [1..Cardinality(S) -> S]
    /\ \A m, n \in 1..Cardinality(S) : m < n => p[m] < p[n]

\* Some first numbers are finitely many.
LEMMA FirstNumbers ==
    ASSUME NEW n \in Nat
    PROVE  IsFiniteSet(1..n) /\ Cardinality(1..n) = n
<1>1. 1 \in Int /\ n \in Int
  OBVIOUS
<1>2. IsFiniteSet(1..n) /\ Cardinality(1..n) = IF 1 > n THEN 0 ELSE n - 1 + 1
  BY <1>1, FS_Interval
<1>3. (IF 1 > n THEN 0 ELSE n - 1 + 1) = n
  OBVIOUS
<1> QED
  BY <1>2, <1>3

\* And so are those of a part of them.
LEMMA PositionsFinite ==
    ASSUME NEW n \in Nat, NEW S \in SUBSET (1..n)
    PROVE  IsFiniteSet(S) /\ Cardinality(S) \in Nat /\ Cardinality(S) <= n
<1>1. IsFiniteSet(1..n) /\ Cardinality(1..n) = n
  BY FirstNumbers
<1>2. IsFiniteSet(S) /\ Cardinality(S) <= Cardinality(1..n)
  BY <1>1, FS_Subset, Zenon
<1>3. Cardinality(S) \in Nat
  BY <1>2, FS_CardinalityType
<1> QED
  BY <1>1, <1>2, <1>3

\* A set in order with a greater number at its end.
LEMMA OrderGrows ==
    ASSUME NEW n \in Nat, NEW s \in SUBSET (1..n), NEW m \in s,
           \A i \in s : m >= i, NEW f, IsOrder(f, s \ {m})
    PROVE  \E g : IsOrder(g, s)
<1> DEFINE t == s \ {m}
           c == Cardinality(t)
           g == [i \in 1..(c + 1) |-> IF i <= c THEN f[i] ELSE m]
<1>1. c \in Nat /\ Cardinality(s) = c + 1
  <2>1. IsFiniteSet(s) /\ Cardinality(s) \in Nat
    BY PositionsFinite
  <2>2. Cardinality(s \ {m}) = IF m \in s THEN Cardinality(s) - 1 ELSE Cardinality(s)
    BY <2>1, FS_RemoveElement
  <2>3. t \in SUBSET (1..n)
    OBVIOUS
  <2>4. Cardinality(t) \in Nat
    BY <2>3, PositionsFinite
  <2> HIDE DEF t
  <2>5. Cardinality(t) = Cardinality(s) - 1
    BY <2>2 DEF t
  <2> QED
    BY <2>1, <2>4, <2>5
<1>2. \A i \in t : i \in s /\ i < m
  OBVIOUS
<1>3. f \in [1..c -> t] /\ \A i, j \in 1..c : i < j => f[i] < f[j]
  BY DEF IsOrder
<1> HIDE DEF t, c
<1>4. g \in [1..(c + 1) -> s]
  BY <1>1, <1>2, <1>3
<1>5. ASSUME NEW i \in 1..(c + 1), NEW j \in 1..(c + 1), i < j PROVE g[i] < g[j]
  <2>1. i \in 1..c /\ f[i] \in t /\ f[i] < m
    BY <1>1, <1>2, <1>3, <1>5
  <2>2. CASE j <= c
    BY <1>1, <1>3, <1>5, <2>1, <2>2
  <2>3. CASE ~(j <= c)
    BY <1>1, <2>1, <2>3
  <2> QED
    BY <2>2, <2>3
<1> HIDE DEF g
<1>6. IsOrder(g, s)
  BY <1>1, <1>4, <1>5 DEF IsOrder
<1> QED
  BY <1>6

\* Any finite set of positions can be put in order.
LEMMA OrderExists ==
    ASSUME NEW n \in Nat, NEW S \in SUBSET (1..n)
    PROVE  \E p : IsOrder(p, S)
<1> DEFINE B == {s \in SUBSET S : ~ \E p : IsOrder(p, s)}
<1> SUFFICES ASSUME B # {} PROVE FALSE
  OBVIOUS
<1>1. IsFiniteSet(S)
  BY PositionsFinite
<1>2. PICK s \in B : \A t \in SUBSET s : t # s => t \notin B
  <2>1. B \in SUBSET (SUBSET S)
    OBVIOUS
  <2> HIDE DEF B
  <2> QED
    BY <1>1, <2>1, SmallestFiniteSet
<1>3. s \in SUBSET (1..n) /\ ~ \E p : IsOrder(p, s)
  OBVIOUS
<1>4. s # {}
  <2>1. ASSUME s = {} PROVE IsOrder([i \in {} |-> 0], s)
    <3>1. Cardinality(s) = 0
      BY <2>1, FS_EmptySet
    <3>2. 1..0 = {}
      OBVIOUS
    <3> QED
      BY <2>1, <3>1, <3>2 DEF IsOrder
  <2> QED
    BY <1>3, <2>1
<1>5. PICK m \in s : \A i \in s : m >= i
  BY <1>3, <1>4, GreatestExists
<1>6. PICK f : IsOrder(f, s \ {m})
  BY <1>2, <1>5
<1> HIDE DEF B
<1> QED
  BY <1>3, <1>5, <1>6, OrderGrows

\* The places of a set in order: they grow, and every position has one.
LEMMA Ordered ==
    ASSUME NEW n \in Nat, NEW S \in SUBSET (1..n)
    PROVE  /\ Cardinality(S) \in 0..n
           /\ InOrder(S) \in [1..Cardinality(S) -> S]
           /\ \A i, j \in 1..Cardinality(S) : i < j => InOrder(S)[i] < InOrder(S)[j]
           /\ \A x \in S : \E i \in 1..Cardinality(S) : InOrder(S)[i] = x
<1> DEFINE c == Cardinality(S)
           p == InOrder(S)
<1>1. IsFiniteSet(S) /\ c \in Nat /\ c <= n
  BY PositionsFinite
<1>2. IsOrder(p, S)
  <2>1. p = CHOOSE q \in [1..c -> S] : \A i, j \in DOMAIN q : i < j => q[i] < q[j]
    BY DEF InOrder
  <2>2. PICK q : IsOrder(q, S)
    BY OrderExists
  <2>3. q \in [1..c -> S] /\ DOMAIN q = 1..c
    BY <2>2 DEF IsOrder
  <2>4. \A i, j \in DOMAIN q : i < j => q[i] < q[j]
    BY <2>2, <2>3 DEF IsOrder
  <2>5. \E r \in [1..c -> S] : \A i, j \in DOMAIN r : i < j => r[i] < r[j]
    BY <2>3, <2>4
  <2> HIDE DEF p
  <2>6. p \in [1..c -> S] /\ \A i, j \in DOMAIN p : i < j => p[i] < p[j]
    BY <2>1, <2>5
  <2>7. DOMAIN p = 1..c
    BY <2>6
  <2> QED
    BY <2>6, <2>7 DEF IsOrder
<1> HIDE DEF p
<1>3. p \in [1..c -> S] /\ \A i, j \in 1..c : i < j => p[i] < p[j]
  BY <1>2 DEF IsOrder
<1> HIDE DEF c
<1>4. p \in Injection(1..c, S)
  <2>1. \A i, j \in 1..c : p[i] = p[j] => i = j
    <3> SUFFICES ASSUME NEW i \in 1..c, NEW j \in 1..c, p[i] = p[j], i # j PROVE FALSE
      OBVIOUS
    <3>1. p[i] \in S /\ p[j] \in S /\ S \subseteq Int
      BY <1>3
    <3>2. i < j => p[i] < p[j]
      BY <1>3
    <3>4. j < i => p[j] < p[i]
      BY <1>3
    <3>3. i < j \/ j < i
      BY <1>1
    <3>5. ~(p[i] < p[j]) /\ ~(p[j] < p[i])
      <4>1. \A x \in Int : ~(x < x)
        OBVIOUS
      <4> QED
        BY <3>1, <4>1
    <3> QED
      BY <3>2, <3>3, <3>4, <3>5
  <2> QED
    BY <1>3, <2>1 DEF Injection, IsInjective
<1>5. Cardinality(1..c) = Cardinality(S)
  BY <1>1, FirstNumbers DEF c
<1>6. p \in Surjection(1..c, S)
  BY <1>1, <1>4, <1>5, FS_Injection
<1>7. \A x \in S : \E i \in 1..c : p[i] = x
  BY <1>6 DEF Surjection
<1> QED
  BY <1>1, <1>3, <1>7 DEF c, p

\* The part of a sequence up to a place.
LEMMA Beginning ==
    ASSUME NEW T, NEW x \in Seq(T), NEW n \in 0..Len(x)
    PROVE  /\ SubSeq(x, 1, n) \in Seq(T) /\ Len(SubSeq(x, 1, n)) = n
           /\ \A i \in 1..n : SubSeq(x, 1, n)[i] = x[i]
<1>1. Len(x) \in Nat /\ \A i \in 1..Len(x) : x[i] \in T
  BY LenProperties, ElementOfSeq
<1>2. n \in Nat /\ 1 \in Int /\ n \in Int /\ \A i \in 1..n : x[i] \in T
  BY <1>1
<1>3. /\ SubSeq(x, 1, n) \in Seq(T)
      /\ Len(SubSeq(x, 1, n)) = IF 1 <= n THEN n - 1 + 1 ELSE 0
      /\ \A i \in 1..n - 1 + 1 : SubSeq(x, 1, n)[i] = x[1 + i - 1]
  BY <1>2, SubSeqProperties
<1>4. Len(SubSeq(x, 1, n)) = n
  BY <1>2, <1>3
<1>5. ASSUME NEW i \in 1..n PROVE SubSeq(x, 1, n)[i] = x[i]
  <2>1. i \in 1..n - 1 + 1 /\ 1 + i - 1 = i
    BY <1>2
  <2> QED
    BY <1>3, <2>1
<1> QED
  BY <1>3, <1>4, <1>5

\* Selected places: what is there, in order.
LEMMA Selected ==
    ASSUME NEW T, NEW s \in Seq(T), NEW places \in SUBSET (1..Len(s))
    PROVE  /\ Selection(s, places) \in Seq(T)
           /\ Len(Selection(s, places)) = Cardinality(places)
           /\ Len(Selection(s, places)) <= Len(s)
           /\ \A n \in 1..Len(Selection(s, places)) :
                 /\ InOrder(places)[n] \in places
                 /\ Selection(s, places)[n] = s[InOrder(places)[n]]
           /\ \A m, n \in 1..Len(Selection(s, places)) :
                 m < n => InOrder(places)[m] < InOrder(places)[n]
<1> DEFINE p == InOrder(places)
           c == Cardinality(places)
           y == Selection(s, places)
<1>1. Len(s) \in Nat /\ \A i \in 1..Len(s) : s[i] \in T
  BY LenProperties, ElementOfSeq
<1>2. c \in 0..Len(s) /\ p \in [1..c -> places] /\ \A i, j \in 1..c : i < j => p[i] < p[j]
  BY <1>1, Ordered
<1>3. y = [n \in 1..c |-> s[p[n]]]
  BY <1>2 DEF Selection
<1> HIDE DEF p, c, y
<1>4. \A n \in 1..c : p[n] \in places /\ s[p[n]] \in T
  BY <1>1, <1>2
<1>5. c \in Nat /\ c <= Len(s)
  BY <1>1, <1>2
<1>6. y \in [1..c -> T]
  BY <1>3, <1>4
<1>7. y \in Seq(T) /\ Len(y) = c
  BY <1>5, <1>6
<1> QED
  BY <1>2, <1>3, <1>4, <1>5, <1>7 DEF p, c, y

\* The first of a sequence.
LEMMA FirstOf ==
    ASSUME NEW T, NEW s \in Seq(T), NEW n \in Nat
    PROVE  /\ First(s, n) \in Seq(T)
           /\ Len(First(s, n)) <= n /\ Len(First(s, n)) <= Len(s)
           /\ Len(s) # 0 /\ n # 0 => Len(First(s, n)) # 0
           /\ \A i \in 1..Len(First(s, n)) : First(s, n)[i] = s[i]
<1> DEFINE k == IF Len(s) < n THEN Len(s) ELSE n
<1>1. k \in 0..Len(s) /\ k <= n /\ k <= Len(s) /\ (Len(s) # 0 /\ n # 0 => k # 0)
  BY LenProperties
<1>2. First(s, n) = SubSeq(s, 1, k)
  BY DEF First
<1> HIDE DEF k
<1>3. /\ SubSeq(s, 1, k) \in Seq(T) /\ Len(SubSeq(s, 1, k)) = k
      /\ \A i \in 1..k : SubSeq(s, 1, k)[i] = s[i]
  BY <1>1, Beginning
<1> QED
  BY <1>1, <1>2, <1>3

-----------------------------------------------------------------------------
(* URLs                                                                    *)

\* The characters; no prover knows of a string that it is one.
Character == STRING \cup {"https://", "HTTPS://", "http://", "HTTP://", "a"}

\* A text, a sequence of characters.
Characters == Seq(Character)

\* Joining texts: lengths, places, and the order of joining.
LEMMA Joined ==
    ASSUME NEW x \in Characters, NEW y \in Characters
    PROVE  /\ x \o y \in Characters
           /\ Len(x) \in Nat /\ Len(y) \in Nat
           /\ Len(x \o y) = Len(x) + Len(y)
           /\ \A i \in 1..Len(x) : (x \o y)[i] = x[i]
           /\ \A i \in 1..Len(y) : (x \o y)[Len(x) + i] = y[i]
           /\ x \o <<>> = x /\ <<>> \o x = x
BY ConcatProperties, ConcatEmptySeq DEF Characters

\* It does not matter which two of three texts are joined first.
Regroups(x, y, z) == (x \o y) \o z = x \o (y \o z)

\* Joining is associative.
LEMMA JoinedInAnyOrder ==
    ASSUME NEW x \in Characters, NEW y \in Characters, NEW z \in Characters
    PROVE  Regroups(x, y, z)
BY ConcatAssociative DEF Characters, Regroups

\* The beginning of a joined text is the first part, the rest is the other one.
LEMMA PartsOfJoined ==
    ASSUME NEW x \in Characters, NEW y \in Characters
    PROVE  /\ SubSeq(x \o y, 1, Len(x)) = x
           /\ SubSeq(x \o y, Len(x) + 1, Len(x \o y)) = y
<1> DEFINE t == x \o y
<1>1. t \in Characters /\ Len(t) = Len(x) + Len(y) /\ Len(x) \in Nat /\ Len(y) \in Nat
  BY Joined
<1>2. \A i \in 1..Len(t) : t[i] \in Character
  BY <1>1, ElementOfSeq DEF Characters
<1>3. \A i \in 1..Len(x) : t[i] = x[i]
  BY Joined
<1>4. \A i \in 1..Len(y) : t[Len(x) + i] = y[i]
  BY Joined
<1> HIDE DEF t
<1> DEFINE m == Len(x)
           k == Len(t)
<1>5. m \in Nat /\ k \in Nat /\ k = m + Len(y)
  BY <1>1
<1>6. SubSeq(t, 1, m) = x
  <2>1. \A i \in 1..m : t[i] \in Character
    BY <1>2, <1>5, <1>1
  <2>2. /\ SubSeq(t, 1, m) \in Characters
        /\ Len(SubSeq(t, 1, m)) = IF 1 <= m THEN m - 1 + 1 ELSE 0
        /\ \A i \in 1..m - 1 + 1 : SubSeq(t, 1, m)[i] = t[1 + i - 1]
    <3>1. 1 \in Int /\ m \in Int
      BY <1>5
    <3> HIDE DEF m
    <3> QED
      BY <2>1, <3>1, SubSeqProperties DEF Characters
  <2>3. Len(SubSeq(t, 1, m)) = Len(x)
    BY <2>2, <1>5
  <2>4. ASSUME NEW i \in 1..Len(SubSeq(t, 1, m)) PROVE SubSeq(t, 1, m)[i] = x[i]
    <3>1. i \in 1..m - 1 + 1 /\ i \in 1..Len(x) /\ 1 + i - 1 = i
      BY <2>3, <1>5
    <3> QED
      BY <2>2, <3>1, <1>3
  <2> QED
    BY <2>2, <2>3, <2>4, SeqEqual DEF Characters
<1>7. SubSeq(t, m + 1, k) = y
  <2>1. \A i \in m + 1..k : t[i] \in Character
    BY <1>2, <1>5
  <2>2. /\ SubSeq(t, m + 1, k) \in Characters
        /\ Len(SubSeq(t, m + 1, k)) = IF m + 1 <= k THEN k - (m + 1) + 1 ELSE 0
        /\ \A i \in 1..k - (m + 1) + 1 : SubSeq(t, m + 1, k)[i] = t[m + 1 + i - 1]
    <3>1. m + 1 \in Int /\ k \in Int
      BY <1>5
    <3> HIDE DEF m, k
    <3> QED
      BY <2>1, <3>1, SubSeqProperties DEF Characters
  <2>3. Len(SubSeq(t, m + 1, k)) = Len(y)
    BY <2>2, <1>5, <1>1
  <2>4. ASSUME NEW i \in 1..Len(SubSeq(t, m + 1, k)) PROVE SubSeq(t, m + 1, k)[i] = y[i]
    <3>1. i \in 1..k - (m + 1) + 1 /\ i \in 1..Len(y) /\ m + 1 + i - 1 = m + i
      BY <2>3, <1>5, <1>1
    <3> QED
      BY <2>2, <3>1, <1>4
  <2> QED
    BY <2>2, <2>3, <2>4, SeqEqual DEF Characters
<1> QED
  BY <1>6, <1>7 DEF t, m, k

\* Joined texts have a mark only where a part has.
LEMMA WithoutJoined ==
    ASSUME NEW x \in Characters, NEW y \in Characters, NEW marks,
           Without(x, marks), Without(y, marks)
    PROVE  Without(x \o y, marks)
<1>1. /\ Len(x) \in Nat /\ Len(y) \in Nat /\ x \o y \in Characters
      /\ Len(x \o y) = Len(x) + Len(y)
  BY Joined
<1>2. DOMAIN x = 1..Len(x) /\ DOMAIN y = 1..Len(y) /\ DOMAIN (x \o y) = 1..Len(x \o y)
  BY <1>1, LenProperties DEF Characters
<1>3. ASSUME NEW i \in 1..Len(x \o y) PROVE (x \o y)[i] \notin marks
  <2>1. CASE i <= Len(x)
    <3>1. i \in 1..Len(x)
      BY <1>1, <2>1
    <3>2. (x \o y)[i] = x[i]
      BY <3>1, Joined
    <3> QED
      BY <1>2, <3>1, <3>2 DEF Without
  <2>2. CASE ~(i <= Len(x))
    <3> DEFINE j == i - Len(x)
    <3>1. j \in 1..Len(y) /\ i = Len(x) + j
      BY <1>1, <2>2
    <3>2. (x \o y)[i] = y[j]
      BY <3>1, Joined
    <3> QED
      BY <1>2, <3>1, <3>2 DEF Without
  <2> QED
    BY <2>1, <2>2
<1> QED
  BY <1>2, <1>3 DEF Without

\* A text is cut at the first of the marks that its second part begins with.
LEMMA CutAtMark ==
    ASSUME NEW x \in Characters, NEW y \in Characters, NEW marks, Without(x, marks),
           y = <<>> \/ y[1] \in marks
    PROVE  UpTo(x \o y, marks) = x /\ From(x \o y, marks) = y
<1> DEFINE t == x \o y
           I == {i \in 1..Len(t) : t[i] \in marks}
<1>1. t \in Characters /\ Len(t) = Len(x) + Len(y) /\ Len(x) \in Nat /\ Len(y) \in Nat
  BY Joined
<1>2. UpTo(t, marks) = LET i == IF I # {} THEN Min(I) ELSE 0 IN
                       IF i = 0 THEN t ELSE SubSeq(t, 1, i - 1)
  BY DEF UpTo, SelectInSeq
<1>3. \A i \in 1..Len(x) : t[i] = x[i] /\ t[i] \notin marks
  <2>1. DOMAIN x = 1..Len(x)
    BY LenProperties DEF Characters
  <2> QED
    BY <2>1, Joined DEF Without
<1>4. UpTo(t, marks) = x
  <2>1. CASE y = <<>>
    <3>1. t = x
      BY <2>1, Joined
    <3>2. I = {}
      BY <1>3, <3>1
    <3> QED
      BY <1>2, <3>1, <3>2
  <2>2. CASE y # <<>>
    <3>1. Len(y) \in Nat \ {0}
      BY <2>2, EmptySeq DEF Characters
    <3>2. t[Len(x) + 1] = y[1]
      <4>1. 1 \in 1..Len(y)
        BY <3>1
      <4>2. \A i \in 1..Len(y) : t[Len(x) + i] = y[i]
        BY Joined
      <4> QED
        BY <4>1, <4>2
    <3> DEFINE m == Len(x) + 1
    <3>3. m \in I
      BY <1>1, <2>2, <3>1, <3>2
    <3>4. \A i \in I : m <= i
      BY <1>1, <1>3
    <3>5. I \in SUBSET Int
      OBVIOUS
    <3> HIDE DEF I
    <3>6. Min(I) = m
      BY <3>3, <3>4, <3>5, LeastIs
    <3>7. m # 0 /\ m - 1 = Len(x)
      BY <1>1
    <3>8. UpTo(t, marks) = SubSeq(t, 1, m - 1)
      BY <1>2, <3>3, <3>6, <3>7
    <3> QED
      BY <3>7, <3>8, PartsOfJoined
  <2> QED
    BY <2>1, <2>2
<1>5. From(t, marks) = SubSeq(t, Len(x) + 1, Len(t))
  BY <1>4 DEF From
<1> QED
  BY <1>4, <1>5, PartsOfJoined

\* The part of a text up to a place.
LEMMA Prefix ==
    ASSUME NEW x \in Characters, NEW n \in 0..Len(x)
    PROVE  /\ SubSeq(x, 1, n) \in Characters /\ Len(SubSeq(x, 1, n)) = n
           /\ \A i \in 1..n : SubSeq(x, 1, n)[i] = x[i]
BY Beginning DEF Characters

\* The characters that separate the parts of a URL.
Marks == {" ", "/", "?", "#"}

\* Lower case keeps the length and the marks of a text, and is kept by itself.
LEMMA LowerKeeps ==
    ASSUME NEW x \in Characters
    PROVE  /\ Lower(x) \in Characters /\ Len(Lower(x)) = Len(x)
           /\ Lower(Lower(x)) = Lower(x)
           /\ \A marks \in SUBSET Marks : Without(x, marks) => Without(Lower(x), marks)
<1>1. Len(x) \in Nat /\ DOMAIN x = 1..Len(x) /\ \A i \in 1..Len(x) : x[i] \in Character
  BY LenProperties, ElementOfSeq DEF Characters
<1> DEFINE y == Lower(x)
           LowerOf(c) == CASE c = "HTTPS://" -> "https://"
                           [] c = "HTTP://" -> "http://"
                           [] c = "A" -> "a"
                           [] OTHER -> c
<1>2. y = [i \in 1..Len(x) |-> LowerOf(x[i])]
  BY <1>1 DEF Lower
<1>3. \A i \in 1..Len(x) : y[i] = LowerOf(x[i]) /\ y[i] \in Character
  <2>1. \A c \in Character : LowerOf(c) \in Character
    <3> SUFFICES ASSUME NEW c \in Character PROVE LowerOf(c) \in Character
      OBVIOUS
    <3>1. LowerOf(c) \in {"https://", "http://", "a", c}
      OBVIOUS
    <3>2. "https://" \in Character /\ "http://" \in Character /\ "a" \in Character
      BY DEF Character
    <3> HIDE DEF LowerOf
    <3> QED
      BY <3>1, <3>2
  <2> HIDE DEF y, LowerOf
  <2> QED
    BY <1>1, <1>2, <2>1
<1>4. y \in [1..Len(x) -> Character]
  BY <1>2, <1>3
<1>5. y \in Characters /\ Len(y) = Len(x) /\ DOMAIN y = 1..Len(x)
  BY <1>1, <1>4 DEF Characters
<1>6. Lower(y) = y
  <2>1. Lower(y) = [i \in 1..Len(x) |-> LowerOf(y[i])]
    BY <1>5 DEF Lower
  <2>2. \A i \in 1..Len(x) : LowerOf(y[i]) = y[i]
    BY <1>3
  <2> HIDE DEF y, LowerOf
  <2> QED
    BY <2>1, <2>2, <1>4
<1>7. ASSUME NEW marks \in SUBSET Marks, Without(x, marks) PROVE Without(y, marks)
  <2>1. \A i \in 1..Len(x) : x[i] \notin marks
    BY <1>1, <1>7 DEF Without
  <2>2. \A i \in 1..Len(x) : y[i] = x[i] \/ y[i] \notin Marks
    BY <1>1, <1>3 DEF Marks
  <2> QED
    BY <2>1, <2>2, <1>5 DEF Without
<1> QED
  BY <1>5, <1>6, <1>7

\* A path without its last slashes is a part of it that has none at its end.
LEMMA SlashesGone ==
    ASSUME NEW x \in Characters
    PROVE  /\ \E n \in 0..Len(x) : WithoutSlashes(x) = SubSeq(x, 1, n)
           /\ WithoutSlashes(WithoutSlashes(x)) = WithoutSlashes(x)
<1> DEFINE I == {i \in 1..Len(x) : x[i] # "/"}
           n == IF I # {} THEN Max(I) ELSE 0
           y == SubSeq(x, 1, n)
           J == {i \in 1..Len(y) : y[i] # "/"}
<1>1. Len(x) \in Nat
  BY LenProperties DEF Characters
<1>2. WithoutSlashes(x) = y
  BY DEF WithoutSlashes, SelectLastInSeq
<1>3. n \in 0..Len(x) /\ (n # 0 => n \in I /\ \A i \in I : i <= n) /\ (n = 0 => I = {})
  <2>1. CASE I = {}
    BY <1>1, <2>1
  <2>2. CASE I # {}
    <3>1. I \in SUBSET (1..Len(x)) /\ I \in SUBSET Int
      OBVIOUS
    <3> HIDE DEF I
    <3>2. PICK m \in I : \A i \in I : m >= i
      BY <1>1, <2>2, <3>1, GreatestExists
    <3>3. Max(I) = m
      BY <3>1, <3>2, GreatestIs
    <3>4. n = m /\ m \in 1..Len(x)
      BY <2>2, <3>1, <3>3
    <3> HIDE DEF n
    <3> QED
      BY <1>1, <2>2, <3>1, <3>2, <3>4
  <2> QED
    BY <2>1, <2>2
<1> HIDE DEF n
<1>4. y \in Characters /\ Len(y) = n /\ \A i \in 1..n : y[i] = x[i]
  BY <1>3, Prefix
<1>5. WithoutSlashes(y) = SubSeq(y, 1, IF J # {} THEN Max(J) ELSE 0)
  BY DEF WithoutSlashes, SelectLastInSeq
<1> HIDE DEF y
<1>6. (IF J # {} THEN Max(J) ELSE 0) = n
  <2>1. CASE n = 0
    BY <1>4, <2>1
  <2>2. CASE n # 0
    <3>1. n \in J
      BY <1>3, <1>4, <2>2
    <3>2. J \in SUBSET Int /\ \A i \in J : n >= i
      BY <1>1, <1>3, <1>4
    <3> HIDE DEF J
    <3>3. Max(J) = n
      BY <3>1, <3>2, GreatestIs
    <3> QED
      BY <3>1, <3>3
  <2> QED
    BY <2>1, <2>2
<1>7. SubSeq(y, 1, n) = y
  <2>1. SubSeq(y, 1, Len(y)) = y
    BY <1>4, SubSeqFull DEF Characters
  <2> QED
    BY <1>4, <2>1
<1>8. WithoutSlashes(y) = y
  BY <1>5, <1>6, <1>7
<1> QED
  BY <1>2, <1>3, <1>8 DEF y

\* Nothing but blanks; no blank at the end.
IsBlank(character) == character = " "

AllBlank(x) == \A i \in DOMAIN x : IsBlank(x[i])

EndsSolid(x) == x = <<>> \/ ~IsBlank(x[Len(x)])

\* No text has nothing but blanks.
LEMMA NothingIsBlank ==
    ASSUME NEW x \in Characters, x = <<>>
    PROVE  AllBlank(x)
<1>1. Len(x) = 0 /\ DOMAIN x = 1..Len(x)
  BY EmptySeq, LenProperties DEF Characters
<1> QED
  BY <1>1 DEF AllBlank

\* Blanks behind blanks are blanks.
LEMMA BlankJoined ==
    ASSUME NEW x \in Characters, NEW y \in Characters, AllBlank(x), AllBlank(y)
    PROVE  AllBlank(x \o y)
<1>1. /\ x \o y \in Characters /\ Len(x) \in Nat /\ Len(y) \in Nat
      /\ Len(x \o y) = Len(x) + Len(y)
      /\ \A i \in 1..Len(x) : (x \o y)[i] = x[i]
      /\ \A i \in 1..Len(y) : (x \o y)[Len(x) + i] = y[i]
  BY Joined
<1>2. DOMAIN x = 1..Len(x) /\ DOMAIN y = 1..Len(y) /\ DOMAIN (x \o y) = 1..Len(x \o y)
  BY <1>1, LenProperties DEF Characters
<1>3. ASSUME NEW i \in 1..Len(x \o y) PROVE IsBlank((x \o y)[i])
  <2>1. CASE i <= Len(x)
    <3>1. i \in 1..Len(x)
      BY <1>1, <2>1
    <3> QED
      BY <1>1, <1>2, <3>1 DEF AllBlank
  <2>2. CASE ~(i <= Len(x))
    <3> DEFINE j == i - Len(x)
    <3>1. j \in 1..Len(y) /\ i = Len(x) + j
      BY <1>1, <2>2
    <3> HIDE DEF j
    <3> QED
      BY <1>1, <1>2, <3>1 DEF AllBlank
  <2> QED
    BY <2>1, <2>2
<1> QED
  BY <1>2, <1>3 DEF AllBlank

\* A text and, if anything, a fragment behind it.
Keeps(x, w) == \E g \in Characters : x = w \o g /\ (g = <<>> \/ g[1] = "#")

\* Blanks around a text go, blanks inside of it and before a fragment stay; of the
\* fragment a part stays.
LEMMA BlanksGone ==
    ASSUME NEW b \in Characters, NEW w \in Characters, NEW f \in Characters, NEW a \in Characters,
           AllBlank(b), AllBlank(a),
           w # <<>>, ~IsBlank(w[1]), f = <<>> => EndsSolid(w), f # <<>> => f[1] = "#"
    PROVE  Keeps(Strip((b \o (w \o f)) \o a), w)
<1> DEFINE m == w \o f
           t == (b \o m) \o a
           solid == {i \in 1..Len(t) : ~IsBlank(t[i])}
           lenB == Len(b)
           lenW == Len(w)
           lenF == Len(f)
           lenA == Len(a)
           lenM == Len(m)
           lenT == Len(t)
<1>1. /\ m \in Characters /\ b \o m \in Characters /\ t \in Characters
      /\ lenB \in Nat /\ lenW \in Nat /\ lenF \in Nat /\ lenA \in Nat
      /\ lenM = lenW + lenF /\ Len(b \o m) = lenB + (lenW + lenF) /\ lenT = lenB + (lenW + lenF) + lenA
  <2>1. m \in Characters /\ Len(m) = lenW + lenF /\ lenW \in Nat /\ lenF \in Nat
    BY Joined
  <2> HIDE DEF m
  <2>2. b \o m \in Characters /\ Len(b \o m) = lenB + Len(m) /\ lenB \in Nat
    BY <2>1, Joined
  <2>3. t \in Characters /\ Len(t) = Len(b \o m) + Len(a) /\ Len(a) \in Nat
    BY <2>2, Joined
  <2> HIDE DEF t, lenB, lenW, lenF
  <2> QED
    BY <2>1, <2>2, <2>3 DEF m
<1>0. /\ lenB \in Nat /\ lenW \in Nat /\ lenF \in Nat /\ lenA \in Nat
      /\ lenM = lenW + lenF /\ lenT = lenB + (lenW + lenF) + lenA
  <2> HIDE DEF m, t, lenB, lenW, lenF, lenA, lenM, lenT
  <2> QED
    BY <1>1
<1>2. /\ \A i \in 1..lenM : t[lenB + i] = m[i]
      /\ \A i \in 1..lenB : IsBlank(t[i])
      /\ \A i \in 1..lenA : IsBlank(t[lenB + (lenW + lenF) + i])
  <2>0. (\A i \in 1..lenB : IsBlank(b[i])) /\ (\A i \in 1..lenA : IsBlank(a[i]))
    <3>1. DOMAIN a = 1..lenA /\ DOMAIN b = 1..lenB
      BY LenProperties DEF Characters
    <3> QED
      BY <3>1 DEF AllBlank
  <2>1. \A i \in 1..lenB + (lenW + lenF) : t[i] = (b \o m)[i]
    <3>1. \A i \in 1..Len(b \o m) : t[i] = (b \o m)[i]
      BY <1>1, Joined
    <3> QED
      BY <1>1, <3>1
  <2>2. /\ \A i \in 1..lenB : (b \o m)[i] = b[i]
        /\ \A i \in 1..lenM : (b \o m)[lenB + i] = m[i]
    BY <1>1, Joined
  <2>3. \A i \in 1..lenA : t[lenB + (lenW + lenF) + i] = a[i]
    <3>1. \A i \in 1..lenA : t[Len(b \o m) + i] = a[i]
      BY <1>1, Joined
    <3> QED
      BY <1>1, <3>1
  <2> HIDE DEF m, t, lenB, lenW, lenF, lenA, lenM
  <2>4. ASSUME NEW i \in 1..lenM PROVE t[lenB + i] = m[i]
    <3>1. lenB + i \in 1..lenB + (lenW + lenF)
      BY <1>0
    <3> QED
      BY <2>1, <2>2, <3>1
  <2>5. ASSUME NEW i \in 1..lenB PROVE IsBlank(t[i])
    <3>1. i \in 1..lenB + (lenW + lenF)
      BY <1>0
    <3> QED
      BY <2>0, <2>1, <2>2, <3>1
  <2>6. ASSUME NEW i \in 1..lenA PROVE IsBlank(t[lenB + (lenW + lenF) + i])
    BY <2>0, <2>3
  <2> QED
    BY <2>4, <2>5, <2>6
<1>3. /\ \A i \in 1..lenW : m[i] = w[i]
      /\ \A i \in 1..lenF : m[lenW + i] = f[i]
  BY Joined
<1>18. lenW \in Nat \ {0}
  BY EmptySeq DEF Characters
<1>22. lenF = 0 => ~IsBlank(w[lenW])
  BY EmptySeq DEF Characters, EndsSolid
<1>21. solid \in SUBSET (1..lenT)
  OBVIOUS
<1>19. \A i \in 1..lenT : ~IsBlank(t[i]) => i \in solid
  OBVIOUS
<1>20. \A i \in solid : ~IsBlank(t[i])
  OBVIOUS
<1>4. DOMAIN t = 1..lenT
  BY <1>1, LenProperties DEF Characters
<1>5. Strip(t) = IF solid = {} THEN <<>> ELSE SubSeq(t, Min(solid), Max(solid))
  BY <1>4 DEF Strip, IsBlank
<1> HIDE DEF solid, m, t, lenB, lenW, lenF, lenA, lenM, lenT
<1>6. lenB + 1 \in solid /\ (lenF = 0 => lenB + lenW \in solid)
  <2>1. ~IsBlank(t[lenB + 1])
    <3>1. 1 \in 1..lenM /\ 1 \in 1..lenW
      BY <1>0, <1>18
    <3>2. t[lenB + 1] = m[1] /\ m[1] = w[1]
      BY <3>1, <1>2, <1>3
    <3> QED
      BY <3>2
  <2>2. lenF = 0 => ~IsBlank(t[lenB + lenW])
    <3>1. lenW \in 1..lenM /\ lenW \in 1..lenW
      BY <1>0, <1>18
    <3>2. t[lenB + lenW] = m[lenW] /\ m[lenW] = w[lenW]
      BY <3>1, <1>2, <1>3
    <3> QED
      BY <3>2, <1>22
  <2>3. lenB + 1 \in 1..lenT /\ lenB + lenW \in 1..lenT
    BY <1>0, <1>18
  <2> QED
    BY <1>19, <2>1, <2>2, <2>3
<1>7. ASSUME NEW i \in solid PROVE lenB + 1 <= i /\ i <= lenB + (lenW + lenF)
  <2>0. i \in 1..lenT /\ ~IsBlank(t[i])
    BY <1>20, <1>21
  <2>3. i \in Int /\ i >= 1 /\ i <= lenT
    <3>1. \A k \in 1..lenT : k \in Int /\ k >= 1 /\ k <= lenT
      BY <1>0
    <3> QED
      BY <2>0, <3>1
  <2>4. ~(i \in 1..lenB)
    BY <1>2, <2>0
  <2>1. lenB + 1 <= i
    BY <1>0, <2>3, <2>4
  <2>2. i <= lenB + (lenW + lenF)
    <3> SUFFICES ASSUME i > lenB + (lenW + lenF) PROVE FALSE
      BY <1>0, <2>3
    <3> DEFINE j == i - (lenB + (lenW + lenF))
    <3>1. j \in 1..lenA /\ i = lenB + (lenW + lenF) + j
      BY <1>0, <2>3
    <3> HIDE DEF j
    <3> QED
      BY <1>2, <2>0, <3>1
  <2> QED
    BY <2>1, <2>2
<1>8. solid \in SUBSET (1..lenT) /\ solid \in SUBSET Int /\ lenT \in Nat
  BY <1>0, <1>21
<1>9. lenF # 0 => lenB + (lenW + 1) \in solid
  <2> SUFFICES ASSUME lenF # 0 PROVE lenB + (lenW + 1) \in solid
    OBVIOUS
  <2>1. f[1] = "#"
    BY EmptySeq DEF Characters, lenF
  <2>2. 1 \in 1..lenF /\ lenW + 1 \in 1..lenM
    BY <1>0
  <2>3. t[lenB + (lenW + 1)] = m[lenW + 1] /\ m[lenW + 1] = f[1]
    BY <1>2, <1>3, <2>2
  <2>4. lenB + (lenW + 1) \in 1..lenT
    BY <1>0
  <2> QED
    BY <1>19, <2>1, <2>3, <2>4 DEF IsBlank
<1>10. Min(solid) = lenB + 1
  <2>1. lenB + 1 \in solid /\ \A i \in solid : lenB + 1 <= i
    BY <1>6, <1>7
  <2> QED
    BY <1>8, <2>1, LeastIs
<1>11. PICK last \in solid : \A i \in solid : last >= i
  BY <1>6, <1>8, GreatestExists
<1>12. Max(solid) = last
  BY <1>8, <1>11, GreatestIs
<1> DEFINE n == last - (lenB + lenW)
           g == SubSeq(f, 1, n)
<1>13. n \in 0..lenF /\ last = lenB + lenW + n /\ (lenF # 0 => n # 0)
  <2>1. last \in Int /\ last <= lenB + (lenW + lenF)
    BY <1>7, <1>8, <1>11
  <2>2. lenF # 0 => last >= lenB + (lenW + 1)
    BY <1>9, <1>11
  <2>3. lenF = 0 => last >= lenB + lenW
    BY <1>6, <1>11
  <2> QED
    BY <1>0, <2>1, <2>2, <2>3
<1> HIDE DEF n
<1>14. g \in Characters /\ Len(g) = n /\ \A i \in 1..n : g[i] = f[i]
  BY <1>13, Prefix DEF lenF
<1>15. g = <<>> \/ g[1] = "#"
  <2>1. CASE n = 0
    BY <1>14, <2>1, EmptySeq DEF Characters
  <2>2. CASE n # 0
    <3>1. 1 \in 1..n /\ lenF # 0
      BY <1>0, <1>13, <2>2
    <3>2. f # <<>>
      BY <3>1, EmptySeq DEF Characters, lenF
    <3> QED
      BY <1>14, <3>1, <3>2
  <2> QED
    BY <2>1, <2>2
<1> HIDE DEF g
<1>16. SubSeq(t, lenB + 1, last) = w \o g
  <2> DEFINE s == SubSeq(t, lenB + 1, last)
  <2>1. \A i \in lenB + 1..last : t[i] \in Character
    <3>1. \A i \in 1..lenT : t[i] \in Character
      BY <1>1, ElementOfSeq DEF Characters, lenT
    <3> QED
      BY <1>0, <1>8, <1>11, <3>1
  <2>2. /\ s \in Characters /\ Len(s) = IF lenB + 1 <= last THEN last - (lenB + 1) + 1 ELSE 0
        /\ \A i \in 1..last - (lenB + 1) + 1 : s[i] = t[lenB + 1 + i - 1]
    <3>1. lenB + 1 \in Int /\ last \in Int
      BY <1>0, <1>8
    <3> QED
      BY <2>1, <3>1, SubSeqProperties DEF Characters
  <2>3. /\ w \o g \in Characters /\ Len(w \o g) = lenW + n
        /\ \A i \in 1..lenW : (w \o g)[i] = w[i]
        /\ \A i \in 1..n : (w \o g)[lenW + i] = g[i]
    BY <1>14, Joined DEF lenW
  <2> HIDE DEF s
  <2>4. Len(s) = lenW + n
    BY <1>0, <1>18, <1>13, <2>2
  <2>5. ASSUME NEW i \in 1..Len(s) PROVE s[i] = (w \o g)[i]
    <3>1. i \in 1..last - (lenB + 1) + 1 /\ lenB + 1 + i - 1 = lenB + i /\ i \in 1..lenM
      BY <1>0, <1>13, <2>4
    <3>2. s[i] = m[i]
      BY <1>2, <2>2, <3>1
    <3>3. CASE i <= lenW
      <4>1. i \in 1..lenW
        BY <1>1, <3>3
      <4> QED
        BY <1>3, <2>3, <3>2, <4>1
    <3>4. CASE ~(i <= lenW)
      <4> DEFINE j == i - lenW
      <4>1. j \in 1..n /\ i = lenW + j /\ j \in 1..lenF
        BY <1>0, <1>13, <2>4, <3>4
      <4> HIDE DEF j
      <4>2. m[i] = f[j] /\ g[j] = f[j] /\ (w \o g)[i] = g[j]
        BY <1>3, <1>14, <2>3, <4>1
      <4> QED
        BY <3>2, <4>2
    <3> QED
      BY <3>3, <3>4
  <2> QED
    BY <2>2, <2>3, <2>4, <2>5, SeqEqual DEF Characters, s
<1>17. Strip(t) = w \o g
  BY <1>5, <1>6, <1>10, <1>12, <1>16
<1> QED
  BY <1>14, <1>15, <1>17 DEF t, m, Keeps

\* The parts of a URL, over the characters.
UrlParts(u) ==
    /\ u.before \in Characters /\ AllBlank(u.before)
    /\ u.after \in Characters /\ AllBlank(u.after)
    /\ u.scheme \in {<<"https://">>, <<"HTTPS://">>, <<"http://">>, <<"HTTP://">>}
    /\ u.host \in Characters /\ u.host # <<>> /\ Without(u.host, {" ", "/", "?", "#"})
    /\ u.path \in Characters /\ Without(u.path, {"?", "#"})
    /\ u.path # <<>> => u.path[1] = "/"
    /\ u.query \in Characters /\ Without(u.query, {"#"})
    /\ u.query # <<>> => u.query[1] = "?"
    /\ u.fragment \in Characters /\ (u.fragment # <<>> => u.fragment[1] = "#")

\* A URL's parts are texts, its host and path without the marks that end them.
LEMMA PartsOfUrl ==
    ASSUME NEW u, WellFormedUrl(u)
    PROVE  UrlParts(u)
<1>1. /\ u.before \in Seq(STRING) /\ u.host \in Seq(STRING) /\ u.path \in Seq(STRING)
      /\ u.query \in Seq(STRING) /\ u.fragment \in Seq(STRING) /\ u.after \in Seq(STRING)
  BY DEF WellFormedUrl
<1>2. \A x \in Seq(STRING) : x \in Characters
  <2>1. STRING \subseteq Character
    BY DEF Character
  <2> QED
    BY <2>1, SeqMonotonic DEF Characters
<1>3. /\ u.before \in Characters /\ u.host \in Characters /\ u.path \in Characters
      /\ u.query \in Characters /\ u.fragment \in Characters /\ u.after \in Characters
  BY <1>1, <1>2
<1>4. AllBlank(u.before) /\ AllBlank(u.after)
  BY DEF WellFormedUrl, AllBlank, IsBlank
<1> QED
  BY <1>3, <1>4 DEF WellFormedUrl, UrlParts

\* A host, and what may come behind a host.
IsHost(h) == h # <<>> /\ Without(h, {" ", "/", "?", "#"})

IsTail(t) == Without(t, {"#"}) /\ (t = <<>> \/ t[1] \in EndsHost)

Schemes == {<<"https://">>, <<"HTTPS://">>, <<"http://">>, <<"HTTP://">>}

\* A scheme is one character.
LEMMA SchemeIsOne ==
    ASSUME NEW c \in Schemes
    PROVE  /\ c \in Characters /\ Len(c) = 1 /\ ~IsBlank(c[1])
           /\ Lower(c) \in {<<"https://">>, <<"http://">>} /\ Lower(Lower(c)) = Lower(c)
<1>1. \A x \in Character : <<x>> \in Characters /\ Len(<<x>>) = 1 /\ <<x>>[1] = x
  BY DEF Characters
<1>2. \E x \in {"https://", "HTTPS://", "http://", "HTTP://"} : c = <<x>>
  BY DEF Schemes
<1>3. PICK x \in {"https://", "HTTPS://", "http://", "HTTP://"} : c = <<x>>
  BY <1>2
<1>4. x \in Character /\ ~IsBlank(x)
  BY DEF Character, IsBlank
<1>5. Lower(c) \in {<<"https://">>, <<"http://">>}
  BY DEF Lower, Schemes
<1>6. Lower(<<"https://">>) = <<"https://">> /\ Lower(<<"http://">>) = <<"http://">>
  BY DEF Lower
<1> QED
  BY <1>1, <1>3, <1>4, <1>5, <1>6

\* A part of a text up to a place has no mark that the text has not, and begins
\* like it.
LEMMA PrefixKeeps ==
    ASSUME NEW x \in Characters, NEW n \in 0..Len(x)
    PROVE  /\ SubSeq(x, 1, n) \in Characters /\ Len(SubSeq(x, 1, n)) = n
           /\ SubSeq(x, 1, n) = <<>> \/ (x # <<>> /\ SubSeq(x, 1, n)[1] = x[1])
           /\ \A marks : Without(x, marks) => Without(SubSeq(x, 1, n), marks)
           /\ \A mark : Contains(SubSeq(x, 1, n), mark) => Contains(x, mark)
<1> DEFINE y == SubSeq(x, 1, n)
<1>1. y \in Characters /\ Len(y) = n /\ \A i \in 1..n : y[i] = x[i]
  BY Prefix
<1> HIDE DEF y
<1>2. DOMAIN y = 1..n /\ DOMAIN x = 1..Len(x) /\ Len(x) \in Nat
  BY <1>1, LenProperties DEF Characters
<1>3. n \in Nat /\ 1..n \subseteq 1..Len(x)
  BY <1>2
<1>4. y = <<>> \/ (x # <<>> /\ y[1] = x[1])
  <2>1. CASE n = 0
    BY <1>1, <2>1, EmptySeq DEF Characters
  <2>2. CASE n # 0
    <3>1. 1 \in 1..n /\ Len(x) # 0
      BY <1>2, <1>3, <2>2
    <3> QED
      BY <1>1, <3>1, EmptySeq
  <2> QED
    BY <2>1, <2>2
<1>5. ASSUME NEW marks, Without(x, marks) PROVE Without(y, marks)
  BY <1>1, <1>2, <1>3, <1>5 DEF Without
<1>6. ASSUME NEW mark, Contains(y, mark) PROVE Contains(x, mark)
  BY <1>1, <1>2, <1>3, <1>6 DEF Contains
<1> QED
  BY <1>1, <1>4, <1>5, <1>6 DEF y

\* A text is what is left of it without the blanks at its end, and those blanks.
LEMMA BlanksOff ==
    ASSUME NEW x \in Characters
    PROVE  /\ \E n \in 0..Len(x) : WithoutBlanks(x) = SubSeq(x, 1, n)
           /\ EndsSolid(WithoutBlanks(x))
           /\ \E r \in Characters : AllBlank(r) /\ x = WithoutBlanks(x) \o r
<1> DEFINE I == {i \in 1..Len(x) : ~IsBlank(x[i])}
           n == IF I # {} THEN Max(I) ELSE 0
           y == SubSeq(x, 1, n)
<1>1. Len(x) \in Nat
  BY LenProperties DEF Characters
<1>2. WithoutBlanks(x) = y
  BY DEF WithoutBlanks, SelectLastInSeq, IsBlank
<1>3. /\ n \in 0..Len(x) /\ (n # 0 => ~IsBlank(x[n]))
      /\ \A i \in 1..Len(x) : i > n => IsBlank(x[i])
  <2>1. CASE I = {}
    BY <1>1, <2>1
  <2>2. CASE I # {}
    <3>1. I \in SUBSET (1..Len(x)) /\ I \in SUBSET Int
      OBVIOUS
    <3>2. (\A i \in I : ~IsBlank(x[i])) /\ (\A i \in 1..Len(x) : ~IsBlank(x[i]) => i \in I)
      OBVIOUS
    <3> HIDE DEF I
    <3>3. PICK m \in I : \A i \in I : m >= i
      BY <1>1, <2>2, <3>1, GreatestExists
    <3>4. Max(I) = m
      BY <3>1, <3>3, GreatestIs
    <3>5. n = m /\ m \in 1..Len(x)
      BY <2>2, <3>1, <3>4
    <3> HIDE DEF n
    <3>6. ASSUME NEW i \in 1..Len(x), i > n PROVE IsBlank(x[i])
      BY <1>1, <3>2, <3>3, <3>5, <3>6
    <3> QED
      BY <1>1, <3>2, <3>5, <3>6
  <2> QED
    BY <2>1, <2>2
<1> HIDE DEF n
<1>4. y \in Characters /\ Len(y) = n /\ \A i \in 1..n : y[i] = x[i]
  BY <1>3, Prefix
<1> HIDE DEF y
<1>5. EndsSolid(y)
  <2>1. CASE n = 0
    BY <1>4, <2>1, EmptySeq DEF Characters, EndsSolid
  <2>2. CASE n # 0
    <3>1. n \in 1..n
      BY <1>1, <1>3, <2>2
    <3> QED
      BY <1>3, <1>4, <2>2, <3>1 DEF EndsSolid
  <2> QED
    BY <2>1, <2>2
<1> DEFINE k == Len(x) - n
           r == [i \in 1..k |-> x[n + i]]
<1>6. k \in Nat /\ n \in Nat /\ Len(x) = n + k
  BY <1>1, <1>3
<1>7. r \in Characters /\ Len(r) = k /\ AllBlank(r) /\ \A i \in 1..k : r[i] = x[n + i]
  <2>1. \A i \in 1..k : n + i \in 1..Len(x) /\ n + i > n
    BY <1>6
  <2> HIDE DEF k
  <2>2. \A i \in 1..Len(x) : x[i] \in Character
    BY ElementOfSeq DEF Characters
  <2>3. r \in [1..k -> Character]
    BY <2>1, <2>2
  <2>4. r \in Characters /\ Len(r) = k /\ DOMAIN r = 1..k
    BY <1>6, <2>3 DEF Characters
  <2>5. \A i \in 1..k : IsBlank(r[i])
    BY <1>3, <2>1
  <2> QED
    BY <2>4, <2>5 DEF AllBlank
<1> HIDE DEF k, r
<1>8. x = y \o r
  <2>1. /\ y \o r \in Characters /\ Len(y \o r) = Len(y) + Len(r)
        /\ \A i \in 1..Len(y) : (y \o r)[i] = y[i]
        /\ \A i \in 1..Len(r) : (y \o r)[Len(y) + i] = r[i]
    BY <1>4, <1>7, Joined
  <2>2. Len(y \o r) = Len(x)
    BY <1>4, <1>6, <1>7, <2>1
  <2>3. ASSUME NEW i \in 1..Len(x) PROVE x[i] = (y \o r)[i]
    <3>1. CASE i <= n
      <4>1. i \in 1..n /\ i \in 1..Len(y)
        BY <1>1, <1>4, <1>6, <3>1
      <4> QED
        BY <1>4, <2>1, <4>1
    <3>2. CASE ~(i <= n)
      <4> DEFINE j == i - n
      <4>1. j \in 1..k /\ i = n + j /\ i > n
        BY <1>1, <1>6, <3>2
      <4> HIDE DEF j
      <4>2. (y \o r)[i] = r[j]
        BY <1>4, <1>7, <2>1, <4>1
      <4> QED
        BY <1>7, <4>1, <4>2
    <3> QED
      BY <3>1, <3>2
  <2> QED
    BY <2>1, <2>2, <2>3, SeqEqual DEF Characters
<1> QED
  BY <1>2, <1>3, <1>5, <1>7, <1>8 DEF y

\* Scheme, host and the rest together begin with no blank, and end with one only if
\* the rest does.
LEMMA UrlIsSolid ==
    ASSUME NEW c \in Schemes, NEW h \in Characters, IsHost(h), NEW t \in Characters
    PROVE  /\ c \o (h \o t) \in Characters /\ c \o (h \o t) # <<>>
           /\ ~IsBlank((c \o (h \o t))[1])
           /\ EndsSolid(t) <=> EndsSolid(c \o (h \o t))
<1> DEFINE r == h \o t
           w == c \o r
<1>1. c \in Characters /\ Len(c) = 1 /\ ~IsBlank(c[1])
  BY SchemeIsOne
<1>2. /\ r \in Characters /\ Len(r) = Len(h) + Len(t) /\ Len(h) \in Nat /\ Len(t) \in Nat
      /\ \A i \in 1..Len(h) : r[i] = h[i]
      /\ \A i \in 1..Len(t) : r[Len(h) + i] = t[i]
  BY Joined
<1> HIDE DEF r
<1>3. /\ w \in Characters /\ Len(w) = Len(c) + Len(r)
      /\ \A i \in 1..Len(c) : w[i] = c[i]
      /\ \A i \in 1..Len(r) : w[Len(c) + i] = r[i]
  BY <1>1, <1>2, Joined
<1> HIDE DEF w
<1>4. ~IsBlank(w[1]) /\ w # <<>>
  <2>1. 1 \in 1..Len(c) /\ Len(w) # 0
    BY <1>1, <1>2, <1>3
  <2> QED
    BY <1>1, <1>3, <2>1, EmptySeq
<1>5. Len(h) \in Nat \ {0} /\ \A i \in 1..Len(h) : ~IsBlank(h[i])
  <2>1. DOMAIN h = 1..Len(h)
    BY LenProperties DEF Characters
  <2>2. h # <<>> /\ \A i \in DOMAIN h : ~IsBlank(h[i])
    BY DEF IsHost, Without, IsBlank
  <2> QED
    BY <1>2, <2>1, <2>2, EmptySeq DEF Characters
<1>6. EndsSolid(t) <=> EndsSolid(w)
  <2>1. CASE t = <<>>
    <3>1. Len(t) = 0
      BY <2>1, EmptySeq
    <3>2. Len(w) = Len(c) + Len(h) /\ Len(h) \in 1..Len(h) /\ Len(h) \in 1..Len(r)
      BY <1>1, <1>2, <1>3, <1>5, <3>1
    <3>3. w[Len(w)] = h[Len(h)]
      BY <1>2, <1>3, <3>2
    <3> QED
      BY <1>5, <2>1, <3>2, <3>3 DEF EndsSolid
  <2>2. CASE t # <<>>
    <3>1. Len(t) \in Nat \ {0}
      BY <2>2, EmptySeq DEF Characters
    <3>2. /\ Len(w) = Len(c) + Len(r) /\ Len(r) = Len(h) + Len(t)
          /\ Len(t) \in 1..Len(t) /\ Len(r) \in 1..Len(r)
      BY <1>1, <1>2, <1>3, <3>1
    <3>3. w[Len(w)] = t[Len(t)]
      BY <1>2, <1>3, <3>2
    <3> QED
      BY <1>4, <2>2, <3>3 DEF EndsSolid
  <2> QED
    BY <2>1, <2>2
<1> QED
  BY <1>3, <1>4, <1>6 DEF w, r

\* What is left of a text that is, without the blanks around it, a scheme, a host,
\* a rest and perhaps a fragment.
LEMMA NormalOfStripped ==
    ASSUME NEW T, NEW c \in Schemes, NEW h \in Characters, IsHost(h),
           NEW t \in Characters, IsTail(t), Keeps(Strip(T), c \o (h \o t))
    PROVE  NormalizeUrl(T) =
               Lower(c) \o Lower(h) \o (IF Contains(t, "?") THEN t ELSE WithoutSlashes(t))
<1> DEFINE r == h \o t
<1>1. PICK g \in Characters : Strip(T) = (c \o r) \o g /\ (g = <<>> \/ g[1] = "#")
  BY DEF Keeps
<1>2. c \in Characters /\ Len(c) = 1
  BY SchemeIsOne
<1>3. r \in Characters
  BY Joined
<1> HIDE DEF r
<1>4. r \o g \in Characters /\ Len(r \o g) \in Nat
  BY <1>1, <1>3, Joined, LenProperties DEF Characters
<1> DEFINE url == c \o (r \o g)
<1>5. Strip(T) = url
  <2>1. Regroups(c, r, g)
    BY <1>1, <1>2, <1>3, JoinedInAnyOrder
  <2> QED
    BY <1>1, <2>1 DEF Regroups
<1>9. First(url, 1) = c /\ SubSeq(url, 2, Len(url)) = r \o g
  <2>1. /\ SubSeq(c \o (r \o g), 1, Len(c)) = c
        /\ SubSeq(c \o (r \o g), Len(c) + 1, Len(c \o (r \o g))) = r \o g
    BY <1>2, <1>4, PartsOfJoined
  <2>2. Len(url) = Len(c) + Len(r \o g)
    BY <1>2, <1>4, Joined
  <2>3. (IF Len(url) < 1 THEN Len(url) ELSE 1) = 1
    BY <1>2, <1>4, <2>2
  <2> QED
    BY <1>2, <2>1, <2>3 DEF First
<1> HIDE DEF url
<1>10. UpTo(r \o g, {"#"}) = r
  <2> DEFINE marks == {"#"}
  <2>1. Without(h, marks) /\ Without(t, marks)
    BY DEF Without, IsHost, IsTail
  <2>2. g = <<>> \/ g[1] \in marks
    BY <1>1
  <2> HIDE DEF marks
  <2>4. Without(r, marks)
    BY <2>1, WithoutJoined DEF r
  <2>5. UpTo(r \o g, marks) = r
    BY <1>1, <1>3, <2>2, <2>4, CutAtMark
  <2> QED
    BY <2>5 DEF marks
<1>11. UpTo(r, EndsHost) = h /\ From(r, EndsHost) = t
  <2>1. Without(h, EndsHost)
    BY DEF Without, EndsHost, IsHost
  <2>2. t = <<>> \/ t[1] \in EndsHost
    BY DEF IsTail
  <2> QED
    BY <2>1, <2>2, CutAtMark DEF r
<1>12. Lower(c) \in {<<"https://">>, <<"http://">>}
  BY SchemeIsOne
<1>13. Lower(h) # <<>> /\ ~Contains(Lower(h), " ")
  <2>1. /\ Lower(h) \in Characters /\ Len(Lower(h)) = Len(h)
        /\ \A marks \in SUBSET Marks : Without(h, marks) => Without(Lower(h), marks)
    BY LowerKeeps
  <2>2. Without(Lower(h), Marks)
    BY <2>1 DEF Marks, IsHost
  <2>3. DOMAIN Lower(h) = 1..Len(Lower(h))
    BY <2>1, LenProperties DEF Characters
  <2>4. Len(h) # 0
    BY EmptySeq DEF Characters, IsHost
  <2>5. Lower(h) # <<>>
    BY <2>1, <2>4, EmptySeq
  <2> QED
    BY <2>2, <2>3, <2>5 DEF Contains, Without, Marks
<1> QED
  BY <1>5, <1>9, <1>10, <1>11, <1>12, <1>13 DEF NormalizeUrl

\* Path and query, without the blanks at their end when nothing comes behind them.
TailOf(u) ==
    IF u.fragment = <<>> THEN WithoutBlanks(u.path \o u.query) ELSE u.path \o u.query

\* It begins where the host ends, and has the mark of a query if there is a query.
LEMMA TailIsTail ==
    ASSUME NEW u, UrlParts(u)
    PROVE  /\ TailOf(u) \in Characters /\ IsTail(TailOf(u))
           /\ Contains(TailOf(u), "?") <=> u.query # <<>>
<1> DEFINE p == u.path
           q == u.query
           x == p \o q
<1>1. /\ p \in Characters /\ q \in Characters
      /\ Without(p, {"?", "#"}) /\ (p # <<>> => p[1] = "/")
      /\ Without(q, {"#"}) /\ (q # <<>> => q[1] = "?")
  BY DEF UrlParts
<1> HIDE DEF p, q
<1>2. /\ x \in Characters /\ Len(x) = Len(p) + Len(q) /\ Len(p) \in Nat /\ Len(q) \in Nat
      /\ \A i \in 1..Len(p) : x[i] = p[i]
      /\ \A i \in 1..Len(q) : x[Len(p) + i] = q[i]
  BY <1>1, Joined
<1>3. IsTail(x)
  <2> DEFINE marks == {"#"}
  <2>1. Without(p, marks) /\ Without(q, marks)
    BY <1>1 DEF Without
  <2> HIDE DEF marks
  <2>2. Without(x, marks)
    BY <1>1, <2>1, WithoutJoined
  <2>3. x = <<>> \/ x[1] \in EndsHost
    <3>1. CASE p = <<>>
      <4>1. x = q
        BY <1>1, <3>1, Joined
      <4> QED
        BY <1>1, <4>1 DEF EndsHost
    <3>2. CASE p # <<>>
      <4>1. 1 \in 1..Len(p)
        BY <1>1, <3>2, EmptySeq DEF Characters
      <4>2. x[1] = p[1]
        BY <1>2, <4>1
      <4> QED
        BY <1>1, <3>2, <4>2 DEF EndsHost
    <3> QED
      BY <3>1, <3>2
  <2> QED
    BY <2>2, <2>3 DEF IsTail, marks
<1>4. Contains(x, "?") <=> q # <<>>
  <2>1. CASE q = <<>>
    <3>1. x = p /\ DOMAIN p = 1..Len(p)
      BY <1>1, <2>1, Joined, LenProperties DEF Characters
    <3>2. ~Contains(p, "?")
      BY <1>1, <3>1 DEF Contains, Without
    <3> QED
      BY <2>1, <3>1, <3>2
  <2>2. CASE q # <<>>
    <3>1. 1 \in 1..Len(q) /\ Len(p) + 1 \in 1..Len(x)
      BY <1>1, <1>2, <2>2, EmptySeq DEF Characters
    <3>2. x[Len(p) + 1] = q[1]
      BY <1>2, <3>1
    <3> QED
      BY <1>1, <2>2, <3>1, <3>2 DEF Contains
  <2> QED
    BY <2>1, <2>2
<1>5. CASE u.fragment # <<>>
  BY <1>2, <1>3, <1>4, <1>5 DEF TailOf, p, q
<1>6. CASE u.fragment = <<>>
  <2> DEFINE y == WithoutBlanks(x)
  <2>1. TailOf(u) = y
    BY <1>6 DEF TailOf, p, q
  <2> HIDE DEF x
  <2>2. PICK n \in 0..Len(x) : y = SubSeq(x, 1, n)
    BY <1>2, BlanksOff
  <2>3. PICK r \in Characters : AllBlank(r) /\ x = y \o r
    BY <1>2, BlanksOff
  <2> HIDE DEF y
  <2>4. /\ y \in Characters /\ (y = <<>> \/ (x # <<>> /\ y[1] = x[1]))
        /\ \A marks : Without(x, marks) => Without(y, marks)
        /\ \A mark : Contains(y, mark) => Contains(x, mark)
    BY <1>2, <2>2, PrefixKeeps
  <2>5. IsTail(y)
    BY <1>3, <2>4 DEF IsTail
  <2>6. Contains(x, "?") => Contains(y, "?")
    <3>1. /\ Len(x) = Len(y) + Len(r) /\ Len(y) \in Nat /\ Len(r) \in Nat
          /\ \A i \in 1..Len(y) : x[i] = y[i]
          /\ \A i \in 1..Len(r) : x[Len(y) + i] = r[i]
      BY <2>3, <2>4, Joined
    <3>2. DOMAIN r = 1..Len(r)
      BY <2>3, LenProperties DEF Characters
    <3> SUFFICES ASSUME NEW i \in 1..Len(x), x[i] = "?" PROVE Contains(y, "?")
      BY DEF Contains
    <3>3. CASE i <= Len(y)
      <4>1. i \in 1..Len(y)
        BY <3>1, <3>3
      <4> QED
        BY <3>1, <4>1 DEF Contains
    <3>4. CASE ~(i <= Len(y))
      <4> DEFINE j == i - Len(y)
      <4>1. j \in 1..Len(r) /\ i = Len(y) + j
        BY <3>1, <3>4
      <4> HIDE DEF j
      <4>2. x[i] = r[j] /\ IsBlank(r[j])
        BY <2>3, <3>1, <3>2, <4>1 DEF AllBlank
      <4> QED
        BY <4>2 DEF IsBlank
    <3> QED
      BY <3>3, <3>4
  <2> QED
    BY <1>4, <2>1, <2>4, <2>5, <2>6 DEF q
<1> QED
  BY <1>5, <1>6

\* The name of a source: scheme and host in lower case, path and query, without the
\* last slashes if there is no query.
NameOf(u) ==
    Lower(u.scheme) \o Lower(u.host)
        \o (IF u.query = <<>> THEN WithoutSlashes(TailOf(u)) ELSE TailOf(u))

\* This is what is left of the text of a URL.
LEMMA NormalOf ==
    ASSUME NEW u, UrlParts(u)
    PROVE  NormalizeUrl(Text(u)) = NameOf(u)
<1> DEFINE b == u.before
           c == u.scheme
           h == u.host
           p == u.path
           q == u.query
           f == u.fragment
           a == u.after
           t == TailOf(u)
           x == p \o q
           w == c \o (h \o t)
<1>1. /\ b \in Characters /\ h \in Characters /\ p \in Characters /\ q \in Characters
      /\ f \in Characters /\ a \in Characters
  BY DEF UrlParts
<1>2. c \in Schemes /\ IsHost(h)
  BY DEF UrlParts, Schemes, IsHost
<1>3. AllBlank(b) /\ AllBlank(a) /\ (f # <<>> => f[1] = "#")
  BY DEF UrlParts
<1>4. t \in Characters /\ IsTail(t) /\ (Contains(t, "?") <=> q # <<>>)
  BY TailIsTail
<1>5. Text(u) = (((((b \o c) \o h) \o p) \o q) \o f) \o a
  BY DEF Text
<1>6. t = IF f = <<>> THEN WithoutBlanks(x) ELSE x
  BY DEF TailOf
<1>7. c \in Characters
  BY <1>2, SchemeIsOne
<1> HIDE DEF b, c, h, p, q, f, a, t
<1>8. x \in Characters /\ h \o x \in Characters /\ c \o (h \o x) \in Characters
  <2>1. x \in Characters
    BY <1>1, Joined
  <2> HIDE DEF x
  <2>2. h \o x \in Characters
    BY <1>1, <2>1, Joined
  <2> QED
    BY <1>7, <2>1, <2>2, Joined
<1>9. Text(u) = ((b \o (c \o (h \o x))) \o f) \o a
  <2>1. b \o c \in Characters /\ (b \o c) \o h \in Characters
    BY <1>1, <1>7, Joined
  <2>2. Regroups((b \o c) \o h, p, q)
    BY <1>1, <2>1, JoinedInAnyOrder
  <2>3. (((b \o c) \o h) \o p) \o q = ((b \o c) \o h) \o x
    BY <2>2 DEF Regroups
  <2> HIDE DEF x
  <2>4. Regroups(b \o c, h, x) /\ Regroups(b, c, h \o x)
    BY <1>1, <1>7, <1>8, <2>1, JoinedInAnyOrder
  <2> QED
    BY <1>5, <2>3, <2>4 DEF Regroups
<1>10. /\ w \in Characters /\ w # <<>> /\ ~IsBlank(w[1])
       /\ EndsSolid(t) <=> EndsSolid(w)
  BY <1>1, <1>2, <1>4, UrlIsSolid
<1>11. Keeps(Strip(Text(u)), w)
  <2>1. CASE f # <<>>
    <3>1. w = c \o (h \o x)
      BY <1>6, <2>1
    <3> HIDE DEF w, x
    <3>2. Regroups(b, w, f)
      BY <1>1, <1>10, JoinedInAnyOrder
    <3>3. Text(u) = (b \o (w \o f)) \o a
      BY <1>9, <3>1, <3>2 DEF Regroups
    <3> QED
      BY <1>1, <1>3, <1>10, <2>1, <3>3, BlanksGone
  <2>2. CASE f = <<>>
    <3>1. t = WithoutBlanks(x)
      BY <1>6, <2>2
    <3> HIDE DEF x
    <3>2. EndsSolid(t)
      BY <1>8, <3>1, BlanksOff
    <3>3. PICK r \in Characters : AllBlank(r) /\ x = t \o r
      BY <1>8, <3>1, BlanksOff
    <3>4. h \o t \in Characters /\ r \o a \in Characters
      BY <1>1, <1>4, <3>3, Joined
    <3>5. Regroups(h, t, r) /\ Regroups(c, h \o t, r)
      BY <1>1, <1>4, <1>7, <3>3, <3>4, JoinedInAnyOrder
    <3>6. c \o (h \o x) = w \o r
      BY <3>3, <3>5 DEF Regroups
    <3>7. EndsSolid(w)
      BY <1>10, <3>2
    <3> HIDE DEF w
    <3>8. Regroups(b, w, r) /\ w \o <<>> = w /\ b \o w \in Characters /\ w \o r \in Characters
      BY <1>1, <1>10, <3>3, JoinedInAnyOrder, Joined
    <3>9. b \o (w \o r) \in Characters
      BY <1>1, <3>8, Joined
    <3>10. (b \o (w \o r)) \o <<>> = b \o (w \o r)
      BY <3>9, Joined
    <3>11. Regroups(b \o w, r, a)
      BY <1>1, <3>3, <3>8, JoinedInAnyOrder
    <3>12. Text(u) = (b \o (w \o <<>>)) \o (r \o a)
      BY <1>9, <2>2, <3>6, <3>8, <3>10, <3>11 DEF Regroups
    <3>13. AllBlank(r \o a)
      BY <1>1, <1>3, <3>3, BlankJoined
    <3>14. <<>> \in Characters
      BY EmptySeq DEF Characters
    <3>15. Keeps(Strip((b \o (w \o <<>>)) \o (r \o a)), w)
      BY <1>1, <1>3, <1>10, <3>4, <3>7, <3>13, <3>14, BlanksGone
    <3> QED
      BY <3>12, <3>15
  <2> QED
    BY <2>1, <2>2
<1>12. NormalizeUrl(Text(u)) =
           Lower(c) \o Lower(h) \o (IF Contains(t, "?") THEN t ELSE WithoutSlashes(t))
  BY <1>1, <1>2, <1>4, <1>11, NormalOfStripped
<1> QED
  BY <1>4, <1>12 DEF NameOf, c, h, q, t

\* A name that does not end in a blank is the name of that name.
LEMMA NormalIsFixed ==
    ASSUME NEW u, UrlParts(u), NameOf(u)[Len(NameOf(u))] # " "
    PROVE  NormalizeUrl(NameOf(u)) = NameOf(u)
<1> DEFINE c == Lower(u.scheme)
           h == Lower(u.host)
           s == TailOf(u)
           t == IF u.query = <<>> THEN WithoutSlashes(s) ELSE s
           x == NameOf(u)
<1>1. x = (c \o h) \o t
  BY DEF NameOf
<1>2. u.scheme \in Schemes /\ u.host \in Characters /\ IsHost(u.host)
  BY DEF UrlParts, Schemes, IsHost
<1>3. c \in Schemes /\ Lower(c) = c /\ c \in Characters
  <2>1. c \in {<<"https://">>, <<"http://">>} /\ Lower(c) = c
    BY <1>2, SchemeIsOne
  <2> HIDE DEF c
  <2>2. c \in Schemes
    BY <2>1 DEF Schemes
  <2> QED
    BY <2>1, <2>2, SchemeIsOne
<1>4. h \in Characters /\ IsHost(h) /\ Lower(h) = h
  <2>1. u.host # <<>> /\ Without(u.host, Marks)
    BY <1>2 DEF IsHost, Marks
  <2>2. /\ h \in Characters /\ Len(h) = Len(u.host) /\ Lower(h) = h
        /\ \A marks \in SUBSET Marks : Without(u.host, marks) => Without(h, marks)
    BY <1>2, LowerKeeps
  <2>3. Len(u.host) # 0
    BY <1>2, <2>1, EmptySeq DEF Characters
  <2> HIDE DEF h
  <2>4. Without(h, Marks) /\ h # <<>>
    BY <2>1, <2>2, <2>3, EmptySeq
  <2> QED
    BY <2>2, <2>4 DEF IsHost, Marks
<1>5. s \in Characters /\ IsTail(s) /\ (Contains(s, "?") <=> u.query # <<>>)
  BY TailIsTail
<1> HIDE DEF s
<1>6. /\ t \in Characters /\ IsTail(t)
      /\ t = IF Contains(t, "?") THEN t ELSE WithoutSlashes(t)
  <2>1. CASE u.query # <<>>
    BY <1>5, <2>1
  <2>2. CASE u.query = <<>>
    <3>1. t = WithoutSlashes(s) /\ WithoutSlashes(t) = t
      BY <1>5, <2>2, SlashesGone
    <3>2. PICK n \in 0..Len(s) : t = SubSeq(s, 1, n)
      BY <1>5, <3>1, SlashesGone
    <3> HIDE DEF t
    <3>3. /\ t \in Characters /\ (t = <<>> \/ (s # <<>> /\ t[1] = s[1]))
          /\ \A marks : Without(s, marks) => Without(t, marks)
          /\ \A mark : Contains(t, mark) => Contains(s, mark)
      BY <1>5, <3>2, PrefixKeeps
    <3>4. IsTail(t)
      BY <1>5, <3>3 DEF IsTail
    <3> QED
      BY <1>5, <2>2, <3>1, <3>3, <3>4
  <2> QED
    BY <2>1, <2>2
<1>7. ~IsBlank(x[Len(x)])
  BY DEF IsBlank
<1> HIDE DEF c, h, t, x
<1>8. x = c \o (h \o t)
  <2>1. Regroups(c, h, t)
    BY <1>3, <1>4, <1>6, JoinedInAnyOrder
  <2> QED
    BY <1>1, <2>1 DEF Regroups
<1>9. x \in Characters /\ x # <<>> /\ ~IsBlank(x[1])
  BY <1>3, <1>4, <1>6, <1>8, UrlIsSolid
<1>10. Keeps(Strip(x), x)
  <2>1. <<>> \in Characters /\ AllBlank(<<>>)
    <3>1. <<>> \in Characters
      BY EmptySeq DEF Characters
    <3> QED
      BY <3>1, NothingIsBlank
  <2>2. (<<>> \o (x \o <<>>)) \o <<>> = x
    BY <1>9, ConcatEmptySeq DEF Characters
  <2>3. EndsSolid(x)
    BY <1>7 DEF EndsSolid
  <2>4. Keeps(Strip((<<>> \o (x \o <<>>)) \o <<>>), x)
    BY <1>9, <2>1, <2>3, BlanksGone
  <2> QED
    BY <2>2, <2>4
<1>11. NormalizeUrl(x) =
           Lower(c) \o Lower(h) \o (IF Contains(t, "?") THEN t ELSE WithoutSlashes(t))
  BY <1>3, <1>4, <1>6, <1>8, <1>10, NormalOfStripped
<1> QED
  BY <1>1, <1>3, <1>4, <1>6, <1>11 DEF x

-----------------------------------------------------------------------------
(* What is parsed is one of the inputs                                     *)

\* What was submitted or registered, and what it was parsed to.
InputInv ==
    \/ input = NoInput
    \/ \E schema \in {s \in Schema : SchemaAccepted(s)}, object \in Object :
           /\ input = [kind |-> "claims", schema |-> schema, object |-> object]
           /\ parsed = <<ParseClaims(object, ParseSchema(schema))>>
    \/ \E u \in Url :
           /\ input = [kind |-> "url", parts |-> u]
           /\ parsed = NormalizeUrl(Text(u))

\* An input that is parsed stays.
THEOREM InputInvariant == InputSpec => []InputInv
<1>1. InputInit => InputInv
  BY DEF InputInit, InputInv
<1>2. InputInv /\ [InputNext]_inputVars => InputInv'
  <2> SUFFICES ASSUME InputInv, [InputNext]_inputVars PROVE InputInv'
    OBVIOUS
  <2>1. CASE Submit
    BY <2>1 DEF Submit, InputInv
  <2>2. CASE Register
    BY <2>2 DEF Register, InputInv
  <2>3. CASE UNCHANGED inputVars
    BY <2>3 DEF inputVars, InputInv
  <2> QED
    BY <2>1, <2>2, <2>3 DEF InputNext
<1> QED
  BY <1>1, <1>2, PTL DEF InputSpec

\* A source is named by what its URL is put together from, and a name that does not
\* end in a blank is the name of that name.
THEOREM UrlsAreNamed == InputSpec => []UrlNamed
<1>1. InputInv => UrlNamed
  <2> SUFFICES ASSUME InputInv, input.kind = "url"
               PROVE  /\ parsed = NameOf(input.parts)
                      /\ parsed[Len(parsed)] # " " => NormalizeUrl(parsed) = parsed
    BY DEF UrlNamed, NameOf, TailOf
  <2>1. PICK u \in Url : /\ input = [kind |-> "url", parts |-> u]
                         /\ parsed = NormalizeUrl(Text(u))
    BY DEF InputInv, NoInput
  <2>2. UrlParts(u)
    BY InputAssumption, PartsOfUrl
  <2>3. input.parts = u
    BY <2>1
  <2> QED
    BY <2>1, <2>2, <2>3, NormalOf, NormalIsFixed
<1> QED
  BY <1>1, InputInvariant, PTL

-----------------------------------------------------------------------------
(* Fields and claims                                                       *)

\* What a list of claims may hold.
Item == [form : {"text", "object", "other"}, blank : BOOLEAN, core : BOOLEAN]

\* The members that are neither claims nor a stance.
FieldsOf(object) == {m \in ToSet(object) : m.key \notin {"claims", "stance"}}

\* Every field is one of the members.
LEMMA FieldsAreMembers ==
    ASSUME NEW object, WellFormedObject(object)
    PROVE  FieldMembers(object) \in Seq(FieldsOf(object))
<1> DEFINE N == FieldsOf(object)
           places == {i \in DOMAIN object : object[i].key \notin {"claims", "stance"}}
           raw == Selection(object, places)
           kept == First(raw, MaxJsonItems)
           named == {i \in DOMAIN kept : Clean[kept[i].key] # Blank}
<1>1. PICK T : object \in Seq(T)
  BY DEF WellFormedObject
<1>2. DOMAIN object = 1..Len(object) /\ places \in SUBSET (1..Len(object))
  BY <1>1, LenProperties
<1>3. \A i \in places : object[i] \in N
  BY DEF FieldsOf, ToSet
<1> HIDE DEF places, N
<1>4. /\ raw \in Seq(T)
      /\ \A n \in 1..Len(raw) : InOrder(places)[n] \in places /\ raw[n] = object[InOrder(places)[n]]
  BY <1>1, <1>2, Selected
<1> HIDE DEF raw
<1>5. raw \in Seq(N)
  <2>1. \A n \in 1..Len(raw) : raw[n] \in N
    BY <1>3, <1>4
  <2>2. Len(raw) \in Nat /\ raw \in [1..Len(raw) -> T]
    BY <1>4, LenProperties
  <2>3. raw \in [1..Len(raw) -> N]
    BY <2>1, <2>2
  <2> QED
    BY <2>2, <2>3
<1>6. kept \in Seq(N)
  BY <1>5, InputAssumption, FirstOf
<1> HIDE DEF kept
<1>7. DOMAIN kept = 1..Len(kept) /\ named \in SUBSET (1..Len(kept))
  BY <1>6, LenProperties
<1> HIDE DEF named
<1>8. Selection(kept, named) \in Seq(N)
  BY <1>6, <1>7, Selected
<1>9. FieldMembers(object) = Selection(kept, named)
  BY DEF FieldMembers, kept, named, raw, places
<1> QED
  BY <1>8, <1>9 DEF N

\* A field that is not hollow has a member that says something.
LEMMA FieldSays ==
    ASSUME NEW object, WellFormedObject(object), NEW name,
           FieldKind(object, name) \notin Hollow
    PROVE  \E m \in FieldsOf(object) : Clean[m.key] = name /\ Says(m)
<1> DEFINE members == FieldMembers(object)
           I == {i \in 1..Len(members) : Clean[members[i].key] = name}
           i == IF I # {} THEN Max(I) ELSE 0
<1>1. FieldKind(object, name) = IF i = 0 THEN "null" ELSE CleanKind(members[i].kind)
  BY DEF FieldKind, SelectLastInSeq
<1>2. members \in Seq(FieldsOf(object))
  BY FieldsAreMembers
<1>3. Len(members) \in Nat
  BY <1>2, LenProperties
<1>4. i # 0
  BY <1>1 DEF Hollow
<1>5. i \in I
  <2>1. I # {} /\ I \in SUBSET (1..Len(members)) /\ I \in SUBSET Int
    BY <1>4
  <2> HIDE DEF I
  <2>2. PICK m \in I : \A j \in I : m >= j
    BY <1>3, <2>1, GreatestExists
  <2>3. Max(I) = m
    BY <2>1, <2>2, GreatestIs
  <2> QED
    BY <2>1, <2>2, <2>3
<1> HIDE DEF i
<1>6. i \in 1..Len(members) /\ Clean[members[i].key] = name
  BY <1>5
<1> HIDE DEF I, members
<1>7. members[i] \in FieldsOf(object)
  BY <1>2, <1>6, ElementOfSeq
<1>8. CleanKind(members[i].kind) \notin Hollow
  BY <1>1, <1>4
<1>9. Says(members[i])
  BY <1>8 DEF CleanKind, Hollow, Says
<1> QED
  BY <1>6, <1>7, <1>9

\* No two fields have one name.
LEMMA FieldNamesDiffer ==
    ASSUME NEW object, WellFormedObject(object)
    PROVE  /\ \E T : FieldNames(object) \in Seq(T)
           /\ \A m, n \in 1..Len(FieldNames(object)) :
                 FieldNames(object)[m] = FieldNames(object)[n] => m = n
<1> DEFINE members == FieldMembers(object)
           new == {i \in DOMAIN members :
                      \A j \in 1..i - 1 : Clean[members[j].key] # Clean[members[i].key]}
           first == Selection(members, new)
           q == InOrder(new)
           names == [n \in DOMAIN first |-> Clean[first[n].key]]
<1>1. PICK T : members \in Seq(T)
  BY FieldsAreMembers
<1>2. FieldNames(object) = names
  BY DEF FieldNames
<1> HIDE DEF members
<1>3. DOMAIN members = 1..Len(members) /\ Len(members) \in Nat
  BY <1>1, LenProperties
<1>4. new \in SUBSET (1..Len(members))
  BY <1>3
<1>5. \A i \in new, j \in 1..Len(members) : j < i => Clean[members[j].key] # Clean[members[i].key]
  BY <1>3
<1> HIDE DEF new
<1>6. /\ first \in Seq(T)
      /\ \A n \in 1..Len(first) : q[n] \in new /\ first[n] = members[q[n]]
      /\ \A m, n \in 1..Len(first) : m < n => q[m] < q[n]
  BY <1>1, <1>4, Selected
<1>7. DOMAIN first = 1..Len(first) /\ Len(first) \in Nat
  BY <1>6, LenProperties
<1> HIDE DEF first, q
<1>8. names = [n \in 1..Len(first) |-> Clean[members[q[n]].key]]
  BY <1>6, <1>7
<1> HIDE DEF names
<1>9. ASSUME NEW m \in 1..Len(first), NEW n \in 1..Len(first), m < n PROVE names[m] # names[n]
  BY <1>4, <1>5, <1>6, <1>8, <1>9
<1>10. \E V : names \in Seq(V)
  <2> DEFINE V == {names[n] : n \in 1..Len(first)}
  <2>1. names \in [1..Len(first) -> V]
    BY <1>8
  <2> HIDE DEF V
  <2>2. names \in Seq(V)
    BY <1>7, <2>1
  <2> QED
    BY <2>2
<1>11. Len(names) = Len(first)
  BY <1>7, <1>8
<1>12. \A m, n \in 1..Len(first) : names[m] = names[n] => m = n
  BY <1>7, <1>9
<1> QED
  BY <1>2, <1>10, <1>11, <1>12

\* Without a list of claims every scalar field is one, and says something.
LEMMA FlatClaimsSay ==
    ASSUME NEW object, WellFormedObject(object)
    PROVE  /\ Len(FlatClaims(object)) \in Nat /\ Len(FlatClaims(object)) <= ClaimLimit
           /\ DOMAIN FlatClaims(object) = 1..Len(FlatClaims(object))
           /\ \A i \in 1..Len(FlatClaims(object)) :
                 \E name : /\ FlatClaims(object)[i] =
                                 [id |-> i - 1, item |-> 0, field |-> name, core |-> FALSE]
                           /\ \E m \in FieldsOf(object) : Clean[m.key] = name /\ Says(m)
           /\ \A i, j \in 1..Len(FlatClaims(object)) :
                 FlatClaims(object)[i].field = FlatClaims(object)[j].field => i = j
<1> DEFINE fields == FieldNames(object)
           scalar == {i \in DOMAIN fields :
                         FieldKind(object, fields[i]) \notin Container \cup Hollow}
           chosen == Selection(fields, scalar)
           names == First(chosen, ClaimLimit)
           p == InOrder(scalar)
           claims == [n \in DOMAIN names |->
                         [id |-> n - 1, item |-> 0, field |-> names[n], core |-> FALSE]]
<1>1. FlatClaims(object) = claims
  BY DEF FlatClaims
<1>2. PICK T : fields \in Seq(T)
  BY FieldNamesDiffer
<1>3. \A m, n \in 1..Len(fields) : fields[m] = fields[n] => m = n
  BY FieldNamesDiffer
<1> HIDE DEF fields
<1>4. DOMAIN fields = 1..Len(fields)
  BY <1>2, LenProperties
<1>5. scalar \in SUBSET (1..Len(fields)) /\ \A i \in scalar : FieldKind(object, fields[i]) \notin Hollow
  BY <1>4
<1> HIDE DEF scalar
<1>6. /\ chosen \in Seq(T)
      /\ \A n \in 1..Len(chosen) : p[n] \in scalar /\ chosen[n] = fields[p[n]]
      /\ \A m, n \in 1..Len(chosen) : m < n => p[m] < p[n]
  BY <1>2, <1>5, Selected
<1> HIDE DEF chosen, p
<1>7. /\ names \in Seq(T) /\ Len(names) <= ClaimLimit /\ Len(names) <= Len(chosen)
      /\ \A n \in 1..Len(names) : names[n] = chosen[n]
  BY <1>6, InputAssumption, FirstOf
<1> HIDE DEF names
<1>8. Len(names) \in Nat /\ DOMAIN names = 1..Len(names) /\ Len(chosen) \in Nat
  BY <1>6, <1>7, LenProperties
<1>9. \A n \in 1..Len(names) : n \in 1..Len(chosen)
  BY <1>7, <1>8
<1>10. \A n \in 1..Len(names) : names[n] = fields[p[n]] /\ p[n] \in scalar
  BY <1>6, <1>7, <1>9
<1>11. \A m, n \in 1..Len(names) : m < n => p[m] < p[n]
  BY <1>6, <1>9
<1>12. ASSUME NEW m \in 1..Len(names), NEW n \in 1..Len(names), m < n PROVE names[m] # names[n]
  <2>1. p[m] \in 1..Len(fields) /\ p[n] \in 1..Len(fields)
    BY <1>5, <1>10
  <2>2. p[m] < p[n]
    BY <1>11, <1>12
  <2>3. p[m] # p[n]
    <3>1. \A x \in 1..Len(fields) : ~(x < x)
      OBVIOUS
    <3> QED
      BY <2>1, <2>2, <3>1
  <2> QED
    BY <1>3, <1>10, <2>1, <2>3
<1>13. \A m, n \in 1..Len(names) : names[m] = names[n] => m = n
  BY <1>8, <1>12
<1>14. DOMAIN claims = 1..Len(names) /\ Len(claims) = Len(names)
  BY <1>8
<1>15. \A n \in 1..Len(names) :
          claims[n] = [id |-> n - 1, item |-> 0, field |-> names[n], core |-> FALSE]
  BY <1>8
<1> HIDE DEF claims
<1>16. ASSUME NEW i \in 1..Len(names)
       PROVE  \E m \in FieldsOf(object) : Clean[m.key] = names[i] /\ Says(m)
  BY <1>5, <1>10, FieldSays
<1>17. ASSUME NEW i \in 1..Len(names) PROVE claims[i].field = names[i]
  <2>1. claims[i] = [id |-> i - 1, item |-> 0, field |-> names[i], core |-> FALSE]
    BY <1>15
  <2> QED
    BY <2>1
<1>18. \A i, j \in 1..Len(names) : claims[i].field = claims[j].field => i = j
  BY <1>13, <1>17
<1> QED
  BY <1>1, <1>7, <1>8, <1>14, <1>15, <1>16, <1>18

\* A list of claims: the items that make one, in order, numbered from 0.
LEMMA ListedClaimsAre ==
    ASSUME NEW items \in Seq(Item)
    PROVE  LET usable == {i \in DOMAIN items : Usable(items[i])}
               claims == ListedClaims(items)
               p == InOrder(usable)
           IN  /\ Len(claims) \in Nat /\ Len(claims) <= Len(items)
               /\ DOMAIN claims = 1..Len(claims)
               /\ \A i \in 1..Len(claims) :
                     /\ p[i] \in usable
                     /\ claims[i] = [id |-> i - 1, item |-> p[i], field |-> Blank,
                                     core |-> items[p[i]].form = "object" /\ items[p[i]].core]
               /\ \A i, j \in 1..Len(claims) : i < j => p[i] < p[j]
               /\ \A x \in usable : \E i \in 1..Len(claims) : p[i] = x
<1> DEFINE usable == {i \in DOMAIN items : Usable(items[i])}
           claims == ListedClaims(items)
           p == InOrder(usable)
           c == Cardinality(usable)
<1>1. DOMAIN items = 1..Len(items) /\ Len(items) \in Nat
  BY LenProperties
<1>2. usable \in SUBSET (1..Len(items))
  BY <1>1
<1>3. claims = [n \in DOMAIN p |->
                   [id |-> n - 1, item |-> p[n], field |-> Blank,
                    core |-> items[p[n]].form = "object" /\ items[p[n]].core]]
  BY DEF ListedClaims
<1> HIDE DEF usable
<1>4. /\ c \in 0..Len(items) /\ p \in [1..c -> usable]
      /\ \A i, j \in 1..c : i < j => p[i] < p[j]
      /\ \A x \in usable : \E i \in 1..c : p[i] = x
  BY <1>1, <1>2, Ordered
<1> HIDE DEF p, c, claims
<1>5. DOMAIN p = 1..c /\ c \in Nat /\ c <= Len(items)
  BY <1>1, <1>4
<1>6. DOMAIN claims = 1..c
  BY <1>3, <1>5
<1>7. Len(claims) = c
  BY <1>3, <1>5, <1>6
<1>8. \A i \in 1..c : p[i] \in usable
  BY <1>4
<1>9. \A i \in 1..c :
         claims[i] = [id |-> i - 1, item |-> p[i], field |-> Blank,
                      core |-> items[p[i]].form = "object" /\ items[p[i]].core]
  BY <1>3, <1>5
<1>10. \A i, j \in 1..c : i < j => p[i] < p[j]
  BY <1>4
<1>11. \A x \in usable : \E i \in 1..c : p[i] = x
  BY <1>4
<1> QED
  BY <1>5, <1>6, <1>7, <1>8, <1>9, <1>10, <1>11 DEF usable, claims, p

\* What a claim is kept as.
ClaimRecord(fields) == [id : Int, item : Int, field : fields, core : BOOLEAN]

\* A claim is made the core when none is called so, and nothing else changes.
LEMMA CoreAdded ==
    ASSUME NEW F, NEW claims \in Seq(ClaimRecord(F)), claims # <<>>
    PROVE  /\ WithCore(claims) \in Seq(ClaimRecord(F))
           /\ Len(WithCore(claims)) = Len(claims)
           /\ \A i \in 1..Len(claims) :
                 /\ WithCore(claims)[i].id = claims[i].id
                 /\ WithCore(claims)[i].item = claims[i].item
                 /\ WithCore(claims)[i].field = claims[i].field
           /\ (\E i \in 1..Len(claims) : claims[i].core) => WithCore(claims) = claims
           /\ ~(\E i \in 1..Len(claims) : claims[i].core) =>
                 {i \in DOMAIN WithCore(claims) : WithCore(claims)[i].core} = {1}
<1> DEFINE T == ClaimRecord(F)
           n == Len(claims)
           e == [claims[1] EXCEPT !.core = TRUE]
           out == WithCore(claims)
<1>1. /\ n \in Nat \ {0} /\ DOMAIN claims = 1..n /\ \A i \in 1..n : claims[i] \in T
      /\ 1 \in 1..n
  BY LenProperties, EmptySeq, ElementOfSeq
<1>2. out = IF \E i \in 1..n : claims[i].core THEN claims ELSE [claims EXCEPT ![1] = e]
  BY <1>1 DEF WithCore
<1>3. CASE \E i \in 1..n : claims[i].core
  BY <1>2, <1>3
<1>4. CASE ~ \E i \in 1..n : claims[i].core
  <2>1. e \in T /\ e.core = TRUE /\ e.id = claims[1].id /\ e.item = claims[1].item
        /\ e.field = claims[1].field
    <3>1. claims[1] \in T
      BY <1>1
    <3> QED
      BY <3>1 DEF ClaimRecord
  <2> HIDE DEF e, T
  <2>2. /\ [claims EXCEPT ![1] = e] \in Seq(T)
        /\ Len([claims EXCEPT ![1] = e]) = n
        /\ \A j \in 1..n : [claims EXCEPT ![1] = e][j] = IF j = 1 THEN e ELSE claims[j]
    BY <1>1, <2>1, ExceptSeq DEF T
  <2>3. out = [claims EXCEPT ![1] = e]
    BY <1>2, <1>4
  <2> HIDE DEF out, n
  <2>4. out \in Seq(T) /\ Len(out) = n /\ \A j \in 1..n : out[j] = IF j = 1 THEN e ELSE claims[j]
    BY <2>2, <2>3
  <2>5. DOMAIN out = 1..n
    BY <2>4, LenProperties
  <2>6. \A i \in 1..n : /\ out[i].id = claims[i].id /\ out[i].item = claims[i].item
                        /\ out[i].field = claims[i].field
    BY <2>1, <2>4
  <2>7. \A i \in 1..n : out[i].core <=> i = 1
    BY <1>4, <2>1, <2>4
  <2>8. {i \in DOMAIN out : out[i].core} = {1}
    BY <1>1, <2>5, <2>7
  <2> QED
    BY <1>4, <2>4, <2>6, <2>8 DEF out, n, T
<1> QED
  BY <1>3, <1>4

\* At most one member lists the claims.
LEMMA OneClaimsMember ==
    ASSUME NEW object, WellFormedObject(object), NEW m \in ClaimsMember(object)
    PROVE  ClaimsMember(object) = {m} /\ m.items \in Seq(Item)
<1>1. PICK i \in DOMAIN object : object[i] = m /\ m.key = "claims"
  BY DEF ClaimsMember, ToSet
<1>2. ASSUME NEW x \in ClaimsMember(object) PROVE x = m
  <2>1. PICK j \in DOMAIN object : object[j] = x /\ x.key = "claims"
    BY DEF ClaimsMember, ToSet
  <2>2. i = j
    BY <1>1, <2>1 DEF WellFormedObject
  <2> QED
    BY <1>1, <2>1, <2>2
<1>3. m.items \in Seq(Item)
  <2> DEFINE R == [key : STRING, kind : STRING, items : Seq(Item)]
  <2>1. object \in Seq(R)
    BY DEF WellFormedObject, Item
  <2> HIDE DEF R
  <2>2. object[i] \in R
    BY <1>1, <2>1, LenProperties, ElementOfSeq
  <2> QED
    BY <1>1, <2>2 DEF R
<1> QED
  BY <1>2, <1>3

\* A list of claims is a sequence.
LEMMA ListedIsFunction ==
    ASSUME NEW items
    PROVE  ListedClaims(items) = [i \in DOMAIN ListedClaims(items) |-> ListedClaims(items)[i]]
BY DEF ListedClaims

\* These claims are the ones the caller listed.
AsListed(claims) ==
    LET core == {i \in DOMAIN claims : claims[i].core}
    IN  /\ Len(claims) \in 1..ClaimLimit
        /\ DOMAIN claims = 1..Len(claims)
        /\ \A i \in DOMAIN claims : claims[i].id = i - 1
        /\ Listed # {}
        /\ {claims[i].item : i \in DOMAIN claims} = Listed
        /\ \A i, j \in DOMAIN claims : i < j => claims[i].item < claims[j].item
        /\ IF CalledCore # {} THEN {claims[i].item : i \in core} = CalledCore
           ELSE core = {1}

\* What an accepted interpretation claims, when it lists its claims ...
LEMMA ListedAsSubmitted ==
    ASSUME NEW object, WellFormedObject(object), input.object = object,
           NEW m \in ClaimsMember(object), Len(m.items) <= ClaimLimit,
           ListedClaims(m.items) # <<>>
    PROVE  AsListed(WithCore(ListedClaims(m.items)))
<1> DEFINE items == m.items
           usable == {i \in DOMAIN items : Usable(items[i])}
           p == InOrder(usable)
           plain == ListedClaims(items)
           claims == WithCore(plain)
           core == {i \in DOMAIN claims : claims[i].core}
           n == Len(plain)
           IsCore(i) == items[i].form = "object" /\ items[i].core
<1>1. ClaimsMember(object) = {m} /\ items \in Seq(Item)
  BY OneClaimsMember
<1>2. DOMAIN items = 1..Len(items) /\ Len(items) \in Nat /\ \A i \in 1..Len(items) : items[i] \in Item
  BY <1>1, LenProperties, ElementOfSeq
<1>3. Listed = usable
  <2>1. Listed = {i \in DOMAIN items : ~items[i].blank /\ items[i].form \in {"text", "object"}}
    BY <1>1 DEF Listed
  <2>2. \A i \in DOMAIN items : Usable(items[i]) <=>
            ~items[i].blank /\ items[i].form \in {"text", "object"}
    BY <1>2 DEF Usable, Item
  <2> QED
    BY <2>1, <2>2
<1>4. CalledCore = {i \in usable : IsCore(i)}
  BY <1>1, <1>3 DEF CalledCore
<1> HIDE DEF items
<1>5. /\ n \in Nat /\ n <= Len(items) /\ DOMAIN plain = 1..n
      /\ \A i \in 1..n : /\ p[i] \in usable
                         /\ plain[i] = [id |-> i - 1, item |-> p[i], field |-> Blank,
                                        core |-> items[p[i]].form = "object" /\ items[p[i]].core]
      /\ \A i, j \in 1..n : i < j => p[i] < p[j]
      /\ \A x \in usable : \E i \in 1..n : p[i] = x
  BY <1>1, ListedClaimsAre
<1>6. usable \in SUBSET (1..Len(items))
  BY <1>2
<1>7. \A i \in usable : IsCore(i) \in BOOLEAN
  BY <1>2 DEF Item
<1> HIDE DEF usable, p, plain, n, IsCore
<1>8. \A i \in 1..n : plain[i] = [id |-> i - 1, item |-> p[i], field |-> Blank, core |-> IsCore(p[i])]
  BY <1>5 DEF IsCore
<1>9. \A i \in 1..n : p[i] \in usable /\ p[i] \in Int /\ i - 1 \in Int /\ IsCore(p[i]) \in BOOLEAN
  <2> SUFFICES ASSUME NEW i \in 1..n
               PROVE  p[i] \in usable /\ p[i] \in Int /\ i - 1 \in Int /\ IsCore(p[i]) \in BOOLEAN
    OBVIOUS
  <2>1. p[i] \in usable
    BY <1>5
  <2>2. p[i] \in Int
    <3>1. p[i] \in 1..Len(items)
      BY <1>6, <2>1
    <3>2. \A k \in 1..Len(items) : k \in Int
      OBVIOUS
    <3> QED
      BY <3>1, <3>2
  <2>3. i - 1 \in Int
    BY <1>5
  <2> QED
    BY <1>7, <2>1, <2>2, <2>3
<1>10. \A i \in 1..n : /\ plain[i].id = i - 1 /\ plain[i].item = p[i]
                       /\ plain[i].core = IsCore(p[i])
                       /\ plain[i] \in ClaimRecord({Blank})
  <2> SUFFICES ASSUME NEW i \in 1..n
               PROVE  /\ plain[i].id = i - 1 /\ plain[i].item = p[i]
                      /\ plain[i].core = IsCore(p[i])
                      /\ plain[i] \in ClaimRecord({Blank})
    OBVIOUS
  <2> DEFINE id == i - 1
             item == p[i]
             core1 == IsCore(p[i])
  <2>1. plain[i] = [id |-> id, item |-> item, field |-> Blank, core |-> core1]
    BY <1>8
  <2>2. id \in Int /\ item \in Int /\ core1 \in BOOLEAN
    BY <1>9
  <2> HIDE DEF id, item, core1
  <2>3. plain[i] \in ClaimRecord({Blank})
    BY <2>1, <2>2 DEF ClaimRecord
  <2>4. plain[i].id = id /\ plain[i].item = item /\ plain[i].core = core1
    BY <2>1
  <2> QED
    BY <2>3, <2>4 DEF id, item, core1
<1>11. plain \in Seq(ClaimRecord({Blank})) /\ n = Len(plain)
  <2>1. plain \in [1..n -> ClaimRecord({Blank})]
    <3>1. plain = [i \in 1..n |-> plain[i]]
      BY <1>5, ListedIsFunction DEF plain
    <3> QED
      BY <1>10, <3>1
  <2>2. plain \in Seq(ClaimRecord({Blank}))
    <3>1. n \in Nat
      BY <1>5
    <3>2. \A V : \A f \in [1..n -> V] : f \in Seq(V)
      BY <3>1
    <3> QED
      BY <2>1, <3>2
  <2> QED
    BY <2>2 DEF n
<1>12. plain # <<>> /\ n # 0
  <2>1. plain # <<>>
    BY DEF plain, items
  <2> QED
    BY <1>11, <2>1, EmptySeq
<1>13. /\ claims \in Seq(ClaimRecord({Blank})) /\ Len(claims) = n
       /\ \A i \in 1..n : claims[i].id = plain[i].id /\ claims[i].item = plain[i].item
       /\ (\E i \in 1..n : plain[i].core) => claims = plain
       /\ ~(\E i \in 1..n : plain[i].core) => core = {1}
  BY <1>11, <1>12, CoreAdded
<1> HIDE DEF claims
<1>14. DOMAIN claims = 1..n
  BY <1>13, LenProperties
<1>15. \A i \in 1..n : claims[i].id = i - 1 /\ claims[i].item = p[i]
  BY <1>10, <1>13
<1>16. {claims[i].item : i \in DOMAIN claims} = usable
  <2>1. \A i \in DOMAIN claims : claims[i].item \in usable
    BY <1>9, <1>14, <1>15
  <2>2. \A x \in usable : \E i \in DOMAIN claims : claims[i].item = x
    BY <1>5, <1>14, <1>15
  <2> QED
    BY <2>1, <2>2
<1>17. CalledCore # {} => {claims[i].item : i \in core} = CalledCore
  <2> SUFFICES ASSUME CalledCore # {} PROVE {claims[i].item : i \in core} = CalledCore
    OBVIOUS
  <2>1. PICK x \in usable : IsCore(x)
    BY <1>4
  <2>2. PICK k \in 1..n : p[k] = x
    BY <1>5, <2>1
  <2>3. plain[k].core
    BY <1>10, <2>1, <2>2
  <2>4. claims = plain
    BY <1>13, <2>3
  <2>5. \A i \in core : i \in 1..n /\ IsCore(p[i])
    BY <1>10, <1>14, <2>4
  <2>6. \A i \in 1..n : IsCore(p[i]) => i \in core
    BY <1>10, <1>14, <2>4
  <2> HIDE DEF core
  <2>7. \A i \in core : claims[i].item \in CalledCore
    BY <1>4, <1>9, <1>15, <2>5
  <2>8. \A y \in CalledCore : \E i \in core : claims[i].item = y
    <3> SUFFICES ASSUME NEW y \in CalledCore PROVE \E i \in core : claims[i].item = y
      OBVIOUS
    <3>1. y \in usable /\ IsCore(y)
      BY <1>4
    <3>2. PICK i \in 1..n : p[i] = y
      BY <1>5, <3>1
    <3> QED
      BY <1>15, <2>6, <3>1, <3>2
  <2> QED
    BY <2>7, <2>8
<1>18. CalledCore = {} => core = {1}
  <2> SUFFICES ASSUME CalledCore = {} PROVE core = {1}
    OBVIOUS
  <2>1. \A i \in 1..n : ~plain[i].core
    BY <1>4, <1>9, <1>10
  <2> QED
    BY <1>13, <2>1
<1>19. n \in 1..ClaimLimit
  <2>1. Len(items) <= ClaimLimit
    BY DEF items
  <2> QED
    BY <1>2, <1>5, <1>12, <2>1, InputAssumption
<1>20. usable # {}
  BY <1>5, <1>12
<1>21. \A i, j \in 1..n : i < j => claims[i].item < claims[j].item
  BY <1>5, <1>15
<1> HIDE DEF core
<1> QED
  BY <1>3, <1>13, <1>14, <1>15, <1>16, <1>17, <1>18, <1>19, <1>20, <1>21
     DEF AsListed, claims, core, plain, items

\* ... and when it does not: a claim for every scalar field, or one for the content.
LEMMA UnlistedAsSubmitted ==
    ASSUME NEW object, WellFormedObject(object), input.object = object
    PROVE  LET plain == IF FlatClaims(object) = <<>> THEN ContentClaim ELSE FlatClaims(object)
               claims == WithCore(plain)
           IN  /\ Len(claims) \in 1..ClaimLimit
               /\ DOMAIN claims = 1..Len(claims)
               /\ \A i \in DOMAIN claims : claims[i].id = i - 1
               /\ {i \in DOMAIN claims : claims[i].core} = {1}
               /\ \A i, j \in DOMAIN claims : claims[i].field = claims[j].field => i = j
               /\ \A i \in DOMAIN claims :
                      claims[i].field # Blank => \E m \in Named(claims[i].field) : Says(m)
<1> DEFINE flat == FlatClaims(object)
           plain == IF flat = <<>> THEN ContentClaim ELSE flat
           claims == WithCore(plain)
           n == Len(plain)
           F == {plain[i].field : i \in 1..n}
<1>1. /\ Len(flat) \in Nat /\ Len(flat) <= ClaimLimit /\ DOMAIN flat = 1..Len(flat)
      /\ \A i \in 1..Len(flat) :
            \E name : /\ flat[i] = [id |-> i - 1, item |-> 0, field |-> name, core |-> FALSE]
                      /\ \E m \in FieldsOf(object) : Clean[m.key] = name /\ Says(m)
      /\ \A i, j \in 1..Len(flat) : flat[i].field = flat[j].field => i = j
  BY FlatClaimsSay
<1>2. flat = [i \in DOMAIN flat |-> flat[i]]
  BY DEF FlatClaims
<1>3. \A name : Named(name) = {m \in FieldsOf(object) : Clean[m.key] = name}
  BY DEF Named, FieldsOf
<1> HIDE DEF flat
\* What holds of either.
<1>4. /\ n \in Nat \ {0} /\ n <= ClaimLimit /\ DOMAIN plain = 1..n
      /\ plain = [i \in 1..n |-> plain[i]]
      /\ \A i \in 1..n :
            /\ \E name : plain[i] = [id |-> i - 1, item |-> 0, field |-> name, core |-> FALSE]
            /\ plain[i].field # Blank => \E m \in Named(plain[i].field) : Says(m)
      /\ \A i, j \in 1..n : plain[i].field = plain[j].field => i = j
  <2>1. CASE flat = <<>>
    <3>1. plain = <<[id |-> 0, item |-> 0, field |-> Blank, core |-> FALSE]>>
      BY <2>1 DEF ContentClaim
    <3> HIDE DEF plain
    <3>2. /\ n = 1 /\ DOMAIN plain = 1..1
          /\ plain[1] = [id |-> 0, item |-> 0, field |-> Blank, core |-> FALSE]
      BY <3>1
    <3> HIDE DEF n
    <3>3. plain = [i \in 1..n |-> plain[i]]
      BY <3>1, <3>2
    <3>4. \A i \in 1..n : i = 1
      BY <3>2
    <3>5. plain[1] = [id |-> 1 - 1, item |-> 0, field |-> Blank, core |-> FALSE]
      BY <3>2
    <3> QED
      BY <3>2, <3>3, <3>4, <3>5, InputAssumption
  <2>2. CASE flat # <<>>
    <3>1. plain = flat /\ n = Len(flat)
      BY <2>2
    <3> HIDE DEF plain, n
    <3>2. n # 0
      <4>1. \E V : flat \in Seq(V)
        <5> DEFINE V == {flat[i] : i \in DOMAIN flat}
        <5>1. flat \in [1..n -> V]
          BY <1>1, <1>2, <3>1
        <5> HIDE DEF V
        <5>2. flat \in Seq(V)
          BY <1>1, <3>1, <5>1
        <5> QED
          BY <5>2
      <4> QED
        BY <2>2, <3>1, <4>1, EmptySeq
    <3>3. ASSUME NEW i \in 1..n
          PROVE  /\ \E name : plain[i] = [id |-> i - 1, item |-> 0, field |-> name, core |-> FALSE]
                 /\ \E m \in Named(plain[i].field) : Says(m)
      <4>1. PICK name : /\ plain[i] = [id |-> i - 1, item |-> 0, field |-> name, core |-> FALSE]
                        /\ \E m \in FieldsOf(object) : Clean[m.key] = name /\ Says(m)
        BY <1>1, <3>1
      <4>2. plain[i].field = name
        BY <4>1
      <4> QED
        BY <1>3, <4>1, <4>2
    <3> QED
      BY <1>1, <1>2, <3>1, <3>2, <3>3
  <2> QED
    BY <2>1, <2>2
<1>5. \A i \in 1..n : /\ plain[i].field \in F /\ plain[i] \in ClaimRecord(F)
                      /\ plain[i].id = i - 1 /\ plain[i].core = FALSE
  <2> SUFFICES ASSUME NEW i \in 1..n
               PROVE  /\ plain[i].field \in F /\ plain[i] \in ClaimRecord(F)
                      /\ plain[i].id = i - 1 /\ plain[i].core = FALSE
    OBVIOUS
  <2>1. plain[i].field \in F
    OBVIOUS
  <2> HIDE DEF F, plain, n
  <2>2. PICK name : plain[i] = [id |-> i - 1, item |-> 0, field |-> name, core |-> FALSE]
    BY <1>4
  <2>3. i - 1 \in Int /\ name \in F
    BY <1>4, <2>1, <2>2
  <2> DEFINE id == i - 1
  <2>4. id \in Int
    BY <2>3
  <2> HIDE DEF id
  <2>5. plain[i] \in ClaimRecord(F) /\ plain[i].id = id /\ plain[i].core = FALSE
    BY <2>2, <2>3, <2>4 DEF ClaimRecord, id
  <2> QED
    BY <2>1, <2>5 DEF id
<1> HIDE DEF F, plain
<1>6. plain \in Seq(ClaimRecord(F)) /\ plain # <<>>
  <2> HIDE DEF n
  <2>1. plain \in [1..n -> ClaimRecord(F)]
    BY <1>4, <1>5
  <2>2. n \in Nat
    BY <1>4
  <2>3. \A V : \A f \in [1..n -> V] : f \in Seq(V)
    BY <2>2
  <2>4. plain \in Seq(ClaimRecord(F))
    BY <2>1, <2>3
  <2>5. n # 0
    BY <1>4
  <2> QED
    BY <2>4, <2>5, EmptySeq DEF n
<1>7. ~(\E i \in 1..n : plain[i].core)
  BY <1>5
<1>8. /\ claims \in Seq(ClaimRecord(F)) /\ Len(claims) = n
      /\ \A i \in 1..n : claims[i].id = plain[i].id /\ claims[i].field = plain[i].field
      /\ {i \in DOMAIN claims : claims[i].core} = {1}
  BY <1>6, <1>7, CoreAdded
<1> HIDE DEF claims, n
<1>9. DOMAIN claims = 1..n
  BY <1>8, LenProperties
<1>10. n \in 1..ClaimLimit
  BY <1>4, InputAssumption
<1>11. \A i \in 1..n : claims[i].id = i - 1
  BY <1>5, <1>8
<1>12. \A i, j \in 1..n : claims[i].field = claims[j].field => i = j
  BY <1>4, <1>8
<1>13. \A i \in 1..n : claims[i].field # Blank => \E m \in Named(claims[i].field) : Says(m)
  BY <1>4, <1>8
<1> QED
  BY <1>8, <1>9, <1>10, <1>11, <1>12, <1>13 DEF claims, plain, flat

\* The claims of an accepted interpretation are the ones that were submitted.
THEOREM ClaimsAreAsSubmitted == InputSpec => []ClaimsAsSubmitted
<1>1. InputInv => ClaimsAsSubmitted
  <2> SUFFICES ASSUME InputInv, input.kind = "claims", parsed[1].ok
               PROVE  ClaimsAsSubmitted
    BY DEF ClaimsAsSubmitted
  <2>1. PICK given \in Schema, object \in Object :
            /\ input = [kind |-> "claims", schema |-> given, object |-> object]
            /\ parsed = <<ParseClaims(object, ParseSchema(given))>>
    BY DEF InputInv, NoInput
  <2> DEFINE schema == ParseSchema(given)
             member == ClaimsMember(object)
             listed == UNION {{ListedClaims(m.items)} : m \in member}
             flat == FlatClaims(object)
             plain == IF listed # {} THEN CHOOSE c \in listed : TRUE
                      ELSE IF flat = <<>> THEN ContentClaim ELSE flat
             badList == \E m \in member : m.kind # "list" \/ Len(m.items) > ClaimLimit
             missing == {name \in schema : FieldKind(object, name) \in Hollow}
             claims == WithCore(plain)
             core == {i \in DOMAIN claims : claims[i].core}
  <2>2. input.object = object /\ input.schema = given /\ WellFormedObject(object)
    BY <2>1, InputAssumption
  <2>3. ParseClaims(object, schema) =
            IF badList \/ plain = <<>> \/ missing # {} THEN Refused
            ELSE [ok |-> TRUE, claims |-> claims, stance |-> Stance(object)]
    BY DEF ParseClaims
  <2>4. parsed[1] = ParseClaims(object, schema)
    BY <2>1
  <2>5. ~badList /\ plain # <<>> /\ missing = {} /\ parsed[1].claims = claims
    <3> HIDE DEF schema, badList, plain, missing, claims
    <3> QED
      BY <2>3, <2>4 DEF Refused
  <2>6. \A name \in schema : \E m \in Named(name) : Says(m)
    <3> SUFFICES ASSUME NEW name \in schema PROVE \E m \in Named(name) : Says(m)
      OBVIOUS
    <3>1. FieldKind(object, name) \notin Hollow
      BY <2>5
    <3>2. PICK m \in FieldsOf(object) : Clean[m.key] = name /\ Says(m)
      BY <2>2, <3>1, FieldSays
    <3> QED
      BY <2>2, <3>2 DEF Named, FieldsOf
  <2>7. /\ Len(claims) \in 1..ClaimLimit
        /\ \A i \in DOMAIN claims : claims[i].id = i - 1
        /\ IF Listed # {}
           THEN /\ {claims[i].item : i \in DOMAIN claims} = Listed
                /\ \A i, j \in DOMAIN claims : i < j => claims[i].item < claims[j].item
                /\ IF CalledCore # {} THEN {claims[i].item : i \in core} = CalledCore
                   ELSE core = {1}
           ELSE /\ core = {1}
                /\ \A i, j \in DOMAIN claims : claims[i].field = claims[j].field => i = j
                /\ \A i \in DOMAIN claims :
                       claims[i].field # Blank => \E m \in Named(claims[i].field) : Says(m)
    <3>1. CASE member # {}
      <4>1. PICK m \in member : TRUE
        BY <3>1
      <4>2. member = {m}
        BY <2>2, OneClaimsMember
      <4>3. listed = {ListedClaims(m.items)}
        BY <4>2
      <4>4. plain = ListedClaims(m.items)
        BY <4>3
      <4>5. Len(m.items) <= ClaimLimit
        <5>1. Len(m.items) \in Nat
          BY <2>2, OneClaimsMember, LenProperties
        <5>2. ~(Len(m.items) > ClaimLimit)
          BY <2>5
        <5> QED
          BY <5>1, <5>2, InputAssumption
      <4>6. ListedClaims(m.items) # <<>>
        BY <2>5, <4>4
      <4>7. claims = WithCore(ListedClaims(m.items))
        BY <4>4
      <4> HIDE DEF plain, listed, badList, missing, flat, schema, claims
      <4>8. AsListed(WithCore(ListedClaims(m.items)))
        BY <2>2, <4>5, <4>6, ListedAsSubmitted
      <4> QED
        BY <4>7, <4>8 DEF AsListed
    <3>2. CASE member = {}
      <4>1. listed = {}
        BY <3>2
      <4>2. plain = IF FlatClaims(object) = <<>> THEN ContentClaim ELSE FlatClaims(object)
        BY <4>1
      <4>3. Listed = {}
        BY <2>2, <3>2 DEF Listed
      <4>4. claims = WithCore(IF FlatClaims(object) = <<>> THEN ContentClaim
                              ELSE FlatClaims(object))
        BY <4>2
      <4> HIDE DEF plain, listed, badList, missing, flat, schema, claims
      <4> QED
        BY <2>2, <4>3, <4>4, UnlistedAsSubmitted
    <3> QED
      BY <3>1, <3>2
  <2> HIDE DEF claims, schema, plain
  <2> QED
    BY <2>2, <2>5, <2>6, <2>7 DEF ClaimsAsSubmitted, schema
<1> QED
  BY <1>1, InputInvariant, PTL
===============================================================================
