--------------------------- MODULE EvaluationProofs ---------------------------
(*****************************************************************************)
(* Proofs about EvalCycles, for any number of cases and any budget, and about *)
(* ImprovementDriver, for any drivers, workflows, tasks and scores.          *)
(*****************************************************************************)
EXTENDS EvalCycles, ImprovementDriver, FiniteSetTheorems, SequenceTheorems, WellFoundedInduction, TLAPS

-----------------------------------------------------------------------------
(*****************************************************************************)
(* A cycle of the evaluation: its spending, its scores and what it stores.   *)
(*****************************************************************************)

\* What a finished cycle keeps.
Outcome == [before : Text, after : Text, edit : Nat, outcomes : [Case -> Values], examples : Seq(Case)]

\* Behind the first run over the cases: a cycle has ended, or the runner has started over.
Restarted   == planned = 1 \/ cycles # <<>>
Answered(a) == {c \in Case : a[c] # "none"}

StageInv ==
    /\ stage \in {"propose", "persist", "done", "reported"} => AllAnswered
    /\ stage = "load" => calls = 0 /\ cycles = <<>> /\ planned = 2
    /\ stage \in {"solve", "propose"} => Len(cycles) < planned /\ (cycles = <<>> => before = steering)
    /\ stage = "propose" => ~Restarted /\ Clusters(answers) # {} /\ tier \in {"real", "replay"}
    /\ stage \in {"persist", "done"} => Len(cycles) = planned
    /\ tier = "smoketest" => ~Restarted /\ stage \notin {"propose", "persist", "done"}

\* Each run over the cases has at most one call for each answer it has.
CallsInv ==
    /\ tier = "mock" => calls = 0
    /\ tier = "replay" => calls <= 1 /\ (stage \in {"load", "solve", "propose"} /\ ~Restarted => calls = 0)
    /\ tier = "real" =>
          IF stage \in {"load", "solve", "propose"}
          THEN calls <= Cardinality(Answered(answers)) + (IF Restarted THEN NumCases + 1 ELSE 0)
          ELSE calls <= 2 * NumCases + 1
    /\ tier = "smoketest" =>
          IF stage \in {"load", "solve"} THEN calls <= Cardinality(Answered(answers)) ELSE calls <= NumCases

SpendInv ==
    IF stage = "aborted" THEN \E tokens \in CallTokens : spent - tokens <= TokenCap
                         ELSE spent <= TokenCap

\* The first cycle started from the steering; an edit of it was made for its own clusters.
FirstInv ==
    cycles # <<>> =>
        /\ cycles[1].before = steering
        /\ cycles[1].edit = 0 => cycles[1].after = steering
        /\ cycles[1].edit > 0 =>
              /\ cycles[1].edit \in EditUnits
              /\ cycles[1].after = Trimmed(steering \o [i \in 1..cycles[1].edit |-> "e"])
              /\ Clusters(cycles[1].outcomes) # {}
              /\ cycles[1].examples = Examples(cycles[1].outcomes)

StoredInv ==
    stage = "done" => /\ stored.dominant = Dominant(cycles[1].outcomes)
                      /\ stored.state = "gate-pass" => stored.version = cycles[1].after

EvalInv == /\ EvalTypeOK /\ cycles \in Seq(Outcome)
           /\ StageInv /\ CallsInv /\ SpendInv /\ FirstInv /\ StoredInv

-----------------------------------------------------------------------------
\* A finite set whose elements have distinct keys can be listed by ascending key.
LEMMA SortedEnumeration ==
    ASSUME NEW S, IsFiniteSet(S), NEW key \in [S -> Int],
           \A x, y \in S : key[x] = key[y] => x = y
    PROVE  \E s \in [1..Cardinality(S) -> S] :
               \A i, j \in 1..Cardinality(S) : i < j => key[s[i]] < key[s[j]]
  <1> DEFINE n == Cardinality(S)
             Below(x) == {y \in S : key[y] <= key[x]}
             pos == [x \in S |-> Cardinality(Below(x))]
  <1>1. n \in Nat
    BY FS_CardinalityType
  <1>2. ASSUME NEW x \in S, NEW y \in S, key[x] < key[y]
        PROVE  Cardinality(Below(x)) < Cardinality(Below(y))
    <2>1. IsFiniteSet(Below(y)) /\ IsFiniteSet(Below(x))
      BY FS_Subset
    <2>2. key[x] \in Int /\ key[y] \in Int
      OBVIOUS
    <2>3. Below(x) \subseteq Below(y)
      <3>1. ASSUME NEW z \in S, key[z] <= key[x] PROVE key[z] <= key[y]
        <4>1. key[z] \in Int
          OBVIOUS
        <4>2. QED
          BY <1>2, <2>2, <3>1, <4>1
      <3>2. QED
        BY <3>1
    <2>4. y \in Below(y) /\ y \notin Below(x)
      BY <1>2, <2>2
    <2>5. /\ Cardinality(Below(x)) <= Cardinality(Below(y))
          /\ Cardinality(Below(y)) = Cardinality(Below(x)) => Below(y) = Below(x)
      BY <2>1, <2>3, FS_Subset
    <2>6. Cardinality(Below(x)) \in Nat /\ Cardinality(Below(y)) \in Nat
      BY <2>1, FS_CardinalityType
    <2>7. QED
      BY <2>4, <2>5, <2>6
  <1>3. \A x \in S : Cardinality(Below(x)) \in 1..n
    <2> TAKE x \in S
    <2>1. IsFiniteSet(Below(x)) /\ Cardinality(Below(x)) <= n
      BY FS_Subset
    <2>2. x \in Below(x)
      <3>1. key[x] \in Int
        OBVIOUS
      <3>2. QED
        BY <3>1
    <2>3. Cardinality(Below(x)) \in Nat /\ Cardinality(Below(x)) # 0
      BY <2>1, <2>2, FS_CardinalityType, FS_EmptySet
    <2>4. QED
      BY <1>1, <2>1, <2>3
  <1>4. pos \in Injection(S, 1..n)
    <2>1. ASSUME NEW x \in S, NEW y \in S, pos[x] = pos[y] PROVE x = y
      <3> HIDE DEF Below
      <3>1. key[x] \in Int /\ key[y] \in Int /\ Cardinality(Below(x)) = Cardinality(Below(y))
            /\ Cardinality(Below(x)) \in Int
        BY <1>3, <2>1
      <3>2. ~(key[x] < key[y]) /\ ~(key[y] < key[x])
        BY <1>2, <3>1
      <3>3. QED
        BY <3>1, <3>2
    <2>2. pos \in [S -> 1..n]
      <3> HIDE DEF Below
      <3> QED BY <1>3
    <2>3. QED
      <3> HIDE DEF pos
      <3> QED BY <2>1, <2>2 DEF Injection, IsInjective
  <1>5. pos \in Surjection(S, 1..n)
    <2>1. IsFiniteSet(1..n) /\ Cardinality(1..n) = n
      BY <1>1, FS_Interval
    <2> HIDE DEF pos
    <2>2. QED
      BY <1>4, <2>1, FS_Injection
  <1>6. \A i \in 1..n : \E x \in S : pos[x] = i
    <2> HIDE DEF pos
    <2> QED BY <1>5 DEF Surjection
  <1> DEFINE s == [i \in 1..n |-> CHOOSE x \in S : pos[x] = i]
  <1>7. \A i \in 1..n : s[i] \in S /\ pos[s[i]] = i
    <2> HIDE DEF pos
    <2> QED BY <1>6
  <1>8. ASSUME NEW i \in 1..n, NEW j \in 1..n, i < j PROVE key[s[i]] < key[s[j]]
    <2>1. s[i] \in S /\ s[j] \in S /\ pos[s[i]] = i /\ pos[s[j]] = j
      BY <1>7
    <2> HIDE DEF s, Below
    <2>2. Cardinality(Below(s[i])) = i /\ Cardinality(Below(s[j])) = j
      BY <2>1
    <2>3. key[s[i]] \in Int /\ key[s[j]] \in Int
      BY <2>1
    <2>4. ~(key[s[j]] < key[s[i]])
      BY <1>1, <1>2, <1>8, <2>1, <2>2
    <2>5. key[s[i]] # key[s[j]]
      BY <1>1, <1>8, <2>1, <2>2
    <2>6. QED
      BY <2>3, <2>4, <2>5
  <1>9. s \in [1..n -> S]
    <2> HIDE DEF pos
    <2> QED BY <1>7
  <1>10. QED
    <2> HIDE DEF s
    <2> QED BY <1>8, <1>9

\* What WorstFirst returns: every element once, the severest first.
LEMMA WorstFirstLists ==
    ASSUME NEW S \in SUBSET Case
    PROVE  /\ IsFiniteSet(S) /\ Cardinality(S) \in Nat
           /\ WorstFirst(S) \in Seq(S) /\ Len(WorstFirst(S)) = Cardinality(S)
           /\ \A i, j \in 1..Cardinality(S) : i < j => Severity(WorstFirst(S)[i]) < Severity(WorstFirst(S)[j])
           /\ \A c \in S : \E i \in 1..Cardinality(S) : WorstFirst(S)[i] = c
  <1> DEFINE n == Cardinality(S)
             key == [c \in S |-> Severity(c)]
             w == WorstFirst(S)
  <1>1. NumCases \in Nat /\ IsFiniteSet(S) /\ n \in Nat
    <2>1. NumCases \in Nat
      BY EvalAssumption
    <2>2. IsFiniteSet(Case)
      BY <2>1, FS_Interval DEF Case
    <2>3. QED
      BY <2>1, <2>2, FS_Subset, FS_CardinalityType
  <1>2. \A c \in Case : Severity(c) \in Int
    BY <1>1 DEF Severity, Case
  <1>3. ASSUME NEW x \in S, NEW y \in S, Severity(x) = Severity(y) PROVE x = y
    BY <1>1, <1>3 DEF Severity, Case
  <1>4. \E s \in [1..n -> S] : \A i, j \in 1..n : i < j => Severity(s[i]) < Severity(s[j])
    <2>1. key \in [S -> Int] /\ \A x, y \in S : key[x] = key[y] => x = y
      BY <1>2, <1>3
    <2>2. PICK s \in [1..n -> S] : \A i, j \in 1..n : i < j => key[s[i]] < key[s[j]]
      <3> HIDE DEF key
      <3> QED BY <1>1, <2>1, SortedEnumeration
    <2>3. QED
      BY <2>2
  <1>5. w \in [1..n -> S] /\ \A i, j \in 1..n : i < j => Severity(w[i]) < Severity(w[j])
    <2>1. \E s \in [1..n -> S] : \A i, j \in DOMAIN s : i < j => Severity(s[i]) < Severity(s[j])
      BY <1>4
    <2>2. w \in [1..n -> S] /\ \A i, j \in DOMAIN w : i < j => Severity(w[i]) < Severity(w[j])
      BY <2>1 DEF WorstFirst
    <2>3. QED
      BY <2>2
  <1> HIDE DEF w
  <1>6. w \in Injection(1..n, S)
    <2>1. ASSUME NEW i \in 1..n, NEW j \in 1..n, w[i] = w[j] PROVE i = j
      <3>1. Severity(w[i]) = Severity(w[j]) /\ Severity(w[i]) \in Int
        BY <1>2, <1>5, <2>1
      <3>2. ~(i < j) /\ ~(j < i)
        BY <1>5, <3>1
      <3>3. QED
        BY <1>1, <3>2
    <2>2. QED
      BY <1>5, <2>1 DEF Injection, IsInjective
  <1>7. w \in Surjection(1..n, S)
    <2>1. IsFiniteSet(1..n) /\ Cardinality(1..n) = n
      BY <1>1, FS_Interval
    <2>2. QED
      BY <1>1, <1>6, <2>1, FS_Injection
  <1>8. w \in Seq(S) /\ Len(w) = n
    BY <1>1, <1>5
  <1>9. QED
    BY <1>1, <1>5, <1>7, <1>8 DEF Surjection, w

-----------------------------------------------------------------------------
\* Scores.  Multiplication keeps the order, and of two fractions in order so
\* are the ones they are read as.
LEMMA TimesMonotone ==
    ASSUME NEW x \in Nat, NEW y \in Nat, NEW z \in Nat, x <= y
    PROVE  x * z <= y * z /\ x * z \in Nat /\ y * z \in Nat
  <1>1. PICK d \in Nat : y = x + d
    <2>1. y - x \in Nat /\ y = x + (y - x)
      OBVIOUS
    <2>2. QED
      BY <2>1
  <1>2. y * z = x * z + d * z
    BY <1>1
  <1>3. d * z \in Nat /\ x * z \in Nat /\ y * z \in Nat
    BY <1>1
  <1>4. QED
    BY <1>2, <1>3

\* A proportion n / (n + m) grows with a hit more and with a miss less.
LEMMA HitMore ==
    ASSUME NEW n \in Nat, NEW m \in Nat
    PROVE  AtMost(SafeDiv(n, n + m), SafeDiv(n + 1, n + 1 + m))
  <1>1. CASE n + m = 0
    BY <1>1 DEF SafeDiv, AtMost
  <1>2. CASE n + m # 0
    <2>1. n * (n + 1 + m) <= (n + 1) * (n + m)
      <3>1. n * (n + 1 + m) = n * (n + m) + n
        OBVIOUS
      <3>2. (n + 1) * (n + m) = n * (n + m) + (n + m)
        OBVIOUS
      <3>3. n * (n + m) \in Nat
        OBVIOUS
      <3>4. QED
        BY <3>1, <3>2, <3>3
    <2>2. QED
      BY <1>2, <2>1 DEF SafeDiv, AtMost
  <1>3. QED
    BY <1>1, <1>2

\* One miss less is no worse a share.
LEMMA MissLess ==
    ASSUME NEW n \in Nat, NEW m \in Nat
    PROVE  AtMost(SafeDiv(n, n + (m + 1)), SafeDiv(n, n + m))
  <1>1. CASE n + m = 0
    BY <1>1 DEF SafeDiv, AtMost
  <1>2. CASE n + m # 0
    <2>1. n * (n + m) <= n * (n + (m + 1))
      <3>1. n * (n + (m + 1)) = n * (n + m) + n /\ n * (n + m) \in Nat
        OBVIOUS
      <3>2. QED
        BY <3>1
    <2>2. QED
      BY <1>2, <2>1 DEF SafeDiv, AtMost
  <1>3. QED
    BY <1>1, <1>2

\* Two fractions in order, each expanded by a factor.
LEMMA Expanded ==
    ASSUME NEW x \in Nat, NEW y \in Nat, NEW xx \in Nat, NEW yy \in Nat, NEW k \in Nat, NEW kk \in Nat,
           x * yy <= xx * y
    PROVE  AtMost(<<k * x, k * y>>, <<kk * xx, kk * yy>>)
  <1>1. x * yy \in Nat /\ xx * y \in Nat /\ k * kk \in Nat
    OBVIOUS
  <1>2. (x * yy) * (k * kk) <= (xx * y) * (k * kk)
    BY <1>1, TimesMonotone
  <1>3. (k * x) * (kk * yy) = (x * yy) * (k * kk)
    OBVIOUS
  <1>4. (kk * xx) * (k * y) = (xx * y) * (k * kk)
    OBVIOUS
  <1>5. QED
    BY <1>2, <1>3, <1>4 DEF AtMost

\* The body of F1.
Harmonic(p, r) == IF Plus(p, r)[1] = 0 THEN <<0, 1>> ELSE Over(Times(<<2, 1>>, Times(p, r)), Plus(p, r))

\* Of n hits among u predicted and among v actual positives it is 2n / (u + v).
LEMMA HarmonicForm ==
    ASSUME NEW n \in Nat, NEW u \in Nat, NEW v \in Nat, n <= u, n <= v
    PROVE  \/ n = 0 /\ Harmonic(SafeDiv(n, u), SafeDiv(n, v)) = <<0, 1>>
           \/ /\ n # 0
              /\ \E k \in Nat : Harmonic(SafeDiv(n, u), SafeDiv(n, v)) = <<k * (2 * n), k * (u + v)>>
  <1>1. CASE n = 0
    <2>1. SafeDiv(n, u) = <<0, IF u = 0 THEN 1 ELSE u>> /\ SafeDiv(n, v) = <<0, IF v = 0 THEN 1 ELSE v>>
      BY <1>1 DEF SafeDiv
    <2>2. Plus(SafeDiv(n, u), SafeDiv(n, v))[1] = 0
      BY <2>1 DEF Plus
    <2>3. QED
      BY <1>1, <2>2 DEF Harmonic
  <1>2. CASE n # 0
    <2>1. SafeDiv(n, u) = <<n, u>> /\ SafeDiv(n, v) = <<n, v>> /\ u # 0 /\ v # 0
      BY <1>2 DEF SafeDiv
    <2>2. Plus(<<n, u>>, <<n, v>>) = <<n * v + n * u, u * v>>
      BY DEF Plus
    <2>3. n * v + n * u # 0
      <3>1. n * v \in Nat /\ n * u \in Nat
        OBVIOUS
      <3>2. n * u # 0
        BY <1>2, <2>1
      <3>3. QED
        BY <3>1, <3>2
    <2>4. Harmonic(<<n, u>>, <<n, v>>) = <<(2 * (n * n)) * (u * v), (1 * (u * v)) * (n * v + n * u)>>
      BY <2>2, <2>3 DEF Harmonic, Over, Times
    <2>5. (2 * (n * n)) * (u * v) = (n * (u * v)) * (2 * n)
      OBVIOUS
    <2>6. (1 * (u * v)) * (n * v + n * u) = (n * (u * v)) * (u + v)
      OBVIOUS
    <2>7. n * (u * v) \in Nat
      OBVIOUS
    <2>8. QED
      BY <1>2, <2>1, <2>4, <2>5, <2>6, <2>7
  <1>3. QED
    BY <1>1, <1>2

\* F1 grows when a missed positive is found, and when a false alarm is withdrawn.
LEMMA HarmonicGrows ==
    ASSUME NEW n \in Nat, NEW u \in Nat, NEW v \in Nat, NEW nn \in Nat, NEW uu \in Nat, NEW vv \in Nat,
           n <= u, n <= v, nn <= uu, nn <= vv,
           \/ nn = n + 1 /\ uu + vv = u + v + 1
           \/ nn = n /\ uu + vv = u + v - 1
    PROVE  AtMost(Harmonic(SafeDiv(n, u), SafeDiv(n, v)), Harmonic(SafeDiv(nn, uu), SafeDiv(nn, vv)))
  <1> DEFINE h == Harmonic(SafeDiv(n, u), SafeDiv(n, v))
             hh == Harmonic(SafeDiv(nn, uu), SafeDiv(nn, vv))
  <1>1. (2 * n) * (uu + vv) <= (2 * nn) * (u + v)
    <2>1. n * (u + v) \in Nat /\ n <= u + v
      OBVIOUS
    <2>2. CASE nn = n + 1 /\ uu + vv = u + v + 1
      <3>1. (2 * n) * (u + v + 1) = 2 * (n * (u + v)) + 2 * n
        OBVIOUS
      <3>2. (2 * (n + 1)) * (u + v) = 2 * (n * (u + v)) + 2 * (u + v)
        OBVIOUS
      <3>3. QED
        BY <2>1, <2>2, <3>1, <3>2
    <2>3. CASE nn = n /\ uu + vv = u + v - 1
      <3>1. (2 * n) * (u + v - 1) = 2 * (n * (u + v)) - 2 * n
        OBVIOUS
      <3>2. (2 * n) * (u + v) = 2 * (n * (u + v))
        OBVIOUS
      <3>3. QED
        BY <2>1, <2>3, <3>1, <3>2
    <2>4. QED
      BY <2>2, <2>3
  <1>2. CASE n = 0
    <2>1. h = <<0, 1>>
      BY <1>2, HarmonicForm
    <2>2. hh[1] \in Nat /\ hh[2] \in Nat
      <3>1. CASE hh = <<0, 1>>
        BY <3>1
      <3>2. CASE \E k \in Nat : hh = <<k * (2 * nn), k * (uu + vv)>>
        BY <3>2
      <3>3. QED
        BY <3>1, <3>2, HarmonicForm, ZenonT(60)
    <2> HIDE DEF h, hh
    <2>3. QED
      BY <2>1, <2>2 DEF AtMost, h, hh
  <1>3. CASE n # 0
    <2>1. nn # 0
      BY <1>3
    <2>2. \E k \in Nat : hh = <<k * (2 * nn), k * (uu + vv)>>
      BY <2>1, HarmonicForm, ZenonT(60)
    <2>3. PICK k \in Nat : h = <<k * (2 * n), k * (u + v)>>
      BY <1>3, HarmonicForm, ZenonT(60)
    <2>a. PICK kk \in Nat : hh = <<kk * (2 * nn), kk * (uu + vv)>>
      <3> HIDE DEF hh
      <3> QED BY <2>2
    <2>4. 2 * n \in Nat /\ 2 * nn \in Nat /\ u + v \in Nat /\ uu + vv \in Nat
      OBVIOUS
    <2> HIDE DEF h, hh
    <2>5. AtMost(<<k * (2 * n), k * (u + v)>>, <<kk * (2 * nn), kk * (uu + vv)>>)
      BY <1>1, <2>4, Expanded
    <2>6. QED
      BY <2>3, <2>a, <2>5 DEF h, hh
  <1>4. QED
    BY <1>2, <1>3

\* The mean of two fractions grows with either.
LEMMA MeanGrows ==
    ASSUME NEW a \in Nat, NEW b \in Nat, NEW aa \in Nat, NEW bb \in Nat, NEW c \in Nat, NEW d \in Nat,
           a * bb <= aa * b
    PROVE  /\ AtMost(Over(Plus(<<a, b>>, <<c, d>>), <<2, 1>>), Over(Plus(<<aa, bb>>, <<c, d>>), <<2, 1>>))
           /\ AtMost(Over(Plus(<<c, d>>, <<a, b>>), <<2, 1>>), Over(Plus(<<c, d>>, <<aa, bb>>), <<2, 1>>))
  <1>1. 2 * (d * d) \in Nat /\ a * bb \in Nat /\ aa * b \in Nat
    OBVIOUS
  <1>2. (a * bb) * (2 * (d * d)) <= (aa * b) * (2 * (d * d))
    BY <1>1, TimesMonotone
  <1>3. ((a * d + c * b) * 1) * ((bb * d) * 2) = (a * bb) * (2 * (d * d)) + 2 * (c * d * b * bb)
    OBVIOUS
  <1>4. ((aa * d + c * bb) * 1) * ((b * d) * 2) = (aa * b) * (2 * (d * d)) + 2 * (c * d * b * bb)
    OBVIOUS
  <1>5. ((c * b + a * d) * 1) * ((d * bb) * 2) = (a * bb) * (2 * (d * d)) + 2 * (c * d * b * bb)
    OBVIOUS
  <1>6. ((c * bb + aa * d) * 1) * ((d * b) * 2) = (aa * b) * (2 * (d * d)) + 2 * (c * d * b * bb)
    OBVIOUS
  <1>7. (a * bb) * (2 * (d * d)) \in Nat /\ (aa * b) * (2 * (d * d)) \in Nat /\ 2 * (c * d * b * bb) \in Nat
    OBVIOUS
  <1>8. ((a * d + c * b) * 1) * ((bb * d) * 2) <= ((aa * d + c * bb) * 1) * ((b * d) * 2)
    BY <1>2, <1>3, <1>4, <1>7
  <1>9. ((c * b + a * d) * 1) * ((d * bb) * 2) <= ((c * bb + aa * d) * 1) * ((d * b) * 2)
    BY <1>2, <1>5, <1>6, <1>7
  <1>10. QED
    BY <1>8, <1>9 DEF AtMost, Over, Plus

\* The numbers of the confusion matrix after one wrong answer is set right.
LEMMA FixedCounts ==
    ASSUME truth \in [Case -> Values], NEW a \in [Case -> Values], NEW c \in Case, a[c] # truth[c],
           NEW b, b = [a EXCEPT ![c] = truth[c]]
    PROVE  /\ TP(a) \in Nat /\ TN(a) \in Nat /\ FP(a) \in Nat /\ FN(a) \in Nat
           /\ TP(b) \in Nat /\ TN(b) \in Nat /\ FP(b) \in Nat /\ FN(b) \in Nat
           /\ \/ TP(b) = TP(a) + 1 /\ FN(a) = FN(b) + 1 /\ TN(b) = TN(a) /\ FP(b) = FP(a)
              \/ TN(b) = TN(a) + 1 /\ FP(a) = FP(b) + 1 /\ TP(b) = TP(a) /\ FN(b) = FN(a)
  <1> DEFINE In(f, e, v) == {d \in Case : truth[d] = e /\ f[d] = v}
  <1>1. \A f, e, v : IsFiniteSet(In(f, e, v)) /\ Cardinality(In(f, e, v)) \in Nat
    <2>1. IsFiniteSet(Case)
      BY EvalAssumption, FS_Interval DEF Case
    <2>2. \A f, e, v : In(f, e, v) \in SUBSET Case
      OBVIOUS
    <2> HIDE DEF In
    <2>3. QED
      BY <2>1, <2>2, FS_Subset, FS_CardinalityType
  <1>2. \A f, e, v : Count(f, e, v) = Cardinality(In(f, e, v))
    BY DEF Count
  <1>3. \A d \in Case : b[d] = IF d = c THEN truth[c] ELSE a[d]
    OBVIOUS
  <1>4. CASE truth[c] = "yes"
    <2>1. a[c] = "no"
      BY <1>4 DEF Values
    <2>2. In(b, "yes", "yes") = In(a, "yes", "yes") \cup {c} /\ c \notin In(a, "yes", "yes")
      BY <1>3, <1>4, <2>1
    <2>3. In(a, "yes", "no") = In(b, "yes", "no") \cup {c} /\ c \notin In(b, "yes", "no")
      BY <1>3, <1>4, <2>1
    <2>4. In(b, "no", "no") = In(a, "no", "no") /\ In(b, "no", "yes") = In(a, "no", "yes")
      BY <1>3, <1>4, <2>1
    <2> HIDE DEF In
    <2>5. /\ Cardinality(In(b, "yes", "yes")) = Cardinality(In(a, "yes", "yes")) + 1
          /\ Cardinality(In(a, "yes", "no")) = Cardinality(In(b, "yes", "no")) + 1
      BY <1>1, <2>2, <2>3, FS_AddElement, ZenonT(60)
    <2>6. QED
      BY <1>1, <1>2, <2>4, <2>5 DEF TP, TN, FP, FN
  <1>5. CASE truth[c] = "no"
    <2>1. a[c] = "yes"
      BY <1>5 DEF Values
    <2>2. In(b, "no", "no") = In(a, "no", "no") \cup {c} /\ c \notin In(a, "no", "no")
      BY <1>3, <1>5, <2>1
    <2>3. In(a, "no", "yes") = In(b, "no", "yes") \cup {c} /\ c \notin In(b, "no", "yes")
      BY <1>3, <1>5, <2>1
    <2>4. In(b, "yes", "yes") = In(a, "yes", "yes") /\ In(b, "yes", "no") = In(a, "yes", "no")
      BY <1>3, <1>5, <2>1
    <2> HIDE DEF In
    <2>5. /\ Cardinality(In(b, "no", "no")) = Cardinality(In(a, "no", "no")) + 1
          /\ Cardinality(In(a, "no", "yes")) = Cardinality(In(b, "no", "yes")) + 1
      BY <1>1, <2>2, <2>3, FS_AddElement, ZenonT(60)
    <2>6. QED
      BY <1>1, <1>2, <2>4, <2>5 DEF TP, TN, FP, FN
  <1>6. QED
    BY <1>4, <1>5 DEF Values

\* The score after one wrong answer is set right.
LEMMA FixedScore ==
    ASSUME truth \in [Case -> Values], NEW a \in [Case -> Values], NEW c \in Case, a[c] # truth[c],
           NEW family \in Families
    PROVE  AtMost(MetricValue(family, a), MetricValue(family, [a EXCEPT ![c] = truth[c]]))
  <1> DEFINE b == [a EXCEPT ![c] = truth[c]]
  <1>1. /\ TP(a) \in Nat /\ TN(a) \in Nat /\ FP(a) \in Nat /\ FN(a) \in Nat
        /\ TP(b) \in Nat /\ TN(b) \in Nat /\ FP(b) \in Nat /\ FN(b) \in Nat
        /\ \/ TP(b) = TP(a) + 1 /\ FN(a) = FN(b) + 1 /\ TN(b) = TN(a) /\ FP(b) = FP(a)
           \/ TN(b) = TN(a) + 1 /\ FP(a) = FP(b) + 1 /\ TP(b) = TP(a) /\ FN(b) = FN(a)
    BY FixedCounts
  <1> HIDE DEF b
  <1>2. \A n \in Nat, m \in Nat : SafeDiv(n, m)[1] \in Nat /\ SafeDiv(n, m)[2] \in Nat
                                   /\ SafeDiv(n, m) = <<SafeDiv(n, m)[1], SafeDiv(n, m)[2]>>
    BY DEF SafeDiv
  <1>3. \A n \in Nat, m \in Nat : AtMost(SafeDiv(n, m), SafeDiv(n, m))
    BY DEF SafeDiv, AtMost
  <1>4. AtMost(Precision(a), Precision(b))
    <2>1. CASE TP(b) = TP(a) + 1 /\ FP(b) = FP(a)
      BY <1>1, <2>1, HitMore DEF Precision
    <2>2. CASE FP(a) = FP(b) + 1 /\ TP(b) = TP(a)
      BY <1>1, <2>2, MissLess DEF Precision
    <2>3. QED
      BY <1>1, <2>1, <2>2
  <1>5. AtMost(Recall(a), Recall(b))
    <2>1. CASE TP(b) = TP(a) + 1 /\ FN(a) = FN(b) + 1
      <3>1. TP(a) + FN(a) = TP(b) + FN(b)
        BY <1>1, <2>1
      <3>2. TP(a) * (TP(a) + FN(a)) <= TP(b) * (TP(a) + FN(a))
        BY <1>1, <2>1, TimesMonotone
      <3>3. QED
        BY <1>1, <2>1, <3>1, <3>2 DEF Recall, SafeDiv, AtMost
    <2>2. CASE TP(b) = TP(a) /\ FN(b) = FN(a)
      BY <1>1, <1>3, <2>2 DEF Recall
    <2>3. QED
      BY <1>1, <2>1, <2>2
  <1>6. AtMost(Specificity(a), Specificity(b))
    <2>1. CASE TN(b) = TN(a) + 1 /\ FP(a) = FP(b) + 1
      <3>1. TN(a) + FP(a) = TN(b) + FP(b)
        BY <1>1, <2>1
      <3>2. TN(a) * (TN(a) + FP(a)) <= TN(b) * (TN(a) + FP(a))
        BY <1>1, <2>1, TimesMonotone
      <3>3. QED
        BY <1>1, <2>1, <3>1, <3>2 DEF Specificity, SafeDiv, AtMost
    <2>2. CASE TN(b) = TN(a) /\ FP(b) = FP(a)
      BY <1>1, <1>3, <2>2 DEF Specificity
    <2>3. QED
      BY <1>1, <2>1, <2>2
  <1>7. CASE family = "pass_rate"
    <2>1. NumCases \in Nat /\ NumCases # 0 /\ TP(a) + TN(a) \in Nat /\ TP(b) + TN(b) = (TP(a) + TN(a)) + 1
      BY <1>1, EvalAssumption
    <2>2. (TP(a) + TN(a)) * NumCases <= (TP(b) + TN(b)) * NumCases
      BY <1>1, <2>1, TimesMonotone
    <2>3. QED
      BY <1>7, <2>1, <2>2 DEF MetricValue, SafeDiv, AtMost, b
  <1>8. CASE family = "f1"
    <2>1. F1(a) = Harmonic(SafeDiv(TP(a), TP(a) + FP(a)), SafeDiv(TP(a), TP(a) + FN(a)))
      BY DEF F1, Harmonic, Precision, Recall
    <2>2. F1(b) = Harmonic(SafeDiv(TP(b), TP(b) + FP(b)), SafeDiv(TP(b), TP(b) + FN(b)))
      BY DEF F1, Harmonic, Precision, Recall
    <2>3. /\ TP(a) + FP(a) \in Nat /\ TP(a) + FN(a) \in Nat /\ TP(b) + FP(b) \in Nat /\ TP(b) + FN(b) \in Nat
          /\ TP(a) <= TP(a) + FP(a) /\ TP(a) <= TP(a) + FN(a)
          /\ TP(b) <= TP(b) + FP(b) /\ TP(b) <= TP(b) + FN(b)
          /\ \/ TP(b) = TP(a) + 1 /\ (TP(b) + FP(b)) + (TP(b) + FN(b)) = (TP(a) + FP(a)) + (TP(a) + FN(a)) + 1
             \/ TP(b) = TP(a) /\ (TP(b) + FP(b)) + (TP(b) + FN(b)) = (TP(a) + FP(a)) + (TP(a) + FN(a)) - 1
      BY <1>1
    <2>4. AtMost(F1(a), F1(b))
      <3> DEFINE n == TP(a) u == TP(a) + FP(a) v == TP(a) + FN(a)
                 nn == TP(b) uu == TP(b) + FP(b) vv == TP(b) + FN(b)
      <3>1. n \in Nat /\ u \in Nat /\ v \in Nat /\ nn \in Nat /\ uu \in Nat /\ vv \in Nat
        BY <1>1
      <3>2. /\ n <= u /\ n <= v /\ nn <= uu /\ nn <= vv
            /\ \/ nn = n + 1 /\ uu + vv = u + v + 1
               \/ nn = n /\ uu + vv = u + v - 1
        BY <2>3
      <3> HIDE DEF n, u, v, nn, uu, vv
      <3>3. AtMost(Harmonic(SafeDiv(n, u), SafeDiv(n, v)), Harmonic(SafeDiv(nn, uu), SafeDiv(nn, vv)))
        BY ONLY <3>1, <3>2, HarmonicGrows
      <3>4. QED
        BY <2>1, <2>2, <3>3 DEF n, u, v, nn, uu, vv
    <2>5. QED
      BY <1>8, <2>4 DEF MetricValue, b
  <1>9. CASE family = "balanced_accuracy"
    <2> DEFINE r == Recall(a) rr == Recall(b) s == Specificity(a) ss == Specificity(b)
    <2>1. /\ r[1] \in Nat /\ r[2] \in Nat /\ r = <<r[1], r[2]>>
          /\ rr[1] \in Nat /\ rr[2] \in Nat /\ rr = <<rr[1], rr[2]>>
          /\ s[1] \in Nat /\ s[2] \in Nat /\ s = <<s[1], s[2]>>
          /\ ss[1] \in Nat /\ ss[2] \in Nat /\ ss = <<ss[1], ss[2]>>
      <3>1. TP(a) + FN(a) \in Nat /\ TP(b) + FN(b) \in Nat /\ TN(a) + FP(a) \in Nat /\ TN(b) + FP(b) \in Nat
        BY <1>1
      <3>2. QED
        BY <1>1, <1>2, <3>1 DEF Recall, Specificity
    <2>2. r = rr \/ s = ss
      BY <1>1 DEF Recall, Specificity
    <2> HIDE DEF r, rr, s, ss
    <2>3. AtMost(r, rr) /\ AtMost(s, ss)
      BY <1>5, <1>6 DEF r, rr, s, ss
    <2>4. r[1] * rr[2] <= rr[1] * r[2] /\ s[1] * ss[2] <= ss[1] * s[2]
      BY <2>3 DEF AtMost
    <2>5. AtMost(Over(Plus(r, s), <<2, 1>>), Over(Plus(rr, ss), <<2, 1>>))
      <3>1. CASE s = ss
        <4>1. AtMost(Over(Plus(<<r[1], r[2]>>, <<s[1], s[2]>>), <<2, 1>>), Over(Plus(<<rr[1], rr[2]>>, <<s[1], s[2]>>), <<2, 1>>))
          BY <2>1, <2>4, MeanGrows
        <4>2. QED
          BY <2>1, <3>1, <4>1
      <3>2. CASE r = rr
        <4>1. AtMost(Over(Plus(<<r[1], r[2]>>, <<s[1], s[2]>>), <<2, 1>>), Over(Plus(<<r[1], r[2]>>, <<ss[1], ss[2]>>), <<2, 1>>))
          BY <2>1, <2>4, MeanGrows
        <4>2. QED
          BY <2>1, <3>2, <4>1
      <3>3. QED
        BY <2>2, <3>1, <3>2
    <2>6. QED
      BY <1>9, <2>5 DEF MetricValue, b, r, rr, s, ss
  <1>10. QED
    BY <1>4, <1>5, <1>6, <1>7, <1>8, <1>9 DEF Families, MetricValue, b

-----------------------------------------------------------------------------
\* What Members lists: the failures with a hint, each once, the severest first.
LEMMA MembersList ==
    ASSUME NEW a, NEW hint
    PROVE  /\ Members(hint, a) \in Seq(Case) /\ Len(Members(hint, a)) \in Nat
           /\ \A i \in 1..Len(Members(hint, a)) :
                 Members(hint, a)[i] \in Failures(a) /\ HintOf(Members(hint, a)[i]) = hint
           /\ \A c \in Failures(a) : HintOf(c) = hint =>
                 \E i \in 1..Len(Members(hint, a)) : Members(hint, a)[i] = c
           /\ \A i, j \in 1..Len(Members(hint, a)) :
                 i < j => Severity(Members(hint, a)[i]) < Severity(Members(hint, a)[j])
  <1> DEFINE S == {c \in Failures(a) : HintOf(c) = hint}
  <1>1. S \in SUBSET Case
    BY DEF Failures
  <1>2. Members(hint, a) = WorstFirst(S)
    BY DEF Members
  <1>3. \A c : c \in S <=> c \in Failures(a) /\ HintOf(c) = hint
    OBVIOUS
  <1> HIDE DEF S
  <1>4. /\ Cardinality(S) \in Nat
        /\ WorstFirst(S) \in Seq(S) /\ Len(WorstFirst(S)) = Cardinality(S)
        /\ \A i, j \in 1..Cardinality(S) : i < j => Severity(WorstFirst(S)[i]) < Severity(WorstFirst(S)[j])
        /\ \A c \in S : \E i \in 1..Cardinality(S) : WorstFirst(S)[i] = c
    BY <1>1, WorstFirstLists
  <1>5. \A i \in 1..Cardinality(S) : WorstFirst(S)[i] \in S
    BY <1>4
  <1>6. WorstFirst(S) \in Seq(Case)
    BY <1>1, <1>4, SeqMonotonic
  <1>7. QED
    BY <1>2, <1>3, <1>4, <1>5, <1>6

\* The dominant cluster is one of the clusters.
LEMMA DominantIsACluster ==
    ASSUME NEW a, Clusters(a) # {}
    PROVE  Dominant(a) \in Clusters(a) /\ Dominant(a) \in Hints /\ Members(Dominant(a), a) # <<>>
  <1> DEFINE L(hint) == Len(Members(hint, a))
             Best(hint) == \A other \in Clusters(a) :
                 \/ L(hint) > L(other)
                 \/ L(hint) = L(other) /\ (hint = other \/ hint = "false-positive")
  <1>1. Clusters(a) \subseteq Buckets(a) /\ Buckets(a) \subseteq Hints
    BY DEF Clusters, Buckets
  <1>2. \A hint : L(hint) \in Nat
    BY MembersList
  <1>3. Dominant(a) = CHOOSE hint \in Clusters(a) : Best(hint)
    BY DEF Dominant
  <1>4. \E hint \in Clusters(a) : Best(hint)
    <2>1. Clusters(a) \subseteq {"false-negative", "false-positive"}
      BY <1>1 DEF Hints
    <2> HIDE DEF L
    <2>2. CASE "false-positive" \in Clusters(a) /\ "false-negative" \in Clusters(a)
      <3>1. CASE L("false-negative") > L("false-positive")
        <4>1. Best("false-negative")
          BY <2>1, <3>1
        <4> QED BY <2>2, <4>1
      <3>2. CASE ~(L("false-negative") > L("false-positive"))
        <4>1. Best("false-positive")
          BY <1>2, <2>1, <3>2
        <4> QED BY <2>2, <4>1
      <3>3. QED
        BY <3>1, <3>2
    <2>3. CASE "false-positive" \in Clusters(a) /\ "false-negative" \notin Clusters(a)
      <3>1. Best("false-positive")
        BY <2>1, <2>3
      <3> QED BY <2>3, <3>1
    <2>4. CASE "false-positive" \notin Clusters(a)
      <3>1. "false-negative" \in Clusters(a) /\ Best("false-negative")
        BY <2>1, <2>4
      <3> QED BY <3>1
    <2>5. QED
      BY <2>2, <2>3, <2>4
  <1>5. Dominant(a) \in Clusters(a)
    <2> HIDE DEF Best
    <2> QED BY <1>3, <1>4
  <1>6. QED
    BY <1>1, <1>5 DEF Buckets

\* What a proposer sees: failures of the dominant cluster, a held-out one if there is any.
LEMMA ExamplesShow ==
    ASSUME NEW a, Clusters(a) # {}
    PROVE  /\ Examples(a) \in Seq(Case) /\ Examples(a) # <<>>
           /\ \A i \in DOMAIN Examples(a) :
                 Examples(a)[i] \in Failures(a) /\ HintOf(Examples(a)[i]) = Dominant(a)
           /\ \A c \in HeldOut \cap Failures(a) : HintOf(c) = Dominant(a) =>
                 \E i \in DOMAIN Examples(a) : Examples(a)[i] \in HeldOut
  <1> DEFINE m == Members(Dominant(a), a)
             n == IF Len(m) < MaxExamples THEN Len(m) ELSE MaxExamples
  <1>1. /\ m \in Seq(Case) /\ Len(m) \in Nat
        /\ \A i \in 1..Len(m) : m[i] \in Failures(a) /\ HintOf(m[i]) = Dominant(a)
        /\ \A c \in Failures(a) : HintOf(c) = Dominant(a) => \E i \in 1..Len(m) : m[i] = c
        /\ \A i, j \in 1..Len(m) : i < j => Severity(m[i]) < Severity(m[j])
    BY MembersList
  <1>2. m # <<>>
    BY DominantIsACluster
  <1>3. Examples(a) = SubSeq(m, 1, n)
    BY DEF Examples
  <1> HIDE DEF m
  <1>4. n \in 1..Len(m)
    <2>1. Len(m) # 0
      BY <1>1, <1>2
    <2>2. QED
      BY <1>1, <2>1, EvalAssumption
  <1> HIDE DEF n
  <1>5. /\ Examples(a) \in Seq(Case) /\ Len(Examples(a)) = n
        /\ \A i \in 1..n : Examples(a)[i] = m[i]
    <2>1. \A i \in 1..n : m[i] \in Case
      BY <1>1, <1>4
    <2>2. n \in Nat /\ n >= 1
      BY <1>1, <1>4
    <2>3. QED
      BY <1>3, <2>1, <2>2, SubSeqProperties
  <1>6. DOMAIN Examples(a) = 1..n /\ 1 \in 1..n /\ n \in Nat
    BY <1>1, <1>4, <1>5
  <1>7. ASSUME NEW c \in HeldOut \cap Failures(a), HintOf(c) = Dominant(a) PROVE Examples(a)[1] \in HeldOut
    <2>1. PICK j \in 1..Len(m) : m[j] = c
      BY <1>1, <1>7
    <2>2. m[1] \in Case /\ Examples(a)[1] = m[1]
      BY <1>1, <1>4, <1>5
    <2>3. CASE j = 1
      BY <1>7, <2>1, <2>2, <2>3
    <2>4. CASE j # 1
      <3>1. Severity(m[1]) < Severity(c)
        BY <1>1, <2>1, <2>4
      <3>2. Severity(c) = c /\ c \in Case
        BY <1>7 DEF Severity, Failures
      <3>3. QED
        BY <2>2, <3>1, <3>2, EvalAssumption DEF Severity, Case
    <2>5. QED
      BY <2>3, <2>4
  <1>8. \A i \in DOMAIN Examples(a) : Examples(a)[i] \in Failures(a) /\ HintOf(Examples(a)[i]) = Dominant(a)
    BY <1>1, <1>4, <1>5, <1>6
  <1>9. Examples(a) # <<>>
    BY <1>5, <1>6
  <1>10. QED
    BY <1>5, <1>6, <1>7, <1>8, <1>9

\* The cut instruction ends with the edit, whose length the cap allows.
LEMMA EditAtTheEnd ==
    ASSUME NEW t \in Text, NEW units \in EditUnits
    PROVE  /\ Trimmed(t \o [i \in 1..units |-> "e"]) \in Text
           /\ IsSuffix([k \in 1..units |-> "e"], Trimmed(t \o [i \in 1..units |-> "e"]))
  <1> DEFINE e == [i \in 1..units |-> "e"]
             w == t \o e
             r == Trimmed(w)
  <1>1. units \in Nat /\ 1 <= units /\ units <= TextCap /\ TextCap \in Nat
    BY EvalAssumption
  <1>2. e \in Text /\ Len(e) = units /\ \A i \in 1..units : e[i] = "e"
    BY <1>1 DEF Text
  <1> HIDE DEF e
  <1>3. /\ w \in Text /\ Len(w) = Len(t) + units /\ Len(t) \in Nat
        /\ \A i \in Len(t) + 1..Len(w) : w[i] = "e"
    <2>1. /\ w \in Text /\ Len(w) = Len(t) + units /\ Len(t) \in Nat
          /\ \A i \in 1..Len(t) + units : w[i] = IF i <= Len(t) THEN t[i] ELSE e[i - Len(t)]
      <3>1. t \in Seq({"h", "s", "e"}) /\ e \in Seq({"h", "s", "e"}) /\ Len(t) \in Nat
        BY <1>2 DEF Text
      <3>2. /\ t \o e \in Seq({"h", "s", "e"}) /\ Len(t \o e) = Len(t) + Len(e)
            /\ \A i \in 1..Len(t) + Len(e) : (t \o e)[i] = IF i <= Len(t) THEN t[i] ELSE e[i - Len(t)]
        BY <3>1, ConcatProperties
      <3>3. QED
        BY <1>2, <3>1, <3>2 DEF Text
    <2>2. ASSUME NEW i \in Len(t) + 1..Len(w) PROVE w[i] = "e"
      <3>1. i \in 1..Len(t) + units /\ ~(i <= Len(t)) /\ i - Len(t) \in 1..units
        BY <1>1, <2>1
      <3>2. QED
        BY <1>2, <2>1, <3>1
    <2>3. QED
      BY <2>1, <2>2
  <1> HIDE DEF w
  <1>4. /\ r \in Text /\ Len(r) \in Nat /\ units <= Len(r)
        /\ \A i \in (Len(r) - units) + 1..Len(r) : r[i] = "e"
    <2>1. CASE Len(w) > TextCap
      <3> DEFINE k == Len(w) - TextCap + 1
      <3>1. r = SubSeq(w, k, Len(w))
        BY <2>1 DEF Trimmed
      <3>2. k \in Nat /\ k >= 1 /\ Len(w) \in Nat /\ k <= Len(w)
        BY <1>1, <1>3, <2>1
      <3>3. \A i \in k..Len(w) : w[i] \in {"h", "s", "e"}
        BY <1>3, <3>2 DEF Text
      <3>4. Len(w) - k + 1 = TextCap
        BY <1>1, <1>3
      <3> HIDE DEF r, k
      <3>5. /\ r \in Text /\ Len(r) = TextCap
            /\ \A i \in 1..TextCap : r[i] = w[k + i - 1]
        BY <3>1, <3>2, <3>3, <3>4, SubSeqProperties DEF Text
      <3>6. ASSUME NEW i \in (TextCap - units) + 1..TextCap PROVE r[i] = "e"
        <4>1. i \in 1..TextCap /\ k + i - 1 \in Len(t) + 1..Len(w)
          BY <1>1, <1>3, <3>6 DEF k
        <4>2. QED
          BY <1>3, <3>5, <4>1
      <3>7. QED
        BY <1>1, <3>5, <3>6
    <2>2. CASE ~(Len(w) > TextCap)
      <3>1. r = w
        BY <2>2 DEF Trimmed
      <3>2. (Len(w) - units) + 1 = Len(t) + 1
        BY <1>1, <1>3
      <3>3. QED
        BY <1>1, <1>3, <3>1, <3>2
    <2>3. QED
      BY <2>1, <2>2
  <1> HIDE DEF r
  <1>5. IsSuffix(e, r)
    <2> DEFINE re == Reverse(e) rr == Reverse(r)
    <2>1. re \in Seq({"e"}) /\ Len(re) = units /\ \A i \in 1..units : re[i] = "e"
      <3>1. \A i \in 1..units : (units - i) + 1 \in 1..units
        BY <1>1
      <3>2. \A i \in 1..units : e[(Len(e) - i) + 1] = "e"
        BY <1>2, <3>1
      <3>3. re = [i \in 1..units |-> e[(Len(e) - i) + 1]]
        BY <1>2 DEF Reverse
      <3>4. QED
        BY <1>1, <3>2, <3>3
    <2>2. Len(rr) = Len(r) /\ \A i \in 1..units : rr[i] = "e"
      <3>1. rr = [i \in 1..Len(r) |-> r[(Len(r) - i) + 1]]
        BY DEF Reverse
      <3>2. \A i \in 1..units : i \in 1..Len(r) /\ (Len(r) - i) + 1 \in (Len(r) - units) + 1..Len(r)
        BY <1>1, <1>4
      <3>3. QED
        BY <1>4, <3>1, <3>2
    <2> HIDE DEF re, rr
    <2>3. /\ SubSeq(re, 1, units) \in Seq({"e"}) /\ Len(SubSeq(re, 1, units)) = units
          /\ SubSeq(rr, 1, units) \in Seq({"e"}) /\ Len(SubSeq(rr, 1, units)) = units
      <3>1. \A i \in 1..units : re[i] \in {"e"} /\ rr[i] \in {"e"}
        BY <2>1, <2>2
      <3>2. QED
        BY <1>1, <3>1, SubSeqProperties
    <2>4. SubSeq(re, 1, units) = SubSeq(rr, 1, units)
      <3>1. \A i \in 1..units : SubSeq(re, 1, units)[i] = "e" /\ SubSeq(rr, 1, units)[i] = "e"
        BY <1>1, <2>3
      <3>2. QED
        BY <2>3, <3>1, SeqEqual
    <2>5. QED
      BY <1>4, <2>1, <2>2, <2>4 DEF IsSuffix, IsPrefix, re, rr
  <1>6. QED
    BY <1>4, <1>5 DEF e, w, r


-----------------------------------------------------------------------------
\* The numbers of answers.
LEMMA AnswerCounts ==
    ASSUME NEW a \in [Case -> Values \cup {"none"}]
    PROVE  /\ NumCases \in Nat /\ NumCases # 0
           /\ IsFiniteSet(Answered(a)) /\ Cardinality(Answered(a)) \in 0..NumCases
           /\ \A x \in Case, y \in Values : a[x] = "none" =>
                 Cardinality(Answered([a EXCEPT ![x] = y])) = Cardinality(Answered(a)) + 1
           /\ (\E x \in Case : a[x] = "none") => Cardinality(Answered(a)) < NumCases
           /\ Cardinality(Answered(Unanswered)) = 0
  <1>1. NumCases \in Nat /\ NumCases # 0 /\ IsFiniteSet(Case) /\ Cardinality(Case) = NumCases
    BY EvalAssumption, FS_Interval DEF Case
  <1>2. Answered(a) \in SUBSET Case
    BY DEF Answered
  <1>3. /\ IsFiniteSet(Answered(a)) /\ Cardinality(Answered(a)) <= NumCases
        /\ Cardinality(Answered(a)) \in Nat
        /\ Cardinality(Answered(a)) = NumCases => Answered(a) = Case
    BY <1>1, <1>2, FS_Subset, FS_CardinalityType
  <1>4. ASSUME NEW c \in Case, NEW v \in Values, a[c] = "none"
        PROVE  Cardinality(Answered([a EXCEPT ![c] = v])) = Cardinality(Answered(a)) + 1
    <2>1. Answered([a EXCEPT ![c] = v]) = Answered(a) \cup {c} /\ c \notin Answered(a)
      BY <1>4 DEF Answered, Values
    <2>2. QED
      BY <1>3, <2>1, FS_AddElement
  <1>5. ASSUME NEW c \in Case, a[c] = "none" PROVE Cardinality(Answered(a)) # NumCases
    BY <1>3, <1>5 DEF Answered
  <1>6. Cardinality(Answered(Unanswered)) = 0
    <2>1. Answered(Unanswered) = {}
      BY DEF Answered, Unanswered
    <2>2. QED
      BY <2>1, FS_EmptySet
  <1>7. QED
    BY <1>1, <1>3, <1>4, <1>5, <1>6

\* The next case of a run under a budget.
LEMMA FirstUnanswered ==
    ASSUME NEW a, \E d \in Case : a[d] = "none"
    PROVE  LET c == CHOOSE d \in Case : a[d] = "none" /\ \A e \in 1..d - 1 : a[e] # "none"
           IN  c \in Case /\ a[c] = "none"
  <1> DEFINE T == {d \in Case : a[d] = "none"}
  <1>1. T \subseteq Nat /\ T # {}
    BY EvalAssumption DEF Case
  <1>2. PICK d \in T : \A e \in T : ~(<<e, d>> \in OpToRel(<, Nat))
    <2> HIDE DEF T
    <2> QED BY <1>1, NatLessThanWellFounded, WFMin
  <1>3. \A e \in 1..d - 1 : a[e] # "none"
    <2>1. SUFFICES ASSUME NEW e \in 1..d - 1, a[e] = "none" PROVE FALSE
      OBVIOUS
    <2>2. e \in T /\ e < d /\ e \in Nat /\ d \in Nat
      BY <1>1, <2>1, EvalAssumption DEF Case
    <2>3. <<e, d>> \in OpToRel(<, Nat)
      BY <2>2 DEF OpToRel
    <2>4. QED
      BY <1>2, <2>2, <2>3
  <1>4. d \in Case /\ a[d] = "none"
    OBVIOUS
  <1>5. QED
    BY <1>3, <1>4


-----------------------------------------------------------------------------
\* The initial state is one of the invariant.
LEMMA EvalInvInit ==
    ASSUME EvalInit
    PROVE  EvalInv
  <1>1. /\ truth \in [Case -> Values]
        /\ captured \in [Case -> Values \cup {"none"}] /\ answers \in [Case -> Values \cup {"none"}]
    BY DEF EvalInit, Values, Unanswered
  <1>2. headText \in Text /\ steering \in Text /\ text \in Text /\ before \in Text
    <2>1. <<>> \in Text /\ <<"h">> \in Text /\ <<"s">> \in Text
      BY DEF Text
    <2>2. QED
      BY <2>1 DEF EvalInit
  <1>3. EvalTypeOK
    <2>1. planned \in 1..2 /\ calls \in Nat /\ spent \in Nat /\ tier \in Tiers
      BY DEF EvalInit
    <2>2. DOMAIN cycles = {} /\ Len(cycles) = 0
      BY DEF EvalInit
    <2>3. stored.state \in {"none", "gate-pass", "no-improvement"} /\ stored.version \in Text /\ stored.dominant \in Hints \cup {"none"}
      BY DEF EvalInit, Text
    <2>4. stage \in {"load", "solve", "propose", "persist", "done", "failed", "reported", "aborted"}
      BY DEF EvalInit
    <2>5. QED
      BY <1>1, <1>2, <2>1, <2>2, <2>3, <2>4 DEF EvalTypeOK
  <1>4. StageInv /\ SpendInv /\ FirstInv /\ StoredInv
    BY EvalAssumption DEF EvalInit, StageInv, SpendInv, FirstInv, StoredInv, Restarted
  <1>5. CallsInv
    <2>1. Cardinality(Answered(answers)) = 0
      BY <1>1, AnswerCounts DEF EvalInit
    <2>2. QED
      BY <2>1 DEF EvalInit, CallsInv, Restarted
  <1>6. cycles \in Seq(Outcome)
    BY DEF EvalInit
  <1>7. QED
    BY <1>3, <1>4, <1>5, <1>6 DEF EvalInv

\* A new round over the cases after `n' calls more, and the first one.
LEMMA StartStep ==
    ASSUME EvalInv, LoadArtifacts \/ ProposerFlakes
    PROVE  EvalInv'
  <1>0. /\ answers \in [Case -> Values \cup {"none"}] /\ Cardinality(Answered(answers)) \in 0..NumCases
        /\ NumCases \in Nat /\ calls \in Nat
        /\ Unanswered \in [Case -> Values \cup {"none"}] /\ Cardinality(Answered(Unanswered)) = 0
    BY AnswerCounts DEF EvalInv, EvalTypeOK, Unanswered
  <1>1. PICK n \in 1..2 : StartCycles(n) /\ ((LoadArtifacts /\ n = 2) \/ (ProposerFlakes /\ n = 1))
    BY DEF LoadArtifacts, ProposerFlakes, FallbackCycles
  <1>2. /\ cycles' = <<>> /\ stage' = "solve" /\ planned' = n /\ answers' = Unanswered /\ before' = steering /\ text' = steering
        /\ UNCHANGED <<tier, truth, captured, headText, steering, spent, stored>>
    BY <1>1 DEF StartCycles, LoadArtifacts, ProposerFlakes
  <1>3. EvalTypeOK'
    <2>1. calls' \in Nat
      BY <1>0, <1>1 DEF LoadArtifacts, ProposerFlakes
    <2>2. DOMAIN cycles' = {} /\ Len(cycles') = 0
      BY <1>2
    <2>3. QED
      BY <1>0, <1>2, <2>1, <2>2 DEF EvalInv, EvalTypeOK
  <1>4. (cycles \in Seq(Outcome))'
    BY <1>2
  <1>5. StageInv' /\ SpendInv' /\ FirstInv' /\ StoredInv'
    <2>1. StageInv'
      BY <1>1, <1>2 DEF EvalInv, StageInv, Restarted, ProposerFlakes
    <2>2. SpendInv'
      BY <1>1, <1>2 DEF EvalInv, SpendInv, LoadArtifacts, ProposerFlakes
    <2>3. FirstInv' /\ StoredInv'
      BY <1>2 DEF FirstInv, StoredInv
    <2>4. QED
      BY <2>1, <2>2, <2>3
  <1>6. CallsInv'
    <2>1. CASE LoadArtifacts /\ n = 2
      <3>1. calls' = 0
        BY <2>1 DEF LoadArtifacts, EvalInv, StageInv
      <3>2. QED
        BY <1>0, <1>2, <2>1, <3>1 DEF CallsInv, Restarted
    <2>2. CASE ProposerFlakes /\ n = 1
      <3>1. stage = "propose" /\ ~Restarted /\ tier \in {"real", "replay"} /\ calls' = calls + 1
        BY <2>2 DEF ProposerFlakes, EvalInv, StageInv
      <3>2. tier = "real" => calls' <= NumCases + 1
        BY <1>0, <3>1 DEF EvalInv, CallsInv
      <3>3. tier = "replay" => calls' <= 1
        BY <1>0, <3>1 DEF EvalInv, CallsInv
      <3>4. QED
        BY <1>0, <1>2, <2>2, <3>1, <3>2, <3>3 DEF CallsInv, Restarted
    <2>3. QED
      BY <1>1, <2>1, <2>2
  <1>7. QED
    BY <1>3, <1>4, <1>5, <1>6 DEF EvalInv

\* The frame of a step that ends no cycle.
LEMMA WithinCycle ==
    ASSUME EvalInv, UNCHANGED <<tier, truth, captured, headText, steering, planned, text, before, cycles, stored>>,
           stage' \in {"solve", "propose", "failed", "reported", "aborted"},
           answers' \in [Case -> Values \cup {"none"}], calls' \in Nat, spent' \in Nat,
           StageInv', CallsInv', SpendInv'
    PROVE  EvalInv'
  <1>1. EvalTypeOK'
    BY DEF EvalInv, EvalTypeOK
  <1>2. FirstInv'
    <2>1. \A a : Clusters(a)' = Clusters(a) /\ Examples(a)' = Examples(a)
      BY DEF Clusters, Examples, Dominant, Members, Buckets, Snapshots, Failures, HintOf
    <2>2. QED
      BY <2>1 DEF EvalInv, FirstInv
  <1>3. StoredInv'
    BY DEF StoredInv
  <1>4. (cycles \in Seq(Outcome))'
    BY DEF EvalInv
  <1>5. QED
    BY <1>1, <1>2, <1>3, <1>4 DEF EvalInv

\* The solvers' steps.
LEMMA PredictStep ==
    ASSUME EvalInv, \E c \in Case, value \in Values : Predict(c, value)
    PROVE  EvalInv'
  <1>1. PICK c \in Case, value \in Values : Predict(c, value)
    OBVIOUS
  <1>2. answers \in [Case -> Values \cup {"none"}] /\ calls \in Nat /\ spent \in Nat
    BY DEF EvalInv, EvalTypeOK
  <1>3. answers' = [answers EXCEPT ![c] = value] /\ answers[c] = "none" /\ stage = "solve" /\ tier = "real" /\ calls' = calls + 1
        /\ UNCHANGED <<tier, truth, captured, headText, steering, stage, planned, text, before, cycles, spent, stored>>
    BY <1>1 DEF Predict
  <1>4. Cardinality(Answered(answers')) = Cardinality(Answered(answers)) + 1 /\ Cardinality(Answered(answers)) \in Nat
        /\ NumCases \in Nat
    <2>1. /\ NumCases \in Nat /\ Cardinality(Answered(answers)) \in 0..NumCases
          /\ \A x \in Case, y \in Values : answers[x] = "none" =>
                Cardinality(Answered([answers EXCEPT ![x] = y])) = Cardinality(Answered(answers)) + 1
      BY <1>2, AnswerCounts
    <2>2. Cardinality(Answered([answers EXCEPT ![c] = value])) = Cardinality(Answered(answers)) + 1
      BY <1>3, <2>1
    <2>3. QED
      BY <1>3, <2>1, <2>2
  <1>5. answers' \in [Case -> Values \cup {"none"}]
    BY <1>2, <1>3
  <1>6. StageInv' /\ SpendInv'
    BY <1>3 DEF EvalInv, StageInv, SpendInv, Restarted
  <1>7. CallsInv'
    BY <1>2, <1>3, <1>4 DEF EvalInv, CallsInv, Restarted
  <1>8. QED
    BY <1>2, <1>3, <1>5, <1>6, <1>7, WithinCycle

\* A call of the solver under the token budget.
LEMMA BudgetStep ==
    ASSUME EvalInv, \E value \in Values, tokens \in CallTokens : PredictNext(value, tokens)
    PROVE  EvalInv'
  <1>1. PICK value \in Values, tokens \in CallTokens : PredictNext(value, tokens)
    OBVIOUS
  <1> DEFINE c == CHOOSE d \in Case : answers[d] = "none" /\ \A e \in 1..d - 1 : answers[e] # "none"
  <1>2. answers \in [Case -> Values \cup {"none"}] /\ calls \in Nat /\ spent \in Nat /\ tokens \in Nat /\ TokenCap \in Nat
    BY EvalAssumption DEF EvalInv, EvalTypeOK
  <1>3. /\ \E d \in Case : answers[d] = "none"
        /\ stage = "solve" /\ tier = "smoketest" /\ calls' = calls + 1 /\ spent' = spent + tokens
        /\ UNCHANGED <<tier, truth, captured, headText, steering, planned, text, before, cycles, stored>>
        /\ \/ spent' > TokenCap /\ stage' = "aborted" /\ answers' = answers
           \/ ~(spent' > TokenCap) /\ stage' = "solve" /\ answers' = [answers EXCEPT ![c] = value]
    BY <1>1 DEF PredictNext, Aborts
  <1>4. c \in Case /\ answers[c] = "none"
    BY <1>3, FirstUnanswered
  <1> HIDE DEF c
  <1>5. /\ Cardinality(Answered([answers EXCEPT ![c] = value])) = Cardinality(Answered(answers)) + 1
        /\ Cardinality(Answered(answers)) < NumCases /\ Cardinality(Answered(answers)) \in Nat /\ NumCases \in Nat
    <2>1. /\ NumCases \in Nat /\ Cardinality(Answered(answers)) \in 0..NumCases
          /\ \A x \in Case, y \in Values : answers[x] = "none" =>
                Cardinality(Answered([answers EXCEPT ![x] = y])) = Cardinality(Answered(answers)) + 1
          /\ (\E x \in Case : answers[x] = "none") => Cardinality(Answered(answers)) < NumCases
      BY <1>2, AnswerCounts
    <2>2. QED
      BY <1>4, <2>1
  <1>6. answers' \in [Case -> Values \cup {"none"}] /\ calls' \in Nat /\ spent' \in Nat
    BY <1>2, <1>3, <1>4
  <1>7. StageInv'
    BY <1>3 DEF EvalInv, StageInv, Restarted
  <1>8. SpendInv'
    <2>1. spent <= TokenCap
      BY <1>3 DEF EvalInv, SpendInv
    <2>2. spent' - tokens = spent
      BY <1>2, <1>3
    <2>3. QED
      BY <1>2, <1>3, <2>1, <2>2 DEF SpendInv
  <1>9. CallsInv'
    <2>1. calls <= Cardinality(Answered(answers))
      BY <1>3 DEF EvalInv, CallsInv
    <2>2. calls' <= NumCases
      BY <1>2, <1>3, <1>5, <2>1
    <2>3. stage' = "solve" => calls' <= Cardinality(Answered(answers'))
      <3>1. stage' = "solve" => answers' = [answers EXCEPT ![c] = value]
        BY <1>3
      <3>2. calls' <= Cardinality(Answered(answers)) + 1
        BY <1>2, <1>3, <1>5, <2>1
      <3>3. QED
        BY <1>5, <3>1, <3>2
    <2>4. stage' \in {"solve", "aborted"} /\ tier' = "smoketest"
      BY <1>3
    <2>5. QED
      BY <2>2, <2>3, <2>4 DEF CallsInv
  <1>10. QED
    BY <1>3, <1>6, <1>7, <1>8, <1>9, WithinCycle

\* A run that fails or expires.
LEMMA FailStep ==
    ASSUME EvalInv, PredictFails \/ ProposerFails \/ Expires
    PROVE  EvalInv'
  <1>1. /\ stage' = "failed" /\ calls' \in {calls, calls + 1}
        /\ UNCHANGED <<tier, truth, captured, headText, steering, planned, text, before, answers, cycles, spent, stored>>
    BY DEF PredictFails, ProposerFails, Expires
  <1>2. /\ answers \in [Case -> Values \cup {"none"}] /\ calls \in Nat /\ spent \in Nat /\ calls' \in Nat
        /\ Cardinality(Answered(answers)) \in 0..NumCases /\ NumCases \in Nat /\ NumCases # 0
    BY <1>1, AnswerCounts DEF EvalInv, EvalTypeOK
  <1>3. StageInv'
    BY <1>1 DEF EvalInv, StageInv, Restarted
  <1>4. SpendInv'
    BY <1>1 DEF EvalInv, SpendInv, PredictFails, ProposerFails, Expires
  <1>5. CallsInv'
    <2>1. CASE PredictFails
      <3>1. stage = "solve" /\ tier \in {"real", "smoketest"} /\ Cardinality(Answered(answers)) < NumCases /\ calls' = calls + 1
        BY <1>2, <2>1, AnswerCounts DEF PredictFails
      <3>2. tier = "real" => calls <= Cardinality(Answered(answers)) + NumCases + 1
        BY <1>2, <3>1 DEF EvalInv, CallsInv
      <3>3. tier = "smoketest" => calls <= Cardinality(Answered(answers))
        BY <3>1 DEF EvalInv, CallsInv
      <3>4. QED
        BY <1>1, <1>2, <3>1, <3>2, <3>3 DEF CallsInv
    <2>2. CASE ProposerFails
      <3>1. stage = "propose" /\ ~Restarted /\ tier \in {"real", "replay"} /\ calls' = calls + 1
        BY <2>2 DEF ProposerFails, EvalInv, StageInv
      <3>2. tier = "real" => calls <= NumCases
        BY <1>2, <3>1 DEF EvalInv, CallsInv
      <3>3. tier = "replay" => calls = 0
        BY <3>1 DEF EvalInv, CallsInv
      <3>4. QED
        BY <1>1, <1>2, <3>1, <3>2, <3>3 DEF CallsInv
    <2>3. CASE Expires
      <3>1. stage \in {"solve", "propose"} /\ tier # "smoketest" /\ calls' = calls
        BY <2>3 DEF Expires
      <3>2. tier = "real" => calls <= 2 * NumCases + 1
        BY <1>2, <3>1 DEF EvalInv, CallsInv
      <3>3. QED
        BY <1>1, <1>2, <3>1, <3>2 DEF EvalInv, CallsInv
    <2>4. QED
      BY <2>1, <2>2, <2>3
  <1>6. QED
    BY <1>1, <1>2, <1>3, <1>4, <1>5, WithinCycle

\* A replay or a mock answers all the cases at once.
LEMMA BatchPredictStep ==
    ASSUME EvalInv, PredictReplay \/ \E right \in SUBSET Case : PredictMock(right)
    PROVE  EvalInv'
  <1>1. /\ stage = "solve" /\ tier \in {"replay", "mock"} /\ stage' \in {"solve", "failed"}
        /\ UNCHANGED <<tier, truth, captured, headText, steering, planned, text, before, cycles, calls, spent, stored>>
    BY DEF PredictReplay, PredictMock
  <1>2. calls \in Nat /\ spent \in Nat
    BY DEF EvalInv, EvalTypeOK
  <1>3. answers' \in [Case -> Values \cup {"none"}]
    BY DEF PredictReplay, PredictMock, EvalInv, EvalTypeOK, Values
  <1>4. StageInv' /\ SpendInv'
    BY <1>1 DEF EvalInv, StageInv, SpendInv, Restarted
  <1>5. CallsInv'
    BY <1>1 DEF EvalInv, CallsInv, Restarted
  <1>6. QED
    BY <1>1, <1>2, <1>3, <1>4, <1>5, WithinCycle

\* A cycle that ends, after at most one call of the proposer.
LEMMA EndCycleStep ==
    ASSUME EvalInv, AllAnswered, stage \in {"solve", "propose"}, NEW units \in Nat, NEW after \in Text,
           EndCycle(units, after), UNCHANGED <<tier, truth, captured, headText, steering, planned, spent, stored>>,
           \/ units = 0 /\ after = before /\ calls' = calls /\ tier # "smoketest"
           \/ /\ units \in EditUnits /\ after = Trimmed(before \o [i \in 1..units |-> "e"])
              /\ stage = "propose" /\ calls' = calls + 1
    PROVE  EvalInv'
  <1> DEFINE k == [before |-> before, after |-> after, edit |-> units, outcomes |-> answers,
                   examples |-> IF units > 0 THEN Examples(answers) ELSE <<>>]
  <1>1. /\ cycles' = Append(cycles, k) /\ text' = after /\ before' = after
        /\ answers' = (IF IsLast THEN answers ELSE Unanswered)
        /\ stage' = (IF IsLast THEN "persist" ELSE "solve")
    BY DEF EndCycle
  <1>2. /\ answers \in [Case -> Values \cup {"none"}] /\ answers \in [Case -> Values]
        /\ Unanswered \in [Case -> Values \cup {"none"}] /\ Cardinality(Answered(Unanswered)) = 0
        /\ Cardinality(Answered(answers)) \in 0..NumCases /\ NumCases \in Nat
        /\ calls \in Nat /\ spent \in Nat /\ planned \in 1..2 /\ cycles \in Seq(Outcome) /\ Len(cycles) \in Nat
    BY AnswerCounts DEF EvalInv, EvalTypeOK, AllAnswered, Unanswered
  <1>3. Len(cycles) < planned /\ (cycles = <<>> => before = steering) /\ (units > 0 => Clusters(answers) # {} /\ cycles = <<>> /\ planned = 2)
    <2>1. Len(cycles) < planned /\ (cycles = <<>> => before = steering)
      BY DEF EvalInv, StageInv
    <2>2. units > 0 => stage = "propose"
      OBVIOUS
    <2>3. stage = "propose" => Clusters(answers) # {} /\ cycles = <<>> /\ planned = 2
      BY <1>2 DEF EvalInv, StageInv, Restarted
    <2>4. QED
      BY <2>1, <2>2, <2>3
  <1>4. k \in Outcome
    <2>1. units > 0 => Examples(answers) \in Seq(Case)
      BY <1>3, ExamplesShow
    <2>2. before \in Text
      BY DEF EvalInv, EvalTypeOK
    <2>3. (IF units > 0 THEN Examples(answers) ELSE <<>>) \in Seq(Case)
      BY <2>1
    <2>4. QED
      BY <1>2, <2>2, <2>3 DEF Outcome
  <1> HIDE DEF k
  <1>5. /\ cycles' \in Seq(Outcome) /\ Len(cycles') = Len(cycles) + 1 /\ cycles' # <<>>
        /\ \A i \in 1..Len(cycles) : cycles'[i] = cycles[i]
        /\ cycles'[Len(cycles) + 1] = k
    BY <1>1, <1>2, <1>4, AppendProperties
  <1>6. EvalTypeOK'
    <2>1. answers' \in [Case -> Values \cup {"none"}] /\ calls' \in Nat /\ stage' \in {"persist", "solve"}
      BY <1>1, <1>2
    <2>2. Len(cycles') <= planned
      BY <1>2, <1>3, <1>5
    <2>3. \A i \in DOMAIN cycles' : cycles'[i] \in Outcome
      BY <1>5
    <2>4. \A i \in DOMAIN cycles' : /\ cycles'[i].before \in Text /\ cycles'[i].after \in Text /\ cycles'[i].edit \in Nat
                                    /\ cycles'[i].outcomes \in [Case -> Values]
                                    /\ cycles'[i].examples \in Seq(Case)
      BY <2>3 DEF Outcome
    <2>5. QED
      BY <1>1, <2>1, <2>2, <2>4 DEF EvalInv, EvalTypeOK
  <1>7. StageInv'
    <2>1. CASE IsLast
      <3>1. stage' = "persist" /\ answers' = answers /\ Len(cycles') = planned
        BY <1>1, <1>2, <1>5, <2>1 DEF IsLast
      <3>2. tier # "smoketest"
        BY DEF EvalInv, StageInv
      <3>3. QED
        BY <3>1, <3>2 DEF StageInv, AllAnswered
    <2>2. CASE ~IsLast
      <3>1. stage' = "solve" /\ Len(cycles') < planned
        BY <1>1, <1>2, <1>3, <1>5, <2>2 DEF IsLast
      <3>2. tier # "smoketest"
        BY DEF EvalInv, StageInv
      <3>3. QED
        BY <1>5, <3>1, <3>2 DEF StageInv
    <2>3. QED
      BY <2>1, <2>2
  <1>8. SpendInv'
    BY <1>1 DEF EvalInv, SpendInv
  <1>9. CallsInv'
    <2>1. tier # "smoketest" /\ stage' \in {"persist", "solve"} /\ Restarted'
      BY <1>1, <1>5 DEF EvalInv, StageInv, Restarted
    <2>2. tier = "mock" => calls' = 0
      BY DEF EvalInv, CallsInv, StageInv
    <2>3. tier = "replay" => calls' <= 1
      <3>1. CASE units = 0 /\ calls' = calls
        BY <3>1 DEF EvalInv, CallsInv
      <3>2. CASE stage = "propose" /\ calls' = calls + 1
        <4>1. tier = "replay" => calls = 0
          BY <3>2 DEF EvalInv, StageInv, CallsInv
        <4> QED BY <3>2, <4>1
      <3>3. QED
        BY <3>1, <3>2
    <2>4. tier = "real" => calls' <= NumCases + 1 \/ (calls' <= 2 * NumCases + 1 /\ IsLast)
      <3>1. CASE stage = "propose" /\ calls' = calls + 1
        <4>1. tier = "real" => calls <= NumCases
          BY <1>2, <3>1 DEF EvalInv, StageInv, CallsInv
        <4> QED BY <1>2, <3>1, <4>1
      <3>2. CASE units = 0 /\ calls' = calls /\ Restarted
        <4>1. tier = "real" => calls <= 2 * NumCases + 1
          BY <1>2, <3>2 DEF EvalInv, CallsInv
        <4>2. IsLast
          <5>1. Len(cycles) + 1 = planned
            <6>1. CASE planned = 1
              BY <1>2, <1>3, <6>1
            <6>2. CASE cycles # <<>>
              BY <1>2, <1>3, <6>2
            <6>3. QED
              BY <3>2, <6>1, <6>2 DEF Restarted
          <5> QED BY <5>1 DEF IsLast
        <4> QED BY <3>2, <4>1, <4>2
      <3>3. CASE units = 0 /\ calls' = calls /\ ~Restarted
        <4>1. tier = "real" => calls <= NumCases
          BY <1>2, <3>3 DEF EvalInv, CallsInv
        <4> QED BY <1>2, <3>3, <4>1
      <3>4. QED
        BY <3>1, <3>2, <3>3
    <2>5. calls' \in Nat
      BY <1>2
    <2>6. tier = "real" => IF stage' = "solve" THEN calls' <= Cardinality(Answered(answers')) + (NumCases + 1) ELSE calls' <= 2 * NumCases + 1
      <3>1. CASE IsLast
        BY <1>1, <1>2, <2>4, <2>5, <3>1
      <3>2. CASE ~IsLast
        <4>1. answers' = Unanswered /\ stage' = "solve"
          BY <1>1, <3>2
        <4>2. Cardinality(Answered(answers')) = 0
          BY <1>2, <4>1
        <4> QED BY <1>2, <2>4, <2>5, <3>2, <4>1, <4>2
      <3>3. QED
        BY <3>1, <3>2
    <2>7. QED
      BY <2>1, <2>2, <2>3, <2>6 DEF CallsInv
  <1>10. FirstInv'
    <2>1. \A a : Clusters(a)' = Clusters(a) /\ Examples(a)' = Examples(a)
      BY DEF Clusters, Examples, Dominant, Members, Buckets, Snapshots, Failures, HintOf
    <2>2. CASE cycles = <<>>
      <3>1. cycles'[1] = k
        BY <1>5, <2>2
      <3>2. before = steering
        BY <1>3, <2>2
      <3>3. /\ k.before = steering /\ k.edit = units /\ k.after = after /\ k.outcomes = answers
            /\ units > 0 => k.examples = Examples(answers)
        BY <3>2 DEF k
      <3>4. units = 0 => after = steering
        BY <3>2, EvalAssumption
      <3>5. units > 0 => units \in EditUnits /\ after = Trimmed(steering \o [i \in 1..units |-> "e"])
        BY <3>2
      <3>7. QED
        BY <1>3, <2>1, <3>1, <3>3, <3>4, <3>5 DEF FirstInv
    <2>3. CASE cycles # <<>>
      <3>1. cycles'[1] = cycles[1]
        BY <1>2, <1>5, <2>3
      <3>2. QED
        BY <2>1, <2>3, <3>1 DEF EvalInv, FirstInv
    <2>4. QED
      BY <2>2, <2>3
  <1>11. StoredInv'
    BY <1>1 DEF StoredInv
  <1>12. QED
    BY <1>5, <1>6, <1>7, <1>8, <1>9, <1>10, <1>11 DEF EvalInv

\* The answers of a cycle are scored.
LEMMA ScoreStep ==
    ASSUME EvalInv, Score
    PROVE  EvalInv'
  <1>1. /\ stage = "solve" /\ AllAnswered
        /\ UNCHANGED <<tier, truth, captured, headText, steering, planned, calls, spent, stored>>
    BY DEF Score
  <1>2. CASE tier = "smoketest"
    <2>1. stage' = "reported" /\ UNCHANGED <<text, before, answers, cycles>>
      BY <1>2 DEF Score
    <2>2. /\ answers' \in [Case -> Values \cup {"none"}] /\ calls' \in Nat /\ spent' \in Nat
          /\ Cardinality(Answered(answers)) <= NumCases /\ Cardinality(Answered(answers)) \in Nat /\ NumCases \in Nat /\ calls \in Nat
      BY <1>1, <2>1, AnswerCounts DEF EvalInv, EvalTypeOK
    <2>3. StageInv' /\ SpendInv'
      BY <1>1, <1>2, <2>1 DEF EvalInv, StageInv, SpendInv, Restarted, AllAnswered
    <2>4. CallsInv'
      <3>1. calls <= Cardinality(Answered(answers))
        BY <1>1, <1>2 DEF EvalInv, CallsInv
      <3>2. QED
        BY <1>1, <1>2, <2>1, <2>2, <3>1 DEF CallsInv
    <2>5. QED
      BY <1>1, <2>1, <2>2, <2>3, <2>4, WithinCycle
  <1>3. CASE tier # "smoketest" /\ (IsLast \/ Clusters(answers) = {} \/ tier = "mock")
    <2>1. EndCycle(0, before) /\ before \in Text
      BY <1>3 DEF Score, EvalInv, EvalTypeOK
    <2>2. QED
      BY <1>1, <1>3, <2>1, EndCycleStep
  <1>4. CASE tier # "smoketest" /\ ~IsLast /\ Clusters(answers) # {} /\ tier # "mock"
    <2>1. stage' = "propose" /\ UNCHANGED <<text, before, answers, cycles>>
      BY <1>4 DEF Score
    <2>2. answers' \in [Case -> Values \cup {"none"}] /\ calls' \in Nat /\ spent' \in Nat
          /\ cycles \in Seq(Outcome) /\ Len(cycles) \in Nat /\ planned \in 1..2 /\ tier \in Tiers
      BY <1>1, <2>1 DEF EvalInv, EvalTypeOK
    <2>3. ~Restarted
      <3>1. Len(cycles) < planned /\ Len(cycles) + 1 # planned
        BY <1>1, <1>4 DEF EvalInv, StageInv, IsLast
      <3>2. Len(cycles) = 0 /\ planned = 2
        BY <2>2, <3>1
      <3>3. QED
        BY <2>2, <3>2 DEF Restarted
    <2>4. Clusters(answers)' = Clusters(answers)
      BY <1>1, <2>1 DEF Clusters, Members, Buckets, Snapshots, Failures, HintOf
    <2>5. StageInv'
      <3>1. tier \in {"real", "replay"}
        BY <1>4, <2>2 DEF Tiers
      <3>2. QED
        BY <1>1, <1>4, <2>1, <2>3, <2>4, <3>1 DEF EvalInv, StageInv, Restarted, AllAnswered
    <2>6. SpendInv' /\ CallsInv'
      BY <1>1, <1>4, <2>1 DEF EvalInv, SpendInv, CallsInv, Restarted
    <2>7. QED
      BY <1>1, <2>1, <2>2, <2>5, <2>6, WithinCycle
  <1>5. QED
    BY <1>2, <1>3, <1>4

\* The proposer edits the prompt.
LEMMA ProposeStep ==
    ASSUME EvalInv, \E units \in EditUnits : Propose(units)
    PROVE  EvalInv'
  <1>1. PICK units \in EditUnits : Propose(units)
    OBVIOUS
  <1> DEFINE after == Trimmed(before \o [i \in 1..units |-> "e"])
  <1>2. /\ stage = "propose" /\ EndCycle(units, after) /\ calls' = calls + 1
        /\ UNCHANGED <<tier, truth, captured, headText, steering, planned, spent, stored>>
    BY <1>1 DEF Propose
  <1>3. after \in Text /\ units \in Nat
    BY EditAtTheEnd, EvalAssumption DEF EvalInv, EvalTypeOK
  <1>4. AllAnswered
    BY <1>2 DEF EvalInv, StageInv
  <1>5. QED
    BY <1>2, <1>3, <1>4, EndCycleStep

\* The last cycle is stored.
LEMMA PersistStep ==
    ASSUME EvalInv, Persist
    PROVE  EvalInv'
  <1> DEFINE new == Kept.after # <<>> /\ Kept.after # headText
  <1>1. /\ stage = "persist" /\ stage' = "done"
        /\ stored' = [state |-> IF new THEN "gate-pass" ELSE "no-improvement",
                      version |-> IF new THEN Kept.after ELSE <<>>,
                      dominant |-> Dominant(Kept.outcomes)]
        /\ UNCHANGED <<tier, truth, captured, headText, steering, planned, text, before, answers, cycles, calls, spent>>
    BY DEF Persist
  <1>2. cycles \in Seq(Outcome) /\ Len(cycles) = planned /\ planned \in 1..2
    BY <1>1 DEF EvalInv, EvalTypeOK, StageInv
  <1>3. Kept = cycles[1] /\ cycles[1] \in Outcome
    BY <1>2 DEF Kept
  <1> HIDE DEF new
  <1>4. EvalTypeOK'
    <2>1. Dominant(Kept.outcomes) \in Hints \cup {"none"}
      BY DominantIsACluster DEF Dominant
    <2>2. <<>> \in Text /\ Kept.after \in Text
      BY <1>3 DEF Outcome, Text
    <2>3. stored'.state \in {"none", "gate-pass", "no-improvement"} /\ stored'.version \in Text /\ stored'.dominant \in Hints \cup {"none"}
      BY <1>1, <2>1, <2>2
    <2>4. QED
      BY <1>1, <2>3 DEF EvalInv, EvalTypeOK
  <1>5. StageInv' /\ CallsInv' /\ SpendInv'
    <2>1. StageInv'
      BY <1>1 DEF EvalInv, StageInv, Restarted, AllAnswered
    <2>2. tier # "smoketest"
      BY <1>1 DEF EvalInv, StageInv
    <2>3. CallsInv' /\ SpendInv'
      BY <1>1, <2>2 DEF EvalInv, CallsInv, SpendInv, Restarted
    <2>4. QED
      BY <2>1, <2>3
  <1>6. \A a : Clusters(a)' = Clusters(a) /\ Examples(a)' = Examples(a) /\ Dominant(a)' = Dominant(a)
    BY <1>1 DEF Clusters, Examples, Dominant, Members, Buckets, Snapshots, Failures, HintOf
  <1>7. FirstInv'
    BY <1>1, <1>6 DEF EvalInv, FirstInv
  <1>8. StoredInv'
    <2>1. stored'.dominant = Dominant(cycles[1].outcomes) /\ (stored'.state = "gate-pass" => stored'.version = cycles[1].after)
      BY <1>1, <1>3
    <2>2. QED
      BY <1>1, <1>6, <2>1 DEF StoredInv
  <1>9. QED
    BY <1>1, <1>4, <1>5, <1>7, <1>8 DEF EvalInv

\* The invariant holds in every reachable state.
LEMMA EvalInvariance == EvalSpec => []EvalInv
  <1>1. EvalInit => EvalInv
    BY EvalInvInit
  <1>2. EvalInv /\ [EvalNext]_evalVars => EvalInv'
    <2> SUFFICES ASSUME EvalInv, [EvalNext]_evalVars PROVE EvalInv'
      OBVIOUS
    <2>1. CASE EvalNext
      BY <2>1, StartStep, PredictStep, BudgetStep, FailStep, BatchPredictStep, ScoreStep, ProposeStep, PersistStep DEF EvalNext
    <2>2. CASE UNCHANGED evalVars
      <3>1. \A a : Clusters(a)' = Clusters(a) /\ Examples(a)' = Examples(a) /\ Dominant(a)' = Dominant(a)
        BY <2>2 DEF Clusters, Examples, Dominant, Members, Buckets, Snapshots, Failures, HintOf, evalVars
      <3>2. EvalTypeOK' /\ StageInv' /\ CallsInv' /\ SpendInv'
        BY <2>2, <3>1 DEF evalVars, EvalInv, EvalTypeOK, StageInv, CallsInv, SpendInv, Restarted, AllAnswered
      <3>3. FirstInv' /\ StoredInv' /\ (cycles \in Seq(Outcome))'
        BY <2>2, <3>1 DEF evalVars, EvalInv, FirstInv, StoredInv
      <3>4. QED
        BY <3>2, <3>3 DEF EvalInv
    <2>3. QED
      BY <2>1, <2>2
  <1>3. QED
    BY <1>1, <1>2, PTL DEF EvalSpec

\* Every reachable state has the declared types.
THEOREM EvalTypeCorrect == EvalSpec => []EvalTypeOK
  BY EvalInvariance, PTL DEF EvalInv

\* A run spends at most the bound that its calls and the token budget give.
THEOREM SpendBounded == EvalSpec => []SpendIsBounded
  <1>1. EvalInv => SpendIsBounded
    <2> SUFFICES ASSUME EvalInv PROVE SpendIsBounded
      OBVIOUS
    <2>1. /\ answers \in [Case -> Values \cup {"none"}] /\ calls \in Nat /\ spent \in Nat /\ TokenCap \in Nat
          /\ Cardinality(Answered(answers)) \in 0..NumCases /\ NumCases \in Nat
      BY AnswerCounts, EvalAssumption DEF EvalInv, EvalTypeOK
    <2>2. tier = "mock" => calls = 0
      BY DEF EvalInv, CallsInv
    <2>3. tier = "replay" => calls <= 1
      BY DEF EvalInv, CallsInv
    <2>4. tier = "real" => calls <= 2 * NumCases + 1
      BY <2>1 DEF EvalInv, CallsInv
    <2>5. tier = "smoketest" => calls <= NumCases
      BY <2>1 DEF EvalInv, CallsInv
    <2>6. spent > TokenCap => stage = "aborted" /\ \E tokens \in CallTokens : spent - tokens <= TokenCap
      BY <2>1 DEF EvalInv, SpendInv
    <2>7. stage = "reported" => spent <= TokenCap
      BY DEF EvalInv, SpendInv
    <2>8. QED
      BY <2>2, <2>3, <2>4, <2>5, <2>6, <2>7 DEF SpendIsBounded
  <1>2. QED
    BY <1>1, EvalInvariance, PTL

\* Answering one more case right never lowers the score of any metric family.
THEOREM FixesCount == EvalSpec => []FixingACaseNeverLowersTheScore
  <1>1. EvalInv => FixingACaseNeverLowersTheScore
    <2> SUFFICES ASSUME EvalInv, stage \in {"propose", "reported", "done"},
                        NEW family \in Families, NEW c \in Case, answers[c] # truth[c]
                 PROVE  AtMost(MetricValue(family, answers), MetricValue(family, [answers EXCEPT ![c] = truth[c]]))
      BY DEF FixingACaseNeverLowersTheScore
    <2>1. truth \in [Case -> Values] /\ answers \in [Case -> Values]
      BY DEF EvalInv, EvalTypeOK, StageInv, AllAnswered
    <2>2. QED
      BY <2>1, FixedScore
  <1>2. QED
    BY <1>1, EvalInvariance, PTL

\* What is stored is the edit that the kept cycle made, shown for cases that
\* cycle got wrong.
THEOREM ProposalsFit == EvalSpec => []ProposalFitsTheRecord
  <1>1. EvalInv => ProposalFitsTheRecord
    <2> SUFFICES ASSUME EvalInv, stage = "done", stored.state = "gate-pass"
                 PROVE  IF Kept.edit = 0 THEN stored.version = steering
                        ELSE /\ IsSuffix([k \in 1..Kept.edit |-> "e"], stored.version)
                             /\ \A i \in DOMAIN Kept.examples :
                                   /\ Kept.outcomes[Kept.examples[i]] # truth[Kept.examples[i]]
                                   /\ HintOf(Kept.examples[i]) = stored.dominant
                             /\ Kept.examples # <<>>
                             /\ \A c \in HeldOut : Kept.outcomes[c] # truth[c] /\ HintOf(c) = stored.dominant =>
                                   \E i \in DOMAIN Kept.examples : Kept.examples[i] \in HeldOut
      BY DEF ProposalFitsTheRecord
    <2>1. cycles \in Seq(Outcome) /\ Len(cycles) = planned /\ planned \in 1..2
      BY DEF EvalInv, EvalTypeOK, StageInv
    <2>2. Kept = cycles[1] /\ cycles[1] \in Outcome /\ cycles # <<>>
      BY <2>1 DEF Kept
    <2>3. Kept.edit \in Nat /\ steering \in Text
      BY <2>2 DEF Outcome, EvalInv, EvalTypeOK
    <2>4. stored.dominant = Dominant(Kept.outcomes) /\ stored.version = Kept.after
      BY <2>2 DEF EvalInv, StoredInv
    <2>5. CASE Kept.edit = 0
      BY <2>2, <2>4, <2>5 DEF EvalInv, FirstInv
    <2>6. CASE Kept.edit # 0
      <3>1. /\ Kept.edit \in EditUnits /\ Clusters(Kept.outcomes) # {} /\ Kept.examples = Examples(Kept.outcomes)
            /\ Kept.after = Trimmed(steering \o [i \in 1..Kept.edit |-> "e"])
        BY <2>2, <2>3, <2>6 DEF EvalInv, FirstInv
      <3>2. IsSuffix([k \in 1..Kept.edit |-> "e"], stored.version)
        BY <2>3, <2>4, <3>1, EditAtTheEnd
      <3>3. /\ Kept.examples # <<>>
            /\ \A i \in DOMAIN Kept.examples :
                  Kept.examples[i] \in Failures(Kept.outcomes) /\ HintOf(Kept.examples[i]) = Dominant(Kept.outcomes)
            /\ \A c \in HeldOut \cap Failures(Kept.outcomes) : HintOf(c) = Dominant(Kept.outcomes) =>
                  \E i \in DOMAIN Kept.examples : Kept.examples[i] \in HeldOut
        BY <3>1, ExamplesShow
      <3>4. HeldOut \subseteq Case
        BY EvalAssumption
      <3>5. QED
        BY <2>4, <2>6, <3>2, <3>3, <3>4 DEF Failures
    <2>7. QED
      BY <2>5, <2>6
  <1>2. QED
    BY <1>1, EvalInvariance, PTL

-----------------------------------------------------------------------------
(*****************************************************************************)
(* The drivers of the improvement loop on one registry.                      *)
(*****************************************************************************)

\* A score as its column keeps it, and a mean before it is stored.
ScoreT == {NoScore} \cup (Nat \X {ScoreUnit})
MeanT  == Nat \X (Nat \ {0})
RunT  == [at : {"start", "agent", "smoke", "gate", "run", "approve", "grow"}, version : Nat,
          priors : SUBSET Task, before : ScoreT, row : Nat]
States == {"gate-passed", "gate-failed", "rejected", "approved-awaiting-deploy", "changes-requested"}
Verdicts == {"pass", "regression", "no improvement", "error"}
RowT  == [workflow : Flow, verdict : Verdicts, score : ScoreT,
          version : Nat, after : ScoreT, state : States, by : Driver \cup {NoDriver, "human"}]
SeriesT == [Driver -> [run : RunT, left : 0..Rounds, cycle : Nat]]

DriverTypes ==
    /\ bodies \in Seq({"baseline", "change"}) /\ headSeq \in 0..Len(bodies)
    /\ iterations \in Seq(RowT)
    /\ flowLock \in [Flow -> Driver \cup {NoDriver}]
    /\ suite \in Seq(Task)
    /\ series \in SeriesT

\* The passes of a workflow among the first n rows, and what its best score is
\* after those: the last pass's.
PassesOf(its, w, n) == {k \in 1..n : its[k].verdict = "pass" /\ its[k].workflow = w}
BestIs(its, w, n, score) ==
    /\ PassesOf(its, w, n) = {} => score = NoScore
    /\ \A k \in PassesOf(its, w, n) : (\A j \in PassesOf(its, w, n) : j <= k) => score = its[k].score

\* A run holds what it has read: the lock since it read the best score, and in
\* the replay the suite as it stands.
RunOk(d, run, size, its, lock, cases) ==
    /\ run.version <= size /\ run.row <= Len(its)
    /\ run.at = "run" => lock = d /\ BestIs(its, FlowOf[d], Len(its), run.before)
    /\ run.at \in {"agent", "smoke", "approve"} => Loops(d)
    /\ run.at = "grow" => ~Loops(d)
    /\ ~Loops(d) /\ run.at # "start" => run.priors = cases
Cases(s) == {s[i] : i \in DOMAIN s}
RunsInv == \A d \in Driver : RunOk(d, series[d].run, Len(bodies), iterations, flowLock[FlowOf[d]], Cases(suite))

\* What is undecided or decided passed; a pass has a score that outdoes those
\* before it in its workflow; and a row's best score is that of the last pass.
RowsOk(its, size) ==
    /\ \A i \in DOMAIN its :
          /\ its[i].version <= size
          /\ its[i].state = "gate-passed" \/ its[i].by # NoDriver => its[i].verdict = "pass"
          /\ its[i].verdict = "pass" => its[i].score[2] # 0
          /\ BestIs(its, its[i].workflow, i, its[i].after)
    /\ \A i, j \in DOMAIN its :
          i < j /\ its[i].verdict = "pass" /\ its[j].verdict = "pass" /\ its[i].workflow = its[j].workflow
            => Outdoes(its[j].score, its[i].score)

\* The head is the version of the last pass that has one, or the first.
Versioned(its) == {i \in DOMAIN its : its[i].verdict = "pass" /\ its[i].version # 0}
HeadIs(vs, head, its) ==
    /\ Versioned(its) = {} => head = IF vs = <<>> THEN 0 ELSE 1
    /\ \A k \in Versioned(its) : (\A j \in Versioned(its) : j <= k) => head = its[k].version

Distinct(s) == \A i, j \in DOMAIN s : s[i] = s[j] => i = j

DriverInv ==
    /\ DriverTypes /\ RunsInv /\ RowsOk(iterations, Len(bodies))
    /\ HeadIs(bodies, headSeq, iterations) /\ Distinct(suite)

-----------------------------------------------------------------------------
\* The greatest of some numbers up to n.
LEMMA GreatestOf ==
    ASSUME NEW n \in Nat, NEW S \in SUBSET (1..n), S # {}
    PROVE  LET g == CHOOSE u \in S : \A w \in S : w <= u
           IN  g \in S /\ \A w \in S : w <= g
  <1> DEFINE T == {n - x : x \in S}
  <1>1. T \subseteq Nat /\ T # {}
    <2>1. \A x \in S : x \in 1..n
      OBVIOUS
    <2>2. \A x \in 1..n : n - x \in Nat
      OBVIOUS
    <2>3. \A x \in S : n - x \in Nat
      BY <2>1, <2>2
    <2>4. QED
      BY <2>3
  <1>2. PICK d \in T : \A e \in T : ~(<<e, d>> \in OpToRel(<, Nat))
    <2> HIDE DEF T
    <2> QED BY <1>1, NatLessThanWellFounded, WFMin
  <1>3. PICK y \in S : d = n - y
    OBVIOUS
  <1>4. \A x \in S : x <= y
    <2>1. SUFFICES ASSUME NEW x \in S, x > y PROVE FALSE
      OBVIOUS
    <2>2. n - x \in T /\ n - x \in Nat /\ d \in Nat /\ n - x < d
      BY <1>3, <2>1
    <2>3. <<n - x, d>> \in OpToRel(<, Nat)
      BY <2>2 DEF OpToRel
    <2>4. QED
      BY <1>2, <2>2, <2>3
  <1>5. QED
    BY <1>4

\* Elements of sequences, for every type and sequence.
LEMMA SeqElements ==
    \A T : \A q \in Seq(T) : DOMAIN q = 1..Len(q) /\ Len(q) \in Nat /\ \A i \in 1..Len(q) : q[i] \in T
  OBVIOUS

\* Rounding does not take a mean below a stored score that it beats.
LEMMA NumericFacts ==
    ASSUME NEW m \in MeanT
    PROVE  /\ Numeric(m) \in ScoreT /\ Numeric(m)[2] # 0
           /\ \A s \in ScoreT : s # NoScore /\ Higher(m, s) => Higher(Numeric(m), s) \/ Numeric(m) = s
  <1> PICK p \in Nat, q \in Nat \ {0} : m = <<p, q>>
    BY DEF MeanT
  <1> PICK U \in Nat \ {0} : U = ScoreUnit
    BY DriverAssumption
  <1> DEFINE A == 2 * U * p + q
             D == 2 * q
             r == A \div D
  <1>0. \A x, y, z \in Nat : x * y \in Nat /\ (x <= y => x * z <= y * z /\ z * x <= z * y)
    OBVIOUS
  <1>1. A \in Nat /\ D \in Nat \ {0} /\ p * U \in Nat
    <2>1. U * p \in Nat /\ U * p = p * U /\ (2 * U) * p = 2 * (U * p)
      BY <1>0
    <2>2. QED
      BY <2>1
  <1>2. r \in Nat /\ A < D * r + D
    <2> HIDE DEF A, D
    <2>1. QED
      BY <1>1
  <1>3. Numeric(m) = <<r, U>>
    BY DEF Numeric
  <1>4. ASSUME NEW b \in Nat, p * U > b * q PROVE b <= r
    <2>1. b * q \in Nat /\ A = 2 * (p * U) + q /\ D * b = 2 * (b * q)
      <3>1. b * q \in Nat
        BY <1>0
      <3>2. (2 * U) * p = 2 * (p * U)
        OBVIOUS
      <3>3. (2 * q) * b = 2 * (b * q)
        OBVIOUS
      <3>4. QED
        BY <3>1, <3>2, <3>3
    <2>2. D * b <= A
      <3> HIDE DEF A, D
      <3>1. QED
        BY <1>1, <1>4, <2>1
    <2> HIDE DEF A, D, r
    <2>3. r < b => D * (r + 1) <= D * b
      BY <1>0, <1>1, <1>2
    <2>4. D * (r + 1) = D * r + D
      BY <1>1, <1>2
    <2>5. D * r \in Nat /\ D * b \in Nat
      BY <1>0, <1>1, <1>2
    <2>6. QED
      BY <1>1, <1>2, <2>2, <2>3, <2>4, <2>5
  <1> HIDE DEF r
  <1>5. ASSUME NEW s \in ScoreT, s # NoScore, Higher(m, s)
        PROVE  Higher(Numeric(m), s) \/ Numeric(m) = s
    <2> PICK b \in Nat : s = <<b, U>>
      BY <1>5 DEF ScoreT
    <2>1. p * U > b * q
      BY <1>5 DEF Higher
    <2>2. b <= r
      BY <1>4, <2>1
    <2>3. CASE b = r
      BY <1>3, <2>3
    <2>4. CASE b # r
      <3>1. (b + 1) * U <= r * U
        BY <1>0, <1>2, <2>2, <2>4
      <3>2. (b + 1) * U = b * U + U /\ b * U \in Nat /\ r * U \in Nat
        BY <1>0, <1>2
      <3>3. r * U > b * U
        BY <3>1, <3>2
      <3>4. QED
        BY <1>3, <3>3 DEF Higher
    <2>5. QED
      BY <2>3, <2>4
  <1>6. QED
    BY <1>2, <1>3, <1>5 DEF ScoreT

\* The parts of a stored score.
LEMMA ScoreParts == \A x \in ScoreT : x[1] \in Nat /\ x[2] \in Nat /\ x = <<x[1], x[2]>>
  BY DriverAssumption DEF ScoreT, NoScore

\* A score beats all that one it beats has beaten.
LEMMA HigherTransitive ==
    ASSUME NEW a \in ScoreT, NEW b \in ScoreT, NEW c \in ScoreT, b[2] # 0, Higher(a, b), Higher(b, c)
    PROVE  Higher(a, c)
  <1> PICK p \in Nat, q \in Nat : a = <<p, q>>
    BY ScoreParts
  <1> PICK r \in Nat, s \in Nat : b = <<r, s>>
    BY ScoreParts
  <1> PICK t \in Nat, u \in Nat : c = <<t, u>>
    BY ScoreParts
  <1>1. p * s > r * q /\ r * u > t * s /\ s > 0
    BY DEF Higher
  <1>0. \A x, y, z \in Nat : x * y \in Nat /\ (x <= y => x * z <= y * z)
    OBVIOUS
  <1>2. u > 0 /\ r > 0
    BY <1>1
  <1>3. (p * s) * u > (r * q) * u
    BY <1>0, <1>1, <1>2
  <1>4. (r * u) * q >= (t * s) * q
    BY <1>0, <1>1
  <1>5. (p * u) * s > (t * q) * s
    BY <1>3, <1>4
  <1>6. p * u > t * q
    BY <1>0, <1>5
  <1>7. QED
    BY <1>6 DEF Higher

\* A score outdoes all that one it outdoes has outdone.
LEMMA OutdoesTransitive ==
    ASSUME NEW a \in ScoreT, NEW b \in ScoreT, NEW c \in ScoreT, b[2] # 0, Outdoes(a, b), Outdoes(b, c)
    PROVE  Outdoes(a, c)
  <1>1. CASE Higher(a, b) /\ Higher(b, c)
    BY <1>1, HigherTransitive DEF Outdoes
  <1>2. CASE a = b \/ b = c
    BY <1>2 DEF Outdoes
  <1>3. QED
    BY <1>1, <1>2 DEF Outdoes

\* The best score looks at verdicts, workflows and scores alone.
LEMMA SameBest ==
    ASSUME NEW its1, NEW its2, NEW m \in Nat,
           \A k \in 1..m : /\ its1[k].verdict = its2[k].verdict /\ its1[k].workflow = its2[k].workflow
                           /\ its1[k].score = its2[k].score
    PROVE  \A w : /\ PassesOf(its1, w, m) = PassesOf(its2, w, m)
                  /\ \A x : BestIs(its1, w, m, x) => BestIs(its2, w, m, x)
  <1> TAKE w
  <1>1. PassesOf(its1, w, m) = PassesOf(its2, w, m)
    BY DEF PassesOf
  <1>2. \A k \in PassesOf(its1, w, m) : its1[k].score = its2[k].score
    BY DEF PassesOf
  <1>3. QED
    BY <1>1, <1>2 DEF BestIs

\* A decision changes no row's verdict, score or version.
LEMMA RowsDecided ==
    ASSUME NEW its1 \in Seq(RowT), NEW its2 \in Seq(RowT), NEW size, RowsOk(its1, size), Len(its1) = Len(its2),
           \A k \in 1..Len(its1) :
               /\ its1[k].verdict = its2[k].verdict /\ its1[k].workflow = its2[k].workflow
               /\ its1[k].score = its2[k].score /\ its1[k].version = its2[k].version /\ its1[k].after = its2[k].after
               /\ its2[k].state = "gate-passed" \/ its2[k].by # NoDriver => its2[k].verdict = "pass"
    PROVE  /\ RowsOk(its2, size)
           /\ \A vs, h : HeadIs(vs, h, its1) => HeadIs(vs, h, its2)
           /\ \A d, r, l, c : RunOk(d, r, size, its1, l, c) => RunOk(d, r, size, its2, l, c)
  <1> DEFINE n == Len(its1)
  <1>1. n \in Nat /\ DOMAIN its1 = 1..n /\ DOMAIN its2 = 1..n
    OBVIOUS
  <1>2. \A i \in 1..n : \A w : \A x : BestIs(its1, w, i, x) => BestIs(its2, w, i, x)
    <2> TAKE i \in 1..n
    <2>1. i \in Nat /\ \A k \in 1..i : k \in 1..n
      BY <1>1
    <2>2. QED
      BY <2>1, SameBest
  <1>3. \A w : \A x : BestIs(its1, w, n, x) => BestIs(its2, w, n, x)
    BY <1>1, SameBest
  <1>4. RowsOk(its2, size)
    BY <1>1, <1>2 DEF RowsOk
  <1>5. Versioned(its1) = Versioned(its2) /\ \A k \in Versioned(its1) : its1[k].version = its2[k].version
    BY <1>1 DEF Versioned
  <1>6. \A vs, h : HeadIs(vs, h, its1) => HeadIs(vs, h, its2)
    BY <1>5 DEF HeadIs
  <1>7. \A d, r, l, c : RunOk(d, r, size, its1, l, c) => RunOk(d, r, size, its2, l, c)
    BY <1>3 DEF RunOk
  <1>8. QED
    BY <1>4, <1>6, <1>7

\* A committed run adds its row: a pass is the best of its workflow, another
\* leaves the best as it was, and no other workflow sees either.
LEMMA RowAppended ==
    ASSUME NEW its \in Seq(RowT), NEW new \in RowT, NEW size \in Nat, RowsOk(its, size), new.version <= size,
           NEW best \in ScoreT, BestIs(its, new.workflow, Len(its), best),
           new.state = "gate-passed" \/ new.by # NoDriver => new.verdict = "pass",
           new.verdict = "pass" => /\ new.score[2] # 0 /\ (best = NoScore \/ Outdoes(new.score, best))
                                   /\ new.after = new.score,
           new.verdict # "pass" => new.after = best
    PROVE  /\ Append(its, new) \in Seq(RowT) /\ Len(Append(its, new)) = Len(its) + 1
           /\ RowsOk(Append(its, new), size)
           /\ \A w : w # new.workflow =>
                 \A x : BestIs(its, w, Len(its), x) => BestIs(Append(its, new), w, Len(its) + 1, x)
  <1> DEFINE n == Len(its)
             its2 == Append(its, new)
             F == new.workflow
  <1>1. n \in Nat /\ DOMAIN its = 1..n /\ its2 \in Seq(RowT) /\ Len(its2) = n + 1 /\ DOMAIN its2 = 1..n + 1
        /\ its2[n + 1] = new /\ (\A k \in 1..n : its2[k] = its[k]) /\ \A k \in 1..n : its[k] \in RowT
    BY SeqElements
  <1> HIDE DEF its2, n
  <1>2. \A i \in 1..n : \A w : PassesOf(its, w, i) = PassesOf(its2, w, i) /\ \A x : BestIs(its, w, i, x) => BestIs(its2, w, i, x)
    <2> TAKE i \in 1..n
    <2>1. i \in Nat /\ \A k \in 1..i : k \in 1..n
      BY <1>1
    <2>2. QED
      BY <1>1, <2>1, SameBest
  <1>3. \A w : PassesOf(its, w, n) = PassesOf(its2, w, n) /\ \A x : BestIs(its, w, n, x) => BestIs(its2, w, n, x)
    BY <1>1, SameBest
  <1>4. \A w : PassesOf(its2, w, n + 1) = PassesOf(its, w, n) \cup (IF new.verdict = "pass" /\ F = w THEN {n + 1} ELSE {})
    BY <1>1 DEF PassesOf
  <1>5. \A w : w # F => \A x : BestIs(its, w, n, x) => BestIs(its2, w, n + 1, x)
    <2> TAKE w
    <2> SUFFICES ASSUME w # F PROVE \A x : BestIs(its, w, n, x) => BestIs(its2, w, n + 1, x)
      OBVIOUS
    <2>1. PassesOf(its2, w, n + 1) = PassesOf(its2, w, n)
      BY <1>3, <1>4
    <2>2. QED
      BY <1>3, <2>1, ZenonT(60) DEF BestIs
  <1>6. BestIs(its2, F, n + 1, new.after)
    <2>1. CASE new.verdict = "pass"
      <3>1. n + 1 \in PassesOf(its2, F, n + 1) /\ \A k \in PassesOf(its2, F, n + 1) : k <= n + 1 /\ k \in Nat
        BY <1>1, <1>4, <2>1 DEF PassesOf
      <3>2. \A k \in PassesOf(its2, F, n + 1) : (\A j \in PassesOf(its2, F, n + 1) : j <= k) => k = n + 1
        BY <1>1, <3>1
      <3>3. QED
        BY <1>1, <2>1, <3>1, <3>2 DEF BestIs
    <2>2. CASE new.verdict # "pass"
      <3>1. PassesOf(its2, F, n + 1) = PassesOf(its2, F, n)
        BY <1>3, <1>4, <2>2
      <3>2. BestIs(its2, F, n, best)
        BY <1>3 DEF n
      <3>3. QED
        BY <2>2, <3>1, <3>2 DEF BestIs
    <2>3. QED
      BY <2>1, <2>2
  <1>7. ASSUME NEW i \in 1..n, its[i].verdict = "pass", its[i].workflow = F, new.verdict = "pass"
        PROVE  Outdoes(new.score, its[i].score)
    <2> DEFINE P == PassesOf(its, F, n)
               k == CHOOSE u \in P : \A v \in P : v <= u
    <2>1. i \in P /\ P \in SUBSET (1..n)
      BY <1>7 DEF PassesOf
    <2>2. k \in P /\ \A j \in P : j <= k
      <3> HIDE DEF P
      <3> QED BY <1>1, <2>1, GreatestOf
    <2> HIDE DEF k
    <2>3. best = its[k].score
      BY <2>2 DEF BestIs, n
    <2>4. k \in 1..n /\ its[k].verdict = "pass" /\ its[k].workflow = F /\ i <= k
      BY <2>1, <2>2 DEF PassesOf
    <2>5. its[k].score[2] # 0 /\ (i < k => Outdoes(its[k].score, its[i].score))
      BY <1>1, <1>7, <2>4 DEF RowsOk
    <2>6. Outdoes(new.score, its[k].score)
      <3>1. best # NoScore
        BY <2>3, <2>5 DEF NoScore
      <3>2. QED
        BY <1>7, <2>3, <3>1
    <2>7. new.score \in ScoreT /\ its[k].score \in ScoreT /\ its[i].score \in ScoreT
      BY <1>1, <1>7, <2>4 DEF RowT
    <2>8. CASE i = k
      BY <2>6, <2>8
    <2>9. CASE i < k
      BY <2>5, <2>6, <2>7, <2>9, OutdoesTransitive
    <2>10. QED
      BY <1>7, <2>4, <2>8, <2>9
  <1>8. RowsOk(its2, size)
    <2>1. ASSUME NEW i \in 1..n + 1
          PROVE  /\ its2[i].version <= size
                 /\ its2[i].state = "gate-passed" \/ its2[i].by # NoDriver => its2[i].verdict = "pass"
                 /\ its2[i].verdict = "pass" => its2[i].score[2] # 0
                 /\ BestIs(its2, its2[i].workflow, i, its2[i].after)
      <3>1. CASE i \in 1..n
        BY <1>1, <1>2, <3>1 DEF RowsOk
      <3>2. CASE i = n + 1
        BY <1>1, <1>6, <3>2
      <3>3. QED
        BY <1>1, <3>1, <3>2
    <2>2. ASSUME NEW i \in 1..n + 1, NEW j \in 1..n + 1, i < j,
                 its2[i].verdict = "pass", its2[j].verdict = "pass", its2[i].workflow = its2[j].workflow
          PROVE  Outdoes(its2[j].score, its2[i].score)
      <3>1. i \in 1..n /\ its2[i] = its[i]
        BY <1>1, <2>2
      <3>2. CASE j \in 1..n
        BY <1>1, <2>2, <3>1, <3>2 DEF RowsOk
      <3>3. CASE j = n + 1
        BY <1>1, <1>7, <2>2, <3>1, <3>3
      <3>4. QED
        BY <1>1, <3>2, <3>3
    <2>3. QED
      BY <1>1, <2>1, <2>2 DEF RowsOk
  <1>9. QED
    BY <1>1, <1>5, <1>8 DEF n, its2

\* The head after a committed run.
LEMMA HeadAfterRow ==
    ASSUME NEW its \in Seq(RowT), NEW new \in RowT, NEW vs, NEW h, HeadIs(vs, h, its)
    PROVE  HeadIs(vs, IF new.verdict = "pass" /\ new.version # 0 THEN new.version ELSE h, Append(its, new))
  <1> DEFINE n == Len(its)
             its2 == Append(its, new)
  <1>1. n \in Nat /\ DOMAIN its = 1..n /\ DOMAIN its2 = 1..n + 1 /\ its2[n + 1] = new /\ \A k \in 1..n : its2[k] = its[k]
    OBVIOUS
  <1> HIDE DEF its2, n
  <1>2. Versioned(its2) = Versioned(its) \cup (IF new.verdict = "pass" /\ new.version # 0 THEN {n + 1} ELSE {})
    BY <1>1 DEF Versioned
  <1>3. Versioned(its) \subseteq 1..n /\ \A k \in Versioned(its) : its2[k] = its[k]
    BY <1>1 DEF Versioned
  <1>4. CASE new.verdict = "pass" /\ new.version # 0
    <2>1. n + 1 \in Versioned(its2) /\ Versioned(its2) \subseteq 1..n + 1
      BY <1>1, <1>2, <1>3, <1>4
    <2>2. \A k \in Versioned(its2) : (\A j \in Versioned(its2) : j <= k) => k = n + 1
      BY <1>1, <2>1
    <2>3. QED
      BY <1>1, <1>4, <2>1, <2>2 DEF HeadIs, its2
  <1>5. CASE ~(new.verdict = "pass" /\ new.version # 0)
    <2>1. Versioned(its2) = Versioned(its)
      BY <1>2, <1>5
    <2>2. QED
      BY <1>3, <1>5, <2>1 DEF HeadIs, its2
  <1>6. QED
    BY <1>4, <1>5

\* The head after a written version.
LEMMA HeadAfterVersion ==
    ASSUME NEW its \in Seq(RowT), NEW T, NEW vs \in Seq(T), NEW body \in T, NEW h, HeadIs(vs, h, its)
    PROVE  HeadIs(Append(vs, body), IF h = 0 THEN Len(vs) + 1 ELSE h, its)
  <1>1. Append(vs, body) # <<>>
    OBVIOUS
  <1>2. h = 0 => Versioned(its) = {}
    <2> SUFFICES ASSUME h = 0, Versioned(its) # {} PROVE FALSE
      OBVIOUS
    <2> DEFINE P == Versioned(its)
               k == CHOOSE u \in P : \A v \in P : v <= u
    <2>1. P \in SUBSET (1..Len(its)) /\ Len(its) \in Nat
      BY DEF Versioned
    <2>2. k \in P /\ \A j \in P : j <= k
      <3> HIDE DEF P
      <3> QED BY <2>1, GreatestOf DEF P
    <2> HIDE DEF k
    <2>3. QED
      BY <2>2 DEF HeadIs, Versioned
  <1>3. h = 0 => vs = <<>> /\ Len(vs) + 1 = 1
    BY <1>2 DEF HeadIs
  <1>4. Versioned(its) = {} => (IF h = 0 THEN Len(vs) + 1 ELSE h) = 1
    BY <1>3 DEF HeadIs
  <1>5. h # 0 \/ Versioned(its) = {}
    BY <1>2
  <1>6. QED
    BY <1>1, <1>4, <1>5 DEF HeadIs

\* A gate that passes has a mean, and stores a score that outdoes the best one.
LEMMA GateFacts ==
    ASSUME NEW d \in Driver, NEW report \in ReportsOf(d), NEW priors, NEW best \in ScoreT
    PROVE  /\ Numeric(Mean(report)) \in ScoreT /\ Numeric(Mean(report))[2] # 0
           /\ GateVerdict(report, priors, best) \in Verdicts
           /\ GateVerdict(report, priors, best) = "pass" => best = NoScore \/ Outdoes(Numeric(Mean(report)), best)
  <1>1. DOMAIN report \subseteq Task
    BY DEF ReportsOf, Reports
  <1>2. IsFiniteSet(Task) /\ IsFiniteSet(DOMAIN report) /\ IsFiniteSet(With(report, {"full"}))
    <2>1. IsFiniteSet(Task)
      BY DriverAssumption, FS_Interval DEF Task
    <2>2. With(report, {"full"}) \subseteq DOMAIN report
      BY DEF With
    <2>3. QED
      BY <1>1, <2>1, <2>2, FS_Subset
  <1>3. Cardinality(DOMAIN report) \in Nat /\ Cardinality(With(report, {"full"})) \in Nat
    BY <1>2, FS_CardinalityType
  <1>4. With(report, {"full"}) # {} => Cardinality(DOMAIN report) # 0
    <2>1. With(report, {"full"}) \subseteq DOMAIN report
      BY DEF With
    <2>2. QED
      BY <1>2, <2>1, FS_EmptySet
  <1>5. Mean(report) \in MeanT
    BY <1>3, <1>4 DEF Mean, MeanT
  <1>6. report \in Reports
    BY DEF ReportsOf, Reports
  <1>7. GateVerdict(report, priors, best) = "pass" => best = NoScore \/ Higher(Mean(report), best)
    BY DEF GateVerdict
  <1>8. ASSUME best # NoScore, Higher(Mean(report), best)
        PROVE  Outdoes(Numeric(Mean(report)), best)
    <2>1. CASE Higher(Numeric(Mean(report)), best)
      BY <2>1 DEF Outdoes
    <2>2. CASE Numeric(Mean(report)) = best
      BY <1>6, <1>8, <2>2 DEF Outdoes, RoundedDown
    <2>3. QED
      BY <1>5, <1>8, <2>1, <2>2, NumericFacts
  <1>9. GateVerdict(report, priors, best) \in Verdicts
    BY DEF GateVerdict, Verdicts
  <1>10. QED
    BY <1>5, <1>7, <1>8, <1>9, NumericFacts

-----------------------------------------------------------------------------
\* The initial state is one of the invariant.
LEMMA DriverInvInit == DriverInit => DriverInv
  <1> SUFFICES ASSUME DriverInit PROVE DriverInv
    OBVIOUS
  <1>0. /\ bodies = <<>> \/ bodies = <<"baseline">>
        /\ headSeq = Len(bodies)
        /\ iterations = <<>>
        /\ flowLock = [w \in Flow |-> NoDriver]
        /\ suite = [n \in 1..SeedCases |-> n]
    BY Zenon DEF DriverInit
  <1>s. PICK launched \in Launches :
           series = [d \in Driver |-> [run |-> NewRun, left |-> IF d \in launched THEN Rounds ELSE 0, cycle |-> 0]]
    BY Zenon DEF DriverInit
  <1>1. bodies \in Seq({"baseline", "change"}) /\ Len(bodies) \in {0, 1} /\ (bodies = <<>> <=> Len(bodies) = 0)
    <2>1. CASE bodies = <<>>
      BY <2>1
    <2>2. CASE bodies = <<"baseline">>
      BY <2>2
    <2>3. QED
      BY <1>0, <2>1, <2>2
  <1>2. NewRun \in RunT
    BY DEF NewRun, RunT, ScoreT
  <1>r. \A d \in Driver : series[d].run = NewRun
    BY <1>s
  <1>3. DriverTypes
    <2>1. suite \in [1..SeedCases -> Task] /\ SeedCases \in Nat
      BY <1>0, DriverAssumption DEF Task
    <2>2. suite \in Seq(Task)
      BY <2>1
    <2>3. series \in SeriesT
      BY <1>2, <1>s, DriverAssumption DEF SeriesT
    <2>4. headSeq \in 0..Len(bodies)
      BY <1>0, <1>1
    <2>5. iterations \in Seq(RowT) /\ flowLock \in [Flow -> Driver \cup {NoDriver}]
      BY <1>0
    <2>6. QED
      BY <1>1, <2>2, <2>3, <2>4, <2>5 DEF DriverTypes
  <1>4. RunsInv
    <2>1. \A d \in Driver : RunOk(d, NewRun, Len(bodies), iterations, flowLock[FlowOf[d]], Cases(suite))
      BY <1>0, <1>1 DEF RunOk, NewRun
    <2>2. QED
      BY <1>r, <2>1 DEF RunsInv
  <1>5. RowsOk(iterations, Len(bodies)) /\ HeadIs(bodies, headSeq, iterations)
    <2>1. DOMAIN iterations = {}
      BY <1>0
    <2>2. Versioned(iterations) = {}
      BY <2>1 DEF Versioned
    <2>3. headSeq = IF bodies = <<>> THEN 0 ELSE 1
      BY <1>0, <1>1
    <2>4. QED
      BY <2>1, <2>2, <2>3 DEF RowsOk, HeadIs
  <1>6. Distinct(suite)
    BY <1>0 DEF Distinct
  <1>7. QED
    BY <1>3, <1>4, <1>5, <1>6 DEF DriverInv

-----------------------------------------------------------------------------
\* A fresh run is in order, whatever happened before it.
LEMMA NewRunOk ==
    /\ NewRun \in RunT
    /\ \A d, its, l, c : \A size \in Nat : Len(its) \in Nat => RunOk(d, NewRun, size, its, l, c)
  BY DEF NewRun, RunT, ScoreT, RunOk

\* A series whose run is over.
LEMMA SeriesAfter ==
    ASSUME NEW d \in Driver, series \in SeriesT
    PROVE  series[d].left > 0 =>
                /\ RunsOver(d) \in SeriesT /\ RunsOver(d)[d].run = NewRun
                /\ \A e \in Driver \ {d} : RunsOver(d)[e] = series[e]
                /\ [RunsOver(d) EXCEPT ![d].cycle = 0] \in SeriesT
                /\ [RunsOver(d) EXCEPT ![d].cycle = 0][d].run = NewRun
                /\ \A e \in Driver \ {d} : [RunsOver(d) EXCEPT ![d].cycle = 0][e] = series[e]
  <1>1. series[d] \in [run : RunT, left : 0..Rounds, cycle : Nat] /\ NewRun \in RunT
    BY NewRunOk DEF SeriesT
  <1>3. ASSUME series[d].left > 0
        PROVE  /\ RunsOver(d) \in SeriesT /\ RunsOver(d)[d].run = NewRun
               /\ \A e \in Driver \ {d} : RunsOver(d)[e] = series[e]
    <2> DEFINE A == [series EXCEPT ![d].run = NewRun]
               B == [A EXCEPT ![d].left = @ - 1]
               C == [B EXCEPT ![d].cycle = @ + 1]
    <2>1. series[d].left - 1 \in 0..Rounds /\ series[d].cycle + 1 \in Nat
      BY <1>1, <1>3, DriverAssumption
    <2>2. A \in SeriesT /\ A[d].run = NewRun /\ A[d].left = series[d].left /\ A[d].cycle = series[d].cycle
          /\ \A e \in Driver \ {d} : A[e] = series[e]
      BY <1>1 DEF SeriesT
    <2> HIDE DEF A
    <2>3. B \in SeriesT /\ B[d].run = NewRun /\ B[d].cycle = series[d].cycle
          /\ \A e \in Driver \ {d} : B[e] = series[e]
      BY <2>1, <2>2 DEF SeriesT
    <2> HIDE DEF B
    <2>4. C \in SeriesT /\ C[d].run = NewRun /\ \A e \in Driver \ {d} : C[e] = series[e]
      BY <2>1, <2>3 DEF SeriesT
    <2> HIDE DEF C
    <2>5. RunsOver(d) = C
      BY DEF RunsOver, A, B, C
    <2>6. QED
      BY <2>4, <2>5
  <1>4. ASSUME series[d].left > 0
        PROVE  /\ [RunsOver(d) EXCEPT ![d].cycle = 0] \in SeriesT
               /\ [RunsOver(d) EXCEPT ![d].cycle = 0][d].run = NewRun
               /\ \A e \in Driver \ {d} : [RunsOver(d) EXCEPT ![d].cycle = 0][e] = series[e]
    <2> DEFINE R == RunsOver(d)
    <2>1. R \in SeriesT /\ R[d].run = NewRun /\ \A e \in Driver \ {d} : R[e] = series[e]
      BY <1>3, <1>4
    <2> HIDE DEF R
    <2>2. [R EXCEPT ![d].cycle = 0] \in SeriesT /\ [R EXCEPT ![d].cycle = 0][d].run = NewRun
          /\ \A e \in Driver \ {d} : [R EXCEPT ![d].cycle = 0][e] = series[e]
      BY <2>1 DEF SeriesT
    <2>3. QED
      BY <2>2 DEF R
  <1>5. QED
    BY <1>3, <1>4

\* A step of one series that writes no version and commits no row.
LEMMA SeriesStep ==
    ASSUME DriverInv, NEW d \in Driver, UNCHANGED <<bodies, headSeq, iterations, suite>>,
           series' \in SeriesT, flowLock' \in [Flow -> Driver \cup {NoDriver}],
           \A e \in Driver \ {d} : /\ series'[e] = series[e]
                                   /\ At(e) = "run" => flowLock'[FlowOf[e]] = flowLock[FlowOf[e]],
           RunOk(d, series'[d].run, Len(bodies), iterations, flowLock'[FlowOf[d]], Cases(suite))
    PROVE  DriverInv'
  <1>1. DriverTypes'
    BY DEF DriverInv, DriverTypes
  <1>2. ASSUME NEW e \in Driver
        PROVE  RunOk(e, series'[e].run, Len(bodies), iterations, flowLock'[FlowOf[e]], Cases(suite))
    <2>1. CASE e = d
      BY <2>1
    <2>2. CASE e # d
      <3>1. RunOk(e, series[e].run, Len(bodies), iterations, flowLock[FlowOf[e]], Cases(suite))
        BY DEF DriverInv, RunsInv
      <3>2. series'[e] = series[e] /\ (series[e].run.at = "run" => flowLock'[FlowOf[e]] = flowLock[FlowOf[e]])
        BY <2>2 DEF At
      <3>3. QED
        BY <3>1, <3>2 DEF RunOk
    <2>3. QED
      BY <2>1, <2>2
  <1>3. RunsInv'
    BY <1>2 DEF RunsInv, Cases
  <1>4. QED
    BY <1>1, <1>3 DEF DriverInv, Distinct

\* Of two scores at most one is higher.
LEMMA HigherAsymmetric == \A x, y \in ScoreT : Higher(x, y) => ~Higher(y, x)
  <1> SUFFICES ASSUME NEW x \in ScoreT, NEW y \in ScoreT, Higher(x, y), Higher(y, x) PROVE FALSE
    OBVIOUS
  <1>1. x[1] \in Nat /\ x[2] \in Nat /\ y[1] \in Nat /\ y[2] \in Nat
    BY ScoreParts
  <1>2. \A u, v \in Nat : u * v \in Nat
    OBVIOUS
  <1>3. x[1] * y[2] \in Nat /\ y[1] * x[2] \in Nat
    BY <1>1, <1>2
  <1>4. QED
    BY <1>3 DEF Higher

\* MAX(best_ever_score_after) is the score of the last pass.
LEMMA BestEverIs ==
    ASSUME DriverInv, NEW w \in Flow
    PROVE  BestEver(w) \in ScoreT /\ BestIs(iterations, w, Len(iterations), BestEver(w))
  <1>1. iterations \in Seq(RowT) /\ RowsOk(iterations, Len(bodies))
    BY DEF DriverInv, DriverTypes
  <1>2. PICK n \in Nat : n = Len(iterations) /\ DOMAIN iterations = 1..n /\ \A i \in 1..n : iterations[i] \in RowT
    BY <1>1, SeqElements
  <1> DEFINE P == PassesOf(iterations, w, n)
  <1>3. \A i \in 1..n : iterations[i].after \in ScoreT /\ iterations[i].score \in ScoreT
    BY <1>2 DEF RowT
  <1>4. ASSUME NEW i \in Scored(w)
        PROVE  i \in 1..n /\ \E m \in P : iterations[i].after = iterations[m].score
    <2>1. i \in 1..n /\ iterations[i].workflow = w /\ iterations[i].after # NoScore
      BY <1>2, <1>4 DEF Scored, RowsOf
    <2>2. BestIs(iterations, w, i, iterations[i].after)
      BY <1>1, <1>2, <2>1 DEF RowsOk
    <2> DEFINE Q == PassesOf(iterations, w, i)
               m == CHOOSE u \in Q : \A v \in Q : v <= u
    <2>3. Q # {} /\ Q \in SUBSET (1..i) /\ i \in Nat
      BY <2>1, <2>2 DEF BestIs, PassesOf
    <2>4. m \in Q /\ \A v \in Q : v <= m
      <3> HIDE DEF Q
      <3> QED BY <2>3, GreatestOf
    <2> HIDE DEF m
    <2>5. iterations[i].after = iterations[m].score
      BY <2>2, <2>4 DEF BestIs
    <2>6. m \in P
      BY <2>1, <2>4 DEF PassesOf
    <2>7. QED
      BY <2>1, <2>5, <2>6
  <1>5. CASE P = {}
    <2>1. Scored(w) = {}
      BY <1>4, <1>5
    <2>2. BestEver(w) = NoScore
      BY <2>1 DEF BestEver
    <2>3. QED
      BY <1>2, <1>5, <2>2 DEF BestIs, ScoreT
  <1>6. CASE P # {}
    <2> DEFINE k == CHOOSE u \in P : \A v \in P : v <= u
    <2>1. k \in P /\ \A v \in P : v <= k
      <3>1. P \in SUBSET (1..n)
        BY DEF PassesOf
      <3> HIDE DEF P
      <3> QED BY <1>6, <3>1, GreatestOf
    <2> HIDE DEF k
    <2>2. k \in 1..n /\ iterations[k].verdict = "pass" /\ iterations[k].workflow = w
      BY <2>1 DEF PassesOf
    <2>3. iterations[k].score[2] # 0 /\ BestIs(iterations, w, k, iterations[k].after)
      BY <1>1, <1>2, <2>2 DEF RowsOk
    <2>4. iterations[k].after = iterations[k].score
      <3>1. k \in PassesOf(iterations, w, k) /\ \A j \in PassesOf(iterations, w, k) : j <= k
        BY <2>2 DEF PassesOf
      <3>2. QED
        BY <2>3, <3>1 DEF BestIs
    <2>5. k \in Scored(w)
      <3>1. iterations[k].score # NoScore
        BY <2>3 DEF NoScore
      <3>2. QED
        BY <1>2, <2>2, <2>4, <3>1 DEF Scored, RowsOf
    <2>6. \A m \in P : m \in 1..n /\ (m = k \/ Outdoes(iterations[k].score, iterations[m].score))
      <3> SUFFICES ASSUME NEW m \in P, m # k PROVE m \in 1..n /\ Outdoes(iterations[k].score, iterations[m].score)
        BY <2>2
      <3>1. m \in 1..n /\ m < k /\ iterations[m].verdict = "pass" /\ iterations[m].workflow = w
        BY <2>1, <2>2 DEF PassesOf
      <3>2. QED
        BY <1>1, <1>2, <2>2, <3>1 DEF RowsOk
    <2>7. \A j \in Scored(w) : ~Higher(iterations[j].after, iterations[k].after)
      <3> TAKE j \in Scored(w)
      <3>1. PICK m \in P : iterations[j].after = iterations[m].score
        BY <1>4
      <3>2. iterations[m].score \in ScoreT /\ iterations[k].score \in ScoreT
        BY <1>3, <2>2, <2>6
      <3>3. QED
        BY <2>4, <2>6, <3>1, <3>2, HigherAsymmetric DEF Outdoes
    <2> DEFINE c == CHOOSE i \in Scored(w) : \A j \in Scored(w) : ~Higher(iterations[j].after, iterations[i].after)
    <2>8. c \in Scored(w) /\ ~Higher(iterations[k].after, iterations[c].after)
      BY <2>5, <2>7
    <2>9. BestEver(w) = iterations[c].after
      BY <2>5 DEF BestEver
    <2> HIDE DEF c
    <2>10. iterations[c].after = iterations[k].score
      <3>1. PICK m \in P : iterations[c].after = iterations[m].score
        BY <1>4, <2>8
      <3>2. QED
        BY <2>4, <2>6, <2>8, <3>1 DEF Outdoes
    <2>11. \A u \in P : (\A v \in P : v <= u) => u = k
      <3> SUFFICES ASSUME NEW u \in P, \A v \in P : v <= u PROVE u = k
        OBVIOUS
      <3>1. u <= k /\ k <= u /\ u \in 1..n
        BY <2>1, <2>6
      <3>2. QED
        BY <2>2, <3>1
    <2>12. iterations[k].score \in ScoreT
      BY <1>3, <2>2
    <2>13. QED
      BY <1>2, <1>6, <2>9, <2>10, <2>11, <2>12 DEF BestIs
  <1>7. QED
    BY <1>5, <1>6

\* A version is written by a series.
LEMMA VersionStep ==
    ASSUME DriverInv, NEW d \in Driver, NEW body \in {"baseline", "change"}, Register(body),
           UNCHANGED <<iterations, flowLock, suite>>,
           series' \in SeriesT, \A e \in Driver \ {d} : series'[e] = series[e],
           RunOk(d, series'[d].run, Len(bodies) + 1, iterations, flowLock[FlowOf[d]], Cases(suite))
    PROVE  DriverInv'
  <1>1. bodies \in Seq({"baseline", "change"}) /\ bodies' = Append(bodies, body) /\ headSeq \in 0..Len(bodies)
        /\ headSeq' = IF headSeq = 0 THEN Len(bodies) + 1 ELSE headSeq
    BY DEF DriverInv, DriverTypes, Register, HeadAfterWrite
  <1>2. bodies' \in Seq({"baseline", "change"}) /\ Len(bodies') = Len(bodies) + 1 /\ Len(bodies) \in Nat
    BY <1>1
  <1>3. iterations \in Seq(RowT) /\ HeadIs(bodies, headSeq, iterations)
    BY DEF DriverInv, DriverTypes
  <1>4. HeadIs(bodies', headSeq', iterations)
    BY <1>1, <1>3, HeadAfterVersion
  <1>5. DriverTypes'
    BY <1>1, <1>2 DEF DriverInv, DriverTypes
  <1>6. RowsOk(iterations, Len(bodies) + 1)
    <2>1. \A i \in DOMAIN iterations : iterations[i].version \in Nat
      <3>1. \A i \in DOMAIN iterations : iterations[i] \in RowT
        BY <1>3, SeqElements
      <3>2. QED
        BY <3>1 DEF RowT
    <2>2. QED
      BY <1>2, <2>1 DEF DriverInv, RowsOk
  <1>7. ASSUME NEW e \in Driver
        PROVE  RunOk(e, series'[e].run, Len(bodies) + 1, iterations, flowLock[FlowOf[e]], Cases(suite))
    <2>1. CASE e = d
      BY <2>1
    <2>2. CASE e # d
      <3>1. RunOk(e, series[e].run, Len(bodies), iterations, flowLock[FlowOf[e]], Cases(suite)) /\ series'[e] = series[e]
        BY <2>2 DEF DriverInv, RunsInv
      <3>2. series[e].run.version \in Nat
        BY DEF DriverInv, DriverTypes, SeriesT, RunT
      <3>3. QED
        BY <1>2, <3>1, <3>2 DEF RunOk
    <2>3. QED
      BY <2>1, <2>2
  <1>8. RunsInv'
    BY <1>2, <1>7 DEF RunsInv, Cases
  <1>9. QED
    BY <1>2, <1>4, <1>5, <1>6, <1>8 DEF DriverInv, Distinct

\* A run of a loop that goes on holds what it held.
LEMMA MoveOk ==
    ASSUME NEW d \in Driver, NEW run \in RunT, NEW label \in {"agent", "smoke", "gate"}, Loops(d),
           NEW size, NEW its, NEW l, NEW c, RunOk(d, run, size, its, l, c)
    PROVE  [run EXCEPT !.at = label] \in RunT /\ RunOk(d, [run EXCEPT !.at = label], size, its, l, c)
  <1> DEFINE moved == [run EXCEPT !.at = label]
  <1>1. moved \in RunT /\ moved.at = label /\ moved.version = run.version /\ moved.row = run.row
    BY DEF RunT
  <1> HIDE DEF moved
  <1>2. RunOk(d, moved, size, its, l, c)
    BY <1>1 DEF RunOk
  <1>3. QED
    BY <1>1, <1>2 DEF moved

\* What is known of a series between its steps.
LEMMA RunFacts ==
    ASSUME DriverInv, NEW d \in Driver
    PROVE  /\ series \in SeriesT /\ series[d].run \in RunT
           /\ RunOk(d, series[d].run, Len(bodies), iterations, flowLock[FlowOf[d]], Cases(suite))
           /\ flowLock \in [Flow -> Driver \cup {NoDriver}] /\ FlowOf[d] \in Flow
           /\ Len(bodies) \in Nat /\ Len(iterations) \in Nat
  <1>1. series \in SeriesT /\ flowLock \in [Flow -> Driver \cup {NoDriver}] /\ RunsInv
        /\ bodies \in Seq({"baseline", "change"}) /\ iterations \in Seq(RowT)
    BY DEF DriverInv, DriverTypes
  <1>2. series[d].run \in RunT
    BY <1>1 DEF SeriesT
  <1>3. Len(bodies) \in Nat /\ Len(iterations) \in Nat
    BY <1>1
  <1>4. RunOk(d, series[d].run, Len(bodies), iterations, flowLock[FlowOf[d]], Cases(suite))
    BY <1>1 DEF RunsInv
  <1>5. QED
    BY <1>1, <1>2, <1>3, <1>4 DEF Flow

\* A series whose run goes on.
LEMMA PutRun ==
    ASSUME DriverInv, NEW d \in Driver, NEW run \in RunT, series' = [series EXCEPT ![d].run = run]
    PROVE  series' \in SeriesT /\ series'[d].run = run /\ \A e \in Driver \ {d} : series'[e] = series[e]
  <1>1. series \in SeriesT /\ series[d] \in [run : RunT, left : 0..Rounds, cycle : Nat]
    BY RunFacts DEF SeriesT
  <1>2. QED
    BY <1>1 DEF SeriesT

\* Seeding and the agent's writes.
LEMMA SeedStep == ASSUME DriverInv, NEW d \in Driver, Seed(d) PROVE DriverInv'
  <1> DEFINE run == [series[d].run EXCEPT !.at = "agent"]
  <1>1. /\ Loops(d) /\ series' = [series EXCEPT ![d].run = run] /\ UNCHANGED <<iterations, flowLock, suite>>
        /\ UNCHANGED <<bodies, headSeq>> \/ Register("baseline")
    BY DEF Seed, MovesTo, Put
  <1>2. run \in RunT /\ RunOk(d, run, Len(bodies), iterations, flowLock[FlowOf[d]], Cases(suite))
    BY <1>1, RunFacts, MoveOk
  <1>3. run.version \in Nat
    BY <1>2 DEF RunT
  <1> HIDE DEF run
  <1>4. series' \in SeriesT /\ series'[d].run = run /\ \A e \in Driver \ {d} : series'[e] = series[e]
    BY <1>1, <1>2, PutRun
  <1>5. RunOk(d, run, Len(bodies) + 1, iterations, flowLock[FlowOf[d]], Cases(suite))
    BY <1>2, <1>3, RunFacts DEF RunOk
  <1>6. CASE UNCHANGED <<bodies, headSeq>>
    BY <1>1, <1>2, <1>4, <1>6, RunFacts, SeriesStep
  <1>7. CASE Register("baseline")
    BY <1>1, <1>4, <1>5, <1>7, VersionStep
  <1>8. QED
    BY <1>1, <1>6, <1>7

\* The agent writes a version.
LEMMA WriteStep == ASSUME DriverInv, NEW d \in Driver, Write(d) PROVE DriverInv'
  <1> DEFINE run == [series[d].run EXCEPT !.version = Len(bodies) + 1]
  <1>1. /\ At(d) = "agent" /\ series' = [series EXCEPT ![d].run = run] /\ UNCHANGED <<iterations, flowLock, suite>>
        /\ Register("change")
    BY DEF Write, Put
  <1>2. run \in RunT /\ run.at = "agent" /\ run.version = Len(bodies) + 1 /\ run.row = series[d].run.row
    BY <1>1, RunFacts DEF At, RunT
  <1>3. Loops(d)
    BY <1>1, RunFacts DEF RunOk, At
  <1> HIDE DEF run
  <1>4. series' \in SeriesT /\ series'[d].run = run /\ \A e \in Driver \ {d} : series'[e] = series[e]
    BY <1>1, <1>2, PutRun
  <1>5. RunOk(d, run, Len(bodies) + 1, iterations, flowLock[FlowOf[d]], Cases(suite))
    BY <1>2, <1>3, RunFacts DEF RunOk
  <1>6. QED
    BY <1>1, <1>4, <1>5, VersionStep

\* A run ends, or is ended by its own failure, with nothing written.
LEMMA OverStep ==
    ASSUME DriverInv, NEW d \in Driver, series[d].left > 0, series' = RunsOver(d),
           UNCHANGED <<bodies, headSeq, iterations, flowLock, suite>>
    PROVE  DriverInv'
  <1>1. series' \in SeriesT /\ series'[d].run = NewRun /\ \A e \in Driver \ {d} : series'[e] = series[e]
    BY RunFacts, SeriesAfter
  <1>2. RunOk(d, NewRun, Len(bodies), iterations, flowLock[FlowOf[d]], Cases(suite))
    BY RunFacts, NewRunOk
  <1>3. QED
    BY <1>1, <1>2, RunFacts, SeriesStep

\* The agent's end and the one task tried before the gate.
LEMMA AgentSteps ==
    ASSUME DriverInv, NEW d \in Driver, AgentEnds(d) \/ AgentFails(d) \/ Smoke(d) \/ LockTimesOut(d) PROVE DriverInv'
  <1>1. ASSUME NEW label \in {"smoke", "gate"}, MovesTo(d, label), At(d) \in {"agent", "smoke"},
               UNCHANGED <<bodies, headSeq, iterations, flowLock, suite>>
        PROVE  DriverInv'
    <2> DEFINE run == [series[d].run EXCEPT !.at = label]
    <2>1. series' = [series EXCEPT ![d].run = run] /\ Loops(d)
      BY <1>1, RunFacts DEF MovesTo, Put, RunOk, At
    <2>2. run \in RunT /\ RunOk(d, run, Len(bodies), iterations, flowLock[FlowOf[d]], Cases(suite))
      BY <2>1, RunFacts, MoveOk
    <2> HIDE DEF run
    <2>3. series' \in SeriesT /\ series'[d].run = run /\ \A e \in Driver \ {d} : series'[e] = series[e]
      BY <2>1, <2>2, PutRun
    <2>4. QED
      BY <1>1, <2>2, <2>3, RunFacts, SeriesStep
  <1>2. CASE AgentEnds(d)
    BY <1>1, <1>2 DEF AgentEnds
  <1>3. CASE AgentFails(d) \/ LockTimesOut(d)
    BY <1>3, OverStep DEF AgentFails, LockTimesOut, EndsBadly, Runs
  <1>4. CASE Smoke(d)
    <2>1. CASE MovesTo(d, "gate")
      BY <1>1, <1>4, <2>1 DEF Smoke
    <2>2. CASE EndsBadly(d)
      BY <1>4, <2>2, OverStep DEF Smoke, EndsBadly, Runs
    <2>3. QED
      BY <1>4, <2>1, <2>2 DEF Smoke
  <1>5. QED
    BY <1>2, <1>3, <1>4

\* The replay reads the suite.
LEMMA ReadStep == ASSUME DriverInv, NEW d \in Driver, ReadPriors(d) PROVE DriverInv'
  <1> DEFINE run == [series[d].run EXCEPT !.at = "gate", !.priors = {suite[i] : i \in DOMAIN suite}]
  <1>1. /\ ~Loops(d) /\ series' = [series EXCEPT ![d].run = run]
        /\ UNCHANGED <<bodies, headSeq, iterations, flowLock, suite>>
    BY DEF ReadPriors, Put
  <1>2. {suite[i] : i \in DOMAIN suite} \in SUBSET Task
    <2>1. \A i \in DOMAIN suite : suite[i] \in Task
      BY SeqElements DEF DriverInv, DriverTypes
    <2>2. QED
      BY <2>1
  <1>3. run \in RunT /\ run.at = "gate" /\ run.version = series[d].run.version /\ run.row = series[d].run.row
        /\ run.priors = Cases(suite)
    BY <1>2, RunFacts DEF RunT, Cases
  <1> HIDE DEF run
  <1>4. series' \in SeriesT /\ series'[d].run = run /\ \A e \in Driver \ {d} : series'[e] = series[e]
    BY <1>1, <1>3, PutRun
  <1>5. RunOk(d, run, Len(bodies), iterations, flowLock[FlowOf[d]], Cases(suite))
    BY <1>1, <1>3, RunFacts DEF RunOk
  <1>6. QED
    BY <1>1, <1>4, <1>5, RunFacts, SeriesStep

\* The gate takes the workflow's lock and reads the best score.
LEMMA LockStep == ASSUME DriverInv, NEW d \in Driver, LockFlow(d) PROVE DriverInv'
  <1> DEFINE F == FlowOf[d]
             run == [series[d].run EXCEPT !.at = "run", !.before = BestEver(F)]
  <1>1. /\ At(d) = "gate" /\ flowLock[F] = NoDriver /\ flowLock' = [flowLock EXCEPT ![F] = d]
        /\ series' = [series EXCEPT ![d].run = run] /\ UNCHANGED <<bodies, headSeq, iterations, suite>>
    BY DEF LockFlow, Put
  <1>2. BestEver(F) \in ScoreT /\ BestIs(iterations, F, Len(iterations), BestEver(F))
    BY RunFacts, BestEverIs
  <1>3. run \in RunT /\ run.at = "run" /\ run.version = series[d].run.version /\ run.row = series[d].run.row
        /\ run.priors = series[d].run.priors /\ run.before = BestEver(F)
    BY <1>2, RunFacts DEF RunT
  <1> HIDE DEF run
  <1>4. series' \in SeriesT /\ series'[d].run = run /\ \A e \in Driver \ {d} : series'[e] = series[e]
    BY <1>1, <1>3, PutRun
  <1>5. flowLock' \in [Flow -> Driver \cup {NoDriver}] /\ flowLock'[F] = d
        /\ \A w \in Flow \ {F} : flowLock'[w] = flowLock[w]
    BY <1>1, RunFacts
  <1>6. RunOk(d, run, Len(bodies), iterations, d, Cases(suite))
    BY <1>1, <1>2, <1>3, RunFacts DEF RunOk, At
  <1>7. ASSUME NEW e \in Driver \ {d}, At(e) = "run" PROVE flowLock'[FlowOf[e]] = flowLock[FlowOf[e]]
    <2>1. flowLock[FlowOf[e]] = e /\ FlowOf[e] \in Flow
      BY <1>7, RunFacts DEF RunOk, At
    <2>2. FlowOf[e] # F
      BY <1>1, <2>1, DriverAssumption
    <2>3. QED
      BY <1>5, <2>1, <2>2
  <1>8. QED
    BY <1>1, <1>4, <1>5, <1>6, <1>7, SeriesStep

\* A run that is killed gives its locks back.
LEMMA KillStep == ASSUME DriverInv, NEW d \in Driver, Kill(d) PROVE DriverInv'
  <1>1. /\ series[d].left > 0 /\ flowLock' = [w \in Flow |-> IF flowLock[w] = d THEN NoDriver ELSE flowLock[w]]
        /\ UNCHANGED <<bodies, headSeq, iterations, suite>>
        /\ series' = IF Loops(d) THEN RunsOver(d) ELSE [RunsOver(d) EXCEPT ![d].cycle = 0]
    BY DEF Kill, Runs
  <1>2. series' \in SeriesT /\ series'[d].run = NewRun /\ \A e \in Driver \ {d} : series'[e] = series[e]
    <2>1. CASE Loops(d)
      BY <1>1, <2>1, RunFacts, SeriesAfter
    <2>2. CASE ~Loops(d)
      BY <1>1, <2>2, RunFacts, SeriesAfter
    <2>3. QED
      BY <2>1, <2>2
  <1>3. flowLock' \in [Flow -> Driver \cup {NoDriver}]
    BY <1>1, RunFacts
  <1>4. ASSUME NEW e \in Driver \ {d}, At(e) = "run" PROVE flowLock'[FlowOf[e]] = flowLock[FlowOf[e]]
    BY <1>1, <1>4, RunFacts DEF RunOk, At
  <1>5. RunOk(d, NewRun, Len(bodies), iterations, flowLock'[FlowOf[d]], Cases(suite))
    BY RunFacts, NewRunOk
  <1>6. QED
    BY <1>1, <1>2, <1>3, <1>4, <1>5, SeriesStep

\* A pass has a score that outdoes the best before it.
PassOk(verdict, score, best) ==
    verdict = "pass" => score[2] # 0 /\ (best = NoScore \/ Outdoes(score, best))

\* A gate run commits.
LEMMA FinishStep ==
    ASSUME DriverInv, NEW d \in Driver, At(d) = "run", series[d].left > 0,
           NEW verdict \in Verdicts, NEW score \in ScoreT,
           Finish(d, verdict, score), UNCHANGED <<bodies, suite>>, PassOk(verdict, score, series[d].run.before)
    PROVE  DriverInv'
  <1> DEFINE F == FlowOf[d]
             r == series[d].run
             new == [workflow |-> F, verdict |-> verdict, score |-> score, version |-> r.version,
                     after |-> IF verdict = "pass" THEN score ELSE r.before,
                     state |-> ProposalAfter(verdict), by |-> NoDriver]
             next == IF Loops(d) THEN "approve" ELSE "grow"
             run == [r EXCEPT !.at = next, !.row = Len(iterations) + 1]
  <1>1. /\ iterations' = Append(iterations, new)
        /\ headSeq' = IF new.verdict = "pass" /\ new.version # 0 THEN new.version ELSE headSeq
        /\ flowLock' = [flowLock EXCEPT ![F] = NoDriver]
        /\ series' = RunsOver(d) \/ series' = [series EXCEPT ![d].run = run]
    BY DEF Finish, HeadAfterRun, Put
  <1>2. /\ r \in RunT /\ RunOk(d, r, Len(bodies), iterations, flowLock[F], Cases(suite)) /\ F \in Flow
        /\ flowLock \in [Flow -> Driver \cup {NoDriver}] /\ Len(bodies) \in Nat /\ Len(iterations) \in Nat
    BY RunFacts
  <1>b. Len(bodies) \in Nat /\ Len(iterations) \in Nat
    BY RunFacts, Zenon
  <1>n. PICK n \in Nat : n = Len(iterations)
    BY <1>b, Zenon
  <1>m. PICK nb \in Nat : nb = Len(bodies)
    BY <1>b, Zenon
  <1>3. r.version \in Nat /\ r.version <= Len(bodies) /\ r.before \in ScoreT /\ flowLock[F] = d
        /\ BestIs(iterations, F, Len(iterations), r.before)
    BY <1>2 DEF RunOk, RunT, At
  <1>4. ProposalAfter(verdict) \in States /\ (ProposalAfter(verdict) = "gate-passed" => verdict = "pass")
    <2>1. CASE verdict = "pass"
      BY <2>1 DEF ProposalAfter, States
    <2>2. CASE verdict = "error"
      BY <2>2 DEF ProposalAfter, States
    <2>3. CASE verdict \notin {"pass", "error"}
      BY <2>3 DEF ProposalAfter, States
    <2>4. QED
      BY <2>1, <2>2, <2>3
  <1>5. new \in RowT
    BY <1>2, <1>3, <1>4 DEF RowT
  <1>6. /\ new.workflow = F /\ new.verdict = verdict /\ new.score = score /\ new.version = r.version /\ new.by = NoDriver
        /\ new.after = (IF verdict = "pass" THEN score ELSE r.before) /\ new.state = ProposalAfter(verdict)
    OBVIOUS
  <1> HIDE DEF new
  <1>7. iterations \in Seq(RowT) /\ RowsOk(iterations, Len(bodies)) /\ HeadIs(bodies, headSeq, iterations)
        /\ headSeq \in 0..Len(bodies)
    BY DEF DriverInv, DriverTypes
  <1>8. /\ iterations' \in Seq(RowT) /\ Len(iterations') = Len(iterations) + 1 /\ RowsOk(iterations', Len(bodies))
        /\ \A w : w # F => \A x : BestIs(iterations, w, Len(iterations), x) => BestIs(iterations', w, Len(iterations'), x)
    <2>1. PICK best \in ScoreT : best = r.before
      BY <1>3
    <2>2. BestIs(iterations, new.workflow, Len(iterations), best) /\ new.version <= Len(bodies)
          /\ (new.state = "gate-passed" \/ new.by # NoDriver => new.verdict = "pass")
      BY <1>3, <1>4, <1>6, <2>1
    <2>3. /\ new.verdict = "pass" => /\ new.score[2] # 0 /\ (best = NoScore \/ Outdoes(new.score, best))
                                     /\ new.after = new.score
          /\ new.verdict # "pass" => new.after = best
      BY <1>6, <2>1 DEF PassOk
    <2>4. /\ Append(iterations, new) \in Seq(RowT) /\ Len(Append(iterations, new)) = Len(iterations) + 1
          /\ RowsOk(Append(iterations, new), Len(bodies))
          /\ \A w : w # new.workflow =>
                \A x : BestIs(iterations, w, Len(iterations), x) => BestIs(Append(iterations, new), w, Len(iterations) + 1, x)
      BY <1>2, <1>5, <1>7, <2>2, <2>3, RowAppended
    <2>5. Append(iterations, new) = iterations' /\ new.workflow = F
      BY <1>1, <1>6, Zenon
    <2>6. Len(iterations') = Len(iterations) + 1
      BY <2>4, <2>5, Zenon
    <2>7. QED
      BY <2>4, <2>5, <2>6, Zenon
  <1>9. HeadIs(bodies, headSeq', iterations')
    BY <1>1, <1>5, <1>7, HeadAfterRow
  <1>10. headSeq' \in 0..Len(bodies)
    <2>1. r.version \in 0..Len(bodies)
      <3>1. r.version \in Nat /\ r.version <= nb
        BY <1>3, <1>m, Zenon
      <3>2. r.version \in 0..nb
        BY <3>1
      <3>3. QED
        BY <3>2, <1>m, Zenon
    <2>2. headSeq' = r.version \/ headSeq' = headSeq
      BY <1>1, <1>6
    <2>3. QED
      BY <1>7, <2>1, <2>2
  <1>11. flowLock' \in [Flow -> Driver \cup {NoDriver}] /\ \A w \in Flow \ {F} : flowLock'[w] = flowLock[w]
    BY <1>1, <1>2
  <1>12. run \in RunT /\ run.at = next /\ run.version = r.version /\ run.row = Len(iterations) + 1 /\ run.priors = r.priors
    <2>0. n + 1 \in Nat
      OBVIOUS
    <2>1. next \in {"approve", "grow"} /\ Len(iterations) + 1 \in Nat
      BY <1>n, <2>0, Zenon
    <2> HIDE DEF next
    <2>2. QED
      BY <1>2, <2>1 DEF RunT
  <1> HIDE DEF run
  <1>13. /\ series' \in SeriesT /\ series'[d].run \in {NewRun, run}
         /\ \A e \in Driver \ {d} : series'[e] = series[e]
    <2>1. CASE series' = RunsOver(d)
      BY <2>1, RunFacts, SeriesAfter
    <2>2. CASE series' = [series EXCEPT ![d].run = run]
      BY <1>12, <2>2, PutRun
    <2>3. QED
      BY <1>1, <2>1, <2>2
  <1>l. Len(iterations') \in Nat
    <2>1. n + 1 \in Nat
      OBVIOUS
    <2>2. QED
      BY <1>n, <1>8, <2>1, Zenon
  <1>14. RunOk(d, series'[d].run, Len(bodies), iterations', flowLock'[F], Cases(suite))
    <2>1. RunOk(d, NewRun, Len(bodies), iterations', flowLock'[F], Cases(suite))
      BY <1>2, <1>l, NewRunOk
    <2>2. ~Loops(d) => r.priors = Cases(suite)
      BY <1>2 DEF RunOk, At
    <2>3. RunOk(d, run, Len(bodies), iterations', flowLock'[F], Cases(suite))
      <3>1. run.row <= Len(iterations')
        <4>1. n + 1 <= n + 1
          OBVIOUS
        <4>2. QED
          BY <1>n, <1>8, <1>12, <4>1, Zenon
      <3>2. next \in {"approve", "grow"} /\ (next = "approve" => Loops(d)) /\ (next = "grow" => ~Loops(d))
        OBVIOUS
      <3> HIDE DEF next
      <3>3. QED
        BY <1>3, <1>12, <2>2, <3>1, <3>2 DEF RunOk
    <2>4. QED
      BY <1>13, <2>1, <2>3
  <1>15. ASSUME NEW e \in Driver \ {d}
         PROVE  RunOk(e, series'[e].run, Len(bodies), iterations', flowLock'[FlowOf[e]], Cases(suite))
    <2>1. series'[e] = series[e] /\ RunOk(e, series[e].run, Len(bodies), iterations, flowLock[FlowOf[e]], Cases(suite))
          /\ series[e].run \in RunT /\ FlowOf[e] \in Flow
      BY <1>13, RunFacts
    <2>2. series[e].run.row <= Len(iterations')
      <3>1. series[e].run.row \in Nat
        BY <2>1 DEF RunT
      <3>2. series[e].run.row <= Len(iterations)
        BY <2>1 DEF RunOk
      <3>3. QED
        <4>1. PICK q \in Nat : q = series[e].run.row
          BY <3>1, Zenon
        <4>2. q <= n => q <= n + 1
          OBVIOUS
        <4>3. QED
          BY <1>n, <1>8, <3>2, <4>1, <4>2, Zenon
    <2>3. series[e].run.at = "run" => FlowOf[e] # F
      BY <1>3, <2>1 DEF RunOk
    <2>4. QED
      BY <1>8, <1>11, <2>1, <2>2, <2>3 DEF RunOk
  <1>16. RunsInv'
    BY <1>14, <1>15 DEF RunsInv, Cases
  <1>17. DriverTypes'
    BY <1>8, <1>10, <1>11, <1>13 DEF DriverInv, DriverTypes
  <1>18. QED
    BY <1>8, <1>9, <1>16, <1>17 DEF DriverInv, Distinct

\* The gate runs.
LEMMA GateStep == ASSUME DriverInv, NEW d \in Driver, RunGate(d) PROVE DriverInv'
  <1>1. At(d) = "run" /\ series[d].left > 0 /\ UNCHANGED <<bodies, suite>>
    BY DEF RunGate, Runs
  <1>2. NoScore \in ScoreT
    BY DEF ScoreT
  <1>3. CASE Finish(d, "error", NoScore)
    BY <1>1, <1>2, <1>3, FinishStep DEF PassOk, Verdicts
  <1>4. ASSUME NEW report \in ReportsOf(d), NEW verdict, verdict = GateVerdict(report, series[d].run.priors, series[d].run.before),
               Finish(d, verdict, IF verdict = "error" THEN NoScore ELSE Numeric(Mean(report)))
        PROVE  DriverInv'
    <2> DEFINE score == IF verdict = "error" THEN NoScore ELSE Numeric(Mean(report))
    <2>0. series[d].run.before \in ScoreT
      BY RunFacts DEF RunT
    <2>1. Numeric(Mean(report)) \in ScoreT /\ Numeric(Mean(report))[2] # 0 /\ verdict \in Verdicts
          /\ (verdict = "pass" => series[d].run.before = NoScore \/ Outdoes(Numeric(Mean(report)), series[d].run.before))
      BY <1>4, <2>0, GateFacts
    <2>2. score \in ScoreT
      BY <1>2, <2>1
    <2>3. PassOk(verdict, score, series[d].run.before)
      BY <2>1 DEF PassOk
    <2>4. Finish(d, verdict, score)
      BY <1>4
    <2> HIDE DEF score
    <2>5. QED
      BY <1>1, <2>1, <2>2, <2>3, <2>4, FinishStep
  <1>5. QED
    BY <1>3, <1>4 DEF RunGate

\* A decision, whoever makes it.
LEMMA DecidedRow ==
    ASSUME DriverInv, NEW i, Undecided(i), NEW who \in Driver \cup {"human"}, NEW state \in States,
           state # "gate-passed", Decided(i, who, state)
    PROVE  /\ iterations' \in Seq(RowT) /\ Len(iterations') = Len(iterations)
           /\ RowsOk(iterations', Len(bodies))
           /\ \A vs, h : HeadIs(vs, h, iterations) => HeadIs(vs, h, iterations')
           /\ \A d, r, l, c : RunOk(d, r, Len(bodies), iterations, l, c) => RunOk(d, r, Len(bodies), iterations', l, c)
  <1>1. iterations \in Seq(RowT) /\ RowsOk(iterations, Len(bodies))
    BY DEF DriverInv, DriverTypes
  <1>2. PICK n \in Nat : n = Len(iterations) /\ DOMAIN iterations = 1..n /\ \A k \in 1..n : iterations[k] \in RowT
    BY <1>1, SeqElements
  <1>3. iterations' = [[iterations EXCEPT ![i].state = state] EXCEPT ![i].by = who]
    BY DEF Decided
  <1> DEFINE mid == [iterations EXCEPT ![i].state = state]
  <1>4. DOMAIN mid = 1..n /\ \A k \in 1..n : mid[k] = IF k = i THEN [iterations[k] EXCEPT !.state = state] ELSE iterations[k]
    BY <1>2
  <1>5. iterations' = [mid EXCEPT ![i].by = who]
    BY <1>3
  <1> HIDE DEF mid
  <1>6. DOMAIN iterations' = 1..n /\ \A k \in 1..n : iterations'[k] = IF k = i THEN [mid[k] EXCEPT !.by = who] ELSE mid[k]
    BY <1>4, <1>5
  <1>7. ASSUME NEW k \in 1..n
        PROVE  /\ iterations'[k] \in RowT
               /\ iterations[k].verdict = iterations'[k].verdict /\ iterations[k].workflow = iterations'[k].workflow
               /\ iterations[k].score = iterations'[k].score /\ iterations[k].version = iterations'[k].version
               /\ iterations[k].after = iterations'[k].after
               /\ iterations'[k].state = "gate-passed" \/ iterations'[k].by # NoDriver => iterations'[k].verdict = "pass"
    <2>1. iterations[k] \in RowT
      BY <1>2
    <2>2. /\ iterations[k].state = "gate-passed" \/ iterations[k].by # NoDriver => iterations[k].verdict = "pass"
      BY <1>1, <1>2 DEF RowsOk
    <2>3. CASE k # i
      BY <1>4, <1>6, <2>1, <2>2, <2>3
    <2>4. CASE k = i
      <3>1. iterations[k].verdict = "pass"
        BY <2>2, <2>4 DEF Undecided
      <3>2. iterations'[k] = [[iterations[k] EXCEPT !.state = state] EXCEPT !.by = who]
        BY <1>4, <1>6, <2>4
      <3>3. QED
        BY <2>1, <3>1, <3>2 DEF RowT
    <2>5. QED
      BY <2>3, <2>4
  <1>8. iterations' \in Seq(RowT) /\ Len(iterations') = n
    <2>1. iterations' \in [1..n -> RowT]
      <3>1. iterations' = [k \in 1..n |-> iterations'[k]]
        <4>1. iterations' = [k \in DOMAIN mid |-> IF k = i THEN [mid[k] EXCEPT !.by = who] ELSE mid[k]]
          BY <1>5, Zenon
        <4>2. QED
          BY <1>4, <4>1
      <3>2. QED
        BY <1>7, <3>1
    <2>2. QED
      BY <2>1
  <1>9. QED
    BY <1>1, <1>2, <1>7, <1>8, RowsDecided

\* A row is decided.
LEMMA DecisionStep ==
    ASSUME DriverInv, NEW i, Undecided(i), NEW who \in Driver \cup {"human"}, NEW state \in States,
           state # "gate-passed", Decided(i, who, state), UNCHANGED <<bodies, headSeq, flowLock, suite>>,
           series' \in SeriesT, \A e \in Driver : series'[e] = series[e] \/ series'[e].run = NewRun
    PROVE  DriverInv'
  <1>1. /\ iterations' \in Seq(RowT) /\ Len(iterations') = Len(iterations)
        /\ RowsOk(iterations', Len(bodies))
        /\ \A vs, h : HeadIs(vs, h, iterations) => HeadIs(vs, h, iterations')
        /\ \A d, r, l, c : RunOk(d, r, Len(bodies), iterations, l, c) => RunOk(d, r, Len(bodies), iterations', l, c)
    BY DecidedRow
  <1>2. DriverTypes'
    BY <1>1 DEF DriverInv, DriverTypes
  <1>3. ASSUME NEW e \in Driver
        PROVE  RunOk(e, series'[e].run, Len(bodies), iterations', flowLock[FlowOf[e]], Cases(suite))
    <2>1. RunOk(e, series[e].run, Len(bodies), iterations', flowLock[FlowOf[e]], Cases(suite))
      BY <1>1, RunFacts
    <2>2. RunOk(e, NewRun, Len(bodies), iterations', flowLock[FlowOf[e]], Cases(suite))
      BY <1>1, RunFacts, NewRunOk
    <2>3. QED
      BY <2>1, <2>2
  <1>4. RunsInv'
    BY <1>3 DEF RunsInv, Cases
  <1>5. QED
    BY <1>1, <1>2, <1>4 DEF DriverInv, Distinct

\* A driver decides its own row.
LEMMA ApproveStep == ASSUME DriverInv, NEW d \in Driver, Approve(d) PROVE DriverInv'
  <1> DEFINE i == series[d].run.row
  <1>1. series[d].left > 0 /\ series' = RunsOver(d) /\ UNCHANGED <<bodies, headSeq, flowLock, suite>>
        /\ (UNCHANGED iterations \/ (Undecided(i) /\ \E state \in Judgements(d) : Decided(i, d, state)))
    BY DEF Approve, Runs, EndsWell, EndsBadly
  <1>2. CASE UNCHANGED iterations
    BY <1>1, <1>2, OverStep
  <1>3. ASSUME Undecided(i), NEW state \in Judgements(d), Decided(i, d, state) PROVE DriverInv'
    <2>1. state \in States /\ state # "gate-passed"
      <3>1. state \in {"approved-awaiting-deploy", "rejected"}
        BY DEF Judgements
      <3>2. QED
        BY <3>1 DEF States
    <2>2. series' \in SeriesT /\ \A e \in Driver : series'[e] = series[e] \/ series'[e].run = NewRun
      BY <1>1, RunFacts, SeriesAfter
    <2> HIDE DEF i
    <2>3. QED
      BY <1>1, <1>3, <2>1, <2>2, DecisionStep
  <1>4. QED
    BY <1>1, <1>2, <1>3

\* Someone decides a row.
LEMMA HumanStep == ASSUME DriverInv, NEW i \in DOMAIN iterations, HumanDecides(i) PROVE DriverInv'
  <1>1. Undecided(i) /\ UNCHANGED <<bodies, headSeq, flowLock, suite, series>>
    BY DEF HumanDecides
  <1>2. PICK state \in {"approved-awaiting-deploy", "rejected", "changes-requested"} : Decided(i, "human", state)
    BY DEF HumanDecides
  <1>3. series' \in SeriesT /\ state \in States /\ state # "gate-passed" /\ "human" \in Driver \cup {"human"}
    BY <1>1 DEF DriverInv, DriverTypes, States
  <1>4. \A e \in Driver : series'[e] = series[e]
    BY <1>1
  <1>5. QED
    BY <1>1, <1>2, <1>3, <1>4, DecisionStep

\* The replay admits a case it has not read, and it is the only one to admit any.
LEMMA GrowStep == ASSUME DriverInv, NEW d \in Driver, Grow(d) PROVE DriverInv'
  <1>1. /\ At(d) = "grow" /\ series[d].left > 0 /\ series' = RunsOver(d) /\ UNCHANGED <<bodies, headSeq, iterations, flowLock>>
        /\ suite' = IF Missing(d) = {} THEN suite
                    ELSE Append(suite, CHOOSE t \in Missing(d) : \A u \in Missing(d) : t <= u)
    BY DEF Grow, Runs, EndsWell
  <1>2. ~Loops(d) /\ series[d].run.priors = Cases(suite)
    BY <1>1, RunFacts DEF RunOk, At
  <1>3. suite \in Seq(Task) /\ Distinct(suite)
    BY DEF DriverInv, DriverTypes
  <1>4. suite' \in Seq(Task) /\ Distinct(suite')
    <2>1. CASE Missing(d) = {}
      BY <1>1, <1>3, <2>1
    <2>2. CASE Missing(d) # {}
      <3> DEFINE M == Missing(d)
                 t == CHOOSE u \in M : \A v \in M : u <= v
      <3>1. M # {} /\ M \subseteq Nat /\ M \subseteq Task
        BY <2>2, DriverAssumption DEF Missing, Task
      <3>2. t \in M
        <4> HIDE DEF M
        <4>1. PICK m \in M : \A v \in M : ~(<<v, m>> \in OpToRel(<, Nat))
          BY <3>1, NatLessThanWellFounded, WFMin
        <4>2. \A v \in M : m <= v
          <5> SUFFICES ASSUME NEW v \in M, v < m PROVE FALSE
            BY <3>1
          <5>1. <<v, m>> \in OpToRel(<, Nat)
            BY <3>1 DEF OpToRel
          <5>2. QED
            BY <4>1, <5>1
        <4>3. QED
          BY <4>2
      <3>3. t \in Task /\ t \notin Cases(suite)
        BY <1>2, <3>1, <3>2 DEF Missing
      <3>4. suite' = Append(suite, t)
        BY <1>1, <2>2
      <3> HIDE DEF t
      <3>5. PICK n \in Nat : n = Len(suite) /\ DOMAIN suite = 1..n
        BY <1>3
      <3>6. suite' \in Seq(Task) /\ DOMAIN suite' = 1..n + 1 /\ suite'[n + 1] = t /\ \A j \in 1..n : suite'[j] = suite[j]
        BY <1>3, <3>3, <3>4, <3>5
      <3>7. \A j \in 1..n : suite[j] # t
        BY <3>3, <3>5 DEF Cases
      <3>8. QED
        BY <1>3, <3>5, <3>6, <3>7 DEF Distinct
    <2>3. QED
      BY <2>1, <2>2
  <1>5. series' \in SeriesT /\ series'[d].run = NewRun /\ \A e \in Driver \ {d} : series'[e] = series[e]
    BY <1>1, RunFacts, SeriesAfter
  <1>6. ASSUME NEW e \in Driver
        PROVE  RunOk(e, series'[e].run, Len(bodies), iterations, flowLock[FlowOf[e]], Cases(suite'))
    <2>1. CASE e = d
      BY <1>5, <2>1, RunFacts, NewRunOk
    <2>2. CASE e # d
      <3>1. Loops(e)
        BY <1>2, <2>2, DriverAssumption DEF Loops
      <3>2. series'[e] = series[e] /\ RunOk(e, series[e].run, Len(bodies), iterations, flowLock[FlowOf[e]], Cases(suite))
        BY <1>5, <2>2, RunFacts
      <3>3. QED
        BY <3>1, <3>2 DEF RunOk
    <2>3. QED
      BY <2>1, <2>2
  <1>7. RunsInv'
    BY <1>1, <1>6 DEF RunsInv, Cases
  <1>8. DriverTypes'
    BY <1>1, <1>4, <1>5 DEF DriverInv, DriverTypes
  <1>9. QED
    BY <1>1, <1>4, <1>7, <1>8 DEF DriverInv, Distinct

\* Every step keeps the invariant.
LEMMA DriverInvStep == DriverInv /\ [DriverNext]_driverVars => DriverInv'
  <1> SUFFICES ASSUME DriverInv, [DriverNext]_driverVars PROVE DriverInv'
    OBVIOUS
  <1>1. CASE DriverNext
    BY <1>1, SeedStep, WriteStep, AgentSteps, ReadStep, LockStep, GateStep, ApproveStep, HumanStep, GrowStep, KillStep
       DEF DriverNext
  <1>2. CASE UNCHANGED driverVars
    BY <1>2 DEF driverVars, DriverInv, DriverTypes, RunsInv, RunOk, Cases, Distinct
  <1>3. QED
    BY <1>1, <1>2

\* DriverInv is an invariant of the drivers.
THEOREM DriverInvariance == DriverSpec => []DriverInv
  BY DriverInvInit, DriverInvStep, PTL DEF DriverSpec

\* The drivers' variables keep their types.
THEOREM DriverTypeCorrect == DriverSpec => []DriverTypeOK
  <1>1. DriverInv => DriverTypeOK
    <2> SUFFICES ASSUME DriverInv PROVE DriverTypeOK
      OBVIOUS
    <2>1. ASSUME NEW d \in Driver PROVE series[d].left \in 0..Rounds /\ series[d].run.row \in 0..Len(iterations)
      <3>1. series[d].left \in 0..Rounds
        BY RunFacts DEF SeriesT
      <3>2. series[d].run.row \in Nat /\ series[d].run.row <= Len(iterations) /\ Len(iterations) \in Nat
        BY RunFacts DEF RunT, RunOk
      <3>3. QED
        BY <3>1, <3>2
    <2>2. QED
      BY <2>1 DEF DriverInv, DriverTypes, DriverTypeOK
  <1>2. QED
    BY <1>1, DriverInvariance, PTL

\* Only passes count: the head is the last pass's version, passes get better
\* but for ties by rounding, no other run moves the best score, and no case is
\* admitted twice.
THEOREM PassesCount == DriverSpec => []OnlyPassesCount
  <1>1. DriverInv => OnlyPassesCount
    <2> SUFFICES ASSUME DriverInv PROVE OnlyPassesCount
      OBVIOUS
    <2>1. iterations \in Seq(RowT) /\ RowsOk(iterations, Len(bodies)) /\ HeadIs(bodies, headSeq, iterations)
      BY DEF DriverInv, DriverTypes
    <2>2. PICK n \in Nat : n = Len(iterations) /\ DOMAIN iterations = 1..n
      BY <2>1
    <2>3. headSeq = Served
      <3> DEFINE P == PassedVersions
                 k == CHOOSE u \in P : \A v \in P : v <= u
      <3>1. P = Versioned(iterations) /\ P \in SUBSET (1..n)
        BY <2>2 DEF PassedVersions, Passes, Versioned
      <3>2. CASE P = {}
        BY <2>1, <3>1, <3>2 DEF HeadIs, Served
      <3>3. CASE P # {}
        <4>1. k \in P /\ \A v \in P : v <= k
          <5> HIDE DEF P
          <5> QED BY <3>1, <3>3, GreatestOf
        <4>2. Served = iterations[k].version
          BY <3>3 DEF Served
        <4> HIDE DEF k
        <4>3. QED
          BY <2>1, <3>1, <4>1, <4>2 DEF HeadIs
      <3>4. QED
        BY <3>2, <3>3
    <2>4. ASSUME NEW i \in DOMAIN iterations
          PROVE  LET earlier == {j \in Passes : j <= i /\ iterations[j].workflow = iterations[i].workflow}
                 IN  /\ earlier = {} => iterations[i].after = NoScore
                     /\ earlier # {} => iterations[i].after = iterations[CHOOSE j \in earlier : \A k \in earlier : k <= j].score
                     /\ iterations[i].by # NoDriver => i \in Passes
      <3> DEFINE E == {j \in Passes : j <= i /\ iterations[j].workflow = iterations[i].workflow}
                 k == CHOOSE u \in E : \A v \in E : v <= u
      <3>1. E = PassesOf(iterations, iterations[i].workflow, i) /\ E \in SUBSET (1..n)
        BY <2>2 DEF PassesOf, Passes
      <3>2. BestIs(iterations, iterations[i].workflow, i, iterations[i].after)
            /\ (iterations[i].by # NoDriver => i \in Passes)
        BY <2>1 DEF RowsOk, Passes
      <3>3. E # {} => k \in E /\ \A v \in E : v <= k
        <4> HIDE DEF E
        <4> QED BY <3>1, GreatestOf
      <3> HIDE DEF k
      <3>4. E # {} => iterations[i].after = iterations[k].score
        BY <3>1, <3>2, <3>3 DEF BestIs
      <3>5. E = {} => iterations[i].after = NoScore
        BY <3>1, <3>2 DEF BestIs
      <3>6. QED
        BY <3>2, <3>4, <3>5 DEF k
    <2>5. \A i, j \in Passes : i < j /\ iterations[i].workflow = iterations[j].workflow
                               => Outdoes(iterations[j].score, iterations[i].score)
      BY <2>1 DEF RowsOk, Passes
    <2>6. QED
      BY <2>3, <2>4, <2>5 DEF OnlyPassesCount, DriverInv, Distinct
  <1>2. QED
    BY <1>1, DriverInvariance, PTL
=============================================================================
