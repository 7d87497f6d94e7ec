--------------------------- MODULE CampaignProofs ---------------------------
(***************************************************************************)
(* The theorems of Metrics, for campaigns of any length and any budgets:   *)
(* what the harness derives from its notes is true of what happened.       *)
(***************************************************************************)
EXTENDS Campaign, FiniteSetTheorems, SequenceTheorems, WellFoundedInduction, TLAPS

-----------------------------------------------------------------------------
(***************************************************************************)
(* Least and greatest elements.  The induction theorems of the library     *)
(* cannot be instantiated here, but finite sets are well-founded by strict *)
(* inclusion, and the initial segments of a set are subsets of it.         *)
(***************************************************************************)
Minimal(A, F) == \A B \in F : B \subseteq A => B = A

LEMMA SmallestSegment ==
  \A S, F :
    IsFiniteSet(S) /\ (\A A \in F : A \subseteq S) /\ (\E A : A \in F)
      => \E A \in F : Minimal(A, F)
<1>. SUFFICES ASSUME NEW S, NEW F, IsFiniteSet(S), \A A \in F : A \subseteq S, \E A : A \in F
              PROVE  \E A \in F : Minimal(A, F)
  OBVIOUS
<1>1. F \subseteq FiniteSubsetsOf(S) /\ F # {}
  BY FS_FiniteSubsetsOfFinite
<1>2. PICK A \in F : \A B \in F : <<B, A>> \notin StrictSubsetOrdering(S)
  BY <1>1, FS_StrictSubsetOrderingWellFounded, WFMin
<1>. QED BY <1>2 DEF StrictSubsetOrdering, Minimal

Upto(S, m) == {k \in S : k <= m}
From(S, m) == {k \in S : m <= k}

LEMMA LeastExists ==
  ASSUME NEW S \in SUBSET Int, IsFiniteSet(S), S # {}
  PROVE  \E m \in S : \A k \in S : m <= k
<1>. DEFINE F == {Upto(S, n) : n \in S}
<1>1. /\ \A n \in S : Upto(S, n) \in F
      /\ \A A \in F : A \subseteq S /\ \E n \in S : A = Upto(S, n)
  BY DEF Upto
<1>2. \E A : A \in F
  BY <1>1
<1>. HIDE DEF F
<1>3. PICK A \in F : Minimal(A, F)
  BY <1>1, <1>2, SmallestSegment
<1>4. PICK m \in S : A = Upto(S, m)
  BY <1>1
<1>5. ASSUME NEW k \in S, k < m PROVE FALSE
  <2>0. k \in Int /\ m \in Int /\ \A x \in S : x \in Int
    OBVIOUS
  <2>1. Upto(S, k) \subseteq Upto(S, m) /\ m \in Upto(S, m) /\ m \notin Upto(S, k)
    <3>1. \A x : x \in Upto(S, k) => x \in Upto(S, m)
      BY <1>5, <2>0 DEF Upto
    <3>2. m \in Upto(S, m) /\ m \notin Upto(S, k)
      BY <1>5, <2>0 DEF Upto
    <3>. QED BY <3>1, <3>2
  <2>2. Upto(S, k) \in F /\ Upto(S, k) \subseteq A
    BY <1>1, <1>4, <2>1
  <2>3. Upto(S, k) = Upto(S, m)
    BY <1>3, <1>4, <2>2, Zenon DEF Minimal
  <2>. QED BY <2>1, <2>3
<1>. QED BY <1>5

LEMMA GreatestExists ==
  ASSUME NEW S \in SUBSET Int, IsFiniteSet(S), S # {}
  PROVE  \E m \in S : \A k \in S : k <= m
<1>. DEFINE F == {From(S, n) : n \in S}
<1>1. /\ \A n \in S : From(S, n) \in F
      /\ \A A \in F : A \subseteq S /\ \E n \in S : A = From(S, n)
  BY DEF From
<1>2. \E A : A \in F
  BY <1>1
<1>. HIDE DEF F
<1>3. PICK A \in F : Minimal(A, F)
  BY <1>1, <1>2, SmallestSegment
<1>4. PICK m \in S : A = From(S, m)
  BY <1>1
<1>5. ASSUME NEW k \in S, m < k PROVE FALSE
  <2>0. k \in Int /\ m \in Int /\ \A x \in S : x \in Int
    OBVIOUS
  <2>1. From(S, k) \subseteq From(S, m) /\ m \in From(S, m) /\ m \notin From(S, k)
    <3>1. \A x : x \in From(S, k) => x \in From(S, m)
      BY <1>5, <2>0 DEF From
    <3>2. m \in From(S, m) /\ m \notin From(S, k)
      BY <1>5, <2>0 DEF From
    <3>. QED BY <3>1, <3>2
  <2>2. From(S, k) \in F /\ From(S, k) \subseteq A
    BY <1>1, <1>4, <2>1
  <2>3. From(S, k) = From(S, m)
    BY <1>3, <1>4, <2>2, Zenon DEF Minimal
  <2>. QED BY <2>1, <2>3
<1>. QED BY <1>5

-----------------------------------------------------------------------------
(***************************************************************************)
(* Ranks.                                                                  *)
(***************************************************************************)
LEMMA RoundBounds ==
  ASSUME NEW num \in Nat, NEW den \in Nat \ {0}
  PROVE  /\ Round(num, den) \in Nat
         /\ 2 * den * Round(num, den) <= 2 * num + den
         /\ 2 * num - den <= 2 * den * Round(num, den)
<1>. DEFINE whole == num \div den
            rest  == num % den
<1>1. whole \in Nat /\ rest \in 0..(den - 1) /\ num = den * whole + rest
  BY SMT
<1>. QED BY <1>1 DEF Round

\* The three percentiles the table has: their ranks are ranks, in order.
LEMMA RankBounds ==
  ASSUME NEW n \in Nat \ {0}
  PROVE  /\ Rank(50, n) \in 1..n /\ Rank(95, n) \in 1..n /\ Rank(99, n) \in 1..n
         /\ Rank(50, n) <= Rank(95, n) /\ Rank(95, n) <= Rank(99, n)
<1>1. \A pct \in {50, 95, 99} :
        Rank(pct, n) = (IF Round(pct * n, 100) < 1 THEN 1 ELSE Round(pct * n, 100))
  BY DEF Rank
<1>2. \A pct \in {50, 95, 99} :
        /\ Round(pct * n, 100) \in Nat
        /\ 200 * Round(pct * n, 100) <= 2 * pct * n + 100
        /\ 2 * pct * n - 100 <= 200 * Round(pct * n, 100)
  <2>1. ASSUME NEW k \in Nat
        PROVE  /\ Round(k, 100) \in Nat
               /\ 200 * Round(k, 100) <= 2 * k + 100
               /\ 2 * k - 100 <= 200 * Round(k, 100)
    BY RoundBounds
  <2>2. 50 * n \in Nat /\ 95 * n \in Nat /\ 99 * n \in Nat
    OBVIOUS
  <2>. QED BY <2>1, <2>2
<1>. DEFINE r50 == Round(50 * n, 100)
            r95 == Round(95 * n, 100)
            r99 == Round(99 * n, 100)
<1>3. /\ r50 \in Nat /\ r95 \in Nat /\ r99 \in Nat
      /\ 200 * r50 <= 100 * n + 100 /\ 100 * n - 100 <= 200 * r50
      /\ 200 * r95 <= 190 * n + 100 /\ 190 * n - 100 <= 200 * r95
      /\ 200 * r99 <= 198 * n + 100 /\ 198 * n - 100 <= 200 * r99
  BY <1>2
<1>4. /\ Rank(50, n) = (IF r50 < 1 THEN 1 ELSE r50)
      /\ Rank(95, n) = (IF r95 < 1 THEN 1 ELSE r95)
      /\ Rank(99, n) = (IF r99 < 1 THEN 1 ELSE r99)
  BY <1>1
<1>. HIDE DEF r50, r95, r99
<1>5. r50 <= n /\ r95 <= n /\ r99 <= n
  BY <1>3
<1>6. r50 <= r95 /\ r95 <= r99
  BY <1>3
<1>. QED BY <1>3, <1>4, <1>5, <1>6

\* The rank is where a share of p has been counted, up to half a call: what is
\* above it is the share of the breaches.
LEMMA RankIsShare ==
  ASSUME NEW n \in Nat \ {0}, NEW b \in Nat
  PROVE  \A pct \in {50, 95, 99} :
           /\ b > n - Rank(pct, n) => 100 * b >= (100 - pct) * n + 50
           /\ b <= n - Rank(pct, n) => 100 * b <= (100 - pct) * n + 50
<1>1. \A pct \in {50, 95, 99} :
        Rank(pct, n) = (IF Round(pct * n, 100) < 1 THEN 1 ELSE Round(pct * n, 100))
  BY DEF Rank
<1>2. ASSUME NEW k \in Nat
      PROVE  /\ Round(k, 100) \in Nat
             /\ 200 * Round(k, 100) <= 2 * k + 100
             /\ 2 * k - 100 <= 200 * Round(k, 100)
  BY RoundBounds
<1>3. /\ b > n - Rank(50, n) => 100 * b >= (100 - 50) * n + 50
      /\ b <= n - Rank(50, n) => 100 * b <= (100 - 50) * n + 50
  <2>. DEFINE r == Round(50 * n, 100)
  <2>1. 50 * n \in Nat
    OBVIOUS
  <2>2. r \in Nat /\ 200 * r <= 2 * (50 * n) + 100 /\ 2 * (50 * n) - 100 <= 200 * r
    BY <1>2, <2>1, Zenon
  <2>3. Rank(50, n) = (IF r < 1 THEN 1 ELSE r)
    BY <1>1, Zenon
  <2>. HIDE DEF r
  <2>. QED BY <2>2, <2>3
<1>4. /\ b > n - Rank(95, n) => 100 * b >= (100 - 95) * n + 50
      /\ b <= n - Rank(95, n) => 100 * b <= (100 - 95) * n + 50
  <2>. DEFINE r == Round(95 * n, 100)
  <2>1. 95 * n \in Nat
    OBVIOUS
  <2>2. r \in Nat /\ 200 * r <= 2 * (95 * n) + 100 /\ 2 * (95 * n) - 100 <= 200 * r
    BY <1>2, <2>1, Zenon
  <2>3. Rank(95, n) = (IF r < 1 THEN 1 ELSE r)
    BY <1>1, Zenon
  <2>. HIDE DEF r
  <2>. QED BY <2>2, <2>3
<1>5. /\ b > n - Rank(99, n) => 100 * b >= (100 - 99) * n + 50
      /\ b <= n - Rank(99, n) => 100 * b <= (100 - 99) * n + 50
  <2>. DEFINE r == Round(99 * n, 100)
  <2>1. 99 * n \in Nat
    OBVIOUS
  <2>2. r \in Nat /\ 200 * r <= 2 * (99 * n) + 100 /\ 2 * (99 * n) - 100 <= 200 * r
    BY <1>2, <2>1, Zenon
  <2>3. Rank(99, n) = (IF r < 1 THEN 1 ELSE r)
    BY <1>1, Zenon
  <2>. HIDE DEF r
  <2>. QED BY <2>2, <2>3
<1>. QED BY <1>3, <1>4, <1>5

-----------------------------------------------------------------------------
(***************************************************************************)
(* Values in order.                                                        *)
(***************************************************************************)
\* values[rank - 1] of the sorted values is there, and has its place.
LEMMA SmallestExists ==
  ASSUME NEW D, IsFiniteSet(D), NEW values \in [D -> Nat], NEW rank \in 1..Cardinality(D)
  PROVE  /\ Smallest(values, rank) \in Nat
         /\ \E i \in D : Smallest(values, rank) = values[i]
         /\ Below(values, Smallest(values, rank)) < rank
         /\ rank <= AtMost(values, Smallest(values, rank))
<1>. DEFINE V == {values[i] : i \in D}
            Cand == {v \in V : rank <= AtMost(values, v)}
<1>0. DOMAIN values = D
  OBVIOUS
<1>1. IsFiniteSet(V) /\ V \in SUBSET Int /\ V # {}
  <2>1. D # {}
    BY FS_EmptySet
  <2>2. values \in Surjection(D, V)
    BY DEF Surjection
  <2>3. IsFiniteSet(V)
    <3>. HIDE DEF V
    <3>. QED BY <2>2, FS_Surjection
  <2>. QED BY <2>1, <2>3
<1>2. \A v \in V : Below(values, v) \in Nat /\ AtMost(values, v) \in Nat
  <2>. SUFFICES ASSUME NEW v \in V
                PROVE  Below(values, v) \in Nat /\ AtMost(values, v) \in Nat
    OBVIOUS
  <2>1. /\ {i \in D : values[i] < v} \in SUBSET D
        /\ {i \in D : values[i] <= v} \in SUBSET D
    OBVIOUS
  <2>2. /\ IsFiniteSet({i \in D : values[i] < v})
        /\ IsFiniteSet({i \in D : values[i] <= v})
    BY <2>1, FS_Subset
  <2>. QED BY <1>0, <2>2, FS_CardinalityType DEF Below, AtMost
<1>3. Cand # {}
  <2>1. PICK top \in V : \A v \in V : v <= top
    BY <1>1, GreatestExists
  <2>2. {i \in D : values[i] <= top} = D
    BY <2>1
  <2>3. AtMost(values, top) = Cardinality(D)
    BY <1>0, <2>2 DEF AtMost
  <2>. QED BY <2>3, <1>2
<1>4. PICK v \in Cand : \A w \in Cand : v <= w
  <2>1. IsFiniteSet(Cand) /\ Cand \in SUBSET Int
    BY <1>1, FS_Subset
  <2>. HIDE DEF Cand
  <2>. QED BY <1>3, <2>1, LeastExists
<1>5. ASSUME rank <= Below(values, v) PROVE FALSE
  <2>. DEFINE Low == {u \in V : u < v}
  <2>1. v \in V /\ v \in Nat
    BY <1>1
  <2>2. Low # {}
    <3>1. SUFFICES ASSUME Low = {} PROVE FALSE
      OBVIOUS
    <3>2. {i \in D : values[i] < v} = {}
      BY <3>1
    <3>3. Below(values, v) = 0
      BY <1>0, <3>2, FS_EmptySet DEF Below
    <3>. QED BY <1>5, <3>3
  <2>3. IsFiniteSet(Low) /\ Low \in SUBSET Int
    BY <1>1, FS_Subset
  <2>4. PICK w \in Low : \A u \in Low : u <= w
    <3>. HIDE DEF Low
    <3>. QED BY <2>2, <2>3, GreatestExists
  <2>5. {i \in D : values[i] < v} = {i \in D : values[i] <= w}
    BY <2>1, <2>4
  <2>6. AtMost(values, w) = Below(values, v)
    BY <1>0, <2>5 DEF AtMost, Below
  <2>7. w \in Cand /\ w < v
    BY <1>5, <2>4, <2>6
  <2>. QED BY <1>4, <2>1, <2>4, <2>7
<1>6. \E u \in V : Below(values, u) < rank /\ rank <= AtMost(values, u)
  BY <1>2, <1>4, <1>5
<1>7. /\ Smallest(values, rank) \in V
      /\ Below(values, Smallest(values, rank)) < rank
      /\ rank <= AtMost(values, Smallest(values, rank))
  BY <1>0, <1>6, Zenon DEF Smallest
<1>. QED BY <1>7

\* The higher the rank, the higher the value.
LEMMA SmallestMonotone ==
  ASSUME NEW D, IsFiniteSet(D), NEW values \in [D -> Nat],
         NEW low \in 1..Cardinality(D), NEW high \in 1..Cardinality(D), low <= high
  PROVE  Smallest(values, low) <= Smallest(values, high)
<1>. DEFINE v == Smallest(values, low)
            w == Smallest(values, high)
<1>0. Cardinality(D) \in Nat /\ DOMAIN values = D
  BY FS_CardinalityType
<1>1. v \in Nat /\ Below(values, v) < low
  BY SmallestExists
<1>2. w \in Nat /\ high <= AtMost(values, w)
  BY SmallestExists
<1>. HIDE DEF v, w
<1>3. ASSUME w < v PROVE FALSE
  <2>1. {i \in D : values[i] <= w} \in SUBSET {i \in D : values[i] < v}
    BY <1>1, <1>2, <1>3
  <2>2. IsFiniteSet({i \in D : values[i] < v})
    BY FS_Subset
  <2>3. AtMost(values, w) <= Below(values, v)
    BY <1>0, <2>1, <2>2, FS_Subset DEF AtMost, Below
  <2>4. AtMost(values, w) \in Nat /\ Below(values, v) \in Nat
    BY <1>0, <2>1, <2>2, FS_Subset, FS_CardinalityType DEF AtMost, Below
  <2>. QED BY <1>0, <1>1, <1>2, <2>3, <2>4
<1>4. v <= w
  BY <1>1, <1>2, <1>3
<1>. QED BY <1>4 DEF v, w

\* The value at a rank is over a limit iff fewer values than the rank are not.
LEMMA SmallestOver ==
  ASSUME NEW D, IsFiniteSet(D), NEW values \in [D -> Nat],
         NEW rank \in 1..Cardinality(D), NEW limit \in Nat
  PROVE  IF Smallest(values, rank) > limit
         THEN Cardinality({i \in D : values[i] > limit}) > Cardinality(D) - rank
         ELSE Cardinality({i \in D : values[i] > limit}) <= Cardinality(D) - rank
<1>. DEFINE v == Smallest(values, rank)
            n == Cardinality(D)
            over  == {i \in D : values[i] > limit}
            under == {i \in D : values[i] <= limit}
<1>1. n \in Nat /\ DOMAIN values = D
  BY FS_CardinalityType
<1>2. v \in Nat /\ Below(values, v) < rank /\ rank <= AtMost(values, v)
  BY SmallestExists
<1>. HIDE DEF v
<1>3. Cardinality(over) = n - Cardinality(under)
  <2>1. over = D \ under /\ D \cap under = under
    OBVIOUS
  <2>2. Cardinality(D \ under) = Cardinality(D) - Cardinality(D \cap under)
    BY FS_Difference
  <2>. QED BY <2>1, <2>2
<1>4. IsFiniteSet(under) /\ Cardinality(under) \in Nat
  BY FS_Subset, FS_CardinalityType
<1>5. CASE v > limit
  <2>1. under \in SUBSET {i \in D : values[i] < v}
    BY <1>2, <1>5
  <2>2. IsFiniteSet({i \in D : values[i] < v})
    BY FS_Subset
  <2>3. Cardinality(under) <= Below(values, v) /\ Below(values, v) \in Nat
    BY <1>1, <2>1, <2>2, FS_Subset, FS_CardinalityType DEF Below
  <2>. QED BY <1>1, <1>2, <1>3, <1>4, <1>5, <2>3 DEF v
<1>6. CASE ~(v > limit)
  <2>1. {i \in D : values[i] <= v} \in SUBSET under
    BY <1>2, <1>6
  <2>2. AtMost(values, v) <= Cardinality(under) /\ AtMost(values, v) \in Nat
    BY <1>1, <1>4, <2>1, FS_Subset, FS_CardinalityType DEF AtMost
  <2>. QED BY <1>1, <1>2, <1>3, <1>4, <1>6, <2>2 DEF v
<1>. QED BY <1>5, <1>6

-----------------------------------------------------------------------------
(***************************************************************************)
(* The steps that change what is noted, the world or what is true.         *)
(***************************************************************************)
LEMMA NoteSteps ==
  [Next]_vars =>
    \/ \E j \in Jobs, s \in Seen : ObserveState(j, s)
    \/ \E tool \in Tools, latency \in Latencies : TimedCall(tool, latency)
    \/ \E uri \in Uris, found \in BOOLEAN : ObserveArtifact(uri, found)
    \/ Restart
    \/ \E queue \in Says("vllm"), counted \in Counts, vram \in Says("nvidia"), count \in Says("docker") :
         Tick(queue, counted, vram, count)
    \/ NewProcess
    \/ UNCHANGED <<notes, world, truth>>
<1>. SUFFICES ASSUME [Next]_vars,
                     ~ NewProcess, ~ UNCHANGED <<notes, world, truth>>
              PROVE  \/ \E j \in Jobs, s \in Seen : ObserveState(j, s)
                     \/ \E tool \in Tools, latency \in Latencies : TimedCall(tool, latency)
                     \/ \E uri \in Uris, found \in BOOLEAN : ObserveArtifact(uri, found)
                     \/ Restart
                     \/ \E queue \in Says("vllm"), counted \in Counts, vram \in Says("nvidia"), count \in Says("docker") :
                          Tick(queue, counted, vram, count)
  OBVIOUS
<1>2. ~ UNCHANGED vars /\ ~ ObserveNoArtifact
  BY DEF vars, metricsVars, ObserveNoArtifact
<1>3. \A slice \in Slices, trace \in Traces, ok \in BOOLEAN : ~ RecordRun(slice, trace, ok)
  BY DEF RecordRun
<1>4. \A c \in Concurrencies \cup {None} : ~ RunEndsWell(c)
  BY DEF RunEndsWell, NextRun
<1>5. \A lines \in Traces \cup {<<>>} :
        /\ \A c \in Concurrencies \cup {None} : ~ RunRaises(lines, c)
        /\ ~ ProcessDies(lines)
  BY DEF RunRaises, ProcessDies, NextRun
<1>6. \A d \in DOMAIN fates : \A i \in DOMAIN dirs[d].attempts, class \in HandLabels : ~ HandLabel(d, i, class)
  BY DEF HandLabel
<1>7. Measure
  BY <1>2, <1>3, <1>4, <1>5, <1>6, Zenon DEF Next
<1>. QED BY <1>2, <1>7, Zenon DEF Measure

-----------------------------------------------------------------------------
(***************************************************************************)
(* Latencies.                                                              *)
(***************************************************************************)
CallsOK == calls \in Seq([tool : Tools, latency : Nat])

LEMMA CallsStep == CallsOK /\ [Next]_vars => CallsOK'
<1>. SUFFICES ASSUME CallsOK, [Next]_vars PROVE CallsOK'
  OBVIOUS
<1>1. ASSUME NEW tool \in Tools, NEW latency \in Latencies, TimedCall(tool, latency) PROVE CallsOK'
  <2>1. [tool |-> tool, latency |-> latency] \in [tool : Tools, latency : Nat]
    BY MetricsConstantsOK
  <2>. QED BY <1>1, <2>1 DEF CallsOK, TimedCall
<1>2. CASE NewProcess
  BY <1>2 DEF CallsOK, NewProcess
<1>3. CASE UNCHANGED calls
  BY <1>3 DEF CallsOK
<1>4. ASSUME NEW j \in Jobs, NEW s \in Seen, ObserveState(j, s) PROVE UNCHANGED calls
  BY <1>4 DEF ObserveState
<1>5. ASSUME NEW uri, NEW found, ObserveArtifact(uri, found) PROVE UNCHANGED calls
  BY <1>5 DEF ObserveArtifact, world, notes
<1>6. ASSUME NEW queue, NEW counted, NEW vram, NEW count, Tick(queue, counted, vram, count) PROVE UNCHANGED calls
  BY <1>6 DEF Tick
<1>7. Restart \/ UNCHANGED <<notes, world, truth>> => UNCHANGED calls
  BY DEF Restart, notes
<1>. QED BY <1>1, <1>2, <1>3, <1>4, <1>5, <1>6, <1>7, NoteSteps, Zenon

LEMMA ImageFinite ==
  ASSUME NEW D, NEW V, NEW f \in Surjection(D, V), IsFiniteSet(D)
  PROVE  IsFiniteSet(V)
BY FS_Surjection

LEMMA TailsFromCalls == CallsOK => TailsAreBreaches
<1>. SUFFICES ASSUME CallsOK, NEW tool \in FastTools
              PROVE  LET values   == LatenciesOf(calls, tool)
                         n        == Cardinality(DOMAIN values)
                         stats    == LatencyStats(values)
                         breaches == Cardinality(ContractViolations(calls) \cap DOMAIN values)
                     IN n > 0 =>
                          /\ stats.p50 <= stats.p95 /\ stats.p95 <= stats.p99 /\ stats.p99 <= stats.max
                          /\ \A pct \in {50, 95, 99} :
                               IF Percentile(values, pct) > Limit THEN 100 * breaches >= (100 - pct) * n + 50
                                                                  ELSE 100 * breaches <= (100 - pct) * n + 50
  BY DEF TailsAreBreaches
<1>. DEFINE D == {k \in DOMAIN calls : calls[k].tool = tool}
            values == LatenciesOf(calls, tool)
            n == Cardinality(DOMAIN values)
            stats == LatencyStats(values)
            breaches == Cardinality(ContractViolations(calls) \cap DOMAIN values)
<1>1. D \subseteq 1..Len(calls) /\ IsFiniteSet(D)
  <2>1. DOMAIN calls = 1..Len(calls) /\ Len(calls) \in Nat
    BY DEF CallsOK
  <2>2. IsFiniteSet(1..Len(calls))
    BY <2>1, FS_Interval
  <2>. QED BY <2>1, <2>2, FS_Subset
<1>2. values \in [D -> Nat] /\ DOMAIN values = D
  <2>1. \A i \in D : calls[i] \in [tool : Tools, latency : Nat]
    BY <1>1, ElementOfSeq DEF CallsOK
  <2>2. \A i \in D : calls[i].latency \in Nat
    BY <2>1
  <2>3. values = [i \in D |-> calls[i].latency]
    BY DEF LatenciesOf
  <2>. QED BY <2>2, <2>3
<1>3. ContractViolations(calls) \cap DOMAIN values = {i \in D : values[i] > Limit}
  BY <1>2 DEF ContractViolations, Slow, LatenciesOf
<1>. SUFFICES ASSUME n > 0
              PROVE  /\ stats.p50 <= stats.p95 /\ stats.p95 <= stats.p99 /\ stats.p99 <= stats.max
                     /\ \A pct \in {50, 95, 99} :
                          IF Percentile(values, pct) > Limit THEN 100 * breaches >= (100 - pct) * n + 50
                                                             ELSE 100 * breaches <= (100 - pct) * n + 50
  BY Zenon
<1>4. n = Cardinality(D) /\ n \in Nat \ {0} /\ D # {}
  BY <1>1, <1>2, FS_CardinalityType, FS_EmptySet
<1>5. Limit \in Nat
  BY MetricsConstantsOK
<1>. HIDE DEF values, D
<1>6. \A pct \in {50, 95, 99} :
        /\ Rank(pct, n) \in 1..Cardinality(D)
        /\ Percentile(values, pct) = Smallest(values, Rank(pct, n))
  BY <1>2, <1>4, RankBounds DEF Percentile
<1>7. \A pct \in {50, 95, 99} :
        IF Percentile(values, pct) > Limit THEN 100 * breaches >= (100 - pct) * n + 50
                                           ELSE 100 * breaches <= (100 - pct) * n + 50
  <2>. TAKE pct \in {50, 95, 99}
  <2>1. Rank(pct, n) \in 1..Cardinality(D) /\ Percentile(values, pct) = Smallest(values, Rank(pct, n))
    BY <1>6
  <2>2. breaches = Cardinality({i \in D : values[i] > Limit})
    BY <1>3, Zenon
  <2>. HIDE DEF breaches, n
  <2>3. IF Smallest(values, Rank(pct, n)) > Limit
        THEN Cardinality({i \in D : values[i] > Limit}) > Cardinality(D) - Rank(pct, n)
        ELSE Cardinality({i \in D : values[i] > Limit}) <= Cardinality(D) - Rank(pct, n)
    BY <1>1, <1>2, <1>5, <2>1, SmallestOver
  <2>4. IF Percentile(values, pct) > Limit THEN breaches > n - Rank(pct, n)
                                           ELSE breaches <= n - Rank(pct, n)
    BY <1>4, <2>1, <2>2, <2>3
  <2>5. breaches \in Nat
    <3>1. IsFiniteSet({i \in D : values[i] > Limit})
      BY <1>1, FS_Subset
    <3>. QED BY <2>2, <3>1, FS_CardinalityType
  <2>. QED BY <1>4, <2>4, <2>5, RankIsShare
<1>8. stats.p50 <= stats.p95 /\ stats.p95 <= stats.p99
  <2>. HIDE DEF n
  <2>0. /\ Rank(50, n) \in 1..Cardinality(D) /\ Rank(95, n) \in 1..Cardinality(D)
        /\ Rank(99, n) \in 1..Cardinality(D)
        /\ Rank(50, n) <= Rank(95, n) /\ Rank(95, n) <= Rank(99, n)
    BY <1>4, RankBounds
  <2>a. Smallest(values, Rank(50, n)) <= Smallest(values, Rank(95, n))
    BY <1>1, <1>2, <2>0, SmallestMonotone
  <2>b. Smallest(values, Rank(95, n)) <= Smallest(values, Rank(99, n))
    BY <1>1, <1>2, <2>0, SmallestMonotone
  <2>1. /\ Smallest(values, Rank(50, n)) <= Smallest(values, Rank(95, n))
        /\ Smallest(values, Rank(95, n)) <= Smallest(values, Rank(99, n))
    BY <2>a, <2>b
  <2>. QED BY <1>6, <2>1 DEF LatencyStats
<1>9. stats.p99 <= stats.max
  <2>. DEFINE V == {values[i] : i \in D}
  <2>1. V \in SUBSET Int /\ V # {} /\ IsFiniteSet(V)
    <3>1. values \in Surjection(D, V)
      BY <1>2 DEF Surjection
    <3>2. IsFiniteSet(V)
      <4>. HIDE DEF V
      <4>. QED BY <1>1, <3>1, ImageFinite
    <3>. QED BY <1>2, <1>4, <3>2
  <2>2. stats.p99 \in V
    <3>1. \E i \in D : Smallest(values, Rank(99, n)) = values[i]
      <4>. HIDE DEF n, V
      <4>1. Rank(99, n) \in 1..Cardinality(D)
        BY <1>6
      <4>. QED BY <1>1, <1>2, <4>1, SmallestExists
    <3>. QED BY <1>6, <3>1 DEF LatencyStats
  <2>3. stats.max = Highest(V)
    BY <1>2 DEF LatencyStats
  <2>. HIDE DEF V, stats
  <2>4. \A v \in V : v <= Highest(V)
    BY <2>1, GreatestExists, Zenon DEF Highest
  <2>. QED BY <2>2, <2>3, <2>4
<1>. QED BY <1>7, <1>8, <1>9

\* For every tool and every number of calls the latency table and the list of
\* contract breaches tell the same story (instrument.py:39-50,170-187).
THEOREM TailsBreach == Spec => []TailsAreBreaches
<1>1. Init => CallsOK
  BY DEF Init, MetricsInit, CallsOK
<1>. QED BY <1>1, CallsStep, TailsFromCalls, PTL DEF Spec

-----------------------------------------------------------------------------
(***************************************************************************)
(* The state history.                                                      *)
(***************************************************************************)
Pairs == Jobs \X Seen
LogInv ==
  /\ transitions \in Seq(Pairs) /\ polls \in Seq(Pairs) /\ entry \in Seq(Nat)
  /\ LogFaithful

LEMMA LogStep == LogInv /\ [Next]_vars => LogInv'
<1>. SUFFICES ASSUME LogInv, [Next]_vars PROVE LogInv'
  OBVIOUS
<1>1. ASSUME NEW j \in Jobs, NEW s \in Seen, ObserveState(j, s) PROVE LogInv'
  <2>. DEFINE pair == <<j, s>>
              n == Len(polls)
              last == Len(transitions)
  <2>0. pair \in Pairs
    BY DEF Pairs
  <2>. HIDE DEF pair
  <2>1. /\ n \in Nat /\ last \in Nat /\ Len(entry) = n
        /\ DOMAIN polls = 1..n /\ DOMAIN entry = 1..n /\ DOMAIN transitions = 1..last
    BY DEF LogInv, LogFaithful
  <2>2. /\ polls' = Append(polls, pair)
        /\ entry' = Append(entry, Len(transitions'))
        /\ transitions' = IF transitions = <<>> \/ transitions[last] # pair
                          THEN Append(transitions, pair) ELSE transitions
    BY <1>1 DEF ObserveState, Noted, pair
  <2>3. /\ polls' \in Seq(Pairs) /\ Len(polls') = n + 1 /\ DOMAIN polls' = 1..(n + 1)
        /\ polls'[n + 1] = pair /\ \A i \in 1..n : polls'[i] = polls[i]
    BY <2>0, <2>1, <2>2 DEF LogInv
  <2>4. /\ transitions' \in Seq(Pairs) /\ DOMAIN transitions' = 1..Len(transitions')
        /\ Len(transitions') \in Nat /\ last <= Len(transitions') /\ 1 <= Len(transitions')
        /\ Len(transitions') <= last + 1
        /\ transitions'[Len(transitions')] = pair
        /\ \A e \in 1..last : transitions'[e] = transitions[e]
    BY <2>0, <2>1, <2>2 DEF LogInv
  <2>5. /\ entry' \in Seq(Nat) /\ Len(entry') = n + 1 /\ DOMAIN entry' = 1..(n + 1)
        /\ entry'[n + 1] = Len(transitions') /\ \A i \in 1..n : entry'[i] = entry[i]
    BY <2>1, <2>2, <2>4 DEF LogInv
  <2>. HIDE DEF n, last
  <2>6. \A i \in 1..n : entry[i] \in 1..last /\ transitions[entry[i]] = polls[i]
    BY <2>1 DEF LogInv, LogFaithful
  <2>7. \A i \in DOMAIN polls' : entry'[i] \in DOMAIN transitions' /\ transitions'[entry'[i]] = polls'[i]
    <3>. SUFFICES ASSUME NEW i \in 1..(n + 1)
                  PROVE  entry'[i] \in DOMAIN transitions' /\ transitions'[entry'[i]] = polls'[i]
      BY <2>3
    <3>1. CASE i = n + 1
      BY <2>1, <2>3, <2>4, <2>5, <3>1
    <3>2. CASE i # n + 1
      <4>1. i \in 1..n
        BY <2>1, <3>2
      <4>2. entry[i] \in 1..last /\ transitions[entry[i]] = polls[i]
        BY <2>6, <4>1
      <4>3. entry'[i] = entry[i] /\ polls'[i] = polls[i] /\ transitions'[entry[i]] = transitions[entry[i]]
        BY <2>3, <2>4, <2>5, <4>1, <4>2
      <4>. QED BY <2>1, <2>4, <4>2, <4>3
    <3>. QED BY <3>1, <3>2
  <2>8. \A i, k \in DOMAIN polls' : i <= k => entry'[i] <= entry'[k]
    <3>. SUFFICES ASSUME NEW i \in 1..(n + 1), NEW k \in 1..(n + 1), i <= k
                  PROVE  entry'[i] <= entry'[k]
      BY <2>3
    <3>1. CASE k \in 1..n
      <4>1. i \in 1..n
        BY <2>1, <3>1
      <4>2. entry[i] <= entry[k]
        BY <2>1, <3>1, <4>1 DEF LogInv, LogFaithful
      <4>. QED BY <2>5, <3>1, <4>1, <4>2
    <3>2. CASE k = n + 1
      <4>1. entry'[i] \in 1..Len(transitions')
        BY <2>3, <2>4, <2>7
      <4>. QED BY <2>4, <2>5, <3>2, <4>1
    <3>. QED BY <2>1, <3>1, <3>2
  <2>9. \A e \in DOMAIN transitions' : \E i \in DOMAIN polls' : entry'[i] = e
    <3>. SUFFICES ASSUME NEW e \in 1..Len(transitions')
                  PROVE  \E i \in 1..(n + 1) : entry'[i] = e
      BY <2>3, <2>4
    <3>1. CASE e = Len(transitions')
      BY <2>1, <2>5, <3>1
    <3>2. CASE e # Len(transitions')
      <4>1. e \in 1..last
        <5>1. ASSUME NEW size \in Nat, size <= last + 1, e \in 1..size, e # size PROVE e \in 1..last
          BY <2>1, <5>1
        <5>. QED BY <2>4, <3>2, <5>1
      <4>2. PICK i \in 1..n : entry[i] = e
        BY <2>1, <4>1 DEF LogInv, LogFaithful
      <4>. QED BY <2>1, <2>5, <4>2
    <3>. QED BY <3>1, <3>2
  <2>10. \A e \in DOMAIN transitions' : e > 1 => transitions'[e] # transitions'[e - 1]
    <3>. SUFFICES ASSUME NEW e \in 1..Len(transitions'), e > 1
                  PROVE  transitions'[e] # transitions'[e - 1]
      BY <2>4
    <3>1. CASE e \in 1..last
      <4>1. e - 1 \in 1..last
        BY <2>1, <3>1
      <4>2. transitions[e] # transitions[e - 1]
        BY <2>1, <3>1 DEF LogInv, LogFaithful
      <4>. QED BY <2>4, <3>1, <4>1, <4>2
    <3>2. CASE e \notin 1..last
      <4>1. e = last + 1 /\ e = Len(transitions') /\ last \in 1..last
        <5>1. ASSUME NEW size \in Nat, size <= last + 1, e \in 1..size
              PROVE  e = last + 1 /\ e = size /\ last \in 1..last
          BY <2>1, <3>2, <5>1
        <5>. QED BY <2>4, <5>1
      <4>2. transitions' # transitions
        BY <2>1, <4>1 DEF last
      <4>3. transitions # <<>>
        BY <4>1 DEF last
      <4>4. transitions[last] # pair
        BY <2>2, <4>2, <4>3
      <4>5. transitions'[last] = transitions[last] /\ e - 1 = last
        BY <2>1, <2>4, <4>1
      <4>. QED BY <2>4, <4>1, <4>4, <4>5
    <3>. QED BY <3>1, <3>2
  <2>. QED BY <2>3, <2>4, <2>5, <2>7, <2>8, <2>9, <2>10 DEF LogInv, LogFaithful
<1>2. CASE NewProcess
  BY <1>2 DEF LogInv, LogFaithful, NewProcess
<1>3. CASE UNCHANGED <<transitions, polls, entry>>
  BY <1>3 DEF LogInv, LogFaithful
<1>4. ASSUME NEW tool, NEW latency, TimedCall(tool, latency) PROVE UNCHANGED <<transitions, polls, entry>>
  BY <1>4 DEF TimedCall, truth
<1>5. ASSUME NEW uri, NEW found, ObserveArtifact(uri, found) PROVE UNCHANGED <<transitions, polls, entry>>
  BY <1>5 DEF ObserveArtifact, world, notes
<1>6. ASSUME NEW queue, NEW counted, NEW vram, NEW count, Tick(queue, counted, vram, count)
      PROVE  UNCHANGED <<transitions, polls, entry>>
  BY <1>6 DEF Tick
<1>7. Restart \/ UNCHANGED <<notes, world, truth>> => UNCHANGED <<transitions, polls, entry>>
  BY DEF Restart, notes, truth
<1>. QED BY <1>1, <1>2, <1>3, <1>4, <1>5, <1>6, <1>7, NoteSteps, Zenon

\* However the pollers interleave, the log holds every poll once, in order,
\* and nothing else (instrument.py:142-146).
THEOREM LogIsFaithful == Spec => []LogFaithful
<1>1. Init => LogInv
  BY DEF Init, MetricsInit, LogInv, LogFaithful
<1>2. LogInv => LogFaithful
  BY DEF LogInv
<1>. QED BY <1>1, <1>2, LogStep, PTL DEF Spec

-----------------------------------------------------------------------------
(***************************************************************************)
(* Cache hits.  One more artifact is one more hit or one more render, and  *)
(* shows a URI that is new, was rendered before, or only came from the     *)
(* cache so far.                                                           *)
(***************************************************************************)
UrisOf(S) == {artifact_uris[i] : i \in S}
Repeats == {i \in DOMAIN artifact_uris : \E k \in 1..(i - 1) : artifact_uris[k] = artifact_uris[i]}
Hits    == {i \in DOMAIN from_cache : from_cache[i]}
Renders == DOMAIN from_cache \ Hits
Again   == {i \in Renders : \E k \in Renders : k < i /\ artifact_uris[k] = artifact_uris[i]}
Unseen  == UrisOf(Hits) \ UrisOf(Renders)

HitTypes ==
  /\ artifact_uris \in Seq(Uris) /\ from_cache \in Seq(BOOLEAN)
  /\ Len(from_cache) = Len(artifact_uris)
HitInv ==
  /\ HitTypes
  /\ IsFiniteSet(Repeats) /\ IsFiniteSet(Hits) /\ IsFiniteSet(Again) /\ IsFiniteSet(Unseen)
  /\ Cardinality(Repeats) + Cardinality(Unseen) = Cardinality(Hits) + Cardinality(Again)

\* What one more artifact does to each of the sets.
LEMMA OneMore ==
  ASSUME HitTypes, NEW u \in Uris, NEW h \in BOOLEAN,
         artifact_uris' = Append(artifact_uris, u), from_cache' = Append(from_cache, h)
  PROVE  LET n == Len(artifact_uris) IN
         /\ HitTypes'
         /\ Repeats' = IF u \in UrisOf(Hits) \cup UrisOf(Renders) THEN Repeats \cup {n + 1} ELSE Repeats
         /\ Hits' = IF h THEN Hits \cup {n + 1} ELSE Hits
         /\ Again' = IF ~h /\ u \in UrisOf(Renders) THEN Again \cup {n + 1} ELSE Again
         /\ Unseen' = IF h THEN (UrisOf(Hits) \cup {u}) \ UrisOf(Renders)
                           ELSE UrisOf(Hits) \ (UrisOf(Renders) \cup {u})
         /\ n + 1 \notin Repeats /\ n + 1 \notin Hits /\ n + 1 \notin Again
<1>. DEFINE n == Len(artifact_uris)
<1>1. /\ n \in Nat /\ DOMAIN artifact_uris = 1..n /\ DOMAIN from_cache = 1..n
      /\ DOMAIN artifact_uris' = 1..(n + 1) /\ DOMAIN from_cache' = 1..(n + 1)
      /\ artifact_uris'[n + 1] = u /\ \A i \in 1..n : artifact_uris'[i] = artifact_uris[i]
      /\ from_cache'[n + 1] = h /\ \A i \in 1..n : from_cache'[i] = from_cache[i]
  BY DEF HitTypes
<1>t. HitTypes'
  BY DEF HitTypes
<1>. HIDE DEF n
<1>2. /\ \A i : i \in 1..(n + 1) <=> i \in 1..n \/ i = n + 1
      /\ n + 1 \notin 1..n /\ n + 1 \in 1..(n + 1)
  BY <1>1
<1>3. Hits \subseteq 1..n /\ Renders \subseteq 1..n /\ Hits \cup Renders = 1..n
      /\ Repeats \subseteq 1..n /\ Again \subseteq 1..n
  BY <1>1 DEF Hits, Renders, Repeats, Again
<1>4. Hits' = IF h THEN Hits \cup {n + 1} ELSE Hits
  BY <1>1, <1>2 DEF Hits
<1>5. Renders' = IF h THEN Renders ELSE Renders \cup {n + 1}
  <2>1. \A i : i \in Renders <=> i \in 1..n /\ ~from_cache[i]
    BY <1>1 DEF Renders, Hits
  <2>2. \A i : i \in Renders' <=> i \in 1..(n + 1) /\ ~from_cache'[i]
    BY <1>1 DEF Renders, Hits
  <2>. QED BY <1>1, <1>2, <2>1, <2>2
<1>6. /\ UrisOf(Hits)' = IF h THEN UrisOf(Hits) \cup {u} ELSE UrisOf(Hits)
      /\ UrisOf(Renders)' = IF h THEN UrisOf(Renders) ELSE UrisOf(Renders) \cup {u}
  <2>1. ASSUME NEW S, NEW T, S \subseteq 1..n, T = S \cup {n + 1}
        PROVE  /\ {artifact_uris'[i] : i \in S} = {artifact_uris[i] : i \in S}
               /\ {artifact_uris'[i] : i \in T} = {artifact_uris[i] : i \in S} \cup {u}
    <3>1. \A i \in S : artifact_uris'[i] = artifact_uris[i]
      BY <1>1, <2>1
    <3>. QED BY <1>1, <2>1, <3>1
  <2>2. UrisOf(Hits)' = IF h THEN UrisOf(Hits) \cup {u} ELSE UrisOf(Hits)
    BY <1>3, <1>4, <2>1 DEF UrisOf
  <2>3. UrisOf(Renders)' = IF h THEN UrisOf(Renders) ELSE UrisOf(Renders) \cup {u}
    BY <1>3, <1>5, <2>1 DEF UrisOf
  <2>. QED BY <2>2, <2>3
<1>7. Unseen' = IF h THEN (UrisOf(Hits) \cup {u}) \ UrisOf(Renders)
                     ELSE UrisOf(Hits) \ (UrisOf(Renders) \cup {u})
  BY <1>6 DEF Unseen
<1>8. u \in UrisOf(Hits) \cup UrisOf(Renders) <=> \E k \in 1..n : artifact_uris[k] = u
  BY <1>3 DEF UrisOf
<1>9. Repeats' = IF u \in UrisOf(Hits) \cup UrisOf(Renders) THEN Repeats \cup {n + 1} ELSE Repeats
  <2>1. /\ \A i : i \in Repeats <=> i \in 1..n /\ \E k \in 1..(i - 1) : artifact_uris[k] = artifact_uris[i]
        /\ \A i : i \in Repeats' <=>
             i \in 1..(n + 1) /\ \E k \in 1..(i - 1) : artifact_uris'[k] = artifact_uris'[i]
    BY <1>1 DEF Repeats
  <2>2. ASSUME NEW i \in 1..n PROVE i \in Repeats' <=> i \in Repeats
    <3>1. \A k \in 1..(i - 1) : k \in 1..n
      BY <1>1
    <3>2. \A k \in 1..(i - 1) : artifact_uris'[k] = artifact_uris[k]
      BY <1>1, <3>1
    <3>3. artifact_uris'[i] = artifact_uris[i] /\ i \in 1..(n + 1)
      BY <1>1, <1>2
    <3>. QED BY <2>1, <3>2, <3>3, Zenon
  <2>3. n + 1 \in Repeats' <=> \E k \in 1..n : artifact_uris[k] = u
    <3>1. (n + 1) - 1 = n
      BY <1>1
    <3>2. n + 1 \in Repeats' <=> \E k \in 1..n : artifact_uris'[k] = u
      BY <1>1, <1>2, <2>1, <3>1
    <3>. QED BY <1>1, <3>2
  <2>4. Repeats' \subseteq 1..(n + 1)
    BY <2>1
  <2>5. \A i : i \in Repeats' <=> i \in Repeats \/ (i = n + 1 /\ n + 1 \in Repeats')
    <3>. SUFFICES ASSUME NEW i PROVE i \in Repeats' <=> i \in Repeats \/ (i = n + 1 /\ n + 1 \in Repeats')
      OBVIOUS
    <3>1. i \in 1..n \/ i = n + 1 \/ (i \notin Repeats' /\ i \notin Repeats)
      BY <1>2, <1>3, <2>4, Zenon
    <3>2. n + 1 \notin Repeats
      BY <1>2, <1>3, Zenon
    <3>3. i \in 1..n => i # n + 1
      BY <1>2, Zenon
    <3>. QED BY <2>2, <3>1, <3>2, <3>3, Zenon
  <2>. QED BY <1>8, <2>3, <2>5
<1>10. Again' = IF ~h /\ u \in UrisOf(Renders) THEN Again \cup {n + 1} ELSE Again
  <2>1. /\ \A i : i \in Again <=>
             i \in Renders /\ \E k \in Renders : k < i /\ artifact_uris[k] = artifact_uris[i]
        /\ \A i : i \in Again' <=>
             i \in Renders' /\ \E k \in Renders' : k < i /\ artifact_uris'[k] = artifact_uris'[i]
    BY DEF Again
  <2>2. ASSUME NEW i \in 1..n PROVE i \in Again' <=> i \in Again
    <3>1. /\ i \in Renders' <=> i \in Renders
          /\ \A k \in Renders : k \in Renders' /\ artifact_uris'[k] = artifact_uris[k]
          /\ \A k \in Renders' : k < i => k \in Renders
          /\ artifact_uris'[i] = artifact_uris[i]
      BY <1>1, <1>2, <1>3, <1>5
    <3>2. (\E k \in Renders' : k < i /\ artifact_uris'[k] = artifact_uris'[i])
            <=> \E k \in Renders : k < i /\ artifact_uris[k] = artifact_uris[i]
      BY <3>1, Zenon
    <3>. QED BY <2>1, <3>1, <3>2, Zenon
  <2>3. n + 1 \in Again' <=> ~h /\ u \in UrisOf(Renders)
    <3>1. CASE h
      BY <1>2, <1>3, <1>5, <2>1, <3>1
    <3>2. CASE ~h
      <4>1. /\ n + 1 \in Renders' /\ artifact_uris'[n + 1] = u
            /\ \A k : k \in Renders' /\ k < n + 1 <=> k \in Renders
            /\ \A k \in Renders : artifact_uris'[k] = artifact_uris[k]
        BY <1>1, <1>2, <1>3, <1>5, <3>2
      <4>2. (\E k \in Renders' : k < n + 1 /\ artifact_uris'[k] = artifact_uris'[n + 1])
              <=> \E k \in Renders : artifact_uris[k] = u
        BY <4>1, Zenon
      <4>3. n + 1 \in Again' <=> \E k \in Renders : artifact_uris[k] = u
        BY <2>1, <4>1, <4>2, Zenon
      <4>. QED BY <3>2, <4>3 DEF UrisOf
    <3>. QED BY <3>1, <3>2
  <2>4. Again' \subseteq 1..(n + 1)
    <3>1. Renders' \subseteq 1..(n + 1)
      BY <1>2, <1>3, <1>5
    <3>. QED BY <2>1, <3>1
  <2>5. \A i : i \in Again' <=> i \in Again \/ (i = n + 1 /\ n + 1 \in Again')
    <3>. SUFFICES ASSUME NEW i PROVE i \in Again' <=> i \in Again \/ (i = n + 1 /\ n + 1 \in Again')
      OBVIOUS
    <3>1. i \in 1..n \/ i = n + 1 \/ (i \notin Again' /\ i \notin Again)
      BY <1>2, <1>3, <2>4, Zenon
    <3>2. n + 1 \notin Again
      BY <1>2, <1>3, Zenon
    <3>3. i \in 1..n => i # n + 1
      BY <1>2, Zenon
    <3>. QED BY <2>2, <3>1, <3>2, <3>3, Zenon
  <2>. QED BY <2>3, <2>5
<1>11. n + 1 \notin Repeats /\ n + 1 \notin Hits /\ n + 1 \notin Again
  BY <1>2, <1>3
<1>. QED BY <1>t, <1>4, <1>7, <1>9, <1>10, <1>11 DEF n

LEMMA HitStep == HitInv /\ [Next]_vars => HitInv'
<1>. SUFFICES ASSUME HitInv, [Next]_vars PROVE HitInv'
  OBVIOUS
<1>0. /\ HitTypes /\ IsFiniteSet(Repeats) /\ IsFiniteSet(Hits) /\ IsFiniteSet(Again) /\ IsFiniteSet(Unseen)
      /\ Cardinality(Repeats) \in Nat /\ Cardinality(Unseen) \in Nat
      /\ Cardinality(Hits) \in Nat /\ Cardinality(Again) \in Nat
      /\ Cardinality(Repeats) + Cardinality(Unseen) = Cardinality(Hits) + Cardinality(Again)
  BY FS_CardinalityType DEF HitInv
<1>1. ASSUME NEW u \in Uris, NEW h \in BOOLEAN, ObserveArtifact(u, h) PROVE HitInv'
  <2>. DEFINE n == Len(artifact_uris)
              H == UrisOf(Hits)
              R == UrisOf(Renders)
  <2>0. artifact_uris' = Append(artifact_uris, u) /\ from_cache' = Append(from_cache, h)
    BY <1>1 DEF ObserveArtifact
  <2>1. /\ HitTypes'
        /\ Repeats' = IF u \in H \cup R THEN Repeats \cup {n + 1} ELSE Repeats
        /\ Hits' = IF h THEN Hits \cup {n + 1} ELSE Hits
        /\ Again' = IF ~h /\ u \in R THEN Again \cup {n + 1} ELSE Again
        /\ Unseen' = IF h THEN (H \cup {u}) \ R ELSE H \ (R \cup {u})
        /\ n + 1 \notin Repeats /\ n + 1 \notin Hits /\ n + 1 \notin Again
    BY <1>0, <2>0, OneMore, Zenon
  <2>2. Unseen = H \ R
    BY DEF Unseen
  <2>. HIDE DEF n, H, R
  <2>3. /\ IsFiniteSet(Repeats') /\ Cardinality(Repeats') =
             IF u \in H \cup R THEN Cardinality(Repeats) + 1 ELSE Cardinality(Repeats)
        /\ IsFiniteSet(Hits') /\ Cardinality(Hits') = IF h THEN Cardinality(Hits) + 1 ELSE Cardinality(Hits)
        /\ IsFiniteSet(Again') /\ Cardinality(Again') =
             IF ~h /\ u \in R THEN Cardinality(Again) + 1 ELSE Cardinality(Again)
    BY <1>0, <2>1, FS_AddElement
  <2>4. CASE h /\ u \notin H \cup R
    <3>1. Unseen' = Unseen \cup {u} /\ u \notin Unseen
      BY <2>1, <2>2, <2>4
    <3>2. IsFiniteSet(Unseen') /\ Cardinality(Unseen') = Cardinality(Unseen) + 1
      BY <1>0, <3>1, FS_AddElement
    <3>. QED BY <1>0, <2>1, <2>3, <2>4, <3>2 DEF HitInv
  <2>5. CASE ~h /\ u \in H /\ u \notin R
    <3>1. Unseen' = Unseen \ {u} /\ u \in Unseen
      BY <2>1, <2>2, <2>5
    <3>2. IsFiniteSet(Unseen') /\ Cardinality(Unseen') = Cardinality(Unseen) - 1
      BY <1>0, <3>1, FS_RemoveElement
    <3>. QED BY <1>0, <2>1, <2>3, <2>5, <3>2 DEF HitInv
  <2>6. CASE (h /\ u \in H \cup R) \/ (~h /\ (u \in R \/ u \notin H))
    <3>1. Unseen' = Unseen
      BY <2>1, <2>2, <2>6
    <3>2. IsFiniteSet(Unseen') /\ Cardinality(Unseen') = Cardinality(Unseen)
      BY <1>0, <3>1
    <3>3. Cardinality(Repeats') + Cardinality(Unseen') = Cardinality(Hits') + Cardinality(Again')
      <4>1. CASE h /\ u \in H \cup R
        BY <1>0, <2>3, <3>2, <4>1
      <4>2. CASE ~h /\ u \in R
        BY <1>0, <2>3, <3>2, <4>2
      <4>3. CASE ~h /\ u \notin H \cup R
        BY <1>0, <2>3, <3>2, <4>3
      <4>. QED BY <2>6, <4>1, <4>2, <4>3
    <3>. QED BY <2>1, <2>3, <3>2, <3>3 DEF HitInv
  <2>. QED BY <2>4, <2>5, <2>6
<1>2. CASE NewProcess
  <2>1. artifact_uris' = <<>> /\ from_cache' = <<>>
    BY <1>2 DEF NewProcess
  <2>2. Repeats' = {} /\ Hits' = {} /\ Renders' = {}
    BY <2>1 DEF Repeats, Hits, Renders
  <2>3. Again' = {} /\ Unseen' = {}
    BY <2>2 DEF Again, Unseen, UrisOf
  <2>4. HitTypes'
    BY <2>1 DEF HitTypes
  <2>. QED BY <2>2, <2>3, <2>4, FS_EmptySet DEF HitInv
<1>3. CASE UNCHANGED <<artifact_uris, from_cache>>
  BY <1>3 DEF HitInv, HitTypes, Repeats, Hits, Renders, Again, Unseen, UrisOf
<1>4. ASSUME NEW j, NEW s, ObserveState(j, s) PROVE UNCHANGED <<artifact_uris, from_cache>>
  BY <1>4 DEF ObserveState
<1>5. ASSUME NEW tool, NEW latency, TimedCall(tool, latency) PROVE UNCHANGED <<artifact_uris, from_cache>>
  BY <1>5 DEF TimedCall, truth
<1>6. ASSUME NEW queue, NEW counted, NEW vram, NEW count, Tick(queue, counted, vram, count)
      PROVE  UNCHANGED <<artifact_uris, from_cache>>
  BY <1>6 DEF Tick
<1>7. Restart \/ UNCHANGED <<notes, world, truth>> => UNCHANGED <<artifact_uris, from_cache>>
  BY DEF Restart, notes, truth
<1>. QED BY <1>1, <1>2, <1>3, <1>4, <1>5, <1>6, <1>7, NoteSteps, Zenon

\* The hit rate made of repeated URIs is off by the renders of what had been
\* rendered, one way, and by what only ever came from the cache, the other way,
\* in every mixture of hits and renders (instrument.py:189-206).
THEOREM HitRateExplained == Spec => []HitRateTrue
<1>1. Init => HitInv
  <2>. SUFFICES ASSUME Init PROVE HitInv
    OBVIOUS
  <2>1. artifact_uris = <<>> /\ from_cache = <<>>
    BY DEF Init, MetricsInit
  <2>2. Repeats = {} /\ Hits = {} /\ Renders = {}
    BY <2>1 DEF Repeats, Hits, Renders
  <2>3. Again = {} /\ Unseen = {}
    BY <2>2 DEF Again, Unseen, UrisOf
  <2>4. HitTypes
    BY <2>1 DEF HitTypes
  <2>. QED BY <2>2, <2>3, <2>4, FS_EmptySet DEF HitInv
<1>2. HitInv => HitRateTrue
  <2>. SUFFICES ASSUME HitInv PROVE HitRateTrue
    OBVIOUS
  <2>1. /\ Cardinality(Repeats) \in Nat /\ Cardinality(Unseen) \in Nat
        /\ Cardinality(Hits) \in Nat /\ Cardinality(Again) \in Nat
    BY FS_CardinalityType DEF HitInv
  <2>2. CacheHits = Cardinality(Repeats)
    BY Zenon DEF CacheHits, Repeats
  <2>3. CacheHits = Cardinality(Hits) + Cardinality(Again) - Cardinality(Unseen)
    BY <2>1, <2>2 DEF HitInv
  <2>4. Len(from_cache) = Len(artifact_uris)
    BY DEF HitInv, HitTypes
  <2>. QED BY <2>3, <2>4, Zenon DEF HitRateTrue, Hits, Renders, Again, Unseen, UrisOf
<1>. QED BY <1>1, <1>2, HitStep, PTL DEF Spec

-----------------------------------------------------------------------------
(***************************************************************************)
(* The side channels.  Each sample holds what its sources said, and time   *)
(* and vLLM's counters only grow.                                          *)
(***************************************************************************)
Sample == [time : Nat, sample : [Fields -> Nat \cup {None}]]
Answer == [docker : Nat \cup {None}, vram : Nat \cup {None}, queue : Nat \cup {None},
           tokens : Nat \cup {None}, served : Nat, lost : Nat]

Told(s, a) ==
  /\ s.sample.vram_mb = a.vram
  /\ s.sample.queue_depth = a.queue
  /\ s.sample.generation_tokens_total = a.tokens
  /\ a.tokens # None => a.tokens = a.served - a.lost
  /\ a.lost <= a.served
Before(s, a, t, b) == s.time <= t.time /\ a.served <= b.served /\ a.lost <= b.lost

TickTypes ==
  /\ samples \in Seq(Sample) /\ answers \in Seq(Answer)
  /\ Len(samples) = Len(answers)
  /\ clock \in Nat /\ served \in Nat /\ lost \in Nat /\ lost <= served
TickInv ==
  /\ TickTypes
  /\ \A i \in DOMAIN answers : Told(samples[i], answers[i])
  /\ \A i \in DOMAIN answers :
       samples[i].time <= clock /\ answers[i].served <= served /\ answers[i].lost <= lost
  /\ \A i, k \in DOMAIN answers : i <= k => Before(samples[i], answers[i], samples[k], answers[k])

LEMMA SaysNumbers ==
  ASSUME NEW source \in Sources, NEW said \in Says(source)
  PROVE  said \in Nat \cup {None} /\ (source \notin wired => said = None)
BY MetricsConstantsOK DEF Says

LEMMA CountsWired == \A counted \in Counts : counted \in BOOLEAN /\ ("vllm" \notin wired => ~counted)
BY DEF Counts

\* A page with both lines, one of them or none.
LEMMA GetLine ==
  ASSUME NEW queue \in Nat \cup {None}, NEW tokens \in Nat \cup {None}
  PROVE  /\ Get(Page(queue, tokens), "vllm:num_requests_waiting") = queue
         /\ Get(Page(queue, tokens), "vllm:generation_tokens_total") = tokens
<1>. DEFINE page == Page(queue, tokens)
            Lines(name) == {i \in DOMAIN page : page[i].name = name /\ page[i].value # None}
<1>1. /\ DOMAIN page = {1, 2}
      /\ page[1].name = "vllm:num_requests_waiting" /\ page[1].value = queue
      /\ page[2].name = "vllm:generation_tokens_total" /\ page[2].value = tokens
  BY DEF Page
<1>. HIDE DEF page
<1>2. /\ Lines("vllm:num_requests_waiting") = (IF queue = None THEN {} ELSE {1})
      /\ Lines("vllm:generation_tokens_total") = (IF tokens = None THEN {} ELSE {2})
  BY <1>1
<1>3. (CHOOSE i \in {1} : \A k \in {1} : k <= i) = 1 /\ (CHOOSE i \in {2} : \A k \in {2} : k <= i) = 2
  OBVIOUS
<1>4. {1} # {} /\ {2} # {}
  OBVIOUS
<1>5. Get(page, "vllm:num_requests_waiting") = queue
  BY <1>1, <1>2, <1>3, <1>4 DEF Get
<1>6. Get(page, "vllm:generation_tokens_total") = tokens
  BY <1>1, <1>2, <1>3, <1>4 DEF Get
<1>. QED BY <1>5, <1>6 DEF page

LEMMA SampleMade ==
  ASSUME NEW queue \in Says("vllm"), NEW vram \in Says("nvidia"), NEW tokens \in Nat \cup {None},
         "vllm" \notin wired => tokens = None
  PROVE  /\ ApertusSample(queue, tokens, vram) \in [Fields -> Nat \cup {None}]
         /\ ApertusSample(queue, tokens, vram).vram_mb = vram
         /\ ApertusSample(queue, tokens, vram).queue_depth = queue
         /\ ApertusSample(queue, tokens, vram).generation_tokens_total = tokens
<1>. DEFINE V == IF "vllm" \in wired THEN VllmSample(queue, tokens) ELSE Empty
            N == IF "nvidia" \in wired THEN NvidiaSample(vram) ELSE Empty
<1>0. /\ queue \in Nat \cup {None} /\ ("vllm" \notin wired => queue = None)
      /\ vram \in Nat \cup {None} /\ ("nvidia" \notin wired => vram = None)
      /\ None \notin Nat
  BY SaysNumbers, MetricsConstantsOK DEF Sources
<1>1. /\ V \in [Fields -> Nat \cup {None}]
      /\ V["vram_mb"] = None /\ V["queue_depth"] = queue
      /\ V["generation_tokens_total"] = tokens
  <2>1. CASE "vllm" \in wired
    <3>1. VllmSample(queue, tokens) =
            [Empty EXCEPT !.queue_depth = queue, !.generation_tokens_total = tokens]
      BY <1>0, GetLine DEF VllmSample
    <3>. QED BY <1>0, <2>1, <3>1 DEF Empty, Fields
  <2>2. CASE "vllm" \notin wired
    BY <1>0, <2>2 DEF Empty, Fields
  <2>. QED BY <2>1, <2>2
<1>2. /\ N \in [Fields -> Nat \cup {None}]
      /\ N["vram_mb"] = vram /\ N["queue_depth"] = None /\ N["generation_tokens_total"] = None
  BY <1>0 DEF NvidiaSample, Empty, Fields
<1>. HIDE DEF V, N
<1>3. ApertusSample(queue, tokens, vram) = [f \in Fields |-> IF N[f] # None THEN N[f] ELSE V[f]]
  BY DEF ApertusSample, Merge, V, N
<1>. QED BY <1>0, <1>1, <1>2, <1>3 DEF Fields

LEMMA TickStep == TickInv /\ [Next]_vars => TickInv'
<1>. SUFFICES ASSUME TickInv, [Next]_vars PROVE TickInv'
  OBVIOUS
<1>0. TickTypes
  BY DEF TickInv
<1>1. ASSUME NEW queue \in Says("vllm"), NEW counted \in Counts, NEW vram \in Says("nvidia"),
             NEW count \in Says("docker"), Tick(queue, counted, vram, count)
      PROVE  TickInv'
  <2>. DEFINE n == Len(answers)
              tokens == IF counted THEN served' - lost ELSE None
              a == [docker |-> count, vram |-> vram, queue |-> queue, tokens |-> tokens,
                    served |-> served', lost |-> lost]
              s == [time |-> clock', sample |-> ApertusSample(queue, tokens, vram)]
  <2>1. /\ clock' \in Nat /\ clock' >= clock /\ served' >= served /\ served' \in Nat /\ lost' = lost
        /\ lost \in Nat /\ lost <= served' /\ served' - lost \in Nat
    <3>1. clock \in Nat /\ served \in Nat /\ lost \in Nat /\ lost <= served
      BY <1>0 DEF TickTypes
    <3>2. /\ \E step \in Steps : clock' = clock + step
          /\ served' \in {served, served + 1} /\ lost' = lost
      BY <1>1 DEF Tick
    <3>3. clock' \in Nat /\ clock' >= clock
      BY <3>1, <3>2, MetricsConstantsOK
    <3>4. served' = served \/ served' = served + 1
      BY <3>2
    <3>5. served' \in Nat /\ served' >= served /\ lost <= served' /\ served' - lost \in Nat
      BY <3>1, <3>4
    <3>. QED BY <3>1, <3>2, <3>3, <3>5
  <2>2. samples' = Append(samples, s) /\ answers' = Append(answers, a)
    BY <1>1 DEF Tick
  <2>3. /\ queue \in Nat \cup {None} /\ ("vllm" \notin wired => queue = None)
        /\ vram \in Nat \cup {None} /\ ("nvidia" \notin wired => vram = None)
        /\ count \in Nat \cup {None}
        /\ tokens \in Nat \cup {None} /\ ("vllm" \notin wired => tokens = None)
        /\ tokens # None => tokens = served' - lost
    BY <2>1, SaysNumbers, CountsWired DEF Sources
  <2>. HIDE DEF tokens
  <2>4. /\ a \in Answer /\ a.vram = vram /\ a.queue = queue /\ a.tokens = tokens
        /\ a.served = served' /\ a.lost = lost
    BY <2>1, <2>3 DEF Answer
  <2>5. /\ s \in Sample /\ s.time = clock'
        /\ s.sample.vram_mb = vram /\ s.sample.queue_depth = queue
        /\ s.sample.generation_tokens_total = tokens
    BY <2>1, <2>3, SampleMade DEF Sample
  <2>. HIDE DEF a, s
  <2>6. Told(s, a)
    BY <2>1, <2>3, <2>4, <2>5 DEF Told
  <2>7. /\ n \in Nat /\ Len(answers') = n + 1 /\ Len(samples') = n + 1
        /\ DOMAIN answers = 1..n /\ DOMAIN answers' = 1..(n + 1)
        /\ samples' \in Seq(Sample) /\ answers' \in Seq(Answer)
        /\ samples'[n + 1] = s /\ answers'[n + 1] = a
        /\ \A i \in 1..n : samples'[i] = samples[i] /\ answers'[i] = answers[i]
    BY <1>0, <2>2, <2>4, <2>5 DEF TickTypes
  <2>8. \A i \in 1..n : /\ samples[i].time \in Nat /\ answers[i].served \in Nat /\ answers[i].lost \in Nat
                        /\ samples[i].time <= clock /\ answers[i].served <= served /\ answers[i].lost <= lost
    <3>1. \A i \in 1..n : samples[i] \in Sample /\ answers[i] \in Answer
      BY <1>0 DEF TickTypes
    <3>. QED BY <2>7, <3>1 DEF TickInv, Sample, Answer
  <2>. HIDE DEF n
  <2>9. TickTypes'
    BY <1>0, <2>1, <2>7 DEF TickTypes
  <2>10. \A i \in 1..(n + 1) : i \in 1..n \/ i = n + 1
    BY <2>7
  <2>11. \A i \in DOMAIN answers' : Told(samples'[i], answers'[i])
    <3>1. \A i \in 1..n : Told(samples'[i], answers'[i])
      BY <2>7 DEF TickInv
    <3>2. Told(samples'[n + 1], answers'[n + 1])
      BY <2>6, <2>7
    <3>. QED BY <2>7, <2>10, <3>1, <3>2
  <2>12. \A i \in DOMAIN answers' :
           samples'[i].time <= clock' /\ answers'[i].served <= served' /\ answers'[i].lost <= lost'
    <3>1. ASSUME NEW i \in 1..n
          PROVE  samples'[i].time <= clock' /\ answers'[i].served <= served' /\ answers'[i].lost <= lost'
      <4>1. samples'[i] = samples[i] /\ answers'[i] = answers[i]
        BY <2>7
      <4>2. clock \in Nat /\ served \in Nat /\ lost \in Nat
        BY <1>0 DEF TickTypes
      <4>3. samples[i].time <= clock' /\ answers[i].served <= served' /\ answers[i].lost <= lost'
        BY <2>1, <2>8, <4>2
      <4>. QED BY <4>1, <4>3
    <3>2. samples'[n + 1].time <= clock' /\ answers'[n + 1].served <= served' /\ answers'[n + 1].lost <= lost'
      BY <2>1, <2>4, <2>5, <2>7
    <3>. QED BY <2>7, <2>10, <3>1, <3>2
  <2>13. ASSUME NEW i \in DOMAIN answers', NEW k \in DOMAIN answers', i <= k
         PROVE  Before(samples'[i], answers'[i], samples'[k], answers'[k])
    <3>1. CASE k \in 1..n
      <4>1. i \in 1..n
        BY <2>7, <2>13, <3>1
      <4>. QED BY <2>7, <2>13, <3>1, <4>1 DEF TickInv
    <3>2. CASE k = n + 1
      BY <2>4, <2>5, <2>7, <2>12, <2>1, <3>2 DEF Before
    <3>. QED BY <2>7, <2>10, <3>1, <3>2
  <2>. QED BY <2>9, <2>11, <2>12, <2>13 DEF TickInv
<1>2. CASE NewProcess
  BY <1>0, <1>2 DEF TickInv, TickTypes, NewProcess
<1>3. CASE Restart
  <2>1. UNCHANGED <<samples, answers, clock, served>> /\ lost' = served
    BY <1>3 DEF Restart, notes, truth
  <2>2. \A i \in DOMAIN answers : answers[i].lost <= served
    <3>1. \A i \in DOMAIN answers : answers[i] \in Answer
      BY <1>0 DEF TickTypes
    <3>2. \A i \in DOMAIN answers : answers[i].lost \in Nat /\ answers[i].lost <= lost
      BY <3>1 DEF TickInv, Answer
    <3>. QED BY <1>0, <3>2 DEF TickTypes
  <2>3. TickTypes'
    BY <1>0, <2>1 DEF TickTypes
  <2>. QED BY <2>1, <2>2, <2>3 DEF TickInv
<1>4. CASE UNCHANGED <<samples, answers, clock, served, lost>>
  BY <1>0, <1>4 DEF TickInv, TickTypes
<1>5. ASSUME NEW j, NEW st, ObserveState(j, st) PROVE UNCHANGED <<samples, answers, clock, served, lost>>
  BY <1>5 DEF ObserveState
<1>6. ASSUME NEW tool, NEW latency, TimedCall(tool, latency)
      PROVE  UNCHANGED <<samples, answers, clock, served, lost>>
  BY <1>6 DEF TimedCall, world, truth
<1>7. ASSUME NEW uri, NEW found, ObserveArtifact(uri, found)
      PROVE  UNCHANGED <<samples, answers, clock, served, lost>>
  BY <1>7 DEF ObserveArtifact, world, notes
<1>8. UNCHANGED <<notes, world, truth>> => UNCHANGED <<samples, answers, clock, served, lost>>
  BY DEF notes, world, truth
<1>. QED BY <1>1, <1>2, <1>3, <1>4, <1>5, <1>6, <1>7, <1>8, NoteSteps, Zenon

LEMMA TickStart == Init => TickInv
BY MetricsConstantsOK DEF Init, MetricsInit, TickInv, TickTypes

\* Readings are the ticks at which vLLM said how many tokens it has generated.
LEMMA ReadingsAre ==
  ASSUME TickInv
  PROVE  /\ Readings = {i \in DOMAIN answers : answers[i].tokens # None}
         /\ Readings \in SUBSET Int /\ IsFiniteSet(Readings)
<1>1. DOMAIN samples = DOMAIN answers /\ DOMAIN answers = 1..Len(answers) /\ Len(answers) \in Nat
  BY DEF TickInv, TickTypes
<1>5. Readings = {i \in DOMAIN answers : answers[i].tokens # None}
  BY <1>1 DEF Readings, Measured, TickInv, Told
<1>6. Readings \in SUBSET (1..Len(answers))
  BY <1>1, <1>5
<1>7. IsFiniteSet(1..Len(answers)) /\ 1..Len(answers) \subseteq Int
  BY <1>1, FS_Interval
<1>. QED BY <1>5, <1>6, <1>7, FS_Subset

\* The tokens per second are never more than were generated, and exact unless
\* vLLM was restarted, whatever scrapes fail (instrument.py:383-395).
THEOREM RateIsHonest == Spec => []RateNeverFlatters
<1>1. TickInv => RateNeverFlatters
  <2>. SUFFICES ASSUME TickInv, MeanRate # None
                PROVE  LET made == answers[Latest].served - answers[First].served IN
                       /\ First < Latest
                       /\ MeanRate[2] = samples[Latest].time - samples[First].time
                       /\ MeanRate[1] <= made
                       /\ answers[Latest].lost = answers[First].lost => MeanRate[1] = made
    BY DEF RateNeverFlatters
  <2>1. Cardinality(Readings) >= 2 /\ Elapsed > 0
    BY DEF MeanRate
  <2>2. Readings # {}
    BY <2>1, FS_EmptySet
  <2>3. First \in Readings /\ \A k \in Readings : First <= k
    BY <2>2, ReadingsAre, LeastExists DEF First
  <2>4. Latest \in Readings /\ \A k \in Readings : k <= Latest
    BY <2>2, ReadingsAre, GreatestExists DEF Latest
  <2>5. /\ First \in DOMAIN answers /\ Latest \in DOMAIN answers
        /\ answers[First].tokens # None /\ answers[Latest].tokens # None
    BY <2>3, <2>4, ReadingsAre
  <2>6. First <= Latest
    BY <2>3, <2>4
  <2>7. First \in Int /\ Latest \in Int
    BY <2>3, <2>4, ReadingsAre
  <2>. DEFINE s1 == samples[First] s2 == samples[Latest] a1 == answers[First] a2 == answers[Latest]
  <2>8. s1 \in Sample /\ s2 \in Sample /\ a1 \in Answer /\ a2 \in Answer
    BY <2>5 DEF TickInv, TickTypes
  <2>9. Told(s1, a1) /\ Told(s2, a2) /\ Before(s1, a1, s2, a2)
    BY <2>5, <2>6 DEF TickInv
  <2>10. Elapsed = s2.time - s1.time
    BY DEF Elapsed
  <2>11. MeanRate = <<s2.sample.generation_tokens_total - s1.sample.generation_tokens_total, Elapsed>>
    BY <2>1 DEF MeanRate
  <2>12. First # Latest
    <3>1. ASSUME First = Latest PROVE FALSE
      <4>1. s1 = s2
        BY <3>1
      <4>2. s1.time \in Nat
        BY <2>8 DEF Sample
      <4>. HIDE DEF s1, s2
      <4>. QED BY <2>1, <2>10, <4>1, <4>2
    <3>. QED BY <3>1
  <2>13. First < Latest
    BY <2>6, <2>7, <2>12
  <2>. HIDE DEF s1, s2, a1, a2
  <2>14. /\ a1.served \in Nat /\ a1.lost \in Nat /\ a2.served \in Nat /\ a2.lost \in Nat
         /\ a1.lost <= a2.lost
         /\ s1.sample.generation_tokens_total = a1.served - a1.lost
         /\ s2.sample.generation_tokens_total = a2.served - a2.lost
    BY <2>5, <2>8, <2>9 DEF Told, Before, Answer, a1, a2
  <2>15. MeanRate[1] = (a2.served - a2.lost) - (a1.served - a1.lost) /\ MeanRate[2] = Elapsed
    BY <2>11, <2>14
  <2>16. /\ MeanRate[1] <= a2.served - a1.served
         /\ a2.lost = a1.lost => MeanRate[1] = a2.served - a1.served
    BY <2>14, <2>15
  <2>. QED BY <2>10, <2>13, <2>15, <2>16 DEF s1, s2, a1, a2
<1>. QED BY <1>1, TickStart, TickStep, PTL DEF Spec

-----------------------------------------------------------------------------
(***************************************************************************)
(* The container counts: those the probe got, in order.                    *)
(***************************************************************************)
Asked    == {i \in DOMAIN answers : answers[i].docker # None}
Heard    == {answers[i].docker : i \in DOMAIN answers} \ {None}
Sampled  == {container_samples[i] : i \in DOMAIN container_samples}

DockerInv ==
  /\ TickInv
  /\ container_samples \in Seq(Nat)
  /\ IsFiniteSet(Asked) /\ Cardinality(Asked) = Len(container_samples)
  /\ Sampled = Heard

\* What a set of values of a sequence becomes with one more.
LEMMA OneSaid ==
  ASSUME TickTypes, NEW a \in Answer, answers' = Append(answers, a)
  PROVE  /\ a.docker # None => /\ Asked' = Asked \cup {Len(answers) + 1}
                               /\ Heard' = Heard \cup {a.docker}
         /\ a.docker = None => Asked' = Asked /\ Heard' = Heard
         /\ Len(answers) + 1 \notin Asked
<1>. DEFINE n == Len(answers)
<1>1. /\ n \in Nat /\ DOMAIN answers = 1..n /\ DOMAIN answers' = 1..(n + 1)
      /\ answers'[n + 1] = a /\ \A i \in 1..n : answers'[i] = answers[i]
  BY DEF TickTypes
<1>. HIDE DEF n
<1>2. \A i : i \in 1..(n + 1) <=> i \in 1..n \/ i = n + 1
  BY <1>1
<1>3. n + 1 \notin 1..n
  BY <1>1
<1>4. \A i : i \in Asked' <=> i \in Asked \/ (i = n + 1 /\ a.docker # None)
  BY <1>1, <1>2, <1>3 DEF Asked
<1>5. \A x : x \in Heard' <=> x \in Heard \/ (x = a.docker /\ a.docker # None)
  <2>1. \A x : x \in Heard <=> x # None /\ \E i \in 1..n : x = answers[i].docker
    BY <1>1 DEF Heard
  <2>2. \A x : x \in Heard' <=> x # None /\ \E i \in 1..(n + 1) : x = answers'[i].docker
    BY <1>1 DEF Heard
  <2>3. \A x : (\E i \in 1..(n + 1) : x = answers'[i].docker)
                 <=> (\E i \in 1..n : x = answers[i].docker) \/ x = a.docker
    BY <1>1, <1>2
  <2>4. ASSUME NEW x
        PROVE  x \in Heard' <=> x \in Heard \/ (x = a.docker /\ a.docker # None)
    <3>1. x \in Heard <=> x # None /\ \E i \in 1..n : x = answers[i].docker
      BY <2>1
    <3>2. x \in Heard' <=> x # None /\ \E i \in 1..(n + 1) : x = answers'[i].docker
      BY <2>2
    <3>3. (\E i \in 1..(n + 1) : x = answers'[i].docker)
            <=> (\E i \in 1..n : x = answers[i].docker) \/ x = a.docker
      BY <2>3
    <3>. QED BY <3>1, <3>2, <3>3, Zenon
  <2>. QED BY <2>4
<1>6. n + 1 \notin Asked
  BY <1>1, <1>3 DEF Asked
<1>7. a.docker # None => Asked' = Asked \cup {n + 1}
  BY <1>4
<1>8. a.docker # None => Heard' = Heard \cup {a.docker}
  BY <1>5
<1>9. a.docker = None => Asked' = Asked
  BY <1>4
<1>10. a.docker = None => Heard' = Heard
  BY <1>5
<1>. QED BY <1>6, <1>7, <1>8, <1>9, <1>10 DEF n

LEMMA OneSampled ==
  ASSUME container_samples \in Seq(Nat), NEW count \in Nat,
         container_samples' = Append(container_samples, count)
  PROVE  /\ container_samples' \in Seq(Nat) /\ Len(container_samples') = Len(container_samples) + 1
         /\ Sampled' = Sampled \cup {count}
<1>. DEFINE n == Len(container_samples)
<1>1. /\ n \in Nat /\ DOMAIN container_samples = 1..n /\ DOMAIN container_samples' = 1..(n + 1)
      /\ container_samples' \in Seq(Nat) /\ Len(container_samples') = n + 1
      /\ container_samples'[n + 1] = count
      /\ \A i \in 1..n : container_samples'[i] = container_samples[i]
  OBVIOUS
<1>. HIDE DEF n
<1>2. \A i : i \in 1..(n + 1) <=> i \in 1..n \/ i = n + 1
  BY <1>1
<1>3. \A x : x \in Sampled <=> \E i \in 1..n : x = container_samples[i]
  BY <1>1 DEF Sampled
<1>4. \A x : x \in Sampled' <=> \E i \in 1..(n + 1) : x = container_samples'[i]
  BY <1>1 DEF Sampled
<1>5. \A x : x \in Sampled' <=> x \in Sampled \/ x = count
  BY <1>1, <1>2, <1>3, <1>4
<1>. QED BY <1>1, <1>5 DEF n

LEMMA DockerStep == DockerInv /\ [Next]_vars => DockerInv'
<1>. SUFFICES ASSUME DockerInv, [Next]_vars PROVE DockerInv'
  OBVIOUS
<1>0. TickInv' /\ TickTypes /\ container_samples \in Seq(Nat) /\ IsFiniteSet(Asked)
      /\ Cardinality(Asked) = Len(container_samples) /\ Len(container_samples) \in Nat
      /\ Sampled = Heard
  BY TickStep DEF DockerInv, TickInv
<1>1. ASSUME NEW queue \in Says("vllm"), NEW counted \in Counts, NEW vram \in Says("nvidia"),
             NEW count \in Says("docker"), Tick(queue, counted, vram, count)
      PROVE  DockerInv'
  <2>. DEFINE tokens == IF counted THEN served' - lost ELSE None
              a == [docker |-> count, vram |-> vram, queue |-> queue, tokens |-> tokens,
                    served |-> served', lost |-> lost]
  <2>1. answers' = Append(answers, a) /\ a.docker = count
    BY <1>1 DEF Tick
  <2>2. /\ count \in Nat \cup {None} /\ ("docker" \notin wired => count = None)
        /\ queue \in Nat \cup {None} /\ vram \in Nat \cup {None}
        /\ None \notin Nat
    BY SaysNumbers, MetricsConstantsOK DEF Sources
  <2>3. a.docker = count
    BY <2>1
  <2>4. a \in Answer
    <3>1. served' \in Nat /\ lost \in Nat /\ tokens \in Nat \cup {None}
      <4>1. served' \in Nat /\ lost \in Nat /\ lost <= served'
        BY <1>0, <1>1 DEF Tick, TickInv, TickTypes
      <4>. HIDE DEF tokens, a
      <4>2. \A n, m \in Nat : m <= n => n - m \in Nat
        OBVIOUS
      <4>3. served' - lost \in Nat
        BY <4>1, <4>2, Zenon
      <4>. QED BY <4>1, <4>3 DEF tokens
    <3>. HIDE DEF tokens
    <3>. QED BY <2>2, <3>1 DEF Answer
  <2>. HIDE DEF a
  <2>5. CASE count = None
    <3>1. UNCHANGED container_samples
      BY <1>1, <2>5 DEF Tick, SampleContainers
    <3>2. Asked' = Asked /\ Heard' = Heard
      BY <1>0, <2>1, <2>3, <2>4, <2>5, OneSaid
    <3>3. Sampled' = Sampled
      BY <3>1 DEF Sampled
    <3>. QED BY <1>0, <3>1, <3>2, <3>3 DEF DockerInv
  <2>6. CASE count # None
    <3>1. count \in Nat /\ container_samples' = Append(container_samples, count)
      BY <1>1, <2>2, <2>6 DEF Tick, SampleContainers
    <3>2. /\ Asked' = Asked \cup {Len(answers) + 1} /\ Heard' = Heard \cup {count}
          /\ Len(answers) + 1 \notin Asked
      BY <1>0, <2>1, <2>3, <2>4, <2>6, OneSaid
    <3>3. /\ container_samples' \in Seq(Nat) /\ Len(container_samples') = Len(container_samples) + 1
          /\ Sampled' = Sampled \cup {count}
      BY <1>0, <3>1, OneSampled
    <3>4. IsFiniteSet(Asked') /\ Cardinality(Asked') = Cardinality(Asked) + 1
      BY <1>0, <3>2, FS_AddElement
    <3>5. Sampled' = Heard'
      BY <1>0, <3>2, <3>3
    <3>6. Cardinality(Asked') = Len(container_samples')
      BY <1>0, <3>3, <3>4
    <3>. QED BY <1>0, <3>3, <3>4, <3>5, <3>6 DEF DockerInv
  <2>. QED BY <2>5, <2>6
<1>2. CASE NewProcess
  <2>1. answers' = <<>> /\ container_samples' = <<>>
    BY <1>2 DEF NewProcess
  <2>2. Asked' = {} /\ Heard' = {} /\ Sampled' = {}
    BY <2>1 DEF Asked, Heard, Sampled
  <2>3. container_samples' \in Seq(Nat) /\ Len(container_samples') = 0
    BY <2>1
  <2>. QED BY <1>0, <2>2, <2>3, FS_EmptySet DEF DockerInv
<1>3. CASE UNCHANGED <<answers, container_samples>>
  BY <1>0, <1>3 DEF DockerInv, Asked, Heard, Sampled
<1>4. ASSUME NEW j, NEW st, ObserveState(j, st) PROVE UNCHANGED <<answers, container_samples>>
  BY <1>4 DEF ObserveState
<1>5. ASSUME NEW tool, NEW latency, TimedCall(tool, latency) PROVE UNCHANGED <<answers, container_samples>>
  BY <1>5 DEF TimedCall, truth
<1>6. ASSUME NEW uri, NEW found, ObserveArtifact(uri, found)
      PROVE  UNCHANGED <<answers, container_samples>>
  BY <1>6 DEF ObserveArtifact, world, notes
<1>7. Restart \/ UNCHANGED <<notes, world, truth>> => UNCHANGED <<answers, container_samples>>
  BY DEF Restart, notes, truth
<1>. QED BY <1>1, <1>2, <1>3, <1>4, <1>5, <1>6, <1>7, NoteSteps, Zenon

\* Whatever sources fail and whenever, each peak is that of what was said, and
\* what nobody said is None, not zero (instrument.py:157-166,344-381).
THEOREM SideChannelsAreHonest == Spec => []SideChannelsHonest
<1>1. Init => DockerInv
  <2>. SUFFICES ASSUME Init PROVE DockerInv
    OBVIOUS
  <2>1. answers = <<>> /\ container_samples = <<>>
    BY DEF Init, MetricsInit
  <2>2. Asked = {} /\ Heard = {} /\ Sampled = {}
    BY <2>1 DEF Asked, Heard, Sampled
  <2>3. container_samples \in Seq(Nat) /\ Len(container_samples) = 0
    BY <2>1
  <2>. QED BY <2>2, <2>3, TickStart, FS_EmptySet DEF DockerInv
<1>2. DockerInv => SideChannelsHonest
  <2>. SUFFICES ASSUME DockerInv PROVE SideChannelsHonest
    OBVIOUS
  <2>1. TickInv /\ DOMAIN samples = DOMAIN answers
    BY DEF DockerInv, TickInv, TickTypes
  <2>2. PeakContainerCount = Highest({answers[i].docker : i \in DOMAIN answers} \ {None})
    BY DEF DockerInv, Sampled, Heard, PeakContainerCount
  <2>3. Len(container_samples) = Cardinality({i \in DOMAIN answers : answers[i].docker # None})
    BY DEF DockerInv, Asked
  <2>4. \A i \in DOMAIN answers :
          /\ samples[i].sample.vram_mb = answers[i].vram
          /\ samples[i].sample.queue_depth = answers[i].queue
    BY <2>1 DEF TickInv, Told
  <2>5. {samples[i].sample.vram_mb : i \in Measured("vram_mb")} =
          {answers[i].vram : i \in DOMAIN answers} \ {None}
    BY <2>1, <2>4 DEF Measured
  <2>6. {samples[i].sample.queue_depth : i \in Measured("queue_depth")} =
          {answers[i].queue : i \in DOMAIN answers} \ {None}
    BY <2>1, <2>4 DEF Measured
  <2>7. HighWater("vram_mb") = Highest({answers[i].vram : i \in DOMAIN answers} \ {None})
    BY <2>5 DEF HighWater
  <2>8. HighWater("queue_depth") = Highest({answers[i].queue : i \in DOMAIN answers} \ {None})
    BY <2>6 DEF HighWater
  <2>9. Cardinality(Readings) = Cardinality({i \in DOMAIN answers : answers[i].tokens # None})
    BY <2>1, ReadingsAre
  <2>. QED BY <2>2, <2>3, <2>7, <2>8, <2>9 DEF SideChannelsHonest
<1>. QED BY <1>1, <1>2, DockerStep, PTL DEF Spec
=============================================================================
