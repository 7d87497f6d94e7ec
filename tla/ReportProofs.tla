---------------------------- MODULE ReportProofs ----------------------------
(***************************************************************************)
(* The theorems of Campaign: what the report says is borne out by the run  *)
(* directories, for any number of runs, jobs and labels.                   *)
(***************************************************************************)
EXTENDS CampaignProofs

-----------------------------------------------------------------------------
(***************************************************************************)
(* Counting up, sums and concatenations.  The functions the community      *)
(* modules define by recursion are the only ones to satisfy their          *)
(* equations, because there is no least argument at which two differ.      *)
(***************************************************************************)
LEMMA CountUp ==
  ASSUME NEW n \in Nat, NEW S, 0 \in S, \A k \in 0..n : k \in S /\ k < n => k + 1 \in S
  PROVE  \A k \in 0..n : k \in S
<1>. DEFINE Missed == {k \in 0..n : k \notin S}
<1>. SUFFICES ASSUME Missed # {} PROVE FALSE
  OBVIOUS
<1>1. Missed \in SUBSET Int /\ IsFiniteSet(Missed)
  <2>1. IsFiniteSet(0..n) /\ Missed \in SUBSET (0..n) /\ 0..n \subseteq Int
    BY FS_Interval
  <2>. QED BY <2>1, FS_Subset
<1>2. PICK m \in Missed : \A k \in Missed : m <= k
  <2>. HIDE DEF Missed
  <2>. QED BY <1>1, LeastExists
<1>3. m # 0 /\ m - 1 \in 0..n /\ m - 1 \in S
  BY <1>2
<1>. QED BY <1>2, <1>3

Adds(f, iter) ==
  iter = [s \in SUBSET DOMAIN f |->
            IF s = {} THEN 0 ELSE LET x == CHOOSE x \in s : TRUE IN f[x] + iter[s \ {x}]]

Grows(f, G) ==
  /\ G = [s \in SUBSET DOMAIN f |-> G[s]]
  /\ G[{}] = 0
  /\ \A s \in SUBSET DOMAIN f : \A x \in s : G[s] = f[x] + G[s \ {x}]

\* Whatever grows by f[x] with each x is the sum of f.
LEMMA SumIs == \A f, G : IsFiniteSet(DOMAIN f) /\ Grows(f, G) => SumFunction(f) = G[DOMAIN f]
<1>. SUFFICES ASSUME NEW f, NEW G, IsFiniteSet(DOMAIN f), Grows(f, G)
              PROVE  SumFunction(f) = G[DOMAIN f]
  OBVIOUS
<1>0. PICK D : D = DOMAIN f
  OBVIOUS
<1>. DEFINE h == CHOOSE iter : Adds(f, iter)
<1>1. SumFunction(f) = h[D]
  BY <1>0, Zenon DEF SumFunction, SumFunctionOnSet, FoldFunctionOnSet, MapThenFoldSet, Adds
<1>2. \A s \in SUBSET D : s # {} => (CHOOSE x \in s : TRUE) \in s
  OBVIOUS
<1>3. \A s \in SUBSET D :
        G[s] = IF s = {} THEN 0 ELSE LET x == CHOOSE x \in s : TRUE IN f[x] + G[s \ {x}]
  BY <1>0, <1>2 DEF Grows
<1>4. Adds(f, G)
  BY <1>0, <1>3, Zenon DEF Adds, Grows
<1>5. Adds(f, h)
  BY <1>4, Zenon
<1>. HIDE DEF h
<1>6. \A s \in SUBSET D :
        h[s] = IF s = {} THEN 0 ELSE LET x == CHOOSE x \in s : TRUE IN f[x] + h[s \ {x}]
  BY <1>0, <1>5 DEF Adds
<1>. DEFINE F == {s \in SUBSET D : h[s] # G[s]}
<1>7. F = {}
  <2>. SUFFICES ASSUME F # {} PROVE FALSE
    OBVIOUS
  <2>1. \A A \in F : A \subseteq D
    OBVIOUS
  <2>2. PICK A \in F : Minimal(A, F)
    <3>. HIDE DEF F
    <3>. QED BY <1>0, <2>1, SmallestSegment
  <2>3. A # {}
    BY <1>6 DEF Grows
  <2>4. PICK x \in A : x = CHOOSE y \in A : TRUE
    BY <2>3
  <2>5. A \in SUBSET D /\ A \ {x} \in SUBSET D /\ A \ {x} \subseteq A /\ A \ {x} # A
    OBVIOUS
  <2>6. h[A \ {x}] = G[A \ {x}]
    BY <2>2, <2>5, Zenon DEF Minimal
  <2>7. h[A] = f[x] + h[A \ {x}]
    BY <1>6, <2>3, <2>4, <2>5, Zenon
  <2>8. G[A] = f[x] + G[A \ {x}]
    BY <1>0, <2>5 DEF Grows
  <2>. QED BY <2>6, <2>7, <2>8
<1>8. D \in SUBSET D
  OBVIOUS
<1>. QED BY <1>0, <1>1, <1>7, <1>8

Within(A, key, s) == {a \in A : key[a] \in s}

\* A finite set is as large as the groups it is divided into are together.
LEMMA GroupsAddUp ==
  ASSUME NEW A, IsFiniteSet(A), NEW f, IsFiniteSet(DOMAIN f), NEW key \in [A -> DOMAIN f],
         \A k \in DOMAIN f : f[k] = Cardinality({a \in A : key[a] = k})
  PROVE  SumFunction(f) = Cardinality(A)
<1>0. PICK D : D = DOMAIN f
  OBVIOUS
<1>. DEFINE G == [t \in SUBSET D |-> Cardinality(Within(A, key, t))]
<1>1. G = [s \in SUBSET D |-> G[s]] /\ G[D] = Cardinality(A)
  <2>1. Within(A, key, D) = A
    BY <1>0 DEF Within
  <2>. QED BY <2>1
<1>2. G[{}] = 0
  <2>1. Within(A, key, {}) = {}
    BY DEF Within
  <2>. QED BY <2>1, FS_EmptySet
<1>6. \A t \in SUBSET D : G[t] = Cardinality(Within(A, key, t))
  OBVIOUS
<1>. HIDE DEF G
<1>3. \A s \in SUBSET D : \A x \in s : G[s] = f[x] + G[s \ {x}]
  <2>. TAKE s \in SUBSET D
  <2>. TAKE x \in s
  <2>. DEFINE P == Within(A, key, {x})
              Q == Within(A, key, s \ {x})
  <2>1. P \cup Q = Within(A, key, s) /\ P \cap Q = {} /\ P \in SUBSET A /\ Q \in SUBSET A
    BY DEF Within
  <2>2. f[x] = Cardinality(P)
    <3>1. P = {a \in A : key[a] = x}
      BY DEF Within
    <3>. QED BY <1>0, <3>1
  <2>3. G[s] = Cardinality(Within(A, key, s)) /\ G[s \ {x}] = Cardinality(Q)
    BY <1>6
  <2>7. G[s] = Cardinality(P \cup Q)
    BY <2>1, <2>3
  <2>. HIDE DEF P, Q
  <2>4. IsFiniteSet(P) /\ IsFiniteSet(Q)
    BY <2>1, FS_Subset
  <2>5. Cardinality(P \cup Q) = Cardinality(P) + Cardinality(Q) - Cardinality(P \cap Q)
    BY <2>4, FS_Union
  <2>6. Cardinality(P) \in Nat /\ Cardinality(Q) \in Nat /\ Cardinality(P \cap Q) = 0
    BY <2>1, <2>4, FS_CardinalityType, FS_EmptySet
  <2>. QED BY <2>2, <2>3, <2>5, <2>6, <2>7
<1>4. Grows(f, G)
  BY <1>0, <1>1, <1>2, <1>3 DEF Grows
<1>5. SumFunction(f) = G[D]
  BY <1>0, <1>4, SumIs, Zenon
<1>. QED BY <1>1, <1>5

ChainTo(seqs, n, g) == g = [i \in 1..n |-> IF i = 1 THEN seqs[i] ELSE g[i - 1] \o seqs[i]]

LEMMA ChainValues ==
  \A seqs, n, g :
    ChainTo(seqs, n, g) <=>
      /\ g = [i \in 1..n |-> g[i]]
      /\ \A i \in 1..n : g[i] = IF i = 1 THEN seqs[i] ELSE g[i - 1] \o seqs[i]
BY DEF ChainTo

\* FlattenSeq is a chain of concatenations.
LEMMA FlattenChain ==
  ASSUME NEW S, NEW seqs \in Seq(S), seqs # <<>>
  PROVE  \E chain : /\ FlattenSeq(seqs) = chain[Len(seqs)]
                    /\ chain[1] = seqs[1]
                    /\ \A i \in 2..Len(seqs) : chain[i] = chain[i - 1] \o seqs[i]
<1>. DEFINE N == Len(seqs)
            Good == {n \in 0..N : \E g : ChainTo(seqs, n, g)}
            h == CHOOSE flatten : ChainTo(seqs, N, flatten)
<1>0. N \in Nat /\ N # 0
  BY EmptySeq, LenProperties
<1>1. FlattenSeq(seqs) = h[N]
  BY <1>0, Zenon DEF FlattenSeq, ChainTo
<1>2. 0 \in Good
  <2>1. \A i : i \notin 1..0
    OBVIOUS
  <2>2. ChainTo(seqs, 0, [i \in 1..0 |-> seqs[i]])
    BY <2>1, ChainValues
  <2>. QED BY <1>0, <2>2
<1>3. ASSUME NEW n \in 0..N, n \in Good, n < N PROVE n + 1 \in Good
  <2>1. PICK g : ChainTo(seqs, n, g)
    BY <1>3
  <2>. DEFINE k == [i \in 1..(n + 1) |->
                      IF i <= n THEN g[i] ELSE IF i = 1 THEN seqs[i] ELSE g[i - 1] \o seqs[i]]
  <2>2. ASSUME NEW i \in 1..(n + 1) PROVE k[i] = IF i = 1 THEN seqs[i] ELSE k[i - 1] \o seqs[i]
    <3>1. k[i] = IF i = 1 THEN seqs[i] ELSE g[i - 1] \o seqs[i]
      <4>1. CASE i <= n
        <5>1. i \in 1..n /\ k[i] = g[i]
          BY <4>1
        <5>. QED BY <2>1, <5>1, ChainValues
      <4>2. CASE ~(i <= n)
        BY <4>2
      <4>. QED BY <4>1, <4>2
    <3>2. i # 1 => i - 1 \in 1..(n + 1) /\ i - 1 <= n
      OBVIOUS
    <3>3. i # 1 => k[i - 1] = g[i - 1]
      BY <3>2
    <3>. QED BY <3>1, <3>3
  <2>3. k = [i \in 1..(n + 1) |-> k[i]]
    OBVIOUS
  <2>. HIDE DEF k
  <2>4. ChainTo(seqs, n + 1, k)
    BY <2>2, <2>3, ChainValues
  <2>5. n + 1 \in 0..N
    BY <1>0, <1>3
  <2>. QED BY <2>4, <2>5
<1>4. \E g : ChainTo(seqs, N, g)
  <2>1. \A n \in 0..N : n \in Good /\ n < N => n + 1 \in Good
    BY <1>3
  <2>. HIDE DEF Good, N
  <2>2. N \in Good
    <3>1. \A n \in 0..N : n \in Good
      BY <1>0, <1>2, <2>1, CountUp
    <3>. QED BY <1>0, <3>1
  <2>. QED BY <2>2 DEF Good
<1>5. ChainTo(seqs, N, h)
  BY <1>4, Zenon
<1>. HIDE DEF h
<1>6. \A i \in 1..N : h[i] = IF i = 1 THEN seqs[i] ELSE h[i - 1] \o seqs[i]
  BY <1>5, ChainValues
<1>7. h[1] = seqs[1] /\ \A i \in 2..N : h[i] = h[i - 1] \o seqs[i]
  <2>1. 1 \in 1..N /\ \A i \in 2..N : i \in 1..N /\ i # 1
    BY <1>0
  <2>. QED BY <1>6, <2>1, Zenon
<1>. QED BY <1>1, <1>7

\* A one-to-one correspondence.
Matches(A, B, f) ==
  /\ f \in [A -> B]
  /\ \A x, y \in A : f[x] = f[y] => x = y
  /\ \A z \in B : \E x \in A : f[x] = z

LEMMA SameSize ==
  ASSUME NEW A, IsFiniteSet(A), NEW B, NEW f, Matches(A, B, f)
  PROVE  IsFiniteSet(B) /\ Cardinality(A) = Cardinality(B)
<1>1. f \in Bijection(A, B)
  BY DEF Matches, Bijection, Injection, Surjection, IsInjective
<1>2. ExistsBijection(A, B)
  BY <1>1 DEF ExistsBijection
<1>. QED BY <1>2, FS_Bijection

\* Where the elements of a sequence of sequences are, and how those of their
\* concatenation correspond to them.
Places(seqs) == UNION {{<<d, i>> : i \in DOMAIN seqs[d]} : d \in DOMAIN seqs}
PlacesTo(seqs, n) == UNION {{<<d, i>> : i \in DOMAIN seqs[d]} : d \in 1..n}
Locates(flat, seqs, P, at) ==
  /\ Matches(DOMAIN flat, P, at)
  /\ \A k \in DOMAIN flat : flat[k] = seqs[at[k][1]][at[k][2]]

LEMMA LocateMore ==
  ASSUME NEW S, NEW seqs, NEW n \in Nat, NEW flat \in Seq(S), seqs[n + 1] \in Seq(S),
         NEW at, Locates(flat, seqs, PlacesTo(seqs, n), at)
  PROVE  \E to : Locates(flat \o seqs[n + 1], seqs, PlacesTo(seqs, n + 1), to)
<1>. DEFINE more == seqs[n + 1]
            L == Len(flat)
            M == Len(more)
            P == PlacesTo(seqs, n)
            Q == PlacesTo(seqs, n + 1)
            to == [k \in 1..(L + M) |-> IF k <= L THEN at[k] ELSE <<n + 1, k - L>>]
<1>1. L \in Nat /\ M \in Nat /\ DOMAIN flat = 1..L /\ DOMAIN more = 1..M
  BY LenProperties
<1>2. /\ DOMAIN (flat \o more) = 1..(L + M)
      /\ \A k \in 1..L : (flat \o more)[k] = flat[k]
      /\ \A k \in 1..(L + M) : k > L => (flat \o more)[k] = more[k - L]
  <2>1. flat \o more \in Seq(S) /\ Len(flat \o more) = L + M
    BY ConcatProperties
  <2>2. \A k \in 1..(L + M) : (flat \o more)[k] = IF k <= L THEN flat[k] ELSE more[k - L]
    BY ConcatProperties
  <2>. QED BY <1>1, <2>1, <2>2, LenProperties
<1>3. /\ \A p : p \in P <=> \E d \in 1..n : \E i \in DOMAIN seqs[d] : p = <<d, i>>
      /\ \A p : p \in Q <=> (p \in P \/ \E i \in 1..M : p = <<n + 1, i>>)
      /\ \A p \in P : p[1] # n + 1
  <2>1. \A p : p \in P <=> \E d \in 1..n : \E i \in DOMAIN seqs[d] : p = <<d, i>>
    BY DEF PlacesTo
  <2>2. \A p : p \in Q <=> \E d \in 1..(n + 1) : \E i \in DOMAIN seqs[d] : p = <<d, i>>
    BY DEF PlacesTo
  <2>3. \A d : d \in 1..(n + 1) <=> (d \in 1..n \/ d = n + 1)
    OBVIOUS
  <2>. QED BY <1>1, <2>1, <2>2, <2>3
<1>4. /\ at \in [1..L -> P]
      /\ \A k, m \in 1..L : at[k] = at[m] => k = m
      /\ \A p \in P : \E k \in 1..L : at[k] = p
  BY <1>1 DEF Locates, Matches
<1>. HIDE DEF P, Q, L, M, more
<1>5. to \in [1..(L + M) -> Q]
  <2>1. ASSUME NEW k \in 1..(L + M) PROVE to[k] \in Q
    <3>1. k <= L => k \in 1..L /\ at[k] \in P
      BY <1>1, <1>4
    <3>2. ~(k <= L) => k - L \in 1..M
      BY <1>1
    <3>. QED BY <1>3, <3>1, <3>2
  <2>. QED BY <2>1
<1>6. ASSUME NEW k \in 1..(L + M), NEW m \in 1..(L + M), to[k] = to[m] PROVE k = m
  <2>1. k <= L => k \in 1..L /\ to[k] = at[k] /\ at[k][1] # n + 1
    BY <1>1, <1>3, <1>4
  <2>2. m <= L => m \in 1..L /\ to[m] = at[m] /\ at[m][1] # n + 1
    BY <1>1, <1>3, <1>4
  <2>3. ~(k <= L) => to[k] = <<n + 1, k - L>> /\ to[k][1] = n + 1 /\ to[k][2] = k - L
    OBVIOUS
  <2>4. ~(m <= L) => to[m] = <<n + 1, m - L>> /\ to[m][1] = n + 1 /\ to[m][2] = m - L
    OBVIOUS
  <2>. HIDE DEF to
  <2>5. CASE k <= L /\ m <= L
    BY <1>4, <1>6, <2>1, <2>2, <2>5
  <2>6. CASE ~(k <= L) /\ ~(m <= L)
    <3>1. k - L = m - L
      BY <1>6, <2>3, <2>4, <2>6
    <3>. QED BY <1>1, <3>1
  <2>. QED BY <1>6, <2>1, <2>2, <2>3, <2>4, <2>5, <2>6
<1>7. ASSUME NEW p \in Q PROVE \E k \in 1..(L + M) : to[k] = p
  <2>1. CASE p \in P
    <3>1. PICK k \in 1..L : at[k] = p
      BY <1>4, <2>1
    <3>2. k \in 1..(L + M) /\ to[k] = p
      BY <1>1, <3>1
    <3>. QED BY <3>2
  <2>2. CASE \E i \in 1..M : p = <<n + 1, i>>
    <3>1. PICK i \in 1..M : p = <<n + 1, i>>
      BY <2>2
    <3>2. L + i \in 1..(L + M) /\ ~(L + i <= L) /\ (L + i) - L = i
      BY <1>1
    <3>3. to[L + i] = p
      BY <3>1, <3>2
    <3>. QED BY <3>2, <3>3
  <2>. QED BY <1>3, <2>1, <2>2
<1>8. ASSUME NEW k \in 1..(L + M)
      PROVE  (flat \o more)[k] = seqs[to[k][1]][to[k][2]]
  <2>1. CASE k <= L
    <3>1. k \in 1..L /\ to[k] = at[k]
      BY <1>1, <2>1
    <3>. QED BY <1>1, <1>2, <3>1 DEF Locates
  <2>2. CASE ~(k <= L)
    <3>1. to[k][1] = n + 1 /\ to[k][2] = k - L /\ k > L
      BY <1>1, <2>2
    <3>. QED BY <1>2, <3>1 DEF more
  <2>. QED BY <2>1, <2>2
<1>. HIDE DEF to
<1>9. Matches(1..(L + M), Q, to)
  BY <1>5, <1>6, <1>7 DEF Matches
<1>10. Locates(flat \o more, seqs, Q, to)
  BY <1>2, <1>8, <1>9 DEF Locates
<1>. QED BY <1>10 DEF more, Q

\* The elements of a concatenation are those of its parts, each in one place.
LEMMA FlattenLocated ==
  ASSUME NEW S, NEW seqs \in Seq(Seq(S))
  PROVE  /\ FlattenSeq(seqs) \in Seq(S)
         /\ \E at : Locates(FlattenSeq(seqs), seqs, Places(seqs), at)
<1>. DEFINE N == Len(seqs)
<1>0. N \in Nat /\ DOMAIN seqs = 1..N /\ \A d \in 1..N : seqs[d] \in Seq(S)
  BY LenProperties, ElementOfSeq
<1>1. CASE seqs = <<>>
  <2>1. FlattenSeq(seqs) = <<>> /\ DOMAIN seqs = {} /\ Places(seqs) = {}
    BY <1>1 DEF FlattenSeq, Places
  <2>3. Locates(<<>>, seqs, {}, <<>>)
    BY DEF Locates, Matches
  <2>. QED BY <2>1, <2>3
<1>2. CASE seqs # <<>>
  <2>1. PICK chain : /\ FlattenSeq(seqs) = chain[N]
                     /\ chain[1] = seqs[1]
                     /\ \A i \in 2..N : chain[i] = chain[i - 1] \o seqs[i]
    BY <1>2, FlattenChain
  <2>2. N # 0
    BY <1>2, EmptySeq
  <2>. HIDE DEF N
  <2>. DEFINE OK(n) == chain[n] \in Seq(S) /\ \E at : Locates(chain[n], seqs, PlacesTo(seqs, n), at)
              Good == {n \in 0..N : n = 0 \/ OK(n)}
  <2>3. OK(1)
    <3>1. seqs[1] \in Seq(S)
      BY <1>0, <2>2
    <3>2. <<>> \in Seq(S) /\ <<>> \o seqs[1] = seqs[1]
      BY <3>1, ConcatEmptySeq
    <3>3. PlacesTo(seqs, 0) = {}
      BY DEF PlacesTo
    <3>4. Locates(<<>>, seqs, PlacesTo(seqs, 0), <<>>)
      BY <3>3 DEF Locates, Matches
    <3>5. 0 \in Nat /\ 0 + 1 = 1
      OBVIOUS
    <3>6. \E to : Locates(<<>> \o seqs[0 + 1], seqs, PlacesTo(seqs, 0 + 1), to)
      BY <3>1, <3>2, <3>4, <3>5, LocateMore
    <3>. QED BY <2>1, <3>1, <3>2, <3>5, <3>6
  <2>4. ASSUME NEW n \in 0..N, n \in Good, n < N PROVE n + 1 \in Good
    <3>1. CASE n = 0
      BY <2>2, <2>3, <2>4, <3>1, <1>0
    <3>2. CASE n # 0
      <4>1. OK(n) /\ n \in Nat /\ n + 1 \in 2..N /\ n + 1 \in 1..N /\ (n + 1) - 1 = n
        BY <1>0, <2>4, <3>2
      <4>2. chain[n + 1] = chain[n] \o seqs[n + 1] /\ seqs[n + 1] \in Seq(S)
        BY <1>0, <2>1, <4>1
      <4>3. PICK at : Locates(chain[n], seqs, PlacesTo(seqs, n), at)
        BY <4>1
      <4>4. \E to : Locates(chain[n] \o seqs[n + 1], seqs, PlacesTo(seqs, n + 1), to)
        BY <4>1, <4>2, <4>3, LocateMore
      <4>5. chain[n] \o seqs[n + 1] \in Seq(S)
        BY <4>1, <4>2, ConcatProperties
      <4>6. OK(n + 1)
        BY <4>2, <4>4, <4>5, Zenon
      <4>7. n + 1 \in 0..N
        BY <1>0, <4>1
      <4>. QED BY <4>6, <4>7
    <3>. QED BY <3>1, <3>2
  <2>5. 0 \in Good
    BY <1>0
  <2>. HIDE DEF Good
  <2>6. N \in Good
    <3>1. \A n \in 0..N : n \in Good /\ n < N => n + 1 \in Good
      BY <2>4
    <3>2. \A n \in 0..N : n \in Good
      BY <1>0, <2>5, <3>1, CountUp
    <3>. QED BY <1>0, <3>2
  <2>7. OK(N)
    BY <2>2, <2>6 DEF Good
  <2>8. Places(seqs) = PlacesTo(seqs, N)
    BY <1>0 DEF Places, PlacesTo
  <2>. QED BY <2>1, <2>7, <2>8
<1>. QED BY <1>1, <1>2

\* As many of a concatenation are of a kind as there are in its parts.
LEMMA FlattenCount ==
  ASSUME NEW S, NEW seqs \in Seq(Seq(S)), NEW X
  PROVE  /\ IsFiniteSet({k \in DOMAIN FlattenSeq(seqs) : FlattenSeq(seqs)[k] \in X})
         /\ IsFiniteSet({p \in Places(seqs) : seqs[p[1]][p[2]] \in X})
         /\ Cardinality({k \in DOMAIN FlattenSeq(seqs) : FlattenSeq(seqs)[k] \in X})
              = Cardinality({p \in Places(seqs) : seqs[p[1]][p[2]] \in X})
<1>. DEFINE flat == FlattenSeq(seqs)
            A == {k \in DOMAIN flat : flat[k] \in X}
            B == {p \in Places(seqs) : seqs[p[1]][p[2]] \in X}
<1>1. flat \in Seq(S) /\ \E at : Locates(flat, seqs, Places(seqs), at)
  BY FlattenLocated
<1>2. PICK at : Locates(flat, seqs, Places(seqs), at)
  BY <1>1
<1>. HIDE DEF flat
<1>3. IsFiniteSet(A)
  <2>1. Len(flat) \in Nat /\ DOMAIN flat = 1..Len(flat)
    BY <1>1, LenProperties
  <2>2. IsFiniteSet(1..Len(flat)) /\ A \in SUBSET (1..Len(flat))
    BY <2>1, FS_Interval
  <2>. QED BY <2>2, FS_Subset
<1>4. Matches(A, B, [k \in A |-> at[k]])
  <2>. DEFINE b == [k \in A |-> at[k]]
  <2>1. /\ at \in [DOMAIN flat -> Places(seqs)]
        /\ \A k, m \in DOMAIN flat : at[k] = at[m] => k = m
        /\ \A p \in Places(seqs) : \E k \in DOMAIN flat : at[k] = p
        /\ \A k \in DOMAIN flat : flat[k] = seqs[at[k][1]][at[k][2]]
    BY <1>2 DEF Locates, Matches
  <2>2. b \in [A -> B]
    BY <2>1
  <2>3. \A k, m \in A : b[k] = b[m] => k = m
    BY <2>1
  <2>4. \A p \in B : \E k \in A : b[k] = p
    BY <2>1
  <2>. HIDE DEF A, B, b
  <2>. QED BY <2>2, <2>3, <2>4 DEF Matches, b
<1>. HIDE DEF A, B
<1>5. IsFiniteSet(B) /\ Cardinality(A) = Cardinality(B)
  BY <1>3, <1>4, SameSize
<1>. QED BY <1>3, <1>5 DEF A, B, flat

-----------------------------------------------------------------------------
(***************************************************************************)
(* Types.                                                                  *)
(***************************************************************************)
LEMMA BudgetStep == left \in [Kinds -> Nat] /\ [Next]_vars => left' \in [Kinds -> Nat]
<1>. SUFFICES ASSUME left \in [Kinds -> Nat], [Next]_vars PROVE left' \in [Kinds -> Nat]
  OBVIOUS
<1>1. ASSUME NEW kind, Spend(kind) PROVE left' \in [Kinds -> Nat]
  <2>1. left[kind] > 0 /\ left' = [left EXCEPT ![kind] = left[kind] - 1]
    BY <1>1 DEF Spend
  <2>2. left' = [k \in Kinds |-> IF k = kind THEN left[kind] - 1 ELSE left[k]]
    BY <2>1
  <2>3. kind \in Kinds => left[kind] - 1 \in Nat
    BY <2>1
  <2>. QED BY <2>2, <2>3
<1>3. CASE Measure
  BY <1>1, <1>3 DEF Measure, ObserveState, TimedCall, ObserveArtifact, ObserveNoArtifact, Restart, Tick
<1>4. ASSUME NEW slice, NEW trace, NEW ok, RecordRun(slice, trace, ok) PROVE left' \in [Kinds -> Nat]
  BY <1>1, <1>4 DEF RecordRun
<1>5. ASSUME NEW c, RunEndsWell(c) PROVE left' \in [Kinds -> Nat]
  BY <1>1, <1>5 DEF RunEndsWell
<1>6. ASSUME NEW lines, NEW c, RunRaises(lines, c) \/ ProcessDies(lines) PROVE left' \in [Kinds -> Nat]
  BY <1>1, <1>6 DEF RunRaises, ProcessDies
<1>7. ASSUME NEW d, NEW i, NEW class, HandLabel(d, i, class) PROVE left' \in [Kinds -> Nat]
  BY <1>1, <1>7 DEF HandLabel
<1>8. CASE UNCHANGED vars
  BY <1>8 DEF vars, metricsVars
<1>. QED BY <1>3, <1>4, <1>5, <1>6, <1>7, <1>8, Zenon DEF Next

NotesTyped ==
  /\ transitions \in Seq(Jobs \X Seen)
  /\ calls \in Seq([tool : Tools, latency : Nat])
  /\ artifact_uris \in Seq(Uris)
  /\ container_samples \in Seq(Nat)
  /\ samples \in Seq([time : Nat, sample : [Fields -> Nat \cup {None}]])
WorldTyped ==
  /\ wired \in Wirings
  /\ clock \in Nat /\ served \in Nat /\ lost \in Nat /\ lost <= served
  /\ seen \in [Jobs -> Seen \cup {LC!NoJob}]
TruthTyped ==
  /\ polls \in Seq(Jobs \X Seen)
  /\ entry \in Seq(Nat)
  /\ answers \in Seq([docker : Nat \cup {None}, vram : Nat \cup {None}, queue : Nat \cup {None},
                      tokens : Nat \cup {None}, served : Nat, lost : Nat])
  /\ from_cache \in Seq(BOOLEAN)
Typed == NotesTyped /\ WorldTyped /\ TruthTyped

LEMMA MetricsTypeParts ==
  MetricsTypeOK <=> NotesTyped /\ WorldTyped /\ TruthTyped /\ left \in [Kinds -> Nat]
BY DEF MetricsTypeOK, NotesTyped, WorldTyped, TruthTyped

LEMMA MetricsTypeStart == Init => MetricsTypeOK
<1>. SUFFICES ASSUME Init PROVE MetricsTypeOK
  OBVIOUS
<1>1. NotesTyped /\ TruthTyped
  BY MetricsConstantsOK DEF Init, MetricsInit, NotesTyped, TruthTyped
<1>2. WorldTyped
  BY MetricsConstantsOK DEF Init, MetricsInit, WorldTyped
<1>3. left \in [Kinds -> Nat]
  BY MetricsConstantsOK DEF Init, MetricsInit
<1>. QED BY <1>1, <1>2, <1>3, MetricsTypeParts

LEMMA MetricsTypeStep == MetricsTypeOK /\ [Next]_vars => MetricsTypeOK'
<1>. SUFFICES ASSUME MetricsTypeOK, [Next]_vars PROVE MetricsTypeOK'
  OBVIOUS
<1>0. NotesTyped /\ WorldTyped /\ TruthTyped
  BY MetricsTypeParts
<1>1. ASSUME NEW j \in Jobs, NEW s \in Seen, ObserveState(j, s) PROVE Typed'
  <2>1. <<j, s>> \in Jobs \X Seen
    OBVIOUS
  <2>2. transitions' \in Seq(Jobs \X Seen)
    BY <1>0, <1>1, <2>1 DEF NotesTyped, ObserveState, Noted
  <2>3. NotesTyped'
    BY <1>0, <1>1, <2>2 DEF NotesTyped, ObserveState
  <2>4. WorldTyped'
    BY <1>0, <1>1 DEF WorldTyped, ObserveState
  <2>5. Len(transitions') \in Nat
    BY <2>2, LenProperties
  <2>6. TruthTyped'
    BY <1>0, <1>1, <2>1, <2>5 DEF TruthTyped, ObserveState
  <2>. QED BY <2>3, <2>4, <2>6 DEF Typed
<1>2. ASSUME NEW tool \in Tools, NEW latency \in Latencies, TimedCall(tool, latency) PROVE Typed'
  <2>1. NotesTyped'
    BY <1>0, <1>2, MetricsConstantsOK DEF NotesTyped, TimedCall
  <2>2. WorldTyped' /\ TruthTyped'
    BY <1>0, <1>2 DEF WorldTyped, TruthTyped, TimedCall, world, truth
  <2>. QED BY <2>1, <2>2 DEF Typed
<1>3. ASSUME NEW uri \in Uris, NEW found \in BOOLEAN, ObserveArtifact(uri, found) PROVE Typed'
  <2>1. NotesTyped' /\ WorldTyped'
    BY <1>0, <1>3 DEF NotesTyped, WorldTyped, ObserveArtifact, world
  <2>2. from_cache' \in Seq(BOOLEAN)
    BY <1>0, <1>3, AppendProperties DEF TruthTyped, ObserveArtifact
  <2>3. TruthTyped'
    BY <1>0, <1>3, <2>2 DEF TruthTyped, ObserveArtifact
  <2>. QED BY <2>1, <2>3 DEF Typed
<1>5. ASSUME Restart PROVE Typed'
  <2>1. NotesTyped'
    BY <1>0, <1>5 DEF NotesTyped, Restart, notes
  <2>2. WorldTyped'
    BY <1>0, <1>5 DEF WorldTyped, Restart
  <2>3. TruthTyped'
    BY <1>0, <1>5 DEF TruthTyped, Restart, truth
  <2>. QED BY <2>1, <2>2, <2>3 DEF Typed
<1>6. ASSUME NEW queue \in Says("vllm"), NEW counted \in Counts, NEW vram \in Says("nvidia"),
             NEW count \in Says("docker"), Tick(queue, counted, vram, count)
      PROVE  Typed'
  <2>. DEFINE tokens == IF counted THEN served' - lost ELSE None
              a == [docker |-> count, vram |-> vram, queue |-> queue, tokens |-> tokens,
                    served |-> served', lost |-> lost]
              s == [time |-> clock', sample |-> ApertusSample(queue, tokens, vram)]
  <2>0. samples' = Append(samples, s) /\ answers' = Append(answers, a)
    BY <1>6 DEF Tick
  <2>1. /\ queue \in Nat \cup {None} /\ vram \in Nat \cup {None} /\ count \in Nat \cup {None}
    BY SaysNumbers DEF Sources
  <2>2. /\ clock' \in Nat /\ served' \in Nat /\ lost \in Nat /\ lost <= served' /\ served' - lost \in Nat
        /\ UNCHANGED <<wired, lost, seen>>
    <3>1. /\ clock \in Nat /\ served \in Nat /\ lost \in Nat /\ lost <= served
          /\ \E step \in Steps : clock' = clock + step
          /\ served' = served \/ served' = served + 1
          /\ UNCHANGED <<wired, lost, seen>>
      BY <1>0, <1>6 DEF WorldTyped, Tick
    <3>. HIDE DEF tokens, a, s
    <3>2. clock' \in Nat
      BY <3>1, MetricsConstantsOK
    <3>3. served' \in Nat /\ lost <= served'
      BY <3>1
    <3>4. \A n, m \in Nat : m <= n => n - m \in Nat
      OBVIOUS
    <3>5. served' - lost \in Nat
      BY <3>1, <3>3, <3>4, Zenon
    <3>. QED BY <3>1, <3>2, <3>3, <3>5
  <2>3. WorldTyped'
    BY <1>0, <2>2 DEF WorldTyped
  <2>t. tokens \in Nat \cup {None} /\ ("vllm" \notin wired => tokens = None)
    BY <2>2, CountsWired
  <2>. HIDE DEF tokens
  <2>4. s \in [time : Nat, sample : [Fields -> Nat \cup {None}]]
    BY <2>2, <2>t, SampleMade
  <2>a. a \in [docker : Nat \cup {None}, vram : Nat \cup {None}, queue : Nat \cup {None},
               tokens : Nat \cup {None}, served : Nat, lost : Nat]
    BY <2>1, <2>2, <2>t
  <2>. HIDE DEF a, s
  <2>5. samples' \in Seq([time : Nat, sample : [Fields -> Nat \cup {None}]])
    BY <1>0, <2>0, <2>4, AppendProperties DEF NotesTyped
  <2>6. container_samples' \in Seq(Nat)
    BY <1>0, <1>6, <2>1 DEF NotesTyped, Tick, SampleContainers
  <2>7. NotesTyped'
    BY <1>0, <1>6, <2>5, <2>6 DEF NotesTyped, Tick
  <2>8. TruthTyped'
    <3>1. answers' \in Seq([docker : Nat \cup {None}, vram : Nat \cup {None}, queue : Nat \cup {None},
                           tokens : Nat \cup {None}, served : Nat, lost : Nat])
      BY <1>0, <2>0, <2>a, AppendProperties DEF TruthTyped
    <3>. QED BY <1>0, <1>6, <3>1 DEF TruthTyped, Tick
  <2>. QED BY <2>3, <2>7, <2>8 DEF Typed
<1>7. ASSUME NewProcess PROVE Typed'
  <2>1. NotesTyped'
    BY <1>7 DEF NotesTyped, NewProcess
  <2>2. WorldTyped'
    BY <1>0, <1>7 DEF WorldTyped, NewProcess
  <2>3. TruthTyped'
    BY <1>0, <1>7 DEF TruthTyped, WorldTyped, NewProcess
  <2>. QED BY <2>1, <2>2, <2>3 DEF Typed
<1>8. ASSUME UNCHANGED <<notes, world, truth>> PROVE Typed'
  <2>1. NotesTyped'
    BY <1>0, <1>8 DEF NotesTyped, notes
  <2>2. WorldTyped'
    BY <1>0, <1>8 DEF WorldTyped, world
  <2>3. TruthTyped'
    BY <1>0, <1>8 DEF TruthTyped, truth
  <2>. QED BY <2>1, <2>2, <2>3 DEF Typed
<1>9. Typed'
  BY <1>1, <1>2, <1>3, <1>5, <1>6, <1>7, <1>8, NoteSteps, Zenon
<1>10. left' \in [Kinds -> Nat]
  BY BudgetStep, MetricsTypeParts
<1>. QED BY <1>9, <1>10 DEF Typed, MetricsTypeOK, NotesTyped, WorldTyped, TruthTyped

\* The highest of finitely many numbers.
LEMMA HighestNumber ==
  ASSUME NEW S \in SUBSET Nat, IsFiniteSet(S)
  PROVE  /\ Highest(S) \in Number
         /\ S # {} => Highest(S) \in S /\ \A m \in S : m <= Highest(S)
<1>1. CASE S = {}
  BY <1>1 DEF Highest, Number
<1>2. CASE S # {}
  <2>1. \E n \in S : \A m \in S : m <= n
    BY <1>2, GreatestExists
  <2>2. Highest(S) = CHOOSE n \in S : \A m \in S : m <= n
    BY <1>2 DEF Highest
  <2>3. Highest(S) \in S /\ \A m \in S : m <= Highest(S)
    BY <2>1, <2>2, Zenon
  <2>. QED BY <2>3 DEF Number
<1>. QED BY <1>1, <1>2

LEMMA ValuesFinite ==
  ASSUME NEW values, IsFiniteSet(DOMAIN values)
  PROVE  IsFiniteSet({values[i] : i \in DOMAIN values})
<1>. DEFINE D == DOMAIN values
            V == {values[i] : i \in D}
            f == [i \in D |-> values[i]]
<1>1. f \in Surjection(D, V)
  BY DEF Surjection
<1>. HIDE DEF D, V, f
<1>2. IsFiniteSet(D) => IsFiniteSet(V)
  BY <1>1, ImageFinite
<1>. QED BY <1>2 DEF D, V

\* The table of latencies has whole numbers for every tool that was called.
LEMMA LatencyTyped ==
  ASSUME NEW cs \in Seq([tool : Tools, latency : Nat]), NEW tool,
         \E i \in DOMAIN cs : cs[i].tool = tool
  PROVE  LatencyStats(LatenciesOf(cs, tool)) \in Latency
<1>. DEFINE D == {k \in DOMAIN cs : cs[k].tool = tool}
            values == LatenciesOf(cs, tool)
<1>1. IsFiniteSet(D) /\ D # {}
  <2>1. DOMAIN cs = 1..Len(cs) /\ Len(cs) \in Nat
    BY LenProperties
  <2>2. IsFiniteSet(1..Len(cs)) /\ D \in SUBSET (1..Len(cs))
    BY <2>1, FS_Interval
  <2>. QED BY <2>2, FS_Subset
<1>2. values \in [D -> Nat] /\ DOMAIN values = D
  <2>1. \A i \in D : cs[i] \in [tool : Tools, latency : Nat]
    BY LenProperties, ElementOfSeq
  <2>2. \A i \in D : cs[i].latency \in Nat
    BY <2>1
  <2>. QED BY <2>2 DEF LatenciesOf
<1>. HIDE DEF D, values
<1>. DEFINE n == Cardinality(D)
<1>3. n \in Nat \ {0}
  BY <1>1, FS_CardinalityType, FS_EmptySet
<1>4. \A pct \in {50, 95, 99} : Percentile(values, pct) \in Nat
  <2>. TAKE pct \in {50, 95, 99}
  <2>. HIDE DEF n
  <2>1. Rank(pct, n) \in 1..n
    BY <1>3, RankBounds
  <2>2. Percentile(values, pct) = Smallest(values, Rank(pct, n))
    BY <1>1, <1>2 DEF Percentile, n
  <2>3. Rank(pct, n) \in 1..Cardinality(D)
    BY <2>1 DEF n
  <2>4. Smallest(values, Rank(pct, n)) \in Nat
    BY <1>1, <1>2, <2>3, SmallestExists
  <2>. QED BY <2>2, <2>4
<1>5. Highest({values[i] : i \in DOMAIN values}) \in Nat
  <2>. DEFINE V == {values[i] : i \in DOMAIN values}
  <2>1. IsFiniteSet(V)
    BY <1>1, <1>2, ValuesFinite
  <2>2. V \in SUBSET Nat /\ V # {}
    BY <1>1, <1>2
  <2>. HIDE DEF V
  <2>3. Highest(V) \in Nat
    BY <2>1, <2>2, HighestNumber
  <2>. QED BY <2>3 DEF V
<1>6. LatencyStats(values) \in Latency
  BY <1>2, <1>3, <1>4, <1>5 DEF LatencyStats, Latency
<1>. QED BY <1>6 DEF values

LEMMA ViolationsFinite ==
  ASSUME NEW cs \in Seq([tool : Tools, latency : Nat])
  PROVE  /\ Cardinality(ContractViolations(cs)) \in Nat
         /\ Cardinality(ContractViolations(cs)) > 0 <=> ContractViolations(cs) # {}
<1>1. DOMAIN cs = 1..Len(cs) /\ Len(cs) \in Nat
  BY LenProperties
<1>2. IsFiniteSet(1..Len(cs)) /\ ContractViolations(cs) \in SUBSET (1..Len(cs))
  BY <1>1, FS_Interval DEF ContractViolations
<1>3. IsFiniteSet(ContractViolations(cs))
  BY <1>2, FS_Subset
<1>. QED BY <1>3, FS_CardinalityType, FS_EmptySet

LEMMA CacheHitRateTyped == artifact_uris \in Seq(Uris) => CacheHitRate \in Rate
<1>. SUFFICES ASSUME artifact_uris \in Seq(Uris) PROVE CacheHitRate \in Rate
  OBVIOUS
<1>1. DOMAIN artifact_uris = 1..Len(artifact_uris) /\ Len(artifact_uris) \in Nat
  BY LenProperties
<1>. DEFINE again == {i \in DOMAIN artifact_uris : \E k \in 1..(i - 1) : artifact_uris[k] = artifact_uris[i]}
<1>2. IsFiniteSet(1..Len(artifact_uris)) /\ again \in SUBSET (1..Len(artifact_uris))
  BY <1>1, FS_Interval
<1>3. Cardinality(again) \in Nat
  <2>. HIDE DEF again
  <2>. QED BY <1>2, FS_Subset, FS_CardinalityType
<1>4. CacheHits \in Nat
  BY <1>3, Zenon DEF CacheHits
<1>5. artifact_uris # <<>> => Len(artifact_uris) \in Nat \ {0}
  BY <1>1, EmptySeq
<1>. QED BY <1>4, <1>5 DEF CacheHitRate, Rate

LEMMA HighWaterTyped ==
  ASSUME samples \in Seq([time : Nat, sample : [Fields -> Nat \cup {None}]]), NEW field \in Fields
  PROVE  HighWater(field) \in Number
<1>1. DOMAIN samples = 1..Len(samples) /\ Len(samples) \in Nat
  BY LenProperties
<1>. DEFINE D == Measured(field)
            f == [i \in D |-> samples[i].sample[field]]
<1>2. IsFiniteSet(D)
  <2>1. IsFiniteSet(1..Len(samples)) /\ D \in SUBSET (1..Len(samples))
    BY <1>1, FS_Interval DEF Measured
  <2>. HIDE DEF D
  <2>. QED BY <2>1, FS_Subset
<1>3. \A i \in D : samples[i].sample[field] \in Nat
  <2>1. \A i \in DOMAIN samples : samples[i] \in [time : Nat, sample : [Fields -> Nat \cup {None}]]
    BY <1>1, ElementOfSeq
  <2>2. \A i \in DOMAIN samples : samples[i].sample[field] \in Nat \cup {None}
    BY <2>1
  <2>. QED BY <2>2 DEF Measured
<1>. HIDE DEF D
<1>4. f \in [D -> Nat] /\ {f[i] : i \in DOMAIN f} = {samples[i].sample[field] : i \in D}
  BY <1>3
<1>. HIDE DEF f
<1>5. IsFiniteSet({f[i] : i \in DOMAIN f}) /\ {f[i] : i \in DOMAIN f} \in SUBSET Nat
  BY <1>2, <1>4, ValuesFinite
<1>6. Highest({f[i] : i \in DOMAIN f}) \in Number
  BY <1>5, HighestNumber
<1>. QED BY <1>4, <1>6 DEF HighWater, D

LEMMA ReadingsFinite ==
  ASSUME samples \in Seq([time : Nat, sample : [Fields -> Nat \cup {None}]])
  PROVE  /\ Readings \in SUBSET (1..Len(samples)) /\ IsFiniteSet(Readings)
         /\ \A i \in Readings : samples[i].time \in Nat /\ samples[i].sample.generation_tokens_total \in Nat
<1>1. DOMAIN samples = 1..Len(samples) /\ Len(samples) \in Nat
  BY LenProperties
<1>2. IsFiniteSet(1..Len(samples)) /\ Readings \in SUBSET (1..Len(samples))
  BY <1>1, FS_Interval DEF Readings, Measured
<1>3. IsFiniteSet(Readings)
  BY <1>2, FS_Subset
<1>4. \A i \in DOMAIN samples : samples[i] \in [time : Nat, sample : [Fields -> Nat \cup {None}]]
  BY <1>1, ElementOfSeq
<1>5. \A i \in DOMAIN samples : samples[i].time \in Nat
                               /\ samples[i].sample["generation_tokens_total"] \in Nat \cup {None}
  BY <1>4 DEF Fields
<1>. QED BY <1>2, <1>3, <1>5 DEF Readings, Measured

LEMMA MeanRateTyped ==
  samples \in Seq([time : Nat, sample : [Fields -> Nat \cup {None}]]) => MeanRate \in Rate
<1>. SUFFICES ASSUME samples \in Seq([time : Nat, sample : [Fields -> Nat \cup {None}]]),
                     Cardinality(Readings) >= 2, Elapsed > 0
              PROVE  MeanRate \in Rate
  BY DEF MeanRate, Rate
<1>1. Readings # {} /\ Readings \in SUBSET Int /\ IsFiniteSet(Readings)
  BY FS_EmptySet, ReadingsFinite
<1>2. First \in Readings
  BY <1>1, LeastExists DEF First
<1>3. Latest \in Readings
  BY <1>1, GreatestExists DEF Latest
<1>4. /\ samples[First].time \in Nat /\ samples[First].sample.generation_tokens_total \in Nat
      /\ samples[Latest].time \in Nat /\ samples[Latest].sample.generation_tokens_total \in Nat
  BY <1>2, <1>3, ReadingsFinite
<1>5. Elapsed \in Nat \ {0}
  <2>1. Elapsed = samples[Latest].time - samples[First].time
    BY DEF Elapsed
  <2>2. Elapsed \in Int
    BY <1>4, <2>1
  <2>. QED BY <2>2
<1>6. MeanRate = <<samples[Latest].sample.generation_tokens_total
                     - samples[First].sample.generation_tokens_total, Elapsed>>
  BY DEF MeanRate
<1>7. samples[Latest].sample.generation_tokens_total
        - samples[First].sample.generation_tokens_total \in Int
  <2>1. \A a, b \in Nat : a - b \in Int
    OBVIOUS
  <2>. QED BY <1>4, <2>1, Zenon
<1>. QED BY <1>5, <1>6, <1>7, Zenon DEF Rate

ToolsOf(cs) == {cs[i].tool : i \in DOMAIN cs}

\* metrics.json has the fields and the types the analysis reads.
LEMMA SummaryTyped ==
  ASSUME MetricsTypeOK, NEW cs \in Seq([tool : Tools, latency : Nat])
  PROVE  /\ ToolsOf(cs) \in SUBSET Tools
         /\ Summary(cs) \in MetricsFile(ToolsOf(cs))
<1>0. /\ transitions \in Seq(Jobs \X Seen)
      /\ artifact_uris \in Seq(Uris)
      /\ container_samples \in Seq(Nat)
      /\ samples \in Seq([time : Nat, sample : [Fields -> Nat \cup {None}]])
  BY DEF MetricsTypeOK
<1>1. ToolsOf(cs) \in SUBSET Tools
  <2>1. \A i \in DOMAIN cs : cs[i] \in [tool : Tools, latency : Nat]
    BY LenProperties, ElementOfSeq
  <2>. QED BY <2>1 DEF ToolsOf
<1>2. LatencyByTool(cs) \in [ToolsOf(cs) -> Latency]
  <2>1. \A tool \in ToolsOf(cs) : LatencyStats(LatenciesOf(cs, tool)) \in Latency
    <3>. TAKE tool \in ToolsOf(cs)
    <3>1. \E i \in DOMAIN cs : cs[i].tool = tool
      BY DEF ToolsOf
    <3>. QED BY <3>1, LatencyTyped
  <2>2. LatencyByTool(cs) = [tool \in ToolsOf(cs) |-> LatencyStats(LatenciesOf(cs, tool))]
    BY DEF LatencyByTool, ToolsOf
  <2>. QED BY <2>1, <2>2
<1>3. Cardinality(ContractViolations(cs)) \in Nat
  BY ViolationsFinite
<1>4. CacheHitRate \in Rate /\ MeanRate \in Rate
  BY <1>0, CacheHitRateTyped, MeanRateTyped
<1>5. {transitions[i][2] : i \in DOMAIN transitions} \in SUBSET Seen /\ Len(transitions) \in Nat
  <2>1. \A i \in DOMAIN transitions : transitions[i] \in Jobs \X Seen
    BY <1>0, LenProperties, ElementOfSeq
  <2>. QED BY <1>0, <2>1, LenProperties
<1>6. Len(container_samples) \in Nat /\ PeakContainerCount \in Number
  <2>1. IsFiniteSet(DOMAIN container_samples)
    BY <1>0, LenProperties, FS_Interval
  <2>2. IsFiniteSet({container_samples[i] : i \in DOMAIN container_samples})
    BY <2>1, ValuesFinite
  <2>3. {container_samples[i] : i \in DOMAIN container_samples} \in SUBSET Nat
    BY <1>0, LenProperties, ElementOfSeq
  <2>4. PeakContainerCount \in Number
    BY <2>2, <2>3, HighestNumber DEF PeakContainerCount
  <2>. QED BY <1>0, <2>4, LenProperties
<1>7. HighWater("vram_mb") \in Number /\ HighWater("queue_depth") \in Number /\ Len(samples) \in Nat
  <2>1. "vram_mb" \in Fields /\ "queue_depth" \in Fields
    BY DEF Fields
  <2>. QED BY <1>0, <2>1, HighWaterTyped, LenProperties
<1>8. (IF "docker" \in wired
       THEN [observable |-> TRUE, samples |-> Len(container_samples), peak |-> PeakContainerCount]
       ELSE [observable |-> FALSE])
        \in [observable : {TRUE}, samples : Nat, peak : Number] \cup [observable : {FALSE}]
  BY <1>6
<1>9. (IF ApertusObservable
       THEN [observable |-> TRUE, samples |-> Len(samples), vram_high_water_mb |-> HighWater("vram_mb"),
             peak_queue_depth |-> HighWater("queue_depth"), mean_tok_per_s |-> MeanRate]
       ELSE [observable |-> FALSE])
        \in [observable : {TRUE}, samples : Nat, vram_high_water_mb : Number, peak_queue_depth : Number,
             mean_tok_per_s : Rate] \cup [observable : {FALSE}]
  BY <1>4, <1>7
<1>. QED BY <1>1, <1>2, <1>3, <1>4, <1>5, <1>8, <1>9, Zenon DEF Summary, MetricsFile

-----------------------------------------------------------------------------
(***************************************************************************)
(* The run directories.  What is known of a run that is over: whether its  *)
(* metrics show a breach, and when their rate is a true one; of one that   *)
(* raised, that they show no latency, and of one that has its run.json,    *)
(* that its process did not die and that they are there.                   *)
(***************************************************************************)
JobRun == {r \in RunRecord : r.first <=> (r.succeeded /\ r.attempts <= 1)}
Directory(tools) == [runs : Seq(JobRun), attempts : Seq(AttemptRecord),
                     metrics : MetricsFile(tools) \cup {None}, concurrency : Concurrencies \cup {None}]
Directories == UNION {Directory(tools) : tools \in SUBSET Tools}

Shows(dir, fate) ==
  /\ Breaches(dir) > 0 <=> (fate.drained /\ fate.slow)
  /\ MeanTok(dir) # None /\ ~fate.restarted => MeanTok(dir)[1] >= 0
  /\ dir.concurrency # None => fate.how # "killed" /\ dir.metrics # None
  /\ fate.how = "raised" => OverallP95(dir) = None

ReportInv ==
  /\ fates \in Seq(Fate) /\ dirs \in Seq(Directories)
  /\ Len(dirs) = Len(fates) + 1
  /\ dirs[Len(dirs)].metrics = None /\ dirs[Len(dirs)].concurrency = None
  /\ \A d \in DOMAIN fates : Shows(dirs[d], fates[d])

LEMMA DirectoryFields ==
  \A dir : dir \in Directories <=>
    \E tools \in SUBSET Tools :
      /\ dir = [runs |-> dir.runs, attempts |-> dir.attempts,
                metrics |-> dir.metrics, concurrency |-> dir.concurrency]
      /\ dir.runs \in Seq(JobRun) /\ dir.attempts \in Seq(AttemptRecord)
      /\ dir.metrics \in MetricsFile(tools) \cup {None}
      /\ dir.concurrency \in Concurrencies \cup {None}
<1>1. \A dir : dir \in Directories <=> \E tools \in SUBSET Tools : dir \in Directory(tools)
  BY DEF Directories
<1>2. ASSUME NEW dir, NEW tools
      PROVE  dir \in Directory(tools) <=>
               /\ dir = [runs |-> dir.runs, attempts |-> dir.attempts,
                         metrics |-> dir.metrics, concurrency |-> dir.concurrency]
               /\ dir.runs \in Seq(JobRun) /\ dir.attempts \in Seq(AttemptRecord)
               /\ dir.metrics \in MetricsFile(tools) \cup {None}
               /\ dir.concurrency \in Concurrencies \cup {None}
  BY DEF Directory
<1>. QED BY <1>1, <1>2

LEMMA NewDirTyped == NewDir \in Directories
<1>1. <<>> \in Seq(JobRun) /\ <<>> \in Seq(AttemptRecord)
  OBVIOUS
<1>2. NewDir \in Directory({})
  BY <1>1 DEF NewDir, Directory
<1>. QED BY <1>2 DEF Directories

LEMMA ReportShape ==
  ASSUME ReportInv
  PROVE  /\ Len(fates) \in Nat /\ DOMAIN fates = 1..Len(fates)
         /\ Now = Len(fates) + 1 /\ Now \in DOMAIN dirs /\ DOMAIN dirs = 1..Now
         /\ \A d \in DOMAIN fates : d \in DOMAIN dirs /\ d # Now /\ fates[d] \in Fate
         /\ \A d \in DOMAIN dirs : dirs[d] \in Directories /\ (d \in DOMAIN fates \/ d = Now)
<1>1. /\ Len(fates) \in Nat /\ DOMAIN fates = 1..Len(fates)
      /\ Len(dirs) \in Nat /\ DOMAIN dirs = 1..Len(dirs)
  BY LenProperties DEF ReportInv
<1>2. \A d \in DOMAIN fates : fates[d] \in Fate
  BY <1>1, ElementOfSeq DEF ReportInv
<1>3. \A d \in DOMAIN dirs : dirs[d] \in Directories
  BY <1>1, ElementOfSeq DEF ReportInv
<1>4. Len(dirs) = Len(fates) + 1 /\ Now = Len(dirs)
  BY DEF ReportInv, Now
<1>. QED BY <1>1, <1>2, <1>3, <1>4

\* A directory gets a line or a label.
LEMMA DirectoryEdited ==
  ASSUME ReportInv, NEW d \in DOMAIN dirs, NEW edited \in Directories,
         edited.metrics = dirs[d].metrics, edited.concurrency = dirs[d].concurrency,
         dirs' = [dirs EXCEPT ![d] = edited], UNCHANGED fates
  PROVE  ReportInv'
<1>1. dirs' \in Seq(Directories) /\ Len(dirs') = Len(dirs) /\ DOMAIN dirs' = DOMAIN dirs
  BY ExceptSeq DEF ReportInv
<1>2. \A e \in DOMAIN dirs : dirs'[e].metrics = dirs[e].metrics
                            /\ dirs'[e].concurrency = dirs[e].concurrency
  OBVIOUS
<1>3. \A e \in DOMAIN dirs : /\ MeanTok(dirs'[e]) = MeanTok(dirs[e]) /\ Breaches(dirs'[e]) = Breaches(dirs[e])
                            /\ OverallP95(dirs'[e]) = OverallP95(dirs[e])
  <2>. TAKE e \in DOMAIN dirs
  <2>1. dirs'[e].metrics = dirs[e].metrics
    BY <1>2
  <2>2. MeanTok(dirs'[e]) = MeanTok(dirs[e]) /\ Breaches(dirs'[e]) = Breaches(dirs[e])
    BY <2>1, Zenon DEF MeanTok, Apertus, Breaches
  <2>3. OverallP95(dirs'[e]) = OverallP95(dirs[e])
    BY <2>1, Zenon DEF OverallP95
  <2>. QED BY <2>2, <2>3, Zenon
<1>4. \A e \in DOMAIN fates : Shows(dirs'[e], fates[e])
  <2>. TAKE e \in DOMAIN fates
  <2>1. e \in DOMAIN dirs /\ Shows(dirs[e], fates[e])
    BY ReportShape DEF ReportInv
  <2>. QED BY <1>2, <1>3, <2>1, Zenon DEF Shows
<1>5. Len(dirs) \in DOMAIN dirs
  BY ReportShape DEF Now
<1>. QED BY <1>1, <1>2, <1>4, <1>5 DEF ReportInv

\* A run is over.
LEMMA RunOver ==
  ASSUME ReportInv, NEW ended \in Directories, NEW fate \in Fate, Shows(ended, fate),
         dirs' = Append([dirs EXCEPT ![Now] = ended], NewDir), fates' = Append(fates, fate)
  PROVE  ReportInv'
<1>. DEFINE n == Len(fates)
            past == [dirs EXCEPT ![Now] = ended]
<1>1. n \in Nat /\ DOMAIN fates = 1..n /\ Now = n + 1 /\ DOMAIN dirs = 1..(n + 1)
  BY ReportShape
<1>2. past \in Seq(Directories) /\ Len(past) = n + 1 /\ past[n + 1] = ended
      /\ \A d \in 1..n : past[d] = dirs[d]
  <2>1. Len(dirs) = n + 1 /\ dirs \in Seq(Directories) /\ Now \in 1..Len(dirs)
    BY <1>1 DEF ReportInv
  <2>2. past \in Seq(Directories) /\ Len(past) = Len(dirs)
    BY <2>1, ExceptSeq
  <2>. QED BY <1>1, <2>1, <2>2
<1>. HIDE DEF past
<1>3. /\ dirs' \in Seq(Directories) /\ Len(dirs') = n + 2 /\ dirs'[n + 2] = NewDir
      /\ \A d \in 1..(n + 1) : dirs'[d] = past[d]
  BY <1>1, <1>2, NewDirTyped, AppendProperties DEF past
<1>4. /\ fates' \in Seq(Fate) /\ Len(fates') = n + 1 /\ fates'[n + 1] = fate
      /\ \A d \in 1..n : fates'[d] = fates[d]
      /\ DOMAIN fates' = 1..(n + 1)
  BY <1>1, AppendProperties, LenProperties DEF ReportInv
<1>5. NewDir.metrics = None /\ NewDir.concurrency = None
  BY DEF NewDir
<1>6. \A d \in DOMAIN fates' : Shows(dirs'[d], fates'[d])
  <2>1. ASSUME NEW d \in 1..n PROVE Shows(dirs'[d], fates'[d])
    <3>1. d \in 1..(n + 1) /\ dirs'[d] = dirs[d] /\ fates'[d] = fates[d]
      BY <1>1, <1>2, <1>3, <1>4
    <3>2. Shows(dirs[d], fates[d])
      BY <1>1 DEF ReportInv
    <3>. QED BY <3>1, <3>2, Zenon
  <2>2. Shows(dirs'[n + 1], fates'[n + 1])
    <3>1. dirs'[n + 1] = ended
      BY <1>1, <1>2, <1>3
    <3>. QED BY <1>4, <3>1, Zenon
  <2>3. \A d \in 1..(n + 1) : d \in 1..n \/ d = n + 1
    BY <1>1
  <2>. QED BY <1>4, <2>1, <2>2, <2>3
<1>7. Len(dirs') = Len(fates') + 1
  BY <1>1, <1>3, <1>4
<1>. QED BY <1>3, <1>4, <1>5, <1>6, <1>7 DEF ReportInv

\* A run without a restart of vLLM cannot have seen its counter fall.
LEMMA RateRises ==
  ASSUME TickInv, RateNeverFlatters, ~Restarted, MeanRate # None
  PROVE  MeanRate[1] >= 0
<1>1. Cardinality(Readings) >= 2
  BY DEF MeanRate
<1>2. Readings # {} /\ Readings \in SUBSET Int /\ IsFiniteSet(Readings)
  BY <1>1, FS_EmptySet, ReadingsAre
<1>3. First \in Readings
  BY <1>2, LeastExists DEF First
<1>4. Latest \in Readings
  BY <1>2, GreatestExists DEF Latest
<1>5. First \in DOMAIN answers /\ Latest \in DOMAIN answers
  BY <1>3, <1>4, ReadingsAre
<1>6. First < Latest
  BY DEF RateNeverFlatters
<1>7. First <= Latest
  BY <1>2, <1>3, <1>4, <1>6
<1>8. \A i \in DOMAIN answers : answers[i].served \in Nat
  <2>1. \A i \in DOMAIN answers : answers[i] \in Answer
    BY LenProperties, ElementOfSeq DEF TickInv, TickTypes
  <2>. QED BY <2>1 DEF Answer
<1>9. answers[Latest].lost = answers[First].lost
  BY <1>5, Zenon DEF Restarted
<1>10. answers[First].served <= answers[Latest].served
  BY <1>5, <1>7 DEF TickInv, Before
<1>11. MeanRate[1] = answers[Latest].served - answers[First].served
  BY <1>9, Zenon DEF RateNeverFlatters
<1>. QED BY <1>5, <1>8, <1>10, <1>11

\* What metrics.json says of the calls of this run, and of vLLM.
LEMMA SummaryShows ==
  ASSUME MetricsTypeOK, TickInv, RateNeverFlatters, NEW cs \in Seq([tool : Tools, latency : Nat]),
         NEW dir, dir.metrics = Summary(cs)
  PROVE  /\ Breaches(dir) > 0 <=> ContractViolations(cs) # {}
         /\ MeanTok(dir) # None /\ ~Restarted => MeanTok(dir)[1] >= 0
         /\ dir.metrics # None
         /\ cs = <<>> => OverallP95(dir) = None
<1>1. dir.metrics # None
  BY SummaryTyped, MetricsFileOK
<1>2. Breaches(dir) = Cardinality(ContractViolations(cs))
  BY <1>1 DEF Breaches, Summary
<1>3. Breaches(dir) > 0 <=> ContractViolations(cs) # {}
  BY <1>2, ViolationsFinite
<1>4. MeanTok(dir) # None => MeanTok(dir) = MeanRate
  <2>1. dir.metrics.apertus = IF ApertusObservable
          THEN [observable |-> TRUE, samples |-> Len(samples), vram_high_water_mb |-> HighWater("vram_mb"),
                peak_queue_depth |-> HighWater("queue_depth"), mean_tok_per_s |-> MeanRate]
          ELSE [observable |-> FALSE]
    BY DEF Summary
  <2>2. CASE ApertusObservable
    <3>1. dir.metrics.apertus["mean_tok_per_s"] = MeanRate
      BY <2>1, <2>2
    <3>. QED BY <3>1, Zenon DEF MeanTok, Apertus
  <2>3. CASE ~ApertusObservable
    <3>1. ~dir.metrics.apertus.observable
      BY <2>1, <2>3
    <3>. QED BY <3>1, Zenon DEF MeanTok, Apertus
  <2>. QED BY <2>2, <2>3
<1>5. ASSUME cs = <<>> PROVE OverallP95(dir) = None
  <2>1. DOMAIN cs = {}
    BY <1>5
  <2>2. DOMAIN LatencyByTool(cs) = {}
    BY <2>1 DEF LatencyByTool
  <2>3. dir.metrics.latency_by_tool = LatencyByTool(cs)
    BY DEF Summary
  <2>4. OverallP95(dir) = Highest({LatencyByTool(cs)[tool].p95 : tool \in DOMAIN LatencyByTool(cs)} \ {None})
    BY <1>1, <2>3, Zenon DEF OverallP95
  <2>5. {LatencyByTool(cs)[tool].p95 : tool \in DOMAIN LatencyByTool(cs)} \ {None} = {}
    BY <2>2
  <2>. QED BY <2>4, <2>5 DEF Highest
<1>. QED BY <1>1, <1>3, <1>4, <1>5, RateRises

\* A directory whose run leaves no metrics shows nothing.
LEMMA NothingShows ==
  ASSUME NEW dir, dir.metrics = None
  PROVE  MeanTok(dir) = None /\ Breaches(dir) = 0
BY DEF MeanTok, Apertus, Breaches

LEMMA UnlabelledTyped ==
  ASSUME NEW trace \in Traces \cup {<<>>}
  PROVE  Unlabelled(trace) \in Seq(AttemptRecord) /\ (trace \in Traces => Len(trace) \in Nat \ {0})
<1>1. trace \in Seq(BOOLEAN) /\ (trace \in Traces => trace # <<>>)
  <2>1. \A t \in Traces : t \in Seq(BOOLEAN) /\ t # <<>>
    BY CampaignConstantsOK, Zenon
  <2>2. <<>> \in Seq(BOOLEAN)
    OBVIOUS
  <2>. QED BY <2>1, <2>2, Zenon
<1>2. DOMAIN trace = 1..Len(trace) /\ Len(trace) \in Nat /\ \A i \in 1..Len(trace) : trace[i] \in BOOLEAN
  BY <1>1, LenProperties, ElementOfSeq
<1>3. \A i \in 1..Len(trace) : [failed |-> trace[i], class |-> None] \in AttemptRecord
  BY <1>2 DEF AttemptRecord
<1>4. Unlabelled(trace) \in Seq(AttemptRecord)
  BY <1>2, <1>3, IsASeq DEF Unlabelled
<1>. QED BY <1>1, <1>2, <1>4, EmptySeq

FateNow(how, drained) ==
  [how |-> how, drained |-> drained, slow |-> ContractViolations(calls) # {}, restarted |-> Restarted]

LEMMA FateTyped ==
  ASSUME NEW how \in {"well", "raised", "killed"}, NEW drained \in BOOLEAN
  PROVE  /\ FateNow(how, drained) \in Fate
         /\ FateNow(how, drained).how = how /\ FateNow(how, drained).drained = drained
         /\ FateNow(how, drained).slow = (ContractViolations(calls) # {})
         /\ FateNow(how, drained).restarted = Restarted
<1>1. (ContractViolations(calls) # {}) \in BOOLEAN /\ Restarted \in BOOLEAN
  BY DEF Restarted
<1>2. FateNow(how, drained) \in Fate
  BY <1>1, Zenon DEF FateNow, Fate
<1>. QED BY <1>2, Zenon DEF FateNow

OfFields(dir) ==
  dir = [runs |-> dir.runs, attempts |-> dir.attempts, metrics |-> dir.metrics, concurrency |-> dir.concurrency]
WithMetrics(dir, summary) == [dir EXCEPT !.metrics = summary]
WithConcurrency(dir, c) == [dir EXCEPT !.concurrency = c]

LEMMA FilledIn ==
  \A dir, summary, c :
    OfFields(dir)
      => WithConcurrency(WithMetrics(dir, summary), c)
         = [runs |-> dir.runs, attempts |-> dir.attempts, metrics |-> summary, concurrency |-> c]
<1>1. ASSUME NEW dir, NEW summary, OfFields(dir)
      PROVE  WithMetrics(dir, summary)
             = [runs |-> dir.runs, attempts |-> dir.attempts, metrics |-> summary, concurrency |-> dir.concurrency]
  BY <1>1 DEF WithMetrics, OfFields
<1>2. ASSUME NEW dir, NEW c, OfFields(dir)
      PROVE  WithConcurrency(dir, c)
             = [runs |-> dir.runs, attempts |-> dir.attempts, metrics |-> dir.metrics, concurrency |-> c]
  BY <1>2 DEF WithConcurrency, OfFields
<1>3. ASSUME NEW dir, NEW summary, NEW c, OfFields(dir)
      PROVE  WithConcurrency(WithMetrics(dir, summary), c)
             = [runs |-> dir.runs, attempts |-> dir.attempts, metrics |-> summary, concurrency |-> c]
  <2>. DEFINE mid == WithMetrics(dir, summary)
  <2>1. mid = [runs |-> dir.runs, attempts |-> dir.attempts, metrics |-> summary, concurrency |-> dir.concurrency]
    BY <1>1, <1>3, Zenon
  <2>3. OfFields(mid) /\ mid.runs = dir.runs /\ mid.attempts = dir.attempts /\ mid.metrics = summary
    <3>. HIDE DEF mid
    <3>. QED BY <2>1 DEF OfFields
  <2>. HIDE DEF mid
  <2>2. WithConcurrency(mid, c) = [runs |-> dir.runs, attempts |-> dir.attempts, metrics |-> summary, concurrency |-> c]
    BY <1>2, <2>3
  <2>. QED BY <2>2 DEF mid
<1>. QED BY <1>3

\* What a record_result that broke off has written (record.py:102-125).
LEMMA HalfwayTyped ==
  ASSUME ReportInv, NEW lines \in Traces \cup {<<>>}
  PROVE  /\ Halfway(dirs[Now], lines) \in Directories /\ OfFields(Halfway(dirs[Now], lines))
         /\ Halfway(dirs[Now], lines).metrics = None /\ Halfway(dirs[Now], lines).concurrency = None
<1>. DEFINE half == Halfway(dirs[Now], lines)
<1>1. dirs[Now] \in Directories /\ dirs[Now].metrics = None /\ dirs[Now].concurrency = None
  BY ReportShape DEF ReportInv, Now
<1>2. /\ dirs[Now] = [runs |-> dirs[Now].runs, attempts |-> dirs[Now].attempts,
                      metrics |-> dirs[Now].metrics, concurrency |-> dirs[Now].concurrency]
      /\ dirs[Now].runs \in Seq(JobRun) /\ dirs[Now].attempts \in Seq(AttemptRecord)
  BY <1>1, DirectoryFields
<1>3. dirs[Now].attempts \o Unlabelled(lines) \in Seq(AttemptRecord)
  BY <1>2, UnlabelledTyped, ConcatProperties
<1>4. /\ half.runs = dirs[Now].runs /\ half.attempts = dirs[Now].attempts \o Unlabelled(lines)
      /\ half.metrics = None /\ half.concurrency = None
      /\ half = [runs |-> half.runs, attempts |-> half.attempts,
                 metrics |-> half.metrics, concurrency |-> half.concurrency]
  <2>1. half = [runs |-> dirs[Now].runs, attempts |-> dirs[Now].attempts \o Unlabelled(lines),
                metrics |-> dirs[Now].metrics, concurrency |-> dirs[Now].concurrency]
    <3>. DEFINE more == dirs[Now].attempts \o Unlabelled(lines)
    <3>1. half = [dirs[Now] EXCEPT !.attempts = more]
      BY DEF Halfway
    <3>. HIDE DEF half, more
    <3>2. half = [runs |-> dirs[Now].runs, attempts |-> more,
                  metrics |-> dirs[Now].metrics, concurrency |-> dirs[Now].concurrency]
      BY <1>2, <3>1
    <3>. QED BY <3>2 DEF more
  <2>. HIDE DEF half
  <2>. QED BY <1>1, <2>1, Zenon
<1>. HIDE DEF half
<1>5. half \in Directories
  BY <1>2, <1>3, <1>4, DirectoryFields
<1>. QED BY <1>4, <1>5 DEF half, OfFields

\* _finalize of a run that ended well, or raised, or died before run.json.
LEMMA FinalizeStep ==
  ASSUME ReportInv, MetricsTypeOK, TickInv, RateNeverFlatters,
         NEW lines \in Traces \cup {<<>>}, NEW cs \in Seq([tool : Tools, latency : Nat]),
         NEW how \in {"well", "raised", "killed"}, NEW drained \in BOOLEAN,
         NEW concurrency \in Concurrencies \cup {None},
         drained => cs = calls, ~drained => cs = <<>>, how = "raised" => ~drained,
         how = "killed" => concurrency = None,
         Finalize(lines, cs, concurrency), NextRun(how, drained)
  PROVE  ReportInv'
<1>. DEFINE half == Halfway(dirs[Now], lines)
            ended == [half EXCEPT !.metrics = Summary(cs), !.concurrency = concurrency]
<1>0. Now \in DOMAIN dirs /\ half \in Directories /\ OfFields(half)
  BY ReportShape, HalfwayTyped
<1>2. dirs' = Append([dirs EXCEPT ![Now] = ended], NewDir)
  BY <1>0 DEF Finalize
<1>. HIDE DEF half
<1>1. /\ ended.metrics = Summary(cs) /\ ended.concurrency = concurrency
      /\ ended.runs = half.runs /\ ended.attempts = half.attempts
      /\ ended = [runs |-> ended.runs, attempts |-> ended.attempts,
                  metrics |-> ended.metrics, concurrency |-> ended.concurrency]
  <2>1. half = [runs |-> half.runs, attempts |-> half.attempts,
                metrics |-> half.metrics, concurrency |-> half.concurrency]
    BY <1>0, Zenon DEF OfFields
  <2>2. ended = WithConcurrency(WithMetrics(half, Summary(cs)), concurrency)
    BY <2>1 DEF WithConcurrency, WithMetrics
  <2>3. ended = [runs |-> half.runs, attempts |-> half.attempts,
                 metrics |-> Summary(cs), concurrency |-> concurrency]
    BY <1>0, <2>2, FilledIn, Zenon
  <2>. HIDE DEF ended
  <2>4. /\ ended.metrics = Summary(cs) /\ ended.concurrency = concurrency
        /\ ended.runs = half.runs /\ ended.attempts = half.attempts
    BY <2>3, Zenon
  <2>. QED BY <2>3, <2>4, Zenon
<1>. HIDE DEF ended
<1>3. ended \in Directories
  <2>1. half.runs \in Seq(JobRun) /\ half.attempts \in Seq(AttemptRecord)
    BY <1>0, DirectoryFields
  <2>2. ToolsOf(cs) \in SUBSET Tools /\ Summary(cs) \in MetricsFile(ToolsOf(cs))
    BY SummaryTyped
  <2>. QED BY <1>1, <2>1, <2>2, DirectoryFields
<1>4. fates' = Append(fates, FateNow(how, drained))
  BY DEF NextRun, FateNow
<1>5. /\ Breaches(ended) > 0 <=> ContractViolations(cs) # {}
      /\ MeanTok(ended) # None /\ ~Restarted => MeanTok(ended)[1] >= 0
      /\ ended.metrics # None
      /\ cs = <<>> => OverallP95(ended) = None
  BY <1>1, SummaryShows
<1>6. ContractViolations(<<>>) = {}
  BY DEF ContractViolations
<1>7. FateNow(how, drained) \in Fate /\ Shows(ended, FateNow(how, drained))
  <2>. DEFINE fate == FateNow(how, drained)
  <2>1. /\ fate \in Fate /\ fate.how = how /\ fate.drained = drained
        /\ fate.slow = (ContractViolations(calls) # {}) /\ fate.restarted = Restarted
    BY FateTyped
  <2>. HIDE DEF fate
  <2>2. Breaches(ended) > 0 <=> (fate.drained /\ fate.slow)
    BY <1>5, <1>6, <2>1, Zenon
  <2>3. MeanTok(ended) # None /\ ~fate.restarted => MeanTok(ended)[1] >= 0
    BY <1>5, <2>1, Zenon
  <2>4. ended.concurrency # None => fate.how # "killed" /\ ended.metrics # None
    BY <1>1, <1>5, <2>1, Zenon
  <2>5. fate.how = "raised" => OverallP95(ended) = None
    BY <1>5, <2>1, Zenon
  <2>. QED BY <2>1, <2>2, <2>3, <2>4, <2>5, Zenon DEF Shows, fate
<1>. QED BY <1>2, <1>3, <1>4, <1>7, RunOver

\* The process dies and leaves no metrics.
LEMMA KilledStep ==
  ASSUME ReportInv, NEW lines \in Traces \cup {<<>>},
         dirs' = Append([dirs EXCEPT ![Now] = Halfway(@, lines)], NewDir), NextRun("killed", FALSE)
  PROVE  ReportInv'
<1>. DEFINE half == Halfway(dirs[Now], lines)
            fate == FateNow("killed", FALSE)
<1>1. Now \in DOMAIN dirs /\ half \in Directories /\ half.metrics = None /\ half.concurrency = None
  BY ReportShape, HalfwayTyped
<1>2. dirs' = Append([dirs EXCEPT ![Now] = half], NewDir)
  BY <1>1
<1>. HIDE DEF half
<1>3. fates' = Append(fates, fate)
  BY DEF NextRun, FateNow
<1>4. fate \in Fate /\ fate.how = "killed" /\ fate.drained = FALSE
  BY FateTyped
<1>. HIDE DEF fate
<1>5. MeanTok(half) = None /\ ~(Breaches(half) > 0)
  BY <1>1, NothingShows
<1>6. Shows(half, fate)
  BY <1>1, <1>4, <1>5 DEF Shows
<1>. QED BY <1>1, <1>2, <1>3, <1>4, <1>6, RunOver

\* record_result of one job.
LEMMA MoreAttempts ==
  ASSUME ReportInv, NEW trace \in Traces, NEW runs \in Seq(JobRun), NEW more,
         more = [dirs[Now] EXCEPT !.attempts = dirs[Now].attempts \o Unlabelled(trace), !.runs = runs]
  PROVE  more \in Directories /\ more.metrics = None /\ more.concurrency = None
<1>1. dirs[Now] \in Directories /\ dirs[Now].metrics = None /\ dirs[Now].concurrency = None
  BY ReportShape DEF ReportInv, Now
<1>2. PICK tools \in SUBSET Tools :
      /\ dirs[Now] = [runs |-> dirs[Now].runs, attempts |-> dirs[Now].attempts,
                      metrics |-> dirs[Now].metrics, concurrency |-> dirs[Now].concurrency]
      /\ dirs[Now].attempts \in Seq(AttemptRecord)
  BY <1>1, DirectoryFields
<1>3. dirs[Now].attempts \o Unlabelled(trace) \in Seq(AttemptRecord)
  BY <1>2, UnlabelledTyped, ConcatProperties
<1>4. /\ more.runs = runs /\ more.attempts = dirs[Now].attempts \o Unlabelled(trace)
      /\ more.metrics = None /\ more.concurrency = None
      /\ more = [runs |-> more.runs, attempts |-> more.attempts,
                 metrics |-> more.metrics, concurrency |-> more.concurrency]
  BY <1>1, <1>2
<1>. QED BY <1>3, <1>4, DirectoryFields

LEMMA RecordStep ==
  ASSUME ReportInv, NEW slice \in Slices, NEW trace \in Traces, NEW ok \in BOOLEAN,
         RecordRun(slice, trace, ok)
  PROVE  ReportInv'
<1>. DEFINE run == [condition |-> slice.condition, tier |-> slice.tier, succeeded |-> ok,
                    attempts |-> Len(trace), first |-> ok /\ Len(trace) <= 1]
            runs == Append(dirs[Now].runs, run)
            more == [dirs[Now] EXCEPT !.attempts = dirs[Now].attempts \o Unlabelled(trace), !.runs = runs]
<1>1. run \in JobRun
  BY UnlabelledTyped DEF JobRun, RunRecord
<1>2. Now \in DOMAIN dirs /\ dirs[Now] \in Directories
  BY ReportShape
<1>3. runs \in Seq(JobRun)
  <2>1. dirs[Now].runs \in Seq(JobRun)
    BY <1>2, DirectoryFields
  <2>. HIDE DEF run
  <2>. QED BY <1>1, <2>1, AppendProperties
<1>4. dirs' = [dirs EXCEPT ![Now] = more] /\ UNCHANGED fates
  <2>1. dirs' = [dirs EXCEPT ![Now] =
                  [dirs[Now] EXCEPT !.attempts = dirs[Now].attempts \o Unlabelled(trace),
                                    !.runs = Append(dirs[Now].runs, run)]]
    BY <1>2 DEF RecordRun
  <2>. QED BY <2>1 DEF RecordRun
<1>. HIDE DEF runs
<1>5. more \in Directories /\ more.metrics = None /\ more.concurrency = None
  BY <1>3, MoreAttempts
<1>. HIDE DEF more
<1>6. dirs[Now].metrics = None /\ dirs[Now].concurrency = None
  BY DEF ReportInv, Now
<1>. QED BY <1>2, <1>4, <1>5, <1>6, DirectoryEdited

LEMMA LabelStep ==
  ASSUME ReportInv, NEW d \in DOMAIN fates, NEW i \in DOMAIN dirs[d].attempts, NEW class \in HandLabels,
         HandLabel(d, i, class)
  PROVE  ReportInv'
<1>. DEFINE attempts == [dirs[d].attempts EXCEPT ![i] = [dirs[d].attempts[i] EXCEPT !.class = class]]
            edited == [dirs[d] EXCEPT !.attempts = attempts]
<1>1. d \in DOMAIN dirs /\ dirs[d] \in Directories
  BY ReportShape
<1>2. PICK tools \in SUBSET Tools :
      /\ dirs[d] = [runs |-> dirs[d].runs, attempts |-> dirs[d].attempts,
                    metrics |-> dirs[d].metrics, concurrency |-> dirs[d].concurrency]
      /\ dirs[d].runs \in Seq(JobRun) /\ dirs[d].attempts \in Seq(AttemptRecord)
      /\ dirs[d].metrics \in MetricsFile(tools) \cup {None}
      /\ dirs[d].concurrency \in Concurrencies \cup {None}
  BY <1>1, DirectoryFields
<1>3. attempts \in Seq(AttemptRecord)
  <2>1. dirs[d].attempts[i] \in AttemptRecord
    BY <1>2, LenProperties, ElementOfSeq
  <2>2. [dirs[d].attempts[i] EXCEPT !.class = class] \in AttemptRecord
    BY <2>1 DEF AttemptRecord
  <2>. QED BY <1>2, <2>2, LenProperties, ExceptSeq
<1>4. dirs' = [dirs EXCEPT ![d] = edited] /\ UNCHANGED fates
  BY <1>1, <1>2 DEF HandLabel
<1>. HIDE DEF attempts
<1>5. /\ edited.runs = dirs[d].runs /\ edited.attempts = attempts
      /\ edited.metrics = dirs[d].metrics /\ edited.concurrency = dirs[d].concurrency
      /\ edited = [runs |-> edited.runs, attempts |-> edited.attempts,
                   metrics |-> edited.metrics, concurrency |-> edited.concurrency]
  BY <1>2
<1>. HIDE DEF edited
<1>6. edited \in Directories
  BY <1>2, <1>3, <1>5, DirectoryFields
<1>. QED BY <1>1, <1>4, <1>5, <1>6, DirectoryEdited

LEMMA ReportStep ==
  ReportInv /\ MetricsTypeOK /\ TickInv /\ RateNeverFlatters /\ [Next]_vars => ReportInv'
<1>. SUFFICES ASSUME ReportInv, MetricsTypeOK, TickInv, RateNeverFlatters, [Next]_vars PROVE ReportInv'
  OBVIOUS
<1>0. /\ calls \in Seq([tool : Tools, latency : Nat]) /\ <<>> \in Seq([tool : Tools, latency : Nat])
      /\ None \in Concurrencies \cup {None} /\ <<>> \in Traces \cup {<<>>}
  BY DEF MetricsTypeOK
<1>1. ASSUME UNCHANGED <<dirs, fates>> PROVE ReportInv'
  BY <1>1 DEF ReportInv
<1>2. ASSUME NEW slice \in Slices, NEW trace \in Traces, NEW ok \in BOOLEAN, RecordRun(slice, trace, ok)
      PROVE  ReportInv'
  BY <1>2, RecordStep
<1>3. ASSUME NEW c \in Concurrencies \cup {None}, RunEndsWell(c) PROVE ReportInv'
  <2>1. Finalize(<<>>, calls, c) /\ NextRun("well", TRUE)
    BY <1>3 DEF RunEndsWell
  <2>. QED BY <1>0, <2>1, FinalizeStep
<1>4. ASSUME NEW lines \in Traces \cup {<<>>}, NEW c \in Concurrencies \cup {None}, RunRaises(lines, c)
      PROVE  ReportInv'
  <2>1. Finalize(lines, <<>>, c) /\ NextRun("raised", FALSE)
    BY <1>4 DEF RunRaises
  <2>. QED BY <1>0, <2>1, FinalizeStep
<1>5. ASSUME NEW lines \in Traces \cup {<<>>}, ProcessDies(lines) PROVE ReportInv'
  <2>1. CASE Finalize(<<>>, calls, None) /\ NextRun("killed", TRUE)
    BY <1>0, <2>1, FinalizeStep
  <2>2. CASE Finalize(lines, <<>>, None) /\ NextRun("killed", FALSE)
    BY <1>0, <2>2, FinalizeStep
  <2>3. CASE dirs' = Append([dirs EXCEPT ![Now] = Halfway(@, lines)], NewDir) /\ NextRun("killed", FALSE)
    BY <2>3, KilledStep
  <2>. QED BY <1>5, <2>1, <2>2, <2>3 DEF ProcessDies
<1>7. ASSUME NEW d \in DOMAIN fates, NEW i \in DOMAIN dirs[d].attempts, NEW class \in HandLabels,
             HandLabel(d, i, class)
      PROVE  ReportInv'
  BY <1>7, LabelStep
<1>8. UNCHANGED vars => UNCHANGED <<dirs, fates>>
  BY DEF vars
<1>. QED BY <1>1, <1>2, <1>3, <1>4, <1>5, <1>7, <1>8, Zenon DEF Next

LEMMA ReportStart == Init => ReportInv
<1>. SUFFICES ASSUME Init PROVE ReportInv
  OBVIOUS
<1>1. dirs = <<NewDir>> /\ fates = <<>>
  BY DEF Init
<1>2. <<NewDir>> \in Seq(Directories) /\ Len(<<NewDir>>) = 1 /\ <<NewDir>>[1] = NewDir
  BY NewDirTyped
<1>3. fates \in Seq(Fate) /\ Len(fates) = 0 /\ DOMAIN fates = {}
  BY <1>1
<1>4. NewDir.metrics = None /\ NewDir.concurrency = None
  BY DEF NewDir
<1>. QED BY <1>1, <1>2, <1>3, <1>4 DEF ReportInv

\* The directories and what they show, in every state.
LEMMA ReportInvariant == Spec => [](ReportInv /\ MetricsTypeOK)
<1>1. Spec => []TickInv
  BY TickStart, TickStep, PTL DEF Spec
<1>2. Spec => []MetricsTypeOK
  BY MetricsTypeStart, MetricsTypeStep, PTL DEF Spec
<1>. QED BY <1>1, <1>2, RateIsHonest, ReportStart, ReportStep, PTL DEF Spec

\* Instruments, directories and fates have their types in every state of every
\* campaign, metrics.json included (instrument.py:211-239, record.py:48-125).
THEOREM CampaignTypes == Spec => []TypeOK
<1>1. ReportInv /\ MetricsTypeOK => TypeOK
  <2>. SUFFICES ASSUME ReportInv, MetricsTypeOK PROVE TypeOK
    OBVIOUS
  <2>1. /\ DOMAIN dirs = 1..(Len(fates) + 1) /\ \A d \in DOMAIN dirs : dirs[d] \in Directories
    BY ReportShape
  <2>2. \A d \in DOMAIN dirs : \E tools \in SUBSET Tools : dirs[d] \in RunDirectory(tools)
    <3>. TAKE d \in DOMAIN dirs
    <3>1. PICK tools \in SUBSET Tools : dirs[d] \in Directory(tools)
      BY <2>1 DEF Directories
    <3>2. JobRun \subseteq RunRecord
      BY DEF JobRun
    <3>3. Seq(JobRun) \subseteq Seq(RunRecord)
      BY <3>2, SeqMonotonic
    <3>4. dirs[d] \in RunDirectory(tools)
      BY <3>1, <3>3 DEF Directory, RunDirectory
    <3>. QED BY <3>4
  <2>. QED BY <2>1, <2>2 DEF TypeOK, ReportInv
<1>. QED BY <1>1, ReportInvariant, PTL

-----------------------------------------------------------------------------
(***************************************************************************)
(* The throughput curve.                                                   *)
(***************************************************************************)
\* The points of the sweep are those of runs that are over.
LEMMA PointsTyped ==
  ASSUME ReportInv
  PROVE  \A d \in Labelled(dirs) :
           /\ d \in DOMAIN fates /\ d \in DOMAIN dirs /\ d \in Nat
           /\ dirs[d].concurrency \in Nat
           /\ MeanTok(dirs[d]) \in Rate
<1>. SUFFICES ASSUME NEW d \in Labelled(dirs)
              PROVE  /\ d \in DOMAIN fates /\ d \in DOMAIN dirs /\ d \in Nat
                     /\ dirs[d].concurrency \in Nat
                     /\ MeanTok(dirs[d]) \in Rate
  OBVIOUS
<1>1. d \in DOMAIN dirs /\ dirs[d].concurrency # None
  BY DEF Labelled
<1>2. dirs[d] \in Directories /\ d \in DOMAIN fates /\ d \in Nat
  <2>1. dirs[Now].concurrency = None
    BY DEF ReportInv, Now
  <2>. QED BY <1>1, <2>1, ReportShape
<1>3. PICK tools \in SUBSET Tools : dirs[d].metrics \in MetricsFile(tools) \cup {None}
                                    /\ dirs[d].concurrency \in Concurrencies \cup {None}
  BY <1>2, DirectoryFields
<1>4. dirs[d].concurrency \in Nat
  BY <1>1, <1>3, CampaignConstantsOK
<1>5. MeanTok(dirs[d]) \in Rate
  <2>1. CASE dirs[d].metrics = None
    BY <2>1, NothingShows DEF Rate
  <2>2. CASE dirs[d].metrics \in MetricsFile(tools)
    <3>1. dirs[d].metrics.apertus \in
            [observable : {TRUE}, samples : Nat, vram_high_water_mb : Number, peak_queue_depth : Number,
             mean_tok_per_s : Rate] \cup [observable : {FALSE}]
      BY <2>2 DEF MetricsFile
    <3>2. CASE dirs[d].metrics.apertus \in
            [observable : {TRUE}, samples : Nat, vram_high_water_mb : Number, peak_queue_depth : Number,
             mean_tok_per_s : Rate]
      <4>1. dirs[d].metrics.apertus["mean_tok_per_s"] \in Rate
        BY <3>2
      <4>2. None \in Rate
        BY DEF Rate
      <4>. QED BY <4>1, <4>2, Zenon DEF MeanTok, Apertus
    <3>3. CASE dirs[d].metrics.apertus \in [observable : {FALSE}]
      <4>1. dirs[d].metrics.apertus.observable = FALSE
        BY <3>3
      <4>2. None \in Rate
        BY DEF Rate
      <4>. QED BY <4>1, <4>2, Zenon DEF MeanTok, Apertus
    <3>. QED BY <3>1, <3>2, <3>3
  <2>. QED BY <1>3, <2>1, <2>2
<1>. QED BY <1>1, <1>2, <1>4, <1>5

LEMMA CurvePoints ==
  /\ DOMAIN ThroughputCurve(dirs) = Labelled(dirs)
  /\ \A d \in Labelled(dirs) :
       /\ ThroughputCurve(dirs)[d].tok = MeanTok(dirs[d])
       /\ ThroughputCurve(dirs)[d].p95 = OverallP95(dirs[d])
       /\ ThroughputCurve(dirs)[d].concurrency = dirs[d].concurrency
       /\ ThroughputCurve(dirs)[d].degradation = Degradation(dirs, d)
BY Zenon DEF ThroughputCurve, Point

\* sort(key=concurrency) has a first point.
LEMMA LeftmostPoint ==
  ASSUME ReportInv, NEW U \in SUBSET Labelled(dirs), U # {}
  PROVE  \E d \in U : \A e \in U : LeftOf(dirs, d, e)
<1>. DEFINE f == [d \in U |-> dirs[d].concurrency]
            M == {f[d] : d \in DOMAIN f}
<1>1. \A d \in U : d \in DOMAIN dirs /\ d \in Nat /\ dirs[d].concurrency \in Nat
  BY PointsTyped
<1>2. IsFiniteSet(U)
  <2>1. DOMAIN dirs = 1..Len(dirs) /\ Len(dirs) \in Nat
    BY LenProperties DEF ReportInv
  <2>2. IsFiniteSet(1..Len(dirs)) /\ U \in SUBSET (1..Len(dirs))
    BY <1>1, <2>1, FS_Interval
  <2>. QED BY <2>2, FS_Subset
<1>3. IsFiniteSet(M) /\ M \in SUBSET Int /\ M # {}
  <2>1. DOMAIN f = U /\ M \in SUBSET Int /\ M # {}
    BY <1>1
  <2>. HIDE DEF f
  <2>. QED BY <1>2, <2>1, ValuesFinite
<1>4. PICK m \in M : \A k \in M : m <= k
  <2>. HIDE DEF M
  <2>. QED BY <1>3, LeastExists
<1>. DEFINE W == {d \in U : dirs[d].concurrency = m}
<1>5. W \in SUBSET Int /\ IsFiniteSet(W) /\ W # {}
  <2>1. W \in SUBSET U /\ W \in SUBSET Int /\ W # {}
    BY <1>1
  <2>. HIDE DEF W
  <2>. QED BY <1>2, <2>1, FS_Subset
<1>6. PICK d \in W : \A e \in W : d <= e
  <2>. HIDE DEF W
  <2>. QED BY <1>5, LeastExists
<1>7. ASSUME NEW e \in U PROVE LeftOf(dirs, d, e)
  <2>1. m <= dirs[e].concurrency /\ dirs[d].concurrency = m /\ m \in Nat /\ dirs[e].concurrency \in Nat
    BY <1>1, <1>4
  <2>2. CASE dirs[e].concurrency = m
    BY <1>6, <2>1, <2>2 DEF LeftOf
  <2>3. CASE dirs[e].concurrency # m
    BY <2>1, <2>3 DEF LeftOf
  <2>. QED BY <2>2, <2>3
<1>. QED BY <1>7

\* The baseline is the leftmost point with a rate that is not 0.
LEMMA BaselineIs ==
  ASSUME ReportInv, NEW U, U = {d \in Labelled(dirs) : MeanTok(dirs[d]) # None /\ MeanTok(dirs[d])[1] # 0}
  PROVE  /\ U = {} => Baseline(dirs) = None
         /\ U # {} => \E b \in U : Baseline(dirs) = MeanTok(dirs[b]) /\ \A e \in U : LeftOf(dirs, b, e)
<1>1. U = {d \in Labelled(dirs) : Truthy(MeanTok(dirs[d]))}
  BY DEF Truthy
<1>2. \A V : V = {d \in Labelled(dirs) : Truthy(MeanTok(dirs[d]))} =>
        Baseline(dirs) = IF V = {} THEN None
                         ELSE MeanTok(dirs[CHOOSE d \in V : \A e \in V : LeftOf(dirs, d, e)])
  BY DEF Baseline
<1>3. Baseline(dirs) = IF U = {} THEN None
                       ELSE MeanTok(dirs[CHOOSE d \in U : \A e \in U : LeftOf(dirs, d, e)])
  BY <1>1, <1>2, Zenon
<1>4. U # {} => \E d \in U : \A e \in U : LeftOf(dirs, d, e)
  BY LeftmostPoint
<1>. QED BY <1>3, <1>4, Zenon

\* A point is compared with the baseline if it has a rate, and two runs without
\* a restart have rates that are not negative.
LEMMA CurveCompared ==
  ASSUME ReportInv, NEW M, NEW U,
         M = {d \in Labelled(dirs) : MeanTok(dirs[d]) # None}, U = {d \in M : MeanTok(dirs[d])[1] # 0}
  PROVE  /\ \A d \in Labelled(dirs) : Degradation(dirs, d) # None <=> (d \in M /\ U # {})
         /\ U # {} =>
              \E b \in U :
                /\ Degradation(dirs, b)[1] = Degradation(dirs, b)[2]
                /\ \A e \in U : dirs[b].concurrency <= dirs[e].concurrency
                /\ \A e \in M : ~fates[b].restarted /\ ~fates[e].restarted
                                 => Degradation(dirs, e)[1] * Degradation(dirs, e)[2] >= 0
<1>1. U = {d \in Labelled(dirs) : MeanTok(dirs[d]) # None /\ MeanTok(dirs[d])[1] # 0}
  OBVIOUS
<1>2. \A d \in M : MeanTok(dirs[d]) \in Int \X (Nat \ {0})
  BY PointsTyped DEF Rate
<1>3. \A d \in M : MeanTok(dirs[d])[1] \in Int /\ MeanTok(dirs[d])[2] \in Nat \ {0}
  BY <1>2
<1>4. \A d \in Labelled(dirs) : d \in M <=> MeanTok(dirs[d]) # None
  OBVIOUS
<1>5. CASE U = {}
  <2>1. Baseline(dirs) = None
    BY <1>1, <1>5, BaselineIs
  <2>2. \A d : Degradation(dirs, d) = None
    BY <2>1, Zenon DEF Degradation
  <2>. QED BY <1>5, <2>2
<1>6. CASE U # {}
  <2>1. PICK b \in U : Baseline(dirs) = MeanTok(dirs[b]) /\ \A e \in U : LeftOf(dirs, b, e)
    BY <1>1, <1>6, BaselineIs
  <2>. DEFINE base == MeanTok(dirs[b])
  <2>2. base # None /\ base[1] \in Int /\ base[2] \in Nat \ {0} /\ b \in M /\ b \in Labelled(dirs)
    BY <1>3
  <2>3. \A d \in M : Degradation(dirs, d) = <<MeanTok(dirs[d])[1] * base[2], base[1] * MeanTok(dirs[d])[2]>>
    <3>1. \A d \in M : MeanTok(dirs[d]) # None
      OBVIOUS
    <3>. QED BY <2>1, <2>2, <3>1, Zenon DEF Degradation
  <2>. HIDE DEF base
  <2>4. \A m, n \in Int : m * n \in Int
    OBVIOUS
  <2>5. \A d \in M : Degradation(dirs, d) \in Int \X Int
    <3>1. ASSUME NEW d \in M PROVE Degradation(dirs, d) \in Int \X Int
      <4>1. MeanTok(dirs[d])[1] * base[2] \in Int /\ base[1] * MeanTok(dirs[d])[2] \in Int
        BY <1>3, <2>2, <2>4
      <4>2. \A m, n \in Int : <<m, n>> \in Int \X Int
        OBVIOUS
      <4>3. <<MeanTok(dirs[d])[1] * base[2], base[1] * MeanTok(dirs[d])[2]>> \in Int \X Int
        BY <4>1, <4>2
      <4>. QED BY <2>3, <4>3, Zenon
    <3>. QED BY <3>1
  <2>6. \A d \in Labelled(dirs) : Degradation(dirs, d) # None <=> d \in M
    <3>1. ASSUME NEW d \in Labelled(dirs), d \notin M PROVE Degradation(dirs, d) = None
      BY <1>4, <3>1, Zenon DEF Degradation
    <3>. QED BY <2>5, <3>1, MetricsConstantsOK
  <2>7. Degradation(dirs, b)[1] = Degradation(dirs, b)[2]
    BY <2>2, <2>3 DEF base
  <2>8. \A e \in U : dirs[b].concurrency <= dirs[e].concurrency
    <3>. TAKE e \in U
    <3>1. dirs[b].concurrency \in Nat /\ dirs[e].concurrency \in Nat
      BY PointsTyped
    <3>2. LeftOf(dirs, b, e)
      BY <2>1
    <3>. QED BY <3>1, <3>2 DEF LeftOf
  <2>9. ASSUME NEW d \in M, ~fates[b].restarted, ~fates[d].restarted
        PROVE  Degradation(dirs, d)[1] * Degradation(dirs, d)[2] >= 0
    <3>1. \A e \in M : ~fates[e].restarted => MeanTok(dirs[e])[1] >= 0
      <4>. TAKE e \in M
      <4>1. e \in DOMAIN fates /\ MeanTok(dirs[e]) # None
        BY PointsTyped
      <4>2. Shows(dirs[e], fates[e])
        BY <4>1 DEF ReportInv
      <4>. QED BY <4>1, <4>2, Zenon DEF Shows
    <3>2. /\ MeanTok(dirs[d])[1] \in Nat /\ MeanTok(dirs[d])[2] \in Nat
          /\ base[1] \in Nat /\ base[2] \in Nat
      BY <1>3, <2>2, <2>9, <3>1 DEF base
    <3>3. \A m, n \in Nat : m * n \in Nat
      OBVIOUS
    <3>4. MeanTok(dirs[d])[1] * base[2] \in Nat /\ base[1] * MeanTok(dirs[d])[2] \in Nat
      BY <3>2, <3>3
    <3>5. Degradation(dirs, d)[1] \in Nat /\ Degradation(dirs, d)[2] \in Nat
      BY <2>3, <3>4
    <3>6. Degradation(dirs, d)[1] * Degradation(dirs, d)[2] \in Nat
      BY <3>3, <3>5, Zenon
    <3>. QED BY <3>6
  <2>10. \A e \in M : ~fates[b].restarted /\ ~fates[e].restarted
                       => Degradation(dirs, e)[1] * Degradation(dirs, e)[2] >= 0
    BY <2>9
  <2>. QED BY <1>6, <2>6, <2>7, <2>8, <2>10
<1>. QED BY <1>5, <1>6

LEMMA CurveIs == ReportInv => CurveHonest
<1>. SUFFICES ASSUME ReportInv PROVE CurveHonest
  OBVIOUS
<1>. DEFINE C == ThroughputCurve(dirs)
            M == {d \in Labelled(dirs) : MeanTok(dirs[d]) # None}
            U == {d \in M : MeanTok(dirs[d])[1] # 0}
<1>1. /\ DOMAIN C = Labelled(dirs)
      /\ \A d \in Labelled(dirs) : /\ C[d].tok = MeanTok(dirs[d])
                                   /\ C[d].p95 = OverallP95(dirs[d])
                                   /\ C[d].concurrency = dirs[d].concurrency
                                   /\ C[d].degradation = Degradation(dirs, d)
  BY CurvePoints, Zenon
<1>2. M = {d \in DOMAIN C : C[d].tok # None} /\ U = {d \in M : C[d].tok[1] # 0}
      /\ M \subseteq Labelled(dirs) /\ U \subseteq M
  <2>. HIDE DEF C
  <2>. QED BY <1>1
<1>3. /\ \A d \in Labelled(dirs) : Degradation(dirs, d) # None <=> (d \in M /\ U # {})
      /\ U # {} =>
           \E b \in U :
             /\ Degradation(dirs, b)[1] = Degradation(dirs, b)[2]
             /\ \A e \in U : dirs[b].concurrency <= dirs[e].concurrency
             /\ \A e \in M : ~fates[b].restarted /\ ~fates[e].restarted
                              => Degradation(dirs, e)[1] * Degradation(dirs, e)[2] >= 0
  <2>1. M = {d \in Labelled(dirs) : MeanTok(dirs[d]) # None} /\ U = {d \in M : MeanTok(dirs[d])[1] # 0}
    OBVIOUS
  <2>. HIDE DEF M, U
  <2>. QED BY <2>1, CurveCompared
<1>. HIDE DEF M, U, C
<1>4. \A d \in DOMAIN C : /\ fates[d].how # "killed" /\ dirs[d].metrics # None
                          /\ fates[d].how = "raised" => C[d].p95 = None
                          /\ C[d].degradation # None <=> (d \in M /\ U # {})
  <2>. TAKE d \in DOMAIN C
  <2>1. d \in Labelled(dirs) /\ C[d].p95 = OverallP95(dirs[d]) /\ C[d].degradation = Degradation(dirs, d)
    BY <1>1, Zenon
  <2>2. C[d].degradation # None <=> (d \in M /\ U # {})
    BY <1>3, <2>1, Zenon
  <2>3. fates[d].how # "killed" /\ dirs[d].metrics # None /\ (fates[d].how = "raised" => C[d].p95 = None)
    <3>1. d \in DOMAIN fates /\ dirs[d].concurrency # None
      BY <2>1, PointsTyped DEF Labelled
    <3>2. Shows(dirs[d], fates[d])
      BY <3>1 DEF ReportInv
    <3>. QED BY <2>1, <3>1, <3>2, Zenon DEF Shows
  <2>. QED BY <2>2, <2>3, Zenon
<1>5. U # {} =>
        \E b \in U :
          /\ C[b].degradation[1] = C[b].degradation[2]
          /\ \A e \in U : C[b].concurrency <= C[e].concurrency
          /\ \A e \in M : ~fates[b].restarted /\ ~fates[e].restarted
                           => C[e].degradation[1] * C[e].degradation[2] >= 0
  <2>1. /\ \A d \in M : C[d].degradation = Degradation(dirs, d)
        /\ \A d \in U : C[d].degradation = Degradation(dirs, d) /\ C[d].concurrency = dirs[d].concurrency
    BY <1>1, <1>2
  <2>. QED BY <1>3, <2>1
<1>6. C = ThroughputCurve(dirs)
  BY DEF C
<1>. QED BY <1>2, <1>4, <1>5, <1>6, Zenon DEF CurveHonest

\* Along the whole sweep a run whose process died is no point, a point has its
\* metrics and one that raised no latency, a point is compared exactly if it has
\* a rate and some rate other than 0 was measured, the baseline is the leftmost
\* of those, and no comparison is negative unless vLLM was restarted in one of
\* the two runs (throughput.py:17-53, report.py:134-151).
THEOREM CurveIsHonest == Spec => []CurveHonest
<1>1. ReportInv /\ MetricsTypeOK => CurveHonest
  BY CurveIs
<1>. QED BY <1>1, ReportInvariant, PTL
-----------------------------------------------------------------------------
(***************************************************************************)
(* The labels and the advice.                                              *)
(***************************************************************************)
\* SetToSeq leaves nothing out.
LEMMA SetToSeqOnto ==
  ASSUME NEW S, IsFiniteSet(S)
  PROVE  SetToSeq(S) \in Seq(S) /\ \A x \in S : \E i \in DOMAIN SetToSeq(S) : SetToSeq(S)[i] = x
<1>. DEFINE n == Cardinality(S)
            f == SetToSeq(S)
<1>1. n \in Nat /\ ExistsBijection(1..n, S)
  BY FS_CardinalityType
<1>2. \E g \in [1..n -> S] : IsInjective(g)
  <2>1. PICK g : g \in Bijection(1..n, S)
    BY <1>1 DEF ExistsBijection
  <2>2. g \in [1..n -> S] /\ IsInjective(g)
    BY <2>1 DEF Bijection, Injection
  <2>. QED BY <2>2
<1>3. f \in [1..n -> S] /\ IsInjective(f)
  BY <1>2, Zenon DEF SetToSeq
<1>. HIDE DEF f, n
<1>4. IsFiniteSet(1..n) /\ Cardinality(1..n) = n
  <2>1. 0 \in Nat /\ n \in Int
    BY <1>1
  <2>. QED BY <1>1, FS_Interval
<1>5. f \in Injection(1..n, S)
  BY <1>3 DEF Injection
<1>6. f \in Surjection(1..n, S)
  <2>1. Cardinality(1..n) = Cardinality(S)
    BY <1>4 DEF n
  <2>. QED BY <1>5, <2>1, FS_Injection
<1>7. f \in Seq(S) /\ DOMAIN f = 1..n
  BY <1>1, <1>3, IsASeq
<1>8. \A x \in S : \E i \in DOMAIN f : f[i] = x
  BY <1>6, <1>7 DEF Surjection
<1>. QED BY <1>7, <1>8 DEF f

Joins(c, a, b) ==
  /\ Len(a) \in Nat /\ DOMAIN a = 1..Len(a) /\ Len(b) \in Nat /\ DOMAIN b = 1..Len(b)
  /\ Len(c) = Len(a) + Len(b) /\ DOMAIN c = 1..(Len(a) + Len(b))
  /\ \A k \in 1..Len(a) : c[k] = a[k]
  /\ \A k \in 1..Len(b) : c[Len(a) + k] = b[k]

LEMMA Joined ==
  ASSUME NEW S, NEW a \in Seq(S), NEW b \in Seq(S)
  PROVE  a \o b \in Seq(S) /\ Joins(a \o b, a, b)
<1>1. Len(a) \in Nat /\ DOMAIN a = 1..Len(a) /\ Len(b) \in Nat /\ DOMAIN b = 1..Len(b)
  BY LenProperties
<1>2. a \o b \in Seq(S) /\ Len(a \o b) = Len(a) + Len(b)
  OBVIOUS
<1>3. \A k \in 1..Len(a) : (a \o b)[k] = a[k]
  BY <1>1
<1>4. \A k \in 1..Len(b) : (a \o b)[Len(a) + k] = b[k]
  BY <1>1
<1>. QED BY <1>1, <1>2, <1>3, <1>4, LenProperties DEF Joins

\* The counts have an entry for every label, and at least one entry.
LEMMA CountsCover ==
  /\ CountsOrder # <<>> /\ Len(CountsOrder) \in Nat /\ DOMAIN CountsOrder = 1..Len(CountsOrder)
  /\ \A class \in HandLabels : \E k \in DOMAIN CountsOrder : CountsOrder[k] = class
<1>. DEFINE others == HandLabels \ ToSet(FailureClass)
            more == SetToSeq(others)
            T == {FailureClass[i] : i \in 1..5} \cup HandLabels
<1>1. IsFiniteSet(others)
  <2>1. others \in SUBSET HandLabels
    OBVIOUS
  <2>. HIDE DEF others
  <2>. QED BY <2>1, AnalysisConstantsOK, FS_Subset
<1>2. more \in Seq(others) /\ \A x \in others : \E i \in DOMAIN more : more[i] = x
  <2>. HIDE DEF others
  <2>. QED BY <1>1, SetToSeqOnto
<1>3. more \in Seq(T) /\ FailureClass \in Seq(T) /\ Len(FailureClass) = 5
  <2>1. others \subseteq T
    OBVIOUS
  <2>2. Seq(others) \subseteq Seq(T)
    <3>. HIDE DEF others, T
    <3>. QED BY <2>1, SeqMonotonic
  <2>3. more \in Seq(T)
    <3>. HIDE DEF others, T
    <3>. QED BY <1>2, <2>2
  <2>4. DOMAIN FailureClass = 1..5 /\ FailureClass = [i \in 1..5 |-> FailureClass[i]]
    BY DEF FailureClass
  <2>5. FailureClass \in [1..5 -> T]
    BY <2>4
  <2>6. FailureClass \in Seq(T) /\ Len(FailureClass) = 5
    <3>. HIDE DEF T
    <3>1. FailureClass \in Seq(T)
      <4>1. \A n \in Nat : [1..n -> T] \subseteq Seq(T)
        OBVIOUS
      <4>. QED BY <2>5, <4>1
    <3>2. Len(FailureClass) = 5
      BY <2>4, <3>1, LenProperties
    <3>. QED BY <3>1, <3>2
  <2>. QED BY <2>3, <2>6
<1>4. CountsOrder = FailureClass \o more
  BY DEF CountsOrder
<1>. HIDE DEF T, more
<1>5. /\ Len(more) \in Nat /\ DOMAIN more = 1..Len(more) /\ DOMAIN FailureClass = 1..5
      /\ CountsOrder \in Seq(T) /\ Len(CountsOrder) = 5 + Len(more)
      /\ \A k \in 1..5 : CountsOrder[k] = FailureClass[k]
      /\ \A k \in 1..Len(more) : CountsOrder[5 + k] = more[k]
  <2>1. FailureClass \o more \in Seq(T) /\ Joins(FailureClass \o more, FailureClass, more)
    BY <1>3, Joined
  <2>. QED BY <1>3, <1>4, <2>1, Zenon DEF Joins
<1>6. DOMAIN CountsOrder = 1..(5 + Len(more)) /\ CountsOrder # <<>>
  BY <1>5, LenProperties, EmptySeq
<1>7. ASSUME NEW class \in HandLabels PROVE \E k \in DOMAIN CountsOrder : CountsOrder[k] = class
  <2>1. CASE class \in others
    <3>1. PICK i \in 1..Len(more) : more[i] = class
      BY <1>2, <1>5, <2>1
    <3>2. 5 + i \in DOMAIN CountsOrder
      BY <1>5, <1>6
    <3>. QED BY <1>5, <3>1, <3>2
  <2>2. CASE class \in ToSet(FailureClass)
    <3>1. PICK i \in 1..5 : FailureClass[i] = class
      BY <1>5, <2>2 DEF ToSet
    <3>2. i \in DOMAIN CountsOrder
      BY <1>5, <1>6
    <3>. QED BY <1>5, <3>1, <3>2
  <2>. QED BY <2>1, <2>2
<1>. QED BY <1>5, <1>6, <1>7

\* max(counts.items()) is one of the highest.
LEMMA DominantIsHighest ==
  ASSUME NEW counts, \A class \in ToSet(CountsOrder) : counts[class] \in Nat
  PROVE  /\ Dominant(counts) \in ToSet(CountsOrder)
         /\ \A class \in ToSet(CountsOrder) : counts[class] <= counts[Dominant(counts)]
<1>. DEFINE n == Len(CountsOrder)
            f == [i \in 1..n |-> counts[CountsOrder[i]]]
            V == {f[i] : i \in DOMAIN f}
            IsFirst(i) == \A k \in DOMAIN CountsOrder :
                           counts[CountsOrder[k]] < counts[CountsOrder[i]]
                             \/ (counts[CountsOrder[k]] = counts[CountsOrder[i]] /\ i <= k)
<1>1. n \in Nat /\ n # 0 /\ DOMAIN CountsOrder = 1..n
  BY CountsCover, EmptySeq
<1>2. \A i \in 1..n : counts[CountsOrder[i]] \in Nat
  BY <1>1 DEF ToSet
<1>3. DOMAIN f = 1..n /\ V \in SUBSET Int /\ V # {} /\ IsFiniteSet(1..n)
  <2>1. DOMAIN f = 1..n /\ IsFiniteSet(1..n) /\ 1 \in 1..n
    BY <1>1, FS_Interval
  <2>2. \A i \in 1..n : f[i] \in Int
    BY <1>2
  <2>. HIDE DEF f
  <2>. QED BY <2>1, <2>2
<1>4. IsFiniteSet(V)
  <2>. HIDE DEF f
  <2>. QED BY <1>3, ValuesFinite
<1>5. PICK high \in V : \A v \in V : v <= high
  <2>. HIDE DEF V
  <2>. QED BY <1>3, <1>4, GreatestExists
<1>. DEFINE W == {i \in 1..n : counts[CountsOrder[i]] = high}
<1>6. W \in SUBSET Int /\ W # {} /\ W \in SUBSET (1..n)
  BY <1>3
<1>7. IsFiniteSet(W)
  <2>. HIDE DEF W
  <2>. QED BY <1>3, <1>6, FS_Subset
<1>8. PICK best \in W : \A i \in W : best <= i
  <2>. HIDE DEF W
  <2>. QED BY <1>6, <1>7, LeastExists
<1>9. best \in DOMAIN CountsOrder /\ IsFirst(best)
  <2>1. ASSUME NEW k \in 1..n
        PROVE  counts[CountsOrder[k]] < counts[CountsOrder[best]]
                 \/ (counts[CountsOrder[k]] = counts[CountsOrder[best]] /\ best <= k)
    <3>1. counts[CountsOrder[k]] <= high /\ counts[CountsOrder[best]] = high /\ high \in Nat
      BY <1>2, <1>5
    <3>2. CASE counts[CountsOrder[k]] = high
      BY <1>8, <3>1, <3>2
    <3>3. CASE counts[CountsOrder[k]] # high
      BY <1>2, <3>1, <3>3
    <3>. QED BY <3>2, <3>3
  <2>. QED BY <1>1, <2>1
<1>. DEFINE c == CHOOSE i \in DOMAIN CountsOrder : IsFirst(i)
<1>10. c \in DOMAIN CountsOrder /\ IsFirst(c)
  <2>. HIDE DEF IsFirst
  <2>. QED BY <1>9, Zenon
<1>11. Dominant(counts) = CountsOrder[c]
  BY Zenon DEF Dominant
<1>. HIDE DEF c
<1>12. \A k \in DOMAIN CountsOrder : counts[CountsOrder[k]] <= counts[CountsOrder[c]]
  BY <1>1, <1>2, <1>10
<1>. QED BY <1>10, <1>11, <1>12 DEF ToSet
\* The attempts of all directories, and those with a label.
AttemptFiles == [d \in DOMAIN dirs |-> dirs[d].attempts]
Found(X)     == {p \in Places(AttemptFiles) : AttemptFiles[p[1]][p[2]] \in X}
Bare         == {a \in AttemptRecord : a.failed /\ a.class = None}
WithLabel(c)   == {a \in AttemptRecord : a.failed /\ a.class # None /\ a.class = c}

LEMMA FilesTyped ==
  ASSUME ReportInv
  PROVE  /\ AttemptFiles \in Seq(Seq(AttemptRecord)) /\ DOMAIN AttemptFiles = DOMAIN dirs
         /\ \A d \in DOMAIN dirs : AttemptFiles[d] = dirs[d].attempts /\ dirs[d].attempts \in Seq(AttemptRecord)
         /\ \A p \in Places(AttemptFiles) : AttemptFiles[p[1]][p[2]] \in AttemptRecord
<1>1. DOMAIN dirs = 1..Len(dirs) /\ Len(dirs) \in Nat
  BY LenProperties DEF ReportInv
<1>2. \A d \in DOMAIN dirs : dirs[d].attempts \in Seq(AttemptRecord)
  BY ReportShape, DirectoryFields
<1>3. DOMAIN AttemptFiles = DOMAIN dirs /\ \A d \in DOMAIN dirs : AttemptFiles[d] = dirs[d].attempts
  BY DEF AttemptFiles
<1>4. AttemptFiles \in [1..Len(dirs) -> Seq(AttemptRecord)]
  BY <1>1, <1>2 DEF AttemptFiles
<1>5. AttemptFiles \in Seq(Seq(AttemptRecord))
  BY <1>1, <1>4
<1>6. ASSUME NEW d \in DOMAIN dirs, NEW i \in DOMAIN dirs[d].attempts
      PROVE  dirs[d].attempts[i] \in AttemptRecord
  BY <1>2, LenProperties, ElementOfSeq
<1>7. ASSUME NEW p \in Places(AttemptFiles) PROVE AttemptFiles[p[1]][p[2]] \in AttemptRecord
  <2>1. PICK d \in DOMAIN AttemptFiles : \E i \in DOMAIN AttemptFiles[d] : p = <<d, i>>
    BY DEF Places
  <2>. QED BY <1>3, <1>6, <2>1
<1>. QED BY <1>2, <1>3, <1>5, <1>7

\* The report's counts are those of the attempts in the files.
LEMMA TaxonomyCounts ==
  ASSUME ReportInv, NEW runs, NEW tax, tax = TaxonomyReport(AllAttempts(dirs), runs)
  PROVE  /\ \A X : IsFiniteSet(Found(X)) /\ Size(Found(X)) \in Nat
         /\ tax.unclassified = Size(Found(Bare))
         /\ \A c \in ToSet(CountsOrder) : tax.counts[c] = Size(Found(WithLabel(c)))
<1>. DEFINE flat == AllAttempts(dirs)
            failed == FailedAttempts(flat)
            labelled == {i \in failed : flat[i].class # None}
<1>1. flat = FlattenSeq(AttemptFiles)
  BY DEF AllAttempts, AttemptFiles
<1>2. \A X : /\ IsFiniteSet(Found(X))
             /\ Size({k \in DOMAIN flat : flat[k] \in X}) = Size(Found(X))
  <2>. TAKE X
  <2>1. AttemptFiles \in Seq(Seq(AttemptRecord))
    BY FilesTyped
  <2>2. /\ IsFiniteSet({p \in Places(AttemptFiles) : AttemptFiles[p[1]][p[2]] \in X})
        /\ Cardinality({k \in DOMAIN FlattenSeq(AttemptFiles) : FlattenSeq(AttemptFiles)[k] \in X})
             = Cardinality({p \in Places(AttemptFiles) : AttemptFiles[p[1]][p[2]] \in X})
    BY <2>1, FlattenCount
  <2>3. {k \in DOMAIN FlattenSeq(AttemptFiles) : FlattenSeq(AttemptFiles)[k] \in X}
          = {k \in DOMAIN flat : flat[k] \in X}
    BY <1>1, Zenon
  <2>. HIDE DEF flat
  <2>. QED BY <2>2, <2>3, Zenon DEF Found, Size
<1>3. \A k \in DOMAIN flat : flat[k] \in AttemptRecord
  <2>1. flat \in Seq(AttemptRecord)
    BY <1>1, FilesTyped, FlattenLocated
  <2>. HIDE DEF flat
  <2>. QED BY <2>1, LenProperties, ElementOfSeq
<1>4. /\ tax.unclassified = Size(failed \ labelled)
      /\ \A c \in ToSet(CountsOrder) : tax.counts[c] = Size({i \in labelled : flat[i].class = c})
  <2>1. tax.unclassified = Size(failed \ labelled)
    BY DEF TaxonomyReport
  <2>2. tax.counts = [c \in ToSet(CountsOrder) |-> Size({i \in labelled : flat[i].class = c})]
    BY DEF TaxonomyReport
  <2>. HIDE DEF failed, labelled
  <2>. QED BY <2>1, <2>2
<1>5. failed = {i \in DOMAIN flat : flat[i].failed}
  BY DEF FailedAttempts
<1>. HIDE DEF flat, failed
<1>6. failed \ labelled = {k \in DOMAIN flat : flat[k] \in Bare}
  BY <1>3, <1>5 DEF Bare
<1>7. \A c : {i \in labelled : flat[i].class = c} = {k \in DOMAIN flat : flat[k] \in WithLabel(c)}
  BY <1>3, <1>5 DEF WithLabel
<1>8. \A X : Size(Found(X)) \in Nat
  BY <1>2, FS_CardinalityType DEF Size
<1>. HIDE DEF labelled
<1>. QED BY <1>2, <1>4, <1>6, <1>7, <1>8

\* An advice of section 6 comes from one of three places.
Corpus  == <<"6.1", "manimgl-confusion">>
Ceiling == <<"6.2", "semantic">>
Pending == <<"6.1/6.2", "pending">>
Broken  == <<"6.4", "fix MANIMA">>

LEMMA AdviceFrom ==
  ASSUME NEW runs, runs = AllRuns(dirs), NEW tax, tax = TaxonomyReport(AllAttempts(dirs), runs)
  PROVE  /\ TaxonomyAdvice(tax) \subseteq {Corpus, Ceiling, Pending}
         /\ Broken \in Advisories(dirs) <=> \E d \in DOMAIN dirs : Breaches(dirs[d]) > 0
         /\ \A a \in Advisories(dirs) : a[1] \in {"6.1", "6.2", "6.1/6.2"} <=> a \in TaxonomyAdvice(tax)
         /\ \A c : <<"6.3", c>> \in Advisories(dirs) <=> (c \in Conditions(runs) /\ Converges(runs, c) = FALSE)
<1>. DEFINE broken == {Broken : d \in {e \in DOMAIN dirs : Breaches(dirs[e]) > 0}}
            futile == {<<"6.3", c>> : c \in {k \in Conditions(runs) : Converges(runs, k) = FALSE}}
<1>1. Advisories(dirs) = (broken \cup futile) \cup TaxonomyAdvice(tax)
  BY DEF Advisories, Broken
<1>2. TaxonomyAdvice(tax) \subseteq {Corpus, Ceiling, Pending}
  BY DEF TaxonomyAdvice, Corpus, Ceiling, Pending
<1>3. \A a \in {Corpus, Ceiling, Pending} : a[1] \in {"6.1", "6.2", "6.1/6.2"} /\ a[1] # "6.4" /\ a[1] # "6.3"
  BY DEF Corpus, Ceiling, Pending
<1>4. \A a \in broken : a = Broken /\ a[1] = "6.4"
  <2>1. \A a \in broken : a = Broken
    OBVIOUS
  <2>2. Broken[1] = "6.4"
    BY DEF Broken
  <2>. HIDE DEF broken
  <2>. QED BY <2>1, <2>2, Zenon
<1>5. \A a \in futile : a[1] = "6.3"
  OBVIOUS
<1>6. Broken \in broken <=> \E d \in DOMAIN dirs : Breaches(dirs[d]) > 0
  OBVIOUS
<1>7. \A c : <<"6.3", c>> \in futile <=> (c \in Conditions(runs) /\ Converges(runs, c) = FALSE)
  OBVIOUS
<1>8. Broken[1] = "6.4" /\ \A c : <<"6.3", c>>[1] = "6.3"
  BY DEF Broken
<1>. HIDE DEF broken, futile
<1>9. Broken \in Advisories(dirs) <=> Broken \in broken
  BY <1>1, <1>2, <1>3, <1>5, <1>8
<1>10. \A c : <<"6.3", c>> \in Advisories(dirs) <=> <<"6.3", c>> \in futile
  BY <1>1, <1>2, <1>3, <1>4, <1>8
<1>11. \A a \in Advisories(dirs) : a[1] \in {"6.1", "6.2", "6.1/6.2"} <=> a \in TaxonomyAdvice(tax)
  BY <1>1, <1>2, <1>3, <1>4, <1>5
<1>. QED BY <1>2, <1>6, <1>7, <1>9, <1>10, <1>11

\* Never both.
LEMMA OneLever ==
  ASSUME NEW tax
  PROVE  \E x : TaxonomyAdvice(tax) \subseteq {x}
<1>1. CASE tax.unclassified > 0
  BY <1>1 DEF TaxonomyAdvice
<1>2. CASE ~(tax.unclassified > 0)
  <2>1. \A a \in TaxonomyAdvice(tax) : a \in {Corpus, Ceiling} /\ a[2] = Dominant(tax.counts)
    BY <1>2 DEF TaxonomyAdvice, Corpus, Ceiling
  <2>2. Corpus[2] = "manimgl-confusion" /\ Ceiling[2] = "semantic"
    BY DEF Corpus, Ceiling
  <2>. QED BY <2>1, <2>2
<1>. QED BY <1>1, <1>2
Tally(failed, c) == Size({p \in failed : AttemptFiles[p[1]][p[2]].class = c})

LEMMA LeverBacked ==
  ASSUME ReportInv, NEW runs, NEW tax, tax = TaxonomyReport(AllAttempts(dirs), runs),
         NEW a \in TaxonomyAdvice(tax), a[1] \in {"6.1", "6.2"},
         NEW failed, failed = {p \in Places(AttemptFiles) : AttemptFiles[p[1]][p[2]].failed}
  PROVE  /\ \A p \in failed : AttemptFiles[p[1]][p[2]].class # None
         /\ Tally(failed, a[2]) > 0
         /\ \A class \in HandLabels : Tally(failed, class) <= Tally(failed, a[2])
<1>1. ~(tax.unclassified > 0) /\ a[2] = Dominant(tax.counts) /\ tax.counts[a[2]] > 0
  <2>1. ~(tax.unclassified > 0)
    BY DEF TaxonomyAdvice
  <2>. QED BY <2>1 DEF TaxonomyAdvice
<1>2. /\ \A X : IsFiniteSet(Found(X)) /\ Size(Found(X)) \in Nat
      /\ tax.unclassified = Size(Found(Bare))
      /\ \A c \in ToSet(CountsOrder) : tax.counts[c] = Size(Found(WithLabel(c)))
  BY TaxonomyCounts
<1>3. Found(Bare) = {}
  BY <1>1, <1>2, FS_EmptySet DEF Size
<1>4. \A p \in Places(AttemptFiles) : AttemptFiles[p[1]][p[2]] \in AttemptRecord
  BY FilesTyped
<1>5. \A p \in failed : AttemptFiles[p[1]][p[2]].class # None
  BY <1>3, <1>4 DEF Found, Bare
<1>6. \A c : Found(WithLabel(c)) = {p \in failed : AttemptFiles[p[1]][p[2]].class = c}
  BY <1>4, <1>5 DEF Found, WithLabel
<1>7. \A c \in ToSet(CountsOrder) : tax.counts[c] \in Nat
  BY <1>2
<1>8. a[2] \in ToSet(CountsOrder) /\ \A c \in ToSet(CountsOrder) : tax.counts[c] <= tax.counts[a[2]]
  BY <1>1, <1>7, DominantIsHighest
<1>9. \A class \in HandLabels : class \in ToSet(CountsOrder)
  BY CountsCover DEF ToSet
<1>10. \A c \in ToSet(CountsOrder) : tax.counts[c] = Tally(failed, c)
  BY <1>2, <1>6, Zenon DEF Tally
<1>. QED BY <1>1, <1>5, <1>8, <1>9, <1>10

LEMMA AdviceIs == ReportInv => AdviceBacked
<1>. SUFFICES ASSUME ReportInv PROVE AdviceBacked
  OBVIOUS
<1>. DEFINE runs == AllRuns(dirs)
            tax == TaxonomyReport(AllAttempts(dirs), runs)
            advice == Advisories(dirs)
            failed == UNION {{<<d, i>> : i \in FailedAttempts(dirs[d].attempts)} : d \in DOMAIN dirs}
            Class(a) == dirs[a[1]].attempts[a[2]].class
            Share(class) == Size({a \in failed : Class(a) = class})
            sixes == {a \in advice : a[1] \in {"6.1", "6.2", "6.1/6.2"}}
<1>1. /\ TaxonomyAdvice(tax) \subseteq {Corpus, Ceiling, Pending}
      /\ Broken \in advice <=> \E d \in DOMAIN dirs : Breaches(dirs[d]) > 0
      /\ \A a \in advice : a[1] \in {"6.1", "6.2", "6.1/6.2"} <=> a \in TaxonomyAdvice(tax)
  BY AdviceFrom
<1>2. Broken \in advice <=> \E d \in DOMAIN fates : fates[d].drained /\ fates[d].slow
  <2>1. \A d \in DOMAIN dirs : d \in DOMAIN fates \/ d = Now
    BY ReportShape
  <2>2. ~(Breaches(dirs[Now]) > 0)
    <3>1. Breaches(dirs[Now]) = 0
      BY NothingShows DEF ReportInv, Now
    <3>. QED BY <3>1
  <2>3. \A d \in DOMAIN fates : d \in DOMAIN dirs
          /\ (Breaches(dirs[d]) > 0 <=> (fates[d].drained /\ fates[d].slow))
    BY ReportShape, Zenon DEF ReportInv, Shows
  <2>. HIDE DEF advice
  <2>. QED BY <1>1, <2>1, <2>2, <2>3, Zenon
<1>3. Size(sixes) <= 1
  <2>. HIDE DEF tax, advice
  <2>1. PICK x : TaxonomyAdvice(tax) \subseteq {x}
    BY OneLever
  <2>2. sixes \in SUBSET {x}
    BY <1>1, <2>1
  <2>. HIDE DEF sixes
  <2>3. IsFiniteSet({x}) /\ Cardinality({x}) = 1
    BY FS_Singleton
  <2>4. IsFiniteSet(sixes) /\ Cardinality(sixes) <= Cardinality({x})
    BY <2>2, <2>3, FS_Subset
  <2>. QED BY <2>3, <2>4 DEF Size
<1>4. failed = {p \in Places(AttemptFiles) : AttemptFiles[p[1]][p[2]].failed}
      /\ \A p \in failed : AttemptFiles[p[1]][p[2]].class = Class(p)
  <2>1. DOMAIN AttemptFiles = DOMAIN dirs /\ \A d \in DOMAIN dirs : AttemptFiles[d] = dirs[d].attempts
    BY FilesTyped
  <2>2. \A d, i : <<d, i>>[1] = d /\ <<d, i>>[2] = i
    OBVIOUS
  <2>3. ASSUME NEW p PROVE p \in failed <=> p \in {q \in Places(AttemptFiles) : AttemptFiles[q[1]][q[2]].failed}
    <3>1. p \in failed <=> \E d \in DOMAIN dirs : \E i \in DOMAIN dirs[d].attempts :
                             p = <<d, i>> /\ dirs[d].attempts[i].failed
      BY DEF FailedAttempts
    <3>2. p \in Places(AttemptFiles) <=> \E d \in DOMAIN dirs : \E i \in DOMAIN dirs[d].attempts : p = <<d, i>>
      BY <2>1 DEF Places
    <3>. HIDE DEF failed
    <3>. QED BY <2>1, <2>2, <3>1, <3>2
  <2>4. \A p \in Places(AttemptFiles) : AttemptFiles[p[1]][p[2]].class = Class(p)
    BY <2>1, <2>2 DEF Places
  <2>. HIDE DEF failed, Class
  <2>. QED BY <2>3, <2>4
<1>5. ASSUME NEW a \in advice, a[1] \in {"6.1", "6.2"}
      PROVE  /\ \A f \in failed : Class(f) # None
             /\ Share(a[2]) > 0
             /\ \A class \in HandLabels : Share(class) <= Share(a[2])
  <2>1. a \in TaxonomyAdvice(tax)
    BY <1>1, <1>5
  <2>2. \A c : {p \in failed : AttemptFiles[p[1]][p[2]].class = c} = {p \in failed : Class(p) = c}
    <3>. HIDE DEF failed, Class
    <3>. QED BY <1>4
  <2>3. tax = TaxonomyReport(AllAttempts(dirs), runs)
    OBVIOUS
  <2>. HIDE DEF failed, tax, advice, runs
  <2>4. /\ \A p \in failed : AttemptFiles[p[1]][p[2]].class # None
        /\ Tally(failed, a[2]) > 0
        /\ \A class \in HandLabels : Tally(failed, class) <= Tally(failed, a[2])
    <3>1. failed = {p \in Places(AttemptFiles) : AttemptFiles[p[1]][p[2]].failed}
      BY <1>4
    <3>. QED BY <1>5, <2>1, <2>3, <3>1, LeverBacked
  <2>5. \A c : Tally(failed, c) = Share(c)
    BY <2>2, Zenon DEF Tally
  <2>6. \A f \in failed : Class(f) # None
    BY <1>4, <2>4
  <2>. HIDE DEF Share
  <2>. QED BY <2>4, <2>5, <2>6
<1>6. Broken = <<"6.4", "fix MANIMA">>
  BY DEF Broken
<1>. HIDE DEF runs, tax
<1>. QED BY <1>2, <1>3, <1>5, <1>6, Zenon DEF AdviceBacked

\* Whatever runs failed and whatever is labelled, and in which order: section 6
\* calls the contract broken iff a run whose calls were drained broke it, names at
\* most one of corpus and ceiling, and that one only when every attempt with a
\* traceback has a label and no label is more frequent (report.py:196-238,
\* taxonomy.py:38-66).
THEOREM AdviceIsBacked == Spec => []AdviceBacked
<1>1. ReportInv /\ MetricsTypeOK => AdviceBacked
  BY AdviceIs
<1>. QED BY <1>1, ReportInvariant, PTL
-----------------------------------------------------------------------------
(***************************************************************************)
(* The success figures.                                                    *)
(***************************************************************************)
LEMMA RunsTyped ==
  ASSUME ReportInv
  PROVE  AllRuns(dirs) \in Seq(JobRun)
<1>. DEFINE files == [d \in DOMAIN dirs |-> dirs[d].runs]
<1>1. DOMAIN dirs = 1..Len(dirs) /\ Len(dirs) \in Nat
  BY LenProperties DEF ReportInv
<1>2. \A d \in DOMAIN dirs : dirs[d].runs \in Seq(JobRun)
  BY ReportShape, DirectoryFields
<1>3. files \in [1..Len(dirs) -> Seq(JobRun)]
  BY <1>1, <1>2
<1>4. files \in Seq(Seq(JobRun))
  <2>. HIDE DEF files
  <2>. QED BY <1>1, <1>3
<1>5. AllRuns(dirs) = FlattenSeq(files)
  BY DEF AllRuns
<1>. HIDE DEF files
<1>. QED BY <1>4, <1>5, FlattenLocated

\* The jobs of a condition.
LEMMA JobsOf ==
  ASSUME NEW runs \in Seq(JobRun), NEW c \in Conditions(runs)
  PROVE  /\ IsFiniteSet(Of(runs, c)) /\ Of(runs, c) # {} /\ Of(runs, c) \subseteq DOMAIN runs
         /\ \A i \in Of(runs, c) :
              /\ runs[i].condition = c
              /\ runs[i].succeeded \in BOOLEAN /\ runs[i].attempts \in Nat \ {0}
              /\ runs[i].first <=> (runs[i].succeeded /\ runs[i].attempts <= 1)
<1>1. DOMAIN runs = 1..Len(runs) /\ Len(runs) \in Nat
  BY LenProperties
<1>2. \A i \in DOMAIN runs : runs[i] \in JobRun
  BY <1>1, ElementOfSeq
<1>3. IsFiniteSet(1..Len(runs)) /\ Of(runs, c) \in SUBSET (1..Len(runs))
  BY <1>1, FS_Interval DEF Of
<1>4. IsFiniteSet(Of(runs, c))
  BY <1>3, FS_Subset
<1>5. Of(runs, c) # {}
  BY DEF Of, Conditions
<1>6. \A i \in Of(runs, c) : i \in DOMAIN runs /\ runs[i].condition = c
  BY DEF Of
<1>7. \A r \in JobRun : /\ r.succeeded \in BOOLEAN /\ r.attempts \in Nat \ {0}
                        /\ r.first <=> (r.succeeded /\ r.attempts <= 1)
  BY DEF JobRun, RunRecord
<1>. QED BY <1>2, <1>4, <1>5, <1>6, <1>7

RowsOf(runs, c) == {row \in Rows(runs) : row[1] = c}

\* The rows of a condition divide any of its jobs among them.
LEMMA RowsAddUp ==
  ASSUME NEW runs \in Seq(JobRun), NEW c \in Conditions(runs), NEW P \in SUBSET Of(runs, c),
         NEW f, DOMAIN f = RowsOf(runs, c),
         \A row \in RowsOf(runs, c) : f[row] = Size({i \in P : runs[i].tier = row[2]})
  PROVE  SumFunction(f) = Size(P)
<1>. DEFINE R == RowsOf(runs, c)
            all == [i \in Of(runs, c) |-> <<c, runs[i].tier>>]
            key == [i \in P |-> <<c, runs[i].tier>>]
<1>1. IsFiniteSet(Of(runs, c)) /\ \A i \in Of(runs, c) : i \in DOMAIN runs /\ runs[i].condition = c
  BY JobsOf
<1>2. R = {all[i] : i \in DOMAIN all}
  <2>1. \A row \in R : \E i \in Of(runs, c) : row = all[i]
    <3>. TAKE row \in R
    <3>1. PICK i \in DOMAIN runs : row = <<runs[i].condition, runs[i].tier>> /\ row[1] = c
      BY DEF RowsOf, Rows
    <3>2. i \in Of(runs, c) /\ runs[i].condition = c
      BY <3>1 DEF Of
    <3>. QED BY <3>1, <3>2
  <2>2. \A i \in Of(runs, c) : all[i] \in R
    <3>. TAKE i \in Of(runs, c)
    <3>1. <<c, runs[i].tier>> \in Rows(runs) /\ <<c, runs[i].tier>>[1] = c
      BY <1>1 DEF Rows
    <3>. QED BY <3>1 DEF RowsOf
  <2>3. DOMAIN all = Of(runs, c)
    OBVIOUS
  <2>. HIDE DEF all, R
  <2>. QED BY <2>1, <2>2, <2>3
<1>3. IsFiniteSet(R)
  <2>1. IsFiniteSet(DOMAIN all)
    BY <1>1
  <2>. HIDE DEF all, R
  <2>. QED BY <1>2, <2>1, ValuesFinite
<1>4. key \in [P -> R] /\ \A i \in P : key[i] = <<c, runs[i].tier>>
  <2>1. \A i \in P : <<c, runs[i].tier>> \in R
    BY <1>2
  <2>. HIDE DEF R
  <2>. QED BY <2>1
<1>5. \A row \in R : f[row] = Cardinality({i \in P : key[i] = row})
  <2>. TAKE row \in R
  <2>1. row = <<c, row[2]>>
    BY DEF RowsOf, Rows
  <2>2. {i \in P : key[i] = row} = {i \in P : runs[i].tier = row[2]}
    <3>. HIDE DEF key
    <3>. QED BY <1>4, <2>1
  <2>. QED BY <2>2 DEF Size
<1>6. IsFiniteSet(P)
  BY <1>1, FS_Subset
<1>7. DOMAIN f = R
  OBVIOUS
<1>. HIDE DEF R, key
<1>. QED BY <1>3, <1>4, <1>5, <1>6, <1>7, GroupsAddUp DEF Size

\* So do the numbers of attempts.
LEMMA AttemptsAddUp ==
  ASSUME NEW runs \in Seq(JobRun), NEW c \in Conditions(runs), NEW P \in SUBSET Of(runs, c),
         NEW f, IsFiniteSet(DOMAIN f), \A i \in P : runs[i].attempts \in DOMAIN f,
         \A k \in DOMAIN f : f[k] = Size({i \in P : runs[i].attempts = k})
  PROVE  SumFunction(f) = Size(P)
<1>. DEFINE key == [i \in P |-> runs[i].attempts]
<1>1. IsFiniteSet(P)
  BY JobsOf, FS_Subset
<1>2. key \in [P -> DOMAIN f] /\ \A i \in P : key[i] = runs[i].attempts
  OBVIOUS
<1>. HIDE DEF key
<1>3. \A k \in DOMAIN f : f[k] = Cardinality({i \in P : key[i] = k})
  <2>. TAKE k \in DOMAIN f
  <2>1. {i \in P : key[i] = k} = {i \in P : runs[i].attempts = k}
    BY <1>2
  <2>. QED BY <2>1 DEF Size
<1>. QED BY <1>1, <1>2, <1>3, GroupsAddUp DEF Size
\* The most attempts any job of the condition has had.
LEMMA MaxAttemptsIs ==
  ASSUME NEW runs \in Seq(JobRun), NEW c \in Conditions(runs)
  PROVE  /\ MaxAttempts(runs, c) \in Nat \ {0}
         /\ \A i \in Of(runs, c) : runs[i].attempts \in 1..MaxAttempts(runs, c)
         /\ \E i \in Of(runs, c) : runs[i].attempts = MaxAttempts(runs, c)
<1>. DEFINE f == [i \in Of(runs, c) |-> runs[i].attempts]
            V == {f[i] : i \in DOMAIN f}
<1>1. IsFiniteSet(DOMAIN f) /\ V # {} /\ V \in SUBSET Nat /\ \A i \in Of(runs, c) : f[i] \in V /\ f[i] \in Nat \ {0}
  BY JobsOf
<1>2. V = {runs[i].attempts : i \in Of(runs, c)}
  OBVIOUS
<1>3. MaxAttempts(runs, c) = Highest(V)
  BY <1>2, Zenon DEF MaxAttempts
<1>4. IsFiniteSet(V)
  <2>. HIDE DEF f
  <2>. QED BY <1>1, ValuesFinite
<1>5. Highest(V) \in V /\ \A m \in V : m <= Highest(V)
  <2>. HIDE DEF V
  <2>. QED BY <1>1, <1>4, HighestNumber
<1>6. \A i \in Of(runs, c) : f[i] = runs[i].attempts
  OBVIOUS
<1>7. \E i \in Of(runs, c) : f[i] = Highest(V)
  BY <1>5
<1>. HIDE DEF f, V
<1>8. \A i \in Of(runs, c) : runs[i].attempts \in Nat \ {0} /\ runs[i].attempts <= Highest(V)
  BY <1>1, <1>5, <1>6
<1>9. Highest(V) \in Nat \ {0} /\ \A i \in Of(runs, c) : runs[i].attempts \in 1..Highest(V)
  BY <1>6, <1>7, <1>8
<1>. QED BY <1>3, <1>6, <1>7, <1>9

LEMMA RateFalls == \A r, n, f \in Nat : r # 0 /\ ~(r * n > f * r) => n <= f
<1>. SUFFICES ASSUME NEW r \in Nat, NEW n \in Nat, NEW f \in Nat, r # 0, n > f PROVE r * n > f * r
  OBVIOUS
<1>1. PICK d \in Nat : n = f + d /\ d # 0
  <2>1. n - f \in Nat /\ n = f + (n - f) /\ n - f # 0
    OBVIOUS
  <2>. QED BY <2>1
<1>2. r * n = r * f + r * d
  BY <1>1
<1>3. r * d > 0
  BY <1>1
<1>4. r * f \in Nat /\ r * d \in Nat /\ r * f = f * r
  BY <1>1
<1>. QED BY <1>2, <1>3, <1>4

\* What the rest of the report says of a condition.
FirstOf(runs, c) == FirstPass(runs, Of(runs, c))
PostOf(runs, c)  == PostRepair(runs, Of(runs, c))

LEMMA SizesOf ==
  ASSUME NEW runs \in Seq(JobRun), NEW c \in Conditions(runs)
  PROVE  /\ FirstOf(runs, c) \in SUBSET Of(runs, c) /\ PostOf(runs, c) \in SUBSET Of(runs, c)
         /\ FirstOf(runs, c) \in SUBSET PostOf(runs, c)
         /\ Size(FirstOf(runs, c)) \in Nat /\ Size(PostOf(runs, c)) \in Nat
         /\ Size(Of(runs, c)) \in Nat \ {0}
         /\ Size(FirstOf(runs, c)) <= Size(Of(runs, c))
<1>1. /\ FirstOf(runs, c) \in SUBSET Of(runs, c) /\ PostOf(runs, c) \in SUBSET Of(runs, c)
      /\ FirstOf(runs, c) \in SUBSET PostOf(runs, c)
  BY JobsOf DEF FirstOf, PostOf, FirstPass, PostRepair
<1>2. IsFiniteSet(Of(runs, c)) /\ Of(runs, c) # {}
  BY JobsOf
<1>3. /\ IsFiniteSet(FirstOf(runs, c)) /\ IsFiniteSet(PostOf(runs, c))
      /\ Cardinality(FirstOf(runs, c)) <= Cardinality(Of(runs, c))
  BY <1>1, <1>2, FS_Subset
<1>. QED BY <1>1, <1>2, <1>3, FS_CardinalityType, FS_EmptySet DEF Size

\* Attempt 1 of the curve is the first pass, and the curve has every repair.
LEMMA CurveOfRepair ==
  ASSUME NEW runs \in Seq(JobRun), NEW c \in Conditions(runs), NEW marginal, marginal = MarginalSuccess(runs, c)
  PROVE  /\ DOMAIN marginal = 1..MaxAttempts(runs, c) /\ Len(marginal) = MaxAttempts(runs, c)
         /\ marginal[1] = <<Size(FirstOf(runs, c)), Size(Of(runs, c))>>
         /\ SumFunction([k \in DOMAIN marginal |-> marginal[k][1]]) = Size(PostOf(runs, c))
<1>. DEFINE high == MaxAttempts(runs, c)
            f == [k \in DOMAIN marginal |-> marginal[k][1]]
<1>1. high \in Nat \ {0} /\ \A i \in Of(runs, c) : runs[i].attempts \in 1..high
  BY MaxAttemptsIs
<1>2. DOMAIN marginal = 1..high
      /\ \A k \in 1..high : marginal[k] = <<Size(SucceededAt(runs, c, k)), Size(Reached(runs, c, k))>>
  BY DEF MarginalSuccess
<1>3. Len(marginal) = high
  <2>1. marginal \in Seq({marginal[k] : k \in 1..high})
    <3>1. marginal = [k \in 1..high |-> marginal[k]]
      BY DEF MarginalSuccess
    <3>2. marginal \in [1..high -> {marginal[k] : k \in 1..high}]
      BY <3>1
    <3>3. \A S : \A n \in Nat : [1..n -> S] \subseteq Seq(S)
      OBVIOUS
    <3>. HIDE DEF high
    <3>. QED BY <1>1, <3>2, <3>3
  <2>. HIDE DEF high
  <2>. QED BY <1>1, <1>2, <2>1, LenProperties
<1>. HIDE DEF high
<1>4. marginal[1] = <<Size(FirstOf(runs, c)), Size(Of(runs, c))>>
  <2>1. 1 \in 1..high
    BY <1>1
  <2>2. Reached(runs, c, 1) = Of(runs, c)
    BY <1>1 DEF Reached
  <2>3. SucceededAt(runs, c, 1) = FirstOf(runs, c)
    <3>1. \A i \in Of(runs, c) : runs[i].first <=> (runs[i].succeeded /\ runs[i].attempts = 1)
      BY JobsOf
    <3>. QED BY <3>1 DEF SucceededAt, FirstOf, FirstPass
  <2>. QED BY <1>2, <2>1, <2>2, <2>3
<1>5. SumFunction(f) = Size(PostOf(runs, c))
  <2>1. DOMAIN f = 1..high /\ IsFiniteSet(1..high)
    BY <1>1, <1>2, FS_Interval
  <2>2. \A k \in 1..high : f[k] = Size({i \in PostOf(runs, c) : runs[i].attempts = k})
    <3>. TAKE k \in 1..high
    <3>1. f[k] = Size(SucceededAt(runs, c, k))
      BY <1>2
    <3>2. SucceededAt(runs, c, k) = {i \in PostOf(runs, c) : runs[i].attempts = k}
      BY DEF SucceededAt, PostOf, PostRepair
    <3>. QED BY <3>1, <3>2
  <2>3. \A i \in PostOf(runs, c) : runs[i].attempts \in 1..high
    BY <1>1, SizesOf
  <2>. HIDE DEF f
  <2>4. /\ IsFiniteSet(DOMAIN f) /\ \A i \in PostOf(runs, c) : runs[i].attempts \in DOMAIN f
        /\ \A k \in DOMAIN f : f[k] = Size({i \in PostOf(runs, c) : runs[i].attempts = k})
    BY <2>1, <2>2, <2>3, Zenon
  <2>5. PostOf(runs, c) \in SUBSET Of(runs, c)
    BY SizesOf
  <2>. QED BY <2>4, <2>5, AttemptsAddUp
<1>. QED BY <1>2, <1>3, <1>4, <1>5 DEF high

\* The repair yield is the lift over the first-pass failures.
LEMMA YieldIsLift ==
  ASSUME NEW runs \in Seq(JobRun), NEW c \in Conditions(runs)
  PROVE  LET n     == Size(Of(runs, c))
             first == Size(FirstOf(runs, c))
             post  == Size(PostOf(runs, c))
         IN  RepairYield(runs, c) = (IF n = first THEN None ELSE <<post - first, n - first>>)
<1>. DEFINE A == Of(runs, c)
            F == FirstOf(runs, c)
            P == PostOf(runs, c)
            failures == A \ F
<1>1. IsFiniteSet(A) /\ F \in SUBSET A /\ P \in SUBSET A /\ F \in SUBSET P
  BY JobsOf, SizesOf
<1>2. PostRepair(runs, failures) = P \ F
  BY DEF PostOf, PostRepair
<1>3. RepairYield(runs, c) = IF failures = {} THEN None ELSE <<Size(PostRepair(runs, failures)), Size(failures)>>
  BY Zenon DEF RepairYield, FirstOf
<1>. HIDE DEF A, F, P
<1>4. IsFiniteSet(P)
  BY <1>1, FS_Subset
<1>5. A \cap F = F /\ P \cap F = F
  BY <1>1
<1>6. /\ Cardinality(A \ F) = Cardinality(A) - Cardinality(A \cap F)
      /\ Cardinality(P \ F) = Cardinality(P) - Cardinality(P \cap F)
  BY <1>1, <1>4, FS_Difference
<1>7. Size(failures) = Size(A) - Size(F) /\ Size(P \ F) = Size(P) - Size(F)
  BY <1>5, <1>6 DEF Size
<1>8. failures = {} <=> Size(A) = Size(F)
  <2>1. IsFiniteSet(failures)
    BY <1>1, FS_Difference
  <2>2. Size(A) \in Nat /\ Size(F) \in Nat
    BY SizesOf DEF A, F
  <2>. HIDE DEF failures
  <2>. QED BY <1>7, <2>1, <2>2, FS_EmptySet DEF Size
<1>. HIDE DEF failures
<1>9. RepairYield(runs, c) = IF Size(A) = Size(F) THEN None ELSE <<Size(P) - Size(F), Size(A) - Size(F)>>
  BY <1>2, <1>3, <1>7, <1>8, Zenon
<1>. QED BY <1>9, Zenon DEF A, F, P
\* The tiers and the histogram.
LEMMA TiersAddUp ==
  ASSUME NEW runs \in Seq(JobRun), NEW c \in Conditions(runs), NEW success, success = SuccessRates(runs),
         NEW rows, rows = {row \in DOMAIN success : row[1] = c}
  PROVE  /\ SumFunction([row \in rows |-> success[row].n]) = Size(Of(runs, c))
         /\ SumFunction([row \in rows |-> success[row].first_pass]) = Size(FirstOf(runs, c))
         /\ SumFunction([row \in rows |-> success[row].post_repair]) = Size(PostOf(runs, c))
<1>. DEFINE Group(row) == {i \in Of(runs, row[1]) : runs[i].tier = row[2]}
<1>1. rows = RowsOf(runs, c)
  BY DEF SuccessRates, RowsOf
<1>2. \A row \in rows : success[row] = [n |-> Size(Group(row)), first_pass |-> Size(FirstPass(runs, Group(row))),
                                       post_repair |-> Size(PostRepair(runs, Group(row)))]
  BY DEF SuccessRates
<1>3. \A row \in rows : row[1] = c
  OBVIOUS
<1>4. \A row \in rows : Group(row) = {i \in Of(runs, c) : runs[i].tier = row[2]}
  BY <1>3
<1>. HIDE DEF Group
<1>5. \A row \in rows : /\ success[row].n = Size({i \in Of(runs, c) : runs[i].tier = row[2]})
                        /\ success[row].first_pass = Size({i \in FirstOf(runs, c) : runs[i].tier = row[2]})
                        /\ success[row].post_repair = Size({i \in PostOf(runs, c) : runs[i].tier = row[2]})
  <2>. TAKE row \in rows
  <2>1. /\ FirstPass(runs, Group(row)) = {i \in FirstOf(runs, c) : runs[i].tier = row[2]}
        /\ PostRepair(runs, Group(row)) = {i \in PostOf(runs, c) : runs[i].tier = row[2]}
    BY <1>4 DEF FirstOf, PostOf, FirstPass, PostRepair
  <2>2. /\ success[row].n = Size(Group(row)) /\ success[row].first_pass = Size(FirstPass(runs, Group(row)))
        /\ success[row].post_repair = Size(PostRepair(runs, Group(row)))
    BY <1>2
  <2>. QED BY <1>4, <2>1, <2>2, Zenon
<1>6. ASSUME NEW P \in SUBSET Of(runs, c), NEW f, DOMAIN f = rows,
             \A row \in rows : f[row] = Size({i \in P : runs[i].tier = row[2]})
      PROVE  SumFunction(f) = Size(P)
  <2>1. DOMAIN f = RowsOf(runs, c) /\ \A row \in RowsOf(runs, c) : f[row] = Size({i \in P : runs[i].tier = row[2]})
    BY <1>1, <1>6, Zenon
  <2>. QED BY <1>6, <2>1, RowsAddUp
<1>7. SumFunction([row \in rows |-> success[row].n]) = Size(Of(runs, c))
  <2>. DEFINE f == [row \in rows |-> success[row].n]
  <2>1. DOMAIN f = rows /\ \A row \in rows : f[row] = Size({i \in Of(runs, c) : runs[i].tier = row[2]})
    BY <1>5
  <2>2. Of(runs, c) \in SUBSET Of(runs, c)
    OBVIOUS
  <2>. HIDE DEF f
  <2>3. SumFunction(f) = Size(Of(runs, c))
    BY <1>6, <2>1, <2>2
  <2>. QED BY <2>3 DEF f
<1>8. SumFunction([row \in rows |-> success[row].first_pass]) = Size(FirstOf(runs, c))
  <2>. DEFINE f == [row \in rows |-> success[row].first_pass]
  <2>1. DOMAIN f = rows /\ \A row \in rows : f[row] = Size({i \in FirstOf(runs, c) : runs[i].tier = row[2]})
    BY <1>5
  <2>2. FirstOf(runs, c) \in SUBSET Of(runs, c)
    BY SizesOf
  <2>. HIDE DEF f
  <2>3. SumFunction(f) = Size(FirstOf(runs, c))
    BY <1>6, <2>1, <2>2
  <2>. QED BY <2>3 DEF f
<1>9. SumFunction([row \in rows |-> success[row].post_repair]) = Size(PostOf(runs, c))
  <2>. DEFINE f == [row \in rows |-> success[row].post_repair]
  <2>1. DOMAIN f = rows /\ \A row \in rows : f[row] = Size({i \in PostOf(runs, c) : runs[i].tier = row[2]})
    BY <1>5
  <2>2. PostOf(runs, c) \in SUBSET Of(runs, c)
    BY SizesOf
  <2>. HIDE DEF f
  <2>3. SumFunction(f) = Size(PostOf(runs, c))
    BY <1>6, <2>1, <2>2
  <2>. QED BY <2>3 DEF f
<1>. QED BY <1>7, <1>8, <1>9

LEMMA HistogramAddsUp ==
  ASSUME NEW runs \in Seq(JobRun), NEW c \in Conditions(runs)
  PROVE  SumFunction(AttemptDistribution(runs)[c]) = Size(Of(runs, c))
<1>. DEFINE f == AttemptDistribution(runs)[c]
            values == [i \in Of(runs, c) |-> runs[i].attempts]
<1>1. /\ DOMAIN f = {runs[i].attempts : i \in Of(runs, c)}
      /\ \A k \in DOMAIN f : f[k] = Size({i \in Of(runs, c) : runs[i].attempts = k})
  BY DEF AttemptDistribution
<1>2. IsFiniteSet(DOMAIN values) /\ {values[i] : i \in DOMAIN values} = {runs[i].attempts : i \in Of(runs, c)}
  BY JobsOf
<1>3. IsFiniteSet(DOMAIN f)
  <2>. HIDE DEF values, f
  <2>. QED BY <1>1, <1>2, ValuesFinite
<1>4. Of(runs, c) \in SUBSET Of(runs, c) /\ \A i \in Of(runs, c) : runs[i].attempts \in DOMAIN f
  BY <1>1
<1>. HIDE DEF f
<1>5. SumFunction(f) = Size(Of(runs, c))
  BY <1>1, <1>3, <1>4, AttemptsAddUp
<1>. QED BY <1>5 DEF f

\* Section 6.3.
LEMMA RepairInVain ==
  ASSUME NEW runs \in Seq(JobRun), NEW c \in Conditions(runs), Converges(runs, c) = FALSE
  PROVE  \E i \in Of(runs, c) : ~runs[i].succeeded /\ runs[i].attempts = MaxAttempts(runs, c)
<1>. DEFINE high == MaxAttempts(runs, c)
            A == Of(runs, c)
            marginal == MarginalSuccess(runs, c)
            last == {i \in A : runs[i].attempts = high}
<1>. SUFFICES ASSUME \A i \in A : runs[i].attempts = high => runs[i].succeeded PROVE FALSE
  OBVIOUS
<1>1. /\ Len(marginal) = high /\ marginal[1] = <<Size(FirstOf(runs, c)), Size(A)>>
      /\ DOMAIN marginal = 1..high
  BY CurveOfRepair
<1>2. /\ high \in Nat \ {0} /\ \A i \in A : runs[i].attempts \in 1..high
      /\ \E i \in A : runs[i].attempts = high
  BY MaxAttemptsIs
<1>3. high >= 2 /\ Higher(marginal[high], marginal[1]) = FALSE
  <2>. HIDE DEF marginal, high
  <2>1. Converges(runs, c) = IF high < 2 THEN None ELSE Higher(marginal[high], marginal[1])
    BY <1>1 DEF Converges, marginal
  <2>2. None # FALSE
    BY AnalysisConstantsOK
  <2>3. ~(high < 2)
    BY <2>1, <2>2, Zenon
  <2>4. Higher(marginal[high], marginal[1]) = FALSE
    BY <2>1, <2>3, Zenon
  <2>. QED BY <1>2, <2>3, <2>4
<1>4. marginal[high] = <<Size(last), Size(last)>>
  <2>1. high \in 1..high
    BY <1>2
  <2>2. marginal[high] = <<Size(SucceededAt(runs, c, high)), Size(Reached(runs, c, high))>>
    BY <2>1 DEF MarginalSuccess
  <2>3. SucceededAt(runs, c, high) = last
    BY DEF SucceededAt
  <2>4. Reached(runs, c, high) = last
    <3>. HIDE DEF high
    <3>1. \A i \in A : high <= runs[i].attempts <=> runs[i].attempts = high
      BY <1>2
    <3>. QED BY <3>1 DEF Reached
  <2>. QED BY <2>2, <2>3, <2>4
<1>5. Size(last) \in Nat /\ Size(last) # 0
  <2>1. IsFiniteSet(A)
    BY JobsOf
  <2>2. last \in SUBSET A /\ last # {}
    BY <1>2
  <2>. HIDE DEF last, A
  <2>. QED BY <2>1, <2>2, FS_Subset, FS_CardinalityType, FS_EmptySet DEF Size
<1>6. Size(FirstOf(runs, c)) < Size(A)
  <2>1. PICK i \in A : runs[i].attempts = high
    BY <1>2
  <2>2. i \notin FirstOf(runs, c)
    <3>1. runs[i].first => runs[i].attempts <= 1
      BY JobsOf
    <3>2. ~(runs[i].attempts <= 1)
      BY <1>2, <1>3, <2>1
    <3>. QED BY <3>1, <3>2 DEF FirstOf, FirstPass
  <2>3. FirstOf(runs, c) \in SUBSET A /\ FirstOf(runs, c) # A /\ IsFiniteSet(A)
    BY <2>2, SizesOf, JobsOf
  <2>. HIDE DEF A
  <2>4. Cardinality(FirstOf(runs, c)) <= Cardinality(A) /\ Cardinality(FirstOf(runs, c)) # Cardinality(A)
    BY <2>3, FS_Subset
  <2>5. Size(FirstOf(runs, c)) \in Nat /\ Size(A) \in Nat
    BY SizesOf DEF A
  <2>. QED BY <2>4, <2>5 DEF Size
<1>7. Size(FirstOf(runs, c)) \in Nat /\ Size(A) \in Nat
  BY SizesOf
<1>. HIDE DEF high, A, marginal, last
<1>8. ~(Size(last) * Size(A) > Size(FirstOf(runs, c)) * Size(last))
  BY <1>1, <1>3, <1>4 DEF Higher
<1>. QED BY <1>5, <1>6, <1>7, <1>8, RateFalls

LEMMA RepairIs == ReportInv => RepairAccounted
<1>. SUFFICES ASSUME ReportInv, NEW c \in Conditions(AllRuns(dirs))
              PROVE  LET report   == Report(dirs)
                         runs     == AllRuns(dirs)
                         rows     == {row \in DOMAIN report.success : row[1] = c}
                         n        == SumFunction([row \in rows |-> report.success[row].n])
                         first    == SumFunction([row \in rows |-> report.success[row].first_pass])
                         post     == SumFunction([row \in rows |-> report.success[row].post_repair])
                         hist     == report.distribution[c]
                         marginal == report.convergence[c].marginal
                     IN  /\ n = Size(Of(runs, c))
                         /\ n = SumFunction(hist)
                         /\ marginal[1] = <<first, n>>
                         /\ post = SumFunction([k \in DOMAIN marginal |-> marginal[k][1]])
                         /\ report.convergence[c].yield = (IF n = first THEN None ELSE <<post - first, n - first>>)
                         /\ <<"6.3", c>> \in report.advice =>
                              \E i \in Of(runs, c) : ~runs[i].succeeded /\ runs[i].attempts = Len(marginal)
  BY DEF RepairAccounted
<1>. DEFINE report == Report(dirs)
            runs == AllRuns(dirs)
            success == SuccessRates(runs)
            rows == {row \in DOMAIN success : row[1] = c}
            marginal == MarginalSuccess(runs, c)
<1>1. runs \in Seq(JobRun) /\ c \in Conditions(runs)
  BY RunsTyped
<1>2. /\ report.success = success /\ report.distribution = AttemptDistribution(runs)
      /\ report.advice = Advisories(dirs)
      /\ report.convergence[c].marginal = marginal /\ report.convergence[c].yield = RepairYield(runs, c)
  BY DEF Report
<1>3. <<"6.3", c>> \in Advisories(dirs) => Converges(runs, c) = FALSE
  BY AdviceFrom
<1>. HIDE DEF runs, report
<1>4. /\ SumFunction([row \in rows |-> success[row].n]) = Size(Of(runs, c))
      /\ SumFunction([row \in rows |-> success[row].first_pass]) = Size(FirstOf(runs, c))
      /\ SumFunction([row \in rows |-> success[row].post_repair]) = Size(PostOf(runs, c))
  <2>1. success = SuccessRates(runs) /\ rows = {row \in DOMAIN success : row[1] = c}
    OBVIOUS
  <2>. HIDE DEF success, rows
  <2>. QED BY <1>1, <2>1, TiersAddUp
<1>5. SumFunction(AttemptDistribution(runs)[c]) = Size(Of(runs, c))
  BY <1>1, HistogramAddsUp
<1>6. /\ Len(marginal) = MaxAttempts(runs, c)
      /\ marginal[1] = <<Size(FirstOf(runs, c)), Size(Of(runs, c))>>
      /\ SumFunction([k \in DOMAIN marginal |-> marginal[k][1]]) = Size(PostOf(runs, c))
  BY <1>1, CurveOfRepair
<1>7. RepairYield(runs, c) = (IF Size(Of(runs, c)) = Size(FirstOf(runs, c)) THEN None
                              ELSE <<Size(PostOf(runs, c)) - Size(FirstOf(runs, c)),
                                     Size(Of(runs, c)) - Size(FirstOf(runs, c))>>)
  BY <1>1, YieldIsLift, Zenon
<1>8. <<"6.3", c>> \in Advisories(dirs) =>
        \E i \in Of(runs, c) : ~runs[i].succeeded /\ runs[i].attempts = MaxAttempts(runs, c)
  BY <1>1, <1>3, RepairInVain
<1>. HIDE DEF marginal, success
<1>. QED BY <1>2, <1>4, <1>5, <1>6, <1>7, <1>8, Zenon DEF report, runs

\* Whatever jobs were recorded and whichever runs died: tiers, histogram and
\* curve each account for every job of a condition, the curve starts with the
\* first pass and its successes add up to the post-repair ones, the yield is the
\* lift, and "cut the repair budget" needs a job that used the most attempts in
\* vain (success.py:25-159, report.py:203-213).
THEOREM RepairIsAccounted == Spec => []RepairAccounted
<1>1. ReportInv /\ MetricsTypeOK => RepairAccounted
  BY RepairIs
<1>. QED BY <1>1, ReportInvariant, PTL
=============================================================================
