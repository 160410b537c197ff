------------------------ MODULE StreamSessionProofs ------------------------
(***************************************************************************)
(* Proofs about StreamSession, for any files, requests, headers and chunk  *)
(* size.                                                                   *)
(***************************************************************************)
EXTENDS StreamSession, FiniteSetTheorems, SequenceTheorems, WellFoundedInduction, TLAPS

-----------------------------------------------------------------------------
(* Bytes and chunks.                                                       *)

LEMMA MinOfTwo ==
  ASSUME NEW a \in Int, NEW b \in Int
  PROVE  Min({a, b}) = IF a <= b THEN a ELSE b
<1>1. \E x \in {a, b} : \A y \in {a, b} : x <= y
  OBVIOUS
<1>2. Min({a, b}) \in {a, b} /\ \A y \in {a, b} : Min({a, b}) <= y
  BY <1>1 DEF Min
<1> QED BY <1>2

LEMMA MaxOfTwo ==
  ASSUME NEW a \in Int, NEW b \in Int
  PROVE  Max({a, b}) = IF a >= b THEN a ELSE b
<1>1. \E x \in {a, b} : \A y \in {a, b} : x >= y
  OBVIOUS
<1>2. Max({a, b}) \in {a, b} /\ \A y \in {a, b} : Max({a, b}) >= y
  BY <1>1 DEF Max
<1> QED BY <1>2

\* A byte lies in its chunk.
LEMMA ByteInChunk ==
  ASSUME NEW b \in Nat
  PROVE  /\ ChunkOf(b) \in Nat
         /\ ChunkOf(b) * ChunkSize <= b
         /\ b < (ChunkOf(b) + 1) * ChunkSize
<1>1. /\ b \div ChunkSize \in Nat /\ b % ChunkSize \in 0 .. ChunkSize - 1
      /\ b = ChunkSize * (b \div ChunkSize) + (b % ChunkSize)
  BY SizesAssumption
<1> QED BY <1>1, SizesAssumption DEF ChunkOf

\* Chunks are in the order of their bytes.
LEMMA ChunksOrdered ==
  ASSUME NEW a \in Nat, NEW b \in Nat, a <= b
  PROVE  a * ChunkSize <= b * ChunkSize
<1>1. (b - a) * ChunkSize \in Nat
  BY SizesAssumption
<1>2. (b - a) * ChunkSize = b * ChunkSize - a * ChunkSize
  BY SizesAssumption
<1> QED BY <1>1, <1>2, SizesAssumption

LEMMA ChunkOfMonotone ==
  ASSUME NEW a \in Nat, NEW b \in Nat, a <= b
  PROVE  ChunkOf(a) <= ChunkOf(b)
<1> SUFFICES ASSUME ChunkOf(b) < ChunkOf(a) PROVE FALSE
  BY ByteInChunk
<1>1. (ChunkOf(b) + 1) * ChunkSize <= ChunkOf(a) * ChunkSize
  BY ByteInChunk, ChunksOrdered
<1> QED BY <1>1, ByteInChunk, SizesAssumption

\* Division is unique.
LEMMA ChunkOfInside ==
  ASSUME NEW b \in Nat, NEW i \in Nat, i * ChunkSize <= b, b < (i + 1) * ChunkSize
  PROVE  ChunkOf(b) = i
<1>1. CASE ChunkOf(b) < i
  <2>1. (ChunkOf(b) + 1) * ChunkSize <= i * ChunkSize
    BY <1>1, ByteInChunk, ChunksOrdered
  <2> QED BY <2>1, ByteInChunk, SizesAssumption
<1>2. CASE i < ChunkOf(b)
  <2>1. (i + 1) * ChunkSize <= ChunkOf(b) * ChunkSize
    BY <1>2, ByteInChunk, ChunksOrdered
  <2> QED BY <2>1, ByteInChunk, SizesAssumption
<1> QED BY <1>1, <1>2, ByteInChunk

\* A chunk that begins inside the file ends with the next one, or the file.
LEMMA ChunkEnd ==
  ASSUME NEW len \in Nat, NEW i \in Nat, i * ChunkSize < len
  PROVE  /\ ChunkLen(i, len) \in Nat
         /\ i < TotalChunks(len)
         /\ i * ChunkSize + ChunkLen(i, len) =
              IF (i + 1) * ChunkSize <= len THEN (i + 1) * ChunkSize ELSE len
<1> DEFINE q == len \div ChunkSize
           r == len % ChunkSize
<1>1. q \in Nat /\ r \in 0 .. ChunkSize - 1 /\ len = q * ChunkSize + r
  BY SizesAssumption
<1> HIDE DEF q, r
<1>2. ASSUME q < i PROVE FALSE
  <2>1. (q + 1) * ChunkSize <= i * ChunkSize
    BY <1>1, <1>2, ChunksOrdered
  <2> QED BY <2>1, <1>1, SizesAssumption
<1>3. TotalChunks(len) = IF r = 0 THEN q ELSE q + 1
  <2>1. TotalChunks(len) = ChunkOf(len + ChunkSize - 1)
    BY DEF TotalChunks, ChunkOf
  <2>2. CASE r = 0
    BY <2>1, <2>2, <1>1, ChunkOfInside, SizesAssumption
  <2>3. CASE r # 0
    <3>1. (q + 1) * ChunkSize <= len + ChunkSize - 1 /\ len + ChunkSize - 1 < (q + 2) * ChunkSize
      BY <2>3, <1>1, SizesAssumption
    <3> QED BY <3>1, <2>1, <2>3, <1>1, ChunkOfInside, SizesAssumption
  <2> QED BY <2>2, <2>3
<1>4. ChunkLen(i, len) = IF i + 1 < TotalChunks(len) \/ r = 0 THEN ChunkSize ELSE r
  BY DEF ChunkLen, r
<1>5. CASE i < q
  <2>1. (i + 1) * ChunkSize <= q * ChunkSize
    BY <1>1, <1>5, ChunksOrdered
  <2>2. ChunkLen(i, len) = ChunkSize
    BY <1>1, <1>3, <1>4, <1>5
  <2> QED BY <1>1, <1>3, <1>5, <2>1, <2>2, SizesAssumption
<1>6. CASE i = q
  <2>1. r # 0
    BY <1>1, <1>6, SizesAssumption
  <2>2. ChunkLen(i, len) = r
    BY <1>1, <1>3, <1>4, <1>6, <2>1
  <2> QED BY <1>1, <1>3, <1>6, <2>1, <2>2, SizesAssumption
<1> QED BY <1>1, <1>2, <1>5, <1>6

\* Consecutive bytes.
Run(start, n) == [k \in 1 .. n |-> start + k - 1]

LEMMA RunIsSeq ==
  ASSUME NEW start \in Nat, NEW n \in Nat
  PROVE  Run(start, n) \in Seq(Nat) /\ Len(Run(start, n)) = n
<1>1. \A k \in 1 .. n : start + k - 1 \in Nat
  OBVIOUS
<1>2. Run(start, n) \in [1 .. n -> Nat]
  BY <1>1 DEF Run
<1> QED BY <1>2

LEMMA RunExtends ==
  ASSUME NEW start \in Nat, NEW n \in Nat, NEW m \in Nat
  PROVE  Run(start, n) \o Run(start + n, m) = Run(start, n + m)
<1> DEFINE s == Run(start, n)
           t == Run(start + n, m)
<1>1. s \in Seq(Nat) /\ Len(s) = n /\ \A k \in 1 .. n : s[k] = start + k - 1
  BY RunIsSeq DEF Run
<1>2. t \in Seq(Nat) /\ Len(t) = m /\ \A k \in 1 .. m : t[k] = start + n + k - 1
  <2>1. start + n \in Nat
    OBVIOUS
  <2> QED BY <2>1, RunIsSeq DEF Run
<1> HIDE DEF s, t
<1>3. s \o t \in Seq(Nat) /\ Len(s \o t) = n + m
  BY <1>1, <1>2, ConcatProperties
<1>4. ASSUME NEW k \in 1 .. n + m PROVE (s \o t)[k] = start + k - 1
  <2>1. (s \o t)[k] = IF k <= n THEN s[k] ELSE t[k - n]
    BY <1>1, <1>2, ConcatProperties
  <2> QED BY <2>1, <1>1, <1>2
<1>5. /\ Run(start, n + m) \in Seq(Nat) /\ Len(Run(start, n + m)) = n + m
      /\ \A k \in 1 .. n + m : Run(start, n + m)[k] = start + k - 1
  <2>1. n + m \in Nat
    OBVIOUS
  <2> QED BY <2>1, RunIsSeq DEF Run
<1>6. s \o t = Run(start, n + m)
  BY <1>3, <1>4, <1>5, SeqEqual
<1> QED BY <1>6 DEF s, t

-----------------------------------------------------------------------------
(* Sums over finite sets.                                                  *)

\* The element that a fold takes out first; the equation that its function
\* satisfies; the sum of w over S.
Pick(s) == CHOOSE x \in s : TRUE

LEMMA PickIn == ASSUME NEW s, s # {} PROVE Pick(s) \in s
BY DEF Pick

Adds(w, S, g) ==
  g = [s \in SUBSET S |-> IF s = {} THEN 0 ELSE w[Pick(s)] + g[s \ {Pick(s)}]]

Total(w, S) == (CHOOSE g : Adds(w, S, g))[S]

\* Among subsets of a finite set one has no other below it: what holds of every
\* finite set is shown by a least counterexample.
LEMMA SmallestSubset ==
  ASSUME NEW S, IsFiniteSet(S), NEW B \in SUBSET (SUBSET S), B # {}
  PROVE  \E T \in B : \A U \in B : U \subseteq T => U = T
<1>1. IsWellFoundedOn(StrictSubsetOrdering(S), FiniteSubsetsOf(S))
  BY FS_StrictSubsetOrderingWellFounded
<1>2. FiniteSubsetsOf(S) = SUBSET S
  BY FS_FiniteSubsetsOfFinite
<1>3. \E T \in B : \A U \in B : ~ (<<U, T>> \in StrictSubsetOrdering(S))
  BY <1>1, <1>2, WFMin
<1> QED BY <1>3 DEF StrictSubsetOrdering

\* The equation has one solution, as far as it goes ...
LEMMA AddsAgree ==
  ASSUME NEW w, NEW S, NEW T, IsFiniteSet(S), NEW g, NEW h, Adds(w, S, g), Adds(w, T, h),
         NEW x, x \subseteq S, x \subseteq T
  PROVE  g[x] = h[x]
<1> DEFINE B == {y \in SUBSET S : y \subseteq T /\ g[y] # h[y]}
<1> SUFFICES ASSUME B # {} PROVE FALSE
  OBVIOUS
<1>1. B \in SUBSET (SUBSET S)
  OBVIOUS
<1>2. \A y : y \in B <=> y \subseteq S /\ y \subseteq T /\ g[y] # h[y]
  OBVIOUS
<1> HIDE DEF B
<1>3. PICK y \in B : \A z \in B : z \subseteq y => z = y
  BY <1>1, SmallestSubset
<1>4. /\ g[y] = IF y = {} THEN 0 ELSE w[Pick(y)] + g[y \ {Pick(y)}]
      /\ h[y] = IF y = {} THEN 0 ELSE w[Pick(y)] + h[y \ {Pick(y)}]
  <2>1. y \in SUBSET S /\ y \in SUBSET T
    BY <1>2
  <2> QED BY <2>1 DEF Adds
<1>5. y # {} /\ y \ {Pick(y)} \notin B
  BY <1>2, <1>3, <1>4, PickIn
<1>6. g[y \ {Pick(y)}] = h[y \ {Pick(y)}]
  BY <1>2, <1>5
<1> QED BY <1>2, <1>4, <1>5, <1>6

\* ... and has one for every finite set.
LEMMA AddsExists ==
  ASSUME NEW w, NEW S, IsFiniteSet(S)
  PROVE  \E g : Adds(w, S, g)
<1> DEFINE B == {T \in SUBSET S : ~ \E g : Adds(w, T, g)}
<1> SUFFICES ASSUME B # {} PROVE FALSE
  OBVIOUS
<1>1. B \in SUBSET (SUBSET S)
  OBVIOUS
<1>2. \A y : y \in B <=> y \subseteq S /\ ~ \E g : Adds(w, y, g)
  OBVIOUS
<1> HIDE DEF B
<1>3. PICK T \in B : \A z \in B : z \subseteq T => z = T
  BY <1>1, SmallestSubset
<1> DEFINE V(u) == CHOOSE h : Adds(w, u, h)
           g == [s \in SUBSET T |-> IF s = {} THEN 0
                                    ELSE w[Pick(s)] + V(s \ {Pick(s)})[s \ {Pick(s)}]]
<1>4. ASSUME NEW u, u \subseteq T, u # T PROVE Adds(w, u, V(u)) /\ IsFiniteSet(u)
  <2>1. \E h : Adds(w, u, h)
    BY <1>2, <1>3, <1>4
  <2> QED BY <2>1, <1>2, <1>3, <1>4, FS_Subset
<1>5. ASSUME NEW u, u \subseteq T, u # T PROVE g[u] = V(u)[u]
  <2>1. Adds(w, u, V(u)) /\ IsFiniteSet(u)
    BY <1>4, <1>5
  <2> DEFINE v == u \ {Pick(u)}
  <2>2. V(u)[u] = IF u = {} THEN 0 ELSE w[Pick(u)] + V(u)[v]
    <3> HIDE DEF V
    <3> QED BY <2>1 DEF Adds
  <2>3. g[u] = IF u = {} THEN 0 ELSE w[Pick(u)] + V(v)[v]
    BY <1>5
  <2>4. ASSUME u # {} PROVE V(u)[v] = V(v)[v]
    <3>1. v \subseteq T /\ v # T /\ v \subseteq u
      BY <1>5, <2>4, PickIn
    <3>2. Adds(w, v, V(v))
      BY <3>1, <1>4
    <3> HIDE DEF V, v
    <3> QED BY <2>1, <3>1, <3>2, AddsAgree
  <2> QED BY <2>2, <2>3, <2>4
<1>6. \A s \in SUBSET T : s # {} => g[s \ {Pick(s)}] = V(s \ {Pick(s)})[s \ {Pick(s)}]
  <2> SUFFICES ASSUME NEW s \in SUBSET T, s # {}
               PROVE  g[s \ {Pick(s)}] = V(s \ {Pick(s)})[s \ {Pick(s)}]
    OBVIOUS
  <2>1. s \ {Pick(s)} \subseteq T /\ s \ {Pick(s)} # T
    BY PickIn
  <2> HIDE DEF g, V
  <2> QED BY <2>1, <1>5
<1>7. g = [s \in SUBSET T |-> IF s = {} THEN 0 ELSE w[Pick(s)] + g[s \ {Pick(s)}]]
  <2>1. \A s \in SUBSET T : g[s] = IF s = {} THEN 0 ELSE w[Pick(s)] + g[s \ {Pick(s)}]
    <3>1. \A s \in SUBSET T : g[s] = IF s = {} THEN 0
                                     ELSE w[Pick(s)] + V(s \ {Pick(s)})[s \ {Pick(s)}]
      OBVIOUS
    <3> HIDE DEF g, V
    <3> QED BY <3>1, <1>6
  <2>2. g = [s \in SUBSET T |-> g[s]]
    OBVIOUS
  <2> HIDE DEF g
  <2> QED BY <2>1, <2>2
<1>8. Adds(w, T, g)
  <2> HIDE DEF g
  <2> QED BY <1>7 DEF Adds
<1> QED BY <1>2, <1>3, <1>8

\* So the sum can be computed element by element.
LEMMA TotalIs ==
  ASSUME NEW w, NEW S, IsFiniteSet(S)
  PROVE  Total(w, S) = IF S = {} THEN 0 ELSE w[Pick(S)] + Total(w, S \ {Pick(S)})
<1> DEFINE G(T) == CHOOSE g : Adds(w, T, g)
           T == S \ {Pick(S)}
<1>1. IsFiniteSet(T)
  BY FS_Subset
<1>2. Adds(w, S, G(S)) /\ Adds(w, T, G(T))
  BY <1>1, AddsExists
<1>3. G(S)[S] = IF S = {} THEN 0 ELSE w[Pick(S)] + G(S)[T]
  <2> HIDE DEF G
  <2> QED BY <1>2 DEF Adds
<1>4. G(S)[T] = G(T)[T]
  <2>1. T \subseteq S
    OBVIOUS
  <2> HIDE DEF G, T
  <2> QED BY <1>2, <2>1, AddsAgree
<1> QED BY <1>3, <1>4 DEF Total

LEMMA TotalNat ==
  ASSUME NEW w, NEW S, IsFiniteSet(S), \A x \in S : w[x] \in Nat
  PROVE  Total(w, S) \in Nat
<1> DEFINE B == {T \in SUBSET S : Total(w, T) \notin Nat}
<1> SUFFICES ASSUME B # {} PROVE FALSE
  OBVIOUS
<1>1. B \in SUBSET (SUBSET S)
  OBVIOUS
<1>2. \A y : y \in B <=> y \subseteq S /\ Total(w, y) \notin Nat
  OBVIOUS
<1> HIDE DEF B
<1>3. PICK T \in B : \A z \in B : z \subseteq T => z = T
  BY <1>1, SmallestSubset
<1>4. Total(w, T) = IF T = {} THEN 0 ELSE w[Pick(T)] + Total(w, T \ {Pick(T)})
  BY <1>2, FS_Subset, TotalIs
<1>5. T # {}
  BY <1>2, <1>4
<1>6. Total(w, T \ {Pick(T)}) \in Nat /\ w[Pick(T)] \in Nat
  BY <1>2, <1>3, <1>5, PickIn
<1> QED BY <1>2, <1>3, <1>4, <1>5, <1>6

\* Every element may be taken out first.
LEMMA TotalWithout ==
  ASSUME NEW w, NEW S, IsFiniteSet(S), \A y \in S : w[y] \in Nat, NEW x \in S
  PROVE  Total(w, S) = w[x] + Total(w, S \ {x})
<1> DEFINE Off(T) == \E y \in T : Total(w, T) # w[y] + Total(w, T \ {y})
           B == {T \in SUBSET S : Off(T)}
<1> SUFFICES ASSUME B # {} PROVE FALSE
  OBVIOUS
<1>1. B \in SUBSET (SUBSET S)
  OBVIOUS
<1>2. \A y : y \in B <=> y \subseteq S /\ Off(y)
  OBVIOUS
<1> HIDE DEF B
<1>3. PICK T \in B : \A z \in B : z \subseteq T => z = T
  BY <1>1, SmallestSubset
<1>4. T \subseteq S
  BY <1>2
<1>5. PICK y \in T : Total(w, T) # w[y] + Total(w, T \ {y})
  BY <1>2
<1> HIDE DEF Off
<1> DEFINE p == Pick(T)
           U == T \ {p, y}
<1>6. p \in T
  BY <1>5, PickIn
<1>7. \A Q \in SUBSET S : IsFiniteSet(Q) /\ Total(w, Q) \in Nat
  BY FS_Subset, TotalNat
<1>8. Total(w, T) = w[p] + Total(w, T \ {p})
  BY <1>4, <1>6, <1>7, TotalIs
<1>9. p # y
  BY <1>5, <1>8
<1>10. \A Q \in SUBSET T : Q # T => \A z \in Q : Total(w, Q) = w[z] + Total(w, Q \ {z})
  BY <1>2, <1>3, <1>4 DEF Off
<1>11. Total(w, T \ {p}) = w[y] + Total(w, (T \ {p}) \ {y})
  BY <1>5, <1>6, <1>9, <1>10
<1>12. Total(w, T \ {y}) = w[p] + Total(w, (T \ {y}) \ {p})
  BY <1>5, <1>6, <1>9, <1>10
<1>13. (T \ {p}) \ {y} = U /\ (T \ {y}) \ {p} = U
  OBVIOUS
<1>14. Total(w, U) \in Nat /\ w[p] \in Nat /\ w[y] \in Nat
  BY <1>4, <1>6, <1>7
<1> QED BY <1>5, <1>8, <1>11, <1>12, <1>13, <1>14

\* The sum over a longer interval.
LEMMA TotalExtends ==
  ASSUME NEW w, NEW a \in Int, NEW b \in Int, a <= b, \A y \in a .. b : w[y] \in Nat
  PROVE  Total(w, a .. b) = Total(w, a .. b - 1) + w[b]
<1>1. IsFiniteSet(a .. b) /\ b \in a .. b /\ (a .. b) \ {b} = a .. b - 1
  BY FS_Interval
<1>2. Total(w, a .. b) = w[b] + Total(w, a .. b - 1)
  BY <1>1, TotalWithout
<1>3. w[b] \in Nat /\ Total(w, a .. b - 1) \in Nat
  <2>1. IsFiniteSet(a .. b - 1) /\ \A y \in a .. b - 1 : w[y] \in Nat
    BY FS_Interval
  <2> QED BY <1>1, <2>1, TotalNat
<1> QED BY <1>2, <1>3

\* The two sums of the model: the lengths of chunks, the sizes of atoms.
LEMMA SumOfChunks ==
  ASSUME NEW len, NEW S, S \subseteq Nat, IsFiniteSet(S)
  PROVE  MapThenSumSet(LAMBDA i : ChunkLen(i, len), S) = Total([i \in Nat |-> ChunkLen(i, len)], S)
<1> DEFINE w == [i \in Nat |-> ChunkLen(i, len)]
           P(g) == g = [s \in SUBSET S |->
                          IF s = {} THEN 0
                          ELSE ChunkLen(Pick(s), len) + g[s \ {Pick(s)}]]
           h == CHOOSE g : P(g)
           k == CHOOSE g : Adds(w, S, g)
<1>1. MapThenSumSet(LAMBDA i : ChunkLen(i, len), S) = h[S]
  BY DEF MapThenSumSet, MapThenFoldSet, Pick
<1>2. \A g : P(g) <=> Adds(w, S, g)
  <2> SUFFICES ASSUME NEW g PROVE P(g) <=> Adds(w, S, g)
    OBVIOUS
  <2>1. \A s \in SUBSET S : s # {} => w[Pick(s)] = ChunkLen(Pick(s), len)
    BY PickIn
  <2> QED BY <2>1 DEF Adds
<1>3. Adds(w, S, k)
  BY AddsExists
<1>4. Adds(w, S, h)
  <2>1. P(k)
    BY <1>2, <1>3
  <2>2. P(h)
    <3> HIDE DEF P, k
    <3> QED BY <2>1
  <2> QED BY <1>2, <2>2
<1>5. h[S] = k[S]
  <2> HIDE DEF P, h, k, w
  <2> QED BY <1>3, <1>4, AddsAgree
<1> QED BY <1>1, <1>5 DEF Total

LEMMA SumOfAtoms ==
  ASSUME NEW f, NEW S, S \subseteq Nat, IsFiniteSet(S)
  PROVE  MapThenSumSet(LAMBDA i : f.atoms[i].size, S) = Total([i \in Nat |-> f.atoms[i].size], S)
<1> DEFINE w == [i \in Nat |-> f.atoms[i].size]
           P(g) == g = [s \in SUBSET S |->
                          IF s = {} THEN 0
                          ELSE f.atoms[Pick(s)].size + g[s \ {Pick(s)}]]
           h == CHOOSE g : P(g)
           k == CHOOSE g : Adds(w, S, g)
<1>1. MapThenSumSet(LAMBDA i : f.atoms[i].size, S) = h[S]
  BY DEF MapThenSumSet, MapThenFoldSet, Pick
<1>2. \A g : P(g) <=> Adds(w, S, g)
  <2> SUFFICES ASSUME NEW g PROVE P(g) <=> Adds(w, S, g)
    OBVIOUS
  <2>1. \A s \in SUBSET S : s # {} => w[Pick(s)] = f.atoms[Pick(s)].size
    BY PickIn
  <2> QED BY <2>1 DEF Adds
<1>3. Adds(w, S, k)
  BY AddsExists
<1>4. Adds(w, S, h)
  <2>1. P(k)
    BY <1>2, <1>3
  <2>2. P(h)
    <3> HIDE DEF P, k
    <3> QED BY <2>1
  <2> QED BY <1>2, <2>2
<1>5. h[S] = k[S]
  <2> HIDE DEF P, h, k, w
  <2> QED BY <1>3, <1>4, AddsAgree
<1> QED BY <1>1, <1>5 DEF Total

-----------------------------------------------------------------------------
(* The answer to a header.                                                 *)

Answers == [status : {200, 206, 416}, start : Nat, end : Nat]

\* Whatever the header, what is promised is a piece of the file.
LEMMA AnswerInFile ==
  ASSUME NEW len \in Nat \ {0}, NEW h
  PROVE  /\ Resolve(ParseRange(h), len) \in Answers
         /\ Resolve(ParseRange(h), len).status # 416 =>
              /\ Resolve(ParseRange(h), len).start < Resolve(ParseRange(h), len).end
              /\ Resolve(ParseRange(h), len).end <= len
<1> DEFINE r == ParseRange(h)
<1> USE SizesAssumption
<1>1. Refused \in Answers /\ Refused.status = 416
  BY DEF Refused, Answers
<1>2. \A s, e \in Nat : /\ Partial(s, e) \in Answers
                        /\ Partial(s, e).start = s /\ Partial(s, e).end = e
  BY DEF Partial, Answers
<1>3. \/ r.kind = "from_to" /\ r.first \in Nat /\ r.last \in Nat
      \/ r.kind = "from" /\ r.first \in Nat
      \/ r.kind = "suffix" /\ r.len \in Nat \ {0}
      \/ r.kind = "none"
  BY DEF ParseRange, Fits, NoRange, Blank
<1> HIDE DEF r
<1>4. CASE r.kind = "from_to" /\ r.first \in Nat /\ r.last \in Nat
  <2>1. (r.last + 1) % Modulus \in Nat
    BY <1>4
  <2>2. EndOf(r, len) \in Nat /\ EndOf(r, len) <= len
    BY <2>1, MinOfTwo DEF EndOf
  <2>3. Resolve(r, len) = IF r.first >= len \/ EndOf(r, len) <= r.first
                          THEN Refused ELSE Partial(r.first, EndOf(r, len))
    BY <1>4 DEF Resolve
  <2> QED BY <1>1, <1>2, <1>4, <2>2, <2>3 DEF r
<1>5. CASE r.kind = "from" /\ r.first \in Nat
  <2>1. Resolve(r, len) = IF r.first >= len THEN Refused
                          ELSE Partial(r.first, Min({r.first + OpenEndedMax, len}))
    BY <1>5 DEF Resolve
  <2>2. Min({r.first + OpenEndedMax, len}) =
          IF r.first + OpenEndedMax <= len THEN r.first + OpenEndedMax ELSE len
    BY <1>5, MinOfTwo
  <2> QED BY <1>1, <1>2, <1>5, <2>1, <2>2 DEF r
<1>6. CASE r.kind = "suffix" /\ r.len \in Nat \ {0}
  <2>1. Resolve(r, len) = Partial(Max({len - r.len, 0}), len)
    BY <1>6 DEF Resolve
  <2>2. Max({len - r.len, 0}) = IF len - r.len >= 0 THEN len - r.len ELSE 0
    BY <1>6, MaxOfTwo
  <2> QED BY <1>2, <1>6, <2>1, <2>2 DEF r
<1>7. CASE r.kind = "none"
  <2> DEFINE e == Min({StartupClamp, len})
  <2>1. e \in Nat \ {0} /\ e <= len
    BY MinOfTwo
  <2>2. Resolve(r, len) = [status |-> IF e < len THEN 206 ELSE 200, start |-> 0, end |-> e]
    BY <1>7 DEF Resolve
  <2> HIDE DEF e
  <2> QED BY <2>1, <2>2 DEF r, Answers
<1> QED BY <1>3, <1>4, <1>5, <1>6, <1>7

-----------------------------------------------------------------------------
(* Types.                                                                  *)

\* A request that was accepted has a piece of the file, and works in it.
Inside(p) == /\ range[p].start < range[p].end
             /\ range[p].end <= content_length
             /\ at[p] \in Promised(p)

Typed ==
    /\ file \in Files
    /\ seek \in [enabled : BOOLEAN, elapsed : BOOLEAN, count : Nat, hits : Nat,
                 last : Nat]
    /\ slot \in [Chunks -> {"free", "running", "cancelled"}]
    /\ pc \in [Requests -> PC]
    /\ range \in [Requests -> Answers]
    /\ is_seek \in [Requests -> BOOLEAN]
    /\ at \in [Requests -> Nat]
    /\ \A p \in Requests : pc[p] \notin {"new", "refused"} => Inside(p)
    /\ \A p \in Requests :
         pc[p] = "abort" => is_seek[p] /\ at[p] = ChunkOf(range[p].start)

\* The length of the file is a positive number.
LEMMA FileHasBytes == ASSUME Typed PROVE content_length \in Nat \ {0}
BY FilesAssumption DEF Typed, content_length

LEMMA TypedInit == Init => Typed
<1> SUFFICES ASSUME Init PROVE Typed
  OBVIOUS
<1>1. FreshSeek \in [enabled : BOOLEAN, elapsed : BOOLEAN, count : Nat, hits : Nat, last : Nat]
  BY DEF FreshSeek
<1>2. Refused \in Answers
  BY DEF Refused, Answers
<1> QED BY <1>1, <1>2 DEF Init, Typed, PC, Ended

LEMMA AcceptTyped ==
  ASSUME Typed, NEW p \in Requests, NEW r, Accept(p, r)
  PROVE  Typed'
<1> DEFINE a == Resolve(ParseRange(r), content_length)
<1>1. /\ a \in Answers
      /\ a.status # 416 => a.start < a.end /\ a.end <= content_length
  BY AnswerInFile, FileHasBytes
<1>2. /\ pc[p] = "new" /\ range' = [range EXCEPT ![p] = a]
      /\ UNCHANGED <<opened, seek, slot>>
  BY DEF Accept, store
<1>3. /\ file' = file /\ content_length' = content_length /\ Chunks' = Chunks
  BY <1>2 DEF opened, content_length, Chunks
<1>4. IF a.status = 416
      THEN pc' = [pc EXCEPT ![p] = "refused"] /\ is_seek' = is_seek /\ at' = at
      ELSE /\ is_seek' = [is_seek EXCEPT ![p] = IsSeek(a.start)]
           /\ at' = [at EXCEPT ![p] = ChunkOf(a.start)]
           /\ pc' = [pc EXCEPT ![p] = IF IsSeek(a.start) THEN "abort" ELSE "record"]
  BY DEF Accept
<1> HIDE DEF a
<1>5. a.start \in Nat /\ a.end \in Nat
  BY <1>1 DEF Answers
<1>6. ASSUME NEW q \in Requests \ {p}
      PROVE  /\ range'[q] = range[q] /\ at'[q] = at[q] /\ is_seek'[q] = is_seek[q]
             /\ pc'[q] = pc[q] /\ (Inside(q) => Inside(q)')
  <2>1. range'[q] = range[q] /\ at'[q] = at[q] /\ is_seek'[q] = is_seek[q] /\ pc'[q] = pc[q]
    BY <1>2, <1>4 DEF Typed
  <2> QED BY <2>1, <1>3 DEF Inside, Promised
<1>7. CASE a.status = 416
  BY <1>1, <1>2, <1>3, <1>4, <1>6, <1>7 DEF Typed, PC, Ended
<1>8. CASE a.status # 416
  <2>1. ChunkOf(a.start) \in Nat /\ ChunkOf(a.start) \in ChunksOf(a.start, a.end)
    <3>1. a.end - 1 \in Nat /\ a.start <= a.end - 1
      BY <1>1, <1>5, <1>8
    <3> QED BY <3>1, <1>5, ByteInChunk, ChunkOfMonotone DEF ChunksOf
  <2>2. range'[p] = a /\ at'[p] = ChunkOf(a.start)
    BY <1>2, <1>4, <1>8 DEF Typed
  <2>3. Inside(p)'
    BY <2>1, <2>2, <1>1, <1>3, <1>8 DEF Inside, Promised
  <2>4. IsSeek(a.start) \in BOOLEAN
    BY DEF IsSeek
  <2>5. is_seek' \in [Requests -> BOOLEAN]
    BY <2>4, <1>4, <1>8 DEF Typed
  <2>6. pc'[p] \in {"abort", "record"} /\ pc' \in [Requests -> PC]
    BY <1>4, <1>8 DEF Typed, PC
  <2>7. pc'[p] = "abort" => is_seek'[p]
    BY <1>4, <1>8 DEF Typed
  <2>8. range' \in [Requests -> Answers] /\ at' \in [Requests -> Nat]
    BY <2>1, <1>1, <1>2, <1>4, <1>8 DEF Typed
  <2> QED BY <2>2, <2>3, <2>5, <2>6, <2>7, <2>8, <1>2, <1>3, <1>6 DEF Typed
<1> QED BY <1>7, <1>8

\* The steps that leave every request its answer and its kind.
SameAnswers == file' = file /\ range' = range /\ is_seek' = is_seek

LEMMA StepTyped ==
  ASSUME Typed, SameAnswers,
         seek' \in [enabled : BOOLEAN, elapsed : BOOLEAN, count : Nat, hits : Nat, last : Nat],
         slot' \in [Chunks -> {"free", "running", "cancelled"}],
         pc' \in [Requests -> PC], at' \in [Requests -> Nat],
         \A p \in Requests :
           /\ pc[p] \in {"new", "refused"} => pc'[p] = pc[p] /\ at'[p] = at[p]
           /\ pc[p] \notin {"new", "refused"} => at'[p] \in Promised(p)
           /\ pc'[p] = "abort" => pc[p] = "abort" /\ at'[p] = at[p]
  PROVE  Typed'
<1>1. content_length' = content_length /\ Chunks' = Chunks
  BY DEF SameAnswers, content_length, Chunks
<1>2. ASSUME NEW p \in Requests, pc'[p] \notin {"new", "refused"} PROVE Inside(p)'
  BY <1>1, <1>2 DEF SameAnswers, Inside, Promised, Typed
<1>3. ASSUME NEW p \in Requests, pc'[p] = "abort"
      PROVE  is_seek'[p] /\ at'[p] = ChunkOf(range'[p].start)
  BY <1>3 DEF SameAnswers, Typed
<1> QED BY <1>1, <1>2, <1>3 DEF SameAnswers, Typed

\* Chunks of a request on its way.
LEMMA PromisedChunks ==
  ASSUME Typed, NEW p \in Requests, pc[p] \notin {"new", "refused"}
  PROVE  /\ LastOf(p) \in Nat /\ ChunkOf(range[p].start) \in Nat
         /\ range[p].start \in Nat /\ range[p].end \in Nat \ {0}
         /\ ChunkOf(range[p].start) \in Promised(p) /\ at[p] \in Promised(p)
         /\ Promised(p) = ChunkOf(range[p].start) .. LastOf(p)
         /\ at[p] < LastOf(p) => at[p] + 1 \in Promised(p)
         /\ at[p] >= LastOf(p) => at[p] = LastOf(p)
<1>1. range[p].start \in Nat /\ range[p].end \in Nat /\ range[p].start < range[p].end
      /\ at[p] \in Nat /\ at[p] \in Promised(p)
  BY DEF Typed, Answers, Inside
<1>2. range[p].end - 1 \in Nat /\ range[p].start <= range[p].end - 1
  BY <1>1
<1>3. /\ ChunkOf(range[p].start) \in Nat /\ ChunkOf(range[p].end - 1) \in Nat
      /\ ChunkOf(range[p].start) <= ChunkOf(range[p].end - 1)
  BY <1>1, <1>2, ByteInChunk, ChunkOfMonotone
<1>4. Promised(p) = ChunkOf(range[p].start) .. LastOf(p)
  BY DEF Promised, ChunksOf, LastOf
<1> QED BY <1>1, <1>3, <1>4 DEF LastOf

LEMMA TypedStep == Typed /\ [Next]_vars => Typed'
<1> SUFFICES ASSUME Typed, [Next]_vars PROVE Typed'
  OBVIOUS
<1> DEFINE Seeks == [enabled : BOOLEAN, elapsed : BOOLEAN, count : Nat, hits : Nat, last : Nat]
<1>1. \A p \in Requests : pc[p] \notin {"new", "refused"} => at[p] \in Promised(p)
  BY PromisedChunks
<1>2. \A C : Started(C) \in [Chunks -> {"free", "running", "cancelled"}]
  BY DEF Started, Typed
<1>3. ASSUME NEW p \in Requests, NEW r, Accept(p, r) PROVE Typed'
  BY <1>3, AcceptTyped
<1>4. ASSUME NEW p \in Requests, Abort(p) PROVE Typed'
  <2>1. slot' \in [Chunks -> {"free", "running", "cancelled"}]
    BY <1>4 DEF Abort, Cancelled, Typed
  <2> QED BY <1>1, <1>4, <2>1, StepTyped DEF Abort, Typed, SameAnswers, session, opened, PC
<1>5. ASSUME NEW p \in Requests, Reset(p) PROVE Typed'
  <2>1. seek' \in Seeks
    BY <1>5 DEF Reset, Typed, FreshSeek
  <2> QED BY <1>1, <1>5, <2>1, StepTyped DEF Reset, Typed, SameAnswers, opened, store, PC
<1>6. ASSUME NEW p \in Requests, Record(p) PROVE Typed'
  BY <1>1, <1>6, StepTyped DEF Record, Typed, SameAnswers, opened, store, PC
<1>7. ASSUME NEW p \in Requests, Urgent(p) PROVE Typed'
  <2>1. slot' \in [Chunks -> {"free", "running", "cancelled"}]
    BY <1>2, <1>7 DEF Urgent
  <2>2. pc[p] = "urgent" /\ SameAnswers /\ seek' = seek
    BY <1>7 DEF Urgent, SameAnswers, session, opened
  <2>3. CASE at[p] < LastOf(p)
    <3>1. at' = [at EXCEPT ![p] = @ + 1] /\ pc' = pc
      BY <1>7, <2>3 DEF Urgent
    <3>2. at[p] + 1 \in Promised(p)
      BY <2>2, <2>3, PromisedChunks
    <3>3. at' \in [Requests -> Nat] /\ at'[p] = at[p] + 1
      BY <3>1 DEF Typed
    <3> QED BY <1>1, <2>1, <2>2, <3>1, <3>2, <3>3, StepTyped DEF Typed
  <2>4. CASE ~ at[p] < LastOf(p)
    <3>1. /\ at' = [at EXCEPT ![p] = ChunkOf(range[p].start)]
          /\ pc' = [pc EXCEPT ![p] = "send"]
      BY <1>7, <2>4 DEF Urgent
    <3>2. at' \in [Requests -> Nat] /\ at'[p] \in Promised(p)
      BY <3>1, <2>2, PromisedChunks DEF Typed
    <3> QED BY <1>1, <2>1, <2>2, <3>1, <3>2, StepTyped DEF Typed, PC
  <2> QED BY <2>3, <2>4
<1>8. ASSUME NEW p \in Requests, Wait(p) PROVE Typed'
  <2>1. slot' \in [Chunks -> {"free", "running", "cancelled"}]
    BY <1>2, <1>8 DEF Wait
  <2> QED BY <1>1, <1>8, <2>1, StepTyped DEF Wait, Typed, SameAnswers, session, opened, PC
<1>9. ASSUME NEW p \in Requests, GiveUp(p) \/ Recheck(p) \/ HangUp(p) PROVE Typed'
  BY <1>1, <1>9, StepTyped
     DEF GiveUp, Recheck, HangUp, Typed, SameAnswers, session, opened, store, PC, Ended
<1>10. ASSUME NEW p \in Requests, Send(p) PROVE Typed'
  <2>2. pc[p] = "send" /\ SameAnswers /\ seek' = seek /\ slot' = slot
    BY <1>10 DEF Send, SameAnswers, session, opened, store
  <2>3. CASE at[p] < LastOf(p)
    <3>1. at' = [at EXCEPT ![p] = @ + 1] /\ pc' = pc
      BY <1>10, <2>3 DEF Send
    <3>2. at[p] + 1 \in Promised(p)
      BY <2>2, <2>3, PromisedChunks
    <3>3. at' \in [Requests -> Nat] /\ at'[p] = at[p] + 1
      BY <3>1 DEF Typed
    <3> QED BY <1>1, <2>2, <3>1, <3>2, <3>3, StepTyped DEF Typed
  <2>4. CASE ~ at[p] < LastOf(p)
    <3>1. at' = at /\ pc' = [pc EXCEPT ![p] = "prefetch"]
      BY <1>10, <2>4 DEF Send
    <3> QED BY <1>1, <2>2, <3>1, StepTyped DEF Typed, PC
  <2> QED BY <2>3, <2>4
<1>11. ASSUME NEW p \in Requests, NEW end \in 0 .. TotalChunks(content_length),
              PrefetchAhead(p, end)
       PROVE  Typed'
  <2>1. slot' \in [Chunks -> {"free", "running", "cancelled"}]
    BY <1>2, <1>11 DEF PrefetchAhead
  <2> QED BY <1>1, <1>11, <2>1, StepTyped
          DEF PrefetchAhead, Typed, SameAnswers, session, opened, PC
<1>12. ASSUME NEW p \in Requests, Update(p) PROVE Typed'
  <2>1. pc[p] = "update" /\ range[p].start \in Nat
    BY <1>12 DEF Update, Typed, Answers
  <2>2. ASSUME NEW h \in Nat
        PROVE  [seek EXCEPT !.count = seek.count + 1, !.hits = h, !.last = range[p].start]
                 \in Seeks
    <3>1. seek \in Seeks /\ seek.count + 1 \in Nat
      BY DEF Typed
    <3> QED BY <2>1, <3>1
  <2>3. \A s \in Seeks : MaybeEnable(s) \in Seeks
    BY DEF MaybeEnable
  <2>4. (IF is_seek[p] THEN 0 ELSE seek.hits + 1) \in Nat
    BY DEF Typed
  <2>5. seek' \in Seeks
    BY <1>12, <2>2, <2>3, <2>4 DEF Update
  <2> QED BY <1>1, <1>12, <2>5, StepTyped
          DEF Update, Typed, SameAnswers, opened, store, PC, Ended
<1>13. ASSUME NEW c \in Chunks, DownloadOk(c) \/ DownloadFails(c) PROVE Typed'
  BY <1>1, <1>13, StepTyped
     DEF DownloadOk, DownloadFails, Woken, Typed, SameAnswers, session, opened, PC
<1>14. CASE Elapse
  BY <1>1, <1>14, StepTyped DEF Elapse, Typed, SameAnswers, opened, store
<1>15. CASE Warm
  <2>1. slot' \in [Chunks -> {"free", "running", "cancelled"}]
    BY <1>2, <1>15 DEF Warm, Typed
  <2> QED BY <1>1, <1>15, <2>1, StepTyped DEF Warm, Typed, SameAnswers
<1>16. CASE Shutdown
  <2>1. slot' \in [Chunks -> {"free", "running", "cancelled"}]
    BY <1>16 DEF Shutdown, Cancelled, Typed
  <2> QED BY <1>1, <1>16, <2>1, StepTyped DEF Shutdown, Typed, SameAnswers
<1>17. CASE UNCHANGED vars
  BY <1>1, <1>17, StepTyped DEF vars, session, opened, store, Typed, SameAnswers
<1> QED
  BY <1>3, <1>4, <1>5, <1>6, <1>7, <1>8, <1>9, <1>10, <1>11, <1>12, <1>13, <1>14, <1>15, <1>16,
     <1>17
     DEF Next, Request, Done

LEMMA AlwaysTyped == Spec => []Typed
BY TypedInit, TypedStep, PTL DEF Spec

-----------------------------------------------------------------------------
(* Seek detection.                                                         *)

LEMMA StableStep == Typed /\ SeekNeedsStability /\ [Next]_vars => SeekNeedsStability'
<1> SUFFICES ASSUME Typed, SeekNeedsStability, [Next]_vars PROVE SeekNeedsStability'
  OBVIOUS
<1> USE DEF SeekNeedsStability
<1>1. CASE seek' = seek
  BY <1>1
<1>2. ASSUME NEW p \in Requests, Reset(p) PROVE SeekNeedsStability'
  BY <1>2 DEF Reset, FreshSeek
<1>3. ASSUME NEW p \in Requests, Update(p) PROVE SeekNeedsStability'
  <2> DEFINE h == IF is_seek[p] THEN 0 ELSE seek.hits + 1
             s == [seek EXCEPT !.count = seek.count + 1, !.hits = h, !.last = range[p].start]
  <2>1. seek' = MaybeEnable(s)
    BY <1>3 DEF Update
  <2>2. /\ s.enabled = seek.enabled /\ s.elapsed = seek.elapsed
        /\ s.count = seek.count + 1 /\ s.hits = h
    BY DEF Typed
  <2>3. /\ seek'.elapsed = s.elapsed /\ seek'.count = s.count
        /\ seek'.enabled => s.enabled \/ (s.elapsed /\ s.count >= WarmupRequests)
    BY <2>1 DEF MaybeEnable, Typed
  <2> HIDE DEF s
  <2>4. seek.count \in Nat /\ WarmupRequests \in Nat
    BY LimitsAssumption DEF Typed
  <2> QED BY <2>2, <2>3, <2>4
<1>4. CASE Elapse
  BY <1>4 DEF Elapse, Typed
<1> QED
  BY <1>1, <1>2, <1>3, <1>4
     DEF Next, Request, Done, Accept, Abort, Record, Urgent, Wait, GiveUp, Recheck, Send,
         HangUp, PrefetchAhead, DownloadOk, DownloadFails, Warm, Shutdown, vars, session

\* A seek is detected only after the warmup of the detection, in time and in
\* requests, also when streams that began before the last seek end after it
\* (SeekState::maybe_enable, reset_warmup).
THEOREM SeeksNeedStability == Spec => []SeekNeedsStability
<1>1. Init => SeekNeedsStability
  BY DEF Init, FreshSeek, SeekNeedsStability
<1> QED BY <1>1, AlwaysTyped, StableStep, PTL DEF Spec

-----------------------------------------------------------------------------
(* Cancellations.                                                          *)

\* Chunk c lies outside of the window of some seek.
Cut(c) == \E q \in Requests :
            /\ pc[q] # "new" /\ is_seek[q]
            /\ c \notin ChunkOf(range[q].start)
                          .. (ChunkOf(range[q].start) + WindowChunks) - 1

\* In an open session what is cancelled, and what ended so, was outside of the
\* window of a seek.
Blamed ==
    ~shut =>
      /\ \A c \in Chunks : slot[c] = "cancelled" => Cut(c)
      /\ \A p \in Requests : pc[p] \in {"woken_aborted", "aborted"} => Cut(at[p])

\* Once accepted, a request keeps its answer and its kind.
LEMMA AnswersStay ==
  ASSUME Typed, [Next]_vars, NEW q \in Requests, pc[q] # "new"
  PROVE  pc'[q] # "new" /\ range'[q] = range[q] /\ is_seek'[q] = is_seek[q]
<1>1. ASSUME NEW p \in Requests, NEW r, Accept(p, r)
      PROVE  pc'[q] # "new" /\ range'[q] = range[q] /\ is_seek'[q] = is_seek[q]
  BY <1>1 DEF Accept, Typed
<1>2. ASSUME NEW p \in Requests,
             \/ Abort(p) \/ Reset(p) \/ Record(p) \/ Urgent(p) \/ Wait(p) \/ GiveUp(p)
             \/ Recheck(p) \/ Send(p) \/ HangUp(p) \/ Update(p)
             \/ \E end \in 0 .. TotalChunks(content_length) : PrefetchAhead(p, end)
      PROVE  pc'[q] # "new" /\ range'[q] = range[q] /\ is_seek'[q] = is_seek[q]
  BY <1>2
     DEF Abort, Reset, Record, Urgent, Wait, GiveUp, Recheck, Send, HangUp, PrefetchAhead,
         Update, Typed
<1>3. ASSUME NEW c \in Chunks, DownloadOk(c) \/ DownloadFails(c)
      PROVE  pc'[q] # "new" /\ range'[q] = range[q] /\ is_seek'[q] = is_seek[q]
  BY <1>3 DEF DownloadOk, DownloadFails, Woken
<1>4. CASE Elapse \/ Warm \/ Shutdown \/ UNCHANGED vars
  BY <1>4 DEF Elapse, Warm, Shutdown, vars
<1> QED BY <1>1, <1>2, <1>3, <1>4 DEF Next, Request, Done

LEMMA CutStays ==
  ASSUME Typed, [Next]_vars, NEW c, Cut(c)
  PROVE  Cut(c)'
<1>1. PICK q \in Requests :
        /\ pc[q] # "new" /\ is_seek[q]
        /\ c \notin ChunkOf(range[q].start) .. (ChunkOf(range[q].start) + WindowChunks) - 1
  BY DEF Cut
<1>2. pc'[q] # "new" /\ range'[q] = range[q] /\ is_seek'[q] = is_seek[q]
  BY <1>1, AnswersStay
<1> QED BY <1>1, <1>2 DEF Cut

LEMMA BlamedStep == Typed /\ Blamed /\ [Next]_vars => Blamed'
<1> SUFFICES ASSUME Typed, Blamed, [Next]_vars, ~shut' PROVE Blamed'
  BY DEF Blamed
<1>0. Chunks' = Chunks /\ ~shut /\ \A c : Cut(c) => Cut(c)'
  <2>1. file' = file /\ (shut' = shut \/ Shutdown)
    BY DEF Next, Request, Done, Accept, Abort, Reset, Record, Urgent, Wait, GiveUp, Recheck,
           Send, HangUp, PrefetchAhead, Update, DownloadOk, DownloadFails, Elapse, Warm,
           Shutdown, vars, session, opened
  <2> QED BY <2>1, CutStays DEF Chunks, content_length, Shutdown
<1>1. ASSUME \A c \in Chunks : slot'[c] = "cancelled" => slot[c] = "cancelled" \/ Cut(c),
             \A p \in Requests : pc'[p] \in {"woken_aborted", "aborted"} =>
                \/ pc[p] \in {"woken_aborted", "aborted"} /\ at'[p] = at[p]
                \/ Cut(at'[p])
      PROVE  Blamed'
  BY <1>0, <1>1 DEF Blamed
<1>2. \A C : \A c \in Chunks : Started(C)[c] = "cancelled" => slot[c] = "cancelled"
  BY DEF Started
<1>3. ASSUME NEW p \in Requests, NEW r, Accept(p, r) PROVE Blamed'
  <2>1. slot' = slot
    BY <1>3 DEF Accept, store
  <2>2. /\ pc'[p] \in {"refused", "abort", "record"}
        /\ \A q \in Requests \ {p} : pc'[q] = pc[q] /\ at'[q] = at[q]
    BY <1>3 DEF Accept, Typed
  <2> QED BY <1>1, <2>1, <2>2
<1>4. ASSUME NEW p \in Requests, Abort(p) PROVE Blamed'
  <2>1. pc[p] = "abort" /\ is_seek[p] /\ at[p] = ChunkOf(range[p].start)
    BY <1>4 DEF Abort, Typed
  <2>2. \A c \in Chunks : slot'[c] = "cancelled" =>
           slot[c] = "cancelled" \/ c \notin at[p] .. (at[p] + WindowChunks) - 1
    BY <1>4 DEF Abort, Cancelled
  <2>3. \A c \in Chunks : slot'[c] = "cancelled" => slot[c] = "cancelled" \/ Cut(c)
    BY <2>1, <2>2 DEF Cut
  <2>4. /\ pc'[p] = "reset" /\ at' = at
        /\ \A q \in Requests \ {p} : pc'[q] = pc[q]
    BY <1>4 DEF Abort, Typed
  <2> QED BY <1>1, <2>3, <2>4
<1>5. ASSUME NEW p \in Requests,
             Reset(p) \/ Record(p) \/ GiveUp(p) \/ Recheck(p) \/ HangUp(p) \/ Update(p)
      PROVE  Blamed'
  <2>1. slot' = slot /\ at' = at
    BY <1>5 DEF Reset, Record, GiveUp, Recheck, HangUp, Update, store
  <2>2. /\ pc'[p] \in {"woken_aborted", "aborted"} => pc[p] = "woken_aborted"
        /\ \A q \in Requests \ {p} : pc'[q] = pc[q]
    BY <1>5 DEF Reset, Record, GiveUp, Recheck, HangUp, Update, Typed
  <2> QED BY <1>1, <2>1, <2>2
<1>6. ASSUME NEW p \in Requests,
             \/ Urgent(p) \/ Wait(p) \/ Send(p)
             \/ \E end \in 0 .. TotalChunks(content_length) : PrefetchAhead(p, end)
      PROVE  Blamed'
  <2>1. slot' = slot \/ \E C : slot' = Started(C)
    BY <1>6 DEF Urgent, Wait, Send, PrefetchAhead, store
  <2>2. /\ pc'[p] \notin {"woken_aborted", "aborted"}
        /\ \A q \in Requests \ {p} : pc'[q] = pc[q] /\ at'[q] = at[q]
    BY <1>6 DEF Urgent, Wait, Send, PrefetchAhead, Typed
  <2> QED BY <1>1, <1>2, <2>1, <2>2
<1>7. ASSUME NEW c \in Chunks, DownloadOk(c) \/ DownloadFails(c) PROVE Blamed'
  <2>1. \A d \in Chunks : slot'[d] = "cancelled" => slot[d] = "cancelled"
    BY <1>7 DEF DownloadOk, DownloadFails, Typed
  <2>2. at' = at /\ \A q \in Requests :
           pc'[q] = "woken_aborted" =>
             pc[q] = "woken_aborted" \/ (at[q] = c /\ slot[c] = "cancelled")
    BY <1>7 DEF DownloadOk, DownloadFails, Woken
  <2>3. \A q \in Requests : pc'[q] = "aborted" => pc[q] = "aborted"
    BY <1>7 DEF DownloadOk, DownloadFails, Woken
  <2> QED BY <1>0, <1>1, <2>1, <2>2, <2>3 DEF Blamed
<1>8. CASE Elapse \/ Warm \/ UNCHANGED vars
  <2>1. slot' = slot \/ \E C : slot' = Started(C)
    BY <1>8 DEF Elapse, Warm, vars, store
  <2>2. pc' = pc /\ at' = at
    BY <1>8 DEF Elapse, Warm, vars
  <2> QED BY <1>1, <1>2, <2>1, <2>2
<1>9. ~Shutdown
  BY DEF Shutdown
<1> QED BY <1>3, <1>4, <1>5, <1>6, <1>7, <1>8, <1>9 DEF Next, Request, Done

\* A stream cut short by a cancellation was hit by the seek of another request,
\* or asked for more chunks than the window of its own seek has, unless the session
\* has been shut down under it (serve_range_stream, abort_outside_window, shutdown).
THEOREM CancelledByOthers == Spec => []AbortedByOther
<1>1. Init => Blamed
  BY DEF Init, Blamed
<1>2. Typed /\ Blamed => AbortedByOther
  <2> SUFFICES ASSUME Typed, Blamed, ~shut, NEW p \in Requests, pc[p] = "aborted",
                      ~ \E q \in Requests \ {p} : is_seek[q]
               PROVE  Cardinality(Promised(p)) > WindowChunks
    BY DEF AbortedByOther
  <2> DEFINE a == ChunkOf(range[p].start)
  <2>1. at[p] \notin a .. (a + WindowChunks) - 1
    BY DEF Blamed, Cut
  <2>2. /\ Promised(p) = a .. LastOf(p) /\ at[p] \in a .. LastOf(p)
        /\ a \in Nat /\ LastOf(p) \in Nat
    BY PromisedChunks
  <2> HIDE DEF a
  <2>3. Cardinality(a .. LastOf(p)) = IF a > LastOf(p) THEN 0 ELSE LastOf(p) - a + 1
    <3>1. a \in Int /\ LastOf(p) \in Int
      BY <2>2
    <3> QED BY <3>1, FS_Interval
  <2>4. WindowChunks \in Nat
    BY LimitsAssumption
  <2> QED BY <2>1, <2>2, <2>3, <2>4
<1> QED BY <1>1, <1>2, AlwaysTyped, BlamedStep, PTL DEF Spec

-----------------------------------------------------------------------------
(* The body.                                                               *)

\* The bytes sent of a range, by how far the request is: up to the chunk it
\* works on while the stream runs or after it broke, all in the end.
Before(p) == IF at[p] * ChunkSize <= range[p].start THEN range[p].start
             ELSE at[p] * ChunkSize
Sent(p) ==
    IF pc[p] \in {"new", "refused", "abort", "reset", "record", "urgent"} THEN 0
    ELSE IF pc[p] \in {"prefetch", "update", "done"} THEN LengthOf(p)
    ELSE Before(p) - range[p].start

Bodies == /\ body \in [Requests -> Seq(Nat)]
          /\ \A p \in Requests : body[p] = Run(range[p].start, Sent(p))

\* A request on its way has not sent the last byte of its range.
LEMMA BeforeEnd ==
  ASSUME Typed, NEW p \in Requests, pc[p] \notin {"new", "refused"}
  PROVE  Before(p) \in Nat /\ range[p].start <= Before(p) /\ Before(p) < range[p].end
<1> USE SizesAssumption
<1>1. /\ range[p].start \in Nat /\ range[p].end - 1 \in Nat
      /\ range[p].start < range[p].end
      /\ at[p] \in Nat /\ LastOf(p) \in Nat /\ at[p] <= LastOf(p)
  BY PromisedChunks DEF Typed, Inside
<1> DEFINE a == at[p] * ChunkSize
           l == LastOf(p) * ChunkSize
<1>2. a <= l
  BY <1>1, ChunksOrdered
<1>3. l <= range[p].end - 1
  BY <1>1, ByteInChunk DEF LastOf
<1>4. a \in Nat /\ l \in Nat
  BY <1>1
<1>5. Before(p) = IF a <= range[p].start THEN range[p].start ELSE a
  BY DEF Before
<1> HIDE DEF a, l
<1>6. range[p].end \in Nat
  BY PromisedChunks
<1> QED BY <1>1, <1>2, <1>3, <1>4, <1>5, <1>6

\* The slice of a chunk begins where the chunks before it have left off, and ends
\* with the chunk, or with the range in the last one.
LEMMA SliceIsNext ==
  ASSUME Typed, NEW p \in Requests, pc[p] = "send"
  PROVE  LET s == Slice(at[p], range[p].start, range[p].end, content_length) IN
           /\ s.from = Before(p)
           /\ s.to = IF at[p] < LastOf(p) THEN (at[p] + 1) * ChunkSize ELSE range[p].end
           /\ s.to \in Nat /\ s.from < s.to
           /\ range[p].start < (at[p] + 1) * ChunkSize
<1> DEFINE s == Slice(at[p], range[p].start, range[p].end, content_length)
           a == at[p] * ChunkSize
           b == (at[p] + 1) * ChunkSize
           start == range[p].start
           end == range[p].end
<1> USE SizesAssumption
<1>1. /\ start \in Nat /\ end \in Nat /\ end - 1 \in Nat /\ end <= content_length
      /\ at[p] \in Nat /\ LastOf(p) \in Nat /\ ChunkOf(start) \in Nat
      /\ at[p] \in ChunkOf(start) .. LastOf(p) /\ content_length \in Nat
  BY PromisedChunks, FileHasBytes, SMTT(30) DEF Typed, Inside
<1>2. a \in Nat /\ b \in Nat /\ b = a + ChunkSize
  BY <1>1
<1>3. /\ Before(p) \in Nat /\ start <= Before(p) /\ Before(p) < end
      /\ Before(p) = IF a <= start THEN start ELSE a
  BY BeforeEnd DEF Before
<1>4. start < b
  <2>1. start < (ChunkOf(start) + 1) * ChunkSize
    BY <1>1, ByteInChunk
  <2>2. (ChunkOf(start) + 1) * ChunkSize <= b
    BY <1>1, ChunksOrdered
  <2>3. (ChunkOf(start) + 1) * ChunkSize \in Nat
    BY <1>1
  <2> HIDE DEF start, b
  <2> QED BY <1>1, <1>2, <2>1, <2>2, <2>3
<1>5. IF at[p] < LastOf(p) THEN b < end ELSE end <= b
  <2>1. LastOf(p) * ChunkSize <= end - 1 /\ end - 1 < (LastOf(p) + 1) * ChunkSize
    BY <1>1, ByteInChunk DEF LastOf
  <2>2. CASE at[p] < LastOf(p)
    <3>1. b <= LastOf(p) * ChunkSize
      BY <1>1, <2>2, ChunksOrdered
    <3>2. LastOf(p) * ChunkSize \in Nat
      BY <1>1
    <3> HIDE DEF b, end
    <3> QED BY <1>1, <1>2, <2>1, <2>2, <3>1, <3>2
  <2>3. CASE ~ at[p] < LastOf(p)
    <3>1. at[p] = LastOf(p)
      BY <1>1, <2>3
    <3> QED BY <1>1, <1>2, <2>1, <2>3, <3>1
  <2> QED BY <2>2, <2>3
<1>6. /\ a < content_length
      /\ a + ChunkLen(at[p], content_length) =
           IF b <= content_length THEN b ELSE content_length
      /\ ChunkLen(at[p], content_length) \in Nat
  <2>1. a < content_length
    BY <1>1, <1>2, <1>3
  <2> QED BY <1>1, <2>1, ChunkEnd
<1>7. s.from = Max({start, a}) /\ s.to = Min({a + ChunkLen(at[p], content_length), end})
  BY DEF Slice
<1> HIDE DEF a, b, start, end
<1>8. s.from = Before(p)
  BY <1>1, <1>2, <1>3, <1>7, MaxOfTwo
<1>9. s.to = IF at[p] < LastOf(p) THEN b ELSE end
  <2> DEFINE e == a + ChunkLen(at[p], content_length)
  <2>1. e \in Nat /\ e = IF b <= content_length THEN b ELSE content_length
    BY <1>1, <1>2, <1>6
  <2>2. s.to = Min({e, end})
    BY <1>7
  <2> HIDE DEF e, s
  <2>3. s.to = IF e <= end THEN e ELSE end
    BY <1>1, <2>1, <2>2, MinOfTwo
  <2> QED BY <1>1, <1>2, <1>5, <2>1, <2>3
<1>10. s.to \in Nat /\ Before(p) < s.to
  <2> HIDE DEF s
  <2> QED BY <1>1, <1>2, <1>3, <1>4, <1>9
<1>11. /\ s.from = Before(p) /\ s.to = IF at[p] < LastOf(p) THEN b ELSE end
       /\ s.to \in Nat /\ s.from < s.to /\ start < b
  BY <1>4, <1>8, <1>9, <1>10
<1> QED BY <1>11 DEF b, start, end

Early == {"new", "refused", "abort", "reset", "record", "urgent"}
Late == {"prefetch", "update", "done"}

\* A request that sends nothing keeps its body, and has sent what it had.
Keeps(q) ==
    /\ range'[q] = range[q] /\ body'[q] = body[q]
    /\ \/ pc[q] \in Early /\ pc'[q] \in Early
       \/ pc[q] \in Late /\ pc'[q] \in Late
       \/ pc[q] \notin Early \cup Late /\ pc'[q] \notin Early \cup Late /\ at'[q] = at[q]

LEMMA BodyKept ==
  ASSUME NEW q \in Requests, Keeps(q), body[q] = Run(range[q].start, Sent(q))
  PROVE  body'[q] = Run(range'[q].start, Sent(q)')
<1>1. Sent(q)' = Sent(q)
  BY DEF Keeps, Sent, Early, Late, Before, LengthOf
<1> QED BY <1>1 DEF Keeps

LEMMA SendExtends ==
  ASSUME Typed, NEW p \in Requests, Send(p), body \in [Requests -> Seq(Nat)],
         body[p] = Run(range[p].start, Sent(p))
  PROVE  body'[p] = Run(range'[p].start, Sent(p)') /\ body'[p] \in Seq(Nat)
<1> DEFINE s == Slice(at[p], range[p].start, range[p].end, content_length)
           start == range[p].start
           m == s.to - s.from
<1>1. pc[p] = "send" /\ range' = range
  BY DEF Send
<1>2. /\ s.from = Before(p) /\ s.to \in Nat /\ s.from < s.to
      /\ s.to = IF at[p] < LastOf(p) THEN (at[p] + 1) * ChunkSize ELSE range[p].end
      /\ start < (at[p] + 1) * ChunkSize
  BY <1>1, SliceIsNext
<1>3. start \in Nat /\ Before(p) \in Nat /\ start <= Before(p) /\ at[p] \in Nat
  BY <1>1, BeforeEnd, PromisedChunks DEF Typed
<1>4. Sent(p) = Before(p) - start /\ Sent(p) \in Nat /\ s.from = start + Sent(p)
  <2>1. Sent(p) = Before(p) - start
    BY <1>1 DEF Sent
  <2> HIDE DEF s, start
  <2> QED BY <2>1, <1>2, <1>3
<1>5. body'[p] = body[p] \o [k \in 1 .. Max({m, 0}) |-> s.from + k - 1]
  BY DEF Send
<1> HIDE DEF s
<1>6. m \in Nat /\ Max({m, 0}) = m
  <2>1. m \in Nat
    BY <1>2, <1>3
  <2> HIDE DEF m
  <2> QED BY <2>1, MaxOfTwo
<1>7. body'[p] = Run(start, Sent(p)) \o Run(start + Sent(p), m)
  BY <1>4, <1>5, <1>6 DEF Run
<1>8. body'[p] = Run(start, Sent(p) + m)
  <2> HIDE DEF m, start
  <2>1. start \in Nat /\ Sent(p) \in Nat /\ m \in Nat
    BY <1>3, <1>4, <1>6
  <2>2. Run(start, Sent(p)) \o Run(start + Sent(p), m) = Run(start, Sent(p) + m)
    BY <2>1, RunExtends
  <2> QED BY <1>7, <2>2
<1>9. Sent(p) + m = s.to - start
  BY <1>2, <1>3, <1>4
<1>10. Sent(p)' = s.to - start
  <2>1. CASE at[p] < LastOf(p)
    <3>1. pc' = pc /\ at'[p] = at[p] + 1
      BY <2>1 DEF Send, Typed
    <3>2. at'[p] * ChunkSize = (at[p] + 1) * ChunkSize /\ (at[p] + 1) * ChunkSize \in Nat
      BY <3>1, <1>3, SizesAssumption
    <3> DEFINE b == (at[p] + 1) * ChunkSize
    <3>3. s.to = b /\ start < b /\ at'[p] * ChunkSize = b /\ b \in Nat
      BY <1>2, <2>1, <3>2
    <3>4. Before(p)' = IF at'[p] * ChunkSize <= start THEN start ELSE at'[p] * ChunkSize
      BY <1>1 DEF Before
    <3> HIDE DEF b, start
    <3>5. Before(p)' = s.to
      BY <1>3, <3>3, <3>4
    <3> QED BY <1>1, <3>1, <3>5 DEF Sent, start
  <2>2. CASE ~ at[p] < LastOf(p)
    <3>1. pc'[p] = "prefetch"
      BY <2>2 DEF Send, Typed
    <3>2. s.to = range[p].end
      BY <1>2, <2>2
    <3> QED BY <1>1, <3>1, <3>2 DEF Sent, LengthOf
  <2> QED BY <2>1, <2>2
<1>11. body'[p] \in Seq(Nat)
  <2> HIDE DEF m, start
  <2>1. start \in Nat /\ Sent(p) + m \in Nat
    BY <1>3, <1>4, <1>6
  <2>2. Run(start, Sent(p) + m) \in Seq(Nat)
    BY <2>1, RunIsSeq
  <2> QED BY <1>8, <2>2
<1> QED BY <1>1, <1>8, <1>9, <1>10, <1>11

LEMMA SentTyped ==
  ASSUME Typed, NEW p \in Requests
  PROVE  /\ Sent(p) \in Nat /\ Run(range[p].start, Sent(p)) \in Seq(Nat)
         /\ Len(Run(range[p].start, Sent(p))) = Sent(p)
<1>1. range[p].start \in Nat /\ range[p].end \in Nat
  BY DEF Typed, Answers
<1>2. CASE pc[p] \in {"new", "refused"}
  <2>1. Sent(p) = 0
    BY <1>2 DEF Sent
  <2>2. Sent(p) \in Nat
    BY <2>1
  <2> QED BY <1>1, <2>2, RunIsSeq
<1>3. CASE pc[p] \notin {"new", "refused"}
  <2>1. /\ Before(p) \in Nat /\ range[p].start <= Before(p)
        /\ range[p].start < range[p].end
    BY <1>3, BeforeEnd DEF Typed, Inside
  <2>2. Before(p) - range[p].start \in Nat /\ LengthOf(p) \in Nat
    BY <1>1, <2>1 DEF LengthOf
  <2>3. Sent(p) \in Nat
    BY <2>2 DEF Sent
  <2> QED BY <1>1, <2>3, RunIsSeq
<1> QED BY <1>2, <1>3

LEMMA EmptyRun == ASSUME NEW x, NEW y PROVE Run(x, 0) = Run(y, 0) /\ Run(x, 0) = <<>>
BY DEF Run

LEMMA BodiesStep == Typed /\ Bodies /\ [Next]_vars => Bodies'
<1> SUFFICES ASSUME Typed, Bodies, [Next]_vars PROVE Bodies'
  OBVIOUS
<1>2. ASSUME \A q \in Requests : \/ Keeps(q)
                                 \/ body'[q] = Run(range'[q].start, Sent(q)'),
             body' \in [Requests -> Seq(Nat)]
      PROVE  Bodies'
  BY <1>2, BodyKept DEF Bodies
<1> USE DEF Early, Late
<1>3. ASSUME NEW p \in Requests, NEW r, Accept(p, r) PROVE Bodies'
  <2>1. /\ body' = body /\ pc[p] = "new" /\ pc'[p] \in {"refused", "abort", "record"}
        /\ \A q \in Requests \ {p} : pc'[q] = pc[q] /\ range'[q] = range[q] /\ at'[q] = at[q]
    BY <1>3 DEF Accept, Typed
  <2>2. \A q \in Requests \ {p} : Keeps(q)
    BY <2>1 DEF Keeps
  <2>3. Sent(p) = 0 /\ Sent(p)' = 0
    BY <2>1 DEF Sent
  <2>4. body'[p] = Run(range'[p].start, Sent(p)')
    BY <2>1, <2>3, EmptyRun DEF Bodies
  <2> QED BY <1>2, <2>1, <2>2, <2>4 DEF Bodies
<1>4. ASSUME NEW p \in Requests, Urgent(p) PROVE Bodies'
  <2>1. body' = body /\ range' = range /\ pc[p] = "urgent"
        /\ \A q \in Requests \ {p} : pc'[q] = pc[q] /\ at'[q] = at[q]
    BY <1>4 DEF Urgent, Typed, session
  <2>2. \A q \in Requests \ {p} : Keeps(q)
    BY <2>1 DEF Keeps
  <2>3. CASE at[p] < LastOf(p)
    <3>1. Keeps(p)
      BY <1>4, <2>1, <2>3 DEF Keeps, Urgent
    <3> QED BY <1>2, <2>1, <2>2, <3>1 DEF Bodies
  <2>4. CASE ~ at[p] < LastOf(p)
    <3>1. pc'[p] = "send" /\ at'[p] = ChunkOf(range[p].start)
      BY <1>4, <2>4 DEF Urgent, Typed
    <3>2. range[p].start \in Nat
      BY DEF Typed, Answers
    <3>3. Before(p)' = range[p].start
      BY <2>1, <3>1, <3>2, ByteInChunk DEF Before
    <3>4. Sent(p) = 0 /\ Sent(p)' = 0
      BY <2>1, <3>1, <3>2, <3>3 DEF Sent
    <3>5. body'[p] = Run(range'[p].start, Sent(p)')
      BY <2>1, <3>4 DEF Bodies
    <3> QED BY <1>2, <2>1, <2>2, <3>5 DEF Bodies
  <2> QED BY <2>3, <2>4
<1>5. ASSUME NEW p \in Requests, Send(p) PROVE Bodies'
  <2>1. /\ range' = range /\ body' = [body EXCEPT ![p] = body'[p]]
        /\ \A q \in Requests \ {p} : pc'[q] = pc[q] /\ at'[q] = at[q] /\ body'[q] = body[q]
    BY <1>5 DEF Send, Typed, Bodies
  <2>2. \A q \in Requests \ {p} : Keeps(q)
    BY <2>1 DEF Keeps
  <2>3. body'[p] = Run(range'[p].start, Sent(p)') /\ body'[p] \in Seq(Nat)
    BY <1>5, SendExtends DEF Bodies
  <2>4. body' \in [Requests -> Seq(Nat)]
    BY <2>1, <2>3 DEF Bodies
  <2> QED BY <1>2, <2>2, <2>3, <2>4
<1>6. ASSUME NEW p \in Requests,
             \/ Abort(p) \/ Reset(p) \/ Record(p) \/ Wait(p) \/ GiveUp(p) \/ Recheck(p)
             \/ HangUp(p) \/ Update(p)
             \/ \E end \in 0 .. TotalChunks(content_length) : PrefetchAhead(p, end)
      PROVE  Bodies'
  <2>1. body' = body /\ range' = range /\ at' = at
        /\ \A q \in Requests \ {p} : pc'[q] = pc[q]
    BY <1>6 DEF Abort, Reset, Record, Wait, GiveUp, Recheck, HangUp, Update, PrefetchAhead, Typed
  <2>2. \/ pc[p] \in Early /\ pc'[p] \in Early
        \/ pc[p] \in Late /\ pc'[p] \in Late
        \/ pc[p] \notin Early \cup Late /\ pc'[p] \notin Early \cup Late
    BY <1>6 DEF Abort, Reset, Record, Wait, GiveUp, Recheck, HangUp, Update, PrefetchAhead, Typed
  <2>3. \A q \in Requests : Keeps(q)
    BY <2>1, <2>2 DEF Keeps
  <2> QED BY <1>2, <2>1, <2>3 DEF Bodies
<1>7. ASSUME NEW c \in Chunks, DownloadOk(c) \/ DownloadFails(c) PROVE Bodies'
  <2>1. \A q \in Requests : Keeps(q)
    BY <1>7 DEF Keeps, DownloadOk, DownloadFails, Woken
  <2> QED BY <1>2, <1>7, <2>1 DEF DownloadOk, DownloadFails, Bodies
<1>8. CASE Elapse \/ Warm \/ Shutdown \/ UNCHANGED vars
  <2>1. \A q \in Requests : Keeps(q)
    BY <1>8 DEF Keeps, Elapse, Warm, Shutdown, vars
  <2> QED BY <1>2, <1>8, <2>1 DEF Elapse, Warm, Shutdown, vars, Bodies
<1> QED BY <1>3, <1>4, <1>5, <1>6, <1>7, <1>8 DEF Next, Request, Done

LEMMA BodiesInit == Init => Bodies
<1> SUFFICES ASSUME Init PROVE Bodies
  OBVIOUS
<1>1. \A p \in Requests : Sent(p) = 0 /\ body[p] = <<>>
  BY DEF Init, Sent
<1>2. <<>> \in Seq(Nat)
  OBVIOUS
<1> QED BY <1>1, <1>2, EmptyRun DEF Init, Bodies

\* The player gets the bytes of its range in order, without a gap or a repeat;
\* all of them when the stream ends well, fewer when it breaks
\* (serve_range_stream).
THEOREM BodyIsTheRange == Spec => []BodyIsRange
<1>1. Typed /\ Bodies => BodyIsRange
  <2> SUFFICES ASSUME Typed, Bodies, NEW p \in Requests
               PROVE  /\ body[p] = [k \in 1 .. Len(body[p]) |-> range[p].start + k - 1]
                      /\ pc[p] \in {"prefetch", "update", "done"} => Len(body[p]) = LengthOf(p)
                      /\ pc[p] \in {"fetch_failed", "aborted", "gave_up"}
                           => Len(body[p]) < LengthOf(p)
    BY DEF BodyIsRange
  <2>1. Len(body[p]) = Sent(p)
    BY SentTyped DEF Bodies
  <2>2. body[p] = [k \in 1 .. Len(body[p]) |-> range[p].start + k - 1]
    BY <2>1 DEF Bodies, Run
  <2>3. pc[p] \in {"prefetch", "update", "done"} => Len(body[p]) = LengthOf(p)
    BY <2>1 DEF Sent
  <2>4. ASSUME pc[p] \in {"fetch_failed", "aborted", "gave_up"}
        PROVE  Len(body[p]) < LengthOf(p)
    <3>1. Sent(p) = Before(p) - range[p].start
      BY <2>4 DEF Sent
    <3>2. Before(p) \in Nat /\ Before(p) < range[p].end /\ range[p].start \in Nat
          /\ range[p].end \in Nat
      BY <2>4, BeforeEnd DEF Typed, Answers
    <3> QED BY <2>1, <3>1, <3>2 DEF LengthOf
  <2> QED BY <2>2, <2>3, <2>4
<1> QED BY <1>1, AlwaysTyped, BodiesInit, BodiesStep, PTL DEF Spec

-----------------------------------------------------------------------------
(* The type invariant.                                                     *)

\* What Typed leaves out.
Settled ==
    /\ warmup \in {"running", "over"} /\ shut \in BOOLEAN /\ bps \in BOOLEAN
    /\ cached \subseteq Chunks
    /\ seek.last \in 0 .. content_length - 1
    /\ playback_offset \in 0 .. content_length - 1
    /\ stats \in [requested : Nat, hit : Nat, served : Nat]
    /\ \A p \in Requests : pc[p] \in {"new", "refused"} => range[p] = Refused

\* A byte of the file lies in one of its chunks.
LEMMA ChunkInFile ==
  ASSUME NEW len \in Nat, NEW b \in 0 .. len - 1
  PROVE  ChunkOf(b) \in 0 .. TotalChunks(len) - 1
<1> DEFINE i == ChunkOf(b)
<1>1. i \in Nat /\ i * ChunkSize <= b
  BY ByteInChunk
<1>2. i * ChunkSize < len
  <2>1. i * ChunkSize \in Nat
    BY <1>1, SizesAssumption
  <2> QED BY <1>1, <2>1
<1> HIDE DEF i
<1>3. i < TotalChunks(len)
  BY <1>1, <1>2, ChunkEnd
<1>4. TotalChunks(len) \in Int
  BY SizesAssumption DEF TotalChunks
<1> QED BY <1>1, <1>3, <1>4 DEF i

\* The chunks promised to a request are chunks of the file.
LEMMA PromisedInFile ==
  ASSUME Typed, Settled, NEW p \in Requests
  PROVE  Promised(p) \subseteq Chunks /\ IsFiniteSet(Promised(p)) /\ Promised(p) \subseteq Nat
<1>1. CASE pc[p] \in {"new", "refused"}
  <2>1. Promised(p) = ChunkOf(0) .. ChunkOf(0 - 1)
    BY <1>1 DEF Settled, Refused, Promised, ChunksOf
  <2>2. ChunkOf(0) = 0 /\ ChunkOf(0 - 1) = -1
    BY SizesAssumption DEF ChunkOf
  <2>3. Promised(p) = {}
    BY <2>1, <2>2
  <2> QED BY <2>3, FS_EmptySet
<1>2. CASE pc[p] \notin {"new", "refused"}
  <2>1. /\ range[p].start \in Nat /\ range[p].end \in Nat /\ range[p].start < range[p].end
        /\ range[p].end <= content_length /\ content_length \in Nat
    BY <1>2, FileHasBytes DEF Typed, Answers, Inside
  <2>2. /\ Promised(p) = ChunkOf(range[p].start) .. LastOf(p)
        /\ ChunkOf(range[p].start) \in Nat /\ LastOf(p) \in Nat
    BY <1>2, PromisedChunks
  <2>3. LastOf(p) \in Chunks
    <3>1. range[p].end - 1 \in 0 .. content_length - 1
      BY <2>1
    <3> QED BY <2>1, <3>1, ChunkInFile DEF LastOf, Chunks
  <2>4. IsFiniteSet(Promised(p)) /\ Promised(p) \subseteq Nat
    BY <2>2, FS_Interval
  <2>5. Promised(p) \subseteq Chunks
    <3>1. TotalChunks(content_length) \in Int
      BY <2>1, SizesAssumption DEF TotalChunks
    <3> QED BY <2>2, <2>3, <3>1 DEF Chunks
  <2> QED BY <2>4, <2>5
<1> QED BY <1>1, <1>2

\* The hits of a request are a number, and no more than its bytes.
LEMMA HitsOfRequest ==
  ASSUME Typed, Settled, NEW p \in Requests, pc[p] \notin {"new", "refused"}
  PROVE  LET hit == Min({MapThenSumSet(LAMBDA c : ChunkLen(c, content_length),
                                       Promised(p) \cap cached), LengthOf(p)})
         IN  LengthOf(p) \in Nat \ {0} /\ hit \in Nat /\ hit <= LengthOf(p)
<1> DEFINE S == Promised(p) \cap cached
           w == [i \in Nat |-> ChunkLen(i, content_length)]
           sum == MapThenSumSet(LAMBDA c : ChunkLen(c, content_length), S)
<1>1. S \subseteq Nat /\ IsFiniteSet(S)
  BY PromisedInFile, FS_Subset
<1>2. \A x \in S : w[x] \in Nat
  <2>1. \A i \in Nat : ChunkLen(i, content_length) \in Nat
    BY FileHasBytes, SizesAssumption DEF ChunkLen
  <2> QED BY <1>1, <2>1
<1>3. sum = Total(w, S)
  <2> HIDE DEF S
  <2> QED BY <1>1, SumOfChunks
<1>4. sum \in Nat
  <2> HIDE DEF S, w, sum
  <2> QED BY <1>1, <1>2, <1>3, TotalNat
<1>5. LengthOf(p) \in Nat \ {0}
  BY DEF LengthOf, Typed, Answers, Inside
<1>6. Min({sum, LengthOf(p)}) = IF sum <= LengthOf(p) THEN sum ELSE LengthOf(p)
  <2> HIDE DEF sum
  <2> QED BY <1>4, <1>5, MinOfTwo
<1>7. Min({sum, LengthOf(p)}) \in Nat /\ Min({sum, LengthOf(p)}) <= LengthOf(p)
  <2> HIDE DEF sum
  <2> QED BY <1>4, <1>5, <1>6
<1> QED BY <1>5, <1>7

\* What Record does to the counters.
LEMMA RecordCounts ==
  ASSUME Typed, Settled, NEW p \in Requests, Record(p)
  PROVE  \E hit \in Nat : /\ LengthOf(p) \in Nat \ {0} /\ hit <= LengthOf(p)
                          /\ stats' = [requested |-> stats.requested + LengthOf(p),
                                       hit |-> stats.hit + hit, served |-> stats.served]
<1> DEFINE hit == Min({MapThenSumSet(LAMBDA c : ChunkLen(c, content_length),
                                     Promised(p) \cap cached), LengthOf(p)})
<1>1. pc[p] \notin {"new", "refused"}
  BY DEF Record
<1>2. LengthOf(p) \in Nat \ {0} /\ hit \in Nat /\ hit <= LengthOf(p)
  BY <1>1, HitsOfRequest
<1>3. stats' = [stats EXCEPT !.requested = @ + LengthOf(p), !.hit = @ + hit]
  BY DEF Record, RecordRequest
<1> HIDE DEF hit
<1>4. stats' = [requested |-> stats.requested + LengthOf(p),
                hit |-> stats.hit + hit, served |-> stats.served]
  BY <1>3 DEF Settled
<1> QED BY <1>2, <1>4

\* What Update does to the counters: the body is the whole range.
LEMMA UpdateCounts ==
  ASSUME Typed, Settled, Bodies, NEW p \in Requests, Update(p)
  PROVE  /\ LengthOf(p) \in Nat \ {0}
         /\ stats' = [requested |-> stats.requested, hit |-> stats.hit,
                      served |-> stats.served + LengthOf(p)]
<1>1. pc[p] = "update"
  BY DEF Update
<1>2. Len(body[p]) = LengthOf(p)
  BY <1>1, SentTyped DEF Bodies, Sent
<1>3. LengthOf(p) \in Nat \ {0}
  BY <1>1 DEF LengthOf, Typed, Answers, Inside
<1>4. stats' = [stats EXCEPT !.served = @ + Len(body[p])]
  BY DEF Update, RecordServed
<1> QED BY <1>2, <1>3, <1>4 DEF Settled

LEMMA SettledInit == Init => Settled
<1> SUFFICES ASSUME Init PROVE Settled
  OBVIOUS
<1>1. content_length \in Nat \ {0}
  BY FilesAssumption DEF Init, content_length
<1>2. seek.last \in 0 .. content_length - 1 /\ playback_offset \in 0 .. content_length - 1
  BY <1>1 DEF Init, FreshSeek
<1> QED BY <1>2 DEF Init, Settled

LEMMA SettledStep == Typed /\ Settled /\ Bodies /\ [Next]_vars => Settled'
<1> SUFFICES ASSUME Typed, Settled, Bodies, [Next]_vars PROVE Settled'
  OBVIOUS
<1>1. content_length' = content_length /\ Chunks' = Chunks
  <2>1. file' = file
    BY DEF Next, Request, Done, Accept, Abort, Reset, Record, Urgent, Wait, GiveUp, Recheck,
           Send, HangUp, PrefetchAhead, Update, DownloadOk, DownloadFails, Elapse, Warm,
           Shutdown, vars, session, opened
  <2> QED BY <2>1 DEF content_length, Chunks
<1>2. ASSUME NEW p \in Requests, NEW r, Accept(p, r) PROVE Settled'
  <2> DEFINE a == Resolve(ParseRange(r), content_length)
  <2>1. /\ a \in Answers
        /\ a.status # 416 => a.start < a.end /\ a.end <= content_length
    BY AnswerInFile, FileHasBytes
  <2>2. /\ range' = [range EXCEPT ![p] = a]
        /\ UNCHANGED <<warmup, shut, seek, bps, stats, cached>>
        /\ \A q \in Requests \ {p} : pc'[q] = pc[q] /\ range'[q] = range[q]
    BY <1>2 DEF Accept, opened, store, Typed
  <2>3. IF a.status = 416
        THEN pc'[p] = "refused" /\ playback_offset' = playback_offset
        ELSE pc'[p] \in {"abort", "record"} /\ playback_offset' = a.start
    BY <1>2 DEF Accept, Typed
  <2>4. a.status = 416 => a = Refused
    <3> DEFINE k == ParseRange(r)
    <3>1. \A s, e : Partial(s, e).status = 206
      BY DEF Partial
    <3> HIDE DEF k
    <3>2. Resolve(k, content_length).status = 416 => Resolve(k, content_length) = Refused
      <4> DEFINE s == IF Min({StartupClamp, content_length}) < content_length THEN 206 ELSE 200
      <4>1. s # 416
        OBVIOUS
      <4>2. [status |-> s, start |-> 0, end |-> Min({StartupClamp, content_length})].status = s
        OBVIOUS
      <4> QED BY <3>1, <4>1, <4>2 DEF Resolve
    <3> QED BY <3>2 DEF k
  <2>5. playback_offset' \in 0 .. content_length - 1
    <3>1. a.start \in Nat /\ a.end \in Nat /\ content_length \in Nat
      BY <2>1, FileHasBytes DEF Answers
    <3> HIDE DEF a
    <3> QED BY <2>1, <2>3, <3>1 DEF Settled
  <2>6. range'[p] = a
    BY <2>2 DEF Typed
  <2> HIDE DEF a
  <2>7. \A q \in Requests : pc'[q] \in {"new", "refused"} => range'[q] = Refused
    BY <2>2, <2>3, <2>4, <2>6 DEF Settled
  <2> QED BY <1>1, <2>2, <2>5, <2>7 DEF Settled
<1>3. ASSUME NEW p \in Requests, Record(p) PROVE Settled'
  <2>1. /\ UNCHANGED <<warmup, shut, seek, bps, cached, playback_offset, range>>
        /\ \A q \in Requests : pc'[q] \in {"new", "refused"} => pc[q] \in {"new", "refused"}
    BY <1>3 DEF Record, opened, store, Typed
  <2>2. stats' \in [requested : Nat, hit : Nat, served : Nat]
    BY <1>3, RecordCounts DEF Settled
  <2> QED BY <1>1, <2>1, <2>2 DEF Settled
<1>4. ASSUME NEW p \in Requests, Update(p) PROVE Settled'
  <2>1. /\ UNCHANGED <<warmup, shut, cached, playback_offset, range>> /\ bps' = TRUE
        /\ \A q \in Requests : pc'[q] \in {"new", "refused"} => pc[q] \in {"new", "refused"}
    BY <1>4 DEF Update, opened, store, Typed, Ended
  <2>2. stats' \in [requested : Nat, hit : Nat, served : Nat]
    BY <1>4, UpdateCounts DEF Settled
  <2>3. seek'.last = range[p].start
    BY <1>4 DEF Update, MaybeEnable, Typed
  <2>4. range[p].start \in 0 .. content_length - 1
    <3>1. range[p].start \in Nat /\ range[p].end \in Nat /\ content_length \in Nat
          /\ range[p].start < range[p].end /\ range[p].end <= content_length
      <4>1. pc[p] = "update"
        BY <1>4 DEF Update
      <4>2. Inside(p) /\ range[p] \in Answers /\ content_length \in Nat
        BY <4>1, FileHasBytes DEF Typed
      <4> QED BY <4>2 DEF Inside, Answers
    <3> QED BY <3>1
  <2> QED BY <1>1, <2>1, <2>2, <2>3, <2>4 DEF Settled
<1>5. ASSUME NEW p \in Requests,
             \/ Abort(p) \/ Urgent(p) \/ Wait(p) \/ GiveUp(p) \/ Recheck(p) \/ Send(p)
             \/ HangUp(p) \/ \E end \in 0 .. TotalChunks(content_length) : PrefetchAhead(p, end)
      PROVE  Settled'
  <2>1. UNCHANGED <<warmup, shut, seek, bps, stats, cached, playback_offset, range>>
    BY <1>5
       DEF Abort, Urgent, Wait, GiveUp, Recheck, Send, HangUp, PrefetchAhead, session, opened,
           store
  <2>2. \A q \in Requests : pc'[q] \in {"new", "refused"} => pc[q] \in {"new", "refused"}
    BY <1>5 DEF Abort, Urgent, Wait, GiveUp, Recheck, Send, HangUp, PrefetchAhead, Typed
  <2> QED BY <1>1, <2>1, <2>2 DEF Settled
<1>6. ASSUME NEW p \in Requests, Reset(p) PROVE Settled'
  <2>1. seek'.last = seek.last
    BY <1>6 DEF Reset, FreshSeek
  <2>2. /\ UNCHANGED <<warmup, shut, bps, stats, cached, playback_offset, range>>
        /\ \A q \in Requests : pc'[q] \in {"new", "refused"} => pc[q] \in {"new", "refused"}
    BY <1>6 DEF Reset, opened, store, Typed
  <2> QED BY <1>1, <2>1, <2>2 DEF Settled
<1>7. ASSUME NEW c \in Chunks, DownloadOk(c) \/ DownloadFails(c) PROVE Settled'
  <2>1. /\ UNCHANGED <<warmup, shut, seek, bps, stats, playback_offset, range>>
        /\ cached' \subseteq cached \cup {c}
        /\ \A q \in Requests : pc'[q] \in {"new", "refused"} => pc[q] \in {"new", "refused"}
    BY <1>7 DEF DownloadOk, DownloadFails, Woken, session, opened
  <2> QED BY <1>1, <2>1 DEF Settled
<1>8. CASE Elapse \/ Warm \/ Shutdown \/ UNCHANGED vars
  <2>1. /\ UNCHANGED <<bps, stats, cached, playback_offset, range, pc>>
        /\ warmup' \in {warmup, "over"} /\ shut' \in {shut, TRUE} /\ seek'.last = seek.last
    BY <1>8 DEF Elapse, Warm, Shutdown, vars, session, opened, store, Typed
  <2> QED BY <1>1, <2>1 DEF Settled
<1> QED BY <1>2, <1>3, <1>4, <1>5, <1>6, <1>7, <1>8 DEF Next, Request, Done

LEMMA AlwaysSettled == Spec => [](Typed /\ Bodies /\ Settled)
BY TypedInit, TypedStep, BodiesInit, BodiesStep, SettledInit, SettledStep, PTL DEF Spec

\* Types: a request works on a chunk it promised, and that is a chunk of the file;
\* the playback position and the end of the last request are in the file
\* (stream_handler, serve_range_stream).
THEOREM TypesHold == Spec => []TypeOK
<1>1. Typed /\ Settled => TypeOK
  <2> SUFFICES ASSUME Typed, Settled PROVE TypeOK
    OBVIOUS
  <2>1. seek \in [enabled : BOOLEAN, elapsed : BOOLEAN, count : Nat, hits : Nat,
                  last : 0 .. content_length - 1]
    BY DEF Typed, Settled
  <2>2. \A p \in Requests : /\ range[p].status \in {200, 206, 416}
                            /\ pc[p] \notin {"new", "refused"} => at[p] \in Promised(p)
                            /\ Promised(p) \subseteq Chunks
    BY PromisedInFile DEF Typed, Answers, Inside
  <2> QED BY <2>1, <2>2 DEF Typed, Settled, TypeOK
<1> QED BY <1>1, AlwaysSettled, PTL

-----------------------------------------------------------------------------
(* The counters.                                                           *)

\* A request whose bytes are counted as requested and may yet count as served.
Owed(p) == pc[p] \in {"urgent", "send", "wait", "woken_failed", "woken_aborted",
                      "prefetch", "update"}

\* A ledger gives each of them a piece of its own, as long as its range, of the
\* bytes requested that are not yet served.
Ledger(f) ==
    /\ f \in [Requests -> Nat]
    /\ \A p \in Requests :
         Owed(p) => stats.served <= f[p] /\ f[p] + LengthOf(p) <= stats.requested
    /\ \A p, q \in Requests :
         p # q /\ Owed(p) /\ Owed(q) =>
           f[p] + LengthOf(p) <= f[q] \/ f[q] + LengthOf(q) <= f[p]

Counted == StatsConsistent /\ \E f : Ledger(f)

LEMMA OwedLength ==
  ASSUME Typed
  PROVE  \A p \in Requests : LengthOf(p) \in Int /\ (Owed(p) => LengthOf(p) \in Nat \ {0})
BY DEF Typed, Owed, LengthOf, Answers, Inside

\* A step that does not count keeps the ledger, whatever requests it ends.
LEMMA LedgerKept ==
  ASSUME Counted, stats' = stats,
         \A p \in Requests : Owed(p)' => Owed(p) /\ range'[p] = range[p]
  PROVE  Counted'
<1>1. PICK f : Ledger(f)
  BY DEF Counted
<1>2. \A p \in Requests : Owed(p)' => Owed(p) /\ LengthOf(p)' = LengthOf(p)
  BY DEF LengthOf
<1>3. Ledger(f)'
  BY <1>1, <1>2 DEF Ledger
<1>4. StatsConsistent'
  BY DEF Counted, StatsConsistent
<1> QED BY <1>3, <1>4 DEF Counted

\* Record enters the request at the end.
LEMMA LedgerRecord ==
  ASSUME Typed, Settled, Counted, NEW p \in Requests, Record(p)
  PROVE  Counted'
<1>1. PICK f : Ledger(f)
  BY DEF Counted
<1>2. PICK hit \in Nat :
        /\ LengthOf(p) \in Nat \ {0} /\ hit <= LengthOf(p)
        /\ stats' = [requested |-> stats.requested + LengthOf(p),
                     hit |-> stats.hit + hit, served |-> stats.served]
  BY RecordCounts
<1>3. stats.requested \in Nat /\ stats.hit \in Nat /\ stats.served \in Nat
  BY DEF Settled
<1>4. stats.hit <= stats.requested /\ stats.served <= stats.requested
  BY DEF Counted, StatsConsistent
<1>5. /\ stats'.requested = stats.requested + LengthOf(p)
      /\ stats'.hit = stats.hit + hit /\ stats'.served = stats.served
  BY <1>2
<1>6. range' = range /\ \A q \in Requests \ {p} : pc'[q] = pc[q]
  BY DEF Record, Typed
<1>7. /\ \A q \in Requests : LengthOf(q)' = LengthOf(q) /\ LengthOf(q) \in Int
      /\ \A q \in Requests \ {p} : Owed(q)' => Owed(q) /\ LengthOf(q) \in Nat
  BY <1>6, OwedLength DEF LengthOf, Owed
<1>8. PICK g : /\ g \in [Requests -> Nat] /\ g[p] = stats.requested
               /\ \A q \in Requests \ {p} : g[q] = f[q]
  <2> DEFINE h == [f EXCEPT ![p] = stats.requested]
  <2>1. /\ h \in [Requests -> Nat] /\ h[p] = stats.requested
        /\ \A q \in Requests \ {p} : h[q] = f[q]
    BY <1>1, <1>3 DEF Ledger
  <2> QED BY <2>1
<1>9. \A q \in Requests \ {p} : f[q] \in Nat
  BY <1>1 DEF Ledger
<1>10. ASSUME NEW q \in Requests, Owed(q)'
       PROVE  stats'.served <= g[q] /\ g[q] + LengthOf(q) <= stats'.requested
  <2>1. CASE q = p
    BY <2>1, <1>2, <1>3, <1>4, <1>5, <1>8
  <2>2. CASE q # p
    <3>1. Owed(q) /\ LengthOf(q) \in Nat /\ g[q] = f[q] /\ f[q] \in Nat
      BY <2>2, <1>7, <1>8, <1>9, <1>10
    <3>2. stats.served <= f[q] /\ f[q] + LengthOf(q) <= stats.requested
      BY <3>1, <1>1 DEF Ledger
    <3> QED BY <3>1, <3>2, <1>2, <1>3, <1>5
  <2> QED BY <2>1, <2>2
<1>11. ASSUME NEW q \in Requests, NEW r \in Requests, q # r, Owed(q)', Owed(r)'
       PROVE  g[q] + LengthOf(q) <= g[r] \/ g[r] + LengthOf(r) <= g[q]
  <2>1. \A s \in Requests \ {p} : Owed(s)' => f[s] + LengthOf(s) <= stats.requested
    BY <1>1, <1>7 DEF Ledger
  <2>2. CASE q = p
    BY <1>8, <1>11, <2>1, <2>2
  <2>3. CASE r = p
    BY <1>8, <1>11, <2>1, <2>3
  <2>4. CASE q # p /\ r # p
    BY <1>1, <1>7, <1>8, <1>11, <2>4 DEF Ledger
  <2> QED BY <2>2, <2>3, <2>4
<1>12. Ledger(g)'
  BY <1>7, <1>8, <1>10, <1>11 DEF Ledger
<1>13. StatsConsistent'
  BY <1>2, <1>3, <1>4, <1>5 DEF StatsConsistent
<1> QED BY <1>12, <1>13 DEF Counted

\* Update takes its request out, and moves up those in front of it.
LEMMA LedgerUpdate ==
  ASSUME Typed, Settled, Bodies, Counted, NEW p \in Requests, Update(p)
  PROVE  Counted'
<1>1. PICK f : Ledger(f)
  BY DEF Counted
<1>2. /\ LengthOf(p) \in Nat \ {0}
      /\ stats' = [requested |-> stats.requested, hit |-> stats.hit,
                   served |-> stats.served + LengthOf(p)]
  BY UpdateCounts
<1>3. stats.requested \in Nat /\ stats.hit \in Nat /\ stats.served \in Nat
  BY DEF Settled
<1>4. stats.hit <= stats.requested
  BY DEF Counted, StatsConsistent
<1>5. /\ stats'.requested = stats.requested
      /\ stats'.hit = stats.hit /\ stats'.served = stats.served + LengthOf(p)
  BY <1>2
<1>6. /\ range' = range /\ Owed(p) /\ ~ Owed(p)'
      /\ \A q \in Requests \ {p} : pc'[q] = pc[q]
  BY DEF Update, Typed, Owed
<1>7. /\ \A q \in Requests : LengthOf(q)' = LengthOf(q) /\ LengthOf(q) \in Int
      /\ \A q \in Requests : Owed(q)' => q # p /\ Owed(q) /\ LengthOf(q) \in Nat \ {0}
  BY <1>6, OwedLength DEF LengthOf, Owed
<1>8. \A q \in Requests : f[q] \in Nat
  BY <1>1 DEF Ledger
<1>9. stats.served <= f[p] /\ f[p] + LengthOf(p) <= stats.requested
  BY <1>1, <1>6 DEF Ledger
<1>10. ASSUME NEW q \in Requests, Owed(q)'
       PROVE  /\ stats.served <= f[q] /\ f[q] + LengthOf(q) <= stats.requested
              /\ IF f[q] < f[p] THEN f[q] + LengthOf(q) <= f[p]
                 ELSE f[p] + LengthOf(p) <= f[q]
  <2>1. q # p /\ Owed(q) /\ LengthOf(q) \in Nat \ {0}
    BY <1>7, <1>10
  <2>2. stats.served <= f[q] /\ f[q] + LengthOf(q) <= stats.requested
    BY <1>1, <2>1 DEF Ledger
  <2>3. f[q] + LengthOf(q) <= f[p] \/ f[p] + LengthOf(p) <= f[q]
    BY <1>1, <1>6, <2>1 DEF Ledger
  <2> QED BY <2>1, <2>2, <2>3, <1>2, <1>8
<1>11. PICK g : /\ g \in [Requests -> Nat]
                /\ \A q \in Requests :
                     g[q] = IF f[q] < f[p] THEN f[q] + LengthOf(p) ELSE f[q]
  <2> DEFINE h == [q \in Requests |-> IF f[q] < f[p] THEN f[q] + LengthOf(p) ELSE f[q]]
  <2>1. \A q \in Requests :
          h[q] \in Nat /\ h[q] = IF f[q] < f[p] THEN f[q] + LengthOf(p) ELSE f[q]
    BY <1>2, <1>8
  <2>2. h \in [Requests -> Nat]
    BY <2>1
  <2> HIDE DEF h
  <2> QED BY <2>1, <2>2
<1>12. ASSUME NEW q \in Requests, Owed(q)'
       PROVE  stats'.served <= g[q] /\ g[q] + LengthOf(q) <= stats'.requested
  BY <1>2, <1>3, <1>5, <1>7, <1>8, <1>9, <1>10, <1>11, <1>12
<1>13. ASSUME NEW q \in Requests, NEW r \in Requests, q # r, Owed(q)', Owed(r)'
       PROVE  g[q] + LengthOf(q) <= g[r] \/ g[r] + LengthOf(r) <= g[q]
  <2>1. f[q] + LengthOf(q) <= f[r] \/ f[r] + LengthOf(r) <= f[q]
    BY <1>1, <1>7, <1>13 DEF Ledger
  <2>2. LengthOf(q) \in Nat \ {0} /\ LengthOf(r) \in Nat \ {0}
    BY <1>7, <1>13
  <2> QED BY <1>2, <1>8, <1>10, <1>11, <1>13, <2>1, <2>2
<1>14. Ledger(g)'
  BY <1>7, <1>11, <1>12, <1>13 DEF Ledger
<1>15. StatsConsistent'
  BY <1>2, <1>3, <1>4, <1>5, <1>8, <1>9 DEF StatsConsistent
<1> QED BY <1>14, <1>15 DEF Counted

LEMMA CountedStep == Typed /\ Bodies /\ Settled /\ Counted /\ [Next]_vars => Counted'
<1> SUFFICES ASSUME Typed, Bodies, Settled, Counted, [Next]_vars PROVE Counted'
  OBVIOUS
<1>1. ASSUME NEW p \in Requests, Record(p) PROVE Counted'
  BY <1>1, LedgerRecord
<1>2. ASSUME NEW p \in Requests, Update(p) PROVE Counted'
  BY <1>2, LedgerUpdate
<1> USE DEF Owed
<1>3. ASSUME NEW p \in Requests, NEW r, Accept(p, r) PROVE Counted'
  <2>1. stats' = stats /\ pc'[p] \in {"refused", "abort", "record"}
        /\ \A q \in Requests \ {p} : pc'[q] = pc[q] /\ range'[q] = range[q]
    BY <1>3 DEF Accept, Typed
  <2> QED BY <2>1, LedgerKept
<1>4. ASSUME NEW p \in Requests,
             \/ Abort(p) \/ Reset(p) \/ Urgent(p) \/ Wait(p) \/ GiveUp(p) \/ Recheck(p)
             \/ Send(p) \/ HangUp(p)
             \/ \E end \in 0 .. TotalChunks(content_length) : PrefetchAhead(p, end)
      PROVE  Counted'
  <2>1. stats' = stats /\ range' = range /\ \A q \in Requests \ {p} : pc'[q] = pc[q]
    BY <1>4
       DEF Abort, Reset, Urgent, Wait, GiveUp, Recheck, Send, HangUp, PrefetchAhead, session,
           Typed
  <2>2. Owed(p)' => Owed(p)
    BY <1>4
       DEF Abort, Reset, Urgent, Wait, GiveUp, Recheck, Send, HangUp, PrefetchAhead, Typed
  <2> QED BY <2>1, <2>2, LedgerKept
<1>5. ASSUME NEW c \in Chunks, DownloadOk(c) \/ DownloadFails(c) PROVE Counted'
  <2>1. /\ stats' = stats /\ range' = range
        /\ \A q \in Requests : pc'[q] = pc[q] \/ pc[q] = "wait"
    BY <1>5 DEF DownloadOk, DownloadFails, Woken, session
  <2> QED BY <2>1, LedgerKept
<1>6. CASE Elapse \/ Warm \/ Shutdown \/ UNCHANGED vars
  <2>1. stats' = stats /\ range' = range /\ pc' = pc
    BY <1>6 DEF Elapse, Warm, Shutdown, vars, session
  <2> QED BY <2>1, LedgerKept
<1> QED BY <1>1, <1>2, <1>3, <1>4, <1>5, <1>6 DEF Next, Request, Done

\* However requests overlap, and whichever of them break off, what is counted as hit or
\* as served never exceeds what was counted as requested (record_request,
\* record_served): a served request was recorded in full before, and once.
THEOREM CountersConsistent == Spec => []StatsConsistent
<1>1. Init => Counted
  <2> SUFFICES ASSUME Init PROVE Counted
    OBVIOUS
  <2> DEFINE f == [p \in Requests |-> 0]
  <2>1. Ledger(f)
    BY DEF Init, Ledger, Owed
  <2>2. StatsConsistent
    BY DEF Init, StatsConsistent
  <2> QED BY <2>1, <2>2 DEF Counted
<1>2. Counted => StatsConsistent
  BY DEF Counted
<1> QED BY <1>1, <1>2, AlwaysSettled, CountedStep, PTL DEF Spec

-----------------------------------------------------------------------------
(* What is buffered ahead.                                                 *)

LEMMA LeastNat ==
  ASSUME NEW B \in SUBSET Nat, B # {}
  PROVE  \E n \in B : \A m \in B : n <= m
<1> DEFINE R == {ss \in Nat \X Nat : ss[1] < ss[2]}
<1>1. IsWellFoundedOn(R, Nat)
  BY NatLessThanWellFounded DEF OpToRel
<1>2. \A m, n \in Nat : m < n => <<m, n>> \in R
  OBVIOUS
<1> HIDE DEF R
<1>3. PICK n \in B : \A m \in B : ~ (<<m, n>> \in R)
  BY <1>1, WFMin
<1>4. \A m \in B : m \in Nat /\ n \in Nat /\ ~ m < n
  BY <1>2, <1>3
<1>5. \A m \in B : n <= m
  BY <1>4
<1> QED BY <1>5

\* The chunks of a file are those that begin inside it.
LEMMA ChunkBegins ==
  ASSUME NEW len \in Nat, NEW i \in Nat
  PROVE  /\ TotalChunks(len) \in Nat
         /\ i < TotalChunks(len) <=> i * ChunkSize < len
<1> DEFINE T == TotalChunks(len)
<1>1. T \in Nat /\ T * ChunkSize <= len + ChunkSize - 1
  <2>1. len + ChunkSize - 1 \in Nat /\ T = ChunkOf(len + ChunkSize - 1)
    BY SizesAssumption DEF TotalChunks, ChunkOf
  <2> QED BY <2>1, ByteInChunk
<1>2. ASSUME i < T PROVE i * ChunkSize < len
  <2> HIDE DEF T
  <2>1. (i + 1) * ChunkSize <= T * ChunkSize
    BY <1>1, <1>2, ChunksOrdered
  <2>2. (i + 1) * ChunkSize = i * ChunkSize + ChunkSize /\ i * ChunkSize \in Nat
        /\ T * ChunkSize \in Nat
    BY <1>1, SizesAssumption
  <2> QED BY <1>1, <2>1, <2>2, SizesAssumption
<1>3. i * ChunkSize < len => i < T
  BY ChunkEnd
<1> QED BY <1>1, <1>2, <1>3

\* Where chunk i - 1 ends.
EdgeOf(i, len) == IF i * ChunkSize <= len THEN i * ChunkSize ELSE len

\* The chunks of an interval add up to the bytes between its edges.
LEMMA ChunksAddUp ==
  ASSUME NEW len \in Nat, NEW a \in Nat, NEW n \in Nat, n < TotalChunks(len), a <= n
  PROVE  Total([i \in Nat |-> ChunkLen(i, len)], a + 1 .. n)
           = EdgeOf(n + 1, len) - EdgeOf(a + 1, len)
<1> DEFINE w == [i \in Nat |-> ChunkLen(i, len)]
           Off(m) == /\ a <= m /\ m < TotalChunks(len)
                     /\ Total(w, a + 1 .. m) # EdgeOf(m + 1, len) - EdgeOf(a + 1, len)
           B == {m \in Nat : Off(m)}
<1> SUFFICES ASSUME B # {} PROVE FALSE
  OBVIOUS
<1>1. PICK m \in B : \A k \in B : m <= k
  <2>1. B \in SUBSET Nat
    OBVIOUS
  <2> HIDE DEF B
  <2> QED BY <2>1, LeastNat
<1>2. m \in Nat /\ Off(m) /\ \A k \in Nat : Off(k) => m <= k
  BY <1>1
<1>3. \A i \in Nat : EdgeOf(i, len) \in Nat
  <2>1. \A i \in Nat : i * ChunkSize \in Nat
    BY SizesAssumption
  <2> QED BY <2>1 DEF EdgeOf
<1> HIDE DEF B
<1>4. CASE m = a
  <2>1. a + 1 .. m = {}
    BY <1>4
  <2>2. Total(w, {}) = 0
    <3> HIDE DEF w
    <3> QED BY FS_EmptySet, TotalIs
  <2>3. EdgeOf(m + 1, len) - EdgeOf(a + 1, len) = 0
    <3>1. EdgeOf(a + 1, len) \in Nat
      BY <1>3
    <3> QED BY <1>4, <3>1
  <2> QED BY <1>2, <2>1, <2>2, <2>3
<1>5. CASE m # a
  <2>1. m - 1 \in Nat /\ a <= m - 1 /\ m - 1 < TotalChunks(len) /\ a + 1 <= m
    BY <1>2, <1>5, ChunkBegins
  <2>2. Total(w, a + 1 .. m - 1) = EdgeOf(m - 1 + 1, len) - EdgeOf(a + 1, len)
    <3>1. ~ Off(m - 1)
      <4> HIDE DEF Off
      <4> QED BY <1>2, <2>1
    <3> QED BY <2>1, <3>1
  <2>3. \A y \in a + 1 .. m : w[y] \in Nat
    <3>1. \A y \in Nat : ChunkLen(y, len) \in Nat
      BY SizesAssumption DEF ChunkLen
    <3>2. a + 1 .. m \subseteq Nat
      BY <1>2
    <3> QED BY <3>1, <3>2
  <2>4. Total(w, a + 1 .. m) = Total(w, a + 1 .. m - 1) + w[m]
    <3> HIDE DEF w
    <3>1. a + 1 \in Int /\ m \in Int
      BY <1>2
    <3> QED BY <2>1, <2>3, <3>1, TotalExtends
  <2>5. w[m] = EdgeOf(m + 1, len) - EdgeOf(m, len)
    <3>1. m * ChunkSize < len
      BY <1>2, ChunkBegins
    <3>2. m * ChunkSize + ChunkLen(m, len) = EdgeOf(m + 1, len) /\ ChunkLen(m, len) \in Nat
      BY <1>2, <3>1, ChunkEnd DEF EdgeOf
    <3>3. EdgeOf(m, len) = m * ChunkSize /\ m * ChunkSize \in Nat
      BY <1>2, <3>1, SizesAssumption DEF EdgeOf
    <3>4. w[m] = ChunkLen(m, len)
      BY <1>2
    <3> QED BY <3>2, <3>3, <3>4
  <2>6. EdgeOf(m + 1, len) \in Nat /\ EdgeOf(a + 1, len) \in Nat /\ EdgeOf(m, len) \in Nat
    BY <1>2, <1>3
  <2>7. m - 1 + 1 = m
    BY <1>2
  <2> HIDE DEF w
  <2>8. Total(w, a + 1 .. m) = EdgeOf(m + 1, len) - EdgeOf(a + 1, len)
    BY <2>2, <2>4, <2>5, <2>6, <2>7
  <2> QED BY <1>2, <2>8
<1> QED BY <1>4, <1>5

\* From byte b on, what is buffered reaches to the first chunk that is missing.
LEMMA BufferedReaches ==
  ASSUME NEW len \in Nat \ {0}, NEW b \in 0 .. len - 1,
         NEW have, have \subseteq 0 .. TotalChunks(len) - 1, ChunkOf(b) \in have
  PROVE  \E k \in Nat : /\ ChunkOf(b) < k /\ ChunkOf(b) .. k - 1 \subseteq have
                        /\ k \notin have
                        /\ b + BufferedAhead(have, b, len) = EdgeOf(k, len)
<1> DEFINE first == ChunkOf(b)
           T == TotalChunks(len)
           w == [i \in Nat |-> ChunkLen(i, len)]
           run == {i \in first .. T - 1 : first .. i \subseteq have}
           B == {j \in Nat : first < j /\ j \notin have}
<1>1. first \in Nat /\ T \in Nat /\ first < T /\ first * ChunkSize <= b
  BY ByteInChunk, ChunkInFile, ChunkBegins
<1>2. PICK k \in B : \A j \in B : k <= j
  <2>1. B \in SUBSET Nat /\ T \in B
    BY <1>1
  <2> HIDE DEF B
  <2> QED BY <2>1, LeastNat
<1>3. k \in Nat /\ first < k /\ k \notin have /\ \A j \in Nat : first < j /\ j \notin have => k <= j
  BY <1>2
<1>4. first .. k - 1 \subseteq have
  BY <1>1, <1>3
<1>5. k <= T
  <2>1. T \notin have
    BY <1>1
  <2> HIDE DEF T, first
  <2> QED BY <1>1, <1>3, <2>1
<1>6. run = first .. k - 1
  <2>1. ASSUME NEW i \in run PROVE i \in first .. k - 1
    <3>1. i \in first .. T - 1 /\ first .. i \subseteq have
      OBVIOUS
    <3> HIDE DEF run, first, T
    <3> QED BY <1>1, <1>3, <3>1
  <2>2. ASSUME NEW i \in first .. k - 1 PROVE i \in run
    <3>1. first .. i \subseteq first .. k - 1
      BY <1>1, <1>3
    <3> QED BY <1>1, <1>3, <1>4, <1>5, <3>1
  <2> HIDE DEF run
  <2> QED BY <2>1, <2>2
<1>7. run \ {first} = first + 1 .. k - 1
  <2> HIDE DEF run, first
  <2> QED BY <1>1, <1>3, <1>6
<1>8. MapThenSumSet(LAMBDA i : ChunkLen(i, len), run \ {first})
        = EdgeOf(k, len) - EdgeOf(first + 1, len)
  <2>1. first + 1 .. k - 1 \subseteq Nat /\ IsFiniteSet(first + 1 .. k - 1)
    <3>1. first + 1 \in Int /\ k - 1 \in Int
      BY <1>1, <1>3
    <3>2. first + 1 .. k - 1 \subseteq Nat
      <4> HIDE DEF first
      <4> QED BY <1>1, <1>3
    <3>3. IsFiniteSet(first + 1 .. k - 1)
      <4> HIDE DEF first
      <4> QED BY <3>1, FS_Interval
    <3> QED BY <3>2, <3>3
  <2>2. MapThenSumSet(LAMBDA i : ChunkLen(i, len), first + 1 .. k - 1)
          = Total(w, first + 1 .. k - 1)
    <3> HIDE DEF first
    <3> QED BY <2>1, SumOfChunks
  <2>3. Total(w, first + 1 .. k - 1) = EdgeOf(k - 1 + 1, len) - EdgeOf(first + 1, len)
    <3>1. k - 1 \in Nat /\ k - 1 < T /\ first <= k - 1
      BY <1>1, <1>3, <1>5
    <3> HIDE DEF first
    <3> QED BY <1>1, <3>1, ChunksAddUp
  <2>4. k - 1 + 1 = k
    BY <1>3
  <2> QED BY <1>7, <2>2, <2>3, <2>4
<1>9. BufferedAhead(have, b, len)
        = Min({(first + 1) * ChunkSize, len}) - b + (EdgeOf(k, len) - EdgeOf(first + 1, len))
  BY <1>8 DEF BufferedAhead
<1>10. Min({(first + 1) * ChunkSize, len}) = EdgeOf(first + 1, len)
  <2>1. (first + 1) * ChunkSize \in Int
    BY <1>1, SizesAssumption
  <2> QED BY <2>1, MinOfTwo DEF EdgeOf
<1>11. EdgeOf(k, len) \in Nat /\ EdgeOf(first + 1, len) \in Nat
  <2>1. k * ChunkSize \in Nat /\ (first + 1) * ChunkSize \in Nat
    BY <1>1, <1>3, SizesAssumption
  <2> QED BY <2>1 DEF EdgeOf
<1>12. b + BufferedAhead(have, b, len) = EdgeOf(k, len)
  BY <1>9, <1>10, <1>11
<1> QED BY <1>3, <1>4, <1>12

\* Whatever is cached, the bytes said to be buffered ahead of the playback
\* position are exactly those the player can read on without a gap
\* (buffered_bytes_ahead): the byte after them is missing, or the file is over.
THEOREM BufferedIsExact == Spec => []BufferedExact
<1>1. Typed /\ Settled => BufferedExact
  <2> SUFFICES ASSUME Typed, Settled PROVE BufferedExact
    OBVIOUS
  <2> DEFINE b == playback_offset
             len == content_length
             end == b + BufferedAhead(cached, b, len)
             playable == {x \in 0 .. len - 1 : ChunkOf(x) \in cached}
  <2>1. len \in Nat \ {0} /\ b \in 0 .. len - 1 /\ cached \subseteq 0 .. TotalChunks(len) - 1
    BY FileHasBytes DEF Settled, Chunks
  <2>2. CASE ChunkOf(b) \notin cached
    <3>1. end = b + 0
      BY <2>2 DEF BufferedAhead
    <3>2. end = b /\ b .. end - 1 = {}
      <4> HIDE DEF end, b, len
      <4> QED BY <2>1, <3>1
    <3> QED BY <2>2, <3>2 DEF BufferedExact
  <2>3. CASE ChunkOf(b) \in cached
    <3>1. PICK k \in Nat : /\ ChunkOf(b) < k /\ ChunkOf(b) .. k - 1 \subseteq cached
                           /\ k \notin cached /\ end = EdgeOf(k, len)
      <4> HIDE DEF b, len
      <4> QED BY <2>1, <2>3, BufferedReaches
    <3>2. k * ChunkSize \in Nat
      BY SizesAssumption
    <3>3. end \in Nat /\ end <= len /\ end <= k * ChunkSize
          /\ (end = len \/ end = k * ChunkSize)
      <4> HIDE DEF end, len
      <4> QED BY <2>1, <3>1, <3>2 DEF EdgeOf
    <3>4. ASSUME NEW x \in b .. end - 1 PROVE x \in playable
      <4>1. x \in 0 .. len - 1 /\ x \in Nat /\ b \in Nat /\ b <= x /\ x < k * ChunkSize
        <5> HIDE DEF end, b, len
        <5> QED BY <2>1, <3>2, <3>3, <3>4
      <4>2. ChunkOf(b) \in Nat /\ ChunkOf(x) \in Nat /\ ChunkOf(b) <= ChunkOf(x)
            /\ ChunkOf(x) * ChunkSize <= x
        <5> HIDE DEF b
        <5> QED BY <4>1, ByteInChunk, ChunkOfMonotone
      <4>3. ChunkOf(x) < k
        <5>1. ASSUME k <= ChunkOf(x) PROVE FALSE
          <6>1. k * ChunkSize <= ChunkOf(x) * ChunkSize
            BY <4>2, <5>1, ChunksOrdered
          <6>2. ChunkOf(x) * ChunkSize \in Nat
            BY <4>2, SizesAssumption
          <6> QED BY <3>2, <4>1, <4>2, <6>1, <6>2
        <5> QED BY <4>2, <5>1
      <4> QED BY <3>1, <4>1, <4>2, <4>3
    <3>5. end \notin playable
      <4>1. CASE end = len
        BY <2>1, <4>1
      <4>2. CASE end = k * ChunkSize
        <5>1. k * ChunkSize < (k + 1) * ChunkSize
          BY <3>2, SizesAssumption
        <5>2. ChunkOf(k * ChunkSize) = k
          BY <3>2, <5>1, ChunkOfInside
        <5> QED BY <3>1, <4>2, <5>2
      <4> HIDE DEF end
      <4> QED BY <3>3, <4>1, <4>2
    <3> QED BY <3>4, <3>5 DEF BufferedExact
  <2> QED BY <2>2, <2>3
<1> QED BY <1>1, AlwaysSettled, PTL

-----------------------------------------------------------------------------
(* The warmup plan.                                                        *)

Atom == [type : {"moov", "other"}, form : {"short", "long", "to_end"}, size : Nat]

\* An atom begins where the one before it ends.
LEMMA OffsetNext ==
  ASSUME NEW f, f.atoms \in Seq(Atom), NEW i \in 1 .. Len(f.atoms)
  PROVE  /\ OffsetOf(f, i) \in Nat /\ f.atoms[i].size \in Nat
         /\ OffsetOf(f, i + 1) = OffsetOf(f, i) + f.atoms[i].size
<1> DEFINE w == [j \in Nat |-> f.atoms[j].size]
           n == Len(f.atoms)
<1>1. n \in Nat /\ i \in 1 .. n /\ i \in Nat
  OBVIOUS
<1>2. \A j \in 1 .. n : f.atoms[j].size \in Nat
  <2>1. \A j \in 1 .. n : f.atoms[j] \in Atom
    OBVIOUS
  <2>2. \A a \in Atom : a.size \in Nat
    BY DEF Atom
  <2> QED BY <2>1, <2>2
<1>3. \A j \in 1 .. n : w[j] \in Nat /\ w[j] = f.atoms[j].size
  BY <1>1, <1>2
<1>4. \A m \in Nat : OffsetOf(f, m + 1) = Total(w, 1 .. m)
  <2> SUFFICES ASSUME NEW m \in Nat PROVE OffsetOf(f, m + 1) = Total(w, 1 .. m)
    OBVIOUS
  <2>1. 1 .. m \subseteq Nat /\ IsFiniteSet(1 .. m)
    BY FS_Interval
  <2>2. MapThenSumSet(LAMBDA j : f.atoms[j].size, 1 .. m) = Total(w, 1 .. m)
    BY <2>1, SumOfAtoms
  <2>3. m + 1 - 1 = m
    OBVIOUS
  <2> QED BY <2>2, <2>3 DEF OffsetOf
<1> HIDE DEF w, n
<1>5. OffsetOf(f, i + 1) = Total(w, 1 .. i)
  BY <1>1, <1>4
<1>6. OffsetOf(f, i) = Total(w, 1 .. i - 1)
  <2>1. i - 1 \in Nat /\ i - 1 + 1 = i
    BY <1>1
  <2> QED BY <2>1, <1>4
<1>7. Total(w, 1 .. i) = Total(w, 1 .. i - 1) + w[i]
  <2>1. \A j \in 1 .. i : w[j] \in Nat
    BY <1>1, <1>3
  <2> QED BY <1>1, <2>1, TotalExtends
<1>8. Total(w, 1 .. i - 1) \in Nat
  <2>1. IsFiniteSet(1 .. i - 1)
    BY <1>1, FS_Interval
  <2>2. \A j \in 1 .. i - 1 : w[j] \in Nat
    BY <1>1, <1>3
  <2> QED BY <2>1, <2>2, TotalNat
<1> QED BY <1>1, <1>2, <1>3, <1>5, <1>6, <1>7, <1>8

LEMMA OffsetsGrow ==
  ASSUME NEW f, f.atoms \in Seq(Atom), NEW i \in 1 .. Len(f.atoms),
         NEW j \in i + 1 .. Len(f.atoms) + 1
  PROVE  OffsetOf(f, i) + f.atoms[i].size <= OffsetOf(f, j)
<1> DEFINE n == Len(f.atoms)
           e == OffsetOf(f, i) + f.atoms[i].size
           Off(k) == k \in i + 1 .. n + 1 /\ ~ e <= OffsetOf(f, k)
           B == {k \in Nat : Off(k)}
<1> SUFFICES ASSUME B # {} PROVE FALSE
  <2>1. n \in Nat
    OBVIOUS
  <2>2. j \in Nat
    BY <2>1
  <2> QED BY <2>2
<1>1. PICK k \in B : \A m \in B : k <= m
  <2>1. B \in SUBSET Nat
    OBVIOUS
  <2> HIDE DEF B
  <2> QED BY <2>1, LeastNat
<1>2. k \in Nat /\ Off(k) /\ \A m \in Nat : Off(m) => k <= m
  BY <1>1
<1>3. n \in Nat /\ i \in 1 .. n
  OBVIOUS
<1>4. e \in Nat
  BY OffsetNext, SMTT(30)
<1> HIDE DEF B, e
<1>5. k # i + 1
  <2>1. OffsetOf(f, i + 1) = e
    BY OffsetNext DEF e
  <2> QED BY <1>2, <1>4, <2>1
<1>6. k - 1 \in i + 1 .. n /\ k - 1 \in 1 .. n
  BY <1>2, <1>3, <1>5
<1>7. /\ OffsetOf(f, k - 1) \in Nat /\ f.atoms[k - 1].size \in Nat
      /\ OffsetOf(f, k) = OffsetOf(f, k - 1) + f.atoms[k - 1].size
  <2>1. k - 1 + 1 = k
    BY <1>2
  <2> QED BY <1>6, <2>1, OffsetNext
<1>8. e <= OffsetOf(f, k - 1)
  BY <1>2, <1>3, <1>6
<1> QED BY <1>2, <1>4, <1>7, <1>8

LEMMA ProbeOf ==
  ASSUME NEW f, f.len \in Nat \ {0}
  PROVE  Probe(f) \in Nat \ {0} /\ Probe(f) <= ChunkSize /\ Probe(f) <= f.len
<1> DEFINE S == {ChunkSize, ProbeMax, f.len}
<1>1. ChunkSize \in Nat \ {0} /\ ProbeMax \in Nat \ {0} /\ f.len \in Nat \ {0}
  BY SizesAssumption, WarmupAssumption
<1>2. \E x \in S : \A y \in S : x <= y
  <2> DEFINE a == IF ChunkSize <= ProbeMax THEN ChunkSize ELSE ProbeMax
             b == IF a <= f.len THEN a ELSE f.len
  <2>1. b \in S /\ \A y \in S : b <= y
    BY <1>1
  <2> QED BY <2>1
<1>3. Probe(f) \in S /\ \A y \in S : Probe(f) <= y
  BY <1>2 DEF Probe, Min
<1> QED BY <1>1, <1>3

\* The range planned for a moov that was found ends after at least one byte, and
\* inside the file.
LEMMA MoovRange ==
  ASSUME NEW len \in Nat \ {0}, NEW e \in Int
  PROVE  LET m == Min({Max({e, ChunkSize}), len}) IN
           /\ m \in 1 .. len
           /\ m = IF e <= ChunkSize THEN (IF ChunkSize <= len THEN ChunkSize ELSE len)
                  ELSE (IF e <= len THEN e ELSE len)
<1>1. ChunkSize \in Nat \ {0}
  BY SizesAssumption
<1> DEFINE x == Max({e, ChunkSize})
<1>2. x = IF e >= ChunkSize THEN e ELSE ChunkSize
  BY <1>1, MaxOfTwo
<1>3. x \in Nat /\ x >= 1
  <2> HIDE DEF x
  <2> QED BY <1>1, <1>2
<1>4. Min({x, len}) = IF x <= len THEN x ELSE len
  <2> HIDE DEF x
  <2> QED BY <1>3, MinOfTwo
<1> HIDE DEF x
<1>5. /\ Min({x, len}) \in 1 .. len
      /\ Min({x, len}) = IF e <= ChunkSize THEN (IF ChunkSize <= len THEN ChunkSize ELSE len)
                         ELSE (IF e <= len THEN e ELSE len)
  BY <1>1, <1>2, <1>3, <1>4
<1> QED BY <1>5 DEF x

\* Every range planned is a piece of the file that is not empty.
LEMMA PlanIsInside ==
  ASSUME NEW f, f.len \in Nat \ {0}, f.atoms \in Seq(Atom)
  PROVE  /\ PlanInside(f)
         /\ \A r \in WarmupRanges(f) : r[1] \in 0 .. f.len - 1 /\ r[2] \in r[1] .. f.len - 1
<1> DEFINE Good(r) == r[1] \in 0 .. f.len - 1 /\ r[2] \in r[1] .. f.len - 1
<1>1. \A r \in HeadOnly(f) : Good(r)
  <2>1. Min({ChunkSize, f.len}) = IF ChunkSize <= f.len THEN ChunkSize ELSE f.len
    BY MinOfTwo, SizesAssumption
  <2> QED BY <2>1, SizesAssumption DEF HeadOnly
<1>2. \A r \in HeadTailRanges(f) : Good(r)
  <2> DEFINE t == TailChunks * ChunkSize
  <2>1. t \in Nat \ {0}
    BY SizesAssumption, WarmupAssumption
  <2> HIDE DEF t
  <2>2. \A r : r \in HeadTailRanges(f) =>
                 r \in HeadOnly(f) \/ (f.len > t /\ r = <<f.len - t, f.len - 1>>)
    BY DEF HeadTailRanges, t
  <2> QED BY <1>1, <2>1, <2>2
<1>3. ASSUME NEW i \in Moov(f)
      PROVE  Good(<<0, Min({Max({OffsetOf(f, i) + SizeOf(f, i), ChunkSize}), f.len}) - 1>>)
  <2>1. i \in 1 .. Len(f.atoms)
    BY DEF Moov
  <2>2. OffsetOf(f, i) + SizeOf(f, i) \in Int
    BY <2>1, OffsetNext, ProbeOf DEF SizeOf
  <2> DEFINE m == Min({Max({OffsetOf(f, i) + SizeOf(f, i), ChunkSize}), f.len})
  <2>3. m \in 1 .. f.len
    BY <2>2, MoovRange
  <2> HIDE DEF m
  <2>4. Good(<<0, m - 1>>)
    BY <2>3
  <2> QED BY <2>4 DEF m
<1>4. \A r \in WarmupRanges(f) : Good(r)
  BY <1>1, <1>2, <1>3 DEF WarmupRanges
<1> QED BY <1>4 DEF PlanInside

\* Whatever sizes the atoms of a file claim, no range is planned that begins or
\* ends beyond the file (compute_warmup_ranges).
THEOREM WarmupInside == Spec => []RangesInside
<1>1. Typed => RangesInside
  BY PlanIsInside, FilesAssumption DEF Typed, RangesInside, Atom
<1> QED BY <1>1, AlwaysTyped, PTL

\* The chunks of a planned range are prefetched.
LEMMA RangePrefetched ==
  ASSUME NEW f, f.len \in Nat \ {0}, f.atoms \in Seq(Atom), NEW r \in WarmupRanges(f)
  PROVE  ChunksOf(r[1], r[2] + 1) \subseteq WarmupChunks(f)
<1>1. r[1] \in 0 .. f.len - 1 /\ r[2] \in r[1] .. f.len - 1
  BY PlanIsInside
<1>2. f.len \in Nat /\ r[2] \in 0 .. f.len - 1 /\ r[2] + 1 - 1 = r[2]
  BY <1>1
<1>3. ChunkOf(r[2]) \in 0 .. TotalChunks(f.len) - 1 /\ TotalChunks(f.len) \in Nat
  <2>1. 0 \in Nat
    OBVIOUS
  <2> QED BY <1>2, <2>1, ChunkBegins, ChunkInFile
<1>4. Min({ChunkOf(r[2]) + 1, TotalChunks(f.len)}) = ChunkOf(r[2]) + 1
  BY <1>3, MinOfTwo
<1>5. Min({ChunkOf(r[2]) + 1, TotalChunks(f.len)}) - 1 = ChunkOf(r[2])
  BY <1>3, <1>4
<1>6. ChunksOf(r[1], r[2] + 1) = ChunkOf(r[1]) .. ChunkOf(r[2])
  BY <1>2 DEF ChunksOf
<1> QED BY <1>5, <1>6 DEF WarmupChunks

\* The first moov of a file whose claims are true.
Index(f, i) ==
    /\ f.len \in Nat \ {0} /\ f.atoms \in Seq(Atom) /\ WellFormed(f)
    /\ i \in 1 .. Len(f.atoms) /\ f.atoms[i].type = "moov"
    /\ \A j \in 1 .. i - 1 : f.atoms[j].type # "moov"

\* It lies inside the file.
LEMMA IndexInFile ==
  ASSUME NEW f, NEW i, Index(f, i)
  PROVE  /\ i \in Nat /\ OffsetOf(f, i) \in Nat /\ f.atoms[i].size \in Nat \ {0}
         /\ OffsetOf(f, i) + f.atoms[i].size <= f.len
         /\ \A j \in 1 .. i - 1 : /\ OffsetOf(f, j) \in Nat
                                  /\ OffsetOf(f, j) + f.atoms[j].size <= OffsetOf(f, i)
                                  /\ HeaderLen(f, j) \in {1, 2}
                                  /\ f.atoms[j].size \in Nat
                                  /\ f.atoms[j].size >= HeaderLen(f, j)
<1> DEFINE n == Len(f.atoms)
<1>1. n \in Nat /\ DOMAIN f.atoms = 1 .. n /\ i \in 1 .. n /\ f.atoms \in Seq(Atom)
  BY DEF Index
<1>2. \A j : HeaderLen(f, j) \in {1, 2}
  BY DEF HeaderLen
<1>3. \A j \in 1 .. n : f.atoms[j].size >= HeaderLen(f, j)
  BY <1>1 DEF Index, WellFormed
<1>4. OffsetOf(f, n + 1) = f.len
  BY DEF Index, WellFormed
<1>5. \A j \in 1 .. n : OffsetOf(f, j) \in Nat /\ f.atoms[j].size \in Nat
  BY <1>1, OffsetNext
<1> HIDE DEF n
<1>6. OffsetOf(f, i) + f.atoms[i].size <= f.len
  <2>1. n + 1 \in i + 1 .. n + 1
    BY <1>1
  <2> QED BY <1>1, <1>4, <2>1, OffsetsGrow DEF n
<1>7. \A j \in 1 .. i - 1 : OffsetOf(f, j) + f.atoms[j].size <= OffsetOf(f, i)
  <2> SUFFICES ASSUME NEW j \in 1 .. i - 1
               PROVE  OffsetOf(f, j) + f.atoms[j].size <= OffsetOf(f, i)
    OBVIOUS
  <2>1. j \in 1 .. n /\ i \in j + 1 .. n + 1
    BY <1>1
  <2> QED BY <1>1, <2>1, OffsetsGrow DEF n
<1>8. \A j \in 1 .. i - 1 : j \in 1 .. n
  BY <1>1
<1> QED BY <1>1, <1>2, <1>3, <1>5, <1>6, <1>7, <1>8, SMTT(30)

\* When the probe shows its header, it is the atom that is found.
LEMMA IndexFound ==
  ASSUME NEW f, NEW i, Index(f, i)
  PROVE  /\ Readable(f, i) => i \in Moov(f)
         /\ \A k \in Moov(f) : k = i /\ Readable(f, i)
<1>1. DOMAIN f.atoms = 1 .. Len(f.atoms) /\ i \in 1 .. Len(f.atoms) /\ Len(f.atoms) \in Nat
  BY DEF Index
<1>2. Probe(f) \in Nat /\ OffsetOf(f, i) \in Nat /\ HeaderLen(f, i) \in {1, 2}
  BY ProbeOf, IndexInFile DEF Index, HeaderLen
<1>3. ASSUME Readable(f, i), NEW j \in 1 .. i - 1 PROVE Passed(f, j)
  <2>1. /\ OffsetOf(f, j) \in Nat /\ f.atoms[j].size \in Nat /\ HeaderLen(f, j) \in {1, 2}
        /\ OffsetOf(f, j) + f.atoms[j].size <= OffsetOf(f, i)
        /\ f.atoms[j].size >= HeaderLen(f, j)
    BY IndexInFile
  <2>2. OffsetOf(f, j) + HeaderLen(f, j) <= Probe(f)
    BY <1>2, <1>3, <2>1 DEF Readable
  <2>3. SizeOf(f, j) # 0
    BY <1>2, <2>1, <2>2 DEF SizeOf
  <2>4. f.atoms[j].type # "moov"
    BY DEF Index
  <2> QED BY <2>2, <2>3, <2>4 DEF Passed, Readable
<1>4. Readable(f, i) => i \in Moov(f)
  BY <1>1, <1>3 DEF Moov, Index
<1>5. ASSUME NEW k \in Moov(f) PROVE k = i /\ Readable(f, i)
  <2>1. k \in 1 .. Len(f.atoms) /\ f.atoms[k].type = "moov" /\ Readable(f, k)
        /\ \A j \in 1 .. k - 1 : f.atoms[j].type # "moov"
    BY <1>1 DEF Moov, Passed
  <2>2. ~ k < i
    <3>1. k < i => k \in 1 .. i - 1
      BY <1>1, <2>1
    <3> QED BY <2>1, <3>1 DEF Index
  <2>3. ~ i < k
    <3>1. i < k => i \in 1 .. k - 1
      BY <1>1, <2>1
    <3> QED BY <2>1, <3>1 DEF Index
  <2> QED BY <1>1, <2>1, <2>2, <2>3
<1> QED BY <1>4, <1>5

\* A piece of the file that ends before the end of a planned range lies in chunks
\* prefetched, if it begins in it.
LEMMA PiecePrefetched ==
  ASSUME NEW f, f.len \in Nat \ {0}, f.atoms \in Seq(Atom), NEW r \in WarmupRanges(f),
         NEW a \in Nat, NEW e \in Nat, r[1] <= a, a < e, e - 1 <= r[2]
  PROVE  ChunksOf(a, e) \subseteq WarmupChunks(f)
<1>1. r[1] \in 0 .. f.len - 1 /\ r[2] \in r[1] .. f.len - 1
  BY PlanIsInside
<1>2. r[1] \in Nat /\ r[2] \in Nat /\ e - 1 \in Nat /\ r[2] + 1 - 1 = r[2]
  BY <1>1
<1>3. ChunkOf(r[1]) <= ChunkOf(a) /\ ChunkOf(e - 1) <= ChunkOf(r[2])
      /\ ChunkOf(r[1]) \in Nat /\ ChunkOf(a) \in Nat /\ ChunkOf(e - 1) \in Nat
      /\ ChunkOf(r[2]) \in Nat
  BY <1>2, ChunkOfMonotone, ByteInChunk
<1>4. ChunksOf(a, e) \subseteq ChunksOf(r[1], r[2] + 1)
  BY <1>2, <1>3, SMTT(30) DEF ChunksOf
<1> QED BY <1>4, RangePrefetched

\* What begins in the last chunks of the file is prefetched by the constructor; so
\* is all of a file that has no more than these.
LEMMA TailPrefetched ==
  ASSUME NEW len \in Nat \ {0}, NEW a \in Nat, NEW e \in Nat, a < e, e <= len,
         TotalChunks(len) - TailChunks <= ChunkOf(a)
  PROVE  ChunksOf(a, e) \subseteq HeadAndTail(len)
<1> DEFINE T == TotalChunks(len)
           t == T - TailChunks
<1>1. a \in Nat /\ e - 1 \in 0 .. len - 1
  OBVIOUS
<1>2. ChunkOf(a) \in Nat /\ ChunkOf(e - 1) \in 0 .. T - 1 /\ T \in Nat /\ TailChunks \in Nat
  <2>1. 0 \in Nat
    OBVIOUS
  <2> QED BY <1>1, <2>1, ByteInChunk, ChunkInFile, ChunkBegins, WarmupAssumption
<1> HIDE DEF T
<1>3. Max({t, 0}) = IF t >= 0 THEN t ELSE 0
  BY <1>2, MaxOfTwo
<1>4. Max({t, 0}) \in Nat /\ Max({t, 0}) <= ChunkOf(a)
  BY <1>2, <1>3 DEF T
<1> HIDE DEF t
<1>5. ChunksOf(a, e) \subseteq Max({t, 0}) .. T - 1
  BY <1>2, <1>4 DEF ChunksOf
<1> QED BY <1>5 DEF HeadAndTail, T, t

\* The plan has the index of a file.
LEMMA IndexInPlan ==
  ASSUME NEW f, NEW i, Index(f, i),
         \/ Readable(f, i) /\ f.atoms[i].form # "to_end"
         \/ OffsetOf(f, i) >= f.len - TailChunks * ChunkSize
  PROVE  AtomChunks(f, i) \subseteq HeadAndTail(f.len) \cup WarmupChunks(f)
<1> DEFINE a == OffsetOf(f, i)
           e == a + f.atoms[i].size
           tail == TailChunks * ChunkSize
           m == Min({Max({a + SizeOf(f, i), ChunkSize}), f.len})
<1>1. /\ a \in Nat /\ e \in Nat /\ a < e /\ e <= f.len /\ f.len \in Nat \ {0}
      /\ f.atoms[i].size \in Nat /\ f.atoms \in Seq(Atom) /\ f.format = "mp4"
  BY IndexInFile, SMTT(30) DEF Index, WellFormed
<1>2. AtomChunks(f, i) = ChunksOf(a, e)
  BY DEF AtomChunks
<1>3. tail \in Nat /\ ChunkSize \in Nat \ {0} /\ TailChunks \in Nat \ {0}
  BY SizesAssumption, WarmupAssumption
<1>4. TotalChunks(f.len) \in Nat /\ ChunkOf(a) \in Nat
  <2>1. 0 \in Nat
    OBVIOUS
  <2> QED BY <1>1, <2>1, ChunkBegins, ByteInChunk
<1>5. ASSUME Readable(f, i) PROVE <<0, m - 1>> \in WarmupRanges(f)
  BY <1>1, <1>5, IndexFound DEF WarmupRanges
<1>6. SizeOf(f, i) \in Int /\ Probe(f) \in Nat \ {0} /\ Probe(f) <= ChunkSize
      /\ a + SizeOf(f, i) = IF f.atoms[i].form = "to_end" THEN Probe(f) ELSE e
  BY <1>1, ProbeOf DEF SizeOf
<1>7. m \in 1 .. f.len /\ (a + SizeOf(f, i) > f.len => m = f.len)
      /\ (f.atoms[i].form # "to_end" => m >= e)
  <2>1. a + SizeOf(f, i) \in Int
    BY <1>1, <1>6
  <2>2. /\ m \in 1 .. f.len
        /\ m = IF a + SizeOf(f, i) <= ChunkSize
               THEN (IF ChunkSize <= f.len THEN ChunkSize ELSE f.len)
               ELSE (IF a + SizeOf(f, i) <= f.len THEN a + SizeOf(f, i) ELSE f.len)
    BY <1>1, <2>1, MoovRange
  <2> HIDE DEF m, a, e
  <2> QED BY <1>1, <1>3, <1>6, <2>1, <2>2, SMTT(30)
<1>8. CASE Readable(f, i) /\ f.atoms[i].form # "to_end"
  <2> HIDE DEF a, e, m
  <2>1. <<0, m - 1>>[1] <= a /\ e - 1 <= <<0, m - 1>>[2]
    BY <1>1, <1>7, <1>8
  <2>2. ChunksOf(a, e) \subseteq WarmupChunks(f)
    BY <1>1, <1>5, <1>8, <2>1, PiecePrefetched
  <2> QED BY <1>2, <2>2
<1>9. CASE /\ ~ (Readable(f, i) /\ f.atoms[i].form # "to_end")
           /\ a >= f.len - tail
  <2> HIDE DEF a, e, m
  <2>1. CASE Readable(f, i)
    <3>1. a < ChunkSize
      <4>1. a + HeaderLen(f, i) <= Probe(f) /\ HeaderLen(f, i) \in {1, 2}
        BY <2>1 DEF Readable, HeaderLen, a
      <4> QED BY <1>1, <1>3, <1>6, <4>1
    <3>2. TotalChunks(f.len) <= TailChunks + 1
      <4>1. f.len <= (TailChunks + 1) * ChunkSize
        <5>1. (TailChunks + 1) * ChunkSize = tail + ChunkSize
          BY <1>3
        <5> HIDE DEF tail
        <5> QED BY <1>1, <1>3, <1>9, <3>1, <5>1
      <4>2. TailChunks + 1 \in Nat /\ (TailChunks + 1) * ChunkSize \in Nat
        BY <1>3
      <4>3. ~ (TailChunks + 1) * ChunkSize < f.len
        BY <1>1, <4>1, <4>2
      <4>4. ~ TailChunks + 1 < TotalChunks(f.len)
        BY <1>1, <4>2, <4>3, ChunkBegins
      <4> QED BY <1>3, <1>4, <4>4
    <3>3. HeadAndTail(f.len) = 0 .. TotalChunks(f.len) - 1
      <4> DEFINE T == TotalChunks(f.len)
                 t == T - TailChunks
      <4>1. t \in Int /\ t <= 1 /\ Max({t, 0}) = IF t >= 0 THEN t ELSE 0
        BY <1>3, <1>4, <3>2, MaxOfTwo
      <4>2. 0 \in 0 .. T - 1
        <5>1. 0 * ChunkSize < f.len /\ 0 \in Nat
          BY <1>1, <1>3
        <5>2. 0 < T
          BY <1>1, <5>1, ChunkBegins
        <5> QED BY <1>4, <5>2
      <4> HIDE DEF T, t
      <4>3. {0} \cup Max({t, 0}) .. T - 1 = 0 .. T - 1
        BY <4>1, <4>2
      <4> QED BY <4>3 DEF HeadAndTail, T, t
    <3>4. ChunksOf(a, e) \subseteq 0 .. TotalChunks(f.len) - 1
      <4>1. e - 1 \in 0 .. f.len - 1
        BY <1>1
      <4>2. ChunkOf(e - 1) \in 0 .. TotalChunks(f.len) - 1
        BY <1>1, <4>1, ChunkInFile
      <4> QED BY <1>4, <4>2 DEF ChunksOf
    <3> QED BY <1>2, <3>3, <3>4
  <2>2. CASE ~ Readable(f, i) /\ f.len > tail
    <3> DEFINE r == <<f.len - tail, f.len - 1>>
    <3>1. r \in WarmupRanges(f)
      <4>1. Moov(f) = {}
        BY <2>2, IndexFound
      <4>2. r \in HeadTailRanges(f)
        BY <2>2 DEF HeadTailRanges
      <4> QED BY <1>1, <4>1, <4>2 DEF WarmupRanges
    <3>2. r[1] <= a /\ e - 1 <= r[2]
      BY <1>1, <1>3, <1>9
    <3> HIDE DEF r
    <3>3. ChunksOf(a, e) \subseteq WarmupChunks(f)
      BY <1>1, <3>1, <3>2, PiecePrefetched
    <3> QED BY <1>2, <3>3
  <2>3. CASE ~ f.len > tail
    <3>1. ~ TailChunks < TotalChunks(f.len)
      <4>1. ~ tail < f.len
        BY <2>3
      <4> QED BY <1>1, <1>3, <4>1, ChunkBegins
    <3>2. TotalChunks(f.len) - TailChunks <= ChunkOf(a)
      BY <1>3, <1>4, <3>1
    <3>3. ChunksOf(a, e) \subseteq HeadAndTail(f.len)
      BY <1>1, <3>2, TailPrefetched
    <3> QED BY <1>2, <3>3
  <2> QED BY <2>1, <2>2, <2>3
<1> QED BY <1>8, <1>9

\* The index of an MP4 file whose atoms are as they claim is prefetched to its last
\* chunk, if the probe shows its header and size, or if it lies in the tail, of
\* declared size or not (compute_warmup_ranges, find_moov_box, ProxySession::new).
THEOREM IndexIsPrefetched == Spec => []IndexPrefetched
<1>1. Typed => IndexPrefetched
  <2> SUFFICES ASSUME Typed, WellFormed(file), NEW i \in DOMAIN file.atoms,
                      file.atoms[i].type = "moov",
                      \A j \in 1 .. i - 1 : file.atoms[j].type # "moov",
                      \/ Readable(file, i) /\ file.atoms[i].form # "to_end"
                      \/ OffsetOf(file, i) >= file.len - TailChunks * ChunkSize
               PROVE  AtomChunks(file, i) \subseteq HeadAndTail(file.len) \cup WarmupChunks(file)
    BY DEF IndexPrefetched, PlanHasIndex
  <2>1. file.len \in Nat \ {0} /\ file.atoms \in Seq(Atom)
    BY FilesAssumption DEF Typed, Atom
  <2>2. Index(file, i)
    BY <2>1 DEF Index
  <2> QED BY <2>2, IndexInPlan
<1> QED BY <1>1, AlwaysTyped, PTL

-----------------------------------------------------------------------------
(* Supported ranges.                                                       *)

\* No header asks for the last number a u64 holds: the exclusive end of such a
\* range wraps to 0, and the answer is a refusal.
NoMaximum == \A f \in Files : \A h \in Headers(1, f) :
               ~ (h.unit = "bytes" /\ h.first \in Nat /\ h.last = Modulus - 1)

\* bytes=first-last is answered from first on, up to last or the end of the file.
LEMMA FromToAnswered ==
  ASSUME NEW len \in Nat \ {0}, NEW h, h.unit = "bytes", NEW first \in 0 .. len - 1,
         NEW last \in first .. Modulus - 2, h.first = first, h.last = last
  PROVE  /\ Resolve(ParseRange(h), len) = Partial(first, Min({last + 1, len}))
         /\ HeadRange(ParseRange(h), len).first = first
         /\ HeadRange(ParseRange(h), len).last \in Min({last, len - 1}) .. len - 1
<1> USE SizesAssumption
<1>1. first \in Nat /\ last \in Nat /\ first <= last /\ last + 1 < Modulus /\ first < len
  OBVIOUS
<1>2. ParseRange(h) = [kind |-> "from_to", first |-> first, last |-> last]
  BY <1>1 DEF ParseRange, Fits, Blank
<1>3. (last + 1) % Modulus = last + 1
  BY <1>1
<1> DEFINE r == [kind |-> "from_to", first |-> first, last |-> last]
<1>4. EndOf(r, len) = Min({last + 1, len})
  BY <1>3 DEF EndOf
<1>5. Min({last + 1, len}) = IF last + 1 <= len THEN last + 1 ELSE len
  BY <1>1, MinOfTwo
<1>6. Min({last, len - 1}) = IF last <= len - 1 THEN last ELSE len - 1
  BY <1>1, MinOfTwo
<1>7. Resolve(r, len) = Partial(first, Min({last + 1, len}))
  <2>1. ~ (first >= len \/ EndOf(r, len) <= first)
    BY <1>1, <1>4, <1>5
  <2>2. Resolve(r, len) = IF first >= len \/ EndOf(r, len) <= first
                          THEN Refused ELSE Partial(first, EndOf(r, len))
    BY DEF Resolve
  <2> QED BY <2>1, <2>2, <1>4
<1>8. HeadRange(r, len) = [first |-> first, last |-> EndOf(r, len) - 1]
  BY DEF HeadRange
<1>9. EndOf(r, len) - 1 \in Min({last, len - 1}) .. len - 1
  BY <1>1, <1>4, <1>5, <1>6
<1> QED BY <1>2, <1>7, <1>8, <1>9

\* bytes=first- is answered with at most OpenEndedMax bytes; HEAD names the rest.
LEMMA FromAnswered ==
  ASSUME NEW len \in Nat \ {0}, len + OpenEndedMax < Modulus, NEW h, h.unit = "bytes",
         NEW first \in 0 .. len - 1, h.first = first, h.last = Blank
  PROVE  LET last == first + OpenEndedMax - 1 IN
           /\ Resolve(ParseRange(h), len) = Partial(first, Min({last + 1, len}))
           /\ HeadRange(ParseRange(h), len).first = first
           /\ HeadRange(ParseRange(h), len).last \in Min({last, len - 1}) .. len - 1
<1> USE SizesAssumption
<1> DEFINE last == first + OpenEndedMax - 1
           r == [kind |-> "from", first |-> first]
<1>1. first \in Nat /\ first < len /\ first < Modulus /\ last \in Nat
      /\ last + 1 = first + OpenEndedMax
  OBVIOUS
<1>2. ParseRange(h) = r
  BY <1>1 DEF ParseRange, Fits, Blank
<1>3. Resolve(r, len) = Partial(first, Min({last + 1, len}))
  <2>1. Resolve(r, len) = IF first >= len THEN Refused
                          ELSE Partial(first, Min({first + OpenEndedMax, len}))
    BY DEF Resolve
  <2> HIDE DEF last, r
  <2> QED BY <1>1, <2>1
<1>4. HeadRange(r, len) = [first |-> first, last |-> len - 1]
  BY DEF HeadRange
<1>5. Min({last, len - 1}) = IF last <= len - 1 THEN last ELSE len - 1
  <2> HIDE DEF last
  <2> QED BY <1>1, MinOfTwo
<1>6. len - 1 \in Min({last, len - 1}) .. len - 1
  <2> HIDE DEF last
  <2> QED BY <1>1, <1>5
<1> QED BY <1>2, <1>3, <1>4, <1>6

\* bytes=-n is answered with the last n bytes, or the whole file.
LEMMA SuffixAnswered ==
  ASSUME NEW len \in Nat \ {0}, NEW h, h.unit = "bytes", h.first = Blank,
         NEW n \in 1 .. Modulus - 1, h.last = n
  PROVE  LET first == Max({len - n, 0}) IN
           /\ Resolve(ParseRange(h), len) = Partial(first, Min({len - 1 + 1, len}))
           /\ HeadRange(ParseRange(h), len).first = first
           /\ HeadRange(ParseRange(h), len).last \in Min({len - 1, len - 1}) .. len - 1
<1> USE SizesAssumption
<1> DEFINE r == [kind |-> "suffix", len |-> n]
<1>1. n \in Nat \ {0} /\ n <= Modulus - 1
  OBVIOUS
<1>2. ParseRange(h) = r
  BY <1>1 DEF ParseRange, Fits, Blank
<1>3. Resolve(r, len) = Partial(Max({len - n, 0}), len)
  BY DEF Resolve
<1>4. HeadRange(r, len) = [first |-> Max({len - n, 0}), last |-> len - 1]
  BY DEF HeadRange
<1>5. Min({len - 1 + 1, len}) = len /\ Min({len - 1, len - 1}) = len - 1
  BY MinOfTwo
<1> QED BY <1>2, <1>3, <1>4, <1>5, SMTT(30)

\* Every form of range that is said to be supported (handler.rs:97) is answered
\* with the first of the bytes asked for, and HEAD names them (stream_handler,
\* head_handler); the one exception is a range up to the last number of a u64.
THEOREM RangesSupported ==
  ASSUME NoMaximum
  PROVE  Spec => []RangeSupported
<1>1. Typed => RangeSupported
  <2> SUFFICES ASSUME Typed, NEW h \in Headers(1, file), h.unit = "bytes"
               PROVE
      LET Answered(first, last) ==
            /\ Resolve(ParseRange(h), content_length) =
                 Partial(first, Min({last + 1, content_length}))
            /\ HeadRange(ParseRange(h), content_length).first = first
            /\ HeadRange(ParseRange(h), content_length).last \in
                 Min({last, content_length - 1}) .. content_length - 1
          starts == h.first \in 0 .. content_length - 1
      IN  /\ starts /\ h.last \in h.first .. Modulus - 1 => Answered(h.first, h.last)
          /\ starts /\ h.last = Blank => Answered(h.first, h.first + OpenEndedMax - 1)
          /\ h.first = Blank /\ h.last \in 1 .. Modulus - 1 =>
               Answered(Max({content_length - h.last, 0}), content_length - 1)
    BY DEF RangeSupported
  <2> DEFINE len == content_length
             Answered(first, last) ==
               /\ Resolve(ParseRange(h), len) = Partial(first, Min({last + 1, len}))
               /\ HeadRange(ParseRange(h), len).first = first
               /\ HeadRange(ParseRange(h), len).last \in Min({last, len - 1}) .. len - 1
  <2>1. len \in Nat \ {0} /\ len + OpenEndedMax < Modulus /\ Modulus \in Nat
    BY FilesAssumption, SizesAssumption DEF Typed, content_length
  <2> HIDE DEF len
  <2>2. ASSUME h.first \in 0 .. len - 1, h.last \in h.first .. Modulus - 1
        PROVE  Answered(h.first, h.last)
    <3>1. h.first \in Nat
      BY <2>1, <2>2
    <3>2. h.last # Modulus - 1
      BY <3>1 DEF NoMaximum, Typed
    <3>3. h.last \in h.first .. Modulus - 2
      BY <2>1, <2>2, <3>1, <3>2
    <3> QED BY <2>1, <2>2, <3>3, FromToAnswered
  <2>3. ASSUME h.first \in 0 .. len - 1, h.last = Blank
        PROVE  Answered(h.first, h.first + OpenEndedMax - 1)
    BY <2>1, <2>3, FromAnswered
  <2>4. ASSUME h.first = Blank, h.last \in 1 .. Modulus - 1
        PROVE  Answered(Max({len - h.last, 0}), len - 1)
    BY <2>1, <2>4, SuffixAnswered
  <2> QED BY <2>2, <2>3, <2>4 DEF len
<1> QED BY <1>1, AlwaysTyped, PTL

-----------------------------------------------------------------------------
(* The downloads, as module DownloadSlots specifies them.                  *)

LEMMA SlotsAre ==
  ASSUME Typed
  PROVE  Slots!Chunks = Chunks /\ Slots!Free = {c \in Chunks : slot[c] = "free"}
BY DEF Slots!Chunks, Slots!Free, Typed

\* start_download of any chunks, by requests or by the warmup task.
LEMMA StartedIsStart ==
  ASSUME Typed, NEW C, slot' = Started(C), cached' = cached
  PROVE  Slots!Next
<1> DEFINE D == {c \in Chunks : c \in C \ cached /\ slot[c] = "free" /\ ~shut}
<1>1. D \in SUBSET Slots!Free
  BY SlotsAre
<1>2. slot' = [c \in Chunks |-> IF c \in D THEN "running" ELSE slot[c]]
  BY DEF Started
<1> HIDE DEF D
<1>3. Slots!Start(D)
  BY <1>2, SlotsAre DEF Slots!Start
<1> QED BY <1>1, <1>3 DEF Slots!Next

\* The seek of a request.
LEMMA AbortIsCancel ==
  ASSUME Typed, NEW p \in Requests, Abort(p)
  PROVE  Slots!Next
<1> DEFINE window == Chunks \cap (at[p] .. (at[p] + WindowChunks) - 1)
<1>1. \A a, b \in window : a .. b \subseteq window
  <2>1. at[p] \in Nat /\ WindowChunks \in Nat /\ Chunks \subseteq Int
    BY LimitsAssumption DEF Typed, Chunks
  <2>2. \A a, b \in Chunks : a .. b \subseteq Chunks
    <3>1. TotalChunks(content_length) \in Int
      BY FileHasBytes, SizesAssumption DEF TotalChunks
    <3> QED BY <3>1 DEF Chunks
  <2> QED BY <2>1, <2>2
<1>2. window \in SUBSET Slots!Chunks
  BY SlotsAre
<1>3. slot' = [c \in Chunks |-> IF slot[c] = "running" /\ c \notin window
                               THEN "cancelled" ELSE slot[c]]
  <2>1. \A c \in Chunks : c \notin window <=> c \notin at[p] .. (at[p] + WindowChunks) - 1
    BY LimitsAssumption DEF Typed
  <2> HIDE DEF window
  <2> QED BY <2>1 DEF Abort, Cancelled
<1>4. cached' = cached
  BY DEF Abort
<1> HIDE DEF window
<1>5. Slots!Cancel(window)
  BY <1>1, <1>3, <1>4, SlotsAre DEF Slots!Cancel
<1> QED BY <1>2, <1>5 DEF Slots!Next

\* The end of a download.
LEMMA DownloadIsEnd ==
  ASSUME Typed, NEW c \in Chunks, DownloadOk(c) \/ DownloadFails(c)
  PROVE  Slots!Next
<1>1. c \in Slots!Chunks \ Slots!Free
  BY SlotsAre DEF DownloadOk, DownloadFails
<1>2. Slots!End(c)
  BY DEF DownloadOk, DownloadFails, Slots!End
<1> QED BY <1>1, <1>2 DEF Slots!Next

LEMMA SlotsStep == Typed /\ [Next]_vars => [Slots!Next]_(Slots!slotVars)
<1> SUFFICES ASSUME Typed, [Next]_vars PROVE Slots!Next \/ UNCHANGED <<slot, cached>>
  BY DEF Slots!slotVars
<1>1. ASSUME NEW p \in Requests, Request(p)
      PROVE  Slots!Next \/ UNCHANGED <<slot, cached>>
  <2>1. CASE Abort(p)
    BY <2>1, AbortIsCancel
  <2>2. CASE Urgent(p) \/ Wait(p)
    BY <2>2, StartedIsStart DEF Urgent, Wait
  <2>3. ASSUME NEW end, PrefetchAhead(p, end)
        PROVE  Slots!Next
    BY <2>3, StartedIsStart DEF PrefetchAhead
  <2>4. ASSUME NEW r, Accept(p, r)
        PROVE  UNCHANGED <<slot, cached>>
    BY <2>4 DEF Accept, store
  <2>5. CASE Reset(p) \/ Record(p) \/ GiveUp(p) \/ Recheck(p) \/ Send(p) \/ HangUp(p) \/ Update(p)
    BY <2>5 DEF Reset, Record, GiveUp, Recheck, Send, HangUp, Update, store
  <2> QED BY <1>1, <2>1, <2>2, <2>3, <2>4, <2>5 DEF Request
<1>2. CASE Warm
  <2>1. slot' = slot \/ slot' = Started(WarmupChunks(file))
    BY <1>2 DEF Warm
  <2>2. cached' = cached
    BY <1>2 DEF Warm
  <2> QED BY <2>1, <2>2, StartedIsStart
<1>3. CASE Shutdown
  <2>1. Slots!Cancel({})
    BY <1>3, SlotsAre DEF Shutdown, Cancelled, Slots!Cancel
  <2>2. {} \in SUBSET Slots!Chunks
    OBVIOUS
  <2> QED BY <2>1, <2>2 DEF Slots!Next
<1>4. CASE Elapse \/ Done \/ UNCHANGED vars
  BY <1>4 DEF Elapse, Done, vars, store
<1> QED BY <1>1, <1>2, <1>3, <1>4, DownloadIsEnd DEF Next

\* The requests of a session and its warmup task use its downloads the way
\* DownloadSlots allows, for any files, headers and number of requests; and that is what
\* the downloader implements (SlotsRefinement of DownloaderProofs).  What is proved here
\* of requests does not rest on downloads that no downloader could have.
THEOREM SlotsAreUsed == Spec => UsesSlots
<1>1. Init => Slots!Init
  BY DEF Init, Slots!Init, Slots!Chunks
<1> QED BY <1>1, AlwaysTyped, SlotsStep, PTL DEF Spec, UsesSlots, Slots!Spec

============================================================================
