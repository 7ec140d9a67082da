-------------------------- MODULE UartInputProofs --------------------------
(***************************************************************************)
(* Theorems about UartInput, for every table of rates and dwells, every    *)
(* antenna, every length of the sentence buffer and every stream of bytes, *)
(* however the reads cut it into chunks.                                   *)
(*                                                                         *)
(* A feed is a recursive function over the bytes of a chunk.  What it      *)
(* keeps is proved by induction, with a set in the place of a predicate:   *)
(* the least number outside it would follow one that is inside.            *)
(***************************************************************************)
EXTENDS UartInput, SequenceTheorems, FiniteSetTheorems, TLAPS

-----------------------------------------------------------------------------
(* Induction.                                                              *)

\* A set of naturals has a least element.
LEMMA LeastElement ==
    ASSUME NEW T \in SUBSET Nat, T # {}
    PROVE  \E n \in T : \A m \in T : n <= m
  <1> DEFINE R == OpToRel(<, Nat)
  <1>1. PICK n \in T : \A m \in T : <<m, n>> \notin R
    <2> HIDE DEF R
    <2>1. IsWellFoundedOn(R, Nat)
      BY NatLessThanWellFounded DEF R
    <2> QED
      BY <2>1, WFMin
  <1>2. \A x, y \in Nat : x < y => <<x, y>> \in R
    BY DEF OpToRel
  <1> HIDE DEF R
  <1>3. ASSUME NEW m \in T, ~(n <= m)
        PROVE  FALSE
    <2>1. m \in Nat /\ n \in Nat /\ m < n
      BY <1>3
    <2>2. <<m, n>> \in R
      BY <1>2, <2>1
    <2> QED
      BY <1>1, <2>2
  <1> QED
    BY <1>3

\* A set with zero and the successor of each of its naturals has them all.
LEMMA InductionOverNat ==
    ASSUME NEW T, 0 \in T, \A n \in Nat : n \in T => n + 1 \in T
    PROVE  Nat \subseteq T
  <1> DEFINE Rest == Nat \ T
  <1>1. SUFFICES ASSUME Rest # {}
                 PROVE  FALSE
    OBVIOUS
  <1>2. PICK n \in Rest : \A m \in Rest : n <= m
    <2> HIDE DEF Rest
    <2>1. Rest \in SUBSET Nat
      BY DEF Rest
    <2> QED
      BY <1>1, <2>1, LeastElement
  <1>3. n \in Nat /\ n # 0
    OBVIOUS
  <1>4. n - 1 \in Nat /\ n - 1 \notin Rest
    BY <1>2, <1>3
  <1> QED
    BY <1>3, <1>4

\* A recursion over 1 .. N defines a function: f[k] is one step from f[k - 1].
Runs(S, N, step, p) ==
    {f \in [0 .. N -> S] :
        f[0] = p /\ \A k \in 1 .. N : f[k] = step[<<f[k - 1], k>>]}

LEMMA RecursionIsDefined ==
    ASSUME NEW S, NEW N \in Nat, NEW step \in [S \X (1 .. N) -> S], NEW p \in S
    PROVE  Runs(S, N, step, p) # {}
  <1> DEFINE Steps(f, n) == f[0] = p /\ \A k \in 1 .. n : f[k] = step[<<f[k - 1], k>>]
             T == {n \in Nat : n <= N => \E f \in [0 .. n -> S] : Steps(f, n)}
  <1>1. 0 \in T
    <2>1. [k \in 0 .. 0 |-> p] \in [0 .. 0 -> S] /\ Steps([k \in 0 .. 0 |-> p], 0)
      OBVIOUS
    <2> QED
      BY <2>1
  <1>2. ASSUME NEW n \in Nat, n \in T
        PROVE  n + 1 \in T
    <2>1. SUFFICES ASSUME n + 1 <= N
                   PROVE  \E f \in [0 .. n + 1 -> S] : Steps(f, n + 1)
      OBVIOUS
    <2>2. PICK f \in [0 .. n -> S] : Steps(f, n)
      BY <1>2, <2>1
    <2> DEFINE g == [k \in 0 .. n + 1 |->
                        IF k <= n THEN f[k] ELSE step[<<f[n], n + 1>>]]
    <2>3. f[n] \in S /\ n + 1 \in 1 .. N
      BY <2>1
    <2>4. g \in [0 .. n + 1 -> S]
      BY <2>3
    <2>5. g[0] = p
      BY <2>2
    <2>6. ASSUME NEW k \in 1 .. n + 1
          PROVE  g[k] = step[<<g[k - 1], k>>]
      <3>1. CASE k \in 1 .. n
        <4>1. k - 1 \in 0 .. n + 1 /\ k - 1 <= n /\ k \in 0 .. n + 1 /\ k <= n
          BY <3>1
        <4>2. g[k - 1] = f[k - 1] /\ g[k] = f[k]
          BY <4>1
        <4> QED
          BY <2>2, <3>1, <4>2
      <3>2. CASE k = n + 1
        <4>1. k - 1 = n /\ ~(k <= n) /\ n \in 0 .. n + 1 /\ n <= n /\ k \in 0 .. n + 1
          BY <3>2
        <4> QED
          BY <3>2, <4>1
      <3> QED
        BY <3>1, <3>2
    <2> HIDE DEF g
    <2> QED
      BY <2>4, <2>5, <2>6
  <1>3. Nat \subseteq T
    <2> HIDE DEF T
    <2> QED
      BY <1>1, <1>2, InductionOverNat
  <1>4. N \in T
    BY <1>3
  <1>5. N <= N
    OBVIOUS
  <1> QED
    BY <1>4, <1>5 DEF Runs

\* What each byte of a chunk keeps, the chunk keeps: f[k] is what a parser has
\* become after k bytes, and I relates it to all the bytes it was fed.
LEMMA ChunkKeeps ==
    ASSUME NEW I, NEW f, NEW h \in Seq(Byte), NEW chunk \in Seq(Byte),
           <<f[0], h>> \in I,
           \A n \in 1 .. Len(chunk) : \A g \in Seq(Byte) :
               <<f[n - 1], g>> \in I => <<f[n], Append(g, chunk[n])>> \in I
    PROVE  <<f[Len(chunk)], h \o chunk>> \in I
  <1>1. Len(chunk) \in Nat /\ \A k \in 1 .. Len(chunk) : chunk[k] \in Byte
    BY LenProperties, ElementOfSeq
  <1> DEFINE T == {n \in Nat :
                      n <= Len(chunk) => <<f[n], h \o SubSeq(chunk, 1, n)>> \in I}
  <1>2. 0 \in T
    <2>1. SubSeq(chunk, 1, 0) = <<>> /\ h \o <<>> = h
      BY SubSeqEmpty, ConcatEmptySeq
    <2> QED
      BY <2>1
  <1>3. ASSUME NEW n \in Nat, n \in T
        PROVE  n + 1 \in T
    <2>1. SUFFICES ASSUME n + 1 <= Len(chunk)
                   PROVE  <<f[n + 1], h \o SubSeq(chunk, 1, n + 1)>> \in I
      OBVIOUS
    <2>2. n + 1 \in 1 .. Len(chunk) /\ n <= Len(chunk) /\ (n + 1) - 1 = n
      BY <1>1, <2>1
    <2>3. SubSeq(chunk, 1, n) \in Seq(Byte) /\ chunk[n + 1] \in Byte
          /\ <<chunk[n + 1]>> \in Seq(Byte)
      BY <1>1, <2>2, SubSeqProperties
    <2>4. h \o SubSeq(chunk, 1, n) \in Seq(Byte)
      BY <2>3, ConcatProperties
    <2>5. SubSeq(chunk, 1, n + 1) = SubSeq(chunk, 1, n) \o <<chunk[n + 1]>>
      <3>1. 1 \in 1 .. Len(chunk)
        BY <1>1, <2>2
      <3> QED
        BY <2>2, <3>1, SubSeqRecursiveSecond
    <2>6. h \o SubSeq(chunk, 1, n + 1) = Append(h \o SubSeq(chunk, 1, n), chunk[n + 1])
      <3>1. Append(h \o SubSeq(chunk, 1, n), chunk[n + 1])
                = (h \o SubSeq(chunk, 1, n)) \o <<chunk[n + 1]>>
        BY <2>3, <2>4, AppendIsConcat
      <3> QED
        BY <2>3, <2>5, <3>1, ConcatAssociative
    <2>7. <<f[n], h \o SubSeq(chunk, 1, n)>> \in I
      BY <1>3, <2>2
    <2> QED
      BY <2>2, <2>4, <2>6, <2>7
  <1>4. Nat \subseteq T
    <2> HIDE DEF T
    <2> QED
      BY <1>2, <1>3, InductionOverNat
  <1>5. <<f[Len(chunk)], h \o SubSeq(chunk, 1, Len(chunk))>> \in I
    <2>1. Len(chunk) \in T
      BY <1>1, <1>4
    <2>2. Len(chunk) <= Len(chunk)
      BY <1>1
    <2> QED
      BY <2>1, <2>2
  <1> QED
    BY <1>5, SubSeqFull

-----------------------------------------------------------------------------
(* Numbers and fields.                                                     *)

Ints == -IntMax - 1 .. IntMax

\* Whatever is computed of it, an int holds it.
LEMMA WrappedIsInt ==
    ASSUME NEW n \in Int
    PROVE  Wrapped(n) \in Ints
  <1>1. IntMax \in Nat
    BY IntAssumption
  <1>2. PICK m \in Nat \ {0} : m = 2 * (IntMax + 1)
    BY <1>1
  <1>3. (n + IntMax + 1) % m \in 0 .. m - 1
    BY <1>1
  <1>4. Wrapped(n) = ((n + IntMax + 1) % m) - (IntMax + 1)
    BY <1>2 DEF Wrapped
  <1> QED
    BY <1>1, <1>2, <1>3, <1>4 DEF Ints

LEMMA StepIsInt ==
    ASSUME NEW x \in Ints, NEW b \in Byte
    PROVE  Wrapped(Wrapped(x * 10) + ByteValue[b] - 48) \in Ints
  <1>1. Wrapped(x * 10) \in Int
    BY WrappedIsInt, IntAssumption DEF Ints
  <1>2. ByteValue[b] \in Int
    <2>1. ByteValue[b] \in 0 .. 255
      BY ByteAssumption
    <2> QED
      BY <2>1
  <1>3. Wrapped(x * 10) + ByteValue[b] - 48 \in Int
    BY <1>1, <1>2
  <1> QED
    BY <1>3, WrappedIsInt

\* How Number accumulates, one byte at a time.
Accumulates(V, digits) ==
    /\ V[0] = 0
    /\ \A n \in 1 .. Len(digits) :
          V[n] = Wrapped(Wrapped(V[n - 1] * 10) + ByteValue[digits[n]] - 48)

LEMMA NumberRuns ==
    ASSUME NEW digits \in Seq(Byte)
    PROVE  \E V : Accumulates(V, digits) /\ Number(digits) = V[Len(digits)]
  <1> DEFINE N == Len(digits)
             step == [x \in Ints \X (1 .. N) |->
                         Wrapped(Wrapped(x[1] * 10) + ByteValue[digits[x[2]]] - 48)]
  <1>1. N \in Nat
    BY LenProperties
  <1>2. step \in [Ints \X (1 .. N) -> Ints]
    <2>1. ASSUME NEW x \in Ints, NEW k \in 1 .. N
          PROVE  Wrapped(Wrapped(x * 10) + ByteValue[digits[k]] - 48) \in Ints
      BY ElementOfSeq, StepIsInt
    <2> QED
      BY <2>1
  <1>3. 0 \in Ints
    BY IntAssumption DEF Ints
  <1>4. PICK f \in [0 .. N -> Ints] :
                f[0] = 0 /\ \A k \in 1 .. N : f[k] = step[<<f[k - 1], k>>]
    <2> HIDE DEF step, N
    <2>1. Runs(Ints, N, step, 0) # {}
      BY <1>1, <1>2, <1>3, RecursionIsDefined
    <2> QED
      BY <2>1 DEF Runs
  <1> DEFINE Values(g) == g = [n \in 0 .. N |->
                                  IF n = 0 THEN 0
                                  ELSE Wrapped(Wrapped(g[n - 1] * 10)
                                                   + ByteValue[digits[n]] - 48)]
  <1>5. Values(f)
    <2>1. ASSUME NEW n \in 0 .. N, n # 0
          PROVE  f[n] = Wrapped(Wrapped(f[n - 1] * 10) + ByteValue[digits[n]] - 48)
      <3>1. n \in 1 .. N /\ f[n - 1] \in Ints
        BY <2>1, <1>1
      <3> QED
        BY <1>4, <3>1
    <2> QED
      BY <1>4, <2>1
  <1>6. Number(digits) = (CHOOSE g : Values(g))[N]
    BY DEF Number
  <1> DEFINE V == CHOOSE g : Values(g)
  <1>7. Values(V)
    BY <1>5
  <1> HIDE DEF V
  <1>8. V[0] = 0 /\ \A n \in 1 .. N :
            V[n] = Wrapped(Wrapped(V[n - 1] * 10) + ByteValue[digits[n]] - 48)
    BY <1>1, <1>7
  <1>9. Number(digits) = V[N]
    BY <1>6 DEF V
  <1>10. Accumulates(V, digits)
    BY <1>8 DEF Accumulates
  <1> QED
    BY <1>9, <1>10

\* The number that some bytes denote is an int.
LEMMA NumberIsInt ==
    ASSUME NEW digits \in Seq(Byte)
    PROVE  Number(digits) \in Ints
  <1> DEFINE N == Len(digits)
  <1>1. N \in Nat
    BY LenProperties
  <1>2. PICK V : Accumulates(V, digits) /\ Number(digits) = V[N]
    BY NumberRuns
  <1>3. <<V[N], <<>> \o digits>> \in Ints \X Seq(Byte)
    <2>1. <<V[0], <<>>>> \in Ints \X Seq(Byte)
      <3>1. <<>> \in Seq(Byte) /\ V[0] \in Ints
        BY <1>2, IntAssumption DEF Ints, Accumulates
      <3> QED
        BY <3>1, Zenon
    <2>2. ASSUME NEW n \in 1 .. N, NEW g \in Seq(Byte),
                 <<V[n - 1], g>> \in Ints \X Seq(Byte)
          PROVE  <<V[n], Append(g, digits[n])>> \in Ints \X Seq(Byte)
      <3>1. digits[n] \in Byte
        BY ElementOfSeq
      <3>2. V[n] \in Ints
        BY <1>2, <2>2, <3>1, StepIsInt DEF Accumulates
      <3>3. Append(g, digits[n]) \in Seq(Byte)
        BY <2>2, <3>1
      <3> QED
        BY <3>2, <3>3
    <2> QED
      BY <2>1, <2>2, ChunkKeeps
  <1>4. V[N] \in Ints
    BY <1>3
  <1> QED
    BY <1>2, <1>4

\* A set of naturals that has a bound has a greatest element.
LEMMA GreatestElement ==
    ASSUME NEW N \in Nat, NEW T \in SUBSET (0 .. N), T # {}
    PROVE  \E n \in T : \A m \in T : m <= n
  <1> DEFINE U == {N - m : m \in T}
  <1>1. U \in SUBSET Nat /\ U # {}
    <2>1. \A m \in T : N - m \in Nat
      OBVIOUS
    <2> QED
      BY <2>1
  <1>2. PICK u \in U : \A v \in U : u <= v
    <2> HIDE DEF U
    <2> QED
      BY <1>1, LeastElement
  <1>3. PICK n \in T : u = N - n
    OBVIOUS
  <1>4. ASSUME NEW m \in T
        PROVE  m <= n
    <2>1. N - n <= N - m
      BY <1>2, <1>3
    <2> QED
      BY <2>1
  <1> QED
    BY <1>4

\* Each rank is taken in a set that is sorted.
LEMMA RanksAreTaken ==
    ASSUME NEW N \in Nat
    PROVE  \A n \in Nat : \A S \in SUBSET (0 .. N) : Cardinality(S) = n =>
              \A k \in 1 .. n : \E i \in S : Cardinality({j \in S : j <= i}) = k
  <1> DEFINE Ranked(S, n) ==
                 \A k \in 1 .. n : \E i \in S : Cardinality({j \in S : j <= i}) = k
             T == {n \in Nat : \A S \in SUBSET (0 .. N) :
                                  Cardinality(S) = n => Ranked(S, n)}
  <1>1. 0 \in T
    OBVIOUS
  <1>2. ASSUME NEW n \in Nat, n \in T
        PROVE  n + 1 \in T
    <2>1. SUFFICES ASSUME NEW S \in SUBSET (0 .. N), Cardinality(S) = n + 1,
                          NEW k \in 1 .. n + 1
                   PROVE  \E i \in S : Cardinality({j \in S : j <= i}) = k
      OBVIOUS
    <2>2. IsFiniteSet(S)
      <3>1. IsFiniteSet(0 .. N)
        BY FS_Interval
      <3> QED
        BY <3>1, FS_Subset
    <2>3. S # {}
      BY <2>1, FS_EmptySet
    <2>4. PICK m \in S : \A j \in S : j <= m
      BY <2>3, GreatestElement
    <2>5. CASE k = n + 1
      <3>1. {j \in S : j <= m} = S
        BY <2>4
      <3> QED
        BY <2>1, <2>5, <3>1
    <2>6. CASE k \in 1 .. n
      <3>1. S \ {m} \in SUBSET (0 .. N)
        OBVIOUS
      <3>2. Cardinality(S \ {m}) = n
        BY <2>1, <2>2, FS_RemoveElement
      <3>3. Ranked(S \ {m}, n)
        BY <1>2, <3>1, <3>2
      <3>4. PICK i \in S \ {m} : Cardinality({j \in S \ {m} : j <= i}) = k
        BY <2>6, <3>3
      <3>5. ~(m <= i)
        BY <2>4, <3>4
      <3>6. {j \in S \ {m} : j <= i} = {j \in S : j <= i}
        BY <3>5
      <3> QED
        BY <3>4, <3>6
    <2> QED
      BY <2>5, <2>6
  <1>3. Nat \subseteq T
    <2> HIDE DEF T
    <2> QED
      BY <1>1, <1>2, InductionOverNat
  <1> QED
    BY <1>3

LEMMA SortedIsWithin ==
    ASSUME NEW N \in Nat, NEW S \in SUBSET (0 .. N)
    PROVE  /\ Len(Sorted(S)) = Cardinality(S) /\ Cardinality(S) \in Nat
           /\ \A k \in 1 .. Cardinality(S) : Sorted(S)[k] \in S
  <1>1. Cardinality(S) \in Nat
    <2>1. IsFiniteSet(0 .. N)
      BY FS_Interval
    <2>2. IsFiniteSet(S)
      BY <2>1, FS_Subset
    <2> QED
      BY <2>2, FS_CardinalityType
  <1>2. ASSUME NEW k \in 1 .. Cardinality(S)
        PROVE  Sorted(S)[k] \in S
    <2>1. \A n \in Nat : Cardinality(S) = n =>
              \A l \in 1 .. n : \E i \in S : Cardinality({j \in S : j <= i}) = l
      BY RanksAreTaken
    <2>2. \E i \in S : Cardinality({j \in S : j <= i}) = k
      BY <1>1, <2>1
    <2> QED
      BY <2>2 DEF Sorted
  <1>3. Len(Sorted(S)) = Cardinality(S)
    BY <1>1 DEF Sorted
  <1> QED
    BY <1>1, <1>2, <1>3

\* The search for a byte.
LEMMA FirstOfIsWithin ==
    ASSUME NEW bs, NEW s \in Seq(Byte), NEW from \in Nat
    PROVE  FirstOf(bs, s, from) = 0 \/ FirstOf(bs, s, from) \in from .. Len(s)
  <1> DEFINE found == {i \in from .. Len(s) : s[i] \in bs}
  <1>1. CASE found = {}
    BY <1>1 DEF FirstOf
  <1>2. CASE found # {}
    <2>1. found \in SUBSET Nat
      OBVIOUS
    <2>2. \E n \in found : \A m \in found : n <= m
      <3> HIDE DEF found
      <3> QED
        BY <1>2, <2>1, LeastElement
    <2>3. Min(found) \in found
      <3> HIDE DEF found
      <3> QED
        BY <2>2 DEF Min
    <2>4. FirstOf(bs, s, from) = Min(found)
      BY <1>2 DEF FirstOf
    <2>5. found \subseteq from .. Len(s)
      OBVIOUS
    <2> HIDE DEF found
    <2> QED
      BY <2>3, <2>4, <2>5
  <1> QED
    BY <1>1, <1>2

\* What is cut out of bytes are bytes.
LEMMA PartIsBytes ==
    ASSUME NEW s \in Seq(Byte), NEW m \in Nat \ {0}, NEW n \in Int, n <= Len(s)
    PROVE  SubSeq(s, m, n) \in Seq(Byte)
  <1>1. \A i \in m .. n : i \in 1 .. Len(s)
    OBVIOUS
  <1>2. \A i \in m .. n : s[i] \in Byte
    BY <1>1, ElementOfSeq
  <1> QED
    BY <1>2, SubSeqProperties

LEMMA TrimmedIsBytes ==
    ASSUME NEW s \in Seq(Byte)
    PROVE  Trimmed(s) \in Seq(Byte)
  <1> DEFINE kept == {i \in DOMAIN s : s[i] \notin EndOfLine}
  <1>1. CASE kept = {}
    BY <1>1, EmptySeq DEF Trimmed
  <1>2. CASE kept # {}
    <2>1. DOMAIN s = 1 .. Len(s) /\ Len(s) \in Nat
      BY LenProperties
    <2>2. kept \in SUBSET (0 .. Len(s)) /\ kept \subseteq 1 .. Len(s)
      BY <2>1
    <2>3. Trimmed(s) = SubSeq(s, 1, Max(kept))
      BY <1>2 DEF Trimmed
    <2> HIDE DEF kept
    <2>4. PICK n \in kept : \A m \in kept : m <= n
      BY <1>2, <2>1, <2>2, GreatestElement
    <2>5. Max(kept) \in kept
      <3>1. n \in kept /\ \A m \in kept : n >= m
        BY <2>2, <2>4
      <3> QED
        BY <3>1, Zenon DEF Max
    <2>6. Max(kept) \in 1 .. Len(s)
      BY <2>2, <2>5
    <2> QED
      BY <2>1, <2>3, <2>6, PartIsBytes
  <1> QED
    BY <1>1, <1>2

LEMMA FieldIsBytes ==
    ASSUME NEW sentence \in Seq(Byte), NEW n \in Nat \ {0}
    PROVE  Field(sentence, n) \in Seq(Byte)
  <1> DEFINE s == Trimmed(sentence)
             first == FirstOf({","}, s, 1)
             star == FirstOf({"*"}, s, first + 1)
             end == IF star = 0 THEN Len(s) + 1 ELSE star
             edges == Sorted({i \in first .. end : i = end \/ s[i] = ","})
             S == {i \in first .. end : i = end \/ s[i] = ","}
  <1>1. Field(sentence, n) = IF first = 0 \/ n >= Len(edges) THEN <<>>
                             ELSE SubSeq(s, edges[n] + 1, edges[n + 1] - 1)
    BY DEF Field
  <1>2. s \in Seq(Byte) /\ Len(s) \in Nat
    BY TrimmedIsBytes, LenProperties
  <1>3. CASE first = 0 \/ n >= Len(edges)
    BY <1>1, <1>3, EmptySeq
  <1>4. CASE ~(first = 0 \/ n >= Len(edges))
    <2>1. first \in 1 .. Len(s)
      <3> HIDE DEF s
      <3> QED
        BY <1>2, <1>4, FirstOfIsWithin
    <2>2. end \in 1 .. Len(s) + 1
      <3>1. star = 0 \/ star \in first + 1 .. Len(s)
        <4> HIDE DEF s, first
        <4> QED
          BY <1>2, <2>1, FirstOfIsWithin
      <3> HIDE DEF s, first, star
      <3> QED
        BY <1>2, <2>1, <3>1
    <2>3. S \in SUBSET (0 .. end) /\ S \subseteq first .. end
      <3>1. S \subseteq first .. end
        <4> HIDE DEF s, first, end
        <4> QED
          OBVIOUS
      <3> HIDE DEF S, edges, s, first, end
      <3>2. first .. end \subseteq 0 .. end
        BY <1>2, <2>1, <2>2
      <3> QED
        BY <3>1, <3>2, Zenon
    <2>4. edges = Sorted(S)
      OBVIOUS
    <2> HIDE DEF S, edges, end, first, s
    <2>5. end \in Nat
      BY <1>2, <2>2
    <2>6. /\ Len(edges) = Cardinality(S) /\ Cardinality(S) \in Nat
          /\ \A k \in 1 .. Cardinality(S) : edges[k] \in S
      BY <2>3, <2>4, <2>5, SortedIsWithin
    <2>7. edges[n] \in first .. end /\ edges[n + 1] \in first .. end
      <3>1. n \in 1 .. Cardinality(S) /\ n + 1 \in 1 .. Cardinality(S)
        BY <1>4, <2>6
      <3> QED
        BY <2>3, <2>6, <3>1
    <2>8. edges[n] + 1 \in Nat \ {0} /\ edges[n + 1] - 1 \in Int
          /\ edges[n + 1] - 1 <= Len(s)
      BY <1>2, <2>1, <2>2, <2>7
    <2>9. SubSeq(s, edges[n] + 1, edges[n + 1] - 1) \in Seq(Byte)
      BY <1>2, <2>8, PartIsBytes
    <2> QED
      BY <1>1, <1>4, <2>9
  <1> QED
    BY <1>3, <1>4

\* What the search finds is the first.
LEMMA FirstOfFinds ==
    ASSUME NEW bs, NEW s \in Seq(Byte), NEW d, d = FirstOf(bs, s, 1)
    PROVE  /\ d = 0 => \A i \in 1 .. Len(s) : s[i] \notin bs
           /\ d # 0 => /\ d \in 1 .. Len(s) /\ s[d] \in bs
                       /\ \A i \in 1 .. d - 1 : s[i] \notin bs
  <1> DEFINE found == {i \in 1 .. Len(s) : s[i] \in bs}
  <1>1. CASE found = {}
    BY <1>1 DEF FirstOf
  <1>2. CASE found # {}
    <2>1. d = Min(found)
      BY <1>2 DEF FirstOf
    <2>2. found \in SUBSET Nat
      OBVIOUS
    <2>3. \E n \in found : \A m \in found : n <= m
      <3> HIDE DEF found
      <3> QED
        BY <1>2, <2>2, LeastElement
    <2>4. d \in found /\ \A m \in found : d <= m
      <3> HIDE DEF found
      <3> QED
        BY <2>1, <2>3 DEF Min
    <2>5. d \in 1 .. Len(s) /\ Len(s) \in Nat
      BY <2>4, LenProperties
    <2>6. ASSUME NEW i \in 1 .. d - 1, s[i] \in bs
          PROVE  FALSE
      <3>1. i \in 1 .. Len(s) /\ ~(d <= i)
        BY <2>5
      <3>2. i \in found
        BY <2>6, <3>1
      <3> QED
        BY <2>4, <3>1, <3>2
    <2>7. s[d] \in bs
      BY <2>4
    <2> QED
      BY <2>5, <2>6, <2>7
  <1> QED
    BY <1>1, <1>2

\* The two parts of a field, and where they come from.
LEMMA PartsOfField ==
    ASSUME NEW field \in Seq(Byte), NEW dot, dot = FirstOf({"."}, field, 1)
    PROVE  /\ dot = 0 => WholePart(field) = field /\ Decimals(field) = <<>>
           /\ dot # 0 => /\ dot \in 1 .. Len(field)
                         /\ WholePart(field) = SubSeq(field, 1, dot - 1)
                         /\ \E last \in dot .. Len(field) :
                               /\ last <= dot + 3
                               /\ Decimals(field) = SubSeq(field, dot + 1, last)
  <1>1. Len(field) \in Nat
    BY LenProperties
  <1>2. CASE dot = 0
    BY <1>2 DEF WholePart, Decimals
  <1>3. CASE dot # 0
    <2>1. dot \in 1 .. Len(field)
      BY <1>3, FirstOfFinds
    <2> DEFINE last == Min({Len(field), dot + 3})
    <2>2. /\ last = Len(field) \/ last = dot + 3
          /\ last <= Len(field) /\ last <= dot + 3
      <3>1. \E x \in {Len(field), dot + 3} : \A y \in {Len(field), dot + 3} : x <= y
        BY <1>1, <2>1
      <3> QED
        BY <3>1 DEF Min
    <2>3. /\ WholePart(field) = SubSeq(field, 1, dot - 1)
          /\ Decimals(field) = SubSeq(field, dot + 1, last)
      BY <1>3 DEF WholePart, Decimals
    <2> HIDE DEF last
    <2>4. last \in dot .. Len(field)
      BY <1>1, <2>1, <2>2
    <2> QED
      BY <1>3, <2>1, <2>2, <2>3, <2>4
  <1> QED
    BY <1>2, <1>3

LEMMA PartsAreBytes ==
    ASSUME NEW field \in Seq(Byte)
    PROVE  /\ WholePart(field) \in Seq(Byte)
           /\ Decimals(field) \in Seq(Byte)
           /\ Scale(field) \in {1, 10, 100, 1000}
  <1> DEFINE dot == FirstOf({"."}, field, 1)
  <1>1. WholePart(field) \in Seq(Byte) /\ Decimals(field) \in Seq(Byte)
        /\ Len(Decimals(field)) \in 0 .. 3
    <2> HIDE DEF dot
    <2>1. CASE dot = 0
      <3>1. WholePart(field) = field /\ Decimals(field) = <<>>
        BY <2>1, PartsOfField DEF dot
      <3>2. <<>> \in Seq(Byte) /\ Len(<<>>) = 0 /\ 0 \in 0 .. 3
        BY EmptySeq
      <3> QED
        BY <3>1, <3>2
    <2>2. CASE dot # 0
      <3>1. dot \in 1 .. Len(field) /\ Len(field) \in Nat
        BY <2>2, PartsOfField, LenProperties DEF dot
      <3>2. PICK last \in dot .. Len(field) :
               last <= dot + 3 /\ Decimals(field) = SubSeq(field, dot + 1, last)
        BY <2>2, PartsOfField DEF dot
      <3>3. WholePart(field) \in Seq(Byte)
        <4>1. 1 \in Nat \ {0} /\ dot - 1 \in Int /\ dot - 1 <= Len(field)
          BY <3>1
        <4>2. WholePart(field) = SubSeq(field, 1, dot - 1)
          BY <2>2, PartsOfField DEF dot
        <4> QED
          BY <4>1, <4>2, PartIsBytes
      <3>4. dot + 1 \in Nat \ {0} /\ last \in Int /\ last <= Len(field)
        BY <3>1, <3>2
      <3>5. SubSeq(field, dot + 1, last) \in Seq(Byte)
        BY <3>4, PartIsBytes
      <3>6. \A i \in dot + 1 .. last : i \in 1 .. Len(field)
        BY <3>1, <3>2
      <3>7. Len(SubSeq(field, dot + 1, last))
                = IF dot + 1 <= last THEN last - (dot + 1) + 1 ELSE 0
        <4>1. dot + 1 \in Int /\ \A i \in dot + 1 .. last : field[i] \in Byte
          BY <3>4, <3>6, ElementOfSeq
        <4> QED
          BY <3>4, <4>1, SubSeqProperties
      <3>8. Len(SubSeq(field, dot + 1, last)) \in 0 .. 3
        BY <3>1, <3>2, <3>7
      <3> QED
        BY <3>2, <3>3, <3>5, <3>8
    <2> QED
      BY <2>1, <2>2
  <1>2. Scale(field) \in {1, 10, 100, 1000}
    <2>1. PICK n \in 0 .. 3 : n = Len(Decimals(field))
      BY <1>1
    <2>2. n = 0 \/ n = 1 \/ n = 2 \/ n = 3
      OBVIOUS
    <2>3. <<1000, 100, 10, 1>>[n + 1] \in {1, 10, 100, 1000}
      BY <2>2
    <2>4. Scale(field) = <<1000, 100, 10, 1>>[n + 1]
      BY <2>1 DEF Scale
    <2> QED
      BY <2>3, <2>4
  <1> QED
    BY <1>1, <1>2

\* An HDOP that was read is an int.
LEMMA HdopIsInt ==
    ASSUME NEW s \in Seq(Byte), ParseHdopMilli(s) # <<>>
    PROVE  /\ ParseHdopMilli(s) = <<ParseHdopMilli(s)[1]>>
           /\ ParseHdopMilli(s)[1] \in Ints
           /\ TypeOf(s) = TypeGga
  <1> DEFINE field == Field(s, 8)
  <1>1. TypeOf(s) = TypeGga /\ ParseHdopMilli(s) = <<DecimalMilli(field)>>
    BY DEF ParseHdopMilli, ParseDecimalMilli
  <1>2. field \in Seq(Byte)
    BY FieldIsBytes
  <1> HIDE DEF field
  <1>3. Number(WholePart(field)) \in Int /\ Number(Decimals(field)) \in Int
    BY <1>2, PartsAreBytes, NumberIsInt, IntAssumption DEF Ints
  <1>4. Wrapped(Number(WholePart(field)) * 1000) \in Int
    <2>1. Number(WholePart(field)) * 1000 \in Int
      BY <1>3
    <2> QED
      BY <2>1, WrappedIsInt, IntAssumption DEF Ints
  <1>5. Number(Decimals(field)) * Scale(field) \in Int
    BY <1>2, <1>3, PartsAreBytes
  <1>6. DecimalMilli(field) \in Ints
    BY <1>4, <1>5, WrappedIsInt DEF DecimalMilli
  <1> QED
    BY <1>1, <1>6

-----------------------------------------------------------------------------
(* What a number comes to.                                                 *)

\* What fits an int is not wrapped.
LEMMA WrappedFits ==
    ASSUME NEW n \in 0 .. IntMax
    PROVE  Wrapped(n) = n
  <1>1. IntMax \in Nat
    BY IntAssumption
  <1>2. PICK m \in Nat \ {0} : m = 2 * (IntMax + 1)
    BY <1>1
  <1>3. n + IntMax + 1 \in 0 .. m - 1
    BY <1>1, <1>2
  <1>4. (n + IntMax + 1) % m = n + IntMax + 1
    BY <1>3
  <1>5. Wrapped(n) = ((n + IntMax + 1) % m) - (IntMax + 1)
    BY <1>2 DEF Wrapped
  <1> QED
    BY <1>1, <1>4, <1>5

DigitValue(b) == ByteValue[b] - 48

LEMMA DigitsHaveValues ==
    \A b \in Digits : b \in Byte /\ DigitValue(b) \in 0 .. 9
  <1> SUFFICES ASSUME NEW b \in Digits
               PROVE  b \in Byte /\ DigitValue(b) \in 0 .. 9
    OBVIOUS
  <1>1. b \in Byte
    BY ByteAssumption
  <1>2. ByteValue[b] \in 48 .. 57
    BY DigitAssumption
  <1> QED
    BY <1>1, <1>2 DEF DigitValue

\* How a number of any size accumulates.
Counts(D, digits) ==
    /\ D[0] = 0
    /\ \A n \in 1 .. Len(digits) : D[n] = D[n - 1] * 10 + DigitValue(digits[n])

LEMMA DecimalRuns ==
    ASSUME NEW digits \in Seq(Digits)
    PROVE  \E D : Counts(D, digits) /\ Decimal(digits) = D[Len(digits)]
  <1> DEFINE N == Len(digits)
             step == [x \in Nat \X (1 .. N) |-> x[1] * 10 + DigitValue(digits[x[2]])]
  <1>1. N \in Nat
    BY LenProperties
  <1>2. step \in [Nat \X (1 .. N) -> Nat]
    <2>1. ASSUME NEW x \in Nat, NEW k \in 1 .. N
          PROVE  x * 10 + DigitValue(digits[k]) \in Nat
      <3>1. DigitValue(digits[k]) \in 0 .. 9
        BY ElementOfSeq, DigitsHaveValues
      <3> QED
        BY <3>1
    <2> QED
      BY <2>1
  <1>3. PICK f \in [0 .. N -> Nat] :
                f[0] = 0 /\ \A k \in 1 .. N : f[k] = step[<<f[k - 1], k>>]
    <2> HIDE DEF step, N
    <2>1. Runs(Nat, N, step, 0) # {}
      BY <1>1, <1>2, RecursionIsDefined
    <2> QED
      BY <2>1 DEF Runs
  <1> DEFINE Values(g) == g = [n \in 0 .. N |->
                                  IF n = 0 THEN 0
                                  ELSE g[n - 1] * 10 + (ByteValue[digits[n]] - 48)]
  <1>4. Values(f)
    <2>1. ASSUME NEW n \in 0 .. N, n # 0
          PROVE  f[n] = f[n - 1] * 10 + (ByteValue[digits[n]] - 48)
      <3>1. n \in 1 .. N /\ f[n - 1] \in Nat
        BY <2>1, <1>1
      <3> QED
        BY <1>3, <3>1 DEF DigitValue
    <2> QED
      BY <1>3, <2>1
  <1>5. Decimal(digits) = (CHOOSE g : Values(g))[N]
    BY DEF Decimal
  <1> DEFINE V == CHOOSE g : Values(g)
  <1>6. Values(V)
    BY <1>4
  <1> HIDE DEF V
  <1>7. V[0] = 0 /\ \A n \in 1 .. N :
            V[n] = V[n - 1] * 10 + (ByteValue[digits[n]] - 48)
    BY <1>1, <1>6
  <1>8. Decimal(digits) = V[N]
    BY <1>5 DEF V
  <1>9. Counts(V, digits)
    BY <1>7 DEF Counts, DigitValue
  <1> QED
    BY <1>8, <1>9

\* One more digit of a number that fits.
LEMMA DigitFits ==
    ASSUME NEW x \in Nat, NEW b \in Digits, x * 10 + DigitValue(b) <= IntMax
    PROVE  /\ x <= IntMax
           /\ Wrapped(Wrapped(x * 10) + ByteValue[b] - 48) = x * 10 + DigitValue(b)
  <1>1. DigitValue(b) \in 0 .. 9 /\ IntMax \in Nat
    BY DigitsHaveValues, IntAssumption
  <1>2. x <= IntMax /\ x * 10 \in 0 .. IntMax
    BY <1>1
  <1>3. Wrapped(x * 10) = x * 10
    BY <1>2, WrappedFits
  <1>4. Wrapped(x * 10) + ByteValue[b] - 48 = x * 10 + DigitValue(b)
    <2>1. ByteValue[b] \in Int
      BY DigitAssumption
    <2> QED
      BY <1>3, <2>1 DEF DigitValue
  <1> DEFINE z == Wrapped(x * 10) + ByteValue[b] - 48
  <1>5. z \in 0 .. IntMax /\ z = x * 10 + DigitValue(b)
    <2>1. z = x * 10 + DigitValue(b)
      BY <1>4
    <2>2. x * 10 + DigitValue(b) \in 0 .. IntMax
      BY <1>1
    <2> QED
      BY <2>1, <2>2
  <1>6. Wrapped(z) = x * 10 + DigitValue(b)
    <2> HIDE DEF z
    <2>1. Wrapped(z) = z
      BY <1>5, WrappedFits
    <2> QED
      BY <1>5, <2>1
  <1> QED
    BY <1>2, <1>6

\* Digits are read right when what they denote fits.
LEMMA NumberIsExact ==
    ASSUME NEW digits \in Seq(Digits)
    PROVE  /\ Decimal(digits) \in Nat
           /\ Decimal(digits) <= IntMax => Number(digits) = Decimal(digits)
  <1>1. Len(digits) \in Nat /\ \A n \in 1 .. Len(digits) : digits[n] \in Digits
    BY LenProperties, ElementOfSeq
  <1>2. digits \in Seq(Byte)
    BY <1>1, DigitsHaveValues
  <1>3. PICK V : Accumulates(V, digits) /\ Number(digits) = V[Len(digits)]
    BY <1>2, NumberRuns
  <1>4. PICK D : Counts(D, digits) /\ Decimal(digits) = D[Len(digits)]
    BY DecimalRuns
  <1> DEFINE T == {n \in Nat : n <= Len(digits) =>
                      D[n] \in Nat /\ (D[n] <= IntMax => V[n] = D[n])}
  <1>5. 0 \in T
    BY <1>3, <1>4 DEF Accumulates, Counts
  <1>6. ASSUME NEW n \in Nat, n \in T
        PROVE  n + 1 \in T
    <2>1. SUFFICES ASSUME n + 1 <= Len(digits)
                   PROVE  /\ D[n + 1] \in Nat
                          /\ D[n + 1] <= IntMax => V[n + 1] = D[n + 1]
      OBVIOUS
    <2>2. n + 1 \in 1 .. Len(digits) /\ n <= Len(digits) /\ (n + 1) - 1 = n
      BY <1>1, <2>1
    <2>3. PICK b \in Digits : b = digits[n + 1]
      BY <1>1, <2>2
    <2>4. D[n] \in Nat /\ (D[n] <= IntMax => V[n] = D[n])
      BY <1>6, <2>2
    <2>5. D[n + 1] = D[n] * 10 + DigitValue(b)
      BY <1>4, <2>2, <2>3 DEF Counts
    <2>6. V[n + 1] = Wrapped(Wrapped(V[n] * 10) + ByteValue[b] - 48)
      BY <1>3, <2>2, <2>3 DEF Accumulates
    <2>7. D[n + 1] \in Nat
      BY <2>4, <2>5, DigitsHaveValues
    <2>8. ASSUME D[n + 1] <= IntMax
          PROVE  V[n + 1] = D[n + 1]
      BY <2>4, <2>5, <2>6, <2>8, DigitFits
    <2> QED
      BY <2>7, <2>8
  <1>7. Nat \subseteq T
    <2> HIDE DEF T
    <2> QED
      BY <1>5, <1>6, InductionOverNat
  <1>8. Len(digits) \in T /\ Len(digits) <= Len(digits)
    BY <1>1, <1>7
  <1> QED
    BY <1>3, <1>4, <1>8

\* A field with at most one dot has digits before and after it.
LEMMA PartsAreDigits ==
    ASSUME NEW field \in Seq(Byte), ParseDecimalMilli(field) # <<>>
    PROVE  WholePart(field) \in Seq(Digits) /\ Decimals(field) \in Seq(Digits)
  <1> DEFINE dots == {i \in DOMAIN field : field[i] = "."}
             dot == FirstOf({"."}, field, 1)
  <1>1. DOMAIN field = 1 .. Len(field) /\ Len(field) \in Nat
    BY LenProperties
  <1>2. Cardinality(dots) <= 1 /\ \A i \in DOMAIN field \ dots : field[i] \in Digits
    BY DEF ParseDecimalMilli
  <1>3. ASSUME NEW i \in dots, NEW j \in dots, i # j
        PROVE  FALSE
    <2> HIDE DEF dots
    <2>1. dots \subseteq 1 .. Len(field)
      BY <1>1 DEF dots
    <2>2. IsFiniteSet(dots)
      <3>1. IsFiniteSet(1 .. Len(field)) /\ dots \in SUBSET (1 .. Len(field))
        BY <1>1, <2>1, FS_Interval
      <3> QED
        BY <3>1, FS_Subset
    <2>3. Cardinality({i} \cup {j}) = 2
      <3>1. IsFiniteSet({i}) /\ Cardinality({i}) = 1 /\ j \notin {i}
        BY <1>3, FS_Singleton
      <3>2. Cardinality({i} \cup {j}) = Cardinality({i}) + 1
        BY <3>1, FS_AddElement, Zenon
      <3> QED
        BY <3>1, <3>2
    <2>4. Cardinality({i} \cup {j}) <= Cardinality(dots)
      <3>1. {i} \cup {j} \in SUBSET dots
        OBVIOUS
      <3> QED
        BY <2>2, <3>1, FS_Subset
    <2>5. Cardinality(dots) \in Nat
      BY <2>2, FS_CardinalityType
    <2> QED
      BY <1>2, <2>3, <2>4, <2>5
  <1>4. CASE dot = 0
    <2>1. WholePart(field) = field /\ Decimals(field) = <<>>
      BY <1>4, PartsOfField
    <2>2. \A i \in 1 .. Len(field) : field[i] \notin {"."}
      <3> HIDE DEF dots
      <3> QED
        BY <1>4, FirstOfFinds
    <2>3. \A i \in 1 .. Len(field) : field[i] \in Digits
      BY <1>1, <1>2, <2>2
    <2>4. SubSeq(field, 1, Len(field)) \in Seq(Digits)
      BY <1>1, <2>3, SubSeqProperties
    <2>5. field \in Seq(Digits)
      BY <2>4, SubSeqFull
    <2> QED
      BY <2>1, <2>5, EmptySeq
  <1>5. CASE dot # 0
    <2>1. /\ dot \in 1 .. Len(field) /\ field[dot] \in {"."}
          /\ \A i \in 1 .. dot - 1 : field[i] \notin {"."}
      <3> HIDE DEF dots
      <3> QED
        BY <1>5, FirstOfFinds
    <2>2. /\ WholePart(field) = SubSeq(field, 1, dot - 1)
          /\ \E last \in dot .. Len(field) :
                Decimals(field) = SubSeq(field, dot + 1, last)
      BY <1>5, PartsOfField
    <2>3. PICK last \in dot .. Len(field) :
             Decimals(field) = SubSeq(field, dot + 1, last)
      BY <2>2
    <2>4. field[dot] = "."
      BY <2>1
    <2> HIDE DEF dot
    <2>5. \A i \in 1 .. dot - 1 : field[i] \in Digits
      BY <1>1, <1>2, <2>1
    <2>6. dot \in dots
      BY <1>1, <2>1, <2>4
    <2>7. \A i \in dot + 1 .. last : field[i] \in Digits
      <3> SUFFICES ASSUME NEW i \in dot + 1 .. last
                   PROVE  field[i] \in Digits
        OBVIOUS
      <3>1. i \in DOMAIN field /\ i # dot
        BY <1>1, <2>1, <2>3
      <3>2. i \notin dots
        <4> HIDE DEF dots
        <4> QED
          BY <1>3, <2>6, <3>1
      <3> QED
        BY <1>2, <3>1, <3>2
    <2>8. SubSeq(field, 1, dot - 1) \in Seq(Digits)
      <3>1. dot - 1 \in Int
        BY <2>1
      <3> QED
        BY <2>5, <3>1, SubSeqProperties
    <2>9. SubSeq(field, dot + 1, last) \in Seq(Digits)
      <3>1. dot + 1 \in Int /\ last \in Int
        BY <2>1
      <3> QED
        BY <2>7, <3>1, SubSeqProperties
    <2> QED
      BY <2>2, <2>3, <2>8, <2>9
  <1> QED
    BY <1>4, <1>5

\* nmea_parse_hdop_milli reads an HDOP right, to the thousandth, whenever an int
\* can hold it: no step on the way there wraps.
THEOREM HdopIsExact ==
    ASSUME NEW s \in Seq(Byte), ParseHdopMilli(s) # <<>>
    PROVE  LET milli == Thousandths(Field(s, 8))
           IN  milli \in Nat /\ (milli <= IntMax => ParseHdopMilli(s) = <<milli>>)
  <1> DEFINE field == Field(s, 8)
             whole == Decimal(WholePart(field))
             part == Decimal(Decimals(field)) * Scale(field)
  <1>1. ParseHdopMilli(s) = <<DecimalMilli(field)>> /\ ParseDecimalMilli(field) # <<>>
    BY DEF ParseHdopMilli, ParseDecimalMilli
  <1>2. field \in Seq(Byte)
    BY FieldIsBytes
  <1> HIDE DEF field
  <1>3. WholePart(field) \in Seq(Digits) /\ Decimals(field) \in Seq(Digits)
    BY <1>1, <1>2, PartsAreDigits
  <1>4. PICK scale \in {1, 10, 100, 1000} : scale = Scale(field)
    BY <1>2, PartsAreBytes
  <1>5. /\ whole \in Nat /\ Decimal(Decimals(field)) \in Nat
        /\ whole <= IntMax => Number(WholePart(field)) = whole
        /\ Decimal(Decimals(field)) <= IntMax =>
              Number(Decimals(field)) = Decimal(Decimals(field))
    BY <1>3, NumberIsExact
  <1>6. part \in Nat /\ Decimal(Decimals(field)) <= part
    BY <1>4, <1>5
  <1>7. Thousandths(field) = whole * 1000 + part
    BY DEF Thousandths
  <1> HIDE DEF whole
  <1>8. ASSUME Thousandths(field) <= IntMax
        PROVE  DecimalMilli(field) = Thousandths(field)
    <2>1. Decimal(Decimals(field)) <= IntMax
      <3> HIDE DEF part
      <3> QED
        BY <1>5, <1>6, <1>7, <1>8, IntAssumption
    <2>2. Number(Decimals(field)) * Scale(field) = part
      BY <1>5, <2>1
    <2> HIDE DEF part
    <2>3. whole <= IntMax /\ whole * 1000 \in 0 .. IntMax
      BY <1>5, <1>6, <1>7, <1>8, IntAssumption
    <2>4. Wrapped(Number(WholePart(field)) * 1000) = whole * 1000
      BY <1>5, <2>3, WrappedFits
    <2>5. whole * 1000 + part \in 0 .. IntMax
      BY <1>5, <1>6, <1>7, <1>8, IntAssumption
    <2>6. DecimalMilli(field) = Wrapped(whole * 1000 + part)
      BY <2>2, <2>4 DEF DecimalMilli
    <2> QED
      BY <1>7, <2>5, <2>6, WrappedFits
  <1>9. Thousandths(field) \in Nat
    <2> HIDE DEF part
    <2> QED
      BY <1>5, <1>6, <1>7
  <1> QED
    BY <1>1, <1>8, <1>9 DEF field

-----------------------------------------------------------------------------
(* The two parsers, one byte and one chunk at a time.                      *)

Buffers == {s \in Seq(Byte) : Len(s) <= MaxSentenceLen}
ProbeStates == [inSentence : BOOLEAN, sentence : Buffers, valid : BOOLEAN]
ParserStates ==
    [inSentence : BOOLEAN, sentence : Buffers,
     pending : {None} \cup [line : Buffers, hdop : Ints],
     sent : Seq([gga : Buffers, rmc : Buffers, hdop : Ints])]

LEMMA BufferGrows ==
    ASSUME NEW s \in Buffers, NEW b \in Byte, ~(Len(s) >= MaxSentenceLen)
    PROVE  Append(s, b) \in Buffers
  BY SentenceAssumption DEF Buffers

LEMMA ShortBuffers ==
    /\ <<>> \in Buffers
    /\ \A b \in Byte : <<b>> \in Buffers
  BY SentenceAssumption DEF Buffers

\* A byte leaves the probe what it is.
LEMMA ProbeByteType ==
    ASSUME NEW p \in ProbeStates, NEW b \in Byte
    PROVE  ProbeByte(p, b) \in ProbeStates
  <1> USE DEF ProbeStates
  <1>1. ProbeReset \in ProbeStates
    BY ShortBuffers DEF ProbeReset
  <1>2. [ProbeReset EXCEPT !.inSentence = TRUE, !.sentence = <<b>>] \in ProbeStates
    BY ShortBuffers DEF ProbeReset
  <1>3. [ProbeReset EXCEPT !.valid = LooksValid(Append(p.sentence, b))
                                         /\ ChecksumOk(Append(p.sentence, b))]
            \in ProbeStates
    BY <1>1
  <1>4. ~(Len(p.sentence) >= MaxSentenceLen) =>
            [p EXCEPT !.sentence = Append(p.sentence, b)] \in ProbeStates
    BY BufferGrows
  <1> QED
    BY <1>1, <1>2, <1>3, <1>4 DEF ProbeByte

\* So does a byte the pairing parser.
LEMMA CompleteSentenceType ==
    ASSUME NEW q \in ParserStates
    PROVE  CompleteSentence(q) \in ParserStates
  <1> DEFINE s == q.sentence
             hdop == ParseHdopMilli(s)
             waits == [q EXCEPT !.pending = [line |-> s, hdop |-> hdop[1]]]
             pair == [gga |-> q.pending.line, rmc |-> s, hdop |-> q.pending.hdop]
             sends == [q EXCEPT !.pending = None, !.sent = Append(@, pair)]
  <1>1. s \in Buffers /\ s \in Seq(Byte)
    BY DEF ParserStates, Buffers
  <1>2. CASE ChecksumOk(s) /\ hdop # <<>>
    <2>1. hdop[1] \in Ints
      BY <1>1, <1>2, HdopIsInt
    <2> HIDE DEF hdop
    <2>2. [line |-> s, hdop |-> hdop[1]] \in [line : Buffers, hdop : Ints]
      BY <1>1, <2>1
    <2>3. waits \in ParserStates
      BY <2>2 DEF ParserStates
    <2> HIDE DEF waits
    <2> QED
      BY <1>2, <2>3 DEF CompleteSentence, waits, hdop
  <1>3. CASE ChecksumOk(s) /\ hdop = <<>> /\ TypeOf(s) = TypeRmc /\ q.pending # None
    <2>1. q.pending \in [line : Buffers, hdop : Ints]
      BY <1>3 DEF ParserStates
    <2>2. pair \in [gga : Buffers, rmc : Buffers, hdop : Ints]
      BY <1>1, <2>1
    <2>3. Append(q.sent, pair) \in Seq([gga : Buffers, rmc : Buffers, hdop : Ints])
      <3> HIDE DEF pair
      <3> QED
        BY <2>2, AppendProperties DEF ParserStates
    <2>4. sends \in ParserStates
      <3> HIDE DEF pair
      <3> QED
        BY <2>3 DEF ParserStates
    <2> QED
      BY <1>3, <2>4 DEF CompleteSentence
  <1>4. CASE ~ChecksumOk(s) \/ (hdop = <<>> /\ ~(TypeOf(s) = TypeRmc /\ q.pending # None))
    BY <1>4 DEF CompleteSentence
  <1> QED
    BY <1>2, <1>3, <1>4

LEMMA ParserByteType ==
    ASSUME NEW p \in ParserStates, NEW b \in Byte
    PROVE  ParserByte(p, b) \in ParserStates
  <1>1. [p EXCEPT !.inSentence = TRUE, !.sentence = <<b>>] \in ParserStates
    BY ShortBuffers DEF ParserStates
  <1>2. \A q \in ParserStates : OutOfSentence(q) \in ParserStates
    BY ShortBuffers DEF ParserStates, OutOfSentence
  <1>3. ~(Len(p.sentence) >= MaxSentenceLen) =>
            [p EXCEPT !.sentence = Append(@, b)] \in ParserStates
    BY BufferGrows DEF ParserStates
  <1> QED
    BY <1>1, <1>2, <1>3, CompleteSentenceType DEF ParserByte

\* A feed is one step after the other.
LEMMA ProbeFeedIs ==
    ASSUME NEW p \in ProbeStates, NEW chunk \in Seq(Byte)
    PROVE  \E f : /\ f[0] = p
                  /\ \A k \in 1 .. Len(chunk) : f[k] = ProbeByte(f[k - 1], chunk[k])
                  /\ ProbeFeed(p, chunk) = f[Len(chunk)]
  <1> DEFINE N == Len(chunk)
             step == [x \in ProbeStates \X (1 .. N) |-> ProbeByte(x[1], chunk[x[2]])]
             After(g) == g = [n \in 0 .. N |->
                                 IF n = 0 THEN p ELSE ProbeByte(g[n - 1], chunk[n])]
             F == CHOOSE g : After(g)
  <1>1. N \in Nat
    BY LenProperties
  <1>2. step \in [ProbeStates \X (1 .. N) -> ProbeStates]
    <2>1. ASSUME NEW x \in ProbeStates, NEW k \in 1 .. N
          PROVE  ProbeByte(x, chunk[k]) \in ProbeStates
      BY ElementOfSeq, ProbeByteType
    <2> QED
      BY <2>1
  <1>3. PICK f \in [0 .. N -> ProbeStates] :
                f[0] = p /\ \A k \in 1 .. N : f[k] = step[<<f[k - 1], k>>]
    <2> HIDE DEF step, N
    <2>1. Runs(ProbeStates, N, step, p) # {}
      BY <1>1, <1>2, RecursionIsDefined
    <2> QED
      BY <2>1 DEF Runs
  <1>4. After(f)
    <2>1. ASSUME NEW n \in 0 .. N, n # 0
          PROVE  f[n] = ProbeByte(f[n - 1], chunk[n])
      <3>1. n \in 1 .. N /\ f[n - 1] \in ProbeStates
        BY <1>1, <2>1
      <3> QED
        BY <1>3, <3>1
    <2> QED
      BY <1>3, <2>1
  <1>5. After(F)
    BY <1>4
  <1>6. ProbeFeed(p, chunk) = F[N]
    BY DEF ProbeFeed
  <1> HIDE DEF F
  <1>7. F[0] = p /\ \A k \in 1 .. N : F[k] = ProbeByte(F[k - 1], chunk[k])
    BY <1>1, <1>5
  <1> QED
    BY <1>6, <1>7

\* What each byte keeps, the probe keeps over a chunk: I relates it to the
\* bytes it was fed.
LEMMA ProbeFeedKeeps ==
    ASSUME NEW I,
           \A x \in ProbeStates : \A g \in Seq(Byte) : \A b \in Byte :
               <<x, g>> \in I => <<ProbeByte(x, b), Append(g, b)>> \in I,
           NEW p \in ProbeStates, NEW h \in Seq(Byte), <<p, h>> \in I,
           NEW chunk \in Seq(Byte)
    PROVE  <<ProbeFeed(p, chunk), h \o chunk>> \in I /\ ProbeFeed(p, chunk) \in ProbeStates
  <1> DEFINE J == I \cap (ProbeStates \X Seq(Byte))
  <1>1. PICK f : /\ f[0] = p
                 /\ \A k \in 1 .. Len(chunk) : f[k] = ProbeByte(f[k - 1], chunk[k])
                 /\ ProbeFeed(p, chunk) = f[Len(chunk)]
    BY ProbeFeedIs
  <1>2. <<f[0], h>> \in J
    BY <1>1
  <1>3. ASSUME NEW n \in 1 .. Len(chunk), NEW g \in Seq(Byte), <<f[n - 1], g>> \in J
        PROVE  <<f[n], Append(g, chunk[n])>> \in J
    <2>1. f[n - 1] \in ProbeStates /\ <<f[n - 1], g>> \in I /\ chunk[n] \in Byte
      BY <1>3, ElementOfSeq
    <2>2. f[n] = ProbeByte(f[n - 1], chunk[n])
      BY <1>1
    <2>3. f[n] \in ProbeStates /\ Append(g, chunk[n]) \in Seq(Byte)
      BY <2>1, <2>2, ProbeByteType, AppendProperties
    <2>4. <<f[n], Append(g, chunk[n])>> \in I
      BY <2>1, <2>2
    <2> QED
      BY <2>3, <2>4
  <1>4. <<f[Len(chunk)], h \o chunk>> \in J
    <2> HIDE DEF J
    <2> QED
      BY <1>2, <1>3, ChunkKeeps
  <1> QED
    BY <1>1, <1>4

LEMMA ParserFeedIs ==
    ASSUME NEW p \in ParserStates, NEW chunk \in Seq(Byte)
    PROVE  \E f : /\ f[0] = p
                  /\ \A k \in 1 .. Len(chunk) : f[k] = ParserByte(f[k - 1], chunk[k])
                  /\ ParserFeed(p, chunk) = f[Len(chunk)]
  <1> DEFINE N == Len(chunk)
             step == [x \in ParserStates \X (1 .. N) |-> ParserByte(x[1], chunk[x[2]])]
             After(g) == g = [n \in 0 .. N |->
                                 IF n = 0 THEN p ELSE ParserByte(g[n - 1], chunk[n])]
             F == CHOOSE g : After(g)
  <1>1. N \in Nat
    BY LenProperties
  <1>2. step \in [ParserStates \X (1 .. N) -> ParserStates]
    <2>1. ASSUME NEW x \in ParserStates, NEW k \in 1 .. N
          PROVE  ParserByte(x, chunk[k]) \in ParserStates
      BY ElementOfSeq, ParserByteType
    <2> QED
      BY <2>1
  <1>3. PICK f \in [0 .. N -> ParserStates] :
                f[0] = p /\ \A k \in 1 .. N : f[k] = step[<<f[k - 1], k>>]
    <2> HIDE DEF step, N
    <2>1. Runs(ParserStates, N, step, p) # {}
      BY <1>1, <1>2, RecursionIsDefined
    <2> QED
      BY <2>1 DEF Runs
  <1>4. After(f)
    <2>1. ASSUME NEW n \in 0 .. N, n # 0
          PROVE  f[n] = ParserByte(f[n - 1], chunk[n])
      <3>1. n \in 1 .. N /\ f[n - 1] \in ParserStates
        BY <1>1, <2>1
      <3> QED
        BY <1>3, <3>1
    <2> QED
      BY <1>3, <2>1
  <1>5. After(F)
    BY <1>4
  <1>6. ParserFeed(p, chunk) = F[N]
    BY DEF ParserFeed
  <1> HIDE DEF F
  <1>7. F[0] = p /\ \A k \in 1 .. N : F[k] = ParserByte(F[k - 1], chunk[k])
    BY <1>1, <1>5
  <1> QED
    BY <1>6, <1>7

\* What each byte keeps, the pairing parser keeps over a chunk: I relates it to the
\* bytes it was fed.
LEMMA ParserFeedKeeps ==
    ASSUME NEW I,
           \A x \in ParserStates : \A g \in Seq(Byte) : \A b \in Byte :
               <<x, g>> \in I => <<ParserByte(x, b), Append(g, b)>> \in I,
           NEW p \in ParserStates, NEW h \in Seq(Byte), <<p, h>> \in I,
           NEW chunk \in Seq(Byte)
    PROVE  <<ParserFeed(p, chunk), h \o chunk>> \in I /\ ParserFeed(p, chunk) \in ParserStates
  <1> DEFINE J == I \cap (ParserStates \X Seq(Byte))
  <1>1. PICK f : /\ f[0] = p
                 /\ \A k \in 1 .. Len(chunk) : f[k] = ParserByte(f[k - 1], chunk[k])
                 /\ ParserFeed(p, chunk) = f[Len(chunk)]
    BY ParserFeedIs
  <1>2. <<f[0], h>> \in J
    BY <1>1
  <1>3. ASSUME NEW n \in 1 .. Len(chunk), NEW g \in Seq(Byte), <<f[n - 1], g>> \in J
        PROVE  <<f[n], Append(g, chunk[n])>> \in J
    <2>1. f[n - 1] \in ParserStates /\ <<f[n - 1], g>> \in I /\ chunk[n] \in Byte
      BY <1>3, ElementOfSeq
    <2>2. f[n] = ParserByte(f[n - 1], chunk[n])
      BY <1>1
    <2>3. f[n] \in ParserStates /\ Append(g, chunk[n]) \in Seq(Byte)
      BY <2>1, <2>2, ParserByteType, AppendProperties
    <2>4. <<f[n], Append(g, chunk[n])>> \in I
      BY <2>1, <2>2
    <2> QED
      BY <2>3, <2>4
  <1>4. <<f[Len(chunk)], h \o chunk>> \in J
    <2> HIDE DEF J
    <2> QED
      BY <1>2, <1>3, ChunkKeeps
  <1> QED
    BY <1>1, <1>4

-----------------------------------------------------------------------------
(* Lines.                                                                  *)

LineAt(h, i, j) == i \in 1 .. Len(h) /\ j \in 1 .. Len(h) /\ IsLine(SubSeq(h, i, j))

\* The line that begins at byte k goes on, and a buffer still holds it.
Open(h, k) ==
    /\ h[k] = "$"
    /\ \A i \in k + 1 .. Len(h) : h[i] \notin {"$", "\n"}
    /\ Len(h) - k + 1 <= MaxSentenceLen

Assembling(s, h) == \E k \in 1 .. Len(h) : Open(h, k) /\ s = SubSeq(h, k, Len(h))
Idle(h) == \A k \in 1 .. Len(h) : ~Open(h, k)

\* A line, byte by byte.
LEMMA LineBytes ==
    ASSUME NEW h \in Seq(Byte), NEW i \in 1 .. Len(h), NEW j \in 1 .. Len(h)
    PROVE  IsLine(SubSeq(h, i, j)) <=>
              /\ i < j /\ j - i + 1 <= MaxSentenceLen
              /\ h[i] = "$" /\ h[j] = "\n"
              /\ \A k \in i + 1 .. j - 1 : h[k] \notin {"$", "\n"}
  <1> DEFINE s == SubSeq(h, i, j)
  <1>1. \A k \in i .. j : h[k] \in Byte
    BY ElementOfSeq
  <1>2. /\ s \in Seq(Byte)
        /\ Len(s) = IF i <= j THEN j - i + 1 ELSE 0
        /\ \A k \in 1 .. j - i + 1 : s[k] = h[i + k - 1]
    BY <1>1, SubSeqProperties
  <1>3. i \in Int /\ j \in Int /\ MaxSentenceLen \in Nat
    BY SentenceAssumption
  <1> HIDE DEF s
  <1>4. CASE i < j
    <2>1. Len(s) = j - i + 1 /\ Len(s) \in Nat /\ Len(s) >= 2
      BY <1>2, <1>3, <1>4
    <2>2. s[1] = h[i] /\ s[Len(s)] = h[j]
      <3>1. 1 \in 1 .. j - i + 1 /\ j - i + 1 \in 1 .. j - i + 1
            /\ i + 1 - 1 = i /\ i + (j - i + 1) - 1 = j
        BY <1>3, <1>4
      <3> QED
        BY <1>2, <2>1, <3>1
    <2>3. ASSUME NEW k \in i + 1 .. j - 1
          PROVE  k - i + 1 \in 2 .. Len(s) - 1 /\ s[k - i + 1] = h[k]
      <3>1. k - i + 1 \in 1 .. j - i + 1 /\ i + (k - i + 1) - 1 = k
        BY <1>3
      <3> QED
        BY <1>2, <1>3, <2>1, <3>1
    <2>4. ASSUME NEW k \in 2 .. Len(s) - 1
          PROVE  i + k - 1 \in i + 1 .. j - 1 /\ s[k] = h[i + k - 1]
      BY <1>2, <1>3, <2>1
    <2>5. (\A k \in 2 .. Len(s) - 1 : s[k] \notin {"$", "\n"}) <=>
              \A k \in i + 1 .. j - 1 : h[k] \notin {"$", "\n"}
      BY <2>3, <2>4
    <2>6. Len(s) \in 2 .. MaxSentenceLen <=> j - i + 1 <= MaxSentenceLen
      BY <1>3, <2>1
    <2> QED
      BY <1>4, <2>2, <2>5, <2>6 DEF IsLine, s
  <1>5. CASE ~(i < j)
    <2>1. Len(s) \notin 2 .. MaxSentenceLen
      BY <1>2, <1>3, <1>5
    <2> QED
      BY <1>5, <2>1 DEF IsLine, s
  <1> QED
    BY <1>4, <1>5

\* Two lines with the same end are the same.
LEMMA LineIsUnique ==
    ASSUME NEW h \in Seq(Byte), NEW i, NEW k, NEW j, LineAt(h, i, j), LineAt(h, k, j)
    PROVE  i = k
  <1>1. i \in 1 .. Len(h) /\ k \in 1 .. Len(h) /\ j \in 1 .. Len(h)
    BY DEF LineAt
  <1>2. /\ i < j /\ h[i] = "$" /\ \A l \in i + 1 .. j - 1 : h[l] # "$"
        /\ k < j /\ h[k] = "$" /\ \A l \in k + 1 .. j - 1 : h[l] # "$"
    BY <1>1, LineBytes DEF LineAt
  <1> QED
    BY <1>1, <1>2

\* One byte more changes nothing before it.
LEMMA AppendKeeps ==
    ASSUME NEW h \in Seq(Byte), NEW b \in Byte, NEW g, g = Append(h, b)
    PROVE  /\ g \in Seq(Byte) /\ Len(g) = Len(h) + 1 /\ Len(h) \in Nat
           /\ g[Len(g)] = b
           /\ \A i \in 1 .. Len(h) : g[i] = h[i]
           /\ \A i, j \in 1 .. Len(h) : SubSeq(g, i, j) = SubSeq(h, i, j)
           /\ \A i \in 1 .. Len(h) : SubSeq(g, i, Len(g)) = Append(SubSeq(h, i, Len(h)), b)
           /\ SubSeq(g, Len(g), Len(g)) = <<b>>
  <1>1. /\ g \in Seq(Byte) /\ Len(g) = Len(h) + 1 /\ Len(h) \in Nat
        /\ g[Len(g)] = b
        /\ \A i \in 1 .. Len(h) : g[i] = h[i]
    BY AppendProperties, LenProperties
  <1>2. g = h \o <<b>> /\ <<b>> \in Seq(Byte)
    BY AppendIsConcat
  <1>3. \A i, j \in 1 .. Len(h) : SubSeq(g, i, j) = SubSeq(h, i, j)
    BY <1>2, SubSeqOfConcat1
  <1>4. SubSeq(g, Len(g), Len(g)) = <<b>>
    <2>1. Len(g) \in 1 .. Len(g) /\ Len(g) \in Len(g) .. Len(g)
      BY <1>1
    <2>2. SubSeq(g, Len(g), Len(g)) = <<g[Len(g)]>> \o SubSeq(g, Len(g) + 1, Len(g))
      BY <1>1, <2>1, SubSeqRecursiveFirst
    <2>3. SubSeq(g, Len(g) + 1, Len(g)) = <<>>
      BY <1>1, SubSeqEmpty
    <2> QED
      BY <1>1, <1>2, <2>2, <2>3, ConcatEmptySeq
  <1>5. ASSUME NEW i \in 1 .. Len(h)
        PROVE  SubSeq(g, i, Len(g)) = Append(SubSeq(h, i, Len(h)), b)
    <2>1. i \in 1 .. Len(g) /\ Len(g) \in i .. Len(g) /\ Len(g) - 1 = Len(h)
          /\ Len(h) \in 1 .. Len(h)
      BY <1>1
    <2>2. SubSeq(g, i, Len(g)) = SubSeq(g, i, Len(h)) \o <<b>>
      BY <1>1, <2>1, SubSeqRecursiveSecond
    <2>3. SubSeq(h, i, Len(h)) \in Seq(Byte)
      BY <1>1, PartIsBytes
    <2>4. Append(SubSeq(h, i, Len(h)), b) = SubSeq(h, i, Len(h)) \o <<b>>
      BY <2>3, AppendIsConcat
    <2> QED
      BY <1>3, <2>1, <2>2, <2>4
  <1> QED
    BY <1>1, <1>3, <1>4, <1>5

\* Where one byte more leaves the line that was open.
LEMMA OpenAfter ==
    ASSUME NEW h \in Seq(Byte), NEW b \in Byte, NEW g, g = Append(h, b)
    PROVE  /\ Open(g, Len(g)) <=> b = "$"
           /\ \A k \in 1 .. Len(h) :
                 Open(g, k) <=> /\ Open(h, k) /\ b \notin {"$", "\n"}
                                /\ Len(h) - k + 1 < MaxSentenceLen
  <1>1. /\ Len(g) = Len(h) + 1 /\ Len(h) \in Nat /\ g[Len(g)] = b
        /\ \A i \in 1 .. Len(h) : g[i] = h[i]
    BY AppendKeeps
  <1>2. MaxSentenceLen \in Nat \ {0}
    BY SentenceAssumption
  <1>3. Open(g, Len(g)) <=> b = "$"
    BY <1>1, <1>2 DEF Open
  <1>4. ASSUME NEW k \in 1 .. Len(h)
        PROVE  Open(g, k) <=> /\ Open(h, k) /\ b \notin {"$", "\n"}
                              /\ Len(h) - k + 1 < MaxSentenceLen
    <2>1. \A i \in k + 1 .. Len(h) : i \in k + 1 .. Len(g) /\ g[i] = h[i]
      BY <1>1
    <2>2. \A i \in k + 1 .. Len(g) : i \in k + 1 .. Len(h) \/ i = Len(g)
      BY <1>1
    <2>3. Len(g) \in k + 1 .. Len(g)
      BY <1>1
    <2>4. (\A i \in k + 1 .. Len(g) : g[i] \notin {"$", "\n"}) <=>
              /\ \A i \in k + 1 .. Len(h) : h[i] \notin {"$", "\n"}
              /\ b \notin {"$", "\n"}
      BY <1>1, <2>1, <2>2, <2>3
    <2>5. Len(g) - k + 1 <= MaxSentenceLen <=> Len(h) - k + 1 < MaxSentenceLen
      BY <1>1, <1>2
    <2>6. Len(h) - k + 1 < MaxSentenceLen => Len(h) - k + 1 <= MaxSentenceLen
      BY <1>1, <1>2
    <2> QED
      BY <1>1, <2>4, <2>5, <2>6 DEF Open
  <1> QED
    BY <1>3, <1>4

\* A line ends with the newline that closes the one that was open.
LEMMA LineAfter ==
    ASSUME NEW h \in Seq(Byte), NEW b \in Byte, NEW g, g = Append(h, b)
    PROVE  /\ ~LineAt(g, Len(g), Len(g))
           /\ \A i \in 1 .. Len(h) :
                 LineAt(g, i, Len(g)) <=> /\ Open(h, i) /\ b = "\n"
                                          /\ Len(h) - i + 1 < MaxSentenceLen
           /\ \A i \in 1 .. Len(g) : \A j \in 1 .. Len(h) :
                 LineAt(g, i, j) <=> LineAt(h, i, j)
  <1>1. /\ Len(g) = Len(h) + 1 /\ Len(h) \in Nat /\ g[Len(g)] = b /\ g \in Seq(Byte)
        /\ \A i \in 1 .. Len(h) : g[i] = h[i]
        /\ \A i, j \in 1 .. Len(h) : SubSeq(g, i, j) = SubSeq(h, i, j)
    BY AppendKeeps
  <1>2. MaxSentenceLen \in Nat \ {0}
    BY SentenceAssumption
  <1>3. ~LineAt(g, Len(g), Len(g))
    <2>1. Len(g) \in 1 .. Len(g) /\ ~(Len(g) < Len(g))
      BY <1>1
    <2> QED
      BY <1>1, <2>1, LineBytes DEF LineAt
  <1>4. ASSUME NEW i \in 1 .. Len(h)
        PROVE  LineAt(g, i, Len(g)) <=> /\ Open(h, i) /\ b = "\n"
                                        /\ Len(h) - i + 1 < MaxSentenceLen
    <2>1. i \in 1 .. Len(g) /\ Len(g) \in 1 .. Len(g) /\ i < Len(g) /\ Len(g) - 1 = Len(h)
      BY <1>1
    <2>2. LineAt(g, i, Len(g)) <=>
              /\ Len(g) - i + 1 <= MaxSentenceLen
              /\ g[i] = "$" /\ g[Len(g)] = "\n"
              /\ \A k \in i + 1 .. Len(g) - 1 : g[k] \notin {"$", "\n"}
      <3>1. LineAt(g, i, Len(g)) <=> IsLine(SubSeq(g, i, Len(g)))
        BY <2>1 DEF LineAt
      <3>2. IsLine(SubSeq(g, i, Len(g))) <=>
                /\ i < Len(g) /\ Len(g) - i + 1 <= MaxSentenceLen
                /\ g[i] = "$" /\ g[Len(g)] = "\n"
                /\ \A k \in i + 1 .. Len(g) - 1 : g[k] \notin {"$", "\n"}
        <4> HIDE DEF LineAt
        <4> QED
          BY <1>1, <2>1, LineBytes
      <3> QED
        BY <2>1, <3>1, <3>2
    <2>3. (\A k \in i + 1 .. Len(g) - 1 : g[k] \notin {"$", "\n"}) <=>
              \A k \in i + 1 .. Len(h) : h[k] \notin {"$", "\n"}
      <3>1. \A k \in i + 1 .. Len(h) : g[k] = h[k]
        BY <1>1
      <3> QED
        BY <2>1, <3>1
    <2>4. Len(g) - i + 1 <= MaxSentenceLen <=> Len(h) - i + 1 < MaxSentenceLen
      BY <1>1, <1>2
    <2>5. Len(h) - i + 1 < MaxSentenceLen => Len(h) - i + 1 <= MaxSentenceLen
      BY <1>1, <1>2
    <2> QED
      BY <1>1, <2>2, <2>3, <2>4, <2>5 DEF Open
  <1>5. ASSUME NEW i \in 1 .. Len(g), NEW j \in 1 .. Len(h)
        PROVE  LineAt(g, i, j) <=> LineAt(h, i, j)
    <2>1. CASE i \in 1 .. Len(h)
      <3>1. j \in 1 .. Len(g)
        BY <1>1
      <3> QED
        BY <1>1, <2>1, <3>1 DEF LineAt
    <2>2. CASE i = Len(g)
      <3>1. ~(i < j) /\ i \notin 1 .. Len(h) /\ j \in 1 .. Len(g)
        BY <1>1, <2>2
      <3> QED
        BY <1>1, <3>1, LineBytes DEF LineAt
    <2> QED
      BY <1>1, <2>1, <2>2
  <1> QED
    BY <1>3, <1>4, <1>5

\* The open line is the last one with a '$'.
LEMMA OpenIsUnique ==
    ASSUME NEW h \in Seq(Byte), NEW k \in 1 .. Len(h), NEW l \in 1 .. Len(h),
           Open(h, k), Open(h, l)
    PROVE  k = l
  BY LenProperties DEF Open

\* How long it is.
LEMMA OpenLength ==
    ASSUME NEW h \in Seq(Byte), NEW k \in 1 .. Len(h)
    PROVE  SubSeq(h, k, Len(h)) \in Seq(Byte) /\ Len(SubSeq(h, k, Len(h))) = Len(h) - k + 1
  <1>1. Len(h) \in Nat /\ \A i \in k .. Len(h) : h[i] \in Byte
    BY LenProperties, ElementOfSeq
  <1> QED
    BY <1>1, SubSeqProperties

\* What each byte makes of the assembly.
LEMMA Restarts ==
    ASSUME NEW h \in Seq(Byte)
    PROVE  /\ Assembling(<<"$">>, Append(h, "$"))
           /\ \A i : ~LineAt(Append(h, "$"), i, Len(h) + 1)
  <1> DEFINE g == Append(h, "$")
  <1>1. "$" \in Byte
    BY ByteAssumption
  <1>2. /\ Len(g) = Len(h) + 1 /\ Len(h) \in Nat /\ SubSeq(g, Len(g), Len(g)) = <<"$">>
    <2>1. g = Append(h, "$")
      OBVIOUS
    <2> HIDE DEF g
    <2>2. /\ Len(g) = Len(h) + 1 /\ Len(h) \in Nat
          /\ SubSeq(g, Len(g), Len(g)) = <<"$">>
      BY <1>1, <2>1, AppendKeeps
    <2> QED
      BY <2>2
  <1>3. Open(g, Len(g))
    BY <1>1, OpenAfter
  <1>4. Assembling(<<"$">>, g)
    <2>1. Len(g) \in 1 .. Len(g)
      BY <1>2
    <2> HIDE DEF g
    <2> QED
      BY <1>2, <1>3, <2>1 DEF Assembling
  <1>5. ASSUME NEW i, LineAt(g, i, Len(g))
        PROVE  FALSE
    <2>1. i \in 1 .. Len(h) \/ i = Len(g)
      BY <1>2, <1>5 DEF LineAt
    <2> QED
      BY <1>1, <1>5, <2>1, LineAfter
  <1> QED
    BY <1>2, <1>4, <1>5

LEMMA StaysIdle ==
    ASSUME NEW h \in Seq(Byte), NEW b \in Byte, b # "$", Idle(h)
    PROVE  /\ Idle(Append(h, b))
           /\ \A i : ~LineAt(Append(h, b), i, Len(h) + 1)
  <1> DEFINE g == Append(h, b)
  <1>1. Len(g) = Len(h) + 1 /\ Len(h) \in Nat
    BY AppendKeeps
  <1>2. \A i \in 1 .. Len(g) : i \in 1 .. Len(h) \/ i = Len(g)
    BY <1>1
  <1>3. ASSUME NEW i \in 1 .. Len(g)
        PROVE  ~Open(g, i)
    BY <1>2, OpenAfter DEF Idle
  <1>4. ASSUME NEW i, LineAt(g, i, Len(g))
        PROVE  FALSE
    <2>1. i \in 1 .. Len(g)
      BY <1>4 DEF LineAt
    <2> QED
      BY <1>2, <1>4, <2>1, LineAfter DEF Idle
  <1> QED
    BY <1>1, <1>3, <1>4 DEF Idle

\* An overlong line is given up.
LEMMA GivesUp ==
    ASSUME NEW h \in Seq(Byte), NEW b \in Byte, b # "$",
           NEW s, Assembling(s, h), Len(s) >= MaxSentenceLen
    PROVE  /\ Idle(Append(h, b))
           /\ \A i : ~LineAt(Append(h, b), i, Len(h) + 1)
  <1> DEFINE g == Append(h, b)
  <1>1. Len(g) = Len(h) + 1 /\ Len(h) \in Nat /\ MaxSentenceLen \in Nat
    BY AppendKeeps, SentenceAssumption
  <1>2. \A i \in 1 .. Len(g) : i \in 1 .. Len(h) \/ i = Len(g)
    BY <1>1
  <1>3. PICK k \in 1 .. Len(h) : Open(h, k) /\ s = SubSeq(h, k, Len(h))
    BY DEF Assembling
  <1>4. ~(Len(h) - k + 1 < MaxSentenceLen)
    BY <1>1, <1>3, OpenLength
  <1>5. \A i \in 1 .. Len(h) : Open(h, i) => ~(Len(h) - i + 1 < MaxSentenceLen)
    BY <1>3, <1>4, OpenIsUnique
  <1>6. ASSUME NEW i \in 1 .. Len(g)
        PROVE  ~Open(g, i)
    BY <1>2, <1>5, OpenAfter
  <1>7. ASSUME NEW i, LineAt(g, i, Len(g))
        PROVE  FALSE
    <2>1. i \in 1 .. Len(g)
      BY <1>7 DEF LineAt
    <2> QED
      BY <1>2, <1>5, <1>7, <2>1, LineAfter
  <1> QED
    BY <1>1, <1>6, <1>7 DEF Idle

LEMMA GoesOn ==
    ASSUME NEW h \in Seq(Byte), NEW b \in Byte, b \notin {"$", "\n"},
           NEW s, Assembling(s, h), ~(Len(s) >= MaxSentenceLen)
    PROVE  /\ Assembling(Append(s, b), Append(h, b))
           /\ \A i : ~LineAt(Append(h, b), i, Len(h) + 1)
  <1> DEFINE g == Append(h, b)
  <1>1. /\ Len(g) = Len(h) + 1 /\ Len(h) \in Nat /\ MaxSentenceLen \in Nat
        /\ \A i \in 1 .. Len(h) : SubSeq(g, i, Len(g)) = Append(SubSeq(h, i, Len(h)), b)
    BY AppendKeeps, SentenceAssumption
  <1>2. PICK k \in 1 .. Len(h) : Open(h, k) /\ s = SubSeq(h, k, Len(h))
    BY DEF Assembling
  <1>3. Len(h) - k + 1 < MaxSentenceLen
    BY <1>1, <1>2, OpenLength
  <1>4. Open(g, k) /\ k \in 1 .. Len(g)
    <2>1. k \in 1 .. Len(g)
      BY <1>1
    <2>2. Open(g, k) <=> /\ Open(h, k) /\ b \notin {"$", "\n"}
                         /\ Len(h) - k + 1 < MaxSentenceLen
      <3> HIDE DEF g
      <3>1. g = Append(h, b)
        BY DEF g
      <3> QED
        BY <3>1, OpenAfter
    <2> QED
      BY <1>2, <1>3, <2>1, <2>2
  <1>5. Append(s, b) = SubSeq(g, k, Len(g))
    BY <1>1, <1>2
  <1>6. ASSUME NEW i, LineAt(g, i, Len(g))
        PROVE  FALSE
    <2>1. i \in 1 .. Len(g)
      BY <1>6 DEF LineAt
    <2>2. Len(g) = Len(h) + 1 /\ Len(h) \in Nat
      BY <1>1
    <2>3. i \in 1 .. Len(h) \/ i = Len(g)
      <3> HIDE DEF g
      <3> QED
        BY <2>1, <2>2
    <2> QED
      BY <1>6, <2>3, LineAfter
  <1> HIDE DEF g
  <1>7. Assembling(Append(s, b), g)
    BY <1>4, <1>5 DEF Assembling
  <1> QED
    BY <1>1, <1>6, <1>7 DEF g

\* A newline completes the line.
LEMMA Completes ==
    ASSUME NEW h \in Seq(Byte), NEW s, Assembling(s, h), ~(Len(s) >= MaxSentenceLen)
    PROVE  /\ Idle(Append(h, "\n"))
           /\ \E i : /\ LineAt(Append(h, "\n"), i, Len(h) + 1)
                     /\ SubSeq(Append(h, "\n"), i, Len(h) + 1) = Append(s, "\n")
  <1> DEFINE g == Append(h, "\n")
  <1>1. "\n" \in Byte
    BY ByteAssumption DEF EndOfLine
  <1>2. /\ Len(g) = Len(h) + 1 /\ Len(h) \in Nat /\ MaxSentenceLen \in Nat
        /\ \A i \in 1 .. Len(h) : SubSeq(g, i, Len(g)) = Append(SubSeq(h, i, Len(h)), "\n")
    BY <1>1, AppendKeeps, SentenceAssumption
  <1>3. PICK k \in 1 .. Len(h) : Open(h, k) /\ s = SubSeq(h, k, Len(h))
    BY DEF Assembling
  <1>4. Len(h) - k + 1 < MaxSentenceLen
    BY <1>2, <1>3, OpenLength
  <1>5. LineAt(g, k, Len(g))
    BY <1>1, <1>3, <1>4, LineAfter
  <1>6. SubSeq(g, k, Len(g)) = Append(s, "\n")
    BY <1>2, <1>3
  <1>7. ASSUME NEW i \in 1 .. Len(g)
        PROVE  ~Open(g, i)
    <2>1. Len(g) = Len(h) + 1 /\ Len(h) \in Nat
      BY <1>2
    <2>2. i \in 1 .. Len(h) \/ i = Len(g)
      <3> HIDE DEF g
      <3> QED
        BY <2>1
    <2> QED
      BY <1>1, <2>2, OpenAfter
  <1> QED
    BY <1>2, <1>5, <1>6, <1>7 DEF Idle

\* What a parser has in hand of the bytes it was fed.
InHand(p, h) == IF p.inSentence THEN Assembling(p.sentence, h) ELSE Idle(h)

LEMMA NothingInHand ==
    /\ Idle(<<>>)
    /\ \A i, j : ~LineAt(<<>>, i, j)
  BY DEF Idle, LineAt

-----------------------------------------------------------------------------
(* The probe.                                                              *)

Good(s) == LooksValid(s) /\ ChecksumOk(s)
Hears(h) == \E i, j : LineAt(h, i, j) /\ Good(SubSeq(h, i, j))

\* The probe says yes when it has heard a line that is good, and otherwise has
\* in hand what may become one.
ProbeInv(p, h) ==
    /\ p.valid <=> Hears(h)
    /\ ~p.valid => InHand(p, h)

\* One byte more is heard by the line that it ends.
LEMMA HearsAfter ==
    ASSUME NEW h \in Seq(Byte), NEW b \in Byte, NEW g, g = Append(h, b)
    PROVE  Hears(g) <=> \/ Hears(h)
                        \/ \E i : LineAt(g, i, Len(h) + 1) /\ Good(SubSeq(g, i, Len(h) + 1))
  <1>1. /\ Len(g) = Len(h) + 1 /\ Len(h) \in Nat
        /\ \A i, j \in 1 .. Len(h) : SubSeq(g, i, j) = SubSeq(h, i, j)
    BY AppendKeeps
  <1>2. \A i, j : LineAt(h, i, j) => /\ i \in 1 .. Len(g) /\ j \in 1 .. Len(h)
                                     /\ LineAt(g, i, j) /\ SubSeq(g, i, j) = SubSeq(h, i, j)
    <2>1. SUFFICES ASSUME NEW i, NEW j, LineAt(h, i, j)
                   PROVE  /\ i \in 1 .. Len(g) /\ j \in 1 .. Len(h)
                          /\ LineAt(g, i, j) /\ SubSeq(g, i, j) = SubSeq(h, i, j)
      OBVIOUS
    <2>2. i \in 1 .. Len(h) /\ j \in 1 .. Len(h)
      BY <2>1 DEF LineAt
    <2>3. i \in 1 .. Len(g)
      BY <1>1, <2>2
    <2> QED
      BY <1>1, <2>1, <2>2, <2>3, LineAfter
  <1>3. \A i, j : LineAt(g, i, j) =>
            \/ j = Len(h) + 1
            \/ LineAt(h, i, j) /\ SubSeq(g, i, j) = SubSeq(h, i, j)
    <2>1. SUFFICES ASSUME NEW i, NEW j, LineAt(g, i, j), j # Len(h) + 1
                   PROVE  LineAt(h, i, j) /\ SubSeq(g, i, j) = SubSeq(h, i, j)
      OBVIOUS
    <2>2. i \in 1 .. Len(g) /\ j \in 1 .. Len(g)
      BY <2>1 DEF LineAt
    <2>3. j \in 1 .. Len(h)
      BY <1>1, <2>1, <2>2
    <2>4. LineAt(h, i, j)
      BY <2>1, <2>2, <2>3, LineAfter
    <2>5. i \in 1 .. Len(h)
      BY <2>4 DEF LineAt
    <2> QED
      BY <1>1, <2>3, <2>4, <2>5
  <1> DEFINE end == Len(h) + 1
             Ended == \E i : LineAt(g, i, end) /\ Good(SubSeq(g, i, end))
  <1> HIDE DEF end
  <1>4. Hears(h) => Hears(g)
    BY <1>2 DEF Hears
  <1>5. Ended => Hears(g)
    BY DEF Hears
  <1>6. Hears(g) => Hears(h) \/ Ended
    <2>1. SUFFICES ASSUME NEW i, NEW j, LineAt(g, i, j), Good(SubSeq(g, i, j))
                   PROVE  Hears(h) \/ Ended
      BY DEF Hears
    <2>2. j = end \/ (LineAt(h, i, j) /\ SubSeq(g, i, j) = SubSeq(h, i, j))
      BY <1>3, <2>1 DEF end
    <2>3. CASE j = end
      BY <2>1, <2>3
    <2>4. CASE LineAt(h, i, j) /\ SubSeq(g, i, j) = SubSeq(h, i, j)
      <3>1. LineAt(h, i, j) /\ Good(SubSeq(h, i, j))
        BY <2>1, <2>4
      <3> QED
        BY <3>1 DEF Hears
    <2> QED
      BY <2>2, <2>3, <2>4
  <1> QED
    BY <1>4, <1>5, <1>6 DEF end

LEMMA ProbeByteKeeps ==
    ASSUME NEW p \in ProbeStates, NEW h \in Seq(Byte), NEW b \in Byte, ProbeInv(p, h)
    PROVE  ProbeInv(ProbeByte(p, b), Append(h, b))
  <1> DEFINE g == Append(h, b)
             s == Append(p.sentence, b)
             q == ProbeByte(p, b)
             Ended == \E i : LineAt(g, i, Len(h) + 1) /\ Good(SubSeq(g, i, Len(h) + 1))
  <1>1. Hears(g) <=> Hears(h) \/ Ended
    BY HearsAfter
  <1>2. CASE p.valid
    BY <1>1, <1>2 DEF ProbeByte, ProbeInv
  <1>3. CASE ~p.valid /\ b # "$" /\ ~p.inSentence
    <2>1. Idle(g) /\ ~Ended
      BY <1>3, StaysIdle DEF ProbeInv, InHand
    <2>2. q = p
      BY <1>3 DEF ProbeByte
    <2> QED
      BY <1>1, <1>3, <2>1, <2>2 DEF ProbeInv, InHand
  <1>4. CASE ~p.valid /\ b = "$"
    <2>1. Assembling(<<b>>, g) /\ ~Ended
      BY <1>4, Restarts
    <2>2. /\ q = [ProbeReset EXCEPT !.inSentence = TRUE, !.sentence = <<b>>]
      BY <1>4 DEF ProbeByte
    <2>3. q.inSentence /\ q.sentence = <<b>> /\ ~q.valid
      BY <2>2 DEF ProbeReset
    <2> HIDE DEF q, g
    <2>4. Hears(g) <=> Hears(h)
      BY <1>1, <2>1
    <2>5. ~Hears(g)
      BY <1>4, <2>4 DEF ProbeInv
    <2>6. ProbeInv(q, g)
      BY <2>1, <2>3, <2>5 DEF ProbeInv, InHand
    <2> QED
      BY <2>6 DEF q, g
  <1>5. CASE ~p.valid /\ b # "$" /\ p.inSentence /\ Len(p.sentence) >= MaxSentenceLen
    <2>1. Idle(g) /\ ~Ended
      BY <1>5, GivesUp DEF ProbeInv, InHand
    <2>2. q = ProbeReset
      BY <1>5 DEF ProbeByte
    <2> QED
      BY <1>1, <1>5, <2>1, <2>2 DEF ProbeInv, InHand, ProbeReset
  <1>6. CASE /\ ~p.valid /\ b \notin {"$", "\n"} /\ p.inSentence
             /\ ~(Len(p.sentence) >= MaxSentenceLen)
    <2>1. Assembling(s, g) /\ ~Ended
      BY <1>6, GoesOn DEF ProbeInv, InHand
    <2>2. q = [p EXCEPT !.sentence = s]
      BY <1>6 DEF ProbeByte
    <2>3. q.inSentence /\ q.sentence = s /\ ~q.valid
      BY <1>6, <2>2 DEF ProbeStates
    <2> HIDE DEF q, g, s
    <2>4. ~Hears(g)
      BY <1>1, <1>6, <2>1 DEF ProbeInv
    <2>5. ProbeInv(q, g)
      BY <2>1, <2>3, <2>4 DEF ProbeInv, InHand
    <2> QED
      BY <2>5 DEF q, g
  <1>7. CASE /\ ~p.valid /\ b = "\n" /\ p.inSentence
             /\ ~(Len(p.sentence) >= MaxSentenceLen)
    <2>1. PICK i : LineAt(g, i, Len(h) + 1) /\ SubSeq(g, i, Len(h) + 1) = s
      BY <1>7, Completes DEF ProbeInv, InHand
    <2>2. Idle(g)
      BY <1>7, Completes DEF ProbeInv, InHand
    <2>3. \A k : LineAt(g, k, Len(h) + 1) => k = i
      <3>1. g \in Seq(Byte)
        BY AppendProperties
      <3> QED
        BY <2>1, <3>1, LineIsUnique
    <2>4. Ended <=> Good(s)
      BY <2>1, <2>3
    <2>5. q = [ProbeReset EXCEPT !.valid = Good(s)]
      BY <1>7 DEF ProbeByte, Good
    <2>6. (q.valid <=> Good(s)) /\ ~q.inSentence
      BY <2>5 DEF ProbeReset
    <2> HIDE DEF q, g, s
    <2>7. q.valid <=> Hears(g)
      BY <1>1, <1>7, <2>4, <2>6 DEF ProbeInv
    <2>8. ProbeInv(q, g)
      BY <2>2, <2>6, <2>7 DEF ProbeInv, InHand
    <2> QED
      BY <2>8 DEF q, g
  <1> QED
    BY <1>2, <1>3, <1>4, <1>5, <1>6, <1>7

\* Over a chunk: however the reads cut the bytes.
LEMMA ProbeFeedHears ==
    ASSUME NEW p \in ProbeStates, NEW h \in Seq(Byte), NEW chunk \in Seq(Byte),
           ProbeInv(p, h)
    PROVE  ProbeInv(ProbeFeed(p, chunk), h \o chunk) /\ ProbeFeed(p, chunk) \in ProbeStates
  <1> DEFINE I == {x \in ProbeStates \X Seq(Byte) : ProbeInv(x[1], x[2])}
  <1>1. \A x \in ProbeStates : \A g \in Seq(Byte) : \A b \in Byte :
            <<x, g>> \in I => <<ProbeByte(x, b), Append(g, b)>> \in I
    BY ProbeByteType, ProbeByteKeeps, AppendProperties
  <1>2. <<p, h>> \in I
    OBVIOUS
  <1>3. <<ProbeFeed(p, chunk), h \o chunk>> \in I /\ ProbeFeed(p, chunk) \in ProbeStates
    <2> HIDE DEF I
    <2> QED
      BY <1>1, <1>2, ProbeFeedKeeps
  <1> QED
    BY <1>3

-----------------------------------------------------------------------------
(* The sentences that are found.                                           *)

FirstByte(f) == f.end - Len(f.sentence.line) + 1

\* A sentence is found where the bytes hold its line.
LEMMA FoundIsLine ==
    ASSUME TableIsSound, NEW h \in Seq(Byte), NEW f \in Found(h)
    PROVE  /\ f.sentence \in Sentences /\ f.end \in 1 .. Len(h)
           /\ f = [end |-> f.end, sentence |-> f.sentence]
           /\ LineAt(h, FirstByte(f), f.end)
           /\ SubSeq(h, FirstByte(f), f.end) = f.sentence.line
  <1>1. PICK s \in Sentences : \E j \in Len(s.line) .. Len(h) :
            /\ SubSeq(h, j - Len(s.line) + 1, j) = s.line
            /\ f = [end |-> j, sentence |-> s]
    BY DEF Found
  <1>2. PICK j \in Len(s.line) .. Len(h) :
            /\ SubSeq(h, j - Len(s.line) + 1, j) = s.line
            /\ f = [end |-> j, sentence |-> s]
    BY <1>1
  <1>3. f.end = j /\ f.sentence = s
    BY <1>2
  <1>4. IsLine(s.line) /\ Len(s.line) \in Nat /\ Len(s.line) >= 2 /\ Len(h) \in Nat
    BY LenProperties, SentenceAssumption DEF TableIsSound, IsLine
  <1>5. j \in 1 .. Len(h) /\ j - Len(s.line) + 1 \in 1 .. Len(h)
    BY <1>4
  <1>6. LineAt(h, j - Len(s.line) + 1, j)
    BY <1>2, <1>4, <1>5 DEF LineAt
  <1> QED
    BY <1>2, <1>3, <1>5, <1>6 DEF FirstByte

LEMMA LineIsFound ==
    ASSUME TableIsSound, NEW h \in Seq(Byte), NEW i, NEW j, LineAt(h, i, j),
           NEW s \in Sentences, s.line = SubSeq(h, i, j)
    PROVE  [end |-> j, sentence |-> s] \in Found(h)
  <1>1. i \in 1 .. Len(h) /\ j \in 1 .. Len(h) /\ Len(h) \in Nat
    BY LenProperties DEF LineAt
  <1>2. i < j
    BY <1>1, LineBytes DEF LineAt
  <1>3. Len(s.line) = j - i + 1
    <2>1. \A k \in i .. j : h[k] \in Byte
      BY <1>1, ElementOfSeq
    <2> QED
      BY <1>1, <1>2, <2>1, SubSeqProperties
  <1>4. j \in Len(s.line) .. Len(h) /\ j - Len(s.line) + 1 = i
    BY <1>1, <1>2, <1>3
  <1>5. SubSeq(h, j - Len(s.line) + 1, j) = s.line
    BY <1>4
  <1> DEFINE Ends(t) == {k \in Len(t.line) .. Len(h) :
                            SubSeq(h, k - Len(t.line) + 1, k) = t.line}
             Of(t) == {[end |-> k, sentence |-> t] : k \in Ends(t)}
  <1>6. j \in Ends(s)
    BY <1>4, <1>5
  <1>7. Found(h) = UNION {Of(t) : t \in Sentences}
    BY DEF Found
  <1> HIDE DEF Ends
  <1>8. [end |-> j, sentence |-> s] \in Of(s)
    BY <1>6
  <1> HIDE DEF Of
  <1> QED
    BY <1>7, <1>8

\* Only one sentence ends at a byte.
LEMMA FoundIsUnique ==
    ASSUME TableIsSound, NEW h \in Seq(Byte), NEW f \in Found(h), NEW l \in Found(h),
           f.end = l.end
    PROVE  f = l
  <1>1. FirstByte(f) = FirstByte(l)
    BY FoundIsLine, LineIsUnique
  <1>2. f.sentence \in Sentences /\ l.sentence \in Sentences
        /\ f.sentence.line = l.sentence.line
    BY <1>1, FoundIsLine
  <1>3. f.sentence = l.sentence
    BY <1>2 DEF TableIsSound
  <1> QED
    BY <1>3, FoundIsLine

\* One byte more leaves what was found, and what is new ends with it.
LEMMA FoundAfter ==
    ASSUME TableIsSound, NEW h \in Seq(Byte), NEW b \in Byte, NEW g, g = Append(h, b)
    PROVE  /\ \A f \in Found(h) : f \in Found(g) /\ f.end < Len(h) + 1
           /\ \A f \in Found(g) : f.end = Len(h) + 1 \/ f \in Found(h)
  <1>1. /\ g \in Seq(Byte) /\ Len(g) = Len(h) + 1 /\ Len(h) \in Nat
        /\ \A i, j \in 1 .. Len(h) : SubSeq(g, i, j) = SubSeq(h, i, j)
    BY AppendKeeps
  <1>2. ASSUME NEW f \in Found(h)
        PROVE  f \in Found(g) /\ f.end < Len(h) + 1
    <2>1. /\ f.sentence \in Sentences /\ f.end \in 1 .. Len(h)
          /\ f = [end |-> f.end, sentence |-> f.sentence]
          /\ LineAt(h, FirstByte(f), f.end)
          /\ SubSeq(h, FirstByte(f), f.end) = f.sentence.line
      BY FoundIsLine
    <2>2. FirstByte(f) \in 1 .. Len(h) /\ FirstByte(f) \in 1 .. Len(g)
      BY <1>1, <2>1 DEF LineAt
    <2>3. LineAt(g, FirstByte(f), f.end)
      BY <2>1, <2>2, LineAfter
    <2>4. SubSeq(g, FirstByte(f), f.end) = f.sentence.line
      BY <1>1, <2>1, <2>2
    <2>5. f \in Found(g)
      BY <1>1, <2>1, <2>3, <2>4, LineIsFound
    <2> QED
      BY <1>1, <2>1, <2>5
  <1>3. ASSUME NEW f \in Found(g), f.end # Len(h) + 1
        PROVE  f \in Found(h)
    <2>1. /\ f.sentence \in Sentences /\ f.end \in 1 .. Len(g)
          /\ f = [end |-> f.end, sentence |-> f.sentence]
          /\ LineAt(g, FirstByte(f), f.end)
          /\ SubSeq(g, FirstByte(f), f.end) = f.sentence.line
      BY <1>1, FoundIsLine
    <2>2. f.end \in 1 .. Len(h) /\ FirstByte(f) \in 1 .. Len(g)
      BY <1>1, <1>3, <2>1 DEF LineAt
    <2>3. LineAt(h, FirstByte(f), f.end)
      BY <2>1, <2>2, LineAfter
    <2>4. FirstByte(f) \in 1 .. Len(h)
      BY <2>3 DEF LineAt
    <2>5. SubSeq(h, FirstByte(f), f.end) = f.sentence.line
      BY <1>1, <2>1, <2>2, <2>4
    <2> QED
      BY <2>1, <2>3, <2>5, LineIsFound
  <1> QED
    BY <1>2, <1>3

\* Nothing is found where no intact line ends.
LEMMA NothingFound ==
    ASSUME TableIsSound, NEW h \in Seq(Byte), NEW b \in Byte, NEW g, g = Append(h, b),
           \A i : LineAt(g, i, Len(h) + 1) => ~ChecksumOk(SubSeq(g, i, Len(h) + 1))
    PROVE  Found(g) = Found(h)
  <1>1. g \in Seq(Byte)
    BY AppendKeeps
  <1>2. ASSUME NEW f \in Found(g), f.end = Len(h) + 1
        PROVE  FALSE
    <2>1. /\ f.sentence \in Sentences
          /\ LineAt(g, FirstByte(f), f.end)
          /\ SubSeq(g, FirstByte(f), f.end) = f.sentence.line
      BY <1>1, FoundIsLine
    <2>2. ChecksumOk(f.sentence.line)
      BY <2>1 DEF TableIsSound
    <2> QED
      BY <1>2, <2>1, <2>2
  <1>3. \A f \in Found(h) : f \in Found(g)
    BY FoundAfter
  <1>4. \A f \in Found(g) : f \in Found(h)
    BY <1>2, FoundAfter
  <1> QED
    BY <1>3, <1>4

\* An intact line is found, if the table has it.
FindsOneMore(h, g, line) ==
    \E t \in Sentences :
        /\ t.line = line
        /\ Found(g) = Found(h) \cup {[end |-> Len(h) + 1, sentence |-> t]}

LEMMA IntactLineIsFound ==
    ASSUME TableIsSound, NEW h \in Seq(Byte), NEW b \in Byte, NEW g, g = Append(h, b),
           NEW i, LineAt(g, i, Len(h) + 1), ChecksumOk(SubSeq(g, i, Len(h) + 1)),
           TableCovers(g)
    PROVE  FindsOneMore(h, g, SubSeq(g, i, Len(h) + 1))
  <1>1. g \in Seq(Byte) /\ DOMAIN g = 1 .. Len(g)
    BY AppendKeeps, LenProperties
  <1> DEFINE end == Len(h) + 1
  <1> HIDE DEF end
  <1>2. i \in DOMAIN g /\ end \in DOMAIN g /\ IsLine(SubSeq(g, i, end))
        /\ ChecksumOk(SubSeq(g, i, end)) /\ LineAt(g, i, end)
    BY <1>1 DEF LineAt, end
  <1>3. PICK t \in Sentences : t.line = SubSeq(g, i, end)
    BY <1>2 DEF TableCovers
  <1> DEFINE new == [end |-> end, sentence |-> t]
  <1>4. new \in Found(g) /\ new.end = end
    BY <1>1, <1>2, <1>3, LineIsFound
  <1> HIDE DEF new
  <1>5. \A f \in Found(g) : f = new \/ f \in Found(h)
    BY <1>1, <1>4, FoundAfter, FoundIsUnique DEF end
  <1>6. Found(g) = Found(h) \cup {new}
    BY <1>4, <1>5, FoundAfter
  <1> QED
    BY <1>3, <1>6 DEF new, end, FindsOneMore

\* A table that covers some bytes covers those before them.
LEMMA CoversBefore ==
    ASSUME NEW h \in Seq(Byte), NEW b \in Byte, TableCovers(Append(h, b))
    PROVE  TableCovers(h)
  <1> DEFINE g == Append(h, b)
  <1>1. /\ Len(g) = Len(h) + 1 /\ Len(h) \in Nat /\ g \in Seq(Byte)
        /\ DOMAIN h = 1 .. Len(h) /\ DOMAIN g = 1 .. Len(g)
        /\ \A i, j \in 1 .. Len(h) : SubSeq(g, i, j) = SubSeq(h, i, j)
    BY AppendKeeps, LenProperties
  <1> HIDE DEF g
  <1>2. ASSUME NEW i \in DOMAIN h, NEW j \in DOMAIN h,
               IsLine(SubSeq(h, i, j)), ChecksumOk(SubSeq(h, i, j))
        PROVE  \E s \in Sentences : s.line = SubSeq(h, i, j)
    <2>1. i \in DOMAIN g /\ j \in DOMAIN g /\ SubSeq(g, i, j) = SubSeq(h, i, j)
      BY <1>1
    <2>2. TableCovers(g)
      BY DEF g
    <2> QED
      BY <1>2, <2>1, <2>2 DEF TableCovers
  <1> QED
    BY <1>2 DEF TableCovers

-----------------------------------------------------------------------------
(* Pairs.                                                                  *)

\* The sentences found in h that make pairs, and the pairs that some make.
Lines(h) == {f \in Found(h) : IsGga(f) \/ IsRmc(f)}
PairsOf(L) ==
    {p \in [gga : {f \in L : IsGga(f)}, rmc : {f \in L : IsRmc(f)}] :
        /\ p.gga.end < p.rmc.end
        /\ \A f \in L : f.end <= p.gga.end \/ f.end >= p.rmc.end}

\* A GGA that no line follows waits for its RMC.
Waits(f, L) == f \in L /\ IsGga(f) /\ \A l \in L : l.end <= f.end

\* Lines that follow each other.
InOrder(L) ==
    /\ \A f \in L : f.end \in Nat /\ (IsGga(f) \/ IsRmc(f))
    /\ \A f, l \in L : f.end = l.end => f = l

LEMMA LinesAreInOrder ==
    ASSUME TableIsSound, NEW h \in Seq(Byte)
    PROVE  InOrder(Lines(h)) /\ PairsIn(h) = PairsOf(Lines(h))
  <1>1. PairsIn(h) = PairsOf(Lines(h))
    BY DEF PairsIn, PairsOf, Lines
  <1>2. ASSUME NEW f \in Lines(h)
        PROVE  f \in Found(h) /\ f.end \in Nat /\ (IsGga(f) \/ IsRmc(f))
    <2>1. f \in Found(h) /\ (IsGga(f) \/ IsRmc(f))
      BY DEF Lines
    <2>2. f.end \in 1 .. Len(h)
      BY <2>1, FoundIsLine
    <2> QED
      BY <2>1, <2>2
  <1>3. ASSUME NEW f \in Lines(h), NEW l \in Lines(h), f.end = l.end
        PROVE  f = l
    BY <1>2, <1>3, FoundIsUnique
  <1> QED
    BY <1>1, <1>2, <1>3 DEF InOrder

LEMMA OneKind == \A f : ~(IsGga(f) /\ IsRmc(f))
  <1>1. TypeGga # TypeRmc
    BY DEF TypeGga, TypeRmc
  <1> QED
    BY <1>1 DEF IsGga, IsRmc

\* A GGA makes no pair, and now it is the one that waits.
LEMMA PairsAfterGga ==
    ASSUME NEW L, InOrder(L), NEW n, n.end \in Nat, IsGga(n), \A f \in L : f.end < n.end
    PROVE  /\ PairsOf(L \cup {n}) = PairsOf(L)
           /\ \A f : Waits(f, L \cup {n}) <=> f = n
  <1>1. ~IsRmc(n)
    BY OneKind
  <1>2. ASSUME NEW p \in PairsOf(L)
        PROVE  p \in PairsOf(L \cup {n})
    <2>1. n.end >= p.rmc.end
      BY DEF PairsOf, InOrder
    <2> QED
      BY <2>1 DEF PairsOf
  <1>3. ASSUME NEW p \in PairsOf(L \cup {n})
        PROVE  p \in PairsOf(L)
    <2>1. p.rmc \in L
      BY <1>1 DEF PairsOf
    <2>2. p.gga # n
      BY <2>1 DEF PairsOf, InOrder
    <2> QED
      BY <2>1, <2>2 DEF PairsOf
  <1>4. ASSUME NEW f
        PROVE  Waits(f, L \cup {n}) <=> f = n
    <2>1. Waits(n, L \cup {n})
      BY DEF Waits, InOrder
    <2>2. f \in L => ~(n.end <= f.end)
      BY DEF InOrder
    <2> QED
      BY <2>1, <2>2 DEF Waits
  <1> QED
    BY <1>2, <1>3, <1>4

\* An RMC makes a pair with the GGA that waits, and then none does.
LEMMA PairsAfterRmc ==
    ASSUME NEW L, InOrder(L), NEW n, n.end \in Nat, IsRmc(n), \A f \in L : f.end < n.end
    PROVE  /\ \A p : p \in PairsOf(L \cup {n}) <=>
                        \/ p \in PairsOf(L)
                        \/ \E f \in L : Waits(f, L) /\ p = [gga |-> f, rmc |-> n]
           /\ \A f : ~Waits(f, L \cup {n})
  <1>1. ~IsGga(n)
    BY OneKind
  <1>2. ASSUME NEW p \in PairsOf(L)
        PROVE  p \in PairsOf(L \cup {n})
    <2>1. n.end >= p.rmc.end
      BY DEF PairsOf, InOrder
    <2> QED
      BY <2>1 DEF PairsOf
  <1>3. ASSUME NEW f \in L, Waits(f, L)
        PROVE  [gga |-> f, rmc |-> n] \in PairsOf(L \cup {n})
    <2> DEFINE p == [gga |-> f, rmc |-> n]
    <2>1. p.gga = f /\ p.rmc = n
      OBVIOUS
    <2>2. p \in [gga : {l \in L \cup {n} : IsGga(l)}, rmc : {l \in L \cup {n} : IsRmc(l)}]
      BY <1>3 DEF Waits
    <2> HIDE DEF p
    <2>3. \A l \in L \cup {n} : l.end <= f.end \/ l.end >= n.end
      BY <1>3 DEF Waits
    <2> QED
      BY <2>1, <2>2, <2>3 DEF PairsOf, p
  <1>4. ASSUME NEW p \in PairsOf(L \cup {n})
        PROVE  p \in PairsOf(L) \/ \E f \in L : Waits(f, L) /\ p = [gga |-> f, rmc |-> n]
    <2>1. p.gga \in L /\ IsGga(p.gga)
      BY <1>1 DEF PairsOf
    <2>2. CASE p.rmc = n
      <3>1. p = [gga |-> p.gga, rmc |-> n]
        BY <2>2 DEF PairsOf
      <3>2. \A l \in L : l.end <= p.gga.end
        BY <2>2 DEF PairsOf, InOrder
      <3> QED
        BY <2>1, <3>1, <3>2 DEF Waits
    <2>3. CASE p.rmc # n
      BY <2>1, <2>3 DEF PairsOf
    <2> QED
      BY <2>2, <2>3
  <1>5. ASSUME NEW f
        PROVE  ~Waits(f, L \cup {n})
    <2>1. f \in L => ~(n.end <= f.end)
      BY DEF InOrder
    <2> QED
      BY <1>1, <2>1 DEF Waits
  <1> QED
    BY <1>2, <1>3, <1>4, <1>5

\* At most one GGA waits.
LEMMA OneWaits ==
    ASSUME NEW L, InOrder(L), NEW f, NEW l, Waits(f, L), Waits(l, L)
    PROVE  f = l
  <1>1. f \in L /\ l \in L /\ f.end <= l.end /\ l.end <= f.end
    BY DEF Waits
  <1>2. f.end \in Nat /\ l.end \in Nat
    BY <1>1 DEF InOrder
  <1>3. f.end = l.end
    BY <1>1, <1>2
  <1> QED
    BY <1>1, <1>3 DEF InOrder

\* What was sent of a pair says what the pair says.
SaysHdop(hdop, gga) == gga.sentence.milli <= IntMax => hdop = gga.sentence.milli
SaysPair(sent, p) ==
    /\ sent.gga = p.gga.sentence.line
    /\ sent.rmc = p.rmc.sentence.line
    /\ SaysHdop(sent.hdop, p.gga)

UpTo(p, P) == {q \in P : q.rmc.end <= p.rmc.end}
SentAre(sent, P) ==
    /\ IsFiniteSet(P)
    /\ Len(sent) = Cardinality(P)
    /\ \A p \in P : SaysPair(sent[Cardinality(UpTo(p, P))], p)

\* A pair that comes after the others is sent after the others.
LEMMA OneMoreSent ==
    ASSUME NEW S, NEW sent \in Seq(S), NEW e \in S, NEW P, SentAre(sent, P),
           NEW new, new.rmc.end \in Nat,
           \A p \in P : p.rmc.end \in Nat /\ p.rmc.end < new.rmc.end,
           SaysPair(e, new)
    PROVE  SentAre(Append(sent, e), P \cup {new})
  <1> DEFINE Q == P \cup {new}
  <1>1. new \notin P
    OBVIOUS
  <1>2. IsFiniteSet(P) /\ Len(sent) = Cardinality(P) /\ Cardinality(P) \in Nat
    BY FS_CardinalityType DEF SentAre
  <1>3. IsFiniteSet(Q) /\ Cardinality(Q) = Cardinality(P) + 1
    BY <1>1, <1>2, FS_AddElement
  <1>4. /\ Len(Append(sent, e)) = Cardinality(P) + 1
        /\ Append(sent, e)[Cardinality(P) + 1] = e
        /\ \A k \in 1 .. Cardinality(P) : Append(sent, e)[k] = sent[k]
    BY <1>2, AppendProperties
  <1>5. UpTo(new, Q) = Q
    BY DEF UpTo
  <1>6. ASSUME NEW p \in P
        PROVE  SaysPair(Append(sent, e)[Cardinality(UpTo(p, Q))], p)
    <2>1. UpTo(p, Q) = UpTo(p, P)
      BY DEF UpTo
    <2>2. UpTo(p, P) \subseteq P /\ p \in UpTo(p, P)
      BY DEF UpTo
    <2>3. IsFiniteSet(UpTo(p, P)) /\ Cardinality(UpTo(p, P)) <= Cardinality(P)
      BY <1>2, <2>2, FS_Subset
    <2>4. Cardinality(UpTo(p, P)) \in Nat /\ Cardinality(UpTo(p, P)) # 0
      <3>1. UpTo(p, P) # {}
        BY <2>2
      <3> QED
        BY <2>3, <3>1, FS_CardinalityType, FS_EmptySet
    <2>5. Cardinality(UpTo(p, P)) \in 1 .. Cardinality(P)
      BY <1>2, <2>3, <2>4
    <2>6. SaysPair(sent[Cardinality(UpTo(p, P))], p)
      BY DEF SentAre
    <2> QED
      BY <1>4, <2>1, <2>5, <2>6
  <1> HIDE DEF Q
  <1>7. SaysPair(Append(sent, e)[Cardinality(UpTo(new, Q))], new)
    BY <1>3, <1>4, <1>5
  <1>8. \A p \in Q : SaysPair(Append(sent, e)[Cardinality(UpTo(p, Q))], p)
    BY <1>6, <1>7 DEF Q
  <1>9. Len(Append(sent, e)) = Cardinality(Q)
    BY <1>3, <1>4
  <1> QED
    BY <1>3, <1>8, <1>9 DEF SentAre, Q

-----------------------------------------------------------------------------
(* The pairing parser.                                                     *)

\* The pairs are sent, and the GGA that waits is the one the parser keeps.
Holds(pending, f) ==
    pending.line = f.sentence.line /\ SaysHdop(pending.hdop, f)
PairsInv(p, h) ==
    /\ SentAre(p.sent, PairsOf(Lines(h)))
    /\ IF p.pending = None THEN \A f : ~Waits(f, Lines(h))
       ELSE \E f : Waits(f, Lines(h)) /\ Holds(p.pending, f)

ParserInv(p, h) == InHand(p, h) /\ (TableCovers(h) => PairsInv(p, h))

\* The sentences and pairs it is about, and nothing else.
LEMMA SamePairs ==
    ASSUME NEW h, NEW g, Lines(g) = Lines(h), NEW p, NEW q,
           q.sent = p.sent, q.pending = p.pending, PairsInv(p, h)
    PROVE  PairsInv(q, g)
  BY DEF PairsInv

\* What the table says of an intact line, the parser reads in it.
LEMMA TableSays ==
    ASSUME TableIsSound, NEW t \in Sentences, NEW f, f.sentence = t
    PROVE  LET hdop == ParseHdopMilli(t.line)
           IN  /\ t.line \in Seq(Byte)
               /\ IsGga(f) <=> hdop # <<>>
               /\ IsRmc(f) <=> TypeOf(t.line) = TypeRmc
               /\ hdop # <<>> => SaysHdop(hdop[1], f)
  <1> DEFINE hdop == ParseHdopMilli(t.line)
  <1>1. /\ t.line \in Seq(Byte) /\ t.type = TypeOf(t.line) /\ t.milli \in Int
        /\ t.type = TypeGga => (t.milli >= 0 <=> hdop # <<>>)
        /\ t.type = TypeGga => (t.milli \in 0 .. IntMax => hdop = <<t.milli>>)
    BY DEF TableIsSound
  <1>2. hdop # <<>> => TypeOf(t.line) = TypeGga
    BY <1>1, HdopIsInt
  <1> HIDE DEF hdop
  <1>3. IsGga(f) <=> hdop # <<>>
    BY <1>1, <1>2 DEF IsGga
  <1>4. IsRmc(f) <=> TypeOf(t.line) = TypeRmc
    BY <1>1 DEF IsRmc
  <1>5. ASSUME hdop # <<>>
        PROVE  SaysHdop(hdop[1], f)
    <2>1. t.type = TypeGga /\ t.milli >= 0
      BY <1>1, <1>2, <1>5
    <2>2. ASSUME t.milli <= IntMax
          PROVE  hdop[1] = t.milli
      <3>1. t.milli \in 0 .. IntMax
        BY <1>1, <2>1, <2>2, IntAssumption
      <3>2. hdop = <<t.milli>>
        BY <1>1, <2>1, <3>1
      <3> QED
        BY <3>2
    <2> QED
      BY <2>2 DEF SaysHdop
  <1> QED
    BY <1>1, <1>3, <1>4, <1>5 DEF hdop

\* A line is complete.
LEMMA CompleteKeepsPairs ==
    ASSUME TableIsSound, NEW h \in Seq(Byte), NEW b \in Byte, NEW g, g = Append(h, b),
           TableCovers(g), NEW q \in ParserStates, PairsInv(q, h),
           NEW i, LineAt(g, i, Len(h) + 1), SubSeq(g, i, Len(h) + 1) = q.sentence
    PROVE  PairsInv(CompleteSentence(q), g)
  <1> DEFINE s == q.sentence
             hdop == ParseHdopMilli(s)
             r == CompleteSentence(q)
             L == Lines(h)
  <1>1. CASE ~ChecksumOk(s)
    <2>1. r = q
      BY <1>1 DEF CompleteSentence
    <2>2. \A k : LineAt(g, k, Len(h) + 1) => k = i
      <3>1. g \in Seq(Byte)
        BY AppendProperties
      <3> QED
        BY <3>1, LineIsUnique
    <2>3. Found(g) = Found(h)
      BY <1>1, <2>2, NothingFound
    <2>4. Lines(g) = Lines(h)
      BY <2>3 DEF Lines
    <2> HIDE DEF r
    <2> QED
      BY <2>1, <2>4, SamePairs DEF r
  <1>2. CASE ChecksumOk(s)
    <2>1. PICK t \in Sentences :
              /\ t.line = s
              /\ Found(g) = Found(h) \cup {[end |-> Len(h) + 1, sentence |-> t]}
      <3>1. ChecksumOk(SubSeq(g, i, Len(h) + 1)) /\ s = SubSeq(g, i, Len(h) + 1)
        BY <1>2
      <3>2. FindsOneMore(h, g, SubSeq(g, i, Len(h) + 1))
        <4> HIDE DEF s, hdop, r, L
        <4> QED
          BY <3>1, IntactLineIsFound
      <3> QED
        BY <3>1, <3>2 DEF FindsOneMore
    <2> DEFINE n == [end |-> Len(h) + 1, sentence |-> t]
    <2>2. n.end = Len(h) + 1 /\ n.end \in Nat /\ n.sentence = t
      BY LenProperties
    <2>3. \A f \in L : f.end < n.end
      BY <2>2, FoundAfter DEF Lines
    <2>4. Found(g) = Found(h) \cup {n}
      BY <2>1
    <2> HIDE DEF n
    <2>5. /\ IsGga(n) <=> hdop # <<>>
          /\ IsRmc(n) <=> TypeOf(s) = TypeRmc
          /\ hdop # <<>> => SaysHdop(hdop[1], n)
      BY <2>1, <2>2, TableSays
    <2>6. IsGga(n) \/ IsRmc(n) => Lines(g) = L \cup {n}
      BY <2>4 DEF Lines
    <2>7. ~(IsGga(n) \/ IsRmc(n)) => Lines(g) = L
      BY <2>4 DEF Lines
    <2>8. InOrder(L)
      BY LinesAreInOrder
    <2>9. CASE hdop # <<>>
      <3>1. IsGga(n) /\ Lines(g) = L \cup {n}
        BY <2>5, <2>6, <2>9
      <3>2. PairsOf(Lines(g)) = PairsOf(L) /\ Waits(n, Lines(g))
        <4> HIDE DEF L
        <4>1. PairsOf(L \cup {n}) = PairsOf(L) /\ \A f : Waits(f, L \cup {n}) <=> f = n
          BY <2>2, <2>3, <2>8, <3>1, PairsAfterGga
        <4> QED
          BY <3>1, <4>1
      <3>3. r = [q EXCEPT !.pending = [line |-> s, hdop |-> hdop[1]]]
        BY <1>2, <2>9 DEF CompleteSentence
      <3>4. r.sent = q.sent /\ r.pending = [line |-> s, hdop |-> hdop[1]]
        BY <3>3 DEF ParserStates
      <3>5. hdop[1] \in Int /\ s \in Seq(Byte)
        <4>1. s \in Seq(Byte)
          BY DEF ParserStates, Buffers
        <4> QED
          BY <2>9, <4>1, HdopIsInt, IntAssumption DEF Ints
      <3> HIDE DEF hdop, r
      <3>6. r.pending # None
        BY <3>4, <3>5, NoneAssumption
      <3>7. Holds(r.pending, n)
        BY <2>1, <2>2, <2>5, <2>9, <3>4 DEF Holds
      <3> QED
        BY <3>2, <3>4, <3>6, <3>7 DEF PairsInv, r
    <2>10. CASE hdop = <<>> /\ TypeOf(s) = TypeRmc /\ q.pending # None
      <3>1. IsRmc(n) /\ Lines(g) = L \cup {n}
        BY <2>5, <2>6, <2>10
      <3>2. PICK f : Waits(f, L) /\ Holds(q.pending, f)
        BY <2>10 DEF PairsInv
      <3> DEFINE new == [gga |-> f, rmc |-> n]
                 e == [gga |-> q.pending.line, rmc |-> s, hdop |-> q.pending.hdop]
      <3>3. /\ PairsOf(Lines(g)) = PairsOf(L) \cup {new}
            /\ \A l : ~Waits(l, Lines(g))
        <4>1. /\ \A p : p \in PairsOf(Lines(g)) <=>
                          \/ p \in PairsOf(L)
                          \/ \E l \in L : Waits(l, L) /\ p = [gga |-> l, rmc |-> n]
              /\ \A l : ~Waits(l, Lines(g))
          <5> HIDE DEF L
          <5>1. /\ \A p : p \in PairsOf(L \cup {n}) <=>
                            \/ p \in PairsOf(L)
                            \/ \E l \in L : Waits(l, L) /\ p = [gga |-> l, rmc |-> n]
                /\ \A l : ~Waits(l, L \cup {n})
            BY <2>2, <2>3, <2>8, <3>1, PairsAfterRmc
          <5> QED
            BY <3>1, <5>1
        <4>2. \A l : Waits(l, L) => l = f
          BY <2>8, <3>2, OneWaits
        <4>3. f \in L
          BY <3>2 DEF Waits
        <4>4. \A p : p \in PairsOf(Lines(g)) <=> p \in PairsOf(L) \/ p = new
          BY <3>2, <4>1, <4>2, <4>3
        <4> QED
          BY <4>1, <4>4
      <3>4. r = [q EXCEPT !.pending = None, !.sent = Append(@, e)]
        BY <1>2, <2>10 DEF CompleteSentence
      <3>5. r.sent = Append(q.sent, e) /\ r.pending = None
        BY <3>4 DEF ParserStates
      <3>6. e \in [gga : Buffers, rmc : Buffers, hdop : Ints]
            /\ q.sent \in Seq([gga : Buffers, rmc : Buffers, hdop : Ints])
        BY <2>10 DEF ParserStates
      <3>7. new.rmc = n /\ new.gga = f
        OBVIOUS
      <3>8. SaysPair(e, new)
        BY <2>1, <2>2, <3>2, <3>7 DEF SaysPair, Holds
      <3>9. \A p \in PairsOf(L) : p.rmc.end \in Nat /\ p.rmc.end < new.rmc.end
        <4>1. \A p \in PairsOf(L) : p.rmc \in L
          BY DEF PairsOf
        <4> QED
          BY <2>3, <2>8, <3>7, <4>1 DEF InOrder
      <3>10. SentAre(q.sent, PairsOf(L))
        BY DEF PairsInv
      <3> HIDE DEF new, e, r, L
      <3>11. new.rmc.end \in Nat
        BY <2>2, <3>7
      <3>12. SentAre(Append(q.sent, e), PairsOf(L) \cup {new})
        BY <3>6, <3>8, <3>9, <3>10, <3>11, OneMoreSent
      <3> QED
        BY <3>3, <3>5, <3>12 DEF PairsInv, r
    <2>11. CASE hdop = <<>> /\ ~(TypeOf(s) = TypeRmc /\ q.pending # None)
      <3>1. r = q
        BY <1>2, <2>11 DEF CompleteSentence
      <3>2. CASE TypeOf(s) # TypeRmc
        <4>1. Lines(g) = Lines(h)
          BY <2>5, <2>7, <2>11, <3>2
        <4> HIDE DEF r
        <4> QED
          BY <3>1, <4>1, SamePairs DEF r
      <3>3. CASE TypeOf(s) = TypeRmc
        <4>1. IsRmc(n) /\ Lines(g) = L \cup {n} /\ q.pending = None
          BY <2>5, <2>6, <2>11, <3>3
        <4>2. \A f : ~Waits(f, L)
          BY <4>1 DEF PairsInv
        <4>3. PairsOf(Lines(g)) = PairsOf(L) /\ \A f : ~Waits(f, Lines(g))
          <5>1. /\ \A p : p \in PairsOf(Lines(g)) <=>
                            \/ p \in PairsOf(L)
                            \/ \E l \in L : Waits(l, L) /\ p = [gga |-> l, rmc |-> n]
                /\ \A l : ~Waits(l, Lines(g))
            <6> HIDE DEF L
            <6>1. /\ \A p : p \in PairsOf(L \cup {n}) <=>
                              \/ p \in PairsOf(L)
                              \/ \E l \in L : Waits(l, L) /\ p = [gga |-> l, rmc |-> n]
                  /\ \A l : ~Waits(l, L \cup {n})
              BY <2>2, <2>3, <2>8, <4>1, PairsAfterRmc
            <6> QED
              BY <4>1, <6>1
          <5>2. \A p : p \in PairsOf(Lines(g)) <=> p \in PairsOf(L)
            BY <4>2, <5>1
          <5> QED
            BY <5>1, <5>2
        <4> HIDE DEF r, L
        <4>4. PairsInv(q, g)
          BY <4>1, <4>3 DEF PairsInv, L
        <4> QED
          BY <3>1, <4>4 DEF r
      <3> QED
        BY <3>2, <3>3
    <2> QED
      BY <2>9, <2>10, <2>11
  <1> QED
    BY <1>1, <1>2

\* Where no line ends, the pairs stay.
LEMMA NoLineNoPair ==
    ASSUME TableIsSound, NEW h \in Seq(Byte), NEW b \in Byte, NEW p, NEW q,
           q.sent = p.sent, q.pending = p.pending,
           \A i : ~LineAt(Append(h, b), i, Len(h) + 1),
           TableCovers(h) => PairsInv(p, h)
    PROVE  TableCovers(Append(h, b)) => PairsInv(q, Append(h, b))
  <1> DEFINE g == Append(h, b)
  <1>1. TableCovers(g) => TableCovers(h)
    BY CoversBefore
  <1>2. Found(g) = Found(h)
    BY NothingFound
  <1> HIDE DEF g
  <1>3. Lines(g) = Lines(h)
    BY <1>2 DEF Lines
  <1>4. PairsInv(p, h) => PairsInv(q, g)
    BY <1>3, SamePairs
  <1> QED
    BY <1>1, <1>4 DEF g

LEMMA ParserByteKeeps ==
    ASSUME TableIsSound, NEW p \in ParserStates, NEW h \in Seq(Byte), NEW b \in Byte,
           ParserInv(p, h)
    PROVE  ParserInv(ParserByte(p, b), Append(h, b))
  <1> DEFINE g == Append(h, b)
             s == Append(p.sentence, b)
             q == ParserByte(p, b)
             Ended == \E i : LineAt(g, i, Len(h) + 1)
  <1>1. /\ InHand(p, h)
        /\ TableCovers(h) => PairsInv(p, h)
    BY DEF ParserInv
  <1>2. ASSUME q.sent = p.sent, q.pending = p.pending, ~Ended
        PROVE  TableCovers(g) => PairsInv(q, g)
    <2> HIDE DEF q
    <2> QED
      BY <1>1, <1>2, NoLineNoPair
  <1>3. CASE b # "$" /\ ~p.inSentence
    <2>1. q = p
      BY <1>3 DEF ParserByte
    <2>2. Idle(g) /\ ~Ended
      BY <1>1, <1>3, StaysIdle DEF InHand
    <2> HIDE DEF q, g
    <2> QED
      BY <1>2, <1>3, <2>1, <2>2 DEF ParserInv, InHand, q, g
  <1>4. CASE b = "$"
    <2>1. q = [p EXCEPT !.inSentence = TRUE, !.sentence = <<b>>]
      BY <1>4 DEF ParserByte
    <2>2. q.inSentence /\ q.sentence = <<b>> /\ q.sent = p.sent /\ q.pending = p.pending
      BY <2>1 DEF ParserStates
    <2>3. Assembling(<<b>>, g) /\ ~Ended
      BY <1>4, Restarts
    <2> HIDE DEF q, g
    <2>4. InHand(q, g)
      BY <2>2, <2>3 DEF InHand
    <2> QED
      BY <1>2, <2>2, <2>3, <2>4 DEF ParserInv, q, g
  <1>5. CASE b # "$" /\ p.inSentence /\ Len(p.sentence) >= MaxSentenceLen
    <2>1. q = OutOfSentence(p)
      BY <1>5 DEF ParserByte
    <2>2. ~q.inSentence /\ q.sent = p.sent /\ q.pending = p.pending
      BY <2>1 DEF ParserStates, OutOfSentence
    <2>3. Idle(g) /\ ~Ended
      BY <1>1, <1>5, GivesUp DEF InHand
    <2> HIDE DEF q, g
    <2>4. InHand(q, g)
      BY <2>2, <2>3 DEF InHand
    <2> QED
      BY <1>2, <2>2, <2>3, <2>4 DEF ParserInv, q, g
  <1>6. CASE /\ b \notin {"$", "\n"} /\ p.inSentence
             /\ ~(Len(p.sentence) >= MaxSentenceLen)
    <2>1. q = [p EXCEPT !.sentence = s]
      BY <1>6 DEF ParserByte
    <2>2. q.inSentence /\ q.sentence = s /\ q.sent = p.sent /\ q.pending = p.pending
      BY <1>6, <2>1 DEF ParserStates
    <2>3. Assembling(s, g) /\ ~Ended
      BY <1>1, <1>6, GoesOn DEF InHand
    <2> HIDE DEF q, g, s
    <2>4. InHand(q, g)
      BY <2>2, <2>3 DEF InHand
    <2> QED
      BY <1>2, <2>2, <2>3, <2>4 DEF ParserInv, q, g
  <1>7. CASE b = "\n" /\ p.inSentence /\ ~(Len(p.sentence) >= MaxSentenceLen)
    <2> DEFINE r == [p EXCEPT !.sentence = s]
    <2>1. r.sent = p.sent /\ r.pending = p.pending /\ r.sentence = s
      BY DEF ParserStates
    <2>2. r \in ParserStates
      BY <1>7, BufferGrows DEF ParserStates
    <2>3. q = OutOfSentence(CompleteSentence(r))
      BY <1>7 DEF ParserByte
    <2>4. CompleteSentence(r) \in ParserStates
      <3> HIDE DEF r
      <3> QED
        BY <2>2, CompleteSentenceType
    <2>5. /\ ~q.inSentence
          /\ q.sent = CompleteSentence(r).sent /\ q.pending = CompleteSentence(r).pending
      <3> DEFINE c == CompleteSentence(r)
      <3>1. c \in ParserStates /\ q = OutOfSentence(c)
        BY <2>3, <2>4
      <3> HIDE DEF c, q
      <3>2. ~q.inSentence /\ q.sent = c.sent /\ q.pending = c.pending
        BY <3>1 DEF OutOfSentence, ParserStates
      <3> QED
        BY <3>2 DEF c
    <2> HIDE DEF r, q
    <2>6. Idle(g)
      BY <1>1, <1>7, Completes DEF InHand
    <2>7. PICK i : LineAt(g, i, Len(h) + 1) /\ SubSeq(g, i, Len(h) + 1) = s
      BY <1>1, <1>7, Completes DEF InHand
    <2>8. TableCovers(g) => TableCovers(h)
      BY CoversBefore
    <2>9. PairsInv(p, h) => PairsInv(r, h)
      BY <2>1, SamePairs
    <2>10. ASSUME TableCovers(g)
           PROVE  PairsInv(q, g)
      <3>1. PairsInv(r, h)
        BY <1>1, <2>8, <2>9, <2>10
      <3>2. SubSeq(g, i, Len(h) + 1) = r.sentence
        BY <2>1, <2>7
      <3> HIDE DEF g, s
      <3>3. PairsInv(CompleteSentence(r), g)
        <4>1. g = Append(h, b)
          BY DEF g
        <4> QED
          BY <2>2, <2>7, <2>10, <3>1, <3>2, <4>1, CompleteKeepsPairs
      <3> QED
        BY <2>5, <3>3, SamePairs
    <2> HIDE DEF g, s
    <2>11. InHand(q, g)
      BY <2>5, <2>6 DEF InHand
    <2> QED
      BY <2>10, <2>11 DEF ParserInv, q, g
  <1> QED
    BY <1>3, <1>4, <1>5, <1>6, <1>7

\* Over a chunk: however the reads cut the bytes.
LEMMA ParserFeedPairs ==
    ASSUME NEW p \in ParserStates, NEW h \in Seq(Byte), NEW chunk \in Seq(Byte)
    PROVE  /\ ParserFeed(p, chunk) \in ParserStates
           /\ TableIsSound /\ ParserInv(p, h) => ParserInv(ParserFeed(p, chunk), h \o chunk)
  <1>1. ParserFeed(p, chunk) \in ParserStates
    <2> DEFINE I == ParserStates \X Seq(Byte)
    <2>1. \A x \in ParserStates : \A g \in Seq(Byte) : \A b \in Byte :
              <<x, g>> \in I => <<ParserByte(x, b), Append(g, b)>> \in I
      BY ParserByteType, AppendProperties
    <2>2. <<p, h>> \in I
      OBVIOUS
    <2> HIDE DEF I
    <2> QED
      BY <2>1, <2>2, ParserFeedKeeps
  <1>2. ASSUME TableIsSound, ParserInv(p, h)
        PROVE  ParserInv(ParserFeed(p, chunk), h \o chunk)
    <2> DEFINE I == {x \in ParserStates \X Seq(Byte) : ParserInv(x[1], x[2])}
    <2>1. \A x \in ParserStates : \A g \in Seq(Byte) : \A b \in Byte :
              <<x, g>> \in I => <<ParserByte(x, b), Append(g, b)>> \in I
      BY <1>2, ParserByteType, ParserByteKeeps, AppendProperties
    <2>2. <<p, h>> \in I
      BY <1>2
    <2>3. <<ParserFeed(p, chunk), h \o chunk>> \in I
      <3> HIDE DEF I
      <3> QED
        BY <2>1, <2>2, ParserFeedKeeps
    <2> QED
      BY <2>3
  <1> QED
    BY <1>1, <1>2

-----------------------------------------------------------------------------
(* The system.                                                             *)

\* What an antenna sends are bytes.
LEMMA SentIsBytes ==
    ASSUME antenna.rate \in Nat, antenna.phase \in Nat, antenna.period \in Nat
    PROVE  Sent \in Seq(Byte)
  <1>1. Burst \in Seq(Byte) /\ Len(Burst) \in Nat /\ ReadTicks \in Nat
    BY LineAssumption, ScanAssumption, LenProperties
  <1>2. ASSUME NEW t \in Nat
        PROVE  Arrived(t) \in 0 .. Len(Burst)
    <2>1. PICK m \in Nat : m = t * antenna.rate
      <3>1. t * antenna.rate \in Nat
        OBVIOUS
      <3> QED
        BY <3>1
    <2>2. m \div 1000 \in Nat
      BY SMT
    <2>3. PICK k \in Nat : k = m \div 1000
      BY <2>2
    <2>4. Arrived(t) = Min({Len(Burst), k})
      BY <2>1, <2>3 DEF Arrived
    <2>5. \E x \in {Len(Burst), k} : \A y \in {Len(Burst), k} : x <= y
      BY <1>1
    <2> QED
      BY <1>1, <2>4, <2>5 DEF Min
  <1>3. \A m, n \in 0 .. Len(Burst) : SubSeq(Burst, m + 1, n) \in Seq(Byte)
    BY <1>1, PartIsBytes
  <1>4. CASE antenna.phase + ReadTicks < antenna.period
    <2>1. antenna.phase \in Nat /\ antenna.phase + ReadTicks \in Nat
      BY <1>1
    <2>2. Arrived(antenna.phase) \in 0 .. Len(Burst)
          /\ Arrived(antenna.phase + ReadTicks) \in 0 .. Len(Burst)
      BY <1>2, <2>1
    <2> QED
      BY <1>3, <1>4, <2>2 DEF Sent
  <1>5. CASE ~(antenna.phase + ReadTicks < antenna.period)
    <2>1. (antenna.phase + ReadTicks) - antenna.period \in Nat
      BY <1>1, <1>5
    <2>2. Arrived((antenna.phase + ReadTicks) - antenna.period) \in 0 .. Len(Burst)
      BY <1>2, <2>1
    <2>3. SubSeq(Burst, 1, Arrived((antenna.phase + ReadTicks) - antenna.period)) \in Seq(Byte)
      BY <1>1, <2>2, PartIsBytes
    <2> QED
      BY <1>5, <2>3 DEF Sent
  <1> QED
    BY <1>4, <1>5

Typed ==
    /\ task \in {"setup", "scan", "read"}
    /\ tick \in 0 .. TickModulus - 1
    /\ index \in 1 .. Len(Rates)
    /\ startedAt \in 0 .. TickModulus - 1
    /\ probe \in ProbeStates
    /\ parser \in ParserStates
    /\ antenna \in [rate : Nat, period : Nat \ {0}, phase : Nat]
    /\ noisy \in BOOLEAN
    /\ reads \in 0 .. MaxReads
    /\ heard \in Seq(Byte) /\ fed \in Seq(Byte)

\* Before the lock the probe has heard every byte since the rate was set, and
\* no line it wants; the lock comes with one.
Scans ==
    /\ task # "read" => fed = <<>>
    /\ task = "scan" => ProbeInv(probe, heard) /\ ~probe.valid
    /\ task = "read" => Hears(heard)

Inv == Typed /\ Scans /\ (TableIsSound => ParserInv(parser, fed))

LEMMA ReadableIsBytes ==
    ASSUME Typed
    PROVE  Readable \subseteq Seq(Byte)
  <1>1. Sent \in Seq(Byte)
    BY SentIsBytes DEF Typed
  <1>2. <<>> \in Seq(Byte) /\ Noise \subseteq Seq(Byte)
    BY LineAssumption
  <1> QED
    BY <1>1, <1>2 DEF Readable

LEMMA ResetIsNew ==
    /\ ProbeReset \in ProbeStates /\ ParserCleared \in ParserStates
    /\ ~ProbeReset.valid /\ ProbeInv(ProbeReset, <<>>)
    /\ TableIsSound => ParserInv(ParserCleared, <<>>)
  <1>1. ProbeReset \in ProbeStates /\ ~ProbeReset.valid /\ ~ProbeReset.inSentence
    BY ShortBuffers DEF ProbeReset, ProbeStates
  <1>2. ParserCleared \in ParserStates
    <2>1. <<>> \in Seq([gga : Buffers, rmc : Buffers, hdop : Ints])
      OBVIOUS
    <2>2. <<>> \in Buffers
      BY ShortBuffers
    <2> QED
      BY <2>1, <2>2 DEF ParserCleared, ParserStates
  <1>3. ProbeInv(ProbeReset, <<>>)
    BY <1>1, NothingInHand DEF ProbeInv, InHand, Hears
  <1>4. ASSUME TableIsSound
        PROVE  ParserInv(ParserCleared, <<>>)
    <2>1. InHand(ParserCleared, <<>>)
      BY NothingInHand DEF InHand, ParserCleared
    <2>2. Lines(<<>>) = {}
      <3>1. <<>> \in Seq(Byte)
        OBVIOUS
      <3>2. Found(<<>>) = {}
        BY <1>4, <3>1, FoundIsLine, NothingInHand
      <3> QED
        BY <3>2 DEF Lines
    <2>3. PairsOf({}) = {}
      BY DEF PairsOf
    <2>4. SentAre(<<>>, {})
      BY FS_EmptySet DEF SentAre
    <2>5. \A f : ~Waits(f, {})
      BY DEF Waits
    <2>6. ParserCleared.sent = <<>> /\ ParserCleared.pending = None
      BY DEF ParserCleared
    <2> QED
      BY <2>1, <2>2, <2>3, <2>4, <2>5, <2>6 DEF ParserInv, PairsInv
  <1> QED
    BY <1>1, <1>2, <1>3, <1>4

LEMMA ModIsBelow ==
    ASSUME NEW n \in Int, NEW m \in Nat \ {0}
    PROVE  n % m \in 0 .. m - 1
  OBVIOUS

LEMMA SomeTicks == TickModulus \in Nat \ {0} /\ Len(Rates) \in Nat \ {0} /\ ReadTicks \in Nat
  <1>1. Len(Rates) \in Nat \ {0} /\ TickModulus \in Nat /\ ReadTicks \in Nat
    BY ScanAssumption, LenProperties
  <1>2. 1 \in DOMAIN DwellTicks /\ DwellTicks[1] \in Nat
    <2>1. 1 \in 1 .. Len(DwellTicks)
      BY <1>1, ScanAssumption
    <2> QED
      BY <2>1, ScanAssumption, ElementOfSeq, LenProperties
  <1>3. DwellTicks[1] + ReadTicks < TickModulus
    BY <1>2, ScanAssumption
  <1> QED
    BY <1>1, <1>2, <1>3

LEMMA BaudSetStarts ==
    ASSUME NEW i \in Int, NEW now, BaudSet(i, now)
    PROVE  /\ index' \in 1 .. Len(Rates) /\ startedAt' = now
           /\ probe' = ProbeReset /\ heard' = <<>> /\ noisy' = FALSE
  <1>1. (i - 1) % Len(Rates) \in 0 .. Len(Rates) - 1
    <2>1. i - 1 \in Int
      OBVIOUS
    <2> QED
      BY <2>1, ModIsBelow, SomeTicks
  <1>2. index' = ((i - 1) % Len(Rates)) + 1
    BY DEF BaudSet
  <1>3. index' \in 1 .. Len(Rates)
    BY <1>1, <1>2, SomeTicks
  <1> QED
    BY <1>3 DEF BaudSet

LEMMA TimeStaysTyped ==
    ASSUME Typed, TimePasses
    PROVE  /\ tick' \in 0 .. TickModulus - 1
           /\ antenna' \in [rate : Nat, period : Nat \ {0}, phase : Nat]
  <1>1. tick' \in 0 .. TickModulus - 1
    <2>1. tick + ReadTicks \in Int
      BY SomeTicks DEF Typed
    <2> QED
      BY <2>1, ModIsBelow, SomeTicks DEF TimePasses
  <1>2. (antenna.phase + ReadTicks) % antenna.period \in Nat
    <2>1. antenna.phase + ReadTicks \in Int /\ antenna.period \in Nat \ {0}
      BY SomeTicks DEF Typed
    <2>2. (antenna.phase + ReadTicks) % antenna.period \in 0 .. antenna.period - 1
      BY <2>1, ModIsBelow
    <2> QED
      BY <2>1, <2>2
  <1>3. antenna' \in [rate : Nat, period : Nat \ {0}, phase : Nat]
    <2> DEFINE phase == (antenna.phase + ReadTicks) % antenna.period
    <2>1. antenna' = [antenna EXCEPT !.phase = phase]
      BY DEF TimePasses
    <2> HIDE DEF phase
    <2>2. phase \in Nat
      BY <1>2 DEF phase
    <2> QED
      BY <2>1, <2>2 DEF Typed
  <1> QED
    BY <1>1, <1>3

LEMMA InitInv == Init => Inv
  <1> SUFFICES ASSUME Init
               PROVE  Inv
    OBVIOUS
  <1>1. Typed
    <2>1. antenna \in [rate : Nat, period : Nat \ {0}, phase : Nat]
      BY LineAssumption DEF Init
    <2>2. 0 \in 0 .. TickModulus - 1 /\ 1 \in 1 .. Len(Rates) /\ 0 \in 0 .. MaxReads
      BY SomeTicks, ScanAssumption
    <2>3. <<>> \in Seq(Byte)
      OBVIOUS
    <2>4. task \in {"setup", "scan", "read"} /\ noisy \in BOOLEAN
      BY DEF Init
    <2> QED
      BY <2>1, <2>2, <2>3, <2>4, ResetIsNew DEF Typed, Init
  <1>2. Scans
    BY DEF Scans, Init
  <1>3. TableIsSound => ParserInv(parser, fed)
    BY ResetIsNew DEF Init
  <1> QED
    BY <1>1, <1>2, <1>3 DEF Inv

LEMMA NextInv == Inv /\ [Next]_vars => Inv'
  <1> SUFFICES ASSUME Inv, [Next]_vars
               PROVE  Inv'
    OBVIOUS
  <1>1. Typed /\ Scans /\ (TableIsSound => ParserInv(parser, fed))
    BY DEF Inv
  <1>2. CASE InitTaskSetup
    <2>1. /\ index' \in 1 .. Len(Rates) /\ startedAt' = tick
          /\ probe' = ProbeReset /\ heard' = <<>> /\ noisy' = FALSE
      <3>1. BaudSet(1, tick) /\ 1 \in Int
        BY <1>2 DEF InitTaskSetup
      <3> QED
        BY <3>1, BaudSetStarts
    <2>2. /\ task' = "scan" /\ parser' = ParserCleared /\ fed' = <<>>
          /\ tick' = tick /\ antenna' = antenna /\ reads' = reads
      BY <1>1, <1>2 DEF InitTaskSetup, Scans
    <2>3. Typed'
      <3>1. task' \in {"setup", "scan", "read"} /\ noisy' \in BOOLEAN
        BY <2>1, <2>2
      <3>2. <<>> \in Seq(Byte)
        OBVIOUS
      <3> QED
        BY <1>1, <2>1, <2>2, <3>1, <3>2, ResetIsNew DEF Typed
    <2>4. Scans'
      BY <2>1, <2>2, ResetIsNew DEF Scans
    <2>5. TableIsSound => ParserInv(parser', fed')
      BY <2>2, ResetIsNew
    <2> QED
      BY <2>3, <2>4, <2>5 DEF Inv
  <1>3. ASSUME NEW chunk \in Readable, InitTaskListens(chunk)
        PROVE  Inv'
    <2> DEFINE p == ProbeFeed(probe, chunk)
    <2>1. task = "scan" /\ ~p.valid /\ TimePasses
          /\ task' = task /\ parser' = parser /\ fed' = fed /\ reads' = reads
      BY <1>3 DEF InitTaskListens
    <2>2. chunk \in Seq(Byte)
      BY <1>1, ReadableIsBytes
    <2>3. ProbeInv(p, heard \o chunk) /\ p \in ProbeStates
      BY <1>1, <2>1, <2>2, ProbeFeedHears DEF Scans, Typed
    <2>4. IF DwellOver(tick') THEN BaudSet(index + 1, tick')
          ELSE probe' = p /\ heard' = heard \o chunk /\ noisy' \in BOOLEAN
               /\ index' = index /\ startedAt' = startedAt
      <3>1. DwellOver(tick') => BaudSet(index + 1, tick')
        BY <1>3 DEF InitTaskListens
      <3>2. ~DwellOver(tick') =>
                /\ probe' = p /\ heard' = heard \o chunk
                /\ noisy' = (noisy \/ (chunk # <<>> /\ Rates[index] # antenna.rate))
                /\ index' = index /\ startedAt' = startedAt
        BY <1>3 DEF InitTaskListens
      <3>3. ~DwellOver(tick') => noisy' \in BOOLEAN
        BY <1>1, <3>2 DEF Typed
      <3> QED
        BY <3>1, <3>2, <3>3
    <2> HIDE DEF p
    <2>5. /\ index' \in 1 .. Len(Rates) /\ startedAt' \in 0 .. TickModulus - 1
          /\ probe' \in ProbeStates /\ heard' \in Seq(Byte) /\ noisy' \in BOOLEAN
          /\ ProbeInv(probe', heard') /\ ~probe'.valid
      <3>1. CASE DwellOver(tick')
        <4>1. BaudSet(index + 1, tick') /\ index + 1 \in Int
          BY <1>1, <2>4, <3>1 DEF Typed
        <4>2. /\ index' \in 1 .. Len(Rates) /\ startedAt' = tick'
              /\ probe' = ProbeReset /\ heard' = <<>> /\ noisy' = FALSE
          BY <4>1, BaudSetStarts
        <4>3. tick' \in 0 .. TickModulus - 1 /\ <<>> \in Seq(Byte)
          BY <1>1, <2>1, TimeStaysTyped
        <4> QED
          BY <4>2, <4>3, ResetIsNew
      <3>2. CASE ~DwellOver(tick')
        <4>1. heard \o chunk \in Seq(Byte)
          BY <1>1, <2>2, ConcatProperties DEF Typed
        <4> QED
          BY <1>1, <2>1, <2>3, <2>4, <3>2, <4>1 DEF Typed
      <3> QED
        BY <3>1, <3>2
    <2>6. Typed'
      BY <1>1, <2>1, <2>5, TimeStaysTyped DEF Typed
    <2>7. Scans'
      BY <1>1, <2>1, <2>5 DEF Scans
    <2> QED
      BY <1>1, <2>1, <2>6, <2>7 DEF Inv
  <1>4. ASSUME NEW chunk \in Readable, InitTaskLocks(chunk)
        PROVE  Inv'
    <2> DEFINE p == ProbeFeed(probe, chunk)
    <2>1. task = "scan" /\ p.valid /\ TimePasses /\ task' = "read"
          /\ probe' = ProbeReset /\ parser' = ParserFeed(parser, chunk)
          /\ fed' = chunk /\ heard' = heard \o chunk
          /\ index' = index /\ startedAt' = startedAt /\ noisy' = noisy /\ reads' = reads
      BY <1>4 DEF InitTaskLocks
    <2>2. chunk \in Seq(Byte)
      BY <1>1, ReadableIsBytes
    <2>3. ProbeInv(p, heard \o chunk)
      BY <1>1, <2>1, <2>2, ProbeFeedHears DEF Scans, Typed
    <2>4. Hears(heard')
      BY <2>1, <2>3 DEF ProbeInv
    <2>5. fed = <<>> /\ <<>> \o chunk = chunk
      BY <1>1, <2>1, <2>2, ConcatEmptySeq DEF Scans
    <2>6. parser' \in ParserStates /\ (TableIsSound => ParserInv(parser', fed'))
      <3>1. parser \in ParserStates /\ fed \in Seq(Byte)
        BY <1>1 DEF Typed
      <3>2. /\ ParserFeed(parser, chunk) \in ParserStates
            /\ TableIsSound /\ ParserInv(parser, fed)
                   => ParserInv(ParserFeed(parser, chunk), fed \o chunk)
        BY <2>2, <3>1, ParserFeedPairs
      <3> QED
        BY <1>1, <2>1, <2>5, <3>2
    <2>7. heard \o chunk \in Seq(Byte)
      BY <1>1, <2>2, ConcatProperties DEF Typed
    <2>8. Typed'
      BY <1>1, <2>1, <2>2, <2>6, <2>7, TimeStaysTyped, ResetIsNew DEF Typed
    <2>9. Scans'
      BY <2>1, <2>4 DEF Scans
    <2> QED
      BY <2>6, <2>8, <2>9 DEF Inv
  <1>5. ASSUME NEW chunk \in Traffic \cup {<<>>}, UartTaskReads(chunk)
        PROVE  Inv'
    <2>1. /\ task = "read" /\ parser' = ParserFeed(parser, chunk) /\ fed' = fed \o chunk
          /\ task' = task /\ tick' = tick /\ index' = index /\ startedAt' = startedAt
          /\ probe' = probe /\ antenna' = antenna /\ noisy' = noisy /\ heard' = heard
      BY <1>5 DEF UartTaskReads, scanVars
    <2>2. chunk \in Seq(Byte)
      <3>1. <<>> \in Seq(Byte)
        OBVIOUS
      <3> QED
        BY <3>1, LineAssumption
    <2>3. parser \in ParserStates /\ fed \in Seq(Byte)
      BY <1>1 DEF Typed
    <2>4. /\ parser' \in ParserStates
          /\ TableIsSound /\ ParserInv(parser, fed) => ParserInv(parser', fed')
      BY <2>1, <2>2, <2>3, ParserFeedPairs
    <2>5. fed' \in Seq(Byte)
      BY <2>1, <2>2, <2>3, ConcatProperties
    <2>6. reads' \in 0 .. MaxReads
      <3>1. reads \in 0 .. MaxReads /\ MaxReads \in Nat
        BY <1>1, ScanAssumption DEF Typed
      <3>2. \/ reads' = reads
            \/ reads < MaxReads /\ reads' = reads + 1
        BY <1>5 DEF UartTaskReads
      <3> QED
        BY <3>1, <3>2
    <2>7. Typed'
      BY <1>1, <2>1, <2>4, <2>5, <2>6 DEF Typed
    <2>8. Scans'
      BY <1>1, <2>1 DEF Scans
    <2> QED
      BY <1>1, <2>4, <2>7, <2>8 DEF Inv
  <1>6. CASE UNCHANGED vars
    <2>1. /\ task' = task /\ tick' = tick /\ index' = index /\ startedAt' = startedAt
          /\ probe' = probe /\ parser' = parser /\ antenna' = antenna /\ noisy' = noisy
          /\ heard' = heard /\ fed' = fed /\ reads' = reads
      BY <1>6 DEF vars, scanVars, ghosts
    <2>2. Typed'
      BY <1>1, <2>1 DEF Typed
    <2>3. Scans'
      BY <1>1, <2>1 DEF Scans
    <2> QED
      BY <1>1, <2>1, <2>2, <2>3 DEF Inv
  <1> QED
    BY <1>2, <1>3, <1>4, <1>5, <1>6 DEF Next

\* Every reachable state satisfies the invariant.
THEOREM Invariance == Spec => []Inv
  BY InitInv, NextInv, PTL DEF Spec

\* Every variable keeps to the values its C type allows; neither the probe's
\* nor the parser's buffer takes more than GNSS_NMEA_MAX_SENTENCE_LEN bytes,
\* and every HDOP fits an int.
THEOREM TypeCorrectness == Spec => []TypeOK
  <1>1. Inv => TypeOK
    <2>1. ASSUME Inv
          PROVE  TypeOK
      <3>1. Typed
        BY <2>1 DEF Inv
      <3>2. index \in DOMAIN Rates
        BY <3>1, ScanAssumption, LenProperties DEF Typed
      <3>3. \A p \in {probe, parser} :
                p.sentence \in Seq(Byte) /\ Len(p.sentence) <= MaxSentenceLen
        BY <3>1 DEF Typed, ProbeStates, ParserStates, Buffers
      <3>4. ASSUME parser.pending # None
            PROVE  /\ Len(parser.pending.line) <= MaxSentenceLen
                   /\ parser.pending.hdop \in -IntMax - 1 .. IntMax
        <4>1. parser.pending \in [line : Buffers, hdop : Ints]
          BY <3>1, <3>4 DEF Typed, ParserStates
        <4> QED
          BY <4>1 DEF Buffers, Ints
      <3>5. probe.inSentence \in BOOLEAN /\ parser.inSentence \in BOOLEAN
        BY <3>1 DEF Typed, ProbeStates, ParserStates
      <3> QED
        BY <3>1, <3>2, <3>3, <3>4, <3>5 DEF TypeOK, Typed
    <2> QED
      BY <2>1
  <1> QED
    BY <1>1, Invariance, PTL

\* What the probe hears is what is found.
LEMMA HearsIsFound ==
    ASSUME TableIsSound, NEW h \in Seq(Byte), TableCovers(h)
    PROVE  Hears(h) <=> \E f \in Found(h) : f.sentence.type \in ProbeTypes
  <1>1. ASSUME NEW i, NEW j, LineAt(h, i, j), Good(SubSeq(h, i, j))
        PROVE  \E f \in Found(h) : f.sentence.type \in ProbeTypes
    <2>1. i \in DOMAIN h /\ j \in DOMAIN h /\ IsLine(SubSeq(h, i, j))
          /\ ChecksumOk(SubSeq(h, i, j)) /\ TypeOf(SubSeq(h, i, j)) \in ProbeTypes
      BY <1>1, LenProperties DEF LineAt, Good, LooksValid
    <2>2. PICK s \in Sentences : s.line = SubSeq(h, i, j)
      BY <2>1 DEF TableCovers
    <2>3. s.type \in ProbeTypes
      BY <2>1, <2>2 DEF TableIsSound
    <2> DEFINE f == [end |-> j, sentence |-> s]
    <2>4. f \in Found(h) /\ f.sentence = s
      BY <1>1, <2>2, LineIsFound
    <2> HIDE DEF f
    <2> QED
      BY <2>3, <2>4
  <1>2. ASSUME NEW f \in Found(h), f.sentence.type \in ProbeTypes
        PROVE  Hears(h)
    <2> DEFINE s == SubSeq(h, FirstByte(f), f.end)
    <2>1. /\ f.sentence \in Sentences /\ LineAt(h, FirstByte(f), f.end)
          /\ f.sentence.line = s
      BY FoundIsLine
    <2>2. ChecksumOk(s) /\ TypeOf(s) \in ProbeTypes
      BY <1>2, <2>1 DEF TableIsSound
    <2>3. s[1] = "$"
      BY <2>1 DEF LineAt, IsLine
    <2>4. Good(s)
      BY <2>2, <2>3 DEF Good, LooksValid
    <2> QED
      BY <2>1, <2>4 DEF Hears
  <1> QED
    BY <1>1, <1>2 DEF Hears

\* The rate is locked exactly when the bytes read at it hold an intact line of
\* a known type: for every stream of bytes, whatever the reads make of it, if
\* the table of sentences is true and lists every intact line heard.
THEOREM LocksExactly ==
    TableIsSound => (Spec => [](TableCovers(heard) => LocksOnSentence))
  <1> SUFFICES ASSUME TableIsSound
               PROVE  Spec => [](TableCovers(heard) => LocksOnSentence)
    OBVIOUS
  <1>1. ASSUME Inv, TableCovers(heard)
        PROVE  LocksOnSentence
    <2>1. Typed /\ Scans
      BY <1>1 DEF Inv
    <2>2. Hears(heard) <=> \E f \in Found(heard) : f.sentence.type \in ProbeTypes
      BY <1>1, <2>1, HearsIsFound DEF Typed
    <2>3. task = "scan" => ~Hears(heard)
      BY <2>1 DEF Scans, ProbeInv
    <2>4. task = "read" => Hears(heard)
      BY <2>1 DEF Scans
    <2>5. task \in {"setup", "scan", "read"}
      BY <2>1 DEF Typed
    <2> QED
      BY <2>2, <2>3, <2>4, <2>5 DEF LocksOnSentence
  <1>2. Inv => (TableCovers(heard) => LocksOnSentence)
    BY <1>1
  <1> QED
    BY <1>2, Invariance, PTL

\* The pairs that come out are those a reader of the whole stream would name,
\* in order, lines whole and HDOP right: for every stream of bytes fed, however
\* the reads cut it, under the same two conditions on the table.
THEOREM PairsComeOutExactly ==
    TableIsSound => (Spec => [](TableCovers(fed) => PairsAreExact))
  <1> SUFFICES ASSUME TableIsSound
               PROVE  Spec => [](TableCovers(fed) => PairsAreExact)
    OBVIOUS
  <1>1. ASSUME Inv, TableCovers(fed)
        PROVE  PairsAreExact
    <2>1. PairsInv(parser, fed) /\ fed \in Seq(Byte)
      BY <1>1 DEF Inv, ParserInv, Typed
    <2>2. PairsIn(fed) = PairsOf(Lines(fed))
      BY <1>1, <2>1, LinesAreInOrder
    <2>3. SentAre(parser.sent, PairsIn(fed))
      BY <2>1, <2>2 DEF PairsInv
    <2> QED
      BY <2>3 DEF SentAre, SaysPair, SaysHdop, UpTo, PairsAreExact
  <1>2. Inv => (TableCovers(fed) => PairsAreExact)
    BY <1>1
  <1> QED
    BY <1>2, Invariance, PTL

-----------------------------------------------------------------------------
(* The table.                                                              *)

\* The table of all intact lines, each with the thousandths that its HDOP comes
\* to as a number, -1 in a line without one.
Milli(s) == IF ParseHdopMilli(s) = <<>> THEN -1 ELSE Thousandths(Field(s, 8))
Entry(s) == [line |-> s, type |-> TypeOf(s), milli |-> Milli(s)]
IntactLines == {s \in Seq(Byte) : IsLine(s) /\ ChecksumOk(s)}
AllSentences == {Entry(s) : s \in IntactLines}

\* Such a table is true and lists every intact line of every stream.
LEMMA AllSentencesAreATable ==
    ASSUME Sentences = AllSentences
    PROVE  TableIsSound /\ \A h \in Seq(Byte) : TableCovers(h)
  <1>1. ASSUME NEW t \in Sentences
        PROVE  /\ t.line \in Seq(Byte) /\ IsLine(t.line) /\ ChecksumOk(t.line)
               /\ t.type = TypeOf(t.line) /\ t.milli = Milli(t.line)
               /\ t = Entry(t.line)
    BY DEF AllSentences, IntactLines, Entry
  <1>2. ASSUME NEW t \in Sentences
        PROVE  LET hdop == ParseHdopMilli(t.line)
               IN  /\ t.milli \in Int
                   /\ t.milli >= 0 <=> hdop # <<>>
                   /\ t.milli \in 0 .. IntMax => hdop = <<t.milli>>
    <2> DEFINE hdop == ParseHdopMilli(t.line)
               milli == Thousandths(Field(t.line, 8))
    <2>1. t.milli = IF hdop = <<>> THEN -1 ELSE milli
      BY <1>1 DEF Milli
    <2>2. hdop # <<>> => milli \in Nat /\ (milli <= IntMax => hdop = <<milli>>)
      BY <1>1, HdopIsExact
    <2> HIDE DEF hdop, milli
    <2>3. /\ t.milli \in Int
          /\ t.milli >= 0 <=> hdop # <<>>
          /\ t.milli \in 0 .. IntMax => hdop = <<t.milli>>
      BY <2>1, <2>2, IntAssumption
    <2> QED
      BY <2>3 DEF hdop
  <1>3. \A s, t \in Sentences : s.line = t.line => s = t
    BY <1>1
  <1>4. TableIsSound
    BY <1>1, <1>2, <1>3 DEF TableIsSound
  <1>5. ASSUME NEW h \in Seq(Byte), NEW i \in DOMAIN h, NEW j \in DOMAIN h,
               IsLine(SubSeq(h, i, j)), ChecksumOk(SubSeq(h, i, j))
        PROVE  \E s \in Sentences : s.line = SubSeq(h, i, j)
    <2> DEFINE line == SubSeq(h, i, j)
    <2>1. i \in Nat \ {0} /\ j \in Int /\ j <= Len(h)
      BY LenProperties
    <2>2. line \in IntactLines
      BY <1>5, <2>1, PartIsBytes DEF IntactLines
    <2> HIDE DEF line
    <2>3. Entry(line) \in Sentences /\ Entry(line).line = line
      BY <2>2 DEF AllSentences, Entry
    <2> QED
      BY <2>3 DEF line
  <1> QED
    BY <1>4, <1>5 DEF TableCovers

\* So with that table nothing is asked of the stream: the lock and the pairs
\* are exact whatever comes in, and each pair carries the number that its GGA's
\* HDOP is, unless an int cannot hold its thousandths.
THEOREM ExactWhateverComesIn ==
    Sentences = AllSentences => (Spec => [](LocksOnSentence /\ PairsAreExact))
  <1> SUFFICES ASSUME Sentences = AllSentences
               PROVE  Spec => [](LocksOnSentence /\ PairsAreExact)
    OBVIOUS
  <1>1. TableIsSound /\ \A h \in Seq(Byte) : TableCovers(h)
    BY AllSentencesAreATable
  <1>2. Inv => TableCovers(heard) /\ TableCovers(fed)
    BY <1>1 DEF Inv, Typed
  <1>3. TableIsSound
    BY <1>1
  <1>4. Spec => [](TableCovers(heard) => LocksOnSentence)
    BY <1>3, LocksExactly
  <1>5. Spec => [](TableCovers(fed) => PairsAreExact)
    BY <1>3, PairsComeOutExactly
  <1> QED
    BY <1>2, <1>4, <1>5, Invariance, PTL
=============================================================================
