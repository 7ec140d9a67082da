---------------------------- MODULE LogRingProofs ----------------------------
(***************************************************************************)
(* Theorems about LogRing, for every size of ring, line and chunk, every   *)
(* width of the byte counter and any number of tasks that log: a chunk is  *)
(* a stretch of the log, no surviving byte is skipped, and the worker is   *)
(* not left asleep beside bytes to send.                                   *)
(***************************************************************************)
EXTENDS LogRing, TLAPS

-----------------------------------------------------------------------------
(* Remainders.  The counter is one modulo 2^32, a place in the ring one    *)
(* modulo RingSize, and the first modulus is a multiple of the second.     *)

LEMMA Division ==
    ASSUME NEW m \in Nat \ {0}, NEW a \in Int
    PROVE  \E q \in Int, r \in 0 .. m - 1 : a = q * m + r /\ a % m = r
  <1>1. a \div m \in Int /\ a = (a \div m) * m + (a % m)
    OBVIOUS
  <1>2. a % m \in 0 .. m - 1
    OBVIOUS
  <1> QED
    BY <1>1, <1>2

LEMMA Remainder ==
    ASSUME NEW m \in Nat \ {0}, NEW q \in Int, NEW r \in 0 .. m - 1
    PROVE  (q * m + r) % m = r
  OBVIOUS

LEMMA Distributes ==
    ASSUME NEW m \in Int, NEW p \in Int, NEW q \in Int
    PROVE  (p + q) * m = p * m + q * m /\ (p - q) * m = p * m - q * m
  OBVIOUS

\* A multiple of m makes no difference.
LEMMA Congruence ==
    ASSUME NEW m \in Nat \ {0}, NEW a \in Int, NEW b \in Int, NEW q \in Int,
           a = q * m + b
    PROVE  a % m = b % m
  <1>1. PICK p \in Int, r \in 0 .. m - 1 : b = p * m + r /\ b % m = r
    BY Division
  <1>2. a = (q + p) * m + r
    BY <1>1, Distributes
  <1>3. (q + p) \in Int
    OBVIOUS
  <1> QED
    BY <1>1, <1>2, <1>3, Remainder

LEMMA SumRemainder ==
    ASSUME NEW m \in Nat \ {0}, NEW a \in Int, NEW b \in Int
    PROVE  ((a % m) + b) % m = (a + b) % m
  <1>1. PICK q \in Int, r \in 0 .. m - 1 : a = q * m + r /\ a % m = r
    BY Division
  <1>2. a + b = q * m + (r + b) /\ r + b \in Int /\ a + b \in Int
    BY <1>1
  <1>3. (a + b) % m = (r + b) % m
    BY <1>2, Congruence
  <1> QED
    BY <1>1, <1>3

LEMMA DifferenceRemainder ==
    ASSUME NEW m \in Nat \ {0}, NEW a \in Int, NEW b \in Int
    PROVE  ((a % m) - (b % m)) % m = (a - b) % m
  <1>1. PICK q \in Int, r \in 0 .. m - 1 : a = q * m + r /\ a % m = r
    BY Division
  <1>2. PICK p \in Int, s \in 0 .. m - 1 : b = p * m + s /\ b % m = s
    BY Division
  <1>3. a - b = (q - p) * m + (r - s)
    BY <1>1, <1>2, Distributes
  <1>4. q - p \in Int /\ r - s \in Int /\ a - b \in Int
    OBVIOUS
  <1>5. (a - b) % m = (r - s) % m
    BY <1>3, <1>4, Congruence
  <1> QED
    BY <1>1, <1>2, <1>5

\* Counting modulo a multiple of m first makes no difference.
LEMMA NestedRemainder ==
    ASSUME NEW m \in Nat \ {0}, NEW k \in Nat \ {0}, NEW a \in Int
    PROVE  (a % (k * m)) % m = a % m
  <1>1. k * m \in Nat \ {0}
    OBVIOUS
  <1>2. PICK q \in Int, r \in 0 .. k * m - 1 :
            a = q * (k * m) + r /\ a % (k * m) = r
    BY <1>1, Division
  <1>3. a = (q * k) * m + r /\ q * k \in Int /\ r \in Int
    BY <1>2
  <1>4. a % m = r % m
    BY <1>3, Congruence
  <1> QED
    BY <1>2, <1>4

\* Numbers closer than m have remainders of their own.
LEMMA EqualRemainders ==
    ASSUME NEW m \in Nat \ {0}, NEW a \in Int, NEW b \in Int,
           a % m = b % m, a - b < m, b - a < m
    PROVE  a = b
  <1>1. PICK q \in Int, r \in 0 .. m - 1 : a = q * m + r /\ a % m = r
    BY Division
  <1>2. PICK p \in Int, s \in 0 .. m - 1 : b = p * m + s /\ b % m = s
    BY Division
  <1>3. a - b = (q - p) * m
    BY <1>1, <1>2, Distributes
  <1>4. q - p = 0
    BY <1>3
  <1> QED
    BY <1>3, <1>4

-----------------------------------------------------------------------------
(* The inductive invariant.                                                *)

\* The ring holds the last RingSize bytes, each in its place.
RingHolds ==
    \A n \in Nat : n < logged /\ n >= logged - RingSize => ring[n % RingSize] = n

\* last_sent is the position of the response, cut to its width; a chunk in
\* hand starts there.
ReaderInv ==
    /\ readerPc # "idle" =>
          /\ next <= logged /\ logged - next < Modulus
          /\ lastSent = next % Modulus
    /\ readerPc # "send" => chunk = <<>>
    /\ readerPc = "send" =>
          /\ Len(chunk) > 0 /\ next + Len(chunk) <= logged
          /\ \A i \in 1 .. Len(chunk) : chunk[i] = next + i - 1

IInv ==
    /\ TypeOK
    /\ next \in Nat
    /\ total = logged % Modulus
    /\ RingHolds
    /\ ReaderInv
    /\ NoLostWakeup

LEMMA Sizes ==
    /\ RingSize \in Nat \ {0} /\ Modulus \in Nat \ {0} /\ RingSize < Modulus
    /\ LineMax \in 1 .. RingSize /\ ChunkSize \in Nat \ {0} /\ MaxLogged \in Nat
  BY SizesAssumption, ModulusAssumption

LEMMA Bounds ==
    ASSUME NEW a \in Int
    PROVE  a % Modulus \in 0 .. Modulus - 1
  BY Sizes

\* Positions that differ by the wrap of the counter share their place.
LEMMA RingIndex ==
    ASSUME NEW a \in Int
    PROVE  (a % Modulus) % RingSize = a % RingSize
  <1>1. Modulus \in Int /\ RingSize \in Nat \ {0}
    BY Sizes
  <1>2. PICK k \in Int, r \in 0 .. RingSize - 1 :
            Modulus = k * RingSize + r /\ Modulus % RingSize = r
    BY <1>1, Division
  <1>3. r = 0
    BY <1>2, ModulusAssumption
  <1>4. Modulus = k * RingSize
    BY <1>1, <1>2, <1>3
  <1>5. k \in Nat \ {0}
    BY <1>4, Sizes
  <1> QED
    BY <1>4, <1>5, Sizes, NestedRemainder

LEMMA IndexAfter ==
    ASSUME NEW a \in Int, NEW k \in Int
    PROVE  (((a % Modulus) + k) % Modulus) % RingSize = (a + k) % RingSize
  <1>1. ((a % Modulus) + k) % Modulus = (a + k) % Modulus
    BY Sizes, SumRemainder
  <1> QED
    BY <1>1, RingIndex

\* Subtraction of size_t finds distances shorter than the counter.
LEMMA Distance ==
    ASSUME NEW a \in Int, NEW b \in Int, a - b \in 0 .. Modulus - 1
    PROVE  Minus(a % Modulus, b % Modulus) = a - b
  <1>1. ((a % Modulus) - (b % Modulus)) % Modulus = (a - b) % Modulus
    BY Sizes, DifferenceRemainder
  <1>2. (a - b) % Modulus = a - b
    BY Sizes, Remainder
  <1> QED
    BY <1>1, <1>2 DEF Minus

-----------------------------------------------------------------------------
(* A line is written.                                                      *)

\* The line goes where its positions belong and overwrites only bytes that are
\* a whole ring older.
LEMMA LineInRing ==
    ASSUME IInv, NEW len \in 1 .. LineMax, logged + len <= MaxLogged,
           ring' = RingAfter(len), logged' = logged + len,
           total' = (total + len) % Modulus
    PROVE  /\ ring' \in [0 .. RingSize - 1 -> -1 .. MaxLogged - 1]
           /\ total' = logged' % Modulus
           /\ RingHolds'
  <1>1. logged \in Nat /\ logged <= MaxLogged /\ len <= RingSize /\ len > 0
    BY Sizes DEF IInv, TypeOK
  <1>2. DOMAIN ring = 0 .. RingSize - 1 /\ DOMAIN ring' = 0 .. RingSize - 1
    BY DEF IInv, TypeOK, RingAfter
  <1>3. ASSUME NEW k \in Int
        PROVE  ((total + k) % Modulus) % RingSize = (logged + k) % RingSize
    BY <1>1, IndexAfter DEF IInv
  <1>4. ASSUME NEW i \in 0 .. RingSize - 1, NEW k \in 0 .. len - 1,
               i = (logged + k) % RingSize
        PROVE  ring'[i] = logged + k
    <2>1. \A j \in 0 .. len - 1 :
              i = ((total + j) % Modulus) % RingSize => j = k
      <3> SUFFICES ASSUME NEW j \in 0 .. len - 1,
                          i = ((total + j) % Modulus) % RingSize
                   PROVE  j = k
        OBVIOUS
      <3>1. (logged + j) % RingSize = (logged + k) % RingSize
        BY <1>3, <1>4
      <3>2. logged + j \in Int /\ logged + k \in Int
        BY <1>1
      <3>3. /\ (logged + j) - (logged + k) < RingSize
            /\ (logged + k) - (logged + j) < RingSize
        BY <1>1, Sizes
      <3>4. logged + j = logged + k
        BY <3>1, <3>2, <3>3, Sizes, EqualRemainders
      <3> QED
        BY <1>1, <3>4
    <2>2. i = ((total + k) % Modulus) % RingSize
      BY <1>3, <1>4
    <2>3. (CHOOSE j \in 0 .. len - 1 :
               i = ((total + j) % Modulus) % RingSize) = k
      BY <2>1, <2>2
    <2>4. ring'[i] = logged + (CHOOSE j \in 0 .. len - 1 :
                                  i = ((total + j) % Modulus) % RingSize)
      BY <1>2, <2>2 DEF RingAfter
    <2> QED
      BY <2>3, <2>4
  <1>5. ASSUME NEW i \in 0 .. RingSize - 1,
               \A k \in 0 .. len - 1 : i # (logged + k) % RingSize
        PROVE  ring'[i] = ring[i]
    <2>1. ~ \E k \in 0 .. len - 1 : i = ((total + k) % Modulus) % RingSize
      BY <1>3, <1>5
    <2> QED
      BY <1>2, <2>1 DEF RingAfter
  <1>6. ring' \in [0 .. RingSize - 1 -> -1 .. MaxLogged - 1]
    <2>1. ASSUME NEW i \in 0 .. RingSize - 1
          PROVE  ring'[i] \in -1 .. MaxLogged - 1
      <3>1. CASE \E k \in 0 .. len - 1 : i = (logged + k) % RingSize
        <4>1. PICK k \in 0 .. len - 1 : ring'[i] = logged + k
          BY <1>4, <3>1
        <4> QED
          BY <1>1, <4>1, Sizes
      <3>2. CASE \A k \in 0 .. len - 1 : i # (logged + k) % RingSize
        BY <1>5, <3>2 DEF IInv, TypeOK
      <3> QED
        BY <3>1, <3>2
    <2> QED
      BY <1>2, <2>1 DEF RingAfter
  <1>7. total' = logged' % Modulus
    <2>1. logged \in Int /\ len \in Int /\ Modulus \in Nat \ {0}
      BY <1>1, Sizes
    <2>2. ((logged % Modulus) + len) % Modulus = (logged + len) % Modulus
      BY <2>1, SumRemainder
    <2> QED
      BY <2>2 DEF IInv
  <1>8. ASSUME NEW n \in Nat, n < logged', n >= logged' - RingSize
        PROVE  ring'[n % RingSize] = n
    <2>1. n % RingSize \in 0 .. RingSize - 1
      BY Sizes
    <2>2. CASE n >= logged
      <3>1. n - logged \in 0 .. len - 1 /\ logged + (n - logged) = n
        BY <1>1, <1>8, <2>2
      <3> QED
        BY <1>4, <2>1, <3>1
    <2>3. CASE n < logged
      <3>1. ASSUME NEW k \in 0 .. len - 1
            PROVE  n % RingSize # (logged + k) % RingSize
        <4>1. logged + k \in Int /\ n \in Int /\ logged + k # n
          BY <1>1, <2>3
        <4>2. n - (logged + k) < RingSize /\ (logged + k) - n < RingSize
          BY <1>1, <1>8, <2>3, Sizes
        <4> QED
          BY <4>1, <4>2, Sizes, EqualRemainders
      <3>2. ring'[n % RingSize] = ring[n % RingSize]
        BY <1>5, <2>1, <3>1
      <3>3. n >= logged - RingSize
        BY <1>1, <1>8, Sizes
      <3> QED
        BY <2>3, <3>2, <3>3 DEF IInv, RingHolds
    <2> QED
      BY <1>1, <2>2, <2>3
  <1> QED
    BY <1>6, <1>7, <1>8 DEF RingHolds

-----------------------------------------------------------------------------
(* A chunk is copied.                                                      *)

\* Where a reader that copies goes on: at `next`, or, when that is
\* overwritten, at the oldest byte of the ring.
Position == IF logged - next > RingSize THEN logged - RingSize ELSE next

LEMMA CopyAtPosition ==
    ASSUME IInv, ReaderCopy
    PROVE  LET n == Lower(logged - Position, ChunkSize)
           IN  /\ Position \in Nat /\ Position >= next /\ Position <= logged
               /\ logged - Position <= RingSize
               /\ lastSent' = Position % Modulus
               /\ chunk' = [k \in 1 .. n |-> Position + k - 1]
               /\ next' = IF n > 0 THEN chunk'[1] ELSE next
               /\ readerPc' = IF n > 0 THEN "send" ELSE "wait"
  <1> DEFINE n == Lower(logged - Position, ChunkSize)
             behind == Minus(total, lastSent)
             from == IF behind > RingSize THEN Minus(total, RingSize) ELSE lastSent
  <1>1. /\ logged \in Nat /\ next \in Nat /\ next <= logged
        /\ logged - next \in 0 .. Modulus - 1
        /\ lastSent = next % Modulus /\ total = logged % Modulus
    BY Sizes DEF IInv, TypeOK, ReaderInv, ReaderCopy
  <1>2. behind = logged - next
    BY <1>1, Distance
  <1>3. /\ Position \in Nat /\ Position >= next /\ Position <= logged
        /\ logged - Position <= RingSize
    BY <1>1, Sizes DEF Position
  <1>4. from = Position % Modulus
    <2>1. CASE behind > RingSize
      <3>1. logged \in Int /\ RingSize \in Int /\ Modulus \in Nat \ {0}
        BY <1>1, Sizes
      <3>2. RingSize % Modulus = RingSize
        BY Sizes, Remainder
      <3>3. Minus(total, RingSize) = (logged - RingSize) % Modulus
        BY <1>1, <3>1, <3>2, DifferenceRemainder DEF Minus
      <3> QED
        BY <1>2, <2>1, <3>3 DEF Position
    <2>2. CASE ~(behind > RingSize)
      BY <1>1, <1>2, <2>2 DEF Position
    <2> QED
      BY <2>1, <2>2
  <1>5. Minus(total, from) = logged - Position
    <2>1. logged - Position \in 0 .. Modulus - 1 /\ logged \in Int /\ Position \in Int
      BY <1>1, <1>3, Sizes
    <2> QED
      BY <1>1, <1>4, <2>1, Distance
  <1>6. n \in Nat /\ n <= logged - Position
    BY <1>1, <1>3, Sizes DEF Lower
  <1>7. ASSUME NEW k \in 1 .. n
        PROVE  ring[((from + k - 1) % Modulus) % RingSize] = Position + k - 1
    <2>1. Position \in Int /\ k - 1 \in Int /\ Position + k - 1 \in Nat
      BY <1>3, <1>6
    <2>2. (((Position % Modulus) + (k - 1)) % Modulus) % RingSize
              = (Position + (k - 1)) % RingSize
      BY <2>1, IndexAfter
    <2>3. ring[(Position + k - 1) % RingSize] = Position + k - 1
      <3>1. Position + k - 1 < logged /\ Position + k - 1 >= logged - RingSize
        BY <1>1, <1>3, <1>6, Sizes
      <3> QED
        BY <2>1, <3>1 DEF IInv, RingHolds
    <2>4. from \in Int
      BY <1>4, <2>1, Sizes
    <2>5. from + k - 1 = (Position % Modulus) + (k - 1)
      BY <1>4, <2>4
    <2>6. Position + k - 1 = Position + (k - 1)
      BY <2>1
    <2> QED
      BY <2>2, <2>3, <2>5, <2>6
  <1>8. chunk' = [k \in 1 .. n |-> Position + k - 1]
    <2>1. chunk' = [k \in 1 .. n |-> ring[((from + k - 1) % Modulus) % RingSize]]
      BY <1>5 DEF ReaderCopy, Copied
    <2> QED
      BY <1>7, <2>1
  <1>9. /\ lastSent' = from
        /\ next' = IF n > 0 THEN chunk'[1] ELSE next
        /\ readerPc' = IF n > 0 THEN "send" ELSE "wait"
    BY <1>5 DEF ReaderCopy
  <1> QED
    BY <1>3, <1>4, <1>8, <1>9

-----------------------------------------------------------------------------
(* The steps.                                                              *)

LEMMA Initially == Init => IInv
  <1> SUFFICES ASSUME Init PROVE IInv
    OBVIOUS
  <1> USE DEF Init
  <1>1. TypeOK /\ next \in Nat
    <2>1. ring \in [0 .. RingSize - 1 -> -1 .. MaxLogged - 1]
      BY Sizes
    <2>2. writerPc \in [Writers -> {"idle", "notify"}]
      OBVIOUS
    <2>3. chunk \in Seq(-1 .. MaxLogged - 1) /\ Len(chunk) = 0
      OBVIOUS
    <2>4. 0 \in 0 .. MaxLogged /\ 0 \in 0 .. Modulus - 1 /\ 0 \in -1 .. MaxLogged
      BY Sizes
    <2>5. 0 <= ChunkSize /\ 0 \in Nat
      BY Sizes
    <2> QED
      BY <2>1, <2>2, <2>3, <2>4, <2>5 DEF TypeOK
  <1>2. total = logged % Modulus
    BY Sizes, Remainder
  <1>3. RingHolds
    BY DEF RingHolds
  <1>4. ReaderInv /\ NoLostWakeup
    BY DEF ReaderInv, NoLostWakeup
  <1> QED
    BY <1>1, <1>2, <1>3, <1>4 DEF IInv

LEMMA LineStep ==
    ASSUME IInv, NEW w \in Writers, LogLine(w)
    PROVE  IInv'
  <1>1. PICK formatted \in 1 .. LineMax + 1 :
          LET len == Lower(formatted, LineMax)
          IN  /\ logged + len <= MaxLogged
              /\ readerPc = "idle" \/ logged + len - next < Modulus
              /\ ring' = RingAfter(len)
              /\ total' = (total + len) % Modulus
              /\ logged' = logged + len
    BY DEF LogLine
  <1> DEFINE len == Lower(formatted, LineMax)
  <1>2. len \in 1 .. LineMax
    BY Sizes DEF Lower
  <1> HIDE DEF len
  <1>3. /\ logged + len <= MaxLogged
        /\ readerPc = "idle" \/ logged + len - next < Modulus
        /\ ring' = RingAfter(len) /\ total' = (total + len) % Modulus
        /\ logged' = logged + len
    BY <1>1 DEF len
  <1>4. /\ ring' \in [0 .. RingSize - 1 -> -1 .. MaxLogged - 1]
        /\ total' = logged' % Modulus
        /\ RingHolds'
    BY <1>2, <1>3, LineInRing
  <1>5. /\ UNCHANGED <<notified, readerPc, lastSent, chunk, next, clientHere,
                   unread>>
        /\ writerPc' = [writerPc EXCEPT ![w] = "notify"]
    BY DEF LogLine, readerVars, clientVars
  <1>6. logged \in Nat /\ logged' \in 0 .. MaxLogged /\ logged' >= logged
    BY <1>2, <1>3, Sizes DEF IInv, TypeOK
  <1>7. total' \in 0 .. Modulus - 1
    <2>1. logged' \in Int
      BY <1>6
    <2> QED
      BY <1>4, <2>1, Bounds
  <1>8. TypeOK'
    BY <1>4, <1>5, <1>6, <1>7 DEF IInv, TypeOK
  <1>9. ReaderInv'
    <2>1. readerPc' # "idle" =>
             /\ next' <= logged' /\ logged' - next' < Modulus
             /\ lastSent' = next' % Modulus
      <3> SUFFICES ASSUME readerPc # "idle"
                   PROVE  /\ next <= logged' /\ logged' - next < Modulus
                          /\ lastSent = next % Modulus
        BY <1>5
      <3>1. next \in Nat /\ next <= logged /\ lastSent = next % Modulus
        BY DEF IInv, ReaderInv
      <3> QED
        BY <1>2, <1>3, <1>6, <3>1, Sizes
    <2>2. readerPc' # "send" => chunk' = <<>>
      BY <1>5 DEF IInv, ReaderInv
    <2>3. readerPc' = "send" =>
             /\ Len(chunk') > 0 /\ next' + Len(chunk') <= logged'
             /\ \A i \in 1 .. Len(chunk') : chunk'[i] = next' + i - 1
      BY <1>5, <1>6 DEF IInv, TypeOK, ReaderInv
    <2> QED
      BY <2>1, <2>2, <2>3 DEF ReaderInv
  <1>10. NoLostWakeup'
    <2>1. writerPc'[w] = "notify"
      BY <1>5 DEF IInv, TypeOK
    <2> QED
      BY <2>1 DEF NoLostWakeup
  <1> QED
    BY <1>4, <1>5, <1>8, <1>9, <1>10 DEF IInv

LEMMA NotifyStep ==
    ASSUME IInv, NEW w \in Writers, LogNotify(w)
    PROVE  IInv'
  <1> USE DEF LogNotify, ringVars, readerVars, clientVars, IInv
  <1>1. TypeOK'
    BY DEF TypeOK
  <1>2. RingHolds' /\ ReaderInv' /\ NoLostWakeup'
    BY DEF RingHolds, ReaderInv, NoLostWakeup
  <1> QED
    BY <1>1, <1>2

\* The response starts at a byte the ring holds: the counter's remainder tells
\* how many are behind it.
LEMMA StartStep ==
    ASSUME IInv, ReaderStart
    PROVE  IInv'
  <1>1. /\ UNCHANGED <<logged, total, ring, writerPc, notified, chunk, unread>>
        /\ readerPc = "idle" /\ readerPc' = "clear" /\ clientHere' = TRUE
    BY DEF ReaderStart, ringVars
  <1>2. /\ logged \in Nat /\ logged <= MaxLogged /\ total \in Nat
        /\ total < Modulus /\ total = logged % Modulus
    BY Sizes DEF IInv, TypeOK
  <1>3. PICK q \in Int, r \in 0 .. Modulus - 1 :
            logged = q * Modulus + r /\ total = r
    <2>1. logged \in Int /\ Modulus \in Nat \ {0}
      BY <1>2, Sizes
    <2> QED
      BY <1>2, <2>1, Division
  <1>4. q >= 0
    BY <1>2, <1>3, Sizes
  <1>5. /\ next' \in Nat /\ next' <= logged /\ logged - next' < Modulus
        /\ lastSent' = next' % Modulus /\ lastSent' \in 0 .. Modulus - 1
    <2>1. CASE total > RingSize
      <3>1. lastSent' = total - RingSize /\ next' = logged - Minus(total, lastSent')
        BY <2>1 DEF ReaderStart
      <3>2. Minus(total, lastSent') = RingSize % Modulus
        BY <1>2, <3>1, Sizes DEF Minus
      <3>3. next' = logged - RingSize
        BY <3>1, <3>2, Sizes, Remainder
      <3>4. total <= logged
        BY <1>3, <1>4, Sizes
      <3>5. total - RingSize \in 0 .. Modulus - 1
        BY <1>2, <2>1, Sizes
      <3>6. next' = q * Modulus + (total - RingSize)
        BY <1>3, <3>3, Sizes
      <3>7. next' % Modulus = total - RingSize
        BY <3>5, <3>6, Sizes, Remainder
      <3> QED
        BY <1>2, <2>1, <3>1, <3>3, <3>4, <3>5, <3>7, Sizes
    <2>2. CASE ~(total > RingSize)
      <3>1. lastSent' = 0 /\ next' = logged - Minus(total, 0)
        BY <2>2 DEF ReaderStart
      <3>2. Minus(total, 0) = total
        BY <1>2, Sizes, Remainder DEF Minus
      <3>3. next' = q * Modulus + 0 /\ q * Modulus >= 0
        BY <1>3, <1>4, <3>1, <3>2, Sizes
      <3>4. next' % Modulus = 0
        BY <3>3, Sizes, Remainder
      <3> QED
        BY <1>2, <1>3, <3>1, <3>2, <3>3, <3>4, Sizes
    <2> QED
      BY <2>1, <2>2
  <1>6. TypeOK'
    <2>1. next' \in -1 .. MaxLogged
      BY <1>2, <1>5, Sizes
    <2> QED
      BY <1>1, <1>5, <2>1 DEF IInv, TypeOK
  <1>7. RingHolds' /\ ReaderInv' /\ NoLostWakeup'
    BY <1>1, <1>5 DEF IInv, RingHolds, ReaderInv, NoLostWakeup
  <1> QED
    BY <1>1, <1>5, <1>6, <1>7 DEF IInv

LEMMA CopyStep ==
    ASSUME IInv, ReaderCopy
    PROVE  IInv'
  <1> DEFINE n == Lower(logged - Position, ChunkSize)
  <1>1. /\ Position \in Nat /\ Position >= next /\ Position <= logged
        /\ logged - Position <= RingSize
        /\ lastSent' = Position % Modulus
        /\ chunk' = [k \in 1 .. n |-> Position + k - 1]
        /\ next' = IF n > 0 THEN chunk'[1] ELSE next
        /\ readerPc' = IF n > 0 THEN "send" ELSE "wait"
    BY CopyAtPosition
  <1>2. /\ UNCHANGED <<logged, total, ring, writerPc, notified, clientHere,
                   unread>>
        /\ readerPc = "copy"
    BY DEF ReaderCopy, ringVars, clientVars
  <1>3. /\ logged \in Nat /\ logged <= MaxLogged /\ next \in Nat
        /\ next <= logged /\ logged - next < Modulus
        /\ lastSent = next % Modulus /\ total = logged % Modulus
    BY Sizes DEF IInv, TypeOK, ReaderInv, ReaderCopy
  <1>4. n \in Nat /\ n <= logged - Position /\ n <= ChunkSize
        /\ (n = 0 => logged = Position)
    BY <1>1, <1>3, Sizes DEF Lower
  <1> HIDE DEF n
  <1>5. n = 0 => Position = next
    BY <1>1, <1>3, <1>4, Sizes DEF Position
  <1>6. next' = Position
    <2>1. CASE n = 0
      BY <1>1, <1>5, <2>1
    <2>2. CASE n > 0
      <3>1. chunk'[1] = Position
        BY <1>1, <1>4, <2>2
      <3> QED
        BY <1>1, <2>2, <3>1
    <2> QED
      BY <1>4, <2>1, <2>2
  <1>7. chunk' \in Seq(-1 .. MaxLogged - 1) /\ Len(chunk') = n
    <2>1. \A k \in 1 .. n : Position + k - 1 \in -1 .. MaxLogged - 1
      BY <1>1, <1>3, <1>4, Sizes
    <2> QED
      BY <1>1, <1>4, <2>1
  <1>8. TypeOK'
    <2>1. lastSent' \in 0 .. Modulus - 1
      BY <1>1, Bounds
    <2>2. next' \in -1 .. MaxLogged
      BY <1>1, <1>3, <1>6, Sizes
    <2>3. readerPc' \in {"send", "wait"}
      BY <1>1
    <2>4. Len(chunk') <= ChunkSize
      BY <1>4, <1>7
    <2> QED
      BY <1>2, <1>7, <2>1, <2>2, <2>3, <2>4 DEF IInv, TypeOK
  <1>9. ReaderInv'
    <2>1. /\ next' <= logged' /\ logged' - next' < Modulus
          /\ lastSent' = next' % Modulus
      BY <1>1, <1>2, <1>3, <1>6, Sizes
    <2>2. readerPc' # "send" => chunk' = <<>>
      BY <1>1, <1>4, <1>7
    <2>3. readerPc' = "send" => Len(chunk') > 0
      BY <1>1, <1>7
    <2>4. next' + Len(chunk') <= logged'
      BY <1>1, <1>2, <1>3, <1>4, <1>6, <1>7
    <2>5. \A i \in 1 .. Len(chunk') : chunk'[i] = next' + i - 1
      BY <1>1, <1>6, <1>7
    <2> QED
      BY <2>1, <2>2, <2>3, <2>4, <2>5 DEF ReaderInv
  <1>10. NoLostWakeup'
    <2>1. readerPc' = "wait" => lastSent' = total'
      BY <1>1, <1>2, <1>3, <1>4
    <2> QED
      BY <2>1 DEF NoLostWakeup
  <1>11. RingHolds' /\ total' = logged' % Modulus /\ next' \in Nat
    BY <1>1, <1>2, <1>3, <1>6 DEF IInv, RingHolds
  <1> QED
    BY <1>8, <1>9, <1>10, <1>11 DEF IInv

LEMMA SendStep ==
    ASSUME IInv, ReaderSend
    PROVE  IInv'
  <1>1. /\ readerPc = "send" /\ readerPc' = "copy" /\ chunk' = <<>>
        /\ lastSent' = (lastSent + Len(chunk)) % Modulus
        /\ next' = next + Len(chunk)
        /\ UNCHANGED <<logged, total, ring, writerPc, notified, clientHere,
                   unread>>
    BY DEF ReaderSend, ringVars, clientVars
  <1>2. /\ logged \in Nat /\ logged <= MaxLogged /\ next \in Nat
        /\ logged - next < Modulus /\ lastSent = next % Modulus
        /\ Len(chunk) \in Nat /\ next + Len(chunk) <= logged
    BY <1>1, Sizes DEF IInv, TypeOK, ReaderInv
  <1>3. lastSent' = (next + Len(chunk)) % Modulus
    <2>1. next \in Int /\ Len(chunk) \in Int /\ Modulus \in Nat \ {0}
      BY <1>2, Sizes
    <2>2. ((next % Modulus) + Len(chunk)) % Modulus = (next + Len(chunk)) % Modulus
      BY <2>1, SumRemainder
    <2> QED
      BY <1>1, <1>2, <2>2
  <1>4. next' \in Nat /\ next' <= logged /\ logged - next' < Modulus
    BY <1>1, <1>2, Sizes
  <1>5. TypeOK'
    <2>1. lastSent' \in 0 .. Modulus - 1
      BY <1>2, <1>3, Bounds
    <2>2. next' \in -1 .. MaxLogged
      BY <1>2, <1>4, Sizes
    <2>3. chunk' \in Seq(-1 .. MaxLogged - 1) /\ Len(chunk') <= ChunkSize
      BY <1>1, Sizes
    <2> QED
      BY <1>1, <2>1, <2>2, <2>3 DEF IInv, TypeOK
  <1>6. RingHolds' /\ ReaderInv' /\ NoLostWakeup'
    BY <1>1, <1>3, <1>4 DEF IInv, RingHolds, ReaderInv, NoLostWakeup
  <1> QED
    BY <1>1, <1>4, <1>5, <1>6 DEF IInv

\* The other steps leave the log, the ring and the position alone.
LEMMA OtherStep ==
    ASSUME IInv,
           \/ ReaderClear \/ ReaderSendFails \/ ReaderWake
           \/ ReaderTimeout \/ ReaderProbe \/ ClientWrites \/ ClientLeaves
           \/ UNCHANGED vars
    PROVE  IInv'
  <1>1. UNCHANGED <<logged, total, ring, writerPc, lastSent, next>>
    BY DEF ReaderClear, ReaderSendFails, ReaderWake, ReaderTimeout, ReaderProbe,
           ClientWrites, ClientLeaves, vars, ringVars, readerVars, clientVars
  <1>2. chunk' \in Seq(-1 .. MaxLogged - 1) /\ Len(chunk') <= ChunkSize
    <2>1. chunk' = chunk \/ chunk' = <<>>
      BY DEF ReaderClear, ReaderSendFails, ReaderWake, ReaderTimeout,
             ReaderProbe, ClientWrites, ClientLeaves, vars, readerVars,
             clientVars
    <2>2. <<>> \in Seq(-1 .. MaxLogged - 1) /\ Len(<<>>) = 0 /\ 0 <= ChunkSize
      BY Sizes
    <2> QED
      BY <2>1, <2>2 DEF IInv, TypeOK
  <1>3. TypeOK'
    BY <1>1, <1>2 DEF ReaderClear, ReaderSendFails, ReaderWake, ReaderTimeout,
           ReaderProbe, ClientWrites, ClientLeaves, vars, readerVars, clientVars,
           IInv, TypeOK
  <1>4. RingHolds'
    BY <1>1 DEF IInv, RingHolds
  <1>5. ReaderInv'
    BY <1>1 DEF ReaderClear, ReaderSendFails, ReaderWake, ReaderTimeout,
           ReaderProbe, ClientWrites, ClientLeaves, vars, readerVars, clientVars,
           IInv, ReaderInv
  <1>6. NoLostWakeup'
    BY <1>1 DEF ReaderClear, ReaderSendFails, ReaderWake, ReaderTimeout,
           ReaderProbe, ClientWrites, ClientLeaves, vars, readerVars, clientVars,
           IInv, NoLostWakeup
  <1> QED
    BY <1>1, <1>3, <1>4, <1>5, <1>6 DEF IInv

LEMMA Inductive == IInv /\ [Next]_vars => IInv'
  <1> SUFFICES ASSUME IInv, [Next]_vars PROVE IInv'
    OBVIOUS
  <1>1. CASE \E w \in Writers : LogLine(w) \/ LogNotify(w)
    BY <1>1, LineStep, NotifyStep
  <1>2. CASE ReaderStart \/ ReaderCopy \/ ReaderSend
    BY <1>2, StartStep, CopyStep, SendStep
  <1>3. CASE \/ ReaderClear \/ ReaderSendFails \/ ReaderWake
             \/ ReaderTimeout \/ ReaderProbe \/ ClientWrites \/ ClientLeaves
             \/ UNCHANGED vars
    BY <1>3, OtherStep
  <1> QED
    BY <1>1, <1>2, <1>3 DEF Next, ReaderRuns

LEMMA Invariance == Spec => []IInv
  <1> QED
    BY Initially, Inductive, PTL DEF Spec

-----------------------------------------------------------------------------
(* Theorems.                                                               *)

\* Every variable of the log hook and of the response keeps to the values of
\* its C type, a chunk to LOG_SEND_CHUNK_SIZE.
THEOREM TypeCorrectness == Spec => []TypeOK
  <1>1. IInv => TypeOK
    BY DEF IInv
  <1> QED
    BY <1>1, Invariance, PTL

\* What log_response_send has copied is a stretch of the log, for every size
\* of the ring, any overrun and any wrap of s_write_total.
THEOREM ChunksAreIntact == Spec => []ChunkIsIntact
  <1>1. IInv => ChunkIsIntact
    <2> SUFFICES ASSUME IInv, NEW i \in DOMAIN chunk
                 PROVE  chunk[i] = next + i - 1 /\ chunk[i] < logged
      BY DEF ChunkIsIntact
    <2>1. readerPc = "send"
      BY DEF IInv, ReaderInv
    <2>2. i \in 1 .. Len(chunk)
      BY DEF IInv, TypeOK
    <2>3. chunk[i] = next + i - 1 /\ next + Len(chunk) <= logged
      BY <2>1, <2>2 DEF IInv, ReaderInv
    <2>4. Len(chunk) \in Nat /\ next \in Nat /\ logged \in Int
      BY Sizes DEF IInv, TypeOK
    <2> QED
      BY <2>2, <2>3, <2>4
  <1> QED
    BY <1>1, Invariance, PTL

\* The log worker never waits beside bytes it has not sent with no wake-up
\* pending or on its way, for any number of tasks that log.
THEOREM WakeupsAreKept == Spec => []NoLostWakeup
  <1>1. IInv => NoLostWakeup
    BY DEF IInv
  <1> QED
    BY <1>1, Invariance, PTL

\* A response goes on where its last chunk ended, or, when the ring has
\* overtaken it, with the oldest byte the ring still holds.
THEOREM NoSurvivorIsSkipped == Spec => OnlyOverwrittenIsSkipped
  <1> DEFINE Skip ==
        (readerPc = "copy" /\ readerPc' = "send") =>
            \/ chunk'[1] = next
            \/ chunk'[1] > next /\ chunk'[1] = logged - RingSize
  <1>1. IInv /\ [Next]_vars => [Skip]_vars
    <2> SUFFICES ASSUME IInv, [Next]_vars, readerPc = "copy", readerPc' = "send"
                 PROVE  \/ chunk'[1] = next
                        \/ chunk'[1] > next /\ chunk'[1] = logged - RingSize
      OBVIOUS
    <2>1. ReaderCopy
      BY DEF Next, ReaderRuns, LogLine, LogNotify, ReaderStart, ReaderClear,
             ReaderSend, ReaderSendFails, ReaderWake, ReaderTimeout, ReaderProbe,
             ClientWrites, ClientLeaves, vars, readerVars, clientVars
    <2> DEFINE n == Lower(logged - Position, ChunkSize)
    <2>2. /\ Position \in Nat /\ Position >= next
          /\ chunk' = [k \in 1 .. n |-> Position + k - 1]
          /\ readerPc' = IF n > 0 THEN "send" ELSE "wait"
      BY <2>1, CopyAtPosition
    <2>3. n > 0 /\ logged \in Nat /\ next \in Nat
      BY <2>2, Sizes DEF IInv, TypeOK
    <2>4. n \in Nat
      BY <2>2, <2>3, Sizes DEF Lower
    <2>5. chunk'[1] = Position
      BY <2>2, <2>3, <2>4
    <2> QED
      BY <2>2, <2>3, <2>5, Sizes DEF Position
  <1> QED
    BY <1>1, Invariance, PTL DEF Spec, OnlyOverwrittenIsSkipped
=============================================================================
