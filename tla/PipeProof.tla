----------------------------- MODULE PipeProof -----------------------------
(***************************************************************************)
(* TLAPS proofs about Pipe, for any number of processes, any messages, a   *)
(* ring of any size and counters that wrap at any multiple of it.          *)
(***************************************************************************)
EXTENDS Pipe, SequenceTheorems, TLAPS

-----------------------------------------------------------------------------
(* Remainders. *)

LEMMA Quotient ==
  ASSUME NEW n \in Nat \ {0}, NEW x \in Int
  PROVE  \E q \in Int : \E y \in 0 .. n - 1 : x % n = y /\ x = n * q + y
  <1>1. x \div n \in Int
    OBVIOUS
  <1>2. PICK q \in Int : q = x \div n
    BY <1>1, Zenon
  <1>3. x % n = x - n * q
    BY <1>2
  <1>4. x % n \in 0 .. n - 1
    OBVIOUS
  <1>5. PICK y \in 0 .. n - 1 : x % n = y
    BY <1>4, Zenon
  <1>6. y = x - n * q
    BY <1>3, <1>5, Zenon
  <1>7. x = n * q + y
    BY <1>6
  <1> QED BY <1>5, <1>7, Zenon

LEMMA Remainder ==
  ASSUME NEW n \in Nat \ {0}, NEW q \in Int, NEW y \in 0 .. n - 1
  PROVE  (n * q + y) % n = y
  OBVIOUS

LEMMA Small ==
  ASSUME NEW n \in Nat \ {0}, NEW y \in 0 .. n - 1
  PROVE  y % n = y
  OBVIOUS

LEMMA Shift ==
  ASSUME NEW n \in Nat \ {0}, NEW q \in Int, NEW x \in Int
  PROVE  (n * q + x) % n = x % n
  <1>1. PICK k \in Int, y \in 0 .. n - 1 : x % n = y /\ x = n * k + y
    BY Quotient, Zenon
  <1>2. n * q + x = n * (q + k) + y /\ q + k \in Int
    BY <1>1
  <1>3. (n * (q + k) + y) % n = y
    BY <1>2, Remainder, Zenon
  <1> QED BY <1>1, <1>2, <1>3, Zenon

LEMMA Negative ==
  ASSUME NEW n \in Nat \ {0}, NEW x \in Int, - n <= x, x < 0
  PROVE  x % n = x + n
  <1>1. x = n * (- 1) + (x + n) /\ x + n \in 0 .. n - 1
    OBVIOUS
  <1> QED BY <1>1, Remainder

LEMMA WordMultiple == \E m \in Int : Word = PIPESIZE * m
  <1>1. PIPESIZE \in Nat \ {0} /\ Word \in Int /\ Word % PIPESIZE = 0
    BY PipeAssumption
  <1>2. PICK m \in Int, y \in 0 .. PIPESIZE - 1 : Word % PIPESIZE = y /\ Word = PIPESIZE * m + y
    BY <1>1, Quotient, SMTT(30), Z3T(30)
  <1>3. y = 0
    BY <1>1, <1>2, Zenon
  <1>4. PIPESIZE * m + 0 = PIPESIZE * m
    BY <1>1
  <1> QED BY <1>2, <1>3, <1>4, Zenon

\* A word and its remainder are at the same place of the ring.
LEMMA Wraps ==
  ASSUME NEW x \in Int, NEW z \in Int
  PROVE  ((x % Word) + z) % PIPESIZE = (x + z) % PIPESIZE /\ x % Word \in 0 .. Word - 1
  <1>1. PIPESIZE \in Nat \ {0} /\ Word \in Nat \ {0} /\ Word % PIPESIZE = 0
    BY PipeAssumption
  <1>3. PICK m \in Int : Word = PIPESIZE * m
    BY WordMultiple, Zenon
  <1>4. PICK q \in Int, w \in 0 .. Word - 1 : x % Word = w /\ x = Word * q + w
    BY <1>1, Quotient, SMTT(30), Z3T(30)
  <1>5. x + z = PIPESIZE * (m * q) + (w + z) /\ m * q \in Int /\ w + z \in Int
    BY <1>1, <1>3, <1>4
  <1>6. (PIPESIZE * (m * q) + (w + z)) % PIPESIZE = (w + z) % PIPESIZE
    BY <1>1, <1>5, Shift, Zenon
  <1> QED BY <1>4, <1>5, <1>6, Zenon

\* The distance between the counters is kept when one of them advances.
LEMMA Advance ==
  ASSUME NEW a \in Int, NEW b \in Int, NEW k \in Int
  PROVE  /\ (((b + k) % Word) - a) % Word = (b + k - a) % Word
         /\ (b - ((a + k) % Word)) % Word = (b - a - k) % Word
         /\ (((b - a) % Word) + k) % Word = (b - a + k) % Word
  <1>1. Word \in Nat \ {0}
    BY PipeAssumption
  <1>2. (((b + k) % Word) - a) % Word = (b + k - a) % Word
    <2>1. PICK q \in Int, w \in 0 .. Word - 1 : (b + k) % Word = w /\ b + k = Word * q + w
      BY <1>1, Quotient, SMTT(30), Z3T(30)
    <2>2. b + k - a = Word * q + (w - a) /\ w - a \in Int
      BY <1>1, <2>1
    <2>3. (Word * q + (w - a)) % Word = (w - a) % Word
      BY <1>1, <2>2, Shift, Zenon
    <2> QED BY <2>1, <2>2, <2>3, Zenon
  <1>3. (b - ((a + k) % Word)) % Word = (b - a - k) % Word
    <2>1. PICK q \in Int, w \in 0 .. Word - 1 : (a + k) % Word = w /\ a + k = Word * q + w
      BY <1>1, Quotient, SMTT(30), Z3T(30)
    <2>2. b - a - k = Word * (- q) + (b - w) /\ b - w \in Int /\ - q \in Int
      BY <1>1, <2>1
    <2>3. (Word * (- q) + (b - w)) % Word = (b - w) % Word
      BY <1>1, <2>2, Shift, Zenon
    <2> QED BY <2>1, <2>2, <2>3, Zenon
  <1>4. (((b - a) % Word) + k) % Word = (b - a + k) % Word
    <2> b - a \in Int
      OBVIOUS
    <2>1. PICK q \in Int, w \in 0 .. Word - 1 : (b - a) % Word = w /\ b - a = Word * q + w
      BY <1>1, Quotient, Zenon
    <2>2. b - a + k = Word * q + (w + k) /\ w + k \in Int
      BY <1>1, <2>1
    <2>3. (Word * q + (w + k)) % Word = (w + k) % Word
      BY <1>1, <2>2, Shift, Zenon
    <2> QED BY <2>1, <2>2, <2>3, Zenon
  <1> QED BY <1>2, <1>3, <1>4, Zenon

\* The place of the i-th byte of the pipe, counted from nwrite: bytes in the
\* pipe lie before it, bytes to be written from it on.
LEMMA Place ==
  ASSUME nread \in Int, nwrite \in Int, Used <= PIPESIZE,
         NEW i \in Int, 1 <= i, i <= PIPESIZE
  PROVE  /\ Used \in 0 .. PIPESIZE
         /\ (nread + i - 1) % PIPESIZE \in 0 .. PIPESIZE - 1
         /\ (((nread + i - 1) % PIPESIZE) - nwrite) % PIPESIZE
              = IF i <= Used THEN i - 1 - Used + PIPESIZE ELSE i - 1 - Used
  <1>1. PIPESIZE \in Nat \ {0} /\ Word \in Nat \ {0} /\ Word % PIPESIZE = 0
    BY PipeAssumption
  <1>3. PICK m \in Int : Word = PIPESIZE * m
    BY WordMultiple, Zenon
  <1>4. PICK q \in Int, u \in 0 .. Word - 1 : Used = u /\ nwrite - nread = Word * q + u
    <2>1. nwrite - nread \in Int
      OBVIOUS
    <2> QED BY <1>1, <2>1, Quotient, ZenonT(90) DEF Used
  <1>5. PICK k \in Int, z \in 0 .. PIPESIZE - 1 :
          (nread + i - 1) % PIPESIZE = z /\ nread + i - 1 = PIPESIZE * k + z
    <2> DEFINE x == nread + i - 1
    <2>1. x \in Int
      OBVIOUS
    <2> HIDE DEF x
    <2>2. \E k \in Int : \E z \in 0 .. PIPESIZE - 1 : x % PIPESIZE = z /\ x = PIPESIZE * k + z
      <3>1. PIPESIZE \in Nat \ {0}
        BY <1>1, Zenon
      <3> QED BY <2>1, <3>1, Quotient, Zenon
    <2> QED BY <2>2, Zenon DEF x
  <1>6. u <= PIPESIZE
    BY <1>4, Zenon
  <1>7. z - nwrite = PIPESIZE * (- k - m * q) + (i - 1 - u) /\ - k - m * q \in Int /\ i - 1 - u \in Int
    <2>1. nwrite = nread + PIPESIZE * (m * q) + u /\ m * q \in Int
      BY <1>1, <1>3, <1>4
    <2> QED BY <1>1, <1>5, <2>1
  <1>8. (PIPESIZE * (- k - m * q) + (i - 1 - u)) % PIPESIZE = (i - 1 - u) % PIPESIZE
    BY <1>1, <1>7, Shift, ZenonT(60)
  <1>9. CASE i <= u
    <2>1. - PIPESIZE <= i - 1 - u /\ i - 1 - u < 0
      BY <1>1, <1>6, <1>9
    <2>2. (i - 1 - u) % PIPESIZE = i - 1 - u + PIPESIZE
      BY <1>1, <1>7, <2>1, Negative, Zenon
    <2> QED BY <1>1, <1>4, <1>5, <1>6, <1>7, <1>8, <1>9, <2>2
  <1>10. CASE ~ (i <= u)
    <2>1. i - 1 - u \in 0 .. PIPESIZE - 1 /\ i - 1 - u = PIPESIZE * 0 + (i - 1 - u)
      BY <1>1, <1>10
    <2>2. (i - 1 - u) % PIPESIZE = i - 1 - u
      BY <1>1, <2>1, Remainder
    <2> QED BY <1>1, <1>4, <1>5, <1>6, <1>7, <1>8, <1>10, <2>2
  <1> QED BY <1>9, <1>10, Zenon

-----------------------------------------------------------------------------
(* The ring. *)

LEMMA Sizes == PIPESIZE \in Nat \ {0} /\ Word \in Nat \ {0} /\ PIPESIZE < Word
  BY PipeAssumption

LEMMA UsedIs ==
  ASSUME TypeOK
  PROVE  /\ nread \in Int /\ nwrite \in Int /\ Used \in 0 .. PIPESIZE
         /\ Full <=> Used = PIPESIZE
         /\ Empty <=> Used = 0
  <1>1. nread \in 0 .. Word - 1 /\ nwrite \in 0 .. Word - 1 /\ Used <= PIPESIZE
    BY Zenon DEF TypeOK, Used
  <1>2. nread \in Int /\ nwrite \in Int
    BY <1>1, Sizes
  <1>3. PICK q \in Int, u \in 0 .. Word - 1 : Used = u /\ nwrite - nread = Word * q + u
    <2>1. nwrite - nread \in Int /\ Word \in Nat \ {0}
      BY <1>2, Sizes
    <2> QED BY <2>1, Quotient, Zenon DEF Used
  <1>4. Used \in 0 .. PIPESIZE
    BY <1>1, <1>3, Sizes
  <1>5. ASSUME Full PROVE Used = PIPESIZE
    <2>1. Used = (((nread + PIPESIZE) % Word) - nread) % Word
      BY <1>5, Zenon DEF Full, Used
    <2>2. (((nread + PIPESIZE) % Word) - nread) % Word = (nread + PIPESIZE - nread) % Word
      <3>1. PIPESIZE \in Int
        BY Sizes
      <3> QED BY <1>2, <3>1, Advance, ZenonT(60)
    <2>3. nread + PIPESIZE - nread = Word * 0 + PIPESIZE /\ PIPESIZE \in 0 .. Word - 1
      BY <1>2, Sizes
    <2>4. (Word * 0 + PIPESIZE) % Word = PIPESIZE
      BY <2>3, Sizes, Remainder
    <2> QED BY <2>1, <2>2, <2>3, <2>4, Zenon
  <1>6. ASSUME Used = PIPESIZE PROVE Full
    <2>1. nread + PIPESIZE = Word * (- q) + nwrite /\ - q \in Int
      BY <1>2, <1>3, <1>6, Sizes
    <2>2. (Word * (- q) + nwrite) % Word = nwrite
      BY <1>1, <2>1, Sizes, Remainder, Zenon
    <2> QED BY <2>1, <2>2, Zenon DEF Full
  <1>7. ASSUME Empty PROVE Used = 0
    <2>1. nwrite - nread = Word * 0 + 0 /\ 0 \in 0 .. Word - 1
      BY <1>2, <1>7, Sizes DEF Empty
    <2>2. (Word * 0 + 0) % Word = 0
      BY <2>1, Sizes, Remainder
    <2> QED BY <2>1, <2>2, Zenon DEF Used
  <1>8. ASSUME Used = 0 PROVE Empty
    <2>1. nwrite = Word * q + nread /\ nwrite = Word * 0 + nwrite
      BY <1>2, <1>3, <1>8, Sizes
    <2>2. (Word * q + nread) % Word = nread
      BY <1>1, Sizes, Remainder, Zenon
    <2>3. (Word * 0 + nwrite) % Word = nwrite
      BY <1>1, Sizes, Remainder
    <2>4. nwrite % Word = nread
      BY <2>1, <2>2, Zenon
    <2>5. nwrite % Word = nwrite
      BY <2>1, <2>3, Zenon
    <2> QED BY <2>4, <2>5, Zenon DEF Empty
  <1> QED BY <1>2, <1>4, <1>5, <1>6, <1>7, <1>8, Zenon

LEMMA MinIs ==
  ASSUME NEW a \in Int, NEW b \in Int
  PROVE  Min({a, b}) = IF a <= b THEN a ELSE b
  <1>1. \E x \in {a, b} : \A y \in {a, b} : x <= y
    OBVIOUS
  <1>2. Min({a, b}) \in {a, b} /\ \A y \in {a, b} : Min({a, b}) <= y
    BY <1>1, Zenon DEF Min
  <1> QED BY <1>2

LEMMA ContentsIs ==
  ASSUME TypeOK
  PROVE  /\ Contents \in Seq(Bytes) /\ Len(Contents) = Used
         /\ \A i \in 1 .. Used : Contents[i] = data[(nread + i - 1) % PIPESIZE]
  <1>1. Used \in Nat /\ Used <= PIPESIZE /\ nread \in Int /\ nwrite \in Int
    BY UsedIs, Sizes
  <1>2. ASSUME NEW i \in 1 .. Used PROVE data[(nread + i - 1) % PIPESIZE] \in Bytes
    <2>1. (nread + i - 1) % PIPESIZE \in 0 .. PIPESIZE - 1
      BY <1>1, Place, Sizes
    <2> QED BY <2>1, Zenon DEF TypeOK
  <1>3. Contents \in [1 .. Used -> Bytes]
    BY <1>2, Zenon DEF Contents
  <1>4. Contents \in Seq(Bytes)
    BY <1>1, <1>3, SeqDef, Zenon
  <1>5. Len(Contents) = Used
    BY <1>1, <1>3, <1>4, LenProperties
  <1> QED BY <1>4, <1>5, Zenon DEF Contents

\* What pipewrite stores is appended to what the pipe contains.
LEMMA Stored ==
  ASSUME TypeOK, NEW p \in Procs, NEW k \in Nat, k <= PIPESIZE - Used, k <= Len(rest[p]),
         Store(p, k)
  PROVE  /\ Used' = Used + k /\ nwrite' \in 0 .. Word - 1 /\ nread' = nread
         /\ data' \in [0 .. PIPESIZE - 1 -> Bytes]
         /\ Contents' = Contents \o SubSeq(rest[p], 1, k)
  <1>1. /\ Used \in Nat /\ Used <= PIPESIZE /\ nread \in Int /\ nwrite \in Int
        /\ rest[p] \in Seq(Bytes) /\ Len(rest[p]) \in Nat
    BY UsedIs, Sizes DEF TypeOK
  <1>2. /\ nwrite' = (nwrite + k) % Word /\ nread' = nread
        /\ data' = [j \in 0 .. PIPESIZE - 1 |->
                      IF (j - nwrite) % PIPESIZE < k THEN rest[p][((j - nwrite) % PIPESIZE) + 1]
                                                     ELSE data[j]]
    BY Zenon DEF Store
  <1>3. nwrite' \in 0 .. Word - 1 /\ nwrite' \in Int
    <2>1. nwrite + k \in Int
      BY <1>1
    <2>2. PICK y \in 0 .. Word - 1 : (nwrite + k) % Word = y
      BY <2>1, Sizes, Quotient, Zenon
    <2> QED BY <1>2, <2>2
  <1>4. Used' = Used + k
    <2>1. Used' = (((nwrite + k) % Word) - nread) % Word
      BY <1>2, Zenon DEF Used
    <2>2. k \in Int
      OBVIOUS
    <2>3. (((nwrite + k) % Word) - nread) % Word = (nwrite + k - nread) % Word
      BY <1>1, <2>2, Advance, Zenon
    <2>4. (Used + k) % Word = (nwrite - nread + k) % Word
      BY <1>1, <2>2, Advance, Zenon DEF Used
    <2>5. nwrite + k - nread = nwrite - nread + k
      BY <1>1
    <2>6. Used + k \in 0 .. Word - 1 /\ Word \in Nat \ {0}
      BY <1>1, Sizes
    <2>7. (Used + k) % Word = Used + k
      BY <2>6, Small, Zenon
    <2> QED BY <2>1, <2>3, <2>4, <2>5, <2>7, Zenon
  <1>5. data' \in [0 .. PIPESIZE - 1 -> Bytes]
    <2>1. ASSUME NEW j \in 0 .. PIPESIZE - 1 PROVE data'[j] \in Bytes
      <3>1. PICK i \in 0 .. PIPESIZE - 1 : (j - nwrite) % PIPESIZE = i
        BY <1>1, Sizes, Quotient, SMTT(30), Z3T(30)
      <3>2. data'[j] = IF i < k THEN rest[p][i + 1] ELSE data[j]
        BY <1>2, <3>1, Zenon
      <3>3. i < k => i + 1 \in 1 .. Len(rest[p])
        BY <1>1, Sizes
      <3>4. i < k => rest[p][i + 1] \in Bytes
        BY <1>1, <3>3, ElementOfSeq, Zenon
      <3>5. data[j] \in Bytes
        BY Zenon DEF TypeOK
      <3> QED BY <3>2, <3>4, <3>5, Zenon
    <2> QED BY <1>2, <2>1, Zenon
  <1>6. /\ Contents \in Seq(Bytes) /\ Len(Contents) = Used
        /\ \A i \in 1 .. Used : Contents[i] = data[(nread + i - 1) % PIPESIZE]
    BY ContentsIs, Zenon
  <1> DEFINE new == SubSeq(rest[p], 1, k)
  <1>7. /\ new \in Seq(Bytes) /\ Len(new) = k
        /\ \A i \in 1 .. k : new[i] = rest[p][i]
    <2>1. \A i \in 1 .. k : rest[p][i] \in Bytes
      BY <1>1, ElementOfSeq
    <2> QED BY <1>1, <2>1, SubSeqProperties
  <1> HIDE DEF new
  <1>8. /\ Contents \o new \in Seq(Bytes) /\ Len(Contents \o new) = Used + k
        /\ \A i \in 1 .. Used + k : (Contents \o new)[i] =
              IF i <= Used THEN Contents[i] ELSE new[i - Used]
    <2>1. /\ Contents \o new \in Seq(Bytes) /\ Len(Contents \o new) = Len(Contents) + Len(new)
          /\ \A i \in 1 .. Len(Contents) + Len(new) : (Contents \o new)[i] =
                IF i <= Len(Contents) THEN Contents[i] ELSE new[i - Len(Contents)]
      <3>1. Contents \in Seq(Bytes) /\ new \in Seq(Bytes)
        BY <1>6, <1>7, Zenon
      <3> QED BY ONLY <3>1, ConcatProperties, Zenon
    <2> QED BY <1>6, <1>7, <2>1, Zenon
  <1>9. ASSUME NEW i \in 1 .. Used + k
        PROVE  /\ (nread + i - 1) % PIPESIZE \in 0 .. PIPESIZE - 1
               /\ data'[(nread + i - 1) % PIPESIZE] = (Contents \o new)[i]
    <2>1. i \in Int /\ 1 <= i /\ i <= PIPESIZE
      BY <1>1, Sizes
    <2>2. PICK j \in 0 .. PIPESIZE - 1 : (nread + i - 1) % PIPESIZE = j
      BY <1>1, <2>1, Place, Zenon
    <2>3. (j - nwrite) % PIPESIZE = IF i <= Used THEN i - 1 - Used + PIPESIZE ELSE i - 1 - Used
      BY <1>1, <2>1, <2>2, Place, Zenon
    <2>4. CASE i <= Used
      <3>1. ~ ((j - nwrite) % PIPESIZE < k)
        BY <1>1, <2>3, <2>4, Sizes
      <3>2. data'[j] = data[j]
        BY <1>2, <3>1, Zenon
      <3> QED BY <1>1, <1>6, <1>8, <2>2, <2>4, <3>2
    <2>5. CASE ~ (i <= Used)
      <3>1. (j - nwrite) % PIPESIZE = i - 1 - Used /\ i - 1 - Used < k /\ i - 1 - Used + 1 = i - Used
        BY <1>1, <2>3, <2>5, Sizes
      <3>2. data'[j] = rest[p][i - Used]
        BY <1>2, <3>1, Zenon
      <3>3. i - Used \in 1 .. k
        BY <1>1, <2>5
      <3> QED BY <1>7, <1>8, <2>2, <2>5, <3>2, <3>3, Zenon
    <2> QED BY <2>4, <2>5, Zenon
  <1>10. Contents' = [i \in 1 .. Used + k |-> data'[(nread + i - 1) % PIPESIZE]]
    BY <1>2, <1>4 DEF Contents
  <1>11. Contents' = Contents \o new
    <2>1. \A i \in 1 .. Used + k : (Contents \o new)[i] \in Bytes
      BY <1>8, ElementOfSeq, Zenon
    <2>2. Contents' \in [1 .. Used + k -> Bytes]
      BY <1>9, <1>10, <2>1, Zenon
    <2>3. Contents \o new \in [1 .. Used + k -> Bytes]
      BY <1>8, LenProperties, Zenon
    <2>4. \A i \in 1 .. Used + k : Contents'[i] = (Contents \o new)[i]
      BY <1>9, <1>10, Zenon
    <2>5. Used + k \in Nat
      BY <1>1
    <2>6. Contents' \in Seq(Bytes) /\ Len(Contents') = Used + k
      <3>1. Contents' \in Seq(Bytes)
        BY <2>2, <2>5, SeqDef, Zenon
      <3>2. Contents' \in [1 .. Len(Contents') -> Bytes] /\ Len(Contents') \in Nat
        BY <3>1, LenProperties, Zenon
      <3> QED BY <2>2, <2>5, <3>1, <3>2
    <2> QED BY <1>8, <2>4, <2>6, SeqEqual, Zenon
  <1> QED BY <1>2, <1>3, <1>4, <1>5, <1>11, Zenon DEF new

\* What piperead takes leaves the front of what the pipe contains.
LEMMA Taken ==
  ASSUME TypeOK, NEW k \in Nat, k <= Used,
         nread' = (nread + k) % Word, nwrite' = nwrite, data' = data
  PROVE  /\ Used' = Used - k /\ nread' \in 0 .. Word - 1
         /\ SubSeq(Contents, 1, k) \in Seq(Bytes)
         /\ Contents' = SubSeq(Contents, k + 1, Len(Contents))
  <1>1. Used \in Nat /\ Used <= PIPESIZE /\ nread \in Int /\ nwrite \in Int /\ k \in Int
    BY UsedIs, Sizes
  <1>2. nread' \in 0 .. Word - 1
    BY <1>1, Sizes, Quotient, SMTT(30), Z3T(30)
  <1>3. Used' = Used - k
    <2>1. Used' = (nwrite - ((nread + k) % Word)) % Word
      BY Zenon DEF Used
    <2>2. (nwrite - ((nread + k) % Word)) % Word = (nwrite - nread - k) % Word
      BY <1>1, Advance, ZenonT(60)
    <2>3. - k \in Int
      BY <1>1
    <2>4. (Used + (- k)) % Word = (nwrite - nread + (- k)) % Word
      BY <1>1, <2>3, Advance, ZenonT(60) DEF Used
    <2>5. nwrite - nread + (- k) = nwrite - nread - k /\ Used + (- k) = Used - k
      BY <1>1, Zenon
    <2>6. Used - k \in 0 .. Word - 1 /\ Word \in Nat \ {0}
      BY <1>1, Sizes
    <2>7. (Used - k) % Word = Used - k
      BY <2>6, Small, Zenon
    <2> QED BY <2>1, <2>2, <2>4, <2>5, <2>7, Zenon
  <1>4. /\ Contents \in Seq(Bytes) /\ Len(Contents) = Used
        /\ \A i \in 1 .. Used : Contents[i] = data[(nread + i - 1) % PIPESIZE]
    BY ContentsIs, Zenon
  <1>5. \A i \in 1 .. Used : Contents[i] \in Bytes
    BY <1>4, ElementOfSeq, Zenon
  <1>6. SubSeq(Contents, 1, k) \in Seq(Bytes)
    <2>1. \A i \in 1 .. k : Contents[i] \in Bytes
      BY <1>1, <1>5
    <2> QED BY <1>1, <2>1, SubSeqProperties
  <1> DEFINE tail == SubSeq(Contents, k + 1, Used)
             N == Used - k
  <1>7. tail \in Seq(Bytes) /\ Len(tail) = N /\ \A i \in 1 .. N : tail[i] = Contents[k + i]
    <2>1. k + 1 \in Int /\ Used \in Int /\ \A i \in k + 1 .. Used : Contents[i] \in Bytes
      BY <1>1, <1>5
    <2>2. /\ tail \in Seq(Bytes)
          /\ Len(tail) = IF k + 1 <= Used THEN Used - (k + 1) + 1 ELSE 0
          /\ \A i \in 1 .. Used - (k + 1) + 1 : tail[i] = Contents[(k + 1) + i - 1]
      BY ONLY <2>1, SubSeqProperties
    <2>3. Used - (k + 1) + 1 = N /\ (k + 1 <= Used \/ N = 0)
      BY <1>1
    <2>4. ASSUME NEW i \in 1 .. N PROVE (k + 1) + i - 1 = k + i
      BY <1>1
    <2>5. \A i \in 1 .. N : tail[i] = Contents[(k + 1) + i - 1]
      BY <2>2, <2>3, Zenon
    <2>6. \A i \in 1 .. N : tail[i] = Contents[k + i]
      BY <2>4, <2>5, Zenon
    <2> HIDE DEF tail
    <2> QED BY <2>2, <2>3, <2>6, Zenon
  <1>8. N \in Nat
    BY <1>1
  <1> HIDE DEF tail
  <1>9. Contents' = [i \in 1 .. N |-> data[(nread' + i - 1) % PIPESIZE]]
    BY <1>3, Zenon DEF Contents
  <1>10. ASSUME NEW i \in 1 .. N PROVE data[(nread' + i - 1) % PIPESIZE] = tail[i]
    <2>1. nread + k \in Int /\ i - 1 \in Int
      BY <1>1
    <2>2. (((nread + k) % Word) + (i - 1)) % PIPESIZE = ((nread + k) + (i - 1)) % PIPESIZE
      BY <2>1, Wraps, Zenon
    <2>3. /\ ((nread + k) % Word) + (i - 1) = nread' + i - 1
          /\ (nread + k) + (i - 1) = nread + (k + i) - 1
      BY <1>1, <1>2, Sizes
    <2>4. k + i \in 1 .. Used
      BY <1>1
    <2>5. (nread' + i - 1) % PIPESIZE = (nread + (k + i) - 1) % PIPESIZE
      BY <2>2, <2>3, Zenon
    <2>6. data[(nread + (k + i) - 1) % PIPESIZE] = Contents[k + i]
      BY <1>4, <2>4, Zenon
    <2> QED BY <1>7, <2>5, <2>6, Zenon
  <1>11. Contents' = tail
    <2>1. \A i \in 1 .. N : tail[i] \in Bytes
      BY <1>7, ElementOfSeq, Zenon
    <2>2. Contents' \in [1 .. N -> Bytes]
      BY <1>9, <1>10, <2>1, Zenon
    <2>3. Contents' \in Seq(Bytes)
      BY <1>8, <2>2, SeqDef, Zenon
    <2>4. Contents' \in [1 .. Len(Contents') -> Bytes] /\ Len(Contents') \in Nat
      BY <2>3, LenProperties, Zenon
    <2>5. Len(Contents') = N
      BY <1>8, <2>2, <2>4
    <2>6. \A i \in 1 .. N : Contents'[i] = tail[i]
      BY <1>9, <1>10, Zenon
    <2> QED BY <1>7, <2>3, <2>5, <2>6, SeqEqual, Zenon
  <1> QED BY <1>2, <1>3, <1>4, <1>6, <1>11, Zenon DEF tail

-----------------------------------------------------------------------------
(* The inductive invariant. *)

\* An end of the pipe is open as long as a process has it.
EndsInv ==
  /\ readopen <=> \E p \in Procs : "r" \in ends[p]
  /\ writeopen <=> \E p \in Procs : "w" \in ends[p]

\* A call is made on an end that is open, and has something left to do.
CallsInv ==
  \A p \in Procs :
    /\ pc[p] = "read" => "r" \in ends[p] /\ want[p] >= 1
    /\ pc[p] = "write" => "w" \in ends[p] /\ rest[p] # <<>>
    /\ pc[p] # "write" => rest[p] = <<>>
    /\ chan[p] = "nread" => pc[p] = "read"
    /\ chan[p] = "nwrite" => pc[p] = "write"

\* SleepersBlocked, with the distance of the counters.
Blocked ==
  \A p \in Procs :
    /\ chan[p] = "nwrite" => Used = PIPESIZE /\ readopen
    /\ chan[p] = "nread" => writeopen /\ (Used = 0 \/ \E x \in Procs : killed[x])

IInv == TypeOK /\ EndsInv /\ CallsInv /\ Blocked

\* The parts of TypeOK, as the actions change them.
RingOK ==
  /\ data \in [0 .. PIPESIZE - 1 -> Bytes]
  /\ nread \in 0 .. Word - 1 /\ nwrite \in 0 .. Word - 1
  /\ Used <= PIPESIZE
  /\ readopen \in BOOLEAN /\ writeopen \in BOOLEAN

CallsOK ==
  /\ ends \in [Procs -> SUBSET Ends]
  /\ pc \in [Procs -> {"idle", "read", "write"}]
  /\ chan \in [Procs -> {"none", "nread", "nwrite"}]
  /\ rest \in [Procs -> Seq(Bytes)]
  /\ buf \in Seq(Bytes)
  /\ want \in [Procs -> 0 .. PIPESIZE] /\ killed \in [Procs -> BOOLEAN]

LEMMA Types == TypeOK <=> RingOK /\ CallsOK
  BY Zenon DEF TypeOK, RingOK, CallsOK, Used

LEMMA TypesNext == RingOK' /\ CallsOK' => TypeOK'
  BY Zenon DEF TypeOK, RingOK, CallsOK, Used

LEMMA InitIInv == Init => IInv
  <1> SUFFICES ASSUME Init PROVE IInv
    OBVIOUS
  <1>1. nread = 0 /\ nwrite = 0 /\ Used = 0
    <2>1. nread = 0 /\ nwrite = 0 /\ 0 - 0 = 0
      BY DEF Init
    <2>2. 0 \in 0 .. Word - 1 /\ Word \in Nat \ {0}
      BY Sizes
    <2>3. 0 % Word = 0
      BY <2>2, Small, Zenon
    <2> QED BY <2>1, <2>3, Zenon DEF Used
  <1>2. RingOK
    BY <1>1, Sizes DEF Init, RingOK
  <1>3. CallsOK
    <2>1. <<>> \in Seq(Bytes)
      BY EmptySeq, Zenon
    <2>2. 0 \in 0 .. PIPESIZE
      BY Sizes
    <2> QED BY <2>1, <2>2, Zenon DEF Init, CallsOK
  <1>4. EndsInv
    BY Zenon DEF Init, EndsInv, Ends
  <1>5. CallsInv /\ Blocked
    BY Zenon DEF Init, CallsInv, Blocked
  <1> QED BY <1>2, <1>3, <1>4, <1>5, Types, Zenon DEF IInv

\* KilledMeanwhile only ever marks processes.
LEMMA MoreKilled ==
  ASSUME CallsOK, NEW p \in Procs, KilledMeanwhile(p)
  PROVE  killed' \in [Procs -> BOOLEAN] /\ \A q \in Procs : killed[q] => killed'[q]
  <1>1. CASE killed' = killed
    BY <1>1, Zenon DEF CallsOK
  <1>2. CASE killed' = [killed EXCEPT ![p] = TRUE]
    BY <1>2, Zenon DEF CallsOK
  <1> QED BY <1>1, <1>2, Zenon DEF KilledMeanwhile

LEMMA sys_writeInv ==
  ASSUME IInv, NEW p \in Procs, NEW m \in Msgs, sys_write(p, m)
  PROVE  IInv'
  <1>1. /\ pc[p] = "idle" /\ chan[p] = "none" /\ "w" \in ends[p]
        /\ pc' = [pc EXCEPT ![p] = "write"] /\ rest' = [rest EXCEPT ![p] = m]
        /\ data' = data /\ nread' = nread /\ nwrite' = nwrite
        /\ readopen' = readopen /\ writeopen' = writeopen
        /\ ends' = ends /\ chan' = chan /\ want' = want /\ buf' = buf /\ killed' = killed
    BY Zenon DEF sys_write, Running, pipeVars
  <1>2. RingOK /\ CallsOK /\ Used' = Used
    BY <1>1, Types, Zenon DEF IInv, Used
  <1>3. m \in Seq(Bytes) /\ m # <<>>
    BY PipeAssumption, Zenon
  <1>4. RingOK' /\ CallsOK'
    BY <1>1, <1>2, <1>3, Zenon DEF RingOK, CallsOK
  <1>5. /\ pc'[p] = "write" /\ rest'[p] = m
        /\ \A q \in Procs \ {p} : pc'[q] = pc[q] /\ rest'[q] = rest[q]
    BY <1>1, <1>2, Zenon DEF CallsOK
  <1>6. EndsInv' /\ Blocked'
    BY <1>1, <1>2, Zenon DEF IInv, EndsInv, Blocked
  <1>7. CallsInv'
    BY <1>1, <1>3, <1>5 DEF IInv, CallsInv
  <1> QED BY <1>4, <1>6, <1>7, TypesNext, Zenon DEF IInv

LEMMA sys_readInv ==
  ASSUME IInv, NEW p \in Procs, NEW n \in 1 .. PIPESIZE, sys_read(p, n)
  PROVE  IInv'
  <1>1. /\ pc[p] = "idle" /\ chan[p] = "none" /\ "r" \in ends[p]
        /\ pc' = [pc EXCEPT ![p] = "read"] /\ want' = [want EXCEPT ![p] = n]
        /\ data' = data /\ nread' = nread /\ nwrite' = nwrite
        /\ readopen' = readopen /\ writeopen' = writeopen
        /\ ends' = ends /\ chan' = chan /\ rest' = rest /\ buf' = buf /\ killed' = killed
    BY Zenon DEF sys_read, Running, pipeVars
  <1>2. RingOK /\ CallsOK /\ Used' = Used
    BY <1>1, Types, Zenon DEF IInv, Used
  <1>3. n \in 0 .. PIPESIZE /\ n >= 1
    BY Sizes
  <1>4. RingOK' /\ CallsOK'
    BY <1>1, <1>2, <1>3, Zenon DEF RingOK, CallsOK
  <1>5. /\ pc'[p] = "read" /\ want'[p] = n
        /\ \A q \in Procs \ {p} : pc'[q] = pc[q] /\ want'[q] = want[q]
    BY <1>1, <1>2, Zenon DEF CallsOK
  <1>6. EndsInv' /\ Blocked'
    BY <1>1, <1>2, Zenon DEF IInv, EndsInv, Blocked
  <1>7. CallsInv'
    BY <1>1, <1>3, <1>5 DEF IInv, CallsInv
  <1> QED BY <1>4, <1>6, <1>7, TypesNext, Zenon DEF IInv

\* How much pipewrite stores before it returns or sleeps.
LEMMA FitsIs ==
  ASSUME IInv, NEW p \in Procs
  PROVE  /\ Fits(p) \in Nat /\ Fits(p) <= PIPESIZE - Used /\ Fits(p) <= Len(rest[p])
         /\ Fits(p) = Len(rest[p]) \/ Fits(p) = PIPESIZE - Used
         /\ rest[p] \in Seq(Bytes) /\ Len(rest[p]) \in Nat
         /\ Used \in Nat /\ Used <= PIPESIZE
         /\ pc[p] = "write" => Len(rest[p]) > 0
  <1>1. TypeOK
    BY Zenon DEF IInv
  <1>2. rest[p] \in Seq(Bytes) /\ Len(rest[p]) \in Nat
    BY <1>1 DEF TypeOK
  <1>3. Used \in Nat /\ Used <= PIPESIZE
    BY <1>1, UsedIs, Sizes
  <1>4. Len(rest[p]) \in Int /\ PIPESIZE - Used \in Int
    BY <1>2, <1>3, Sizes
  <1>5. Fits(p) = IF Len(rest[p]) <= PIPESIZE - Used THEN Len(rest[p]) ELSE PIPESIZE - Used
    BY <1>4, MinIs, Zenon DEF Fits
  <1>6. pc[p] = "write" => Len(rest[p]) > 0
    BY <1>2, EmptySeq DEF IInv, CallsInv
  <1> QED BY <1>2, <1>3, <1>4, <1>5, <1>6, Sizes

\* The ring after pipewrite has stored what fits.
LEMMA StoredRing ==
  ASSUME IInv, NEW p \in Procs, Store(p, Fits(p))
  PROVE  /\ RingOK' /\ Used' = Used + Fits(p)
         /\ readopen' = readopen /\ writeopen' = writeopen
         /\ Contents' = Contents \o SubSeq(rest[p], 1, Fits(p))
  <1> DEFINE k == Fits(p)
  <1>1. TypeOK /\ RingOK /\ readopen' = readopen /\ writeopen' = writeopen /\ nread' = nread
    BY Types, Zenon DEF IInv, Store
  <1>2. k \in Nat /\ k <= PIPESIZE - Used /\ k <= Len(rest[p]) /\ Used \in Nat
    BY FitsIs, Zenon
  <1> HIDE DEF k
  <1>3. Store(p, k)
    BY Zenon DEF k
  <1>4. /\ Used' = Used + k /\ nwrite' \in 0 .. Word - 1
        /\ data' \in [0 .. PIPESIZE - 1 -> Bytes]
        /\ Contents' = Contents \o SubSeq(rest[p], 1, k)
    BY <1>1, <1>2, <1>3, Stored, Zenon
  <1>5. Used' <= PIPESIZE
    BY <1>2, <1>4, Sizes
  <1> QED BY <1>1, <1>4, <1>5, Zenon DEF RingOK, k

LEMMA pipewrite_doneInv ==
  ASSUME IInv, NEW p \in Procs, pipewrite_done(p)
  PROVE  IInv'
  <1>1. /\ pc[p] = "write" /\ chan[p] = "none" /\ Fits(p) = Len(rest[p])
        /\ Store(p, Fits(p)) /\ Wake("nread", p, "none")
        /\ rest' = [rest EXCEPT ![p] = <<>>] /\ pc' = [pc EXCEPT ![p] = "idle"]
        /\ ends' = ends /\ want' = want /\ buf' = buf /\ killed' = killed
    BY Zenon DEF pipewrite_done, Running
  <1>2. /\ RingOK' /\ Used' = Used + Fits(p) /\ readopen' = readopen /\ writeopen' = writeopen
    BY <1>1, StoredRing, Zenon
  <1>3. CallsOK /\ <<>> \in Seq(Bytes)
    BY Types, EmptySeq, Zenon DEF IInv
  <1>4. /\ \A q \in Procs : chan'[q] = IF chan[q] = "nread" THEN "none" ELSE chan[q]
        /\ chan' \in [Procs -> {"none", "nread", "nwrite"}]
    BY <1>1, <1>3, Zenon DEF Wake, CallsOK
  <1>5. /\ pc'[p] = "idle" /\ rest'[p] = <<>>
        /\ \A q \in Procs \ {p} : pc'[q] = pc[q] /\ rest'[q] = rest[q]
    BY <1>1, <1>3, Zenon DEF CallsOK
  <1>6. CallsOK'
    BY <1>1, <1>3, <1>4, Zenon DEF CallsOK
  <1>7. EndsInv'
    BY <1>1, <1>2, Zenon DEF IInv, EndsInv
  <1>8. CallsInv'
    BY <1>1, <1>4, <1>5 DEF IInv, CallsInv
  <1>9. Used # PIPESIZE
    BY <1>1, FitsIs, Sizes
  <1>10. Blocked'
    BY <1>4, <1>9, Zenon DEF IInv, Blocked
  <1> QED BY <1>2, <1>6, <1>7, <1>8, <1>10, TypesNext, Zenon DEF IInv

LEMMA pipewrite_failInv ==
  ASSUME IInv, NEW p \in Procs, pipewrite_fail(p)
  PROVE  IInv'
  <1>1. /\ pc[p] = "write" /\ chan[p] = "none" /\ Fits(p) < Len(rest[p])
        /\ ~readopen \/ killed[p]
        /\ Store(p, Fits(p))
        /\ rest' = [rest EXCEPT ![p] = <<>>] /\ pc' = [pc EXCEPT ![p] = "idle"]
        /\ ends' = ends /\ chan' = chan /\ want' = want /\ buf' = buf /\ killed' = killed
    BY Zenon DEF pipewrite_fail, Running
  <1>2. /\ RingOK' /\ Used' = Used + Fits(p) /\ readopen' = readopen /\ writeopen' = writeopen
    BY <1>1, StoredRing, Zenon
  <1>3. CallsOK /\ <<>> \in Seq(Bytes)
    BY Types, EmptySeq, Zenon DEF IInv
  <1>4. /\ pc'[p] = "idle" /\ rest'[p] = <<>>
        /\ \A q \in Procs \ {p} : pc'[q] = pc[q] /\ rest'[q] = rest[q]
    BY <1>1, <1>3, Zenon DEF CallsOK
  <1>5. CallsOK'
    BY <1>1, <1>3, Zenon DEF CallsOK
  <1>6. EndsInv'
    BY <1>1, <1>2, Zenon DEF IInv, EndsInv
  <1>7. CallsInv'
    BY <1>1, <1>4 DEF IInv, CallsInv
  <1>8. Used' = PIPESIZE
    BY <1>1, <1>2, FitsIs, Sizes
  <1>9. ~readopen => \A q \in Procs : chan[q] # "nread"
    BY Zenon DEF IInv, EndsInv, CallsInv
  <1>10. Blocked'
    BY <1>1, <1>2, <1>8, <1>9, Zenon DEF IInv, Blocked
  <1> QED BY <1>2, <1>5, <1>6, <1>7, <1>10, TypesNext, Zenon DEF IInv

LEMMA pipewrite_sleepInv ==
  ASSUME IInv, NEW p \in Procs, pipewrite_sleep(p)
  PROVE  IInv'
  <1> DEFINE k == Fits(p)
             left == SubSeq(rest[p], k + 1, Len(rest[p]))
  <1>1. /\ pc[p] = "write" /\ chan[p] = "none" /\ k < Len(rest[p]) /\ readopen /\ ~killed[p]
        /\ Store(p, Fits(p)) /\ Wake("nread", p, "nwrite")
        /\ rest' = [rest EXCEPT ![p] = left]
        /\ ends' = ends /\ pc' = pc /\ want' = want /\ buf' = buf /\ KilledMeanwhile(p)
    BY Zenon DEF pipewrite_sleep, Running
  <1>2. /\ RingOK' /\ Used' = Used + k /\ readopen' = readopen /\ writeopen' = writeopen
    BY <1>1, StoredRing, Zenon
  <1>3. CallsOK
    BY Types, Zenon DEF IInv
  <1>4. k \in Nat /\ rest[p] \in Seq(Bytes) /\ Len(rest[p]) \in Nat /\ Used' = PIPESIZE
    BY <1>1, <1>2, FitsIs, Sizes
  <1> HIDE DEF k
  <1>5. left \in Seq(Bytes) /\ left # <<>>
    <2>1. \A i \in k + 1 .. Len(rest[p]) : rest[p][i] \in Bytes
      BY <1>4, ElementOfSeq
    <2>2. left \in Seq(Bytes) /\ Len(left) = Len(rest[p]) - k
      BY <1>1, <1>4, <2>1, SubSeqProperties
    <2>3. Len(left) # 0
      BY <1>1, <1>4, <2>2
    <2> QED BY <2>2, <2>3, EmptySeq, Zenon
  <1> HIDE DEF left
  <1>6. /\ chan'[p] = "nwrite"
        /\ \A q \in Procs \ {p} : chan'[q] = IF chan[q] = "nread" THEN "none" ELSE chan[q]
        /\ chan' \in [Procs -> {"none", "nread", "nwrite"}]
    BY <1>1, <1>3, Zenon DEF Wake, CallsOK
  <1>7. rest'[p] = left /\ \A q \in Procs \ {p} : rest'[q] = rest[q]
    BY <1>1, <1>3, Zenon DEF CallsOK
  <1>12. killed' \in [Procs -> BOOLEAN] /\ \A q \in Procs : killed[q] => killed'[q]
    BY <1>1, <1>3, MoreKilled, Zenon
  <1>8. CallsOK'
    BY <1>1, <1>3, <1>5, <1>6, <1>12, Zenon DEF CallsOK
  <1>9. EndsInv'
    BY <1>1, <1>2, Zenon DEF IInv, EndsInv
  <1>10. CallsInv'
    BY <1>1, <1>5, <1>6, <1>7, Zenon DEF IInv, CallsInv
  <1>11. Blocked'
    BY <1>1, <1>2, <1>4, <1>6, <1>12, Zenon DEF IInv, Blocked
  <1> QED BY <1>2, <1>8, <1>9, <1>10, <1>11, TypesNext, Zenon DEF IInv

LEMMA piperead_sleepInv ==
  ASSUME IInv, NEW p \in Procs, piperead_sleep(p)
  PROVE  IInv'
  <1>1. /\ pc[p] = "read" /\ chan[p] = "none" /\ Empty /\ writeopen /\ ~killed[p]
        /\ chan' = [chan EXCEPT ![p] = "nread"]
        /\ data' = data /\ nread' = nread /\ nwrite' = nwrite
        /\ readopen' = readopen /\ writeopen' = writeopen
        /\ ends' = ends /\ pc' = pc /\ rest' = rest /\ want' = want /\ buf' = buf
        /\ KilledMeanwhile(p)
    BY Zenon DEF piperead_sleep, Running, pipeVars
  <1>2. RingOK /\ CallsOK /\ Used' = Used /\ Used = 0
    BY <1>1, Types, UsedIs, Zenon DEF IInv, Used
  <1>12. killed' \in [Procs -> BOOLEAN] /\ \A q \in Procs : killed[q] => killed'[q]
    BY <1>1, <1>2, MoreKilled, Zenon
  <1>3. RingOK' /\ CallsOK'
    BY <1>1, <1>2, <1>12, Zenon DEF RingOK, CallsOK
  <1>4. chan'[p] = "nread" /\ \A q \in Procs \ {p} : chan'[q] = chan[q]
    BY <1>1, <1>2, Zenon DEF CallsOK
  <1>5. EndsInv' /\ CallsInv'
    BY <1>1, <1>4, Zenon DEF IInv, EndsInv, CallsInv
  <1>6. Blocked'
    BY <1>1, <1>2, <1>4, <1>12, Zenon DEF IInv, Blocked
  <1> QED BY <1>3, <1>5, <1>6, TypesNext, Zenon DEF IInv

LEMMA piperead_failInv ==
  ASSUME IInv, NEW p \in Procs, piperead_fail(p)
  PROVE  IInv'
  <1>1. /\ pc[p] = "read" /\ chan[p] = "none"
        /\ pc' = [pc EXCEPT ![p] = "idle"] /\ want' = [want EXCEPT ![p] = 0]
        /\ data' = data /\ nread' = nread /\ nwrite' = nwrite
        /\ readopen' = readopen /\ writeopen' = writeopen
        /\ ends' = ends /\ chan' = chan /\ rest' = rest /\ buf' = buf /\ killed' = killed
    BY Zenon DEF piperead_fail, Running, pipeVars
  <1>2. RingOK /\ CallsOK /\ Used' = Used /\ 0 \in 0 .. PIPESIZE
    BY <1>1, Types, Sizes DEF IInv, Used
  <1>3. RingOK' /\ CallsOK'
    BY <1>1, <1>2, Zenon DEF RingOK, CallsOK
  <1>4. /\ pc'[p] = "idle"
        /\ \A q \in Procs \ {p} : pc'[q] = pc[q] /\ want'[q] = want[q]
    BY <1>1, <1>2, Zenon DEF CallsOK
  <1>5. EndsInv' /\ Blocked'
    BY <1>1, <1>2, Zenon DEF IInv, EndsInv, Blocked
  <1>6. CallsInv'
    BY <1>1, <1>4 DEF IInv, CallsInv
  <1> QED BY <1>3, <1>5, <1>6, TypesNext, Zenon DEF IInv

\* How much piperead copies.
LEMMA piperead_takes ==
  ASSUME IInv, NEW p \in Procs, piperead(p)
  PROVE  \E k \in Nat :
           /\ k <= Used /\ (k = 0 => Used = 0 /\ ~writeopen)
           /\ buf' = SubSeq(Contents, 1, k) /\ nread' = (nread + k) % Word
  <1>1. want[p] \in Nat /\ want[p] >= 1
    BY Sizes DEF IInv, TypeOK, CallsInv, piperead, Running
  <1>2. Used \in Nat /\ (Empty <=> Used = 0)
    BY UsedIs, Sizes DEF IInv
  <1>3. want[p] \in Int /\ Used \in Int
    BY <1>1, <1>2
  <1>4. Min({want[p], Used}) = IF want[p] <= Used THEN want[p] ELSE Used
    BY <1>3, MinIs, Zenon
  <1> DEFINE k == Min({want[p], Used})
  <1>5. k \in Nat /\ k <= Used /\ (k = 0 => Used = 0)
    BY <1>1, <1>2, <1>4
  <1>6. Used = 0 => ~writeopen
    BY <1>2, Zenon DEF piperead
  <1>7. buf' = SubSeq(Contents, 1, k) /\ nread' = (nread + k) % Word
    BY Zenon DEF piperead
  <1> HIDE DEF k
  <1> QED BY <1>5, <1>6, <1>7, Zenon

LEMMA pipereadInv ==
  ASSUME IInv, NEW p \in Procs, piperead(p)
  PROVE  IInv'
  <1>1. /\ pc[p] = "read" /\ chan[p] = "none" /\ (~Empty \/ ~writeopen)
        /\ Wake("nwrite", p, "none")
        /\ pc' = [pc EXCEPT ![p] = "idle"] /\ want' = [want EXCEPT ![p] = 0]
        /\ data' = data /\ nwrite' = nwrite /\ readopen' = readopen /\ writeopen' = writeopen
        /\ ends' = ends /\ rest' = rest /\ killed' = killed
    BY Zenon DEF piperead, Running
  <1>2. PICK k \in Nat :
          /\ k <= Used /\ buf' = SubSeq(Contents, 1, k) /\ nread' = (nread + k) % Word
    BY piperead_takes, Zenon
  <1>3. /\ TypeOK /\ RingOK /\ CallsOK /\ 0 \in 0 .. PIPESIZE
        /\ Used \in Nat /\ Used <= PIPESIZE /\ (Empty <=> Used = 0)
    BY Types, Sizes, UsedIs DEF IInv
  <1>4. Used' = Used - k /\ nread' \in 0 .. Word - 1 /\ buf' \in Seq(Bytes)
    BY <1>1, <1>2, <1>3, Taken, Zenon
  <1>5. Used' <= PIPESIZE
    BY <1>3, <1>4, Sizes
  <1>6. RingOK'
    BY <1>1, <1>3, <1>4, <1>5, Zenon DEF RingOK
  <1>7. /\ \A q \in Procs : chan'[q] = IF chan[q] = "nwrite" THEN "none" ELSE chan[q]
        /\ chan' \in [Procs -> {"none", "nread", "nwrite"}]
    BY <1>1, <1>3, Zenon DEF Wake, CallsOK
  <1>8. CallsOK'
    BY <1>1, <1>3, <1>4, <1>7, Zenon DEF CallsOK
  <1>9. /\ pc'[p] = "idle"
        /\ \A q \in Procs \ {p} : pc'[q] = pc[q] /\ want'[q] = want[q]
    BY <1>1, <1>3, Zenon DEF CallsOK
  <1>10. EndsInv'
    BY <1>1, Zenon DEF IInv, EndsInv
  <1>11. CallsInv'
    BY <1>1, <1>7, <1>9, SMTT(30), Z3T(30) DEF IInv, CallsInv
  <1>12. Blocked'
    BY <1>1, <1>3, <1>7, Zenon DEF IInv, Blocked
  <1> QED BY <1>6, <1>8, <1>10, <1>11, <1>12, TypesNext, Zenon DEF IInv

LEMMA pipecloseInv ==
  ASSUME IInv, NEW p \in Procs, NEW e \in Ends, pipeclose(p, e)
  PROVE  IInv'
  <1> DEFINE last == \A x \in Procs \ {p} : e \notin ends[x]
  <1>1. /\ pc[p] = "idle" /\ chan[p] = "none" /\ e \in ends[p]
        /\ ends' = [ends EXCEPT ![p] = @ \ {e}]
        /\ readopen' = (readopen /\ ~(last /\ e = "r"))
        /\ writeopen' = (writeopen /\ ~(last /\ e = "w"))
        /\ IF last THEN Wake(IF e = "w" THEN "nread" ELSE "nwrite", p, "none") ELSE chan' = chan
        /\ data' = data /\ nread' = nread /\ nwrite' = nwrite
        /\ pc' = pc /\ rest' = rest /\ want' = want /\ buf' = buf /\ killed' = killed
    BY Zenon DEF pipeclose, Running
  <1>2. RingOK /\ CallsOK /\ Used' = Used
    BY <1>1, Types, Zenon DEF IInv, Used
  <1>3. readopen' \in BOOLEAN /\ writeopen' \in BOOLEAN
    BY <1>1, Zenon
  <1>4. RingOK'
    BY <1>1, <1>2, <1>3, Zenon DEF RingOK
  <1>5. ends'[p] = ends[p] \ {e} /\ \A q \in Procs \ {p} : ends'[q] = ends[q]
    BY <1>1, <1>2, Zenon DEF CallsOK
  <1>6. /\ \A q \in Procs : chan'[q] \in {chan[q], "none"}
        /\ last /\ e = "w" => \A q \in Procs : chan'[q] # "nread"
        /\ last /\ e = "r" => \A q \in Procs : chan'[q] # "nwrite"
        /\ chan' \in [Procs -> {"none", "nread", "nwrite"}]
    <2>1. CASE last
      <3>1. chan' = [x \in Procs |-> IF x = p THEN "none"
                       ELSE IF chan[x] = (IF e = "w" THEN "nread" ELSE "nwrite") THEN "none" ELSE chan[x]]
        BY <1>1, <2>1, Zenon DEF Wake
      <3> QED BY <1>2, <3>1, Zenon DEF CallsOK
    <2>2. CASE ~last
      BY <1>1, <1>2, <2>2, Zenon DEF CallsOK
    <2> QED BY <2>1, <2>2, Zenon
  <1>7. CallsOK'
    BY <1>1, <1>2, <1>6, Zenon DEF CallsOK
  <1>8. EndsInv'
    <2>1. CASE e = "r"
      BY <1>1, <1>5, <2>1, Zenon DEF IInv, EndsInv
    <2>2. CASE e = "w"
      BY <1>1, <1>5, <2>2, ZenonT(60) DEF IInv, EndsInv
    <2> QED BY <2>1, <2>2, Zenon DEF Ends
  <1>9. CallsInv'
    BY <1>1, <1>5, <1>6, Zenon DEF IInv, CallsInv
  <1>10. Blocked'
    BY <1>1, <1>2, <1>6, Zenon DEF IInv, Blocked
  <1> QED BY <1>4, <1>7, <1>8, <1>9, <1>10, TypesNext, Zenon DEF IInv

LEMMA killInv ==
  ASSUME IInv, NEW p \in Procs, kill(p)
  PROVE  IInv'
  <1>1. /\ killed' = [killed EXCEPT ![p] = TRUE] /\ chan' = [chan EXCEPT ![p] = "none"]
        /\ data' = data /\ nread' = nread /\ nwrite' = nwrite
        /\ readopen' = readopen /\ writeopen' = writeopen
        /\ ends' = ends /\ pc' = pc /\ rest' = rest /\ want' = want /\ buf' = buf
    BY Zenon DEF kill, pipeVars
  <1>2. RingOK /\ CallsOK /\ Used' = Used
    BY <1>1, Types, Zenon DEF IInv, Used
  <1>3. RingOK' /\ CallsOK'
    BY <1>1, <1>2, Zenon DEF RingOK, CallsOK
  <1>4. /\ killed'[p] /\ chan'[p] = "none"
        /\ \A q \in Procs \ {p} : killed'[q] = killed[q] /\ chan'[q] = chan[q]
    BY <1>1, <1>2, Zenon DEF CallsOK
  <1>5. EndsInv' /\ CallsInv'
    BY <1>1, <1>4, Zenon DEF IInv, EndsInv, CallsInv
  <1>6. Blocked'
    BY <1>1, <1>2, <1>4, Zenon DEF IInv, Blocked
  <1> QED BY <1>3, <1>5, <1>6, TypesNext, Zenon DEF IInv

LEMMA NextIInv == IInv /\ [Next]_vars => IInv'
  <1> SUFFICES ASSUME IInv, [Next]_vars PROVE IInv'
    OBVIOUS
  <1>1. ASSUME NEW p \in Procs, Run(p) PROVE IInv'
    BY <1>1, pipewrite_doneInv, pipewrite_failInv, pipewrite_sleepInv,
       piperead_sleepInv, piperead_failInv, pipereadInv, Zenon DEF Run
  <1>2. ASSUME UNCHANGED vars PROVE IInv'
    <2>1. TypeOK' /\ EndsInv' /\ CallsInv'
      BY <1>2, Zenon DEF IInv, vars, TypeOK, EndsInv, CallsInv
    <2>2. Blocked'
      BY <1>2, Zenon DEF IInv, vars, Blocked, Used
    <2> QED BY <2>1, <2>2, Zenon DEF IInv
  <1> QED BY <1>1, <1>2, sys_writeInv, sys_readInv, pipecloseInv, killInv, Zenon DEF Next

-----------------------------------------------------------------------------
(* The refinement. *)

\* Init starts the byte stream.
LEMMA InitRefines == Init => BS!Init
  <1> SUFFICES ASSUME Init PROVE BS!Init
    OBVIOUS
  <1>1. TypeOK /\ Empty
    BY InitIInv, Zenon DEF IInv, Init, Empty
  <1>2. Used = 0
    BY <1>1, UsedIs, Zenon
  <1>3. Contents = <<>>
    BY <1>1, <1>2, ContentsIs, EmptySeq, Zenon
  <1> QED BY <1>3, Zenon DEF Init, BS!Init

\* Every step puts bytes at the end of the stream, takes bytes from its front,
\* closes it or leaves it alone.
LEMMA NextRefines ==
  ASSUME IInv, [Next]_vars
  PROVE  [BS!Next]_<<Contents, rest, buf, writeopen>>
  <1> USE DEF BS!Drop
  <1>1. TypeOK
    BY Zenon DEF IInv
  <1>2. ASSUME nread' = nread, nwrite' = nwrite, data' = data PROVE Contents' = Contents
    BY <1>2, Zenon DEF Contents, Used
  <1>3. ASSUME NEW p \in Procs, NEW m \in Msgs, sys_write(p, m) PROVE BS!Next
    <2>1. writeopen /\ rest[p] = <<>>
      BY <1>3, Zenon DEF IInv, EndsInv, CallsInv, sys_write, Running
    <2>2. Contents' = Contents
      BY <1>2, <1>3, Zenon DEF sys_write, pipeVars
    <2> QED BY <1>3, <2>1, <2>2, Zenon DEF sys_write, pipeVars, BS!Next, BS!Write
  <1>4. ASSUME NEW p \in Procs, NEW k \in Nat, k <= Len(rest[p]),
               rest' = [rest EXCEPT ![p] = SubSeq(rest[p], k + 1, Len(rest[p]))],
               Contents' = Contents \o SubSeq(rest[p], 1, k),
               writeopen, writeopen' = writeopen, buf' = buf
        PROVE  BS!Next
    <2>1. k \in 0 .. Len(rest[p])
      BY <1>1, <1>4 DEF TypeOK
    <2>2. BS!Put(p, k)
      BY <1>4, Zenon DEF BS!Put
    <2> QED BY <2>1, <2>2, Zenon DEF BS!Next
  <1>5. ASSUME NEW p \in Procs, pc[p] = "write" PROVE writeopen
    BY <1>5, Zenon DEF IInv, EndsInv, CallsInv
  <1>6. ASSUME NEW p \in Procs, pipewrite_done(p) PROVE BS!Next
    <2>1. /\ Fits(p) = Len(rest[p]) /\ rest' = [rest EXCEPT ![p] = <<>>] /\ buf' = buf
          /\ Store(p, Fits(p)) /\ pc[p] = "write"
      BY <1>6, Zenon DEF pipewrite_done, Running
    <2>2. Fits(p) \in Nat /\ Fits(p) <= Len(rest[p])
      BY FitsIs, Zenon
    <2>3. SubSeq(rest[p], Fits(p) + 1, Len(rest[p])) = <<>>
      BY <2>1, <2>2, SubSeqEmpty
    <2> QED BY <1>4, <1>5, <2>1, <2>2, <2>3, StoredRing, Zenon
  <1>7. ASSUME NEW p \in Procs, pipewrite_fail(p) PROVE BS!Next
    <2>1. /\ rest' = [rest EXCEPT ![p] = <<>>] /\ buf' = buf /\ Store(p, Fits(p))
      BY <1>7, Zenon DEF pipewrite_fail
    <2>2. Fits(p) \in 0 .. Len(rest[p])
      BY FitsIs
    <2>3. BS!PutFail(p, Fits(p))
      BY <2>1, StoredRing, Zenon DEF BS!PutFail
    <2> QED BY <2>2, <2>3, Zenon DEF BS!Next
  <1>8. ASSUME NEW p \in Procs, pipewrite_sleep(p) PROVE BS!Next
    <2>1. /\ rest' = [rest EXCEPT ![p] = SubSeq(rest[p], Fits(p) + 1, Len(rest[p]))]
          /\ buf' = buf /\ Store(p, Fits(p)) /\ pc[p] = "write"
      BY <1>8, Zenon DEF pipewrite_sleep, Running
    <2>2. Fits(p) \in Nat /\ Fits(p) <= Len(rest[p])
      BY FitsIs, Zenon
    <2> QED BY <1>4, <1>5, <2>1, <2>2, StoredRing, Zenon
  <1>9. ASSUME NEW p \in Procs, piperead(p) PROVE BS!Next
    <2>1. PICK k \in Nat :
            /\ k <= Used /\ (k = 0 => Used = 0 /\ ~writeopen)
            /\ buf' = SubSeq(Contents, 1, k) /\ nread' = (nread + k) % Word
      BY <1>9, piperead_takes, Zenon
    <2>2. nwrite' = nwrite /\ data' = data /\ rest' = rest /\ writeopen' = writeopen
      BY <1>9, Zenon DEF piperead
    <2>3. Contents' = SubSeq(Contents, k + 1, Len(Contents))
      BY <1>1, <2>1, <2>2, Taken, Zenon
    <2>4. Contents \in Seq(Bytes) /\ Len(Contents) = Used /\ Used \in Nat
      BY <1>1, ContentsIs, UsedIs, Sizes
    <2>5. k = 0 => Contents = <<>> /\ ~writeopen
      BY <2>1, <2>4, EmptySeq, Zenon
    <2>6. BS!Get(k) /\ k \in 0 .. Len(Contents)
      BY <2>1, <2>2, <2>3, <2>4, <2>5 DEF BS!Get
    <2> QED BY <2>6, Zenon DEF BS!Next
  <1>10. ASSUME NEW p \in Procs, NEW e \in Ends, pipeclose(p, e)
         PROVE  BS!Next \/ UNCHANGED <<Contents, rest, buf, writeopen>>
    <2>1. Contents' = Contents /\ rest' = rest /\ buf' = buf
      BY <1>2, <1>10, Zenon DEF pipeclose
    <2>2. writeopen' = FALSE \/ writeopen' = writeopen
      <3>1. writeopen \in BOOLEAN
        BY <1>1, Zenon DEF TypeOK
      <3>2. writeopen' = (writeopen /\ ~((\A x \in Procs \ {p} : e \notin ends[x]) /\ e = "w"))
        BY <1>10, Zenon DEF pipeclose
      <3> QED BY <3>1, <3>2, Zenon
    <2> QED BY <2>1, <2>2, Zenon DEF BS!Next, BS!Close
  <1>11. ASSUME NEW p \in Procs, NEW n \in 1 .. PIPESIZE,
                sys_read(p, n) \/ piperead_sleep(p) \/ piperead_fail(p) \/ kill(p)
         PROVE  UNCHANGED <<Contents, rest, buf, writeopen>>
    BY <1>2, <1>11, Zenon DEF sys_read, piperead_sleep, piperead_fail, kill, pipeVars
  <1>12. ASSUME UNCHANGED vars PROVE UNCHANGED <<Contents, rest, buf, writeopen>>
    BY <1>2, <1>12, Zenon DEF vars
  <1>13. 1 \in 1 .. PIPESIZE
    BY Sizes
  <1> QED BY <1>3, <1>6, <1>7, <1>8, <1>9, <1>10, <1>11, <1>12, <1>13, Zenon DEF Next, Run

-----------------------------------------------------------------------------
(* The theorems. *)

\* The invariant that carries all the others.
THEOREM PipeInvariant == Spec => []IInv
  BY InitIInv, NextIInv, PTL DEF Spec

\* The type invariant; in particular the counters are never more than PIPESIZE
\* apart, although they wrap.
THEOREM PipeTypes == Spec => []TypeOK
  <1>1. IInv => TypeOK
    BY Zenon DEF IInv
  <1> QED BY <1>1, PipeInvariant, PTL

\* No wakeup of pipe.c is lost: see SleepersBlocked.
THEOREM PipeSleepers == Spec => []SleepersBlocked
  <1>1. IInv => SleepersBlocked
    BY UsedIs, Zenon DEF IInv, Blocked, SleepersBlocked
  <1> QED BY <1>1, PipeInvariant, PTL

\* pipewrite, piperead and pipeclose implement the byte stream.
THEOREM PipeImplements == Spec => ImplementsByteStream
  <1>1. IInv /\ [Next]_vars => [BS!Next]_<<Contents, rest, buf, writeopen>>
    BY NextRefines, Zenon
  <1> QED BY <1>1, InitRefines, PipeInvariant, PTL DEF Spec, ImplementsByteStream, BS!Spec
=============================================================================
