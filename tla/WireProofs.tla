------------------------------ MODULE WireProofs ------------------------------
(***************************************************************************)
(* What is written is what is read: the arguments and results of cross-VM  *)
(* calls, and the fields of transaction messages.                          *)
(***************************************************************************)
EXTENDS MerkleProofs, CrossVm, Codec, SequenceTheorems

(***************************************************************************)
(* A number's bytes, most significant first, written and read.             *)
(***************************************************************************)

\* Shifting satisfies its recursion, and yields numbers.
LEMMA ShiftedEquation ==
  ASSUME NEW value \in Nat
  PROVE  /\ Shifted(value) \in [0 .. Word -> Nat]
         /\ Shifted(value)[0] = value
         /\ \A k \in 0 .. Word - 1 : Shifted(value)[k + 1] = Shifted(value)[k] \div Base
<1> DEFINE Good(f, n) == f = [k \in 0 .. n |-> IF k = 0 THEN value ELSE f[k - 1] \div Base]
           P == {n \in Nat : \E f : Good(f, n)}
           v == Shifted(value)
<1>1. 0 \in P
  <2>1. Good([k \in 0 .. 0 |-> value], 0)
    OBVIOUS
  <2> QED BY <2>1
<1>2. ASSUME NEW n \in Nat, n \in P PROVE n + 1 \in P
  <2>1. PICK f : Good(f, n)
    BY <1>2
  <2> DEFINE g == [k \in 0 .. n + 1 |-> IF k = n + 1 THEN f[n] \div Base ELSE f[k]]
  <2>2. ASSUME NEW k \in 0 .. n + 1
        PROVE  g[k] = IF k = 0 THEN value ELSE g[k - 1] \div Base
    <3>1. CASE k = n + 1
      BY <3>1
    <3>2. CASE k # n + 1
      <4>1. k \in 0 .. n /\ g[k] = f[k] /\ (k # 0 => g[k - 1] = f[k - 1])
        BY <3>2
      <4>2. f[k] = IF k = 0 THEN value ELSE f[k - 1] \div Base
        BY <2>1, <4>1
      <4> QED BY <4>1, <4>2
    <3> QED BY <3>1, <3>2
  <2>3. Good(g, n + 1)
    BY <2>2
  <2>4. n + 1 \in Nat
    OBVIOUS
  <2> HIDE DEF g
  <2> QED BY <2>3, <2>4, Zenon
<1>3. Word \in P
  <2> HIDE DEF P
  <2> QED BY <1>1, <1>2, Induction, CrossVmAssumption
<1>4. v = [k \in 0 .. Word |-> IF k = 0 THEN value ELSE v[k - 1] \div Base]
  <2>1. PICK f : f = [k \in 0 .. Word |-> IF k = 0 THEN value ELSE f[k - 1] \div Base]
    BY <1>3
  <2> QED BY <2>1, Zenon DEF Shifted
<1> HIDE DEF v
<1>5. v[0] = value /\ \A k \in 0 .. Word - 1 : v[k + 1] = v[k] \div Base
  BY <1>4, CrossVmAssumption
<1> DEFINE Q == {j \in Nat : j <= Word => v[j] \in Nat}
<1>6. \A k \in Nat : k \in Q
  <2>1. 0 \in Q
    BY <1>5
  <2>2. ASSUME NEW k \in Nat, k \in Q PROVE k + 1 \in Q
    <3>1. CASE k + 1 <= Word
      <4>1. v[k] \in Nat /\ v[k + 1] = v[k] \div Base
        BY <1>5, <2>2, <3>1, CrossVmAssumption
      <4>2. v[k] \div Base \in Nat
        BY <4>1, CrossVmAssumption
      <4> QED BY <4>1, <4>2
    <3> QED BY <3>1
  <2> HIDE DEF Q
  <2> QED BY <2>1, <2>2, Induction
<1>7. v \in [0 .. Word -> Nat]
  BY <1>4, <1>6
<1> QED BY <1>5, <1>7 DEF v

\* Division, with a remainder, by the number of values of a byte.
LEMMA ByteDivision ==
  ASSUME NEW n \in Nat
  PROVE  n \div Base \in Nat /\ n % Base \in Byte /\ n = (n \div Base) * Base + (n % Base)
<1>1. Base \in Nat /\ Base > 0
  BY CrossVmAssumption
<1>2. \A m, b \in Nat : b > 0 => m \div b \in Nat
  OBVIOUS
<1>3. \A m, b \in Nat : b > 0 => m % b \in 0 .. b - 1
  OBVIOUS
<1>4. \A m, b \in Nat : b > 0 => m = (m \div b) * b + (m % b)
  OBVIOUS
<1>5. n \div Base \in Nat /\ n % Base \in 0 .. Base - 1 /\ n = (n \div Base) * Base + (n % Base)
  BY <1>1, <1>2, <1>3, <1>4
<1> QED BY <1>1, <1>5 DEF Byte

\* A word is a sequence of bytes.
LEMMA WordType ==
  ASSUME NEW value \in Nat
  PROVE  u256be(value) \in Seq(Byte) /\ Len(u256be(value)) = Word
<1>1. ASSUME NEW i \in 1 .. Word PROVE Shifted(value)[Word - i] % Base \in Byte
  <2>1. Word - i \in 0 .. Word
    BY CrossVmAssumption
  <2>2. Shifted(value)[Word - i] \in Nat
    BY <2>1, ShiftedEquation
  <2> QED BY <2>2, ByteDivision
<1>2. u256be(value) \in [1 .. Word -> Byte]
  BY <1>1 DEF u256be
<1> QED BY <1>2, CrossVmAssumption

\* Reading satisfies its recursion.
LEMMA ReadEquation ==
  ASSUME NEW b, NEW pos
  PROVE  Shifting(b, pos) =
           [i \in 0 .. Word |-> IF i = 0 THEN 0 ELSE Shifting(b, pos)[i - 1] * Base + b[pos + i]]
<1> DEFINE Good(f, n) == f = [i \in 0 .. n |-> IF i = 0 THEN 0 ELSE f[i - 1] * Base + b[pos + i]]
           P == {n \in Nat : \E f : Good(f, n)}
<1>1. 0 \in P
  <2>1. Good([i \in 0 .. 0 |-> 0], 0)
    OBVIOUS
  <2> QED BY <2>1
<1>2. ASSUME NEW n \in Nat, n \in P PROVE n + 1 \in P
  <2>1. PICK f : Good(f, n)
    BY <1>2
  <2> DEFINE g == [i \in 0 .. n + 1 |-> IF i = n + 1 THEN f[n] * Base + b[pos + (n + 1)] ELSE f[i]]
  <2>2. ASSUME NEW i \in 0 .. n + 1
        PROVE  g[i] = IF i = 0 THEN 0 ELSE g[i - 1] * Base + b[pos + i]
    <3>1. CASE i = n + 1
      BY <3>1
    <3>2. CASE i # n + 1
      <4>1. i \in 0 .. n /\ g[i] = f[i] /\ (i # 0 => g[i - 1] = f[i - 1])
        BY <3>2
      <4>2. f[i] = IF i = 0 THEN 0 ELSE f[i - 1] * Base + b[pos + i]
        BY <2>1, <4>1
      <4> QED BY <4>1, <4>2
    <3> QED BY <3>1, <3>2
  <2>3. Good(g, n + 1)
    BY <2>2
  <2>4. n + 1 \in Nat
    OBVIOUS
  <2> HIDE DEF g
  <2> QED BY <2>3, <2>4, Zenon
<1>3. Word \in P
  <2> HIDE DEF P
  <2> QED BY <1>1, <1>2, Induction, CrossVmAssumption
<1>4. PICK f : f = [i \in 0 .. Word |-> IF i = 0 THEN 0 ELSE f[i - 1] * Base + b[pos + i]]
  BY <1>3
<1> QED BY <1>4, Zenon DEF Shifting

\* A number that fits is read back from its word: after i bytes, what is read
\* is the number with the other bytes shifted out.
LEMMA WordRead ==
  ASSUME NEW value \in Nat, Fits(value), NEW b, NEW pos \in Nat,
         \A i \in 1 .. Word : b[pos + i] = u256be(value)[i]
  PROVE  readWord(b, pos) = value
<1> DEFINE s == Shifted(value)
           v == Shifting(b, pos)
<1>1. v = [i \in 0 .. Word |-> IF i = 0 THEN 0 ELSE v[i - 1] * Base + b[pos + i]]
  BY ReadEquation
<1>2. /\ s \in [0 .. Word -> Nat] /\ s[0] = value /\ s[Word] = 0
      /\ \A k \in 0 .. Word - 1 : s[k + 1] = s[k] \div Base
  BY ShiftedEquation DEF Fits
<1>3. \A i \in 1 .. Word : b[pos + i] = s[Word - i] % Base
  <2>1. \A i \in 1 .. Word : u256be(value)[i] = s[Word - i] % Base
    BY DEF u256be
  <2> QED BY <2>1
<1> HIDE DEF s, v
<1> DEFINE P == {i \in Nat : i <= Word => v[i] = s[Word - i]}
<1>4. 0 \in P
  BY <1>1, <1>2, CrossVmAssumption
<1>5. ASSUME NEW i \in Nat, i \in P PROVE i + 1 \in P
  <2>1. CASE i + 1 <= Word
    <3>1. /\ i + 1 \in 0 .. Word /\ i + 1 \in 1 .. Word /\ i + 1 # 0 /\ i + 1 - 1 = i
          /\ i <= Word /\ Word - (i + 1) \in 0 .. Word - 1 /\ Word - (i + 1) + 1 = Word - i
          /\ Word - (i + 1) \in 0 .. Word
      BY <2>1, CrossVmAssumption
    <3> DEFINE k == Word - (i + 1)
    <3>2. v[i + 1] = v[i] * Base + b[pos + (i + 1)]
      BY <1>1, <3>1
    <3>3. v[i] = s[k] \div Base
      BY <1>2, <1>5, <3>1
    <3>4. b[pos + (i + 1)] = s[k] % Base
      BY <1>3, <3>1
    <3>5. s[k] \in Nat
      BY <1>2, <3>1
    <3>6. s[k] = (s[k] \div Base) * Base + (s[k] % Base)
      BY <3>5, ByteDivision
    <3>7. v[i + 1] = s[k]
      BY <3>2, <3>3, <3>4, <3>6, Zenon
    <3> QED BY <3>7
  <2> QED BY <2>1
<1>6. Word \in P
  <2> HIDE DEF P
  <2> QED BY <1>4, <1>5, Induction, CrossVmAssumption
<1>7. Word - Word = 0 /\ Word <= Word
  BY CrossVmAssumption
<1> QED BY <1>2, <1>6, <1>7 DEF readWord, v

\* A number below one that fits does so too.
LEMMA SmallerFits ==
  ASSUME NEW n \in Nat, Fits(n), NEW m \in 0 .. n
  PROVE  Fits(m)
<1> DEFINE s == Shifted(m)
           t == Shifted(n)
<1>1. /\ s \in [0 .. Word -> Nat] /\ s[0] = m
      /\ \A k \in 0 .. Word - 1 : s[k + 1] = s[k] \div Base
  BY ShiftedEquation
<1>2. /\ t \in [0 .. Word -> Nat] /\ t[0] = n /\ t[Word] = 0
      /\ \A k \in 0 .. Word - 1 : t[k + 1] = t[k] \div Base
  BY ShiftedEquation DEF Fits
<1> HIDE DEF s, t
<1> DEFINE P == {k \in Nat : k <= Word => s[k] <= t[k]}
<1>3. 0 \in P
  BY <1>1, <1>2
<1>4. ASSUME NEW k \in Nat, k \in P PROVE k + 1 \in P
  <2>1. CASE k + 1 <= Word
    <3>1. k \in 0 .. Word - 1 /\ k \in 0 .. Word /\ s[k] <= t[k]
      BY <1>4, <2>1, CrossVmAssumption
    <3>2. s[k] \in Nat /\ t[k] \in Nat
      BY <1>1, <1>2, <3>1
    <3>3. \A x, y \in Nat : x <= y => x \div Base <= y \div Base
      BY CrossVmAssumption
    <3> QED BY <1>1, <1>2, <3>1, <3>2, <3>3
  <2> QED BY <2>1
<1>5. Word \in P
  <2> HIDE DEF P
  <2> QED BY <1>3, <1>4, Induction, CrossVmAssumption
<1>6. s[Word] <= 0 /\ s[Word] \in Nat
  BY <1>1, <1>2, <1>5, CrossVmAssumption
<1> QED BY <1>6 DEF Fits, s

(***************************************************************************)
(* Parts put one after the other.                                          *)
(***************************************************************************)

\* What FlattenSeq has after i parts.
Flattening(parts) ==
  LET flatten[i \in 1 .. Len(parts)] ==
        IF i = 1 THEN parts[i] ELSE flatten[i - 1] \o parts[i]
  IN flatten

\* Flattening satisfies its recursion.
LEMMA FlatteningEquation ==
  ASSUME NEW parts, Len(parts) \in Nat
  PROVE  Flattening(parts) =
           [i \in 1 .. Len(parts) |->
              IF i = 1 THEN parts[i] ELSE Flattening(parts)[i - 1] \o parts[i]]
<1> DEFINE Good(f, n) == f = [i \in 1 .. n |-> IF i = 1 THEN parts[i] ELSE f[i - 1] \o parts[i]]
           P == {n \in Nat : \E f : Good(f, n)}
           N == Len(parts)
<1> HIDE DEF N
<1>1. 0 \in P
  <2>1. Good([i \in 1 .. 0 |-> 0], 0)
    OBVIOUS
  <2> QED BY <2>1
<1>2. ASSUME NEW n \in Nat, n \in P PROVE n + 1 \in P
  <2>1. PICK f : Good(f, n)
    BY <1>2
  <2> DEFINE e == IF n = 0 THEN parts[1] ELSE f[n] \o parts[n + 1]
             g == [i \in 1 .. n + 1 |-> IF i = n + 1 THEN e ELSE f[i]]
  <2>2. ASSUME NEW i \in 1 .. n + 1
        PROVE  g[i] = IF i = 1 THEN parts[i] ELSE g[i - 1] \o parts[i]
    <3>1. CASE i = n + 1
      <4>1. g[i] = e /\ (n # 0 => n \in 1 .. n + 1 /\ n # n + 1 /\ i - 1 = n /\ g[n] = f[n])
        BY <3>1
      <4> HIDE DEF g
      <4> QED BY <3>1, <4>1
    <3>2. CASE i # n + 1
      <4>1. i \in 1 .. n /\ g[i] = f[i] /\ (i # 1 => g[i - 1] = f[i - 1])
        BY <3>2
      <4>2. f[i] = IF i = 1 THEN parts[i] ELSE f[i - 1] \o parts[i]
        BY <2>1, <4>1
      <4> QED BY <4>1, <4>2
    <3> QED BY <3>1, <3>2
  <2>3. Good(g, n + 1)
    BY <2>2
  <2>4. n + 1 \in Nat
    OBVIOUS
  <2> HIDE DEF g
  <2> QED BY <2>3, <2>4, Zenon
<1>3. N \in P
  <2> HIDE DEF P
  <2> QED BY <1>1, <1>2, Induction DEF N
<1>4. PICK f : f = [i \in 1 .. Len(parts) |-> IF i = 1 THEN parts[i] ELSE f[i - 1] \o parts[i]]
  BY <1>3 DEF N
<1> QED BY <1>4, Zenon DEF Flattening

\* One more part.
LEMMA FlatteningUp ==
  ASSUME NEW parts, Len(parts) \in Nat, NEW i \in 1 .. Len(parts)
  PROVE  /\ i = 1 => Flattening(parts)[i] = parts[i]
         /\ i # 1 => Flattening(parts)[i] = Flattening(parts)[i - 1] \o parts[i]
<1> DEFINE f == Flattening(parts)
<1>1. f = [j \in 1 .. Len(parts) |-> IF j = 1 THEN parts[j] ELSE f[j - 1] \o parts[j]]
  BY FlatteningEquation
<1> HIDE DEF f
<1>2. f[i] = IF i = 1 THEN parts[i] ELSE f[i - 1] \o parts[i]
  BY <1>1
<1> QED BY <1>2 DEF f

\* The first k parts, put one after the other.
Joined(parts, k) == FlattenSeq(SubSeq(parts, 1, k))

\* What FlattenSeq makes of the first k parts is what it has after k of them.
LEMMA JoinedIsFlattening ==
  ASSUME NEW S, NEW parts \in Seq(S), NEW k \in 1 .. Len(parts)
  PROVE  Joined(parts, k) = Flattening(parts)[k]
<1> DEFINE front == SubSeq(parts, 1, k)
           f == Flattening(front)
           g == Flattening(parts)
<1>1. /\ k \in Nat /\ Len(parts) \in Nat /\ Len(front) = k
      /\ \A i \in 1 .. k : front[i] = parts[i]
  BY SubSeqProperties
<1>2. \A i \in 1 .. k : /\ i = 1 => f[i] = front[i]
                        /\ i # 1 => f[i] = f[i - 1] \o front[i]
  BY <1>1, FlatteningUp
<1>3. \A i \in 1 .. Len(parts) : /\ i = 1 => g[i] = parts[i]
                                 /\ i # 1 => g[i] = g[i - 1] \o parts[i]
  BY <1>1, FlatteningUp
<1>4. FlattenSeq(front) = f[k]
  <2>1. Len(front) # 0
    BY <1>1
  <2>2. FlattenSeq(front) = Flattening(front)[Len(front)]
    BY <2>1, Zenon DEF FlattenSeq, Flattening
  <2> QED BY <1>1, <2>2
<1> HIDE DEF front, f, g
<1> DEFINE P == {i \in Nat : i + 1 <= k => f[i + 1] = g[i + 1]}
<1>5. 0 \in P
  <2>1. 1 \in 1 .. k /\ 1 \in 1 .. Len(parts) /\ 0 + 1 = 1
    BY <1>1
  <2>2. f[1] = front[1] /\ g[1] = parts[1] /\ front[1] = parts[1]
    BY <1>1, <1>2, <1>3, <2>1
  <2> QED BY <2>1, <2>2
<1>6. ASSUME NEW i \in Nat, i \in P PROVE i + 1 \in P
  <2>1. CASE i + 1 + 1 <= k
    <3> DEFINE j == i + 1 + 1
    <3>1. /\ j \in 1 .. k /\ j \in 1 .. Len(parts) /\ j # 1
          /\ j - 1 = i + 1 /\ i + 1 <= k
      BY <1>1, <2>1
    <3> HIDE DEF j
    <3>2. f[j] = f[j - 1] \o front[j] /\ g[j] = g[j - 1] \o parts[j]
      BY <1>2, <1>3, <3>1
    <3>3. f[i + 1] = g[i + 1] /\ front[j] = parts[j]
      BY <1>1, <1>6, <3>1
    <3>4. f[j] = g[j]
      BY <3>1, <3>2, <3>3
    <3> QED BY <3>4 DEF j
  <2> QED BY <2>1
<1>7. k - 1 \in P
  <2> HIDE DEF P
  <2> QED BY <1>1, <1>5, <1>6, Induction
<1>8. k - 1 + 1 = k /\ k <= k
  BY <1>1
<1>9. f[k] = g[k]
  BY <1>7, <1>8
<1> QED BY <1>4, <1>9 DEF Joined, front, g

\* Parts are put one after the other.
LEMMA JoinedParts ==
  ASSUME NEW S, NEW parts \in Seq(Seq(S))
  PROVE  /\ Joined(parts, 0) = <<>>
         /\ FlattenSeq(parts) = Joined(parts, Len(parts))
         /\ \A k \in 0 .. Len(parts) : Joined(parts, k) \in Seq(S)
         /\ \A k \in 0 .. Len(parts) - 1 :
              Joined(parts, k + 1) = Joined(parts, k) \o parts[k + 1]
<1> DEFINE n == Len(parts)
           g == Flattening(parts)
<1>1. n \in Nat /\ \A k \in 1 .. n : parts[k] \in Seq(S)
  OBVIOUS
<1>2. Joined(parts, 0) = <<>>
  <2>1. SubSeq(parts, 1, 0) = <<>>
    BY SubSeqEmpty
  <2>2. Len(<<>>) = 0
    OBVIOUS
  <2>3. FlattenSeq(<<>>) = <<>>
    BY <2>2, Zenon DEF FlattenSeq
  <2> QED BY <2>1, <2>3 DEF Joined
<1>3. \A i \in 1 .. n : /\ i = 1 => g[i] = parts[i]
                        /\ i # 1 => g[i] = g[i - 1] \o parts[i]
  BY <1>1, FlatteningUp
<1>4. \A k \in 1 .. n : Joined(parts, k) = g[k]
  BY JoinedIsFlattening
<1>5. FlattenSeq(parts) = Joined(parts, n)
  <2>1. SubSeq(parts, 1, Len(parts)) = parts
    <3> DEFINE t == SubSeq(parts, 1, Len(parts))
    <3>1. /\ t \in Seq(Seq(S)) /\ Len(t) = n
          /\ \A i \in 1 .. n : t[i] = parts[i]
      BY <1>1, SubSeqProperties
    <3> HIDE DEF t
    <3>2. t = parts
      BY <3>1, SeqEqual
    <3> QED BY <3>2 DEF t
  <2> QED BY <2>1 DEF Joined
<1> HIDE DEF n, g
<1> DEFINE P == {k \in Nat : k <= n => Joined(parts, k) \in Seq(S)}
<1>6. ASSUME NEW k \in 0 .. n - 1, Joined(parts, k) \in Seq(S)
      PROVE  Joined(parts, k + 1) = Joined(parts, k) \o parts[k + 1]
  <2> DEFINE j == k + 1
  <2>1. j \in 1 .. n /\ j - 1 = k /\ (k = 0 <=> j = 1)
    BY <1>1
  <2> HIDE DEF j
  <2>2. Joined(parts, j) = g[j] /\ parts[j] \in Seq(S)
    BY <1>1, <1>4, <2>1
  <2>3. CASE k = 0
    <3>1. g[j] = parts[j]
      BY <1>3, <2>1, <2>3
    <3>2. <<>> \o parts[j] = parts[j]
      BY <2>2, ConcatEmptySeq
    <3> QED BY <1>2, <2>2, <2>3, <3>1, <3>2 DEF j
  <2>4. CASE k # 0
    <3>1. k \in 1 .. n
      BY <1>1, <2>4
    <3>2. g[j] = g[j - 1] \o parts[j]
      BY <1>3, <2>1, <2>4
    <3>3. Joined(parts, k) = g[k]
      BY <1>4, <3>1
    <3> QED BY <2>1, <2>2, <3>2, <3>3 DEF j
  <2> QED BY <2>3, <2>4
<1>7. 0 \in P
  BY <1>2, EmptySeq
<1>8. ASSUME NEW k \in Nat, k \in P PROVE k + 1 \in P
  <2>1. CASE k + 1 <= n
    <3>1. k \in 0 .. n - 1 /\ k <= n /\ k + 1 \in 1 .. n
      BY <1>1, <2>1
    <3>2. Joined(parts, k) \in Seq(S) /\ parts[k + 1] \in Seq(S)
      BY <1>1, <1>8, <3>1
    <3>3. Joined(parts, k + 1) = Joined(parts, k) \o parts[k + 1]
      BY <1>6, <3>1, <3>2
    <3>4. Joined(parts, k + 1) \in Seq(S)
      BY <3>2, <3>3, ConcatProperties
    <3> QED BY <3>4
  <2> QED BY <2>1
<1>9. \A k \in 0 .. n : Joined(parts, k) \in Seq(S)
  <2>1. \A k \in Nat : k \in P
    <3> HIDE DEF P
    <3> QED BY <1>7, <1>8, Induction
  <2> QED BY <1>1, <2>1
<1>10. \A k \in 0 .. n - 1 : k \in 0 .. n
  BY <1>1
<1> QED BY <1>2, <1>5, <1>6, <1>9, <1>10 DEF n

\* Each part is found where those before it end.
LEMMA PartsInPlace ==
  ASSUME NEW S, NEW parts \in Seq(Seq(S)), NEW k \in 0 .. Len(parts) - 1
  PROVE  /\ Len(Joined(parts, k)) + Len(parts[k + 1]) <= Len(FlattenSeq(parts))
         /\ \A i \in 1 .. Len(parts[k + 1]) :
              FlattenSeq(parts)[Len(Joined(parts, k)) + i] = parts[k + 1][i]
<1> DEFINE n == Len(parts)
           J(j) == Joined(parts, j)
           o == Len(J(k))
           part == parts[k + 1]
           P == {j \in Nat : k + 1 + j <= n =>
                   /\ o + Len(part) <= Len(J(k + 1 + j))
                   /\ \A i \in 1 .. Len(part) : J(k + 1 + j)[o + i] = part[i]}
<1>1. /\ n \in Nat /\ k \in Nat /\ k \in 0 .. n - 1 /\ k \in 0 .. n /\ k + 1 \in 1 .. n
      /\ \A j \in 1 .. n : parts[j] \in Seq(S)
      /\ FlattenSeq(parts) = J(n) /\ \A j \in 0 .. n : J(j) \in Seq(S)
      /\ \A j \in 0 .. n - 1 : J(j + 1) = J(j) \o parts[j + 1]
  <2>1. n \in Nat /\ k \in Nat /\ k \in 0 .. n - 1 /\ k \in 0 .. n /\ k + 1 \in 1 .. n
    OBVIOUS
  <2>2. \A j \in 1 .. n : parts[j] \in Seq(S)
    OBVIOUS
  <2>3. /\ FlattenSeq(parts) = J(n) /\ \A j \in 0 .. n : J(j) \in Seq(S)
        /\ \A j \in 0 .. n - 1 : J(j + 1) = J(j) \o parts[j + 1]
    BY JoinedParts, Zenon
  <2> QED BY <2>1, <2>2, <2>3, Zenon
<1>2. o \in Nat /\ Len(part) \in Nat /\ part \in Seq(S) /\ J(k) \in Seq(S)
  <2>1. part \in Seq(S) /\ J(k) \in Seq(S)
    BY <1>1
  <2> QED BY <2>1, LenProperties
<1> HIDE DEF n, J, o, part
<1>3. 0 \in P
  <2>1. J(k + 1) = J(k) \o part /\ k + 1 + 0 = k + 1
    BY <1>1 DEF part
  <2> DEFINE t == J(k) \o part
  <2>2. /\ Len(t) = o + Len(part)
        /\ \A i \in 1 .. o + Len(part) : t[i] = IF i <= o THEN J(k)[i] ELSE part[i - o]
    BY <1>2, ConcatProperties DEF o
  <2> HIDE DEF t
  <2>3. ASSUME NEW i \in 1 .. Len(part) PROVE t[o + i] = part[i]
    <3> DEFINE j == o + i
    <3>1. j \in 1 .. o + Len(part) /\ ~(j <= o) /\ j - o = i
      BY <1>2
    <3> HIDE DEF j
    <3>2. t[j] = part[j - o]
      BY <2>2, <3>1
    <3> QED BY <3>1, <3>2 DEF j
  <2>4. J(k + 1) = t
    BY <2>1 DEF t
  <2> QED BY <1>2, <2>1, <2>2, <2>3, <2>4
<1>4. ASSUME NEW j \in Nat, j \in P PROVE j + 1 \in P
  <2>1. CASE k + 1 + (j + 1) <= n
    <3> DEFINE m == k + 1 + j
    <3>1. m \in 0 .. n - 1 /\ m \in 0 .. n /\ m <= n /\ k + 1 + (j + 1) = m + 1 /\ m + 1 \in 1 .. n
      BY <1>1, <2>1
    <3>2. /\ o + Len(part) <= Len(J(m))
          /\ \A i \in 1 .. Len(part) : J(m)[o + i] = part[i]
      BY <1>4, <3>1
    <3> HIDE DEF m
    <3>3. J(m + 1) = J(m) \o parts[m + 1] /\ J(m) \in Seq(S) /\ parts[m + 1] \in Seq(S)
      BY <1>1, <3>1
    <3>4. /\ Len(J(m)) \in Nat /\ Len(parts[m + 1]) \in Nat
          /\ Len(J(m + 1)) = Len(J(m)) + Len(parts[m + 1])
          /\ \A i \in 1 .. Len(J(m)) : J(m + 1)[i] = J(m)[i]
      BY <3>3
    <3>5. ASSUME NEW i \in 1 .. Len(part) PROVE J(m + 1)[o + i] = part[i]
      <4>1. o + i \in 1 .. Len(J(m))
        <5> DEFINE size == Len(J(m))
                   own == Len(part)
        <5>1. o \in Nat /\ own \in Nat /\ size \in Nat /\ o + own <= size /\ i \in 1 .. own
          BY <1>2, <3>2, <3>4, Zenon
        <5> HIDE DEF size, own
        <5>2. o + i \in 1 .. size
          BY <5>1
        <5> QED BY <5>2 DEF size
      <4> QED BY <3>2, <3>4, <4>1
    <3>6. o + Len(part) <= Len(J(m + 1))
      BY <1>2, <3>2, <3>4
    <3>7. j + 1 \in Nat
      OBVIOUS
    <3> QED BY <3>1, <3>5, <3>6, <3>7, Zenon
  <2> QED BY <2>1
<1>5. n - (k + 1) \in P
  <2> HIDE DEF P
  <2>1. n - (k + 1) \in Nat
    BY <1>1
  <2> QED BY <1>3, <1>4, <2>1, Induction
<1>6. k + 1 + (n - (k + 1)) = n /\ n <= n
  BY <1>1
<1> QED BY <1>1, <1>5, <1>6 DEF J, o, part

(***************************************************************************)
(* The arguments of a call, and a result, in the words of the ABI.         *)
(***************************************************************************)

\* Padding keeps the data and adds zeros after it.
LEMMA Padding ==
  ASSUME NEW data \in Seq(Byte)
  PROVE  /\ padRight32(data) \in Seq(Byte)
         /\ Len(padRight32(data)) \in Nat /\ Len(padRight32(data)) >= Len(data)
         /\ \A i \in 1 .. Len(data) : padRight32(data)[i] = data[i]
<1> DEFINE n == Len(data)
           m == Word * ((n + Word - 1) \div Word)
           p == padRight32(data)
<1>1. n \in Nat /\ Word \in Nat /\ Word > 0 /\ 0 \in Byte /\ \A i \in 1 .. n : data[i] \in Byte
  BY CrossVmAssumption DEF Byte
<1>2. m \in Nat /\ m >= n
  <2>1. \A a, w \in Nat : w > 0 => w * ((a + w - 1) \div w) \in Nat
    OBVIOUS
  <2>2. \A a, w \in Nat : w > 0 => w * ((a + w - 1) \div w) >= a
    OBVIOUS
  <2> HIDE DEF n
  <2> QED BY <1>1, <2>1, <2>2
<1>3. p = [i \in 1 .. m |-> IF i <= n THEN data[i] ELSE 0]
  BY DEF padRight32
<1> HIDE DEF m, n, p
<1>4. p \in [1 .. m -> Byte]
  BY <1>1, <1>2, <1>3
<1>5. p \in Seq(Byte) /\ Len(p) = m
  BY <1>2, <1>4
<1>6. \A i \in 1 .. n : p[i] = data[i]
  BY <1>1, <1>2, <1>3
<1> QED BY <1>2, <1>5, <1>6 DEF n, p

\* An item with its length before it, and all of them.
Chunk(item) == u256be(Len(item)) \o padRight32(item)
Chunks(items) == [i \in DOMAIN items |-> Chunk(items[i])]

\* Where an item is, and the words that say so.
Offset(items, headWords, i) == (headWords + Len(items)) * Word + Len(Joined(Chunks(items), i - 1))
Heads(items, headWords) == [i \in DOMAIN items |-> u256be(Offset(items, headWords, i))]

\* encodeDynamicTuple in these terms.
LEMMA TupleShape ==
  ASSUME NEW items, NEW headWords
  PROVE  encodeDynamicTuple(items, headWords) =
           FlattenSeq(Heads(items, headWords)) \o FlattenSeq(Chunks(items))
BY Zenon DEF encodeDynamicTuple, Heads, Chunks, Chunk, Offset, Joined

\* A chunk is a word, the length, and then the data.
LEMMA ChunkProperties ==
  ASSUME NEW item \in Seq(Byte)
  PROVE  /\ Chunk(item) \in Seq(Byte) /\ Len(item) \in Nat
         /\ Len(Chunk(item)) = Word + Len(padRight32(item))
         /\ Len(padRight32(item)) \in Nat /\ Len(padRight32(item)) >= Len(item)
         /\ \A i \in 1 .. Word : Chunk(item)[i] = u256be(Len(item))[i]
         /\ \A i \in 1 .. Len(item) : Chunk(item)[Word + i] = item[i]
<1> DEFINE u == u256be(Len(item))
           p == padRight32(item)
           c == Chunk(item)
<1>1. Len(item) \in Nat /\ Word \in Nat
  BY CrossVmAssumption
<1>2. u \in Seq(Byte) /\ Len(u) = Word
  BY <1>1, WordType
<1>3. /\ p \in Seq(Byte) /\ Len(p) \in Nat /\ Len(p) >= Len(item)
      /\ \A i \in 1 .. Len(item) : p[i] = item[i]
  BY Padding
<1>4. c = u \o p
  BY DEF Chunk
<1> HIDE DEF u, p, c
<1>5. /\ c \in Seq(Byte) /\ Len(c) = Word + Len(p)
      /\ \A i \in 1 .. Word + Len(p) : c[i] = IF i <= Word THEN u[i] ELSE p[i - Word]
  BY <1>2, <1>3, <1>4, ConcatProperties
<1>6. \A i \in 1 .. Word : c[i] = u[i]
  BY <1>1, <1>3, <1>5
<1>7. ASSUME NEW i \in 1 .. Len(item) PROVE c[Word + i] = item[i]
  <2> DEFINE j == Word + i
  <2>1. j \in 1 .. Word + Len(p) /\ ~(j <= Word) /\ j - Word = i
    BY <1>1, <1>3
  <2> HIDE DEF j
  <2>2. c[j] = p[i]
    BY <1>5, <2>1
  <2> QED BY <1>3, <2>2 DEF j
<1> QED BY <1>1, <1>3, <1>5, <1>6, <1>7 DEF u, p, c

\* Words put one after the other.
LEMMA WordsJoined ==
  ASSUME NEW words \in Seq(Seq(Byte)), \A i \in 1 .. Len(words) : Len(words[i]) = Word
  PROVE  \A k \in 0 .. Len(words) : Len(Joined(words, k)) = k * Word
<1> DEFINE n == Len(words)
           P == {k \in Nat : k <= n => Len(Joined(words, k)) = k * Word}
<1>1. n \in Nat /\ Word \in Nat
  BY CrossVmAssumption
<1>2. /\ Joined(words, 0) = <<>>
      /\ \A k \in 0 .. n : Joined(words, k) \in Seq(Byte)
      /\ \A k \in 0 .. n - 1 : Joined(words, k + 1) = Joined(words, k) \o words[k + 1]
  BY JoinedParts, Zenon
<1>3. \A k \in 1 .. n : words[k] \in Seq(Byte) /\ Len(words[k]) = Word
  OBVIOUS
<1> HIDE DEF n
<1>4. 0 \in P
  BY <1>1, <1>2
<1>5. ASSUME NEW k \in Nat, k \in P PROVE k + 1 \in P
  <2>1. CASE k + 1 <= n
    <3>1. k \in 0 .. n - 1 /\ k \in 0 .. n /\ k + 1 \in 1 .. n /\ k <= n
      BY <1>1, <2>1
    <3>2. Len(Joined(words, k)) = k * Word
      BY <1>5, <3>1
    <3>3. Len(Joined(words, k) \o words[k + 1]) = k * Word + Word
      <4>1. Joined(words, k) \in Seq(Byte) /\ words[k + 1] \in Seq(Byte) /\ Len(words[k + 1]) = Word
        BY <1>1, <1>2, <1>3, <3>1
      <4>2. Len(Joined(words, k) \o words[k + 1]) = Len(Joined(words, k)) + Len(words[k + 1])
        BY <4>1, ConcatProperties, Zenon
      <4> QED BY <3>2, <4>1, <4>2
    <3>4. Len(Joined(words, k + 1)) = k * Word + Word
      BY <1>1, <1>2, <3>1, <3>3
    <3>5. k * Word + Word = (k + 1) * Word
      BY <1>1
    <3> QED BY <3>4, <3>5
  <2> QED BY <2>1
<1>6. \A k \in Nat : k \in P
  <2> HIDE DEF P
  <2> QED BY <1>4, <1>5, Induction
<1> QED BY <1>1, <1>2, <1>6 DEF n

\* The chunks are sequences of bytes.
LEMMA ChunksTypes ==
  ASSUME NEW items \in Seq(Seq(Byte))
  PROVE  /\ Chunks(items) \in Seq(Seq(Byte)) /\ Len(Chunks(items)) = Len(items)
         /\ \A i \in 1 .. Len(items) : Chunks(items)[i] = Chunk(items[i])
<1> DEFINE n == Len(items)
           c == Chunks(items)
<1>1. n \in Nat /\ DOMAIN items = 1 .. n
  OBVIOUS
<1>2. ASSUME NEW i \in 1 .. n PROVE Chunk(items[i]) \in Seq(Byte)
  <2>1. items[i] \in Seq(Byte)
    OBVIOUS
  <2> QED BY <2>1, ChunkProperties
<1>3. c = [i \in 1 .. n |-> Chunk(items[i])]
  BY <1>1 DEF Chunks
<1> HIDE DEF n, c
<1>4. c \in [1 .. n -> Seq(Byte)]
  BY <1>2, <1>3
<1>5. c \in Seq(Seq(Byte)) /\ Len(c) = n
  BY <1>1, <1>4
<1>6. \A i \in 1 .. n : c[i] = Chunk(items[i])
  BY <1>3
<1> QED BY <1>5, <1>6 DEF n, c

\* The words before them are, too.
LEMMA TupleTypes ==
  ASSUME NEW items \in Seq(Seq(Byte)), NEW headWords \in Nat
  PROVE  /\ \A i \in 1 .. Len(items) : Offset(items, headWords, i) \in Nat
         /\ Heads(items, headWords) \in Seq(Seq(Byte))
         /\ Len(Heads(items, headWords)) = Len(items)
         /\ \A i \in 1 .. Len(items) :
              /\ Heads(items, headWords)[i] = u256be(Offset(items, headWords, i))
              /\ Len(Heads(items, headWords)[i]) = Word
<1> DEFINE n == Len(items)
           c == Chunks(items)
           h == Heads(items, headWords)
<1>1. n \in Nat /\ DOMAIN items = 1 .. n /\ Word \in Nat
  BY CrossVmAssumption
<1>2. c \in Seq(Seq(Byte)) /\ Len(c) = n
  BY ChunksTypes
<1> HIDE DEF n, c
<1>3. ASSUME NEW i \in 1 .. n PROVE Offset(items, headWords, i) \in Nat
  <2>1. i - 1 \in 0 .. Len(c)
    BY <1>1, <1>2
  <2>2. Joined(c, i - 1) \in Seq(Byte)
    BY <1>2, <2>1, JoinedParts
  <2>3. Len(Joined(c, i - 1)) \in Nat
    BY <2>2
  <2>4. (headWords + n) * Word \in Nat
    BY <1>1
  <2> QED BY <2>3, <2>4 DEF Offset, c, n
<1>4. h = [i \in 1 .. n |-> u256be(Offset(items, headWords, i))]
  BY <1>1 DEF Heads
<1> HIDE DEF h
<1>5. ASSUME NEW i \in 1 .. n
      PROVE  h[i] = u256be(Offset(items, headWords, i)) /\ h[i] \in Seq(Byte) /\ Len(h[i]) = Word
  BY <1>3, <1>4, WordType
<1>6. h \in [1 .. n -> Seq(Byte)]
  BY <1>4, <1>5
<1>7. h \in Seq(Seq(Byte)) /\ Len(h) = n
  BY <1>1, <1>6
<1> QED BY <1>3, <1>5, <1>7 DEF n, c, h

\* The bytes of a tuple behind its static words: the words with the offsets,
\* and at each offset the chunk of the item.
LEMMA TupleBytes ==
  ASSUME NEW items \in Seq(Seq(Byte)), NEW headWords \in Nat,
         NEW prefix \in Seq(Byte), Len(prefix) = headWords * Word,
         NEW k \in 0 .. Len(items) - 1
  PROVE  LET b == prefix \o encodeDynamicTuple(items, headWords)
             o == Offset(items, headWords, k + 1)
         IN  /\ b \in Seq(Byte) /\ o \in Nat /\ encodeDynamicTuple(items, headWords) \in Seq(Byte)
             /\ Len(b) = (headWords + Len(items)) * Word + Len(Joined(Chunks(items), Len(items)))
             /\ o + Len(Chunk(items[k + 1])) <= Len(b)
             /\ \A i \in 1 .. Word : b[(headWords + k) * Word + i] = u256be(o)[i]
             /\ \A i \in 1 .. Len(Chunk(items[k + 1])) : b[o + i] = Chunk(items[k + 1])[i]
<1> DEFINE n == Len(items)
           c == Chunks(items)
           h == Heads(items, headWords)
           fc == FlattenSeq(c)
           fh == FlattenSeq(h)
           o == Offset(items, headWords, k + 1)
           e == encodeDynamicTuple(items, headWords)
           b == prefix \o e
           chunk == Chunk(items[k + 1])
           ck == Len(Joined(c, k))
<1>1. n \in Nat /\ Word \in Nat /\ Word > 0 /\ k \in Nat /\ k + 1 \in 1 .. n /\ k + 1 - 1 = k
  BY CrossVmAssumption
<1>2. /\ c \in Seq(Seq(Byte)) /\ Len(c) = n /\ c[k + 1] = chunk /\ o \in Nat
      /\ h \in Seq(Seq(Byte)) /\ Len(h) = n /\ h[k + 1] = u256be(o) /\ Len(h[k + 1]) = Word
      /\ \A i \in 1 .. n : Len(h[i]) = Word
  BY <1>1, ChunksTypes, TupleTypes
<1>3. fc = Joined(c, n) /\ fc \in Seq(Byte) /\ fh = Joined(h, n) /\ fh \in Seq(Byte)
      /\ Joined(c, k) \in Seq(Byte)
  <2>1. n \in 0 .. n /\ k \in 0 .. n
    BY <1>1
  <2> HIDE DEF c, h, n
  <2> QED BY <1>2, <2>1, JoinedParts
<1>4. Len(fh) = n * Word /\ Len(Joined(h, k)) = k * Word
  <2>1. n \in 0 .. n /\ k \in 0 .. n
    BY <1>1
  <2>2. \A j \in 0 .. n : Len(Joined(h, j)) = j * Word
    <3> HIDE DEF h, n
    <3> QED BY <1>2, WordsJoined
  <2> QED BY <1>3, <2>1, <2>2
<1>5. /\ Len(Joined(c, k)) + Len(c[k + 1]) <= Len(fc)
      /\ \A i \in 1 .. Len(c[k + 1]) : fc[Len(Joined(c, k)) + i] = c[k + 1][i]
  <2>1. k \in 0 .. Len(c) - 1
    BY <1>1, <1>2
  <2> HIDE DEF c
  <2> QED BY <1>2, <2>1, PartsInPlace
<1>6. \A i \in 1 .. Len(h[k + 1]) : fh[Len(Joined(h, k)) + i] = h[k + 1][i]
  <2>1. k \in 0 .. Len(h) - 1
    BY <1>1, <1>2
  <2> HIDE DEF h
  <2> QED BY <1>2, <2>1, PartsInPlace
<1>7. e = fh \o fc
  BY TupleShape
<1>8. o = (headWords + n) * Word + ck
  BY <1>1 DEF Offset
<1> HIDE DEF n, c, h, fc, fh, o, e, b, chunk, ck
<1>9. Len(chunk) \in Nat /\ Len(fc) \in Nat /\ Len(fh) \in Nat /\ ck \in Nat
  <2>1. items[k + 1] \in Seq(Byte)
    BY <1>1 DEF n
  <2>2. chunk \in Seq(Byte)
    BY <2>1, ChunkProperties DEF chunk
  <2> QED BY <1>3, <2>2, LenProperties DEF ck
<1>10. ck + Len(chunk) <= Len(fc) /\ \A i \in 1 .. Len(chunk) : fc[ck + i] = chunk[i]
  BY <1>2, <1>5 DEF ck
<1>11. \A i \in 1 .. Word : fh[k * Word + i] = u256be(o)[i]
  BY <1>2, <1>4, <1>6
<1>12. /\ e \in Seq(Byte) /\ Len(e) = n * Word + Len(fc)
       /\ \A i \in 1 .. n * Word + Len(fc) : e[i] = IF i <= n * Word THEN fh[i] ELSE fc[i - n * Word]
  <2>1. /\ fh \o fc \in Seq(Byte) /\ Len(fh \o fc) = Len(fh) + Len(fc)
        /\ \A i \in 1 .. Len(fh) + Len(fc) : (fh \o fc)[i] = IF i <= Len(fh) THEN fh[i] ELSE fc[i - Len(fh)]
    BY <1>3, ConcatProperties, Zenon
  <2> QED BY <1>4, <1>7, <2>1, Zenon
<1> DEFINE p == headWords * Word
           q == n * Word
           r == k * Word
<1>13. /\ p \in Nat /\ q \in Nat /\ r \in Nat /\ r + Word <= q
       /\ (headWords + n) * Word = p + q /\ (headWords + k) * Word = p + r
  <2>1. \A x, y, w \in Nat : (x + y) * w = x * w + y * w
    OBVIOUS
  <2>2. \A x, y, w \in Nat : x + 1 <= y => x * w + w <= y * w
    <3> SUFFICES ASSUME NEW x \in Nat, NEW y \in Nat, NEW w \in Nat, x + 1 <= y
                 PROVE  x * w + w <= y * w
      OBVIOUS
    <3>1. y - (x + 1) \in Nat
      OBVIOUS
    <3>2. (y - (x + 1)) * w >= 0
      BY <3>1
    <3> QED BY <3>2
  <2>3. k + 1 <= n
    BY <1>1
  <2> QED BY <1>1, <2>1, <2>2, <2>3
<1>14. /\ b \in Seq(Byte) /\ Len(b) = p + Len(e)
       /\ \A i \in 1 .. p + Len(e) : b[i] = IF i <= p THEN prefix[i] ELSE e[i - p]
  <2>1. /\ prefix \o e \in Seq(Byte) /\ Len(prefix \o e) = Len(prefix) + Len(e)
        /\ \A i \in 1 .. Len(prefix) + Len(e) :
             (prefix \o e)[i] = IF i <= Len(prefix) THEN prefix[i] ELSE e[i - Len(prefix)]
    BY <1>12, ConcatProperties, Zenon
  <2> QED BY <2>1, Zenon DEF b
<1> HIDE DEF p, q, r
<1>15. /\ o = p + q + ck /\ Len(e) = q + Len(fc)
       /\ \A i \in 1 .. q + Len(fc) : e[i] = IF i <= q THEN fh[i] ELSE fc[i - q]
       /\ \A i \in 1 .. Word : fh[r + i] = u256be(o)[i]
  BY <1>8, <1>11, <1>12, <1>13 DEF q, r
<1>16. /\ p \in Nat /\ q \in Nat /\ r \in Nat /\ r + Word <= q /\ Len(fc) \in Nat
       /\ Len(e) = q + Len(fc) /\ Word \in Nat
  BY <1>1, <1>9, <1>13, <1>15
<1>17. ASSUME NEW i \in 1 .. Word PROVE b[p + r + i] = u256be(o)[i]
  <2> DEFINE j == p + r + i
             l == r + i
  <2>1. j \in 1 .. p + Len(e) /\ ~(j <= p) /\ j - p = l /\ l \in 1 .. q + Len(fc) /\ l <= q
    BY <1>16
  <2>2. fh[l] = u256be(o)[i]
    BY <1>15
  <2> HIDE DEF j, l
  <2>3. b[j] = e[l] /\ e[l] = fh[l]
    BY <1>14, <1>15, <2>1
  <2> QED BY <2>2, <2>3 DEF j
<1>18. ASSUME NEW i \in 1 .. Len(chunk) PROVE b[o + i] = chunk[i]
  <2> DEFINE j == o + i
             l == q + ck + i
             m == ck + i
  <2>1. /\ j \in 1 .. p + Len(e) /\ ~(j <= p) /\ j - p = l /\ l \in 1 .. q + Len(fc) /\ ~(l <= q)
        /\ l - q = m
    BY <1>1, <1>9, <1>10, <1>13, <1>15
  <2>2. fc[m] = chunk[i]
    BY <1>10
  <2> HIDE DEF j, l, m
  <2>3. b[j] = e[l] /\ e[l] = fc[m]
    BY <1>14, <1>15, <2>1
  <2> QED BY <2>2, <2>3 DEF j
<1>19. Len(b) = (headWords + n) * Word + Len(Joined(c, n)) /\ o + Len(chunk) <= Len(b)
  <2>1. Len(b) = p + q + Len(fc) /\ o + Len(chunk) <= Len(b)
    BY <1>9, <1>10, <1>14, <1>15, <1>16
  <2> QED BY <1>3, <1>13, <2>1
<1>20. \A i \in 1 .. Word : b[(headWords + k) * Word + i] = u256be(o)[i]
  BY <1>13, <1>17
<1> QED BY <1>2, <1>12, <1>14, <1>18, <1>19, <1>20 DEF n, c, o, b, e, chunk

\* Its type and its length.
LEMMA TupleLength ==
  ASSUME NEW items \in Seq(Seq(Byte)), NEW headWords \in Nat, Len(items) > 0,
         NEW prefix \in Seq(Byte), Len(prefix) = headWords * Word
  PROVE  /\ encodeDynamicTuple(items, headWords) \in Seq(Byte)
         /\ Len(prefix \o encodeDynamicTuple(items, headWords))
              = (headWords + Len(items)) * Word + Len(Joined(Chunks(items), Len(items)))
<1>1. 0 \in 0 .. Len(items) - 1
  OBVIOUS
<1> QED BY <1>1, TupleBytes

\* An item of a tuple is read back, where lengths and offsets fit their words.
LEMMA TupleRead ==
  ASSUME NEW items \in Seq(Seq(Byte)), NEW headWords \in Nat,
         NEW prefix \in Seq(Byte), Len(prefix) = headWords * Word,
         NEW k \in 0 .. Len(items) - 1,
         Fits(Len(prefix \o encodeDynamicTuple(items, headWords)))
  PROVE  LET b == prefix \o encodeDynamicTuple(items, headWords)
         IN  Slice(b, readWord(b, (headWords + k) * Word)) = [error |-> FALSE, data |-> items[k + 1]]
<1> DEFINE b == prefix \o encodeDynamicTuple(items, headWords)
           o == Offset(items, headWords, k + 1)
           item == items[k + 1]
           chunk == Chunk(item)
           len == Len(item)
           pos == (headWords + k) * Word
<1>1. /\ b \in Seq(Byte) /\ o \in Nat /\ o + Len(chunk) <= Len(b)
      /\ \A i \in 1 .. Word : b[pos + i] = u256be(o)[i]
      /\ \A i \in 1 .. Len(chunk) : b[o + i] = chunk[i]
  BY TupleBytes
<1>2. item \in Seq(Byte) /\ Word \in Nat /\ Word > 0 /\ pos \in Nat
  BY CrossVmAssumption
<1>3. /\ len \in Nat /\ Len(chunk) = Word + Len(padRight32(item))
      /\ Len(padRight32(item)) \in Nat /\ Len(padRight32(item)) >= len
      /\ \A i \in 1 .. Word : chunk[i] = u256be(len)[i]
      /\ \A i \in 1 .. len : chunk[Word + i] = item[i]
  BY <1>2, ChunkProperties
<1>4. Fits(Len(b))
  OBVIOUS
<1> HIDE DEF b, o, item, chunk, len, pos
<1>5. /\ Len(b) \in Nat /\ o + Word + len <= Len(b) /\ o + Word <= Len(b)
      /\ o \in 0 .. Len(b) /\ len \in 0 .. Len(b)
  <2> DEFINE size == Len(b)
             padded == Len(padRight32(item))
  <2>1. size \in Nat
    BY <1>1, LenProperties
  <2>2. o \in Nat /\ o + (Word + padded) <= size /\ padded \in Nat /\ len \in Nat
        /\ padded >= len /\ Word \in Nat
    BY <1>1, <1>2, <1>3
  <2> HIDE DEF size, padded
  <2>3. /\ o + Word + len <= size /\ o + Word <= size
        /\ o \in 0 .. size /\ len \in 0 .. size
    BY <2>1, <2>2
  <2> QED BY <2>1, <2>3 DEF size
<1>6. Fits(o) /\ Fits(len)
  BY <1>4, <1>5, SmallerFits
<1>7. readWord(b, pos) = o
  BY <1>1, <1>2, <1>6, WordRead
<1>8. readWord(b, o) = len
  <2>1. ASSUME NEW i \in 1 .. Word PROVE b[o + i] = u256be(len)[i]
    <3>1. i \in 1 .. Len(chunk)
      BY <1>2, <1>3
    <3> QED BY <1>1, <1>3, <3>1
  <2> QED BY <1>1, <1>3, <1>6, <2>1, WordRead
<1>9. SubSeq(b, o + Word + 1, o + Word + len) = item
  <2> DEFINE m == o + Word
             s == SubSeq(b, m + 1, m + len)
  <2>1. m \in Nat /\ m + len <= Len(b)
    BY <1>1, <1>2, <1>5
  <2>2. ASSUME NEW i \in 1 .. len PROVE b[m + i] = item[i]
    <3> DEFINE j == Word + i
    <3>1. j \in 1 .. Len(chunk) /\ o + j = m + i
      BY <1>1, <1>2, <1>3
    <3>2. chunk[j] = item[i]
      BY <1>3
    <3> HIDE DEF j
    <3>3. b[o + j] = chunk[j]
      BY <1>1, <3>1
    <3> QED BY <3>1, <3>2, <3>3
  <2> HIDE DEF m
  <2>3. /\ s \in Seq(Byte) /\ Len(s) = len
        /\ \A i \in 1 .. len : s[i] = b[m + i]
    <3> DEFINE lo == m + 1
               hi == m + len
    <3>1. /\ lo \in Int /\ hi \in Int /\ (lo <= hi <=> 1 <= len) /\ hi - lo + 1 = len
          /\ \A i \in lo .. hi : i \in 1 .. Len(b)
      BY <1>3, <1>5, <2>1
    <3>2. \A i \in lo .. hi : b[i] \in Byte
      BY <1>1, <3>1, ElementOfSeq
    <3>3. s = SubSeq(b, lo, hi)
      OBVIOUS
    <3> HIDE DEF s, lo, hi
    <3>4. /\ s \in Seq(Byte) /\ Len(s) = IF lo <= hi THEN hi - lo + 1 ELSE 0
          /\ \A i \in 1 .. hi - lo + 1 : s[i] = b[lo + i - 1]
      <4>1. lo \in Int /\ hi \in Int
        BY <3>1
      <4>2. /\ SubSeq(b, lo, hi) \in Seq(Byte)
            /\ Len(SubSeq(b, lo, hi)) = IF lo <= hi THEN hi - lo + 1 ELSE 0
            /\ \A i \in 1 .. hi - lo + 1 : SubSeq(b, lo, hi)[i] = b[lo + i - 1]
        BY <3>2, <4>1, SubSeqProperties
      <4> QED BY <3>3, <4>2
    <3>5. Len(s) = len
      BY <1>3, <3>1, <3>4
    <3>6. ASSUME NEW i \in 1 .. len PROVE s[i] = b[m + i]
      <4>1. lo + i - 1 = m + i
        BY <2>1 DEF lo
      <4> QED BY <3>1, <3>4, <4>1
    <3> QED BY <3>4, <3>5, <3>6
  <2> HIDE DEF s
  <2>4. s = item
    <3>1. Len(s) = Len(item) /\ \A i \in 1 .. Len(s) : s[i] = item[i]
      BY <2>2, <2>3 DEF len
    <3> QED BY <1>2, <2>3, <3>1, SeqEqual
  <2> QED BY <2>4 DEF s, m
<1>10. Slice(b, o) = [error |-> FALSE, data |-> item]
  <2>1. ~(o + Word > Len(b)) /\ ~(o + Word + readWord(b, o) > Len(b))
    <3> DEFINE size == Len(b)
    <3>1. /\ size \in Nat /\ o \in Nat /\ Word \in Nat /\ len \in Nat
          /\ o + Word + len <= size /\ o + Word <= size
      BY <1>1, <1>2, <1>3, <1>5, Zenon
    <3> HIDE DEF size
    <3>2. ~(o + Word > size) /\ ~(o + Word + len > size)
      BY <3>1
    <3> QED BY <1>8, <3>2, Zenon DEF size
  <2> QED BY <1>8, <1>9, <2>1 DEF Slice
<1> QED BY <1>7, <1>10 DEF b, pos, item

\* The size of a tuple of one item, and of two behind a static word.
LEMMA TupleSizes ==
  ASSUME NEW x \in Seq(Byte), NEW y \in Seq(Byte), NEW prefix \in Seq(Byte), Len(prefix) = 1 * Word
  PROVE  /\ Len(<<>> \o encodeDynamicTuple(<<x>>, 0)) = 2 * Word + Len(padRight32(x))
         /\ Len(prefix \o encodeDynamicTuple(<<x, y>>, 1))
              = 5 * Word + Len(padRight32(x)) + Len(padRight32(y))
<1>1. /\ Len(Chunk(x)) = Word + Len(padRight32(x)) /\ Chunk(x) \in Seq(Byte)
      /\ Len(Chunk(y)) = Word + Len(padRight32(y)) /\ Chunk(y) \in Seq(Byte)
      /\ Len(padRight32(x)) \in Nat /\ Len(padRight32(y)) \in Nat /\ Word \in Nat
  BY ChunkProperties, CrossVmAssumption
<1> DEFINE one == <<x>>
           two == <<x, y>>
           c == Chunks(one)
           d == Chunks(two)
<1>2. /\ one \in Seq(Seq(Byte)) /\ Len(one) = 1 /\ one[1] = x
      /\ two \in Seq(Seq(Byte)) /\ Len(two) = 2 /\ two[1] = x /\ two[2] = y
      /\ <<>> \in Seq(Byte) /\ Len(<<>>) = 0 /\ 0 * Word = 0
  BY <1>1
<1> HIDE DEF one, two, c, d
<1>3. c \in Seq(Seq(Byte)) /\ Len(c) = 1 /\ c[1] = Chunk(x)
  <2>1. 1 \in 1 .. Len(one)
    BY <1>2
  <2> QED BY <1>2, <2>1, ChunksTypes, Zenon DEF c
<1>4. d \in Seq(Seq(Byte)) /\ Len(d) = 2 /\ d[1] = Chunk(x) /\ d[2] = Chunk(y)
  <2>1. 1 \in 1 .. Len(two) /\ 2 \in 1 .. Len(two)
    BY <1>2
  <2> QED BY <1>2, <2>1, ChunksTypes, Zenon DEF d
<1>5. Len(Joined(c, 1)) = Word + Len(padRight32(x))
  <2>1. Joined(c, 0) = <<>> /\ Joined(c, 0 + 1) = Joined(c, 0) \o c[0 + 1]
    <3>1. 0 \in 0 .. Len(c) - 1
      BY <1>3
    <3> QED BY <1>3, <3>1, JoinedParts
  <2>2. Joined(c, 1) = <<>> \o Chunk(x)
    <3>1. 0 + 1 = 1
      OBVIOUS
    <3> QED BY <1>3, <2>1, <3>1, Zenon
  <2>3. <<>> \o Chunk(x) = Chunk(x)
    BY <1>1, ConcatEmptySeq
  <2> QED BY <1>1, <2>2, <2>3
<1>6. Len(Joined(d, 2)) = (Word + Len(padRight32(x))) + (Word + Len(padRight32(y)))
  <2>1. /\ Joined(d, 0) = <<>> /\ Joined(d, 0 + 1) = Joined(d, 0) \o d[0 + 1]
        /\ Joined(d, 1 + 1) = Joined(d, 1) \o d[1 + 1]
    <3>1. 0 \in 0 .. Len(d) - 1 /\ 1 \in 0 .. Len(d) - 1
      BY <1>4
    <3> QED BY <1>4, <3>1, JoinedParts
  <2>2. Joined(d, 1) = <<>> \o Chunk(x) /\ Joined(d, 2) = Joined(d, 1) \o Chunk(y)
    <3>1. 0 + 1 = 1 /\ 1 + 1 = 2
      OBVIOUS
    <3> QED BY <1>4, <2>1, <3>1, Zenon
  <2>3. <<>> \o Chunk(x) = Chunk(x)
    BY <1>1, ConcatEmptySeq
  <2>4. Len(Chunk(x) \o Chunk(y)) = Len(Chunk(x)) + Len(Chunk(y))
    BY <1>1, ConcatProperties, Zenon
  <2> QED BY <1>1, <2>2, <2>3, <2>4
<1>7. Len(<<>> \o encodeDynamicTuple(one, 0)) = (0 + 1) * Word + Len(Joined(c, 1))
  <2>1. Len(one) > 0 /\ Len(<<>>) = 0 * Word /\ 0 \in Nat
    BY <1>2
  <2>2. Len(<<>> \o encodeDynamicTuple(one, 0)) = (0 + Len(one)) * Word + Len(Joined(Chunks(one), Len(one)))
    BY <1>2, <2>1, TupleLength, Zenon
  <2> QED BY <1>2, <2>2, Zenon DEF c
<1>8. Len(prefix \o encodeDynamicTuple(two, 1)) = (1 + 2) * Word + Len(Joined(d, 2))
  <2>1. Len(two) > 0 /\ 1 \in Nat
    BY <1>2
  <2>2. Len(prefix \o encodeDynamicTuple(two, 1)) = (1 + Len(two)) * Word + Len(Joined(Chunks(two), Len(two)))
    BY <1>2, <2>1, TupleLength, Zenon
  <2> QED BY <1>2, <2>2, Zenon DEF d
<1>9. Len(<<>> \o encodeDynamicTuple(one, 0)) = 2 * Word + Len(padRight32(x))
  BY <1>1, <1>5, <1>7
<1>10. Len(prefix \o encodeDynamicTuple(two, 1)) = 5 * Word + Len(padRight32(x)) + Len(padRight32(y))
  <2>1. \A w, u, v \in Nat : (1 + 2) * w + ((w + u) + (w + v)) = 5 * w + u + v
    OBVIOUS
  <2> DEFINE u == Len(padRight32(x))
             v == Len(padRight32(y))
             l == Len(prefix \o encodeDynamicTuple(two, 1))
  <2>2. l = (1 + 2) * Word + ((Word + u) + (Word + v))
    BY <1>6, <1>8
  <2>3. u \in Nat /\ v \in Nat /\ Word \in Nat
    BY <1>1
  <2> HIDE DEF u, v, l
  <2>4. l = 5 * Word + u + v
    BY <2>1, <2>2, <2>3
  <2> QED BY <2>4 DEF u, v, l
<1> QED BY <1>9, <1>10 DEF one, two

\* An answer is found in the tuple the precompile makes of it.
LEMMA AnswerRead ==
  ASSUME NEW reply \in Payloads, NEW c \in Contracts
  PROVE  LET e == encodeDynamicTuple(<<reply>>, 0) IN
         /\ e \in Seq(Byte) /\ ~(Len(e) < 2 * Word)
         /\ Slice(e, readWord(e, 0)) = [error |-> FALSE, data |-> reply]
<1> DEFINE items == <<reply>>
           e == encodeDynamicTuple(items, 0)
           b == <<>> \o e
<1>1. /\ reply \in Seq(Byte) /\ c \in Seq(Byte) /\ Word \in Nat /\ Word > 0
      /\ Fits(5 * Word + Len(padRight32(c)) + Len(padRight32(reply)))
  BY SizeAssumption, CrossVmAssumption
<1>2. Len(padRight32(c)) \in Nat /\ Len(padRight32(reply)) \in Nat
  BY <1>1, Padding
<1>3. /\ items \in Seq(Seq(Byte)) /\ Len(items) = 1 /\ items[0 + 1] = reply
      /\ 0 \in Nat /\ 0 \in 0 .. Len(items) - 1 /\ Len(items) > 0
      /\ <<>> \in Seq(Byte) /\ Len(<<>>) = 0 * Word /\ (0 + 0) * Word = 0
  BY <1>1
<1>4. Len(b) = 2 * Word + Len(padRight32(reply))
  <2>1. u256be(0) \in Seq(Byte) /\ Len(u256be(0)) = 1 * Word
    BY <1>1, WordType
  <2> QED BY <1>1, <2>1, TupleSizes, Zenon
<1> HIDE DEF items
<1>5. e \in Seq(Byte) /\ b = e
  <2>1. e \in Seq(Byte)
    BY <1>3, TupleLength, Zenon
  <2> HIDE DEF e
  <2> QED BY <2>1, ConcatEmptySeq DEF b
<1>6. Fits(Len(b))
  <2> DEFINE n == 5 * Word + Len(padRight32(c)) + Len(padRight32(reply))
             m == 2 * Word + Len(padRight32(reply))
  <2>1. n \in Nat /\ m \in 0 .. n
    BY <1>1, <1>2
  <2> HIDE DEF n, m
  <2>2. Fits(m)
    BY <1>1, <2>1, SmallerFits DEF n
  <2> QED BY <1>4, <2>2 DEF m
<1>7. Slice(b, readWord(b, (0 + 0) * Word)) = [error |-> FALSE, data |-> items[0 + 1]]
  BY <1>3, <1>6, TupleRead, Zenon
<1>8. Slice(b, readWord(b, 0)) = [error |-> FALSE, data |-> reply]
  BY <1>3, <1>7, Zenon
<1>9. ~(Len(b) < 2 * Word)
  BY <1>1, <1>2, <1>4
<1>10. /\ e \in Seq(Byte) /\ ~(Len(e) < 2 * Word)
       /\ Slice(e, readWord(e, 0)) = [error |-> FALSE, data |-> reply]
  <2> HIDE DEF e, b
  <2> QED BY <1>5, <1>8, <1>9
<1> QED BY <1>10 DEF items

\* A reply is read back from the result.
LEMMA ResultRead ==
  ASSUME NEW reply \in Payloads, NEW c \in Contracts
  PROVE  decodeCrossVmResult(encodeDynamicTuple(<<reply>>, 0)) = [error |-> FALSE, data |-> reply]
<1> DEFINE e == encodeDynamicTuple(<<reply>>, 0)
<1>1. ~(Len(e) < 2 * Word) /\ Slice(e, readWord(e, 0)) = [error |-> FALSE, data |-> reply]
  BY AnswerRead
<1> HIDE DEF e
<1>2. decodeCrossVmResult(e) = [error |-> FALSE, data |-> reply]
  BY <1>1 DEF decodeCrossVmResult
<1> QED BY <1>2 DEF e

\* The reason of a failure is read back from the revert.
LEMMA ReasonRead ==
  ASSUME NEW reason \in Payloads, NEW c \in Contracts
  PROVE  decodeRevertReason(<<ErrorSelector>> \o encodeDynamicTuple(<<reason>>, 0))
           = [error |-> FALSE, data |-> reason]
<1> DEFINE e == encodeDynamicTuple(<<reason>>, 0)
           b == <<ErrorSelector>> \o e
<1>1. /\ e \in Seq(Byte) /\ ~(Len(e) < 2 * Word)
      /\ Slice(e, readWord(e, 0)) = [error |-> FALSE, data |-> reason]
  BY AnswerRead
<1> HIDE DEF e
<1>2. ErrorSelector \in Byte /\ Word \in Nat
  BY CrossVmAssumption DEF ErrorSelector, Byte
<1>3. Len(b) = 1 + Len(e) /\ b[1] = ErrorSelector /\ Tail(b) = e
  BY <1>1, <1>2
<1>4. ~(Len(b) < 1 + 2 * Word)
  BY <1>1, <1>2, <1>3
<1> HIDE DEF b
<1>5. decodeRevertReason(b) = [error |-> FALSE, data |-> reason]
  BY <1>1, <1>3, <1>4 DEF decodeRevertReason
<1> QED BY <1>5 DEF b, e

\* The chain reads from the calldata the call that was asked for.
LEMMA TargetRead ==
  ASSUME NEW c \in Calls, Supported(c.targetVm)
  PROVE  Target(encodeCrossVmCalldata(c))
           = [targetVm |-> c.targetVm, contract |-> c.contract, msg |-> c.msg]
<1> DEFINE items == <<c.contract, c.msg>>
           u == u256be(c.targetVm)
           e == encodeDynamicTuple(items, 1)
           b == u \o e
           size == 5 * Word + Len(padRight32(c.contract)) + Len(padRight32(c.msg))
<1>1. /\ c.contract \in Seq(Byte) /\ c.msg \in Seq(Byte) /\ Word \in Nat /\ Word > 1
      /\ Fits(size) /\ c.targetVm \in {0, 1} /\ CallSelector \in Byte
  BY SizeAssumption, CrossVmAssumption DEF Calls, Supported, EVM, NATIVE, CallSelector, Byte
<1>2. /\ Len(padRight32(c.contract)) \in Nat /\ Len(padRight32(c.msg)) \in Nat
  BY <1>1, Padding
<1>3. size \in Nat /\ c.targetVm \in Nat /\ c.targetVm \in 0 .. size
  BY <1>1, <1>2
<1>4. u \in Seq(Byte) /\ Len(u) = 1 * Word
  BY <1>1, <1>3, WordType
<1>5. /\ items \in Seq(Seq(Byte)) /\ Len(items) = 2 /\ items[0 + 1] = c.contract /\ items[1 + 1] = c.msg
      /\ 0 \in 0 .. Len(items) - 1 /\ 1 \in 0 .. Len(items) - 1 /\ Len(items) > 0 /\ 1 \in Nat
      /\ (1 + 0) * Word = Word /\ (1 + 1) * Word = 2 * Word
  BY <1>1
<1>6. Len(b) = size
  <2> HIDE DEF u
  <2> QED BY <1>1, <1>4, TupleSizes, Zenon
<1> HIDE DEF items, u, size
<1>7. e \in Seq(Byte)
  BY <1>4, <1>5, TupleLength, Zenon
<1>8. Slice(b, readWord(b, Word)) = [error |-> FALSE, data |-> c.contract]
  <2>1. Slice(b, readWord(b, (1 + 0) * Word)) = [error |-> FALSE, data |-> items[0 + 1]]
    BY <1>1, <1>4, <1>5, <1>6, TupleRead, Zenon
  <2> QED BY <1>5, <2>1, Zenon
<1>9. Slice(b, readWord(b, 2 * Word)) = [error |-> FALSE, data |-> c.msg]
  <2>1. Slice(b, readWord(b, (1 + 1) * Word)) = [error |-> FALSE, data |-> items[1 + 1]]
    BY <1>1, <1>4, <1>5, <1>6, TupleRead, Zenon
  <2> QED BY <1>5, <2>1, Zenon
<1> HIDE DEF e
<1>10. readWord(b, 0) = c.targetVm
  <2>1. Fits(c.targetVm)
    BY <1>1, <1>3, SmallerFits
  <2>2. ASSUME NEW i \in 1 .. Word PROVE b[0 + i] = u[i]
    BY <1>1, <1>4, <1>7
  <2> QED BY <1>3, <2>1, <2>2, WordRead DEF u
<1>11. Tail(encodeCrossVmCalldata(c)) = b
  <2> DEFINE t == <<CallSelector>>
  <2>1. t \in Seq(Byte)
    BY <1>1
  <2>2. encodeCrossVmCalldata(c) = (t \o u) \o e
    BY DEF encodeCrossVmCalldata, e, u, items
  <2>3. (t \o u) \o e = t \o b
    <3> HIDE DEF t
    <3>1. \A x, y, z \in Seq(Byte) : (x \o y) \o z = x \o (y \o z)
      BY ConcatAssociative
    <3> QED BY <1>4, <1>7, <2>1, <3>1, Zenon
  <2>4. b \in Seq(Byte)
    BY <1>4, <1>7
  <2> HIDE DEF b
  <2>5. Tail(t \o b) = b
    BY <1>1, <2>4
  <2> QED BY <2>2, <2>3, <2>5
<1> HIDE DEF b
<1>12. Slice(b, readWord(b, Word)).data = c.contract /\ Slice(b, readWord(b, 2 * Word)).data = c.msg
  BY <1>8, <1>9
<1> QED BY <1>10, <1>11, <1>12, Zenon DEF Target

(***************************************************************************)
(* The calls.                                                              *)
(***************************************************************************)

\* What the client sees of the precompile when its contract is reached, or not.
LEMMA Executed ==
  ASSUME CrossVmInv, NEW answer \in Payloads, NEW ok \in BOOLEAN, Execute(answer, ok)
  PROVE  CrossVmInv'
<1> DEFINE small == Len(call.msg) <= MaxMessageSize
<1>1. /\ xPc = "sent" /\ xPc' = "returned"
      /\ UNCHANGED <<active, enabled, allowed, abi, changes, call, ready, calldata, outcome, settled>>
  BY DEF Execute, gateVars
<1>2. call \in Calls /\ Supported(call.targetVm) /\ calldata = encodeCrossVmCalldata(call)
      /\ outcome.kind = "none" /\ (settled => active /\ enabled /\ call.contract \in allowed)
  BY <1>1 DEF CrossVmInv, CheckInv
<1>3. Target(calldata) = [targetVm |-> call.targetVm, contract |-> call.contract, msg |-> call.msg]
  BY <1>2, TargetRead
<1>4. \/ ~active /\ ret' = [success |-> TRUE, data |-> <<>>]
      \/ /\ active /\ (call.targetVm # NATIVE \/ ~enabled \/ call.contract \notin allowed \/ ~small)
         /\ ret' = Reverted(answer)
      \/ /\ ret' = IF ok THEN Returned(answer) ELSE Reverted(answer)
         /\ ran' = <<[contract |-> call.contract, msg |-> call.msg, ok |-> ok, answer |-> answer]>>
  BY <1>1, <1>3 DEF Execute
<1>5. ReturnInv'
  <2>1. CASE ~active /\ ret' = [success |-> TRUE, data |-> <<>>]
    BY <1>1, <1>2, <2>1 DEF ReturnInv
  <2>2. CASE /\ call.targetVm # NATIVE \/ ~enabled \/ call.contract \notin allowed \/ ~small
             /\ ret' = Reverted(answer)
    <3>1. ~ret'.success
      BY <2>2 DEF Reverted
    <3> QED BY <1>1, <1>2, <2>2, <3>1 DEF ReturnInv
  <2>3. CASE /\ ret' = IF ok THEN Returned(answer) ELSE Reverted(answer)
             /\ ran' = <<[contract |-> call.contract, msg |-> call.msg, ok |-> ok, answer |-> answer]>>
    <3>1. Reached(ok, answer)'
      BY <1>1, <2>3 DEF Reached
    <3>2. CASE ok
      BY <1>1, <2>3, <3>1, <3>2, Zenon DEF ReturnInv
    <3>3. CASE ~ok
      <4>1. ok = FALSE
        BY <3>3
      <4> QED BY <1>1, <2>3, <3>1, <4>1, Zenon DEF ReturnInv
    <3> QED BY <3>2, <3>3
  <2> QED BY <1>4, <2>1, <2>2, <2>3
<1> QED BY <1>1, <1>2, <1>5 DEF CrossVmInv, CheckInv, ReplyMeansCalled, ReadyCallsReach

\* What the client makes of what came back.
LEMMA ReturnRead ==
  ASSUME CrossVmInv, ReadReturn
  PROVE  CrossVmInv'
<1>1. /\ xPc = "returned" /\ xPc' = "done" /\ call \in Calls
      /\ UNCHANGED <<active, enabled, allowed, abi, changes, call, ready, calldata, ret, ran, settled>>
  BY DEF ReadReturn, gateVars, CrossVmInv, CheckInv
<1>2. call.contract \in Contracts
  BY <1>1 DEF Calls
<1> DEFINE r == IF ret.success THEN decodeCrossVmResult(ret.data) ELSE decodeRevertReason(ret.data)
<1>3. outcome' = [kind |-> IF r.error THEN "unreadable"
                           ELSE IF ret.success THEN "reply" ELSE "reverted",
                  data |-> r.data]
  BY DEF ReadReturn
<1> HIDE DEF r
<1>4. ReplyMeansCalled' /\ ReadyCallsReach'
  <2>1. CASE ret = [success |-> TRUE, data |-> <<>>] /\ ~settled
    <3>1. decodeCrossVmResult(<<>>) = [error |-> TRUE, data |-> <<>>]
      BY CrossVmAssumption DEF decodeCrossVmResult
    <3>2. r.error
      BY <2>1, <3>1 DEF r
    <3>3. outcome'.kind = "unreadable"
      BY <1>3, <3>2
    <3> QED BY <1>1, <2>1, <3>3 DEF ReplyMeansCalled, ReadyCallsReach
  <2>2. CASE ~ret.success /\ ~(settled /\ call.targetVm = NATIVE /\ Len(call.msg) <= MaxMessageSize)
    <3>1. outcome'.kind # "reply"
      BY <1>3, <2>2
    <3> QED BY <1>1, <2>2, <3>1 DEF ReplyMeansCalled, ReadyCallsReach
  <2>3. ASSUME NEW answer \in Payloads, ret = Returned(answer), Reached(TRUE, answer)
        PROVE  ReplyMeansCalled' /\ ReadyCallsReach'
    <3>1. decodeCrossVmResult(encodeDynamicTuple(<<answer>>, 0)) = [error |-> FALSE, data |-> answer]
      BY <1>2, ResultRead
    <3>2. r = [error |-> FALSE, data |-> answer] /\ ret.success
      BY <2>3, <3>1 DEF r, Returned
    <3>3. outcome'.kind = "reply" /\ outcome'.data = answer
      BY <1>3, <3>2
    <3>4. Reached(TRUE, outcome.data)'
      BY <1>1, <2>3, <3>3 DEF Reached
    <3> QED BY <3>3, <3>4 DEF ReplyMeansCalled, ReadyCallsReach
  <2>4. ASSUME NEW answer \in Payloads, ret = Reverted(answer), Reached(FALSE, answer)
        PROVE  ReplyMeansCalled' /\ ReadyCallsReach'
    <3>1. decodeRevertReason(<<ErrorSelector>> \o encodeDynamicTuple(<<answer>>, 0))
            = [error |-> FALSE, data |-> answer]
      BY <1>2, ReasonRead
    <3>2. r = [error |-> FALSE, data |-> answer] /\ ~ret.success
      BY <2>4, <3>1 DEF r, Reverted
    <3>3. outcome'.kind = "reverted" /\ outcome'.data = answer
      BY <1>3, <3>2
    <3>4. Reached(FALSE, outcome.data)'
      BY <1>1, <2>4, <3>3 DEF Reached
    <3> QED BY <3>3, <3>4 DEF ReplyMeansCalled, ReadyCallsReach
  <2> QED BY <1>1, <2>1, <2>2, <2>3, <2>4 DEF CrossVmInv, ReturnInv
<1>5. CheckInv' /\ ReturnInv'
  BY <1>1 DEF CrossVmInv, CheckInv, ReturnInv
<1> QED BY <1>1, <1>4, <1>5 DEF CrossVmInv

\* The invariant holds before the check.
LEMMA CrossVmStarts == ASSUME CrossVmInit PROVE CrossVmInv
BY DEF CrossVmInit, CrossVmInv, CheckInv, ReturnInv, ReplyMeansCalled, ReadyCallsReach

\* Every step keeps it, of governance, of the client or of the precompile.
LEMMA CrossVmStep == ASSUME CrossVmInv, [CrossVmNext]_crossVmVars PROVE CrossVmInv'
<1> USE DEF CrossVmInv, CheckInv, ReturnInv, ReplyMeansCalled, ReadyCallsReach, Reached
<1>1. CASE Govern
  <2>1. UNCHANGED <<xPc, call, ready, calldata, ret, ran, outcome>> /\ ~settled'
    BY <1>1 DEF Govern
  <2> QED BY <2>1
<1>2. CASE ReadPrecompile
  <2>1. /\ UNCHANGED <<active, enabled, allowed, call, calldata, ret, ran, outcome, settled>>
        /\ xPc = "precompile"
        /\ \/ active /\ xPc' = "params" /\ ready' = ready
           \/ xPc' = "done" /\ ~ready'
    BY <1>2 DEF ReadPrecompile, NotReady, gateVars
  <2> QED BY <2>1
<1>3. CASE ReadCrossVmParams
  <2>1. /\ UNCHANGED <<active, enabled, allowed, call, calldata, ret, ran, outcome, settled>>
        /\ xPc = "params"
        /\ \/ enabled /\ call.contract \in allowed /\ xPc' = "call" /\ ready'
           \/ xPc' = "done" /\ ~ready'
    BY <1>3 DEF ReadCrossVmParams, NotReady, gateVars
  <2> QED BY <2>1
<1>4. CASE MakeCall
  <2>1. /\ UNCHANGED <<active, enabled, allowed, call, ready, ret, ran, settled>> /\ xPc = "call"
    BY <1>4 DEF MakeCall, gateVars
  <2>2. CASE /\ Supported(call.targetVm) /\ xPc' = "sent"
             /\ calldata' = encodeCrossVmCalldata(call) /\ outcome' = outcome
    BY <2>1, <2>2
  <2>3. CASE /\ ~Supported(call.targetVm) /\ xPc' = "done"
             /\ outcome' = [kind |-> "unsupported", data |-> <<>>]
    BY <2>1, <2>3 DEF Supported
  <2> QED BY <1>4, <2>2, <2>3 DEF MakeCall
<1>5. ASSUME NEW answer \in Payloads, NEW ok \in BOOLEAN, Execute(answer, ok) PROVE CrossVmInv'
  BY <1>5, Executed
<1>6. CASE ReadReturn
  BY <1>6, ReturnRead
<1>7. CASE UNCHANGED crossVmVars
  BY <1>7 DEF crossVmVars, gateVars, xVars
<1> QED BY <1>1, <1>2, <1>3, <1>4, <1>5, <1>6, <1>7 DEF CrossVmNext

(***************************************************************************)
(* What decodeCrossVmResult returns is the reply of the contract that was  *)
(* called, run with the message that encodeCrossVmCalldata wrote, for      *)
(* contracts, messages and replies of every length below the number a word *)
(* holds, and whatever governance does at any time.                        *)
(***************************************************************************)
THEOREM RepliesMeanCalled == CrossVmSpec => []ReplyMeansCalled
<1>1. CrossVmInit => CrossVmInv
  BY CrossVmStarts
<1>2. CrossVmInv /\ [CrossVmNext]_crossVmVars => CrossVmInv'
  BY CrossVmStep
<1>3. CrossVmInv => ReplyMeansCalled
  BY DEF CrossVmInv
<1> QED BY <1>1, <1>2, <1>3, PTL DEF CrossVmSpec

(***************************************************************************)
(* crossVmTargetReady is right if nothing changes after it: the call it    *)
(* answers for reaches its contract, if max_message_size admits it, and    *)
(* what the client reads, a reply or the reason of a failure, is what the  *)
(* contract answered; for messages, answers and limits of every size.      *)
(***************************************************************************)
THEOREM ReadyCallsReachTheContract == CrossVmSpec => []ReadyCallsReach
<1>1. CrossVmInit => CrossVmInv
  BY CrossVmStarts
<1>2. CrossVmInv /\ [CrossVmNext]_crossVmVars => CrossVmInv'
  BY CrossVmStep
<1>3. CrossVmInv => ReadyCallsReach
  BY DEF CrossVmInv
<1> QED BY <1>1, <1>2, <1>3, PTL DEF CrossVmSpec

(***************************************************************************)
(* Messages: the codecs' tables, and one field written and read.           *)
(***************************************************************************)
Kinds == {"string", "bytes", "int64", "uint64", "bool", "repeated"}

\* A codec's two tables agree: the field numbers, the names and the kinds, no
\* name twice, and none of the field numbers of other releases.
Agree(codec) ==
  LET n == Len(codec.encode) IN
  /\ n \in Nat /\ DOMAIN codec.encode = 1 .. n /\ DOMAIN codec.decode = 1 .. n /\ n < 15
  /\ \A i \in 1 .. n :
       /\ codec.encode[i][1] = codec.decode[i][1] /\ codec.encode[i][3] = codec.decode[i][2]
       /\ FieldNumber(codec.encode[i][2]) = i
       /\ codec.decode[i][2] \in Kinds
       /\ codec.decode[i][1] = "vmType" => codec.decode[i][2] = "string"
  /\ \A i, j \in 1 .. n : codec.decode[i][1] = codec.decode[j][1] => i = j

\* The tables of every registered type, and of the answer, agree.
LEMMA TablesAgree == ASSUME NEW t \in Types PROVE Agree(CodecOf(t))
<1> USE DEF Agree, FieldNumber, Kinds
<1>1. Agree(MsgCreateRollup)
  BY DEF MsgCreateRollup
<1>2. Agree(MsgSubmitBatch)
  BY DEF MsgSubmitBatch
<1>3. Agree(MsgChallengeBatch)
  BY DEF MsgChallengeBatch
<1>4. Agree(MsgResolveChallenge)
  BY DEF MsgResolveChallenge
<1>5. Agree(MsgPauseRollup)
  BY DEF MsgPauseRollup
<1>6. Agree(MsgResumeRollup)
  BY DEF MsgResumeRollup
<1>7. Agree(MsgStopRollup)
  BY DEF MsgStopRollup
<1>8. Agree(MsgExecuteWithdrawal)
  BY DEF MsgExecuteWithdrawal
<1>9. Agree(MsgCreateRollupResponse)
  BY DEF MsgCreateRollupResponse
<1> HIDE DEF Agree, FieldNumber, Kinds
<1> QED
  BY <1>1, <1>2, <1>3, <1>4, <1>5, <1>6, <1>7, <1>8, <1>9 DEF Types, CodecOf, RDK_TYPES

\* A field's name has the kind of its entry, and the names are those of the
\* entries.
LEMMA NamesAndKinds ==
  ASSUME NEW codec, Agree(codec)
  PROVE  /\ \A i \in DOMAIN codec.decode :
              /\ KindOf(codec, codec.decode[i][1]) = codec.decode[i][2]
              /\ codec.decode[i][1] \in Names(codec)
         /\ \A x \in Names(codec) : \E i \in DOMAIN codec.decode : x = codec.decode[i][1]
<1> DEFINE d == codec.decode
<1>1. \A i, j \in DOMAIN d : d[i][1] = d[j][1] => i = j
  BY DEF Agree
<1>2. ToSet(d) = {d[i] : i \in DOMAIN d}
  BY DEF ToSet
<1>3. Names(codec) = {f[1] : f \in ToSet(d)}
  BY DEF Names
<1> HIDE DEF d
<1>4. ASSUME NEW i \in DOMAIN d PROVE KindOf(codec, d[i][1]) = d[i][2]
  <2> DEFINE f == CHOOSE f \in ToSet(d) : f[1] = d[i][1]
  <2>1. \E g \in ToSet(d) : g[1] = d[i][1]
    BY <1>2
  <2>2. f \in ToSet(d) /\ f[1] = d[i][1]
    BY <2>1
  <2>3. KindOf(codec, d[i][1]) = f[2]
    BY Zenon DEF KindOf, d
  <2> HIDE DEF f
  <2>4. PICK j \in DOMAIN d : f = d[j]
    BY <1>2, <2>2
  <2>5. j = i
    BY <1>1, <2>2, <2>4
  <2> QED BY <2>3, <2>4, <2>5
<1>5. \A i \in DOMAIN d : d[i][1] \in Names(codec)
  BY <1>2, <1>3
<1>6. \A x \in Names(codec) : \E i \in DOMAIN d : x = d[i][1]
  BY <1>2, <1>3
<1> QED BY <1>4, <1>5, <1>6 DEF d

\* The values of a kind.
Typed(kind, v) ==
  /\ kind = "int64" => v \in -(MaxInt + 1) .. MaxInt
  /\ kind = "uint64" => v \in 0 .. Modulus - 1
  /\ kind = "bool" => v \in BOOLEAN
  /\ kind = "repeated" => v \in Seq({"", "sibling"} \cup Texts)

\* What is written of a value is read as that value.
LEMMA WrittenRead ==
  ASSUME NEW kind \in Kinds, NEW v, Typed(kind, v), kind # "repeated"
  PROVE  Read(kind, Written(kind, v)) = v
<1>0. MaxInt \in Nat /\ Modulus = 2 * (MaxInt + 1)
  BY CodecAssumption DEF Modulus
<1>1. CASE kind = "int64"
  <2>1. v \in Int /\ -(MaxInt + 1) <= v /\ v <= MaxInt
    BY <1>0, <1>1 DEF Typed
  <2>2. v >= 0 => v % Modulus = v
    BY <1>0, <2>1
  <2>3. v < 0 => v % Modulus = v + Modulus
    BY <1>0, <2>1
  <2>4. Written(kind, v) = v % Modulus
    BY <1>1 DEF Written
  <2>5. Read(kind, Written(kind, v)) =
          IF Written(kind, v) > MaxInt THEN Written(kind, v) - Modulus ELSE Written(kind, v)
    BY <1>1 DEF Read
  <2> QED BY <1>0, <2>1, <2>2, <2>3, <2>4, <2>5
<1>2. CASE kind = "uint64"
  <2>1. v \in Int /\ 0 <= v /\ v < Modulus
    BY <1>0, <1>2 DEF Typed
  <2>2. v % Modulus = v
    BY <1>0, <2>1
  <2> QED BY <1>2, <2>2 DEF Written, Read
<1>3. CASE kind = "bool"
  <2>1. v \in BOOLEAN
    BY <1>3 DEF Typed
  <2>2. Written(kind, v) = IF v THEN 1 ELSE 0
    BY <1>3 DEF Written
  <2>3. Read(kind, Written(kind, v)) = (Written(kind, v) # 0)
    BY <1>3 DEF Read
  <2> QED BY <2>1, <2>2, <2>3
<1>4. CASE kind \in {"string", "bytes"}
  BY <1>4 DEF Written, Read
<1> QED BY <1>1, <1>2, <1>3, <1>4 DEF Kinds

\* A builder fills a field with a value of its kind.
LEMMA BuildTyped ==
  ASSUME NEW t \in Types, NEW in, DOMAIN in = Names(CodecOf(t)),
         \A x \in DOMAIN in : in[x] \in Inputs(t, x),
         NEW i \in DOMAIN CodecOf(t).decode
  PROVE  Typed(CodecOf(t).decode[i][2], Build(t, in)[CodecOf(t).decode[i][1]])
<1> DEFINE codec == CodecOf(t)
           x == codec.decode[i][1]
           kind == codec.decode[i][2]
<1>1. Agree(codec)
  BY TablesAgree
<1>2. /\ KindOf(codec, x) = kind /\ x \in DOMAIN in /\ kind \in Kinds
      /\ x = "vmType" => kind = "string"
  BY <1>1, NamesAndKinds DEF Agree
<1> DEFINE v == Build(t, in)[x]
<1>3. v = IF in[x] = Absent THEN Default(kind)
          ELSE IF t = "MsgCreateRollup" /\ x = "vmType" THEN vmTypeWireValue(in[x])
          ELSE in[x]
  BY <1>2 DEF Build
<1>4. in[x] \in Inputs(t, x)
  BY <1>2
<1> HIDE DEF codec, x, kind, v
<1>5. MaxInt \in Nat /\ Modulus = 2 * (MaxInt + 1) /\ Ints \subseteq -(MaxInt + 1) .. MaxInt
      /\ Uints \subseteq 0 .. Modulus - 1 /\ MaxSiblings \in Nat
  BY CodecAssumption DEF Modulus
<1>6. CASE in[x] = Absent
  <2>1. v = Default(kind)
    BY <1>3, <1>6
  <2>2. <<>> \in Seq({"", "sibling"} \cup Texts)
    OBVIOUS
  <2>3. 0 \in -(MaxInt + 1) .. MaxInt /\ 0 \in 0 .. Modulus - 1
    BY <1>5
  <2>4. Typed(kind, v)
    BY <1>2, <2>1, <2>2, <2>3 DEF Kinds, Default, Typed
  <2> QED BY <2>4 DEF v, kind, x, codec
<1>7. CASE in[x] # Absent /\ kind \in {"string", "bytes"}
  <2>1. Typed(kind, v)
    BY <1>7 DEF Typed
  <2> QED BY <2>1 DEF v, kind, x, codec
<1>8. CASE in[x] # Absent /\ kind \notin {"string", "bytes"}
  <2>1. x # "vmType" /\ v = in[x]
    BY <1>2, <1>3, <1>8
  <2>2. kind = "int64" => v \in Ints
    BY <1>2, <1>4, <1>8, <2>1 DEF Inputs, codec
  <2>3. kind = "uint64" => v \in Uints
    BY <1>2, <1>4, <1>8, <2>1 DEF Inputs, codec
  <2>4. kind = "bool" => v \in BOOLEAN
    BY <1>2, <1>4, <1>8, <2>1 DEF Inputs, codec
  <2>5. kind = "repeated" =>
          v \in UNION {[1 .. k -> {"", "sibling"} \cup Texts] : k \in 0 .. MaxSiblings}
    BY <1>2, <1>4, <1>8, <2>1 DEF Inputs, codec
  <2>6. kind = "repeated" => v \in Seq({"", "sibling"} \cup Texts)
    <3>1. SUFFICES ASSUME kind = "repeated" PROVE v \in Seq({"", "sibling"} \cup Texts)
      OBVIOUS
    <3>2. PICK k \in 0 .. MaxSiblings : v \in [1 .. k -> {"", "sibling"} \cup Texts]
      BY <2>5, <3>1
    <3>3. k \in Nat
      BY <1>5
    <3> DEFINE T == {"", "sibling"} \cup Texts
    <3>4. v \in [1 .. k -> T]
      BY <3>2
    <3> HIDE DEF v, T
    <3>5. v \in UNION {[1 .. n -> T] : n \in Nat}
      BY <3>3, <3>4, Zenon
    <3>6. v \in Seq(T)
      BY <3>5, SeqDef, Zenon
    <3> QED BY <3>6 DEF T
  <2>7. Typed(kind, v)
    BY <1>5, <2>2, <2>3, <2>4, <2>6 DEF Typed
  <2> QED BY <2>7 DEF v, kind, x, codec
<1> QED BY <1>6, <1>7, <1>8

(***************************************************************************)
(* How far the fields of a message are read.                               *)
(***************************************************************************)

\* Fewer parts are no longer.
LEMMA JoinedGrows ==
  ASSUME NEW S, NEW parts \in Seq(Seq(S)), NEW j \in 0 .. Len(parts), NEW k \in j .. Len(parts)
  PROVE  /\ Len(Joined(parts, j)) \in Nat /\ Len(Joined(parts, k)) \in Nat
         /\ Len(Joined(parts, j)) <= Len(Joined(parts, k))
<1> DEFINE n == Len(parts)
           J(i) == Joined(parts, i)
           P == {d \in Nat : j + d <= n => Len(J(j)) <= Len(J(j + d))}
<1>1. /\ n \in Nat /\ j \in 0 .. n /\ k \in 0 .. n /\ k - j \in Nat /\ j + (k - j) = k
      /\ \A i \in 1 .. n : parts[i] \in Seq(S)
      /\ \A i \in 0 .. n : J(i) \in Seq(S)
      /\ \A i \in 0 .. n - 1 : J(i + 1) = J(i) \o parts[i + 1]
  <2>1. n \in Nat /\ j \in 0 .. n /\ k \in 0 .. n /\ k - j \in Nat /\ j + (k - j) = k
    OBVIOUS
  <2>2. \A i \in 1 .. n : parts[i] \in Seq(S)
    OBVIOUS
  <2>3. /\ \A i \in 0 .. n : J(i) \in Seq(S)
        /\ \A i \in 0 .. n - 1 : J(i + 1) = J(i) \o parts[i + 1]
    BY JoinedParts, Zenon
  <2> QED BY <2>1, <2>2, <2>3, Zenon
<1> HIDE DEF n, J
<1>2. \A i \in 0 .. n : Len(J(i)) \in Nat
  BY <1>1
<1>3. 0 \in P
  <2>1. j + 0 = j /\ Len(J(j)) \in Nat
    BY <1>1, <1>2
  <2> QED BY <2>1
<1>4. ASSUME NEW d \in Nat, d \in P PROVE d + 1 \in P
  <2>1. CASE j + (d + 1) <= n
    <3> DEFINE i == j + d
    <3>1. i \in 0 .. n - 1 /\ i \in 0 .. n /\ i + 1 \in 1 .. n /\ i + 1 \in 0 .. n /\ j + (d + 1) = i + 1
      BY <1>1, <2>1
    <3>2. Len(J(j)) <= Len(J(i))
      BY <1>1, <1>4, <3>1
    <3> HIDE DEF i
    <3>3. J(i + 1) = J(i) \o parts[i + 1] /\ J(i) \in Seq(S) /\ parts[i + 1] \in Seq(S)
      BY <1>1, <3>1
    <3>4. Len(J(i + 1)) = Len(J(i)) + Len(parts[i + 1]) /\ Len(parts[i + 1]) \in Nat
      BY <3>3
    <3>5. Len(J(j)) <= Len(J(i + 1))
      BY <1>1, <1>2, <3>1, <3>2, <3>4
    <3>6. d + 1 \in Nat
      OBVIOUS
    <3> QED BY <3>1, <3>5, <3>6, Zenon
  <2> QED BY <2>1
<1>5. k - j \in P
  <2> HIDE DEF P
  <2> QED BY <1>1, <1>3, <1>4, Induction
<1>6. Len(J(j)) <= Len(J(k))
  BY <1>1, <1>5
<1> QED BY <1>1, <1>2, <1>6 DEF J

\* The field that is read next belongs to one of the parts.
LEMMA NextField ==
  ASSUME NEW S, NEW parts \in Seq(Seq(S)), NEW p \in Nat, p < Len(FlattenSeq(parts))
  PROVE  \E k \in 1 .. Len(parts) :
           /\ Len(Joined(parts, k - 1)) \in Nat
           /\ Len(Joined(parts, k - 1)) <= p
           /\ p < Len(Joined(parts, k - 1)) + Len(parts[k])
           /\ Len(Joined(parts, k)) = Len(Joined(parts, k - 1)) + Len(parts[k])
           /\ FlattenSeq(parts)[p + 1] = parts[k][p + 1 - Len(Joined(parts, k - 1))]
<1> DEFINE n == Len(parts)
           J(i) == Joined(parts, i)
           Beyond == {i \in Nat : i <= n /\ p < Len(J(i))}
<1>1. /\ n \in Nat /\ J(0) = <<>> /\ FlattenSeq(parts) = J(n)
      /\ \A i \in 1 .. n : parts[i] \in Seq(S)
      /\ \A i \in 0 .. n : J(i) \in Seq(S)
      /\ \A i \in 0 .. n - 1 : J(i + 1) = J(i) \o parts[i + 1]
  <2>1. n \in Nat /\ \A i \in 1 .. n : parts[i] \in Seq(S)
    OBVIOUS
  <2>2. /\ J(0) = <<>> /\ FlattenSeq(parts) = J(n)
        /\ \A i \in 0 .. n : J(i) \in Seq(S)
        /\ \A i \in 0 .. n - 1 : J(i + 1) = J(i) \o parts[i + 1]
    BY JoinedParts, Zenon
  <2> QED BY <2>1, <2>2, Zenon
<1>2. ASSUME NEW k \in 0 .. n - 1
      PROVE  \A i \in 1 .. Len(parts[k + 1]) :
               FlattenSeq(parts)[Len(J(k)) + i] = parts[k + 1][i]
  BY PartsInPlace
<1> HIDE DEF n, J
<1>3. n \in Beyond
  BY <1>1
<1>4. PICK k \in Beyond : \A i \in Beyond : k <= i
  <2> HIDE DEF Beyond
  <2>1. Beyond \subseteq Nat
    BY DEF Beyond
  <2> QED BY <1>3, <2>1, Least
<1>5. k # 0
  <2>1. Len(J(0)) = 0
    BY <1>1
  <2> QED BY <2>1
<1> DEFINE b == k - 1
<1>6. b \in 0 .. n - 1 /\ b \in 0 .. n /\ b \in Nat /\ b + 1 = k /\ k \in 1 .. n /\ b <= n /\ ~(k <= b)
  BY <1>1, <1>5
<1> HIDE DEF b
<1>7. J(k) = J(b) \o parts[k] /\ J(b) \in Seq(S) /\ parts[k] \in Seq(S)
  BY <1>1, <1>6
<1>8. Len(J(k)) = Len(J(b)) + Len(parts[k]) /\ Len(J(b)) \in Nat /\ Len(parts[k]) \in Nat
  BY <1>7
<1>9. Len(J(b)) <= p
  <2>1. b \notin Beyond
    BY <1>4, <1>6
  <2>2. ~(p < Len(J(b)))
    BY <1>6, <2>1
  <2> QED BY <1>8, <2>2
<1>10. p < Len(J(k))
  OBVIOUS
<1>11. FlattenSeq(parts)[p + 1] = parts[k][p + 1 - Len(J(b))]
  <2> DEFINE i == p + 1 - Len(J(b))
  <2>1. i \in 1 .. Len(parts[k]) /\ Len(J(b)) + i = p + 1
    BY <1>8, <1>9, <1>10
  <2> HIDE DEF i
  <2>2. FlattenSeq(parts)[Len(J(b)) + i] = parts[k][i]
    BY <1>2, <1>6, <2>1
  <2> QED BY <2>1, <2>2 DEF i
<1> QED BY <1>6, <1>8, <1>9, <1>10, <1>11 DEF J, n, b

\* Reading it moves that part on by one, and no other.
LEMMA TakenNext ==
  ASSUME NEW S, NEW parts \in Seq(Seq(S)), NEW p \in Nat, NEW q \in Nat, q = p + 1,
         NEW k \in 1 .. Len(parts),
         Len(Joined(parts, k - 1)) <= p, p < Len(Joined(parts, k - 1)) + Len(parts[k]),
         NEW i \in 1 .. Len(parts)
  PROVE  /\ i = k => /\ Taken(parts, i, p) = p - Len(Joined(parts, k - 1))
                     /\ Taken(parts, i, q) = q - Len(Joined(parts, k - 1))
         /\ i # k => Taken(parts, i, q) = Taken(parts, i, p)
<1> DEFINE n == Len(parts)
           J(j) == Joined(parts, j)
           a == Len(J(i - 1))
           own == Len(parts[i])
           b == Len(J(k - 1))
           next == Len(parts[k])
<1>1. /\ n \in Nat
      /\ \A j \in 1 .. n : parts[j] \in Seq(S)
      /\ \A j \in 0 .. n : J(j) \in Seq(S)
      /\ \A j \in 0 .. n - 1 : J(j + 1) = J(j) \o parts[j + 1]
  <2>1. n \in Nat /\ \A j \in 1 .. n : parts[j] \in Seq(S)
    OBVIOUS
  <2>2. /\ \A j \in 0 .. n : J(j) \in Seq(S)
        /\ \A j \in 0 .. n - 1 : J(j + 1) = J(j) \o parts[j + 1]
    BY JoinedParts, Zenon
  <2> QED BY <2>1, <2>2
<1>2. \A c \in 0 .. n : \A d \in c .. n : Len(J(c)) <= Len(J(d))
  BY JoinedGrows
<1>3. b <= p /\ p < b + next /\ k \in 1 .. n /\ i \in 1 .. n
  OBVIOUS
<1>4. \A r \in Nat : Taken(parts, i, r) = IF r <= a THEN 0
                                          ELSE IF r >= a + own THEN own ELSE r - a
  BY DEF Taken, Joined
<1> HIDE DEF n, J
<1>5. \A j \in 1 .. n : /\ Len(J(j - 1)) \in Nat /\ Len(parts[j]) \in Nat
                        /\ Len(J(j)) = Len(J(j - 1)) + Len(parts[j])
  <2> SUFFICES ASSUME NEW j \in 1 .. n
               PROVE  /\ Len(J(j - 1)) \in Nat /\ Len(parts[j]) \in Nat
                      /\ Len(J(j)) = Len(J(j - 1)) + Len(parts[j])
    OBVIOUS
  <2> DEFINE c == j - 1
  <2>1. c \in 0 .. n - 1 /\ c \in 0 .. n /\ c + 1 = j
    BY <1>1
  <2> HIDE DEF c
  <2>2. J(j) = J(c) \o parts[j] /\ J(c) \in Seq(S) /\ parts[j] \in Seq(S)
    BY <1>1, <2>1
  <2>3. Len(J(c)) \in Nat /\ Len(parts[j]) \in Nat /\ Len(J(j)) = Len(J(c)) + Len(parts[j])
    BY <2>2
  <2> QED BY <2>3 DEF c
<1>6. /\ a \in Nat /\ own \in Nat /\ Len(J(i)) = a + own
      /\ b \in Nat /\ next \in Nat /\ Len(J(k)) = b + next
  BY <1>3, <1>5
<1>7. i = k => a = b /\ own = next
  OBVIOUS
<1>8. i < k => a + own <= b
  <2> SUFFICES ASSUME i < k PROVE Len(J(i)) <= Len(J(k - 1))
    BY <1>6
  <2>1. i \in 0 .. n /\ k - 1 \in i .. n
    BY <1>1, <1>3
  <2> QED BY <1>2, <2>1
<1>9. k < i => b + next <= a
  <2> SUFFICES ASSUME k < i PROVE Len(J(k)) <= Len(J(i - 1))
    BY <1>6
  <2>1. k \in 0 .. n /\ i - 1 \in k .. n
    BY <1>1, <1>3
  <2> QED BY <1>2, <2>1
<1> HIDE DEF a, own, b, next
<1>10. /\ Taken(parts, i, p) = IF p <= a THEN 0 ELSE IF p >= a + own THEN own ELSE p - a
       /\ Taken(parts, i, q) = IF q <= a THEN 0
                                   ELSE IF q >= a + own THEN own ELSE q - a
  BY <1>4
<1>11. CASE i = k
  <2>1. Taken(parts, i, p) = p - b /\ Taken(parts, i, q) = q - b
    BY <1>3, <1>6, <1>7, <1>10, <1>11
  <2> QED BY <1>11, <2>1 DEF b, J
<1>12. CASE i < k
  <2>1. Taken(parts, i, p) = own /\ Taken(parts, i, q) = own
    BY <1>3, <1>6, <1>8, <1>10, <1>12
  <2> QED BY <1>3, <1>12, <2>1
<1>13. CASE k < i
  <2>1. Taken(parts, i, p) = 0 /\ Taken(parts, i, q) = 0
    BY <1>3, <1>6, <1>9, <1>10, <1>13
  <2> QED BY <1>3, <1>13, <2>1
<1>14. i = k \/ i < k \/ k < i
  BY <1>1, <1>3
<1> QED BY <1>11, <1>12, <1>13, <1>14

\* At the start nothing is read of any part, and at the end all of it.
LEMMA TakenEnds ==
  ASSUME NEW S, NEW parts \in Seq(Seq(S)), NEW i \in 1 .. Len(parts)
  PROVE  /\ Taken(parts, i, 0) = 0
         /\ Taken(parts, i, Len(FlattenSeq(parts))) = Len(parts[i])
<1> DEFINE n == Len(parts)
           J(j) == Joined(parts, j)
           q == Len(FlattenSeq(parts))
<1>1. /\ n \in Nat /\ i \in 1 .. n /\ i - 1 \in 0 .. n - 1 /\ i - 1 \in 0 .. n /\ (i - 1) + 1 = i
      /\ parts[i] \in Seq(S) /\ n \in 0 .. n
      /\ \A j \in 0 .. n : J(j) \in Seq(S)
      /\ FlattenSeq(parts) = J(n)
  <2>1. /\ n \in Nat /\ i \in 1 .. n /\ i - 1 \in 0 .. n - 1 /\ i - 1 \in 0 .. n
        /\ (i - 1) + 1 = i /\ n \in 0 .. n
    OBVIOUS
  <2>2. parts[i] \in Seq(S)
    OBVIOUS
  <2>3. FlattenSeq(parts) = J(n) /\ \A j \in 0 .. n : J(j) \in Seq(S)
    BY JoinedParts, Zenon
  <2> QED BY <2>1, <2>2, <2>3, Zenon
<1>2. Len(J(i - 1)) \in Nat /\ Len(parts[i]) \in Nat /\ q \in Nat
  <2>1. J(i - 1) \in Seq(S) /\ J(n) \in Seq(S)
    BY <1>1
  <2> QED BY <1>1, <2>1
<1>3. Len(J(i - 1)) + Len(parts[i]) <= q
  <2>1. \A k \in 0 .. n - 1 : Len(J(k)) + Len(parts[k + 1]) <= q
    BY PartsInPlace
  <2> HIDE DEF J, q, n
  <2>2. Len(J(i - 1)) + Len(parts[(i - 1) + 1]) <= q
    BY <1>1, <2>1
  <2> QED BY <1>1, <2>2
<1> DEFINE a == Len(J(i - 1))
           own == Len(parts[i])
<1>4. \A r \in Nat : Taken(parts, i, r) = IF r <= a THEN 0
                                          ELSE IF r >= a + own THEN own ELSE r - a
  BY DEF Taken, Joined
<1> HIDE DEF J, q, n, a, own
<1>5. a \in Nat /\ own \in Nat /\ q \in Nat /\ a + own <= q
  BY <1>2, <1>3 DEF a, own
<1>6. /\ Taken(parts, i, 0) = IF 0 <= a THEN 0 ELSE IF 0 >= a + own THEN own ELSE 0 - a
      /\ Taken(parts, i, q) = IF q <= a THEN 0 ELSE IF q >= a + own THEN own ELSE q - a
  BY <1>4, <1>5
<1>7. Taken(parts, i, 0) = 0 /\ Taken(parts, i, q) = own
  BY <1>5, <1>6
<1> QED BY <1>7 DEF q, own
(***************************************************************************)
(* What a message's fields are on the wire.                                *)
(***************************************************************************)

\* A message of the codec: a value of its kind under every name.
Sendable(codec, m) ==
  /\ Agree(codec)
  /\ \A i \in DOMAIN codec.decode : Typed(codec.decode[i][2], m[codec.decode[i][1]])

\* What is written of an entry: nothing or one field, or a field for every
\* element.
Shape(f, v, part) ==
  /\ part \in Seq({part[j] : j \in DOMAIN part})
  /\ \A j \in 1 .. Len(part) : part[j].tag = f[2]
  /\ f[3] # "repeated" =>
       /\ Len(part) \in {0, 1}
       /\ Len(part) = 0 => v = Default(f[3])
       /\ \A j \in 1 .. Len(part) : part[j].raw = Written(f[3], v)
  /\ f[3] = "repeated" =>
       /\ v \in Seq({"", "sibling"} \cup Texts) /\ Len(part) = Len(v)
       /\ \A j \in 1 .. Len(part) : part[j].raw = v[j]

\* An entry is written in that shape.
LEMMA EmittedShape ==
  ASSUME NEW f, NEW v, Typed(f[3], v), NEW part, part = Emitted(f, v)
  PROVE  Shape(f, v, part)
<1> USE DEF Shape
<1> DEFINE S == {part[j] : j \in DOMAIN part}
<1>1. CASE f[3] = "repeated"
  <2> DEFINE T == {"", "sibling"} \cup Texts
  <2>1. part = [j \in DOMAIN v |-> [tag |-> f[2], raw |-> v[j]]]
    BY <1>1 DEF Emitted
  <2>2. v \in Seq(T)
    BY <1>1 DEF Typed
  <2>3. Len(v) \in Nat /\ DOMAIN v = 1 .. Len(v)
    <3> HIDE DEF T
    <3> QED BY <2>2, LenProperties
  <2>4. DOMAIN part = 1 .. Len(v) /\ part \in [1 .. Len(v) -> S]
    BY <2>1, <2>3
  <2>5. part \in Seq(S) /\ Len(part) = Len(v)
    <3> HIDE DEF S
    <3>1. part \in Seq(S)
      BY <2>3, <2>4, SeqDef, Zenon
    <3>2. Len(part) \in Nat /\ DOMAIN part = 1 .. Len(part)
      BY <3>1, LenProperties
    <3> QED BY <2>3, <2>4, <3>1, <3>2
  <2>6. \A j \in 1 .. Len(part) : part[j].tag = f[2] /\ part[j].raw = v[j]
    BY <2>1, <2>3, <2>5
  <2> QED BY <1>1, <2>2, <2>5, <2>6, Zenon
<1>2. CASE f[3] # "repeated" /\ v = Default(f[3])
  <2>1. part = <<>>
    BY <1>2 DEF Emitted
  <2>2. part \in Seq(S) /\ Len(part) = 0 /\ \A j : ~(j \in 1 .. Len(part))
    BY <2>1
  <2> HIDE DEF S
  <2>3. Len(part) \in {0, 1} /\ v = Default(f[3])
    BY <1>2, <2>2
  <2> QED BY <1>2, <2>2, <2>3, Zenon DEF S
<1>3. CASE f[3] # "repeated" /\ v # Default(f[3])
  <2> DEFINE field == [tag |-> f[2], raw |-> Written(f[3], v)]
  <2>1. part = <<field>>
    BY <1>3 DEF Emitted
  <2>2. field.tag = f[2] /\ field.raw = Written(f[3], v)
    OBVIOUS
  <2> HIDE DEF field
  <2>3. Len(part) = 1 /\ part[1] = field /\ DOMAIN part = {1}
    BY <2>1
  <2>4. part \in Seq(S)
    <3>1. field \in S
      BY <2>3
    <3> HIDE DEF S
    <3> QED BY <2>1, <3>1
  <2>5. \A j \in 1 .. Len(part) : part[j] = field
    BY <2>3
  <2>6. Len(part) \in {0, 1} /\ Len(part) # 0
    BY <2>3
  <2> HIDE DEF S
  <2> QED BY <1>3, <2>2, <2>4, <2>5, <2>6, Zenon DEF S
<1> QED BY <1>1, <1>2, <1>3, Zenon

\* A message's entries, each of its own name and kind.
LEMMA PartShape ==
  ASSUME NEW codec, NEW m, Sendable(codec, m), NEW i \in DOMAIN codec.encode
  PROVE  Shape(codec.encode[i], m[codec.encode[i][1]], Parts(codec, m)[i])
<1> DEFINE f == codec.encode[i]
           v == m[f[1]]
           part == Parts(codec, m)[i]
<1>1. Typed(f[3], v) /\ part = Emitted(f, v)
  BY DEF Sendable, Agree, Parts
<1> HIDE DEF f, v, part
<1>2. Shape(f, v, part)
  BY <1>1, EmittedShape
<1> QED BY <1>2 DEF f, v, part

\* The fields a message has on the wire.
FieldsOf(codec, m) ==
  UNION {{Parts(codec, m)[i][j] : j \in DOMAIN Parts(codec, m)[i]} : i \in DOMAIN codec.encode}

\* They are put one after the other.
LEMMA PartsTypes ==
  ASSUME NEW codec, NEW m, Sendable(codec, m)
  PROVE  /\ Parts(codec, m) \in Seq(Seq(FieldsOf(codec, m)))
         /\ Len(Parts(codec, m)) = Len(codec.encode)
         /\ DOMAIN codec.encode = 1 .. Len(codec.encode)
<1> DEFINE parts == Parts(codec, m)
           S == FieldsOf(codec, m)
           n == Len(codec.encode)
<1>1. n \in Nat /\ DOMAIN codec.encode = 1 .. n /\ DOMAIN parts = 1 .. n
  BY DEF Sendable, Agree, Parts
<1>2. ASSUME NEW i \in 1 .. n PROVE parts[i] \in Seq(S)
  <2> DEFINE T == {parts[i][j] : j \in DOMAIN parts[i]}
  <2>1. parts[i] \in Seq(T)
    <3>1. i \in DOMAIN codec.encode
      BY <1>1
    <3>2. Shape(codec.encode[i], m[codec.encode[i][1]], parts[i])
      BY <3>1, PartShape
    <3> QED BY <3>2, Zenon DEF Shape
  <2>2. T \subseteq S
    BY <1>1 DEF FieldsOf
  <2> HIDE DEF T, S, parts
  <2> QED BY <2>1, <2>2, SeqMonotonic
<1>3. parts = [i \in 1 .. n |-> parts[i]]
  BY <1>1 DEF Parts
<1> HIDE DEF parts, S, n
<1>4. parts \in [1 .. n -> Seq(S)]
  BY <1>2, <1>3
<1>5. parts \in Seq(Seq(S))
  <2> DEFINE T == Seq(S)
  <2>1. parts \in [1 .. n -> T] /\ n \in Nat
    BY <1>1, <1>4
  <2> HIDE DEF T
  <2>2. parts \in Seq(T)
    BY <2>1, SeqDef, Zenon
  <2> QED BY <2>2 DEF T
<1>6. Len(parts) = n
  <2>1. Len(parts) \in Nat /\ DOMAIN parts = 1 .. Len(parts)
    BY <1>5
  <2> QED BY <1>1, <2>1
<1> QED BY <1>1, <1>5, <1>6 DEF parts, S, n

\* Every field of the wire is of a known number.
LEMMA KnownFields ==
  ASSUME NEW codec, NEW m, Sendable(codec, m), NEW p \in Nat, p < Len(Encode(codec, m))
  PROVE  FieldNumber(Encode(codec, m)[p + 1].tag) \in DOMAIN codec.decode
<1> DEFINE parts == Parts(codec, m)
           S == FieldsOf(codec, m)
           n == Len(codec.encode)
<1>1. /\ parts \in Seq(Seq(S)) /\ Len(parts) = n /\ DOMAIN codec.encode = 1 .. n
      /\ Encode(codec, m) = FlattenSeq(parts)
  BY PartsTypes DEF Encode
<1>2. \A i \in 1 .. n : /\ FieldNumber(codec.encode[i][2]) = i /\ i \in DOMAIN codec.decode
                        /\ parts[i] \in Seq(S)
                        /\ \A j \in 1 .. Len(parts[i]) : parts[i][j].tag = codec.encode[i][2]
  <2> SUFFICES ASSUME NEW i \in 1 .. n
               PROVE  /\ FieldNumber(codec.encode[i][2]) = i /\ i \in DOMAIN codec.decode
                      /\ parts[i] \in Seq(S)
                      /\ \A j \in 1 .. Len(parts[i]) : parts[i][j].tag = codec.encode[i][2]
    OBVIOUS
  <2>1. FieldNumber(codec.encode[i][2]) = i /\ i \in DOMAIN codec.decode
    BY DEF Sendable, Agree
  <2>2. i \in DOMAIN codec.encode
    BY <1>1
  <2>3. parts[i] \in Seq(S)
    <3> HIDE DEF parts, S, n
    <3> QED BY <1>1
  <2>4. Shape(codec.encode[i], m[codec.encode[i][1]], parts[i])
    BY <2>2, PartShape
  <2>5. \A j \in 1 .. Len(parts[i]) : parts[i][j].tag = codec.encode[i][2]
    BY <2>4, Zenon DEF Shape
  <2> QED BY <2>1, <2>3, <2>5
<1> HIDE DEF parts, S, n
<1>3. PICK k \in 1 .. Len(parts) :
           /\ Len(Joined(parts, k - 1)) \in Nat
           /\ Len(Joined(parts, k - 1)) <= p
           /\ p < Len(Joined(parts, k - 1)) + Len(parts[k])
           /\ FlattenSeq(parts)[p + 1] = parts[k][p + 1 - Len(Joined(parts, k - 1))]
  BY <1>1, NextField
<1> DEFINE j == p + 1 - Len(Joined(parts, k - 1))
<1>4. k \in 1 .. n /\ Len(parts[k]) \in Nat
  BY <1>1, <1>2
<1>5. j \in 1 .. Len(parts[k])
  <2> DEFINE o == Len(Joined(parts, k - 1))
             l == Len(parts[k])
  <2>1. o \in Nat /\ o <= p /\ p < o + l /\ l \in Nat /\ j = p + 1 - o
    BY <1>3, <1>4
  <2> HIDE DEF o, l, j
  <2>2. j \in 1 .. l
    BY <2>1
  <2> QED BY <2>2 DEF l
<1>6. Encode(codec, m)[p + 1] = parts[k][j]
  BY <1>1, <1>3
<1> HIDE DEF j
<1>7. parts[k][j].tag = codec.encode[k][2]
  BY <1>2, <1>4, <1>5
<1> QED BY <1>2, <1>4, <1>6, <1>7
\* Before the first field every name has its default, and after the last one
\* its value.
LEMMA PartialEnds ==
  ASSUME NEW codec, NEW m, Sendable(codec, m), NEW i \in DOMAIN codec.encode
  PROVE  /\ Partial(codec, m, i, 0) = Default(codec.encode[i][3])
         /\ Partial(codec, m, i, Len(Encode(codec, m))) = m[codec.encode[i][1]]
<1> DEFINE f == codec.encode[i]
           v == m[f[1]]
           parts == Parts(codec, m)
           part == parts[i]
           S == FieldsOf(codec, m)
           e == Len(Encode(codec, m))
<1>1. Shape(f, v, part)
  BY PartShape
<1>2. parts \in Seq(Seq(S)) /\ i \in 1 .. Len(parts) /\ Encode(codec, m) = FlattenSeq(parts)
  BY PartsTypes DEF Encode
<1>3. \A p : Partial(codec, m, i, p) =
               IF f[3] = "repeated" THEN SubSeq(v, 1, Taken(parts, i, p))
               ELSE IF Taken(parts, i, p) = Len(part) THEN v ELSE Default(f[3])
  BY DEF Partial
<1> HIDE DEF f, v, parts, S, e
<1>4. Taken(parts, i, 0) = 0 /\ Taken(parts, i, e) = Len(part)
  BY <1>2, TakenEnds DEF e
<1> HIDE DEF part
<1>5. CASE f[3] = "repeated"
  <2> DEFINE T == {"", "sibling"} \cup Texts
  <2>1. v \in Seq(T) /\ Len(part) = Len(v)
    BY <1>1, <1>5 DEF Shape
  <2> HIDE DEF T
  <2>2. SubSeq(v, 1, 0) = <<>>
    BY <2>1, SubSeqEmpty
  <2>3. SubSeq(v, 1, Len(v)) = v
    <3> DEFINE w == SubSeq(v, 1, Len(v))
    <3>1. Len(v) \in Nat
      BY <2>1
    <3>2. w \in Seq(T) /\ Len(w) = Len(v) /\ \A j \in 1 .. Len(v) : w[j] = v[j]
      BY <2>1, <3>1, SubSeqProperties
    <3> HIDE DEF w
    <3>3. w = v
      BY <2>1, <3>2, SeqEqual
    <3> QED BY <3>3 DEF w
  <2>4. Default(f[3]) = <<>>
    BY <1>5 DEF Default
  <2>5. Partial(codec, m, i, 0) = Default(f[3]) /\ Partial(codec, m, i, e) = v
    BY <1>3, <1>4, <1>5, <2>1, <2>2, <2>3, <2>4
  <2> QED BY <2>5 DEF e, f, v
<1>6. CASE f[3] # "repeated"
  <2>1. Len(part) = 0 => v = Default(f[3])
    BY <1>1, <1>6 DEF Shape
  <2>2. Partial(codec, m, i, 0) = Default(f[3]) /\ Partial(codec, m, i, e) = v
    BY <1>3, <1>4, <1>6, <2>1
  <2> QED BY <2>2 DEF e, f, v
<1> QED BY <1>5, <1>6

\* One more element of a sequence.
LEMMA SubSeqNext ==
  ASSUME NEW T, NEW v \in Seq(T), NEW t \in 0 .. Len(v) - 1
  PROVE  Append(SubSeq(v, 1, t), v[t + 1]) = SubSeq(v, 1, t + 1)
<1> DEFINE a == SubSeq(v, 1, t)
           b == SubSeq(v, 1, t + 1)
           c == Append(a, v[t + 1])
<1>1. t \in Nat /\ t + 1 \in 1 .. Len(v) /\ t <= Len(v) /\ t + 1 <= Len(v) /\ Len(v) \in Nat
  OBVIOUS
<1>2. a \in Seq(T) /\ Len(a) = t /\ \A j \in 1 .. t : a[j] = v[j]
  BY <1>1, SubSeqProperties
<1>3. b \in Seq(T) /\ Len(b) = t + 1 /\ \A j \in 1 .. t + 1 : b[j] = v[j]
  BY <1>1, SubSeqProperties
<1>4. v[t + 1] \in T
  BY <1>1
<1> HIDE DEF a, b
<1>5. c \in Seq(T) /\ Len(c) = t + 1 /\ \A j \in 1 .. t + 1 : c[j] = IF j <= t THEN a[j] ELSE v[t + 1]
  BY <1>1, <1>2, <1>4, AppendProperties
<1> HIDE DEF c
<1>6. \A j \in 1 .. t + 1 : c[j] = b[j]
  <2> SUFFICES ASSUME NEW j \in 1 .. t + 1 PROVE c[j] = b[j]
    OBVIOUS
  <2>1. CASE j <= t
    <3>1. j \in 1 .. t
      BY <1>1, <2>1
    <3> QED BY <1>2, <1>3, <1>5, <2>1, <3>1
  <2>2. CASE ~(j <= t)
    <3>1. j = t + 1
      BY <1>1, <2>2
    <3>2. c[j] = v[t + 1] /\ b[j] = v[j]
      BY <1>3, <1>5, <2>2
    <3> QED BY <3>1, <3>2
  <2> QED BY <2>1, <2>2
<1>7. c = b
  BY <1>3, <1>5, <1>6, SeqEqual
<1> QED BY <1>7 DEF a, b, c

\* The field that is read next moves the message on to the next prefix.
LEMMA PartialNext ==
  ASSUME NEW codec, NEW m, Sendable(codec, m),
         NEW p \in Nat, p < Len(Encode(codec, m)), NEW q \in Nat, q = p + 1,
         NEW msg, DOMAIN msg = Names(codec),
         \A i \in DOMAIN codec.encode : msg[codec.encode[i][1]] = Partial(codec, m, i, p)
  PROVE  /\ DOMAIN Assigned(codec, msg, Encode(codec, m)[q]) = Names(codec)
         /\ \A i \in DOMAIN codec.encode :
              Assigned(codec, msg, Encode(codec, m)[q])[codec.encode[i][1]] =
                Partial(codec, m, i, q)
<1> DEFINE parts == Parts(codec, m)
           S == FieldsOf(codec, m)
           n == Len(codec.encode)
           J(i) == Len(Joined(parts, i))
           name(i) == codec.encode[i][1]
           kind(i) == codec.encode[i][3]
           P(i, r) == Partial(codec, m, i, r)
           field == Encode(codec, m)[q]
<1>1. /\ parts \in Seq(Seq(S)) /\ Len(parts) = n /\ DOMAIN codec.encode = 1 .. n
      /\ Encode(codec, m) = FlattenSeq(parts)
  BY PartsTypes DEF Encode
<1>2. /\ Agree(codec) /\ DOMAIN codec.decode = 1 .. n
      /\ \A i \in 1 .. n : /\ codec.decode[i][1] = name(i) /\ codec.decode[i][2] = kind(i)
                           /\ FieldNumber(codec.encode[i][2]) = i
                           /\ kind(i) \in Kinds /\ Typed(kind(i), m[name(i)])
      /\ \A i, j \in 1 .. n : name(i) = name(j) => i = j
  BY DEF Sendable, Agree
<1>3. \A i \in 1 .. n : name(i) \in Names(codec)
  <2>1. \A i \in DOMAIN codec.decode : codec.decode[i][1] \in Names(codec)
    BY <1>2, NamesAndKinds
  <2> QED BY <1>2, <2>1
<1>4. \A i \in 1 .. n : Shape(codec.encode[i], m[name(i)], parts[i])
  BY <1>1, PartShape
<1>5. \A i \in 1 .. n : msg[name(i)] = P(i, p)
  BY <1>1
<1>6. \A i \in 1 .. n : \A r :
        P(i, r) = IF kind(i) = "repeated" THEN SubSeq(m[name(i)], 1, Taken(parts, i, r))
                  ELSE IF Taken(parts, i, r) = Len(parts[i]) THEN m[name(i)]
                  ELSE Default(kind(i))
  BY DEF Partial
<1> HIDE DEF parts, S, n
<1>7. PICK k \in 1 .. Len(parts) :
           /\ J(k - 1) \in Nat /\ J(k - 1) <= p /\ p < J(k - 1) + Len(parts[k])
           /\ FlattenSeq(parts)[p + 1] = parts[k][p + 1 - J(k - 1)]
  BY <1>1, NextField
<1>8. \A i \in 1 .. n :
        /\ i = k => Taken(parts, i, p) = p - J(k - 1) /\ Taken(parts, i, q) = q - J(k - 1)
        /\ i # k => Taken(parts, i, q) = Taken(parts, i, p)
  <2> SUFFICES ASSUME NEW i \in 1 .. n
               PROVE  /\ i = k => /\ Taken(parts, i, p) = p - J(k - 1)
                                  /\ Taken(parts, i, q) = q - J(k - 1)
                      /\ i # k => Taken(parts, i, q) = Taken(parts, i, p)
    OBVIOUS
  <2>1. i \in 1 .. Len(parts) /\ parts \in Seq(Seq(S))
    BY <1>1
  <2>2. J(k - 1) <= p /\ p < J(k - 1) + Len(parts[k])
    BY <1>7
  <2>3. p \in Nat /\ q \in Nat /\ q = p + 1 /\ k \in 1 .. Len(parts)
    OBVIOUS
  <2> QED BY <2>1, <2>2, <2>3, TakenNext
<1> DEFINE o == J(k - 1)
           t == p - o
           u == q - o
           part == parts[k]
           v == m[name(k)]
<1>9. k \in 1 .. n
  BY <1>1
<1>10. Shape(codec.encode[k], v, part)
  BY <1>4, <1>9
<1>11. Len(part) \in Nat
  <2> DEFINE T == {part[j] : j \in DOMAIN part}
  <2>1. part \in Seq(T)
    BY <1>10, Zenon DEF Shape
  <2> HIDE DEF T, part
  <2> QED BY <2>1, LenProperties
<1>12. /\ u \in 1 .. Len(part) /\ t \in 0 .. Len(part) - 1 /\ u = t + 1 /\ t \in Nat
       /\ Taken(parts, k, p) = t /\ Taken(parts, k, q) = u /\ field = part[u]
  <2>1. o \in Nat /\ o <= p /\ p < o + Len(part) /\ FlattenSeq(parts)[p + 1] = part[p + 1 - o]
    BY <1>7
  <2>2. Taken(parts, k, p) = t /\ Taken(parts, k, q) = u
    BY <1>8, <1>9
  <2>3. field = part[u]
    BY <1>1, <2>1
  <2> HIDE DEF o, part
  <2>4. u \in 1 .. Len(part) /\ t \in 0 .. Len(part) - 1 /\ u = t + 1 /\ t \in Nat
    BY <1>11, <2>1
  <2> QED BY <2>2, <2>3, <2>4
<1> HIDE DEF o, t, u, part, v, field, J, P
<1>13. field.tag = codec.encode[k][2]
  BY <1>10, <1>12 DEF Shape
<1>14. FieldNumber(field.tag) = k
  BY <1>2, <1>9, <1>13
<1> DEFINE new == IF kind(k) = "repeated" THEN Append(msg[name(k)], field.raw)
                  ELSE Read(kind(k), field.raw)
<1>15. Assigned(codec, msg, field) = [msg EXCEPT ![name(k)] = new]
  BY <1>2, <1>9, <1>14, Zenon DEF Assigned
<1>16. new = P(k, q)
  <2>1. CASE kind(k) = "repeated"
    <3> DEFINE T == {"", "sibling"} \cup Texts
    <3>1. v \in Seq(T) /\ Len(part) = Len(v) /\ field.raw = v[u]
      BY <1>10, <1>12, <2>1 DEF Shape
    <3> HIDE DEF T
    <3>2. msg[name(k)] = SubSeq(v, 1, t)
      BY <1>5, <1>6, <1>9, <1>12, <2>1 DEF v
    <3>3. P(k, q) = SubSeq(v, 1, u)
      BY <1>6, <1>9, <1>12, <2>1 DEF v
    <3>4. t \in 0 .. Len(v) - 1
      BY <1>12, <3>1
    <3>5. Append(SubSeq(v, 1, t), v[t + 1]) = SubSeq(v, 1, t + 1)
      BY <3>1, <3>4, SubSeqNext
    <3> QED BY <1>12, <2>1, <3>1, <3>2, <3>3, <3>5
  <2>2. CASE kind(k) # "repeated"
    <3>1. Len(part) \in {0, 1} /\ field.raw = Written(kind(k), v)
      BY <1>10, <1>12, <2>2 DEF Shape
    <3>2. u = Len(part)
      <4> DEFINE l == Len(part)
      <4>1. u \in 1 .. l /\ (l = 0 \/ l = 1)
        BY <1>12, <3>1, Zenon
      <4> HIDE DEF l
      <4>2. u = l
        BY <4>1
      <4> QED BY <4>2 DEF l
    <3>3. P(k, q) = v
      BY <1>6, <1>9, <1>12, <2>2, <3>2 DEF v, part
    <3>4. Read(kind(k), Written(kind(k), v)) = v
      BY <1>2, <1>9, <2>2, WrittenRead DEF v
    <3> QED BY <2>2, <3>1, <3>3, <3>4
  <2> QED BY <2>1, <2>2
<1> HIDE DEF new
<1>17. ASSUME NEW i \in 1 .. n PROVE Assigned(codec, msg, field)[name(i)] = P(i, q)
  <2>1. CASE i = k
    BY <1>3, <1>15, <1>16, <2>1
  <2>2. CASE i # k
    <3>1. name(i) # name(k)
      BY <1>2, <1>9, <2>2
    <3>2. Assigned(codec, msg, field)[name(i)] = msg[name(i)]
      BY <1>3, <1>15, <3>1
    <3>3. Taken(parts, i, q) = Taken(parts, i, p)
      BY <1>8, <2>2
    <3>4. P(i, q) = P(i, p)
      BY <1>6, <3>3
    <3> QED BY <1>5, <3>2, <3>4
  <2> QED BY <2>1, <2>2
<1>18. DOMAIN Assigned(codec, msg, field) = Names(codec)
  BY <1>15
<1> QED BY <1>1, <1>17, <1>18 DEF P, field
(***************************************************************************)
(* The steps of a message's way.                                           *)
(***************************************************************************)

\* What is left of a sequence, and what is left after its head.
LEMMA RestOf ==
  ASSUME NEW S, NEW all \in Seq(S), NEW p \in 0 .. Len(all)
  PROVE  /\ SubSeq(all, p + 1, Len(all)) \in Seq(S)
         /\ Len(SubSeq(all, p + 1, Len(all))) = Len(all) - p
         /\ p < Len(all) => /\ Head(SubSeq(all, p + 1, Len(all))) = all[p + 1]
                            /\ Tail(SubSeq(all, p + 1, Len(all))) = SubSeq(all, p + 2, Len(all))
         /\ p = Len(all) => SubSeq(all, p + 1, Len(all)) = <<>>
<1> DEFINE e == Len(all)
           r == SubSeq(all, p + 1, e)
           s == SubSeq(all, p + 2, e)
<1>1. e \in Nat /\ p \in Nat /\ p <= e
  OBVIOUS
<1>2. CASE p < e
  <2>1. p + 1 \in 1 .. e /\ p + 1 <= e /\ e - (p + 1) + 1 = e - p
    BY <1>1, <1>2
  <2>2. r \in Seq(S) /\ Len(r) = e - p /\ \A i \in 1 .. e - p : r[i] = all[p + i]
    BY <1>1, <1>2
  <2>3. s \in Seq(S) /\ Len(s) = e - p - 1 /\ \A i \in 1 .. e - p - 1 : s[i] = all[p + 1 + i]
    BY <1>1, <1>2
  <2> HIDE DEF r, s, e
  <2>4. r # <<>> /\ Head(r) = all[p + 1]
    BY <1>1, <1>2, <2>2
  <2>5. Tail(r) = s
    <3>1. Tail(r) \in Seq(S) /\ Len(Tail(r)) = e - p - 1
          /\ \A i \in 1 .. e - p - 1 : Tail(r)[i] = r[i + 1]
      BY <1>1, <1>2, <2>2, <2>4
    <3>2. \A i \in 1 .. e - p - 1 : Tail(r)[i] = s[i]
      <4> SUFFICES ASSUME NEW i \in 1 .. e - p - 1 PROVE Tail(r)[i] = s[i]
        OBVIOUS
      <4> DEFINE j == i + 1
      <4>1. j \in 1 .. e - p /\ p + j = p + 1 + i
        BY <1>1
      <4>2. r[j] = all[p + j]
        BY <2>2, <4>1
      <4> QED BY <2>3, <3>1, <4>1, <4>2
    <3> DEFINE w == Tail(r)
    <3>3. w \in Seq(S) /\ Len(w) = Len(s) /\ \A i \in 1 .. Len(w) : w[i] = s[i]
      BY <2>3, <3>1, <3>2
    <3> HIDE DEF w
    <3>4. w = s
      BY <2>3, <3>3, SeqEqual
    <3> QED BY <3>4 DEF w
  <2>6. p # e
    BY <1>1, <1>2
  <2> QED BY <1>2, <2>2, <2>4, <2>5, <2>6, Zenon DEF r, s, e
<1>3. CASE p = e
  <2>1. p + 1 > e
    BY <1>1, <1>3
  <2>2. r = <<>>
    BY <1>1, <2>1, SubSeqEmpty
  <2> QED BY <1>1, <1>3, <2>2 DEF e
<1> QED BY <1>1, <1>2, <1>3

\* A message's wire is a sequence of its fields.
LEMMA WireType ==
  ASSUME NEW codec, NEW m, Sendable(codec, m)
  PROVE  Encode(codec, m) \in Seq(FieldsOf(codec, m)) /\ Len(Encode(codec, m)) \in Nat
<1> DEFINE parts == Parts(codec, m)
           S == FieldsOf(codec, m)
<1>1. parts \in Seq(Seq(S)) /\ Encode(codec, m) = FlattenSeq(parts)
  BY PartsTypes DEF Encode
<1> HIDE DEF parts, S
<1>2. FlattenSeq(parts) \in Seq(S)
  <2>1. Len(parts) \in 0 .. Len(parts)
    BY <1>1
  <2> QED BY <1>1, <2>1, JoinedParts
<1> QED BY <1>1, <1>2, LenProperties DEF S

\* None of the sender's fields is taken for a peer's.
LEMMA RestKnown ==
  ASSUME NEW codec, NEW m, Sendable(codec, m), NEW p \in 0 .. Len(Encode(codec, m))
  PROVE  LET r == SubSeq(Encode(codec, m), p + 1, Len(Encode(codec, m)))
         IN ~Ahead(codec, r) /\ Left(codec, r) = r
<1> DEFINE all == Encode(codec, m)
           e == Len(all)
           r == SubSeq(all, p + 1, e)
           S == FieldsOf(codec, m)
<1>1. all \in Seq(S) /\ e \in Nat /\ p \in Nat /\ p <= e
  BY WireType
<1>2. p < e => FieldNumber(all[p + 1].tag) \in DOMAIN codec.decode
  BY <1>1, KnownFields
<1> HIDE DEF S, all
<1>3. /\ p < e => Head(r) = all[p + 1]
      /\ p = e => r = <<>>
  BY <1>1, RestOf DEF all
<1> HIDE DEF r, e
<1>4. ~Ahead(codec, r)
  BY <1>1, <1>2, <1>3 DEF Ahead
<1> QED BY <1>4 DEF Left, r, e, all

\* Reading a field: the sender's next one, or the peer's, which changes nothing.
LEMMA ReadNext ==
  ASSUME NEW codec, NEW m, Sendable(codec, m), NEW w, w # <<>>,
         NEW msg, DOMAIN msg = Names(codec),
         NEW p \in 0 .. Len(Encode(codec, m)), ReadTo(codec, m, w, msg, p)
  PROVE  /\ DOMAIN Assigned(codec, msg, Head(w)) = Names(codec)
         /\ \E q \in 0 .. Len(Encode(codec, m)) :
              ReadTo(codec, m, Tail(w), Assigned(codec, msg, Head(w)), q)
         /\ ~Ahead(codec, Tail(w))
<1> DEFINE all == Encode(codec, m)
           e == Len(all)
           S == FieldsOf(codec, m)
           r(i) == SubSeq(all, i + 1, e)
<1>1. all \in Seq(S) /\ e \in Nat
  BY WireType
<1>2. \A i \in 0 .. e : /\ ~Ahead(codec, r(i)) /\ Left(codec, r(i)) = r(i)
  BY RestKnown
<1>3. Left(codec, w) = r(p) /\ Len(Left(codec, w)) = e - p
  BY DEF ReadTo
<1>4. \A i \in DOMAIN codec.encode : msg[codec.encode[i][1]] = Partial(codec, m, i, p)
  BY DEF ReadTo
<1>5. CASE Ahead(codec, w)
  <2>1. Tail(w) = r(p)
    BY <1>3, <1>5 DEF Left
  <2>2. Assigned(codec, msg, Head(w)) = msg
    BY <1>5 DEF Ahead, Assigned
  <2>3. Left(codec, Tail(w)) = r(p) /\ ~Ahead(codec, Tail(w)) /\ Len(Left(codec, Tail(w))) = e - p
    BY <1>2, <1>3, <1>5, <2>1 DEF Left
  <2>4. ReadTo(codec, m, Tail(w), msg, p)
    BY <1>4, <2>3 DEF ReadTo
  <2> QED BY <2>2, <2>3, <2>4
<1>6. CASE ~Ahead(codec, w)
  <2>1. w = r(p)
    BY <1>3, <1>6 DEF Left
  <2>2. p < e
    <3>1. p = e => r(p) = <<>>
      BY <1>1, RestOf
    <3> QED BY <1>1, <2>1, <3>1
  <2> DEFINE q == p + 1
  <2>3. q \in 0 .. e /\ q = p + 1 /\ q \in Nat /\ p \in Nat
    BY <1>1, <2>2
  <2>4. Head(w) = all[q] /\ Tail(w) = r(q)
    <3>1. Head(r(p)) = all[p + 1] /\ Tail(r(p)) = SubSeq(all, p + 2, e)
      BY <1>1, <2>2, RestOf
    <3>2. q + 1 = p + 2
      BY <2>3
    <3> QED BY <2>1, <3>1, <3>2
  <2> HIDE DEF q
  <2>5. /\ DOMAIN Assigned(codec, msg, all[q]) = Names(codec)
        /\ \A i \in DOMAIN codec.encode :
             Assigned(codec, msg, all[q])[codec.encode[i][1]] = Partial(codec, m, i, q)
    BY <1>4, <2>2, <2>3, PartialNext
  <2>6. Left(codec, Tail(w)) = r(q) /\ ~Ahead(codec, Tail(w)) /\ Len(Left(codec, Tail(w))) = e - q
    <3>1. Len(r(q)) = e - q
      BY <1>1, <2>3, RestOf
    <3> QED BY <1>2, <2>3, <2>4, <3>1
  <2>7. ReadTo(codec, m, Tail(w), Assigned(codec, msg, Head(w)), q)
    BY <2>4, <2>5, <2>6 DEF ReadTo
  <2> QED BY <2>3, <2>4, <2>5, <2>6, <2>7
<1> QED BY <1>5, <1>6
\* A builder's message can be sent.
LEMMA BuildSendable ==
  ASSUME NEW t \in Types, NEW in, DOMAIN in = Names(CodecOf(t)),
         \A x \in DOMAIN in : in[x] \in Inputs(t, x)
  PROVE  Sendable(CodecOf(t), Build(t, in)) /\ DOMAIN Build(t, in) = Names(CodecOf(t))
<1>1. Agree(CodecOf(t))
  BY TablesAgree
<1>2. \A i \in DOMAIN CodecOf(t).decode :
        Typed(CodecOf(t).decode[i][2], Build(t, in)[CodecOf(t).decode[i][1]])
  BY BuildTyped
<1>3. DOMAIN Build(t, in) = DOMAIN in
  BY DEF Build
<1> QED BY <1>1, <1>2, <1>3 DEF Sendable

\* A message begins with nothing asked for.
LEMMA CodecStarts == ASSUME CodecInit PROVE CodecInv
BY DEF CodecInit, CodecInv, AskInv, DecodeInv

\* Every step keeps a message's way between two fields.
LEMMA CodecStep == ASSUME CodecInv, [CodecNext]_codecVars PROVE CodecInv'
<1> DEFINE codec == CodecOf(msgType)
           m == Build(msgType, input)
           e == Len(Encode(codec, m))
<1>0. AskInv /\ DecodeInv
  BY DEF CodecInv
<1>1. CASE Ask
  <2> DEFINE fields == codec.decode
  <2>1. /\ wirePc = "ask" /\ wirePc' = "ask" /\ msgType' = msgType
        /\ \E i \in DOMAIN fields : \E v \in Inputs(msgType, fields[i][1]) :
             input' = [x \in DOMAIN input \cup {fields[i][1]} |->
                         IF x = fields[i][1] THEN v ELSE input[x]]
    BY <1>1, Zenon DEF Ask
  <2>2. PICK i \in DOMAIN fields : \E v \in Inputs(msgType, fields[i][1]) :
             input' = [x \in DOMAIN input \cup {fields[i][1]} |->
                         IF x = fields[i][1] THEN v ELSE input[x]]
    BY <2>1
  <2> DEFINE n == fields[i][1]
  <2>3. n \in Names(codec)
    <3>1. Agree(codec)
      BY <1>0, TablesAgree DEF AskInv
    <3> QED BY <3>1, NamesAndKinds
  <2> HIDE DEF n
  <2>4. PICK v \in Inputs(msgType, n) :
             input' = [x \in DOMAIN input \cup {n} |-> IF x = n THEN v ELSE input[x]]
    BY <2>2 DEF n
  <2>5. AskInv'
    BY <1>0, <2>1, <2>3, <2>4 DEF AskInv
  <2>6. DecodeInv'
    BY <2>1 DEF DecodeInv
  <2> QED BY <2>5, <2>6 DEF CodecInv
<1>2. CASE Send
  <2>1. /\ wirePc = "ask" /\ wirePc' = "decode" /\ msgType' = msgType /\ input' = input
        /\ DOMAIN input = Names(codec) /\ wire' = Encode(codec, m)
        /\ message' = [n \in DOMAIN input |-> Default(KindOf(codec, n))]
    BY <1>2 DEF Send
  <2>2. AskInv'
    BY <1>0, <2>1 DEF AskInv
  <2>3. Sendable(codec, m) /\ Agree(codec)
    BY <1>0, <2>1, BuildSendable DEF AskInv, Sendable
  <2>4. \A i \in DOMAIN codec.encode :
          /\ codec.encode[i][1] \in DOMAIN input
          /\ KindOf(codec, codec.encode[i][1]) = codec.encode[i][3]
    <3>1. \A i \in DOMAIN codec.decode :
            /\ KindOf(codec, codec.decode[i][1]) = codec.decode[i][2]
            /\ codec.decode[i][1] \in Names(codec)
      BY <2>3, NamesAndKinds
    <3> QED BY <2>1, <2>3, <3>1 DEF Agree
  <2> HIDE DEF codec, m
  <2>5. Encode(codec, m) \in Seq(FieldsOf(codec, m)) /\ e \in Nat
    BY <2>3, WireType
  <2>6. SubSeq(Encode(codec, m), 0 + 1, e) = Encode(codec, m)
    <3> DEFINE w == Encode(codec, m)
               u == SubSeq(w, 0 + 1, Len(w))
               S == FieldsOf(codec, m)
    <3>1. w \in Seq(S) /\ Len(w) \in Nat
      BY <2>5
    <3> HIDE DEF w, S
    <3>2. u \in Seq(S) /\ Len(u) = Len(w) /\ \A j \in 1 .. Len(w) : u[j] = w[j]
      BY <3>1, SubSeqProperties
    <3> HIDE DEF u
    <3>3. u = w
      BY <3>1, <3>2, SeqEqual
    <3> QED BY <3>3 DEF u, w
  <2>7. ~Ahead(codec, Encode(codec, m)) /\ Left(codec, Encode(codec, m)) = Encode(codec, m)
    <3>1. 0 \in 0 .. e
      BY <2>5
    <3> QED BY <2>3, <2>6, <3>1, RestKnown
  <2>8. \A i \in DOMAIN codec.encode : message'[codec.encode[i][1]] = Partial(codec, m, i, 0)
    <3> SUFFICES ASSUME NEW i \in DOMAIN codec.encode
                 PROVE  message'[codec.encode[i][1]] = Partial(codec, m, i, 0)
      OBVIOUS
    <3>1. message'[codec.encode[i][1]] = Default(codec.encode[i][3])
      BY <2>1, <2>4
    <3>2. Partial(codec, m, i, 0) = Default(codec.encode[i][3])
      BY <2>3, PartialEnds, Zenon
    <3> QED BY <3>1, <3>2
  <2>9. ReadTo(codec, m, wire', message', 0)
    <3>1. Left(codec, wire') = SubSeq(Encode(codec, m), 0 + 1, e)
      BY <2>1, <2>6, <2>7, Zenon
    <3>2. Len(Left(codec, wire')) = e
      BY <2>1, <2>7, Zenon
    <3>3. e - 0 = e
      BY <2>5
    <3> QED BY <2>8, <3>1, <3>2, <3>3, Zenon DEF ReadTo, e
  <2>10. \E p \in 0 .. e : ReadTo(codec, m, wire', message', p)
    <3>1. 0 \in 0 .. e
      BY <2>5
    <3> QED BY <2>9, <3>1
  <2>11. DecodeInv'
    BY <2>1, <2>7, <2>10 DEF DecodeInv, codec, m, e
  <2> QED BY <2>2, <2>11 DEF CodecInv
<1>3. CASE PeerAddsField
  <2>1. PICK tag \in {120, 122} : wire' = <<[tag |-> tag, raw |-> "unknown"]>> \o wire
    BY <1>3 DEF PeerAddsField
  <2>2. /\ wirePc = "decode" /\ ~extended /\ extended' = TRUE
        /\ wirePc' = wirePc /\ msgType' = msgType /\ input' = input /\ message' = message
    BY <1>3 DEF PeerAddsField
  <2>3. AskInv'
    BY <1>0, <2>2 DEF AskInv
  <2>4. Sendable(codec, m) /\ Agree(codec)
    BY <1>0, <2>2, BuildSendable DEF AskInv, Sendable
  <2>5. PICK p \in 0 .. e : ReadTo(codec, m, wire, message, p)
    BY <1>0, <2>2 DEF DecodeInv
  <2>6. ~Ahead(codec, wire)
    BY <1>0, <2>2 DEF DecodeInv
  <2> HIDE DEF codec, m
  <2> DEFINE S == FieldsOf(codec, m) \cup {[tag |-> tag, raw |-> "unknown"]}
             field == [tag |-> tag, raw |-> "unknown"]
  <2>7. wire \in Seq(S) /\ field \in S
    <3>1. Left(codec, wire) = SubSeq(Encode(codec, m), p + 1, e) /\ Left(codec, wire) = wire
      BY <2>5, <2>6 DEF ReadTo, Left
    <3>2. Encode(codec, m) \in Seq(FieldsOf(codec, m))
      BY <2>4, WireType
    <3>3. wire \in Seq(FieldsOf(codec, m))
      <4> DEFINE all == Encode(codec, m)
                 T == FieldsOf(codec, m)
      <4>1. all \in Seq(T) /\ p \in 0 .. Len(all) /\ wire = SubSeq(all, p + 1, Len(all))
        BY <3>1, <3>2
      <4> HIDE DEF all, T
      <4>2. SubSeq(all, p + 1, Len(all)) \in Seq(T)
        BY <4>1, RestOf
      <4> QED BY <4>1, <4>2 DEF T
    <3>4. FieldsOf(codec, m) \subseteq S
      OBVIOUS
    <3> HIDE DEF S
    <3>5. wire \in Seq(S)
      BY <3>3, <3>4, SeqMonotonic
    <3> QED BY <3>5 DEF S
  <2>8. field.tag = tag
    OBVIOUS
  <2> HIDE DEF S, field
  <2>9. wire' # <<>> /\ Head(wire') = field /\ Tail(wire') = wire
    <3>1. wire' = <<field>> \o wire
      BY <2>1 DEF field
    <3> DEFINE w == <<field>> \o wire
    <3>2. w \in Seq(S) /\ Len(w) = Len(wire) + 1 /\ Len(wire) \in Nat /\ w[1] = field
          /\ \A j \in 1 .. Len(wire) : w[j + 1] = wire[j]
      BY <2>7
    <3> HIDE DEF w
    <3>3. w # <<>> /\ Head(w) = field
      BY <3>2
    <3> DEFINE u == Tail(w)
    <3>4. u \in Seq(S) /\ Len(u) = Len(wire) /\ \A j \in 1 .. Len(wire) : u[j] = wire[j]
      BY <3>2, <3>3
    <3> HIDE DEF u
    <3>5. u = wire
      BY <2>7, <3>4, SeqEqual
    <3> QED BY <3>1, <3>3, <3>5 DEF w, u
  <2>10. Ahead(codec, wire')
    <3>1. FieldNumber(tag) = 15
      BY DEF FieldNumber
    <3>2. 15 \notin DOMAIN codec.decode
      BY <2>4 DEF Agree
    <3> QED BY <2>8, <2>9, <3>1, <3>2 DEF Ahead
  <2>11. Left(codec, wire') = Left(codec, wire)
    BY <2>6, <2>9, <2>10 DEF Left
  <2>12. ReadTo(codec, m, wire', message', p)
    BY <2>2, <2>5, <2>11 DEF ReadTo
  <2>13. DecodeInv'
    <3>1. \E r \in 0 .. e : ReadTo(codec, m, wire', message', r)
      BY <2>12
    <3>2. DOMAIN message = DOMAIN input
      BY <1>0, <2>2 DEF DecodeInv
    <3> QED BY <2>2, <3>1, <3>2 DEF DecodeInv, codec, m
  <2> QED BY <2>3, <2>13 DEF CodecInv
<1>4. CASE DecodeField
  <2>1. /\ wirePc = "decode" /\ wire # <<>> /\ message' = Assigned(codec, message, Head(wire))
        /\ wire' = Tail(wire) /\ wirePc' = wirePc /\ msgType' = msgType /\ input' = input
        /\ extended' = extended
    BY <1>4 DEF DecodeField
  <2>2. AskInv'
    BY <1>0, <2>1 DEF AskInv
  <2>3. Sendable(codec, m) /\ DOMAIN input = Names(codec)
    BY <1>0, <2>1, BuildSendable DEF AskInv
  <2>4. DOMAIN message = DOMAIN input /\ \E p \in 0 .. e : ReadTo(codec, m, wire, message, p)
    BY <1>0, <2>1 DEF DecodeInv
  <2> HIDE DEF codec, m
  <2>5. PICK p \in 0 .. e : ReadTo(codec, m, wire, message, p)
    BY <2>4
  <2>6. /\ DOMAIN message' = Names(codec)
        /\ \E q \in 0 .. e : ReadTo(codec, m, wire', message', q)
        /\ ~Ahead(codec, wire')
    BY <2>1, <2>3, <2>4, <2>5, ReadNext
  <2>7. DecodeInv'
    BY <2>1, <2>3, <2>6 DEF DecodeInv, codec, m
  <2> QED BY <2>2, <2>7 DEF CodecInv
<1>5. CASE DecodeEnds
  BY <1>0, <1>5 DEF DecodeEnds, CodecInv, AskInv, DecodeInv
<1>6. CASE UNCHANGED codecVars
  BY <1>0, <1>6 DEF codecVars, CodecInv, AskInv, DecodeInv
<1> QED BY <1>1, <1>2, <1>3, <1>4, <1>5, <1>6 DEF CodecNext

\* At the end every field is read, and each is what the builder made of what was
\* asked for.
LEMMA EndedAsAsked == ASSUME CodecInv PROVE DecodedAsAsked
<1> SUFFICES ASSUME wirePc = "decoded", NEW x \in DOMAIN input
             PROVE  \/ message[x] = input[x]
                    \/ input[x] = Absent /\ message[x] = Default(KindOf(CodecOf(msgType), x))
                    \/ x = "vmType" /\ input[x] = "native" /\ message[x] = "cosmwasm"
  BY DEF DecodedAsAsked
<1> DEFINE codec == CodecOf(msgType)
           m == Build(msgType, input)
           e == Len(Encode(codec, m))
<1>1. Sendable(codec, m) /\ DOMAIN input = Names(codec) /\ msgType \in Types
  BY BuildSendable DEF CodecInv, AskInv
<1>2. wire = <<>> /\ \E p \in 0 .. e : ReadTo(codec, m, wire, message, p)
  BY DEF CodecInv, DecodeInv
<1>3. PICK p \in 0 .. e : ReadTo(codec, m, wire, message, p)
  BY <1>2
<1>4. m[x] = IF input[x] = Absent THEN Default(KindOf(codec, x))
             ELSE IF msgType = "MsgCreateRollup" /\ x = "vmType" THEN vmTypeWireValue(input[x])
             ELSE input[x]
  BY DEF Build
<1> HIDE DEF codec, m
<1>5. e \in Nat
  BY <1>1, WireType
<1>6. p = e
  <2>1. Left(codec, wire) = <<>>
    BY <1>2 DEF Left, Ahead
  <2>2. Len(Left(codec, wire)) = e - p
    BY <1>3 DEF ReadTo
  <2>3. Len(<<>>) = 0
    OBVIOUS
  <2>4. e - p = 0
    BY <2>1, <2>2, <2>3
  <2> QED BY <1>5, <2>4
<1>7. PICK i \in DOMAIN codec.encode : x = codec.encode[i][1]
  <2>1. Agree(codec)
    BY <1>1 DEF Sendable
  <2>2. PICK i \in DOMAIN codec.decode : x = codec.decode[i][1]
    BY <1>1, <2>1, NamesAndKinds
  <2> QED BY <2>1, <2>2 DEF Agree
<1>8. message[x] = Partial(codec, m, i, e)
  BY <1>3, <1>6, <1>7 DEF ReadTo
<1>9. Partial(codec, m, i, e) = m[x]
  BY <1>1, <1>7, PartialEnds
<1> QED BY <1>4, <1>8, <1>9 DEF vmTypeWireValue, codec

\* Whatever is asked for, of any registered type, however the peer's fields come in
\* between: the decoder of tx/codecs.ts ends with what the caller of the builders of
\* tx/messages.ts asked for, under every name.
THEOREM CodecsRoundTrip == CodecSpec => []DecodedAsAsked
<1>1. CodecInit => CodecInv
  BY CodecStarts
<1>2. CodecInv /\ [CodecNext]_codecVars => CodecInv'
  BY CodecStep
<1>3. CodecInv => DecodedAsAsked
  BY EndedAsAsked
<1> QED BY <1>1, <1>2, <1>3, PTL DEF CodecSpec

=============================================================================
