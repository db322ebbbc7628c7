------------------------- MODULE ErrorLibraryProofs -------------------------
(***************************************************************************)
(* The checksum on every packet that the programs can send, and the safety *)
(* properties of ErrorLibrary for every set of packets, every environment, *)
(* and any number of messages and of calls of sendErr_init.                *)
(*                                                                         *)
(* WordSum and runMsgEvents are recursive functions, so what they compute  *)
(* is proved by induction; the library's induction theorems take operators *)
(* as parameters, SetInduction a set.                                      *)
(***************************************************************************)
EXTENDS ErrorLibrary, TLAPS, FiniteSetTheorems, FunctionTheorems

\* A set with 0 that is closed under the successor has every number.  If m were
\* missing, so would be the predecessor of each missing number: an injection of
\* the numbers missing up to m into themselves, which cannot reach m.
LEMMA SetInduction ==
  ASSUME NEW T, 0 \in T, \A n \in Nat : n \in T => n + 1 \in T
  PROVE  \A n \in Nat : n \in T
<1> SUFFICES ASSUME NEW m \in Nat, m \notin T PROVE FALSE
  OBVIOUS
<1> DEFINE U == {n \in 0 .. m : n \notin T}
           f == [n \in U |-> n - 1]
<1>1. \A n \in U : n - 1 \in U
  OBVIOUS
<1>2. IsFiniteSet(U)
  <2>1. IsFiniteSet(0 .. m) /\ U \in SUBSET (0 .. m)
    BY FS_Interval
  <2> QED
    BY <2>1, FS_Subset
<1>3. f \in Injection(U, U)
  <2>1. f \in [U -> U]
    BY <1>1
  <2>2. \A a, b \in U : f[a] = f[b] => a = b
    OBVIOUS
  <2> QED
    BY <2>1, <2>2 DEF Injection, IsInjective
<1>4. m \in U
  OBVIOUS
<1> HIDE DEF U
<1>5. f \in Surjection(U, U)
  BY <1>2, <1>3, FS_Injection
<1>6. PICK n \in U : f[n] = m
  BY <1>4, <1>5 DEF Surjection
<1> QED
  BY <1>6 DEF U

-----------------------------------------------------------------------------
(***************************************************************************)
(* The sum of the words of a packet.                                       *)
(***************************************************************************)
\* What a byte counts: it is the low or the high byte of its word.
Weight(i) == IF i % 2 = 1 THEN 1 ELSE 256

\* g has the sums of the first bytes of buf, up to the first k.
PartialSums(g, buf, k) ==
  g = [i \in 0 .. k |-> IF i = 0 THEN 0 ELSE g[i - 1] + Weight(i) * buf[i]]

LEMMA PartialSumsExist ==
  ASSUME NEW buf
  PROVE  \A k \in Nat : \E g : PartialSums(g, buf, k)
<1> DEFINE T == {k \in Nat : \E g : PartialSums(g, buf, k)}
<1>1. 0 \in T
  <2>1. PartialSums([i \in 0 .. 0 |-> 0], buf, 0)
    BY DEF PartialSums
  <2> QED
    BY <2>1
<1>2. ASSUME NEW k \in Nat, k \in T PROVE k + 1 \in T
  <2>1. PICK g : PartialSums(g, buf, k)
    BY <1>2
  <2> DEFINE v == g[k] + Weight(k + 1) * buf[k + 1]
             h == [i \in 0 .. k + 1 |-> IF i <= k THEN g[i] ELSE v]
  <2>2. PartialSums(h, buf, k + 1)
    <3>1. \A i \in 0 .. k : g[i] = IF i = 0 THEN 0 ELSE g[i - 1] + Weight(i) * buf[i]
      BY <2>1 DEF PartialSums
    <3>2. h[k + 1] = v /\ h[k] = g[k] /\ \A i \in 0 .. k : h[i] = g[i]
      BY DEF h
    <3>3. \A i \in 0 .. k + 1 : h[i] = IF i = 0 THEN 0 ELSE h[i - 1] + Weight(i) * buf[i]
      <4> HIDE DEF h
      <4> TAKE i \in 0 .. k + 1
      <4>1. CASE i \in 0 .. k
        <5>1. i # 0 => i - 1 \in 0 .. k
          BY <4>1
        <5> QED
          BY <3>1, <3>2, <4>1, <5>1
      <4>2. CASE i = k + 1
        BY <3>2, <4>2
      <4> QED
        BY <4>1, <4>2
    <3>4. h = [i \in 0 .. k + 1 |-> h[i]]
      OBVIOUS
    <3> HIDE DEF h
    <3> QED
      BY <3>3, <3>4 DEF PartialSums
  <2> HIDE DEF h
  <2>3. \E hh : PartialSums(hh, buf, k + 1)
    BY <2>2
  <2> QED
    BY <2>3
<1>3. \A k \in Nat : k \in T
  <2> HIDE DEF T
  <2> QED
    BY <1>1, <1>2, SetInduction
<1> QED
  BY <1>3

\* WordSum is the last of them.
LEMMA WordSumIsLast ==
  ASSUME NEW buf, Len(buf) \in Nat
  PROVE  \E g : /\ WordSum(buf) = g[Len(buf)]
                /\ g[0] = 0
                /\ \A i \in 1 .. Len(buf) : g[i] = g[i - 1] + Weight(i) * buf[i]
<1>1. PICK g : PartialSums(g, buf, Len(buf))
  BY PartialSumsExist
<1>2. \E h : PartialSums(h, buf, Len(buf)) /\ WordSum(buf) = h[Len(buf)]
  BY <1>1, Zenon DEF WordSum, PartialSums, Weight
<1>3. PICK h : WordSum(buf) = h[Len(buf)] /\ PartialSums(h, buf, Len(buf))
  BY <1>2
<1>4. /\ h[0] = 0
      /\ \A i \in 1 .. Len(buf) : h[i] = h[i - 1] + Weight(i) * buf[i]
  BY <1>3 DEF PartialSums
<1> QED
  BY <1>3, <1>4

\* What the register of in_cksum holds: it has 31 bits.
Sums == {n \in Nat : n < 2147483648}

\* The register of in_cksum is wide enough for every packet.
LEMMA WordSumBounded ==
  ASSUME NEW buf \in Seq(Byte), Len(buf) <= PDU_HEADER_LEN + MaxPayload
  PROVE  WordSum(buf) \in Sums
<1>0. Len(buf) \in Nat
  OBVIOUS
<1>1. PICK g : /\ WordSum(buf) = g[Len(buf)]
               /\ g[0] = 0
               /\ \A i \in 1 .. Len(buf) : g[i] = g[i - 1] + Weight(i) * buf[i]
  BY <1>0, WordSumIsLast
<1> DEFINE T == {k \in Nat : k <= Len(buf) => g[k] \in Nat /\ g[k] <= 65280 * k}
<1>2. 0 \in T
  BY <1>1
<1>3. ASSUME NEW k \in Nat, k \in T, k + 1 <= Len(buf)
      PROVE  g[k + 1] \in Nat /\ g[k + 1] <= 65280 * (k + 1)
  <2>1. k + 1 \in 1 .. Len(buf) /\ (k + 1) - 1 = k
    BY <1>0, <1>3
  <2>2. g[k + 1] = g[k] + Weight(k + 1) * buf[k + 1]
    BY <1>1, <2>1
  <2>3. g[k] \in Nat /\ g[k] <= 65280 * k
    BY <1>0, <1>3
  <2>4. buf[k + 1] \in Nat /\ buf[k + 1] <= 255
    <3>1. buf[k + 1] \in Byte
      BY <2>1
    <3>2. \A c \in Byte : c \in Nat /\ c <= 255
      BY DEF Byte
    <3> QED
      BY <3>1, <3>2
  <2>5. Weight(k + 1) = 1 \/ Weight(k + 1) = 256
    BY DEF Weight
  <2> QED
    BY <2>2, <2>3, <2>4, <2>5
<1>4. \A n \in Nat : n \in T => n + 1 \in T
  BY <1>3
<1>5. \A n \in Nat : n \in T
  <2> HIDE DEF T
  <2> QED
    BY <1>2, <1>4, SetInduction
<1>6. g[Len(buf)] \in Nat /\ g[Len(buf)] <= 65280 * Len(buf)
  BY <1>0, <1>5
<1> QED
  BY <1>0, <1>1, <1>6 DEF Sums, PDU_HEADER_LEN, MaxPayload

\* A byte that is changed changes the sum by what it counts.
LEMMA ByteChanged ==
  ASSUME NEW buf \in Seq(Byte), NEW j \in 1 .. Len(buf), NEW b \in Byte
  PROVE  WordSum([buf EXCEPT ![j] = b]) = WordSum(buf) + Weight(j) * (b - buf[j])
<1> DEFINE new == [buf EXCEPT ![j] = b]
           d == Weight(j) * (b - buf[j])
<1>0. /\ Len(buf) \in Nat /\ j \in Nat /\ 1 <= j /\ j <= Len(buf)
      /\ Len(new) = Len(buf)
      /\ \A i \in 1 .. Len(buf) : buf[i] \in Int
      /\ b \in Int
  <2>1. \A i \in 1 .. Len(buf) : buf[i] \in Byte
    OBVIOUS
  <2>2. \A c \in Byte : c \in Int
    BY DEF Byte
  <2> QED
    BY <2>1, <2>2
<1>1. \A i \in 1 .. Len(buf) : new[i] = IF i = j THEN b ELSE buf[i]
  OBVIOUS
<1>2. WordSum(new) = WordSum(buf) + d
  <2> HIDE DEF new
  <2>1. PICK g : /\ WordSum(buf) = g[Len(buf)]
                 /\ g[0] = 0
                 /\ \A i \in 1 .. Len(buf) : g[i] = g[i - 1] + Weight(i) * buf[i]
    BY <1>0, WordSumIsLast
  <2>2. PICK h : /\ WordSum(new) = h[Len(new)]
                 /\ h[0] = 0
                 /\ \A i \in 1 .. Len(new) : h[i] = h[i - 1] + Weight(i) * new[i]
    BY <1>0, WordSumIsLast
  <2> DEFINE T == {k \in Nat : k <= Len(buf) =>
                     g[k] \in Int /\ h[k] = g[k] + IF j <= k THEN d ELSE 0}
  <2>3. 0 \in T
    BY <1>0, <2>1, <2>2
  <2>4. ASSUME NEW k \in Nat, k \in T, k + 1 <= Len(buf)
        PROVE  g[k + 1] \in Int /\ h[k + 1] = g[k + 1] + IF j <= k + 1 THEN d ELSE 0
    <3>1. k + 1 \in 1 .. Len(buf) /\ (k + 1) - 1 = k
      BY <1>0, <2>4
    <3>2. /\ g[k + 1] = g[k] + Weight(k + 1) * buf[k + 1]
          /\ h[k + 1] = h[k] + Weight(k + 1) * new[k + 1]
      BY <1>0, <2>1, <2>2, <3>1
    <3>3. g[k] \in Int /\ h[k] = g[k] + IF j <= k THEN d ELSE 0
      BY <1>0, <2>4
    <3>4. Weight(k + 1) \in Int /\ Weight(j) \in Int
      BY DEF Weight
    <3>5. buf[k + 1] \in Int /\ buf[j] \in Int
      BY <1>0, <3>1
    <3>6. CASE j = k + 1
      <4>1. new[k + 1] = b /\ ~(j <= k) /\ j <= k + 1
        BY <1>0, <1>1, <3>1, <3>6
      <4>2. Weight(k + 1) * b = Weight(k + 1) * buf[k + 1] + d
        BY <1>0, <3>4, <3>5, <3>6
      <4> QED
        <5>1. Weight(k + 1) * buf[k + 1] \in Int /\ d \in Int
          BY <1>0, <3>4, <3>5
        <5>2. g[k + 1] = g[k] + Weight(k + 1) * buf[k + 1]
              /\ h[k + 1] = g[k] + (Weight(k + 1) * buf[k + 1] + d)
          BY <3>2, <3>3, <4>1, <4>2
        <5> HIDE DEF d
        <5> QED
          BY <3>3, <4>1, <5>1, <5>2
    <3>7. CASE j # k + 1
      <4>1. new[k + 1] = buf[k + 1] /\ (j <= k <=> j <= k + 1)
        BY <1>0, <1>1, <3>1, <3>7
      <4>2. d \in Int
        BY <1>0, <3>4, <3>5
      <4>3. Weight(k + 1) * buf[k + 1] \in Int
        BY <3>4, <3>5
      <4> HIDE DEF d
      <4> QED
        BY <3>2, <3>3, <4>1, <4>2, <4>3
    <3> QED
      BY <3>6, <3>7
  <2>5. \A n \in Nat : n \in T => n + 1 \in T
    BY <1>0, <2>4
  <2>6. \A n \in Nat : n \in T
    <3> HIDE DEF T
    <3> QED
      BY <2>3, <2>5, SetInduction
  <2>7. h[Len(buf)] = g[Len(buf)] + d
    BY <1>0, <2>6
  <2> QED
    BY <1>0, <2>1, <2>2, <2>7
<1> QED
  BY <1>2

-----------------------------------------------------------------------------
(***************************************************************************)
(* The carries.                                                            *)
(***************************************************************************)
Words == {n \in Nat : n < 65536}

\* n is a multiple of 2^16 - 1.
Full(n) == \E k \in Nat : n = 65535 * k

\* The two additions of carries give a word that differs from the sum by a
\* multiple of 2^16 - 1, and that is 0 for the sum 0 only.
LEMMA FoldIsResidue ==
  ASSUME NEW sum \in Sums
  PROVE  /\ Fold(sum) \in Words
         /\ Full(sum - Fold(sum))
         /\ Fold(sum) = 0 => sum = 0
  <1> DEFINE q == sum \div 65536
             r == sum % 65536
             once == q + r
  <1>1. /\ q \in Nat /\ q < 32768
        /\ r \in Nat /\ r < 65536
        /\ sum = 65536 * q + r
    BY SMT DEF Sums
  <1>2. Fold(sum) = (once + (once \div 65536)) % 65536
    BY SMT DEF Fold
  <1> HIDE DEF q, r
  <1>3. CASE once < 65536
    <2>1. Fold(sum) = once
      BY <1>1, <1>2, <1>3, SMT
    <2>2. sum - Fold(sum) = 65535 * q
      BY <1>1, <2>1, SMT
    <2> QED  BY <1>1, <1>3, <2>1, <2>2, SMT DEF Full, Words
  <1>4. CASE once >= 65536
    <2>1. once \div 65536 = 1
      BY <1>1, <1>4, SMT
    <2>2. (once + 1) % 65536 = once - 65535
      BY <1>1, <1>4, SMT
    <2>3. Fold(sum) = once - 65535
      BY <1>2, <2>1, <2>2, SMT
    <2> DEFINE k == q + 1
    <2>4. k \in Nat /\ sum - Fold(sum) = 65535 * k
      BY <1>1, <2>3, SMT
    <2> HIDE DEF k
    <2>5. Full(sum - Fold(sum))
      BY <2>4, SMT DEF Full
    <2> QED  BY <1>1, <1>4, <2>3, <2>5, SMT DEF Words
  <1> QED  BY <1>1, <1>3, <1>4, SMT

\* Hence in_cksum gives 0 for the positive multiples of 2^16 - 1 only.
LEMMA AcceptedSums ==
  ASSUME NEW sum \in Sums
  PROVE  65535 - Fold(sum) = 0 <=> sum > 0 /\ Full(sum)
  <1>1. /\ Fold(sum) \in Words
        /\ Full(sum - Fold(sum))
        /\ Fold(sum) = 0 => sum = 0
    BY FoldIsResidue, SMT
  <1>2. PICK k \in Nat : sum - Fold(sum) = 65535 * k
    BY <1>1 DEF Full
  <1>3. ASSUME Fold(sum) = 65535
        PROVE  sum > 0 /\ Full(sum)
    <2>1. sum = 65535 * (k + 1)
      BY <1>2, <1>3, SMT DEF Sums
    <2> QED  BY <2>1, SMT DEF Full
  <1>4. ASSUME sum > 0, Full(sum)
        PROVE  Fold(sum) = 65535
    <2>1. PICK m \in Nat : sum = 65535 * m
      BY <1>4 DEF Full
    <2>2. Fold(sum) = 65535 * (m - k)
      BY <1>1, <1>2, <2>1, SMT DEF Words
    <2>3. Fold(sum) # 0
      BY <1>1, <1>4, SMT
    <2> QED  BY <1>1, <2>2, <2>3, SMT DEF Words
  <1> QED  BY <1>1, <1>3, <1>4, SMT DEF Words

\* Adding to a sum what in_cksum makes of it gives an accepted sum.
LEMMA SealedSumAccepted ==
  ASSUME NEW sum \in Sums,
         sum + (65535 - Fold(sum)) \in Sums
  PROVE  65535 - Fold(sum + (65535 - Fold(sum))) = 0
  <1>1. /\ Fold(sum) \in Words
        /\ Full(sum - Fold(sum))
        /\ Fold(sum) = 0 => sum = 0
    BY FoldIsResidue, SMT
  <1>2. PICK k \in Nat : sum - Fold(sum) = 65535 * k
    BY <1>1 DEF Full
  <1> DEFINE sealed == sum + (65535 - Fold(sum))
  <1>3. sealed = 65535 * (k + 1)
    BY <1>1, <1>2, SMT DEF Sums, Words
  <1> HIDE DEF sealed
  <1>4. sealed > 0 /\ Full(sealed)
    BY <1>3, SMT DEF Full
  <1> QED  BY <1>4, AcceptedSums DEF sealed

\* Inverting a byte b, which counts once or 256 times, takes an accepted sum
\* to one that is not accepted.
LEMMA InvertedSumRejected ==
  ASSUME NEW sum \in Sums,
         NEW b \in Byte,
         NEW weight \in {1, 256},
         sum + weight * (255 - 2 * b) \in Sums,
         65535 - Fold(sum) = 0
  PROVE  65535 - Fold(sum + weight * (255 - 2 * b)) # 0
  <1> DEFINE d == weight * (255 - 2 * b)
  <1>1. b \in Nat /\ b < 256
    BY SMT DEF Byte
  <1>2. d \in Int /\ d # 0 /\ d < 65535 /\ -d < 65535
    BY <1>1, SMT
  <1>3. Full(sum)
    BY AcceptedSums
  <1>4. PICK k \in Nat : sum = 65535 * k
    BY <1>3 DEF Full
  <1> HIDE DEF d
  <1>5. ~Full(sum + d)
    <2> SUFFICES ASSUME NEW m \in Nat, sum + d = 65535 * m
                 PROVE  FALSE
      BY DEF Full
    <2>1. d = 65535 * (m - k)
      BY <1>2, <1>4, SMT
    <2> QED  BY <1>2, <2>1, SMT
  <1>6. sum + d \in Sums
    BY DEF d
  <1>7. 65535 - Fold(sum + d) # 0
    BY <1>5, <1>6, AcceptedSums
  <1> QED  BY <1>7 DEF d

-----------------------------------------------------------------------------
(***************************************************************************)
(* Packets.                                                                *)
(***************************************************************************)
\* Half of a number, its two bytes, and a word from its bytes.
MaxHalf == 65535

Half == 0 .. MaxHalf

High(n) == n \div 256

Low(n) == n % 256

Join(high, low) == 256 * high + low

LEMMA HalfRange == \A n : n \in Half <=> n \in Int /\ 0 <= n /\ n <= 65535
<1>1. \A n : n \in Half <=> n \in Int /\ 0 <= n /\ n <= MaxHalf
  <2>1. MaxHalf \in Int
    BY DEF MaxHalf
  <2> QED
    BY <2>1 DEF Half
<1> QED
  BY <1>1 DEF MaxHalf

LEMMA ByteRange == \A n : n \in Byte <=> n \in Int /\ 0 <= n /\ n <= 255
BY DEF Byte

LEMMA Halves == \A n \in Word32 : n = <<n[1], n[2]>> /\ n[1] \in Half /\ n[2] \in Half
<1>1. \A n \in Half \X Half : n = <<n[1], n[2]>> /\ n[1] \in Half /\ n[2] \in Half
  OBVIOUS
<1>2. Word32 = Half \X Half
  BY DEF Word32, Half, MaxHalf
<1> QED
  BY <1>1, <1>2

LEMMA WordBytes ==
  ASSUME NEW n \in Half
  PROVE  High(n) \in Byte /\ Low(n) \in Byte /\ Join(High(n), Low(n)) = n
<1>1. n \in Int /\ 0 <= n /\ n <= 65535
  BY HalfRange
<1>2. High(n) \in Int /\ 0 <= High(n) /\ High(n) <= 255
  BY <1>1 DEF High
<1>3. Low(n) \in Int /\ 0 <= Low(n) /\ Low(n) <= 255
  BY <1>1 DEF Low
<1>4. Join(High(n), Low(n)) = n
  BY <1>1 DEF High, Low, Join
<1> QED
  BY <1>2, <1>3, <1>4, ByteRange

\* The bytes of a number in network order, and the number from its bytes.
LEMMA NetworkOrder ==
  ASSUME NEW n \in Word32
  PROVE  /\ htonl(n) \in Seq(Byte)
         /\ Len(htonl(n)) = 4
         /\ ntohl(htonl(n)) = n
<1>1. PICK a \in Half, b \in Half : n = <<a, b>>
  BY Halves
<1>2. \A c, d \in Half : htonl(<<c, d>>) = <<High(c), Low(c), High(d), Low(d)>>
  BY DEF htonl, High, Low
<1>3. \A p, q, r, s \in Byte : ntohl(<<p, q, r, s>>) = <<Join(p, q), Join(r, s)>>
  BY DEF ntohl, Join
<1>4. /\ High(a) \in Byte /\ Low(a) \in Byte /\ Join(High(a), Low(a)) = a
      /\ High(b) \in Byte /\ Low(b) \in Byte /\ Join(High(b), Low(b)) = b
  BY WordBytes
<1>5. PICK p \in Byte, q \in Byte, r \in Byte, s \in Byte :
        p = High(a) /\ q = Low(a) /\ r = High(b) /\ s = Low(b)
  BY <1>4
<1>6. htonl(n) = <<p, q, r, s>>
  BY <1>1, <1>2, <1>5
<1>7. ntohl(<<p, q, r, s>>) = <<a, b>>
  <2>1. Join(p, q) = a /\ Join(r, s) = b
    BY <1>4, <1>5
  <2> QED
    BY <1>3, <2>1
<1>8. <<p, q, r, s>> \in Seq(Byte) /\ Len(<<p, q, r, s>>) = 4
  OBVIOUS
<1> QED
  BY <1>1, <1>6, <1>7, <1>8

\* What the concatenation of two sequences of bytes holds.
LEMMA ConcatElements ==
  ASSUME NEW s \in Seq(Byte), NEW t \in Seq(Byte)
  PROVE  /\ s \o t \in Seq(Byte)
         /\ Len(s \o t) = Len(s) + Len(t)
         /\ \A i \in 1 .. Len(s) : (s \o t)[i] = s[i]
         /\ \A i \in 1 .. Len(t) : (s \o t)[Len(s) + i] = t[i]
OBVIOUS

LEMMA HeaderFacts ==
  ASSUME NEW f \in Fields
  PROVE  /\ zeroedPDU(f) \in Seq(Byte)
         /\ f.payload \in Seq(Byte)
         /\ Len(f.payload) \in Nat /\ Len(f.payload) <= MaxPayload
         /\ Len(zeroedPDU(f)) = 7 + Len(f.payload)
         /\ f = [seq |-> f.seq, flag |-> f.flag, payload |-> f.payload]
         /\ f.seq \in Word32
         /\ \A i \in 1 .. 4 : zeroedPDU(f)[i] = htonl(f.seq)[i]
         /\ zeroedPDU(f)[5] = 0 /\ zeroedPDU(f)[6] = 0
         /\ zeroedPDU(f)[7] = f.flag
         /\ \A i \in 1 .. Len(f.payload) : zeroedPDU(f)[7 + i] = f.payload[i]
<1>1. /\ f \in [seq : Word32, flag : Byte, payload : Seq(Byte)]
      /\ f.seq \in Word32 /\ f.flag \in Byte /\ f.payload \in Seq(Byte)
      /\ f = [seq |-> f.seq, flag |-> f.flag, payload |-> f.payload]
      /\ Len(f.payload) \in Nat /\ Len(f.payload) <= MaxPayload
  BY FieldsAssumption
<1> DEFINE h == htonl(f.seq)
           m == <<0, 0, f.flag>>
           z == h \o m
<1>2. h \in Seq(Byte) /\ Len(h) = 4
  BY <1>1, NetworkOrder
<1>3. m \in Seq(Byte) /\ Len(m) = 3 /\ m[1] = 0 /\ m[2] = 0 /\ m[3] = f.flag
  <2>1. 0 \in Byte
    BY DEF Byte
  <2> QED
    BY <1>1, <2>1
<1> HIDE DEF h, m
<1>4. /\ z \in Seq(Byte) /\ Len(z) = 7
      /\ \A i \in 1 .. 4 : z[i] = h[i]
      /\ z[5] = 0 /\ z[6] = 0 /\ z[7] = f.flag
  <2>1. /\ z \in Seq(Byte) /\ Len(z) = Len(h) + Len(m)
        /\ \A i \in 1 .. Len(h) : z[i] = h[i]
        /\ \A i \in 1 .. Len(m) : z[Len(h) + i] = m[i]
    BY <1>2, <1>3, ConcatElements, Zenon
  <2> HIDE DEF z
  <2>2. z[4 + 1] = m[1] /\ z[4 + 2] = m[2] /\ z[4 + 3] = m[3]
    BY <1>2, <1>3, <2>1
  <2> QED
    BY <1>2, <1>3, <2>1, <2>2
<1> DEFINE all == z \o f.payload
<1>5. /\ all \in Seq(Byte)
      /\ Len(all) = Len(z) + Len(f.payload)
      /\ \A i \in 1 .. Len(z) : all[i] = z[i]
      /\ \A i \in 1 .. Len(f.payload) : all[Len(z) + i] = f.payload[i]
  <2> HIDE DEF z
  <2> QED
    BY <1>1, <1>4, ConcatElements, Zenon
<1>6. zeroedPDU(f) = all
  BY DEF zeroedPDU, z, h, m
<1> HIDE DEF z, all
<1>7. /\ \A i \in 1 .. 4 : all[i] = h[i]
      /\ all[5] = 0 /\ all[6] = 0 /\ all[7] = f.flag
      /\ \A i \in 1 .. Len(f.payload) : all[7 + i] = f.payload[i]
      /\ Len(all) = 7 + Len(f.payload)
  BY <1>4, <1>5
<1> QED
  BY <1>1, <1>5, <1>6, <1>7 DEF h

\* What in_cksum gives is a word.
LEMMA CksumIsWord ==
  ASSUME NEW buf \in Seq(Byte), Len(buf) <= PDU_HEADER_LEN + MaxPayload
  PROVE  in_cksum(buf) \in Half
<1>1. WordSum(buf) \in Sums
  BY WordSumBounded
<1>2. Fold(WordSum(buf)) \in Words
  BY <1>1, FoldIsResidue
<1>3. ASSUME NEW n \in Words PROVE 65535 - n \in Half
  <2>1. n \in Nat /\ n < 65536
    BY DEF Words
  <2> QED
    BY <2>1, HalfRange
<1> QED
  BY <1>2, <1>3 DEF in_cksum

\* The checksum takes the place of the third word, and nothing else changes.
LEMMA PacketFacts ==
  ASSUME NEW f \in Fields
  PROVE  /\ createPDU(f) \in Seq(Byte)
         /\ Len(createPDU(f)) = 7 + Len(f.payload)
         /\ \A i \in 1 .. Len(createPDU(f)) :
              i \notin {5, 6} => createPDU(f)[i] = zeroedPDU(f)[i]
         /\ WordSum(createPDU(f)) = WordSum(zeroedPDU(f)) + in_cksum(zeroedPDU(f))
<1> DEFINE z == zeroedPDU(f)
           c == in_cksum(z)
           low == Low(c)
           high == High(c)
           y == [z EXCEPT ![5] = low]
           x == [y EXCEPT ![6] = high]
<1>1. /\ z \in Seq(Byte) /\ Len(z) = 7 + Len(f.payload) /\ z[5] = 0 /\ z[6] = 0
      /\ Len(f.payload) \in Nat /\ Len(f.payload) <= MaxPayload
  BY HeaderFacts
<1> HIDE DEF z
<1>2. Len(z) <= PDU_HEADER_LEN + MaxPayload
  BY <1>1 DEF PDU_HEADER_LEN, MaxPayload
<1>3. c \in Half
  BY <1>1, <1>2, CksumIsWord
<1> HIDE DEF c
<1>4. low \in Byte /\ high \in Byte /\ 256 * high + low = c
  BY <1>3, WordBytes DEF Join
<1>5. createPDU(f) = [z EXCEPT ![5] = low, ![6] = high]
  BY Zenon DEF createPDU, z, c, Low, High
<1> HIDE DEF low, high
<1>6. 5 \in 1 .. Len(z) /\ 6 \in 1 .. Len(z)
  BY <1>1
<1>7. /\ y \in Seq(Byte) /\ Len(y) = Len(z) /\ y[6] = 0
      /\ WordSum(y) = WordSum(z) + Weight(5) * (low - 0)
  <2>1. WordSum(y) = WordSum(z) + Weight(5) * (low - z[5])
    BY <1>1, <1>4, <1>6, ByteChanged
  <2>2. y \in Seq(Byte) /\ Len(y) = Len(z) /\ y[6] = 0
    BY <1>1, <1>4, <1>6
  <2> HIDE DEF y
  <2> QED
    BY <1>1, <2>1, <2>2
<1>8. /\ x \in Seq(Byte) /\ Len(x) = Len(z)
      /\ \A i \in 1 .. Len(x) : i \notin {5, 6} => x[i] = z[i]
  BY <1>1, <1>4, <1>6
<1>9. WordSum(x) = WordSum(y) + Weight(6) * (high - 0)
  <2> HIDE DEF y
  <2>1. WordSum(x) = WordSum(y) + Weight(6) * (high - y[6])
    BY <1>4, <1>6, <1>7, ByteChanged
  <2> QED
    BY <1>7, <2>1
<1>10. createPDU(f) = x
  BY <1>1, <1>4, <1>5, <1>6
<1> HIDE DEF x, y
<1>11. WordSum(x) = WordSum(z) + c
  <2>1. Weight(5) = 1 /\ Weight(6) = 256
    BY DEF Weight
  <2>2. WordSum(z) \in Int /\ low \in Int /\ high \in Int
    <3>1. WordSum(z) \in Sums
      BY <1>1, <1>2, WordSumBounded
    <3>2. \A b \in Byte : b \in Int
      BY DEF Byte
    <3> QED
      BY <1>4, <3>1, <3>2 DEF Sums
  <2> QED
    BY <1>4, <1>7, <1>9, <2>1, <2>2
<1>12. x \in Seq(Byte) /\ Len(x) = 7 + Len(f.payload)
  BY <1>1, <1>8
<1> QED
  BY <1>10, <1>8, <1>11, <1>12, Zenon DEF z, c

\* No packet is longer than the register allows.
LEMMA PacketLength ==
  ASSUME NEW f \in Fields
  PROVE  /\ Len(createPDU(f)) <= PDU_HEADER_LEN + MaxPayload
         /\ Len(zeroedPDU(f)) <= PDU_HEADER_LEN + MaxPayload
         /\ Len(createPDU(f)) \in Nat
<1>1. /\ Len(createPDU(f)) = 7 + Len(f.payload) /\ Len(zeroedPDU(f)) = 7 + Len(f.payload)
      /\ Len(f.payload) \in Nat /\ Len(f.payload) <= MaxPayload
  BY HeaderFacts, PacketFacts
<1> QED
  BY <1>1 DEF PDU_HEADER_LEN, MaxPayload

\* A packet that has been given its checksum is accepted (pdu.c:15-16, 94).
LEMMA PacketAccepted ==
  ASSUME NEW f \in Fields
  PROVE  in_cksum(createPDU(f)) = 0
<1> DEFINE s == WordSum(zeroedPDU(f))
<1>1. s \in Sums /\ WordSum(createPDU(f)) \in Sums
  BY HeaderFacts, PacketFacts, PacketLength, WordSumBounded
<1>2. WordSum(createPDU(f)) = s + (65535 - Fold(s))
  BY PacketFacts DEF in_cksum
<1> HIDE DEF s
<1>3. 65535 - Fold(s + (65535 - Fold(s))) = 0
  BY <1>1, <1>2, SealedSumAccepted
<1> QED
  BY <1>2, <1>3 DEF in_cksum

(***************************************************************************)
(* Every packet that the programs make is accepted by the other side as it *)
(* is, and gives back the fields it was made from: of every sequence       *)
(* number, flag and payload (pdu.c:4-19, 70-101).                          *)
(***************************************************************************)
THEOREM PacketReadBack ==
  \A f \in Fields : processPDU(createPDU(f)) = [result |-> 0, fields |-> f]
<1> SUFFICES ASSUME NEW f \in Fields
             PROVE  processPDU(createPDU(f)) = [result |-> 0, fields |-> f]
  OBVIOUS
<1> DEFINE p == createPDU(f)
           h == htonl(f.seq)
<1>1. /\ f.payload \in Seq(Byte) /\ f.seq \in Word32
      /\ f = [seq |-> f.seq, flag |-> f.flag, payload |-> f.payload]
      /\ Len(f.payload) \in Nat
  BY HeaderFacts
<1>2. /\ p \in Seq(Byte) /\ Len(p) = 7 + Len(f.payload)
      /\ \A i \in 1 .. 4 : p[i] = h[i]
      /\ p[7] = f.flag
      /\ \A i \in 1 .. Len(f.payload) : p[7 + i] = f.payload[i]
  <2> DEFINE z == zeroedPDU(f)
  <2>1. /\ p \in Seq(Byte) /\ Len(p) = 7 + Len(f.payload)
        /\ \A i \in 1 .. Len(p) : i \notin {5, 6} => p[i] = z[i]
    BY PacketFacts
  <2>2. /\ \A i \in 1 .. 4 : z[i] = h[i]
        /\ z[7] = f.flag
        /\ \A i \in 1 .. Len(f.payload) : z[7 + i] = f.payload[i]
    BY HeaderFacts
  <2> HIDE DEF p, z, h
  <2>3. /\ \A i \in 1 .. 4 : p[i] = z[i]
        /\ p[7] = z[7]
        /\ \A i \in 1 .. Len(f.payload) : p[7 + i] = z[7 + i]
    BY <1>1, <2>1
  <2> QED
    BY <2>1, <2>2, <2>3
<1>3. in_cksum(p) = 0
  BY PacketAccepted
<1>4. h \in Seq(Byte) /\ Len(h) = 4 /\ ntohl(h) = f.seq
  BY <1>1, NetworkOrder
<1> HIDE DEF p, h
<1>5. ntohl(SubSeq(p, 1, 4)) = f.seq
  <2>1. SubSeq(p, 1, 4) = h
    BY <1>1, <1>2, <1>4
  <2> QED
    BY <1>4, <2>1, Zenon
<1>6. SubSeq(p, 7 + 1, Len(p)) = f.payload
  <2> DEFINE t == SubSeq(p, 7 + 1, Len(p))
  <2>1. /\ t \in Seq(Byte)
        /\ Len(t) = Len(f.payload)
        /\ \A i \in 1 .. Len(f.payload) : t[i] = p[7 + i]
    BY <1>1, <1>2
  <2> HIDE DEF t
  <2>2. t = f.payload
    BY <1>1, <1>2, <2>1
  <2> QED
    BY <2>2 DEF t
<1>7. p[7] = f.flag
  BY <1>2
<1>8. processPDU(p) = [result |-> 0,
                       fields |-> [seq |-> f.seq, flag |-> f.flag, payload |-> f.payload]]
  BY <1>5, <1>6, <1>3, <1>7, Zenon DEF processPDU, PDU_HEADER_LEN
<1> QED
  BY <1>1, <1>8, Zenon DEF p

(***************************************************************************)
(* And no packet of which one byte has been inverted is accepted, whatever *)
(* packet and whichever byte it is (errorFlipBits.cpp:24, pdu.c:94).       *)
(***************************************************************************)
THEOREM InvertedPacketRejected ==
  \A f \in Fields : \A i \in DOMAIN createPDU(f) :
    processPDU([createPDU(f) EXCEPT ![i] = 255 - @]).result = -1
<1> SUFFICES ASSUME NEW f \in Fields, NEW i \in DOMAIN createPDU(f)
             PROVE  processPDU([createPDU(f) EXCEPT ![i] = 255 - @]).result = -1
  OBVIOUS
<1> DEFINE p == createPDU(f)
           q == [p EXCEPT ![i] = 255 - @]
           w == Weight(i)
<1>1. /\ p \in Seq(Byte) /\ Len(p) <= PDU_HEADER_LEN + MaxPayload
      /\ i \in 1 .. Len(p) /\ in_cksum(p) = 0
  BY PacketFacts, PacketAccepted, PacketLength
<1> HIDE DEF p
<1>2. p[i] \in Byte /\ 255 - p[i] \in Byte
  <2>1. p[i] \in Byte
    BY <1>1
  <2>2. \A c \in Byte : 255 - c \in Byte
    BY DEF Byte
  <2> QED
    BY <2>1, <2>2
<1>3. WordSum(q) = WordSum(p) + w * ((255 - p[i]) - p[i])
  <2>1. q = [p EXCEPT ![i] = 255 - p[i]]
    BY <1>1
  <2>2. \A b \in Byte : WordSum([p EXCEPT ![i] = b]) = WordSum(p) + w * (b - p[i])
    BY <1>1, ByteChanged
  <2> QED
    BY <1>2, <2>1, <2>2
<1>4. q \in Seq(Byte) /\ Len(q) = Len(p)
  BY <1>1, <1>2
<1>5. WordSum(p) \in Sums /\ WordSum(q) \in Sums
  BY <1>1, <1>4, WordSumBounded
<1>6. w \in {1, 256}
  BY DEF Weight
<1> HIDE DEF q, w
<1>7. PICK b \in Byte : b = p[i]
  BY <1>2
<1>8. WordSum(q) = WordSum(p) + w * (255 - 2 * b)
  <2>1. \A c \in Byte : (255 - c) - c = 255 - 2 * c
    BY DEF Byte
  <2> QED
    BY <1>3, <1>7, <2>1
<1>9. 65535 - Fold(WordSum(p) + w * (255 - 2 * b)) # 0
  BY <1>1, <1>5, <1>6, <1>8, InvertedSumRejected DEF in_cksum
<1>10. in_cksum(q) # 0
  BY <1>8, <1>9 DEF in_cksum
<1> QED
  BY <1>10 DEF processPDU, q, p


-----------------------------------------------------------------------------
(***************************************************************************)
(* The lists of events.                                                    *)
(***************************************************************************)
\* What one event of a list makes of the outcomes of those before it.
RunOne(outcomes, event, n) ==
  UNION {IF o.result = 2 THEN {o}
         ELSE {[result |-> IF r.result = 0 THEN o.result ELSE r.result,
                buf    |-> r.buf] : r \in run(event, o.buf, n)}
         : o \in outcomes}

\* g has the outcomes of the first events, up to the first k.
PartialRuns(g, events, buf, n, k) ==
  g = [i \in 0 .. k |-> IF i = 0 THEN {[result |-> 0, buf |-> buf]}
                        ELSE RunOne(g[i - 1], events[i], n)]

LEMMA PartialRunsExist ==
  ASSUME NEW events, NEW buf, NEW n
  PROVE  \A k \in Nat : \E g : PartialRuns(g, events, buf, n, k)
<1> DEFINE T == {k \in Nat : \E g : PartialRuns(g, events, buf, n, k)}
           first == {[result |-> 0, buf |-> buf]}
<1>1. 0 \in T
  <2>1. PartialRuns([i \in 0 .. 0 |-> first], events, buf, n, 0)
    <3> HIDE DEF first
    <3>1. [i \in 0 .. 0 |-> first]
            = [i \in 0 .. 0 |-> IF i = 0 THEN first
                                ELSE RunOne([j \in 0 .. 0 |-> first][i - 1], events[i], n)]
      OBVIOUS
    <3> QED
      BY <3>1, Zenon DEF PartialRuns, first
  <2> QED
    BY <2>1
<1>2. ASSUME NEW k \in Nat, k \in T PROVE k + 1 \in T
  <2>1. PICK g : PartialRuns(g, events, buf, n, k)
    BY <1>2
  <2> DEFINE v == RunOne(g[k], events[k + 1], n)
             h == [i \in 0 .. k + 1 |-> IF i <= k THEN g[i] ELSE v]
  <2> HIDE DEF first
  <2>2. PartialRuns(h, events, buf, n, k + 1)
    <3>1. \A i \in 0 .. k : g[i] = IF i = 0 THEN first ELSE RunOne(g[i - 1], events[i], n)
      BY <2>1 DEF PartialRuns, first
    <3>2. h[k + 1] = v /\ h[k] = g[k] /\ \A i \in 0 .. k : h[i] = g[i]
      BY DEF h
    <3>3. \A i \in 0 .. k + 1 : h[i] = IF i = 0 THEN first ELSE RunOne(h[i - 1], events[i], n)
      <4> HIDE DEF h
      <4> TAKE i \in 0 .. k + 1
      <4>1. CASE i \in 0 .. k
        <5>1. i # 0 => i - 1 \in 0 .. k
          BY <4>1
        <5> QED
          BY <3>1, <3>2, <4>1, <5>1
      <4>2. CASE i = k + 1
        BY <3>2, <4>2
      <4> QED
        BY <4>1, <4>2
    <3>4. h = [i \in 0 .. k + 1 |-> h[i]]
      OBVIOUS
    <3> HIDE DEF h
    <3> QED
      BY <3>3, <3>4 DEF PartialRuns, first
  <2> HIDE DEF h
  <2>3. \E hh : PartialRuns(hh, events, buf, n, k + 1)
    BY <2>2
  <2> QED
    BY <2>3
<1>3. \A k \in Nat : k \in T
  <2> HIDE DEF T
  <2> QED
    BY <1>1, <1>2, SetInduction
<1> QED
  BY <1>3

\* runMsgEvents is the last of them.
LEMMA RunIsLast ==
  ASSUME NEW events, NEW buf, NEW n, Len(events) \in Nat
  PROVE  \E g : /\ runMsgEvents(events, buf, n) = g[Len(events)]
                /\ g[0] = {[result |-> 0, buf |-> buf]}
                /\ \A i \in 1 .. Len(events) : g[i] = RunOne(g[i - 1], events[i], n)
<1>1. PICK g : PartialRuns(g, events, buf, n, Len(events))
  BY PartialRunsExist
<1>2. \E h : /\ PartialRuns(h, events, buf, n, Len(events))
             /\ runMsgEvents(events, buf, n) = h[Len(events)]
  BY <1>1, Zenon DEF runMsgEvents, PartialRuns, RunOne
<1>3. PICK h : /\ runMsgEvents(events, buf, n) = h[Len(events)]
               /\ PartialRuns(h, events, buf, n, Len(events))
  BY <1>2
<1>4. /\ h[0] = {[result |-> 0, buf |-> buf]}
      /\ \A i \in 1 .. Len(events) : h[i] = RunOne(h[i - 1], events[i], n)
  <2> DEFINE first == {[result |-> 0, buf |-> buf]}
  <2> HIDE DEF first
  <2>1. \A i \in 0 .. Len(events) :
          h[i] = IF i = 0 THEN first ELSE RunOne(h[i - 1], events[i], n)
    BY <1>3 DEF PartialRuns, first
  <2>2. /\ h[0] = first
        /\ \A i \in 1 .. Len(events) : h[i] = RunOne(h[i - 1], events[i], n)
    BY <2>1
  <2> QED
    BY <2>2 DEF first
<1> QED
  BY <1>3, <1>4

\* The events that drop the message n.
Drops(event, n) == event.dropAll \/ n \in event.dropList

\* An outcome that leaves the message as it is.
Untouched(dropped, buf) == [result |-> IF dropped THEN 2 ELSE 0, buf |-> buf]

LEMMA RunOneUntouched ==
  ASSUME NEW dropped \in BOOLEAN, NEW event, NEW buf, NEW n,
         event.name # "errorFlipBits"
  PROVE  RunOne({Untouched(dropped, buf)}, event, n)
           = {Untouched(dropped \/ Drops(event, n), buf)}
<1>1. run(event, buf, n) = {Untouched(Drops(event, n), buf)}
  BY DEF run, Drops, Untouched
<1>2. CASE dropped
  <2> DEFINE o == Untouched(dropped, buf)
  <2>1. o.result = 2 /\ Untouched(dropped \/ Drops(event, n), buf) = o
    BY <1>2 DEF Untouched
  <2> HIDE DEF o
  <2>2. RunOne({o}, event, n) = {o}
    BY <2>1 DEF RunOne
  <2> QED
    BY <2>1, <2>2 DEF o
<1>3. CASE ~dropped
  <2> DEFINE o == Untouched(dropped, buf)
             q == Untouched(Drops(event, n), buf)
  <2>1. /\ o.result = 0 /\ o.buf = buf
        /\ Untouched(dropped \/ Drops(event, n), buf) = q
        /\ q.buf = buf /\ q.result \in {0, 2}
        /\ q = [result |-> q.result, buf |-> q.buf]
    BY <1>3 DEF Untouched
  <2>2. run(event, buf, n) = {q}
    BY <1>1
  <2> HIDE DEF o, q
  <2>3. RunOne({o}, event, n) = {q}
    BY <2>1, <2>2 DEF RunOne
  <2> QED
    BY <2>1, <2>3 DEF o
<1> QED
  BY <1>2, <1>3

\* A list without an inversion leaves the message as it is, and drops it when
\* one of its events does.
LEMMA RunUntouched ==
  ASSUME NEW events, NEW buf, NEW n, Len(events) \in Nat,
         \A k \in 1 .. Len(events) : events[k].name # "errorFlipBits"
  PROVE  runMsgEvents(events, buf, n)
           = {Untouched(\E k \in 1 .. Len(events) : Drops(events[k], n), buf)}
<1>1. PICK g : /\ runMsgEvents(events, buf, n) = g[Len(events)]
               /\ g[0] = {[result |-> 0, buf |-> buf]}
               /\ \A i \in 1 .. Len(events) : g[i] = RunOne(g[i - 1], events[i], n)
  BY RunIsLast
<1> DEFINE D(k) == \E i \in 1 .. k : Drops(events[i], n)
           T == {k \in Nat : k <= Len(events) => g[k] = {Untouched(D(k), buf)}}
<1>2. 0 \in T
  <2>1. D(0) = FALSE
    OBVIOUS
  <2>2. Untouched(FALSE, buf) = [result |-> 0, buf |-> buf]
    BY DEF Untouched
  <2> HIDE DEF D
  <2> QED
    BY <1>1, <2>1, <2>2
<1>3. ASSUME NEW k \in Nat, k \in T, k + 1 <= Len(events)
      PROVE  g[k + 1] = {Untouched(D(k + 1), buf)}
  <2>1. D(k + 1) = (D(k) \/ Drops(events[k + 1], n))
    <3>1. 1 .. k + 1 = (1 .. k) \cup {k + 1}
      BY <1>3
    <3> QED
      BY <3>1, Zenon
  <2>2. D(k) \in BOOLEAN
    OBVIOUS
  <2> HIDE DEF D
  <2>3. g[k] = {Untouched(D(k), buf)} /\ k + 1 \in 1 .. Len(events) /\ (k + 1) - 1 = k
    BY <1>3
  <2>4. g[k + 1] = RunOne({Untouched(D(k), buf)}, events[k + 1], n)
    BY <1>1, <2>3
  <2>5. RunOne({Untouched(D(k), buf)}, events[k + 1], n)
          = {Untouched(D(k) \/ Drops(events[k + 1], n), buf)}
    BY <2>2, <2>3, RunOneUntouched
  <2> QED
    BY <2>1, <2>4, <2>5
<1>4. ASSUME NEW k \in Nat, k \in T
      PROVE  k + 1 \in T
  <2> HIDE DEF D
  <2>1. k + 1 \in Nat
    OBVIOUS
  <2>2. k + 1 <= Len(events) => g[k + 1] = {Untouched(D(k + 1), buf)}
    <3> SUFFICES ASSUME k + 1 <= Len(events)
                 PROVE  g[k + 1] = {Untouched(D(k + 1), buf)}
      OBVIOUS
    <3> HIDE DEF T
    <3> QED
      BY <1>3, <1>4
  <2> QED
    BY <2>1, <2>2
<1>5. \A k \in Nat : k \in T
  <2> HIDE DEF T
  <2> QED
    BY <1>2, <1>4, SetInduction
<1>6. g[Len(events)] = {Untouched(D(Len(events)), buf)}
  <2> HIDE DEF D
  <2> QED
    BY <1>5
<1> QED
  BY <1>1, <1>6, Zenon

-----------------------------------------------------------------------------
(***************************************************************************)
(* The inductive invariant.                                                *)
(***************************************************************************)
\* The environment lists the messages to drop.
DropListed == drop.isSet /\ parserLong2Uint32(drop) # {}

ListedDrop == errorDrop(FALSE, parserLong2Uint32(drop))
RandomDrop == errorDrop(TRUE, {})

\* What is in the two lists of events.
EventsOK ==
  /\ standard \in Seq({infoSeqNo, ListedDrop})
  /\ chance \in Seq({errorFlipBits, RandomDrop})
  /\ DropListed => /\ \E k \in 1 .. Len(standard) : standard[k] = ListedDrop
                   /\ \A k \in 1 .. Len(chance) : chance[k] # RandomDrop

\* p with one byte inverted.
InvertedAt(p, i) == [p EXCEPT ![i] = 255 - @]

\* What a message may have met with.
MessageOK ==
  \/ last = NoMessage
  \/ /\ last.fate \in {"SENT", "DROPPED"}
     /\ last.fields \in Fields
     /\ last.buf = createPDU(last.fields)
     /\ \/ last.wire = last.buf
        \/ \E i \in DOMAIN last.buf : last.wire = InvertedAt(last.buf, i)
     /\ DropListed => (last.fate = "DROPPED" <=> msgNo \in parserLong2Uint32(drop))

CountsOK ==
  /\ {drop, flip} \subseteq {loadEnvData_List(value) : value \in EnvLists}
  /\ inits \in 0 .. MaxInits
  /\ msgNo \in 0 .. MaxMsgs

LibraryInv == CountsOK /\ EventsOK /\ MessageOK

\* What processEvents may do to a message, when the events are as they are.
LEMMA Outcomes ==
  ASSUME EventsOK, NEW buf, NEW n, NEW o \in processEvents(buf, n)
  PROVE  /\ \/ o.buf = buf
            \/ \E i \in DOMAIN buf : o.buf = InvertedAt(buf, i)
         /\ DropListed => (o.result = 2 <=> n \in parserLong2Uint32(drop))
<1> DEFINE D == \E k \in 1 .. Len(standard) : Drops(standard[k], n)
           c == Untouched(D, buf)
<1>1. /\ infoSeqNo.name # "errorFlipBits" /\ ListedDrop.name # "errorFlipBits"
      /\ RandomDrop.name # "errorFlipBits" /\ errorFlipBits.name = "errorFlipBits"
      /\ ~Drops(infoSeqNo, n) /\ (Drops(ListedDrop, n) <=> n \in parserLong2Uint32(drop))
  BY DEF infoSeqNo, ListedDrop, RandomDrop, errorFlipBits, errorDrop, Drops
<1>2. /\ Len(standard) \in Nat
      /\ \A k \in 1 .. Len(standard) : standard[k] \in {infoSeqNo, ListedDrop}
      /\ DOMAIN chance = 1 .. Len(chance)
      /\ \A k \in 1 .. Len(chance) : chance[k] \in {errorFlipBits, RandomDrop}
  BY DEF EventsOK
<1>3. runMsgEvents(standard, buf, n) = {c}
  <2>1. \A k \in 1 .. Len(standard) : standard[k].name # "errorFlipBits"
    BY <1>1, <1>2
  <2> QED
    BY <1>2, <2>1, RunUntouched
<1>4. c.buf = buf /\ (c.result = 2 <=> D)
  BY DEF Untouched
<1>5. DropListed => (D <=> n \in parserLong2Uint32(drop))
  BY <1>1, <1>2 DEF EventsOK
<1> HIDE DEF D, c
<1>6. CASE o = c
  BY <1>4, <1>5, <1>6
<1>7. CASE o # c
  <2> DEFINE Random(p) ==
               {[result |-> IF p.result = 2 THEN 2 ELSE r.result, buf |-> r.buf]
                : r \in runRandomEvent(p.buf, n)}
  <2>1. processEvents(buf, n) = {c} \cup UNION {Random(p) : p \in {c}}
    BY <1>3 DEF processEvents
  <2>2. o \in Random(c)
    <3> HIDE DEF Random
    <3> QED
      BY <1>7, <2>1
  <2>3. PICK r \in runRandomEvent(c.buf, n) :
          o = [result |-> IF c.result = 2 THEN 2 ELSE r.result, buf |-> r.buf]
    BY <2>2
  <2>4. PICK k \in DOMAIN chance : r \in run(chance[k], buf, n)
    BY <1>4 DEF runRandomEvent
  <2>5. o.buf = r.buf /\ o.result = IF c.result = 2 THEN 2 ELSE r.result
    BY <2>3
  <2>6. CASE chance[k] = errorFlipBits
    <3>1. PICK i \in DOMAIN buf : r = [result |-> 1, buf |-> InvertedAt(buf, i)]
      BY <1>1, <2>4, <2>6 DEF run, InvertedAt
    <3>2. r.result = 1 /\ r.buf = InvertedAt(buf, i)
      BY <3>1
    <3> QED
      BY <1>4, <1>5, <2>5, <3>2
  <2>7. CASE chance[k] = RandomDrop
    <3>1. ~DropListed
      BY <1>2, <2>4, <2>7 DEF EventsOK
    <3>2. r.buf = buf
      BY <1>1, <2>4, <2>7 DEF run
    <3> QED
      BY <2>5, <3>1, <3>2
  <2> QED
    BY <1>2, <2>4, <2>6, <2>7
<1> QED
  BY <1>6, <1>7

\* One event more at the end of a list, or none.
LEMMA AddedEvent ==
  ASSUME NEW S, NEW s \in Seq(S), NEW e \in S, NEW d, d = <<>> \/ d = <<e>>
  PROVE  /\ s \o d \in Seq(S)
         /\ \A k \in 1 .. Len(s \o d) :
              \/ k \in 1 .. Len(s) /\ (s \o d)[k] = s[k]
              \/ d # <<>> /\ (s \o d)[k] = e
<1>1. CASE d = <<>>
  BY <1>1
<1>2. CASE d = <<e>>
  <2>1. s \o <<e>> \in Seq(S) /\ Len(s \o <<e>>) = Len(s) + 1 /\ Len(s) \in Nat
    OBVIOUS
  <2>2. /\ \A k \in 1 .. Len(s) : (s \o <<e>>)[k] = s[k]
        /\ (s \o <<e>>)[Len(s) + 1] = e
    OBVIOUS
  <2>3. <<e>> # <<>>
    OBVIOUS
  <2> DEFINE t == s \o <<e>>
  <2> HIDE DEF t
  <2>4. \A k \in 1 .. Len(t) : k \in 1 .. Len(s) \/ k = Len(s) + 1
    BY <2>1 DEF t
  <2> QED
    BY <1>2, <2>1, <2>2, <2>3, <2>4 DEF t
<1> QED
  BY <1>1, <1>2

LEMMA InitLibraryInv == Init => LibraryInv
<1> SUFFICES ASSUME Init PROVE LibraryInv
  OBVIOUS
<1>1. CountsOK
  BY BoundsAssumption DEF Init, CountsOK
<1>2. MessageOK
  BY DEF Init, MessageOK
<1>3. EventsOK
  <2> DEFINE s == loadEnvData_ErrDrop(drop).standard
             d == loadEnvData_ErrDrop(drop).chance
             f == loadEnvData_ErrFlip(flip)
  <2>1. /\ s = IF DropListed THEN <<ListedDrop>> ELSE <<>>
        /\ d = (IF drop.isSet /\ parserLong2Uint32(drop) = {} THEN <<RandomDrop>> ELSE <<>>)
        /\ f = <<>> \/ f = <<errorFlipBits>>
    BY DEF loadEnvData_ErrDrop, loadEnvData_ErrFlip, DropListed, ListedDrop, RandomDrop
  <2>2. DropListed => d = <<>>
    BY <2>1 DEF DropListed
  <2>4. standard = s /\ chance = d \o f
    BY DEF Init
  <2>5. errorFlipBits # RandomDrop
    BY DEF errorFlipBits, RandomDrop, errorDrop
  <2> HIDE DEF s, d, f
  <2>6. /\ s \in Seq({infoSeqNo, ListedDrop})
        /\ DropListed => \E k \in 1 .. Len(s) : s[k] = ListedDrop
    <3>1. /\ <<ListedDrop>> \in Seq({infoSeqNo, ListedDrop}) /\ <<>> \in Seq({infoSeqNo, ListedDrop})
          /\ 1 \in 1 .. Len(<<ListedDrop>>) /\ <<ListedDrop>>[1] = ListedDrop
      OBVIOUS
    <3> QED
      BY <2>1, <3>1
  <2> DEFINE E == {errorFlipBits, RandomDrop}
             t == d \o f
  <2>7. /\ d = <<>> \/ d = <<RandomDrop>>
        /\ f = <<>> \/ f = <<errorFlipBits>>
    BY <2>1
  <2>8. d \in Seq(E) /\ \A k \in 1 .. Len(d) : d # <<>> /\ d[k] = RandomDrop
    <3>1. CASE d = <<>>
      BY <3>1
    <3>2. CASE d = <<RandomDrop>>
      <4>1. <<RandomDrop>> # <<>>
        OBVIOUS
      <4> QED
        BY <3>2, <4>1
    <3> QED
      BY <2>7, <3>1, <3>2
  <2>9. /\ t \in Seq(E)
        /\ \A k \in 1 .. Len(t) : \/ k \in 1 .. Len(d) /\ t[k] = d[k]
                                  \/ f # <<>> /\ t[k] = errorFlipBits
    <3>1. errorFlipBits \in E
      OBVIOUS
    <3> HIDE DEF E
    <3> QED
      BY <2>7, <2>8, <3>1, AddedEvent
  <2> HIDE DEF t
  <2>10. DropListed => \A k \in 1 .. Len(t) : t[k] # RandomDrop
    BY <2>2, <2>5, <2>8, <2>9
  <2>11. chance = t
    BY <2>4 DEF t
  <2> QED
    BY <2>4, <2>6, <2>9, <2>10, <2>11 DEF EventsOK
<1> QED
  BY <1>1, <1>2, <1>3 DEF LibraryInv

LEMMA SendErrInitStep ==
  ASSUME LibraryInv, sendErr_init
  PROVE  LibraryInv'
<1>0. UNCHANGED <<drop, flip, msgNo, last>>
  BY DEF sendErr_init
<1>1. CountsOK'
  BY <1>0, BoundsAssumption DEF LibraryInv, CountsOK, sendErr_init
<1>2. MessageOK'
  BY <1>0 DEF LibraryInv, MessageOK, DropListed
<1>3. EventsOK'
  <2> DEFINE d == setUserMode_ErrDrop(TRUE)
             f == setUserMode_ErrFlip(TRUE)
             E == {errorFlipBits, RandomDrop}
  <2>1. /\ d = <<>> \/ d = <<RandomDrop>>
        /\ f = <<>> \/ f = <<errorFlipBits>>
        /\ DropListed => d = <<>>
    BY DEF setUserMode_ErrDrop, setUserMode_ErrFlip, DropListed, RandomDrop
  <2>2. standard' = Append(standard, infoSeqNo) /\ chance' = (chance \o d) \o f
    BY DEF sendErr_init
  <2>3. errorFlipBits # RandomDrop
    BY DEF errorFlipBits, RandomDrop, errorDrop
  <2> HIDE DEF d, f
  <2>4. /\ standard' \in Seq({infoSeqNo, ListedDrop})
        /\ DropListed => \E k \in 1 .. Len(standard') : standard'[k] = ListedDrop
    <3>1. /\ standard \in Seq({infoSeqNo, ListedDrop})
          /\ DropListed => \E k \in 1 .. Len(standard) : standard[k] = ListedDrop
      BY DEF LibraryInv, EventsOK
    <3>2. /\ standard' \in Seq({infoSeqNo, ListedDrop})
          /\ \A k \in 1 .. Len(standard) : k \in 1 .. Len(standard') /\ standard'[k] = standard[k]
      BY <2>2, <3>1
    <3> QED
      BY <3>1, <3>2
  <2>5. /\ chance' \in Seq(E)
        /\ DropListed => \A k \in 1 .. Len(chance') : chance'[k] # RandomDrop
    <3>1. /\ chance \in Seq(E)
          /\ DropListed => \A k \in 1 .. Len(chance) : chance[k] # RandomDrop
      BY DEF LibraryInv, EventsOK
    <3> DEFINE x == chance \o d
               y == x \o f
    <3>2. errorFlipBits \in E /\ RandomDrop \in E
      OBVIOUS
    <3> HIDE DEF E
    <3>3. /\ x \in Seq(E)
          /\ \A k \in 1 .. Len(x) : \/ k \in 1 .. Len(chance) /\ x[k] = chance[k]
                                    \/ d # <<>> /\ x[k] = RandomDrop
      BY <2>1, <3>1, <3>2, AddedEvent
    <3> HIDE DEF x
    <3>4. /\ y \in Seq(E)
          /\ \A k \in 1 .. Len(y) : \/ k \in 1 .. Len(x) /\ y[k] = x[k]
                                    \/ f # <<>> /\ y[k] = errorFlipBits
      BY <2>1, <3>2, <3>3, AddedEvent
    <3> HIDE DEF y
    <3>5. DropListed => \A k \in 1 .. Len(y) : y[k] # RandomDrop
      BY <2>1, <2>3, <3>1, <3>3, <3>4
    <3>6. chance' = y
      BY <2>2 DEF x, y
    <3> QED
      BY <3>4, <3>5, <3>6
  <2> QED
    BY <1>0, <2>4, <2>5 DEF EventsOK, DropListed, ListedDrop
<1> QED
  BY <1>1, <1>2, <1>3 DEF LibraryInv

LEMMA SendtoErrStep ==
  ASSUME LibraryInv, sendto_Err
  PROVE  LibraryInv'
<1>0. UNCHANGED <<drop, flip, standard, chance, inits>>
  BY DEF sendto_Err
<1>1. CountsOK'
  BY <1>0, BoundsAssumption DEF LibraryInv, CountsOK, sendto_Err
<1>2. EventsOK'
  BY <1>0 DEF LibraryInv, EventsOK, DropListed, ListedDrop
<1>3. MessageOK'
  <2> DEFINE Message(fields, o) ==
               [fate   |-> IF o.result = 2 THEN "DROPPED" ELSE "SENT",
                fields |-> fields,
                buf    |-> createPDU(fields),
                wire   |-> o.buf]
  <2>0. PICK fields \in Fields :
          \E o \in processEvents(createPDU(fields), msgNo') : last' = Message(fields, o)
    BY DEF sendto_Err
  <2>1. PICK o \in processEvents(createPDU(fields), msgNo') : last' = Message(fields, o)
    BY <2>0
  <2> DEFINE buf == createPDU(fields)
  <2>2. /\ last'.fate = IF o.result = 2 THEN "DROPPED" ELSE "SENT"
        /\ last'.fields = fields /\ last'.buf = buf /\ last'.wire = o.buf
    BY <2>1
  <2>3. /\ \/ o.buf = buf
           \/ \E i \in DOMAIN buf : o.buf = InvertedAt(buf, i)
        /\ DropListed => (o.result = 2 <=> msgNo' \in parserLong2Uint32(drop))
    BY <2>1, Outcomes DEF LibraryInv
  <2> HIDE DEF buf
  <2>4. DropListed' = DropListed
    BY <1>0 DEF DropListed
  <2>5. last'.fields \in Fields /\ last'.buf = createPDU(last'.fields)
    BY <2>1, <2>2 DEF buf
  <2>6. last'.fate \in {"SENT", "DROPPED"} /\ (last'.fate = "DROPPED" <=> o.result = 2)
    BY <2>2
  <2>7. DropListed => (last'.fate = "DROPPED" <=> msgNo' \in parserLong2Uint32(drop'))
    BY <1>0, <2>3, <2>6
  <2>8. \/ last'.wire = last'.buf
        \/ \E i \in DOMAIN last'.buf : last'.wire = InvertedAt(last'.buf, i)
    BY <2>2, <2>3
  <2> QED
    BY <2>4, <2>5, <2>6, <2>7, <2>8 DEF MessageOK, InvertedAt
<1> QED
  BY <1>1, <1>2, <1>3 DEF LibraryInv

LEMMA LibraryInvStep == LibraryInv /\ [Next]_vars => LibraryInv'
<1> SUFFICES ASSUME LibraryInv, [Next]_vars PROVE LibraryInv'
  OBVIOUS
<1>1. CASE sendErr_init
  BY <1>1, SendErrInitStep
<1>2. CASE sendto_Err
  BY <1>2, SendtoErrStep
<1>3. CASE recvfrom_Mod
  BY <1>3 DEF recvfrom_Mod, LibraryInv, CountsOK, EventsOK, MessageOK,
              DropListed, ListedDrop
<1>4. CASE UNCHANGED vars
  BY <1>4 DEF vars, LibraryInv, CountsOK, EventsOK, MessageOK,
              DropListed, ListedDrop
<1> QED
  BY <1>1, <1>2, <1>3, <1>4 DEF Next

LEMMA LibraryInvCorrect == Spec => []LibraryInv
<1> QED
  BY InitLibraryInv, LibraryInvStep, PTL DEF Spec

-----------------------------------------------------------------------------
(***************************************************************************)
(* The lists hold the events they may hold, and the counters keep their    *)
(* bounds, whatever the environment.                                       *)
(***************************************************************************)
THEOREM TypeCorrect == Spec => []TypeOK
<1>1. LibraryInv => TypeOK
  <2> SUFFICES ASSUME LibraryInv PROVE TypeOK
    OBVIOUS
  <2>1. /\ \A k \in DOMAIN standard : standard[k] \in {infoSeqNo, ListedDrop}
        /\ \A k \in DOMAIN chance : chance[k] \in {errorFlipBits, RandomDrop}
    BY DEF LibraryInv, EventsOK
  <2>2. /\ infoSeqNo.name = "infoSeqNo" /\ ListedDrop.name = "errorDrop"
        /\ RandomDrop.name = "errorDrop" /\ errorFlipBits.name = "errorFlipBits"
    BY DEF infoSeqNo, ListedDrop, RandomDrop, errorFlipBits, errorDrop
  <2>3. /\ \A k \in DOMAIN standard : standard[k].name \in {"infoSeqNo", "errorDrop"}
        /\ \A k \in DOMAIN chance : chance[k].name \in {"errorDrop", "errorFlipBits"}
    BY <2>1, <2>2
  <2>4. last.fate \in {"NONE", "SENT", "DROPPED"}
    BY DEF LibraryInv, MessageOK, NoMessage
  <2> QED
    BY <2>3, <2>4 DEF LibraryInv, CountsOK, TypeOK
<1> QED
  BY <1>1, LibraryInvCorrect, PTL

(***************************************************************************)
(* A datagram that the library leaves alone gives back what createPDU was  *)
(* given, whatever that was (pdu.c:4-19, 70-101).                          *)
(***************************************************************************)
THEOREM IntactCorrect == Spec => []IntactAccepted
<1>1. LibraryInv => IntactAccepted
  <2> SUFFICES ASSUME LibraryInv, last.fate = "SENT", last.wire = last.buf
               PROVE  processPDU(last.wire) = [result |-> 0, fields |-> last.fields]
    BY DEF IntactAccepted
  <2>1. last # NoMessage
    BY DEF NoMessage
  <2>2. last.fields \in Fields /\ last.buf = createPDU(last.fields)
    BY <2>1 DEF LibraryInv, MessageOK
  <2> QED
    BY <2>2, PacketReadBack
<1> QED
  BY <1>1, LibraryInvCorrect, PTL

(***************************************************************************)
(* Whatever else comes out of the library is rejected: however often       *)
(* sendErr_init has been called, at most one byte has been inverted        *)
(* (PacketManager.cpp:161-165, checksum.c:75-84).                          *)
(***************************************************************************)
THEOREM InvertedCorrect == Spec => []InvertedRejected
<1>1. LibraryInv => InvertedRejected
  <2> SUFFICES ASSUME LibraryInv, last.fate = "SENT", last.wire # last.buf
               PROVE  processPDU(last.wire).result = -1
    BY DEF InvertedRejected
  <2>1. last # NoMessage
    BY DEF NoMessage
  <2>2. PICK i \in DOMAIN last.buf : last.wire = InvertedAt(last.buf, i)
    BY <2>1 DEF LibraryInv, MessageOK
  <2>3. last.fields \in Fields /\ last.buf = createPDU(last.fields)
    BY <2>1 DEF LibraryInv, MessageOK
  <2> QED
    BY <2>2, <2>3, InvertedPacketRejected DEF InvertedAt
<1> QED
  BY <1>1, LibraryInvCorrect, PTL

(***************************************************************************)
(* When the environment lists the messages to drop, and each number fits a *)
(* uint32_t, these are dropped and no others (SettingsManager.cpp:192-221, *)
(* 249-262, 328-343).                                                      *)
(***************************************************************************)
THEOREM DropListCorrect == Spec => []DropListDecides
<1>1. ASSUME Named(drop) # {}, \A n \in Named(drop) : n < Uint32Size
      PROVE  parserLong2Uint32(drop) = Named(drop)
  <2>1. \A n \in Named(drop) : n % Uint32Size = n
    BY <1>1, Uint32Assumption DEF Named
  <2> QED
    BY <2>1 DEF parserLong2Uint32
<1>2. LibraryInv => DropListDecides
  <2> SUFFICES ASSUME LibraryInv, last.fate # "NONE", drop.isSet, Named(drop) # {},
                      \A n \in Named(drop) : n < Uint32Size
               PROVE  last.fate = "DROPPED" <=> msgNo \in Named(drop)
    BY DEF DropListDecides
  <2>1. last # NoMessage
    BY DEF NoMessage
  <2> QED
    BY <1>1, <2>1 DEF LibraryInv, MessageOK, DropListed
<1> QED
  BY <1>2, LibraryInvCorrect, PTL
==============================================================================
