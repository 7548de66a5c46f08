---------------------------- MODULE KeyboxProofs ----------------------------
(***************************************************************************)
(* Proofs about the keybox service inside the hwcrypto application.        *)
(*                                                                         *)
(* The first part is about keybox_unwrap alone: its loop computes the      *)
(* parity of the reference for keyboxes of every length, by induction over *)
(* the bytes, and two wrapped keyboxes never differ in one byte only.  The *)
(* second part is about the sessions: requests and replies stay in step.   *)
(***************************************************************************)
EXTENDS HwCryptoMain, TLAPS, FiniteSetTheorems, SequenceTheorems,
        WellFoundedInduction

(* Induction.  A set of natural numbers has a least element, so that a     *)
(* claim fails nowhere if it does not fail first anywhere.                 *)

\* Every nonempty set of natural numbers has a least element.
LEMMA LeastNatural ==
    ASSUME NEW T \in SUBSET Nat, T # {}
    PROVE  \E n \in T : \A m \in T : n <= m
  <1> DEFINE R == OpToRel(<, Nat)
  <1>1. IsWellFoundedOn(R, Nat)
    BY NatLessThanWellFounded
  <1>2. \A m, n \in Nat : <<m, n>> \in R <=> m < n
    BY DEF OpToRel
  <1> HIDE DEF R
  <1>3. PICK n \in T : \A m \in T : ~ (<<m, n>> \in R)
    BY <1>1, WFMin
  <1>4. ASSUME NEW m \in T PROVE n <= m
    <2>1. m \in Nat /\ n \in Nat /\ ~(m < n)
      BY <1>2, <1>3
    <2> QED
      BY <2>1
  <1> QED
    BY <1>4

-----------------------------------------------------------------------------
(* The loop of keybox_unwrap.                                              *)

\* f holds the values of checksum after each of the first n rounds.
Rounds(w, n, f) ==
    f = [i \in 0..n |-> IF i = 0 THEN {} ELSE Xor(f[i - 1], w[i])]

\* The loop runs to its end: its recursive definition has a solution.
LEMMA RoundsExist ==
    ASSUME NEW w, NEW n \in Nat
    PROVE  \E f : Rounds(w, n, f)
  <1> DEFINE T == {m \in Nat : ~ \E f : Rounds(w, m, f)}
  <1> SUFFICES ASSUME T # {} PROVE FALSE
    OBVIOUS
  <1>1. PICK m \in T : \A k \in T : m <= k
    BY LeastNatural
  <1>2. CASE m = 0
    <2> DEFINE f == [i \in 0..0 |-> {}]
    <2>1. Rounds(w, 0, f)
      BY DEF Rounds
    <2> QED
      BY <1>1, <1>2, <2>1
  <1>3. CASE m # 0
    <2>1. m \in Nat /\ m - 1 \in Nat /\ m - 1 \notin T
      BY <1>1, <1>3
    <2>2. PICK f : Rounds(w, m - 1, f)
      BY <2>1
    <2> DEFINE g == [i \in 0..m |-> IF i = m THEN Xor(f[m - 1], w[m]) ELSE f[i]]
    <2>3. Rounds(w, m, g)
      <3>1. f = [i \in 0..(m - 1) |-> IF i = 0 THEN {} ELSE Xor(f[i - 1], w[i])]
        BY <2>2 DEF Rounds
      <3>2. ASSUME NEW i \in 0..m
            PROVE  g[i] = IF i = 0 THEN {} ELSE Xor(g[i - 1], w[i])
        <4>1. CASE i = m
          BY <4>1, <2>1, <1>3
        <4>2. CASE i # m
          <5>1. i \in 0..(m - 1) /\ g[i] = f[i]
            BY <4>2, <2>1
          <5>2. f[i] = IF i = 0 THEN {} ELSE Xor(f[i - 1], w[i])
            BY <5>1, <3>1
          <5>3. i # 0 => g[i - 1] = f[i - 1]
            BY <4>2, <2>1
          <5> QED
            BY <5>1, <5>2, <5>3
        <4> QED
          BY <4>1, <4>2
      <3>3. g = [i \in 0..m |-> g[i]]
        OBVIOUS
      <3> HIDE DEF g
      <3> QED
        BY <3>2, <3>3 DEF Rounds
    <2> QED
      BY <2>1, <2>3
  <1> QED
    BY <1>2, <1>3

\* The first n bytes of w that have bit b.
Ones(w, n, b) == {k \in 1..n : b \in w[k]}

\* Their number is a natural number, and one more byte adds one or nothing.
LEMMA OnesFinite ==
    ASSUME NEW w, NEW n \in Nat, NEW b
    PROVE  IsFiniteSet(Ones(w, n, b)) /\ Cardinality(Ones(w, n, b)) \in Nat
  <1>1. IsFiniteSet(1..n)
    BY FS_Interval
  <1>2. Ones(w, n, b) \in SUBSET (1..n)
    BY DEF Ones
  <1>3. IsFiniteSet(Ones(w, n, b))
    BY <1>1, <1>2, FS_Subset
  <1> QED
    BY <1>3, FS_CardinalityType

\* A round of the loop flips a bit of checksum if the byte has it.
LEMMA OnesStep ==
    ASSUME NEW w, NEW n \in Nat, NEW b
    PROVE  Cardinality(Ones(w, n + 1, b)) =
               IF b \in w[n + 1] THEN Cardinality(Ones(w, n, b)) + 1
                                 ELSE Cardinality(Ones(w, n, b))
  <1>1. n + 1 \notin Ones(w, n, b)
    BY DEF Ones
  <1>2. CASE b \in w[n + 1]
    <2>1. Ones(w, n + 1, b) = Ones(w, n, b) \cup {n + 1}
      BY <1>2 DEF Ones
    <2> QED
      BY <1>1, <1>2, <2>1, OnesFinite, FS_AddElement
  <1>3. CASE b \notin w[n + 1]
    <2>1. Ones(w, n + 1, b) = Ones(w, n, b)
      BY <1>3 DEF Ones
    <2> QED
      BY <1>3, <2>1
  <1> QED
    BY <1>2, <1>3

Odd(c) == c % 2 = 1

\* Parity flips with every one.
LEMMA OddStep == \A c \in Nat : Odd(c + 1) <=> ~Odd(c)
  BY DEF Odd

\* After n rounds checksum has the bits that an odd number of bytes have.
LEMMA LoopComputesParity ==
    ASSUME NEW w, NEW n \in Nat, \A k \in 1..n : w[k] \in Byte
    PROVE  XorLoop(w, n) = {b \in Bit : Odd(Cardinality(Ones(w, n, b)))}
  <1> DEFINE Correct(f, m) == f[m] = {b \in Bit : Odd(Cardinality(Ones(w, m, b)))}
  <1>1. PICK f : Rounds(w, n, f) /\ XorLoop(w, n) = f[n]
    <2>1. \E f : Rounds(w, n, f)
      BY RoundsExist
    <2> DEFINE f == CHOOSE f : Rounds(w, n, f)
    <2>2. Rounds(w, n, f)
      BY <2>1
    <2>3. XorLoop(w, n) = f[n]
      BY DEF XorLoop, Rounds
    <2> QED
      BY <2>2, <2>3
  <1>2. \A i \in 0..n : f[i] = IF i = 0 THEN {} ELSE Xor(f[i - 1], w[i])
    BY <1>1 DEF Rounds
  <1> DEFINE T == {m \in 0..n : ~Correct(f, m)}
  <1> SUFFICES ASSUME T # {} PROVE FALSE
    BY <1>1
  <1>3. PICK m \in T : \A k \in T : m <= k
    <2>1. T \in SUBSET Nat
      OBVIOUS
    <2> QED
      BY <2>1, LeastNatural
  <1>4. m \in 0..n /\ m \in Nat /\ ~Correct(f, m)
    OBVIOUS
  <1>5. CASE m = 0
    <2>1. ASSUME NEW b PROVE ~Odd(Cardinality(Ones(w, 0, b)))
      <3>1. Ones(w, 0, b) = {}
        BY DEF Ones
      <3> QED
        BY <3>1, FS_EmptySet DEF Odd
    <2>2. f[0] = {}
      BY <1>2, <1>4
    <2> QED
      BY <1>4, <1>5, <2>1, <2>2
  <1>6. CASE m # 0
    <2> DEFINE l == m - 1
    <2>1. l \in Nat /\ l \in 0..n /\ l + 1 = m /\ m \in 1..n
      BY <1>4, <1>6
    <2>2. Correct(f, l)
      <3>1. l \notin T
        BY <1>3, <1>4, <2>1
      <3> QED
        BY <2>1, <3>1
    <2>3. f[m] = Xor(f[l], w[m])
      BY <1>2, <1>6, <2>1
    <2>4. w[m] \in SUBSET Bit
      BY <2>1 DEF Byte
    <2>5. ASSUME NEW b \in Bit
          PROVE  b \in f[m] <=> Odd(Cardinality(Ones(w, m, b)))
      <3>1. Cardinality(Ones(w, l, b)) \in Nat
        BY <2>1, OnesFinite
      <3>2. Cardinality(Ones(w, m, b)) =
               IF b \in w[m] THEN Cardinality(Ones(w, l, b)) + 1
                             ELSE Cardinality(Ones(w, l, b))
        BY <2>1, OnesStep
      <3>3. b \in f[l] <=> Odd(Cardinality(Ones(w, l, b)))
        BY <2>2
      <3>4. b \in f[m] <=> ((b \in f[l]) # (b \in w[m]))
        BY <2>3 DEF Xor
      <3> QED
        BY <3>1, <3>2, <3>3, <3>4, OddStep
    <2>6. f[m] \subseteq Bit
      BY <2>2, <2>3, <2>4 DEF Xor
    <2>7. Correct(f, m)
      BY <2>5, <2>6
    <2> QED
      BY <1>4, <2>7
  <1> QED
    BY <1>5, <1>6

-----------------------------------------------------------------------------
(* Wrapping and unwrapping.                                                *)

\* Masking a byte twice gives it back.
LEMMA MaskedTwice ==
    ASSUME NEW b \in Byte
    PROVE  Masked(b) \in Byte /\ Masked(Masked(b)) = b
  <1>1. Mask \subseteq Bit
    BY DEF Mask, Bit
  <1> QED
    BY <1>1 DEF Masked, Xor, Byte

\* All bytes of w but the last.
Front(w) == [i \in 1..(Len(w) - 1) |-> w[i]]

\* A sequence is its front and its last byte.
LEMMA FrontAndLast ==
    ASSUME NEW w \in Seq(Byte), w # <<>>
    PROVE  /\ Len(w) \in Nat /\ Len(w) - 1 \in Nat /\ Len(w) \in DOMAIN w
           /\ Front(w) \in Seq(Byte) /\ DOMAIN Front(w) = 1..(Len(w) - 1)
           /\ \A i \in 1..(Len(w) - 1) : i \in DOMAIN w /\ w[i] \in Byte
           /\ \A b : Append(Front(w), b) = w <=> w[Len(w)] = b
  <1> DEFINE n == Len(w)
             f == Front(w)
  <1>1. n \in Nat /\ n # 0 /\ DOMAIN w = 1..n /\ w \in [1..n -> Byte]
    OBVIOUS
  <1>2. n - 1 \in Nat /\ \A i \in 1..(n - 1) : i \in 1..n /\ w[i] \in Byte
    BY <1>1
  <1>3. f \in [1..(n - 1) -> Byte] /\ f \in Seq(Byte) /\ Len(f) = n - 1
    <2>1. f \in [1..(n - 1) -> Byte]
      BY <1>2 DEF Front
    <2> QED
      BY <1>2, <2>1
  <1>4. n \in 1..n /\ \A i \in 1..n : i = n \/ i \in 1..(n - 1)
    <2> HIDE DEF n
    <2> QED
      BY <1>1
  <1>5. ASSUME NEW b
        PROVE  Append(f, b) = w <=> w[n] = b
    <2> DEFINE a == Append(f, b)
               S == Byte \cup {b}
    <2>1. f \in Seq(S) /\ b \in S
      <3>1. f \in [1..(n - 1) -> S]
        BY <1>3
      <3> QED
        BY <1>2, <3>1
    <2>2. a \in Seq(S) /\ Len(a) = Len(f) + 1 /\ a[Len(f) + 1] = b
          /\ \A i \in 1..Len(f) : a[i] = f[i]
      BY <2>1, AppendProperties
    <2>3. Len(f) = n - 1 /\ Len(f) + 1 = n /\ \A i \in 1..(n - 1) : f[i] = w[i]
      BY <1>1, <1>3 DEF Front
    <2> HIDE DEF a, n, f
    <2>4. /\ a \in [1..n -> S] /\ a[n] = b
          /\ \A i \in 1..(n - 1) : a[i] = w[i]
      BY <2>2, <2>3
    <2>5. ASSUME w[n] = b PROVE a = w
      <3>1. \A i \in 1..n : a[i] = w[i]
        BY <1>4, <2>4, <2>5
      <3> QED
        BY <1>1, <2>4, <3>1
    <2>6. a = w => w[n] = b
      BY <2>4
    <2> QED
      BY <2>5, <2>6 DEF a
  <1>6. DOMAIN f = 1..(n - 1)
    BY DEF Front
  <1> HIDE DEF n, f
  <1> QED
    BY <1>1, <1>2, <1>3, <1>4, <1>5, <1>6 DEF n, f

\* The checksum that keybox_unwrap computes is the one of the reference.
LEMMA ChecksumIsParity ==
    ASSUME NEW w \in Seq(Byte), w # <<>>
    PROVE  Checksum(w) = Parity(Front(w))
  <1> DEFINE n == Len(w) - 1
             f == Front(w)
  <1>1. n \in Nat /\ DOMAIN f = 1..n /\ \A k \in 1..n : w[k] \in Byte /\ f[k] = w[k]
    BY FrontAndLast DEF Front
  <1>2. \A b : Ones(w, n, b) = {k \in DOMAIN f : b \in f[k]}
    BY <1>1 DEF Ones
  <1>3. Checksum(w) = {b \in Bit : Odd(Cardinality(Ones(w, n, b)))}
    BY <1>1, LoopComputesParity DEF Checksum
  <1> QED
    BY <1>2, <1>3 DEF Parity, Odd

\* What the reference makes of what the unwrapping gave.
LEMMA Rewrapped ==
    ASSUME NEW w \in Seq(Byte), w # <<>>
    PROVE  LET p == [i \in 1..(Len(w) - 1) |-> Masked(w[i])]
           IN  p \in Seq(Byte) /\ WrapReference(p) = Append(Front(w), Checksum(w))
  <1> DEFINE n == Len(w) - 1
             p == [i \in 1..n |-> Masked(w[i])]
             masked == [i \in DOMAIN p |-> Masked(p[i])]
  <1>1. n \in Nat /\ \A i \in 1..n : w[i] \in Byte
    BY FrontAndLast
  <1>2. \A i \in 1..n : Masked(w[i]) \in Byte /\ Masked(Masked(w[i])) = w[i]
    BY <1>1, MaskedTwice
  <1>3. p \in [1..n -> Byte] /\ p \in Seq(Byte)
    BY <1>1, <1>2
  <1>4. masked = Front(w)
    BY <1>2 DEF Front
  <1>5. WrapReference(p) = Append(masked, Parity(masked))
    BY DEF WrapReference
  <1> HIDE DEF masked, p
  <1>6. WrapReference(p) = Append(Front(w), Checksum(w))
    BY <1>4, <1>5, ChecksumIsParity
  <1> QED
    BY <1>3, <1>6 DEF p

\* The bytes that unwrap are those of wrapped keyboxes.
LEMMA WrappingHasChecksum ==
    ASSUME NEW w \in Seq(Byte), w # <<>>
    PROVE  IsWrapping(w) <=> w[Len(w)] = Checksum(w)
  <1>1. IsWrapping(w) <=> Append(Front(w), Checksum(w)) = w
    BY Rewrapped DEF IsWrapping
  <1> QED
    BY <1>1, FrontAndLast

\* keybox_unwrap, given a buffer that is large enough, succeeds exactly on the
\* wrapped keyboxes, and what it gives is the keybox that was wrapped.
THEOREM UnwrapInvertsWrapping ==
    ASSUME NEW w \in Seq(Byte), NEW n \in Nat, Len(w) - 1 <= n
    PROVE  LET r == keybox_unwrap(w, n)
           IN  /\ r.status = "SUCCESS" <=> IsWrapping(w)
               /\ r.status = "SUCCESS" => /\ r.plaintext \in Seq(Byte)
                                          /\ WrapReference(r.plaintext) = w
               /\ r.status # "SUCCESS" => r.plaintext = <<>>
  <1> DEFINE r == keybox_unwrap(w, n)
             p == [i \in 1..(Len(w) - 1) |-> Masked(w[i])]
  <1>1. CASE w = <<>>
    <2>1. r = Failed("INVALID_REQUEST")
      BY <1>1 DEF keybox_unwrap
    <2>2. ~IsWrapping(w)
      BY <1>1 DEF IsWrapping
    <2> QED
      BY <2>1, <2>2 DEF Failed
  <1>2. CASE w # <<>>
    <2>1. Len(w) \in Nat /\ Len(w) - 1 \in Nat
      BY <1>2, FrontAndLast
    <2>2. r = IF Checksum(w) # w[Len(w)] THEN Failed("UNWRAP_FAIL")
              ELSE [status |-> "SUCCESS", plaintext |-> p]
      BY <2>1 DEF keybox_unwrap
    <2>3. IsWrapping(w) <=> w[Len(w)] = Checksum(w)
      BY <1>2, WrappingHasChecksum
    <2>4. p \in Seq(Byte) /\ WrapReference(p) = Append(Front(w), Checksum(w))
      BY <1>2, Rewrapped
    <2>5. w[Len(w)] = Checksum(w) => Append(Front(w), Checksum(w)) = w
      BY <1>2, FrontAndLast
    <2> HIDE DEF r, p
    <2>6. CASE w[Len(w)] = Checksum(w)
      <3>1. r.status = "SUCCESS" /\ r.plaintext = p
        BY <2>2, <2>6
      <3> QED
        BY <2>3, <2>4, <2>5, <2>6, <3>1 DEF r
    <2>7. CASE w[Len(w)] # Checksum(w)
      <3>1. r.status = "UNWRAP_FAIL" /\ r.plaintext = <<>>
        BY <2>2, <2>7 DEF Failed
      <3> QED
        BY <2>3, <2>7, <3>1 DEF r
    <2> QED
      BY <2>6, <2>7
  <1> QED
    BY <1>1, <1>2

\* Every keybox comes back from being wrapped, whatever its length.
THEOREM WrappedKeyboxUnwraps ==
    ASSUME NEW p \in Seq(Byte), NEW n \in Nat, Len(p) <= n
    PROVE  keybox_unwrap(WrapReference(p), n) =
               [status |-> "SUCCESS", plaintext |-> p]
  <1> DEFINE masked == [i \in DOMAIN p |-> Masked(p[i])]
             w == WrapReference(p)
             m == Len(p)
  <1>1. m \in Nat /\ DOMAIN p = 1..m /\ p \in [1..m -> Byte]
    OBVIOUS
  <1>2. \A i \in 1..m : Masked(p[i]) \in Byte /\ Masked(Masked(p[i])) = p[i]
    BY <1>1, MaskedTwice
  <1>3. masked \in [1..m -> Byte]
    BY <1>1, <1>2
  <1>4. masked \in Seq(Byte) /\ Len(masked) = m
    BY <1>1, <1>3
  <1>5. w = Append(masked, Parity(masked)) /\ Parity(masked) \in Byte
    BY DEF WrapReference, Parity, Byte
  <1>6. \A i \in 1..m : masked[i] = Masked(p[i])
    BY <1>1
  <1> HIDE DEF masked, w, m
  <1>7. /\ w \in Seq(Byte) /\ w # <<>> /\ Len(w) = m + 1
        /\ w[m + 1] = Parity(masked) /\ \A i \in 1..m : w[i] = masked[i]
    BY <1>4, <1>5, AppendProperties
  <1>8. Front(w) = masked
    <2>1. Len(w) - 1 = m
      BY <1>1, <1>7
    <2> QED
      BY <1>3, <1>7, <2>1 DEF Front
  <1>9. Checksum(w) = w[Len(w)]
    BY <1>7, <1>8, ChecksumIsParity
  <1>10. [i \in 1..(Len(w) - 1) |-> Masked(w[i])] = p
    <2>1. Len(w) - 1 = m
      BY <1>1, <1>7
    <2>2. \A i \in 1..m : Masked(w[i]) = p[i]
      BY <1>2, <1>6, <1>7
    <2> QED
      BY <1>1, <2>1, <2>2
  <1>11. ~(Len(w) < 1) /\ ~(n < Len(w) - 1)
    BY <1>1, <1>7 DEF m
  <1>12. keybox_unwrap(w, n) = [status |-> "SUCCESS", plaintext |-> p]
    BY <1>9, <1>10, <1>11 DEF keybox_unwrap
  <1> QED
    BY <1>12 DEF w

\* One byte that has a bit in v and not in w makes the numbers of the bytes
\* with that bit differ by one.
LEMMA OneMoreOne ==
    ASSUME NEW v, NEW w, NEW n \in Nat, NEW x, NEW i \in 1..n,
           x \in v[i], x \notin w[i], \A k \in 1..n : k # i => v[k] = w[k]
    PROVE  Odd(Cardinality(Ones(v, n, x))) <=> ~Odd(Cardinality(Ones(w, n, x)))
  <1>1. Ones(v, n, x) = Ones(w, n, x) \cup {i} /\ i \notin Ones(w, n, x)
    BY DEF Ones
  <1>2. Cardinality(Ones(v, n, x)) = Cardinality(Ones(w, n, x)) + 1
    BY <1>1, OnesFinite, FS_AddElement
  <1> QED
    BY <1>2, OnesFinite, OddStep

\* The checksum in terms of the bits.
LEMMA ChecksumBits ==
    ASSUME NEW w \in Seq(Byte), w # <<>>, NEW x \in Bit
    PROVE  x \in Checksum(w) <=> Odd(Cardinality(Ones(w, Len(w) - 1, x)))
  <1>1. Len(w) - 1 \in Nat /\ \A k \in 1..(Len(w) - 1) : w[k] \in Byte
    BY FrontAndLast
  <1> QED
    BY <1>1, LoopComputesParity DEF Checksum

\* Two wrapped keyboxes differ in more than one byte.
LEMMA OneChangeBreaksWrapping ==
    ASSUME NEW w \in Seq(Byte), IsTampered(w)
    PROVE  ~IsWrapping(w)
  <1> SUFFICES ASSUME IsWrapping(w) PROVE FALSE
    OBVIOUS
  <1>0. PICK i \in DOMAIN w :
            \E b \in Byte \ {w[i]} : IsWrapping([w EXCEPT ![i] = b])
    BY DEF IsTampered
  <1>1. PICK b \in Byte \ {w[i]} : IsWrapping([w EXCEPT ![i] = b])
    BY <1>0
  <1> DEFINE v == [w EXCEPT ![i] = b]
             n == Len(w)
             m == Len(w) - 1
  <1>2. /\ w # <<>> /\ n \in Nat /\ m \in Nat /\ DOMAIN w = 1..n /\ n = m + 1
        /\ w \in [1..n -> Byte]
    BY FrontAndLast DEF IsWrapping
  <1>3. /\ v \in [1..n -> Byte] /\ v[i] = b /\ b # w[i]
        /\ \A k \in 1..n : k # i => v[k] = w[k]
    BY <1>1, <1>2
  <1>4. v \in Seq(Byte) /\ Len(v) = n
    BY <1>2, <1>3
  <1>5. v # <<>> /\ Len(v) - 1 = m
    BY <1>2, <1>4
  <1>6. w[n] = Checksum(w) /\ v[n] = Checksum(v)
    BY <1>1, <1>2, <1>4, <1>5, WrappingHasChecksum
  <1>7. \A x \in Bit : /\ x \in w[n] <=> Odd(Cardinality(Ones(w, m, x)))
                       /\ x \in v[n] <=> Odd(Cardinality(Ones(v, m, x)))
    BY <1>2, <1>4, <1>5, <1>6, ChecksumBits
  <1>8. PICK x \in Bit : x \in w[i] <=> x \notin b
    <2>1. w[i] \in SUBSET Bit /\ b \in SUBSET Bit
      BY <1>1, <1>2 DEF Byte
    <2> QED
      BY <1>3, <2>1
  <1> HIDE DEF v, n, m
  <1>9. CASE i = n
    <2>1. Ones(w, m, x) = Ones(v, m, x)
      BY <1>2, <1>3, <1>9 DEF Ones
    <2> QED
      BY <1>3, <1>7, <1>8, <1>9, <2>1
  <1>10. CASE i # n
    <2>1. i \in 1..m /\ n \in 1..n /\ \A k \in 1..m : k # i => v[k] = w[k]
      BY <1>2, <1>3, <1>10
    <2>2. v[n] = w[n]
      BY <1>3, <1>10, <2>1
    <2>3. Odd(Cardinality(Ones(v, m, x))) <=> ~Odd(Cardinality(Ones(w, m, x)))
      <3>1. CASE x \in v[i] /\ x \notin w[i]
        BY <1>2, <2>1, <3>1, OneMoreOne
      <3>2. CASE x \in w[i] /\ x \notin v[i]
        <4>1. \A k \in 1..m : k # i => w[k] = v[k]
          BY <2>1
        <4>2. Odd(Cardinality(Ones(w, m, x))) <=> ~Odd(Cardinality(Ones(v, m, x)))
          BY <1>2, <2>1, <3>2, <4>1, OneMoreOne
        <4> QED
          BY <4>2
      <3> QED
        BY <1>3, <1>8, <3>1, <3>2
    <2> QED
      BY <1>7, <1>8, <2>2, <2>3
  <1> QED
    BY <1>9, <1>10

-----------------------------------------------------------------------------
(* Requests and replies.                                                   *)

\* What the service replies to a message is right, and a tampered keybox gets
\* no plaintext.
LEMMA RepliesAreRight ==
    ASSUME NEW m \in Messages
    PROVE  /\ RightReply(m, ReplyTo(m))
           /\ m.cmd = "UNWRAP" /\ IsTampered(m.body) =>
                 ReplyTo(m).status # "SUCCESS" /\ ReplyTo(m).plaintext = <<>>
  <1> DEFINE r == ReplyTo(m)
  <1>1. CASE m.cmd # "UNWRAP"
    <2>1. r = Failed("INVALID_REQUEST")
      BY <1>1 DEF ReplyTo
    <2> QED
      BY <1>1, <2>1 DEF RightReply, Failed
  <1>2. CASE m.cmd = "UNWRAP"
    <2>1. /\ m.header \in BOOLEAN /\ m.len \in Nat /\ m.body \in Seq(Byte)
          /\ Len(m.body) <= KeyboxMaxSize /\ Len(m.body) \in Nat
      <3>1. m \in Message /\ Len(m.body) <= KeyboxMaxSize
        BY <1>2, MessagesAssumption
      <3>2. m \in [cmd : {"UNWRAP"}, header : BOOLEAN, len : 0..(LenMod - 1),
                   body : Seq(Byte)]
        BY <1>2, <3>1 DEF Message
      <3> QED
        BY <3>1, <3>2, SizesAssumption
    <2>2. CASE m.header /\ m.len = Len(m.body)
      <3> DEFINE u == keybox_unwrap(m.body, KeyboxMaxSize)
      <3>1. r = u
        BY <1>2, <2>1, <2>2, SizesAssumption DEF ReplyTo, keybox_handle_unwrap
      <3>2. Len(m.body) - 1 <= KeyboxMaxSize /\ KeyboxMaxSize \in Nat
        BY <2>1, SizesAssumption
      <3>3. /\ u.status = "SUCCESS" <=> IsWrapping(m.body)
            /\ u.status = "SUCCESS" => WrapReference(u.plaintext) = m.body
            /\ u.status # "SUCCESS" => u.plaintext = <<>>
        BY <2>1, <3>2, UnwrapInvertsWrapping
      <3>4. IsTampered(m.body) => ~IsWrapping(m.body)
        BY <2>1, OneChangeBreaksWrapping
      <3> HIDE DEF r, u
      <3>5. RightReply(m, r)
        BY <1>2, <2>2, <3>1, <3>3 DEF RightReply
      <3> QED
        BY <3>1, <3>3, <3>4, <3>5 DEF r
    <2>3. CASE ~(m.header /\ m.len = Len(m.body))
      <3>1. r = Failed("INVALID_REQUEST")
        BY <1>2, <2>1, <2>3, SizesAssumption DEF ReplyTo, keybox_handle_unwrap
      <3>2. r.status = "INVALID_REQUEST" /\ r.plaintext = <<>>
        BY <3>1 DEF Failed
      <3> HIDE DEF r
      <3> QED
        BY <2>3, <3>2 DEF RightReply, r
    <2> QED
      BY <2>2, <2>3
  <1> QED
    BY <1>1, <1>2

\* The requests a are, in order, those that were answered with o and those
\* that are still in i.
Matched(a, o, i) ==
    /\ Len(a) = Len(o) + Len(i)
    /\ \A k \in 1..Len(o) : o[k] = ReplyTo(a[k])
    /\ \A k \in 1..Len(i) : a[Len(o) + k] = i[k]

Reply == {ReplyTo(m) : m \in Messages}

\* A request is sent.
LEMMA MatchedSend ==
    ASSUME NEW a \in Seq(Messages), NEW o \in Seq(Reply), NEW i \in Seq(Messages),
           NEW m \in Messages, Matched(a, o, i)
    PROVE  Matched(Append(a, m), o, Append(i, m))
  <1> DEFINE b == Append(a, m)
             j == Append(i, m)
  <1>1. Len(a) \in Nat /\ Len(o) \in Nat /\ Len(i) \in Nat
    OBVIOUS
  <1>2. /\ Len(b) = Len(a) + 1 /\ b[Len(a) + 1] = m
        /\ \A k \in 1..Len(a) : b[k] = a[k]
    BY AppendProperties
  <1>3. /\ Len(j) = Len(i) + 1 /\ j[Len(i) + 1] = m
        /\ \A k \in 1..Len(i) : j[k] = i[k]
    BY AppendProperties
  <1> HIDE DEF b, j
  <1>4. Len(b) = Len(o) + Len(j)
    BY <1>1, <1>2, <1>3 DEF Matched
  <1>5. \A k \in 1..Len(o) : o[k] = ReplyTo(b[k])
    BY <1>1, <1>2 DEF Matched
  <1>6. ASSUME NEW k \in 1..Len(j) PROVE b[Len(o) + k] = j[k]
    <2>1. CASE k = Len(i) + 1
      BY <1>1, <1>2, <1>3, <2>1 DEF Matched
    <2>2. CASE k # Len(i) + 1
      <3>1. k \in 1..Len(i) /\ Len(o) + k \in 1..Len(a)
        BY <1>1, <1>3, <2>2 DEF Matched
      <3> QED
        BY <1>2, <1>3, <3>1 DEF Matched
    <2> QED
      BY <2>1, <2>2
  <1> QED
    BY <1>4, <1>5, <1>6 DEF Matched, b, j

\* The first request that was not answered is.
LEMMA MatchedReply ==
    ASSUME NEW a \in Seq(Messages), NEW o \in Seq(Reply), NEW i \in Seq(Messages),
           i # <<>>, Matched(a, o, i)
    PROVE  /\ Tail(i) \in Seq(Messages) /\ Append(o, ReplyTo(Head(i))) \in Seq(Reply)
           /\ Matched(a, Append(o, ReplyTo(Head(i))), Tail(i))
  <1> DEFINE r == ReplyTo(Head(i))
             q == Append(o, r)
             j == Tail(i)
  <1>1. Len(a) \in Nat /\ Len(o) \in Nat /\ Len(i) \in Nat /\ Len(i) # 0
    OBVIOUS
  <1>2. /\ Head(i) = i[1] /\ i[1] \in Messages /\ r \in Reply
        /\ j \in Seq(Messages) /\ Len(j) = Len(i) - 1
        /\ \A k \in 1..Len(j) : j[k] = i[k + 1]
    BY HeadTailProperties DEF Reply
  <1>3. /\ q \in Seq(Reply) /\ Len(q) = Len(o) + 1 /\ q[Len(o) + 1] = r
        /\ \A k \in 1..Len(o) : q[k] = o[k]
    BY <1>2, AppendProperties
  <1>4. a[Len(o) + 1] = i[1]
    BY <1>1 DEF Matched
  <1>5. r = ReplyTo(a[Len(o) + 1])
    BY <1>2, <1>4
  <1> HIDE DEF r, q, j
  <1>6. Len(a) = Len(q) + Len(j)
    BY <1>1, <1>2, <1>3 DEF Matched
  <1>7. ASSUME NEW k \in 1..Len(q) PROVE q[k] = ReplyTo(a[k])
    <2>1. CASE k = Len(o) + 1
      BY <1>3, <1>5, <2>1
    <2>2. CASE k # Len(o) + 1
      <3>1. k \in 1..Len(o)
        BY <1>1, <1>3, <2>2
      <3> QED
        BY <1>3, <3>1 DEF Matched
    <2> QED
      BY <2>1, <2>2
  <1>8. ASSUME NEW k \in 1..Len(j) PROVE a[Len(q) + k] = j[k]
    <2>1. k + 1 \in 1..Len(i) /\ Len(q) + k = Len(o) + (k + 1)
      BY <1>1, <1>2, <1>3
    <2> QED
      BY <1>2, <2>1 DEF Matched
  <1> QED
    BY <1>2, <1>3, <1>6, <1>7, <1>8 DEF Matched, r, q, j

\* The first reply is read.
LEMMA MatchedRecv ==
    ASSUME NEW a \in Seq(Messages), NEW o \in Seq(Reply), NEW i \in Seq(Messages),
           o # <<>>, Matched(a, o, i)
    PROVE  Matched(Tail(a), Tail(o), i)
  <1> DEFINE b == Tail(a)
             q == Tail(o)
  <1>1. Len(a) \in Nat /\ Len(o) \in Nat /\ Len(i) \in Nat /\ Len(o) # 0
    OBVIOUS
  <1>2. a # <<>>
    BY <1>1 DEF Matched
  <1>3. Len(b) = Len(a) - 1 /\ \A k \in 1..Len(b) : b[k] = a[k + 1]
    BY <1>2, HeadTailProperties
  <1>4. Len(q) = Len(o) - 1 /\ \A k \in 1..Len(q) : q[k] = o[k + 1]
    BY HeadTailProperties
  <1> HIDE DEF b, q
  <1>5. Len(b) = Len(q) + Len(i)
    BY <1>1, <1>3, <1>4 DEF Matched
  <1>6. ASSUME NEW k \in 1..Len(q) PROVE q[k] = ReplyTo(b[k])
    <2>1. k + 1 \in 1..Len(o) /\ k \in 1..Len(b)
      BY <1>1, <1>4, <1>5
    <2> QED
      BY <1>3, <1>4, <2>1 DEF Matched
  <1>7. ASSUME NEW k \in 1..Len(i) PROVE b[Len(q) + k] = i[k]
    <2>1. Len(q) + k \in 1..Len(b) /\ (Len(q) + k) + 1 = Len(o) + k
      BY <1>1, <1>4, <1>5
    <2> QED
      BY <1>3, <2>1 DEF Matched
  <1> QED
    BY <1>5, <1>6, <1>7 DEF Matched, b, q

-----------------------------------------------------------------------------
(* The sessions of the service.                                            *)

TypeOK ==
    /\ st \in [Chan -> {"free", "connecting", "open", "closed"}]
    /\ hup \in [Chan -> BOOLEAN]
    /\ inq \in [Chan -> Seq(Messages)]
    /\ asked \in [Chan -> Seq(Messages)]
    /\ outq \in [Chan -> Seq(Reply)]

\* What a session is in each of its states.  A client that has hung up reads
\* no more, so that its replies are gone; one whose session was closed by the
\* service can still read those it has.
Session(c) ==
    /\ hup[c] => st[c] = "open" /\ outq[c] = <<>>
    /\ st[c] # "open" => inq[c] = <<>>
    /\ st[c] \in {"free", "connecting"} => outq[c] = <<>> /\ asked[c] = <<>>
    /\ st[c] = "closed" => Len(outq[c]) <= Len(asked[c])
    /\ st[c] = "open" /\ ~hup[c] => Matched(asked[c], outq[c], inq[c])

Inv == TypeOK /\ \A c \in Chan : Session(c)

\* A step that is about channel c leaves the other sessions alone.
LEMMA OneSession ==
    ASSUME Inv, TypeOK', NEW c \in Chan, Session(c)',
           \A d \in Chan : d # c =>
               /\ st'[d] = st[d] /\ hup'[d] = hup[d]
               /\ inq'[d] = inq[d] /\ outq'[d] = outq[d] /\ asked'[d] = asked[d]
    PROVE  Inv'
  <1>1. ASSUME NEW d \in Chan, d # c PROVE Session(d)'
    BY <1>1 DEF Inv, Session
  <1> QED
    BY <1>1 DEF Inv

\* A sum is no less than its parts.
LEMMA SumIsNoLess == \A m, n \in Nat : m <= m + n /\ n <= m + n
  OBVIOUS

\* A session is closed by the service: of a client that is there it keeps the
\* replies, and one that has hung up leaves nothing behind.
LEMMA ShutdownStep ==
    ASSUME Inv, NEW c \in Chan, st[c] = "open", keybox_shutdown(c)
    PROVE  Inv'
  <1>1. TypeOK'
    BY DEF Inv, TypeOK, keybox_shutdown
  <1>2. Session(c)'
    <2>1. CASE hup[c]
      BY <2>1 DEF Inv, TypeOK, Session, keybox_shutdown
    <2>2. CASE ~hup[c]
      <3>1. Len(outq[c]) <= Len(asked[c])
        <4>1. /\ Len(outq[c]) \in Nat /\ Len(inq[c]) \in Nat
              /\ Len(asked[c]) = Len(outq[c]) + Len(inq[c])
          BY <2>2 DEF Inv, TypeOK, Session, Matched
        <4> QED
          BY <4>1, SumIsNoLess
      <3> QED
        BY <2>2, <3>1 DEF Inv, TypeOK, Session, keybox_shutdown
    <2> QED
      BY <2>1, <2>2
  <1> QED
    BY <1>1, <1>2, OneSession DEF Inv, TypeOK, keybox_shutdown

\* A message is handled: its reply is behind those that were not read yet.
LEMMA HandlerStep ==
    ASSUME Inv, NEW c \in Chan, NEW event \in SUBSET Pending(c),
           keybox_chan_handler(c, event)
    PROVE  Inv'
  <1> DEFINE rc == "MSG" \in event /\ keybox_handle_msg_fails(c)
  <1>1. st[c] = "open" /\ event # {}
    BY DEF keybox_chan_handler
  <1>2. CASE "HUP" \in event \/ rc
    BY <1>1, <1>2, ShutdownStep DEF keybox_chan_handler
  <1>3. CASE ~("HUP" \in event \/ rc)
    <2>1. "MSG" \in event /\ inq[c] # <<>> /\ ~hup[c]
      BY <1>1, <1>3 DEF Pending, keybox_handle_msg_fails, CanSend
    <2>2. /\ inq' = [inq EXCEPT ![c] = Tail(@)]
          /\ outq' = [outq EXCEPT ![c] = Append(@, ReplyTo(Head(inq[c])))]
          /\ UNCHANGED <<st, hup, asked>>
      BY <1>3 DEF keybox_chan_handler
    <2>3. /\ inq[c] \in Seq(Messages) /\ outq[c] \in Seq(Reply)
          /\ asked[c] \in Seq(Messages) /\ Matched(asked[c], outq[c], inq[c])
      BY <1>1, <2>1 DEF Inv, TypeOK, Session
    <2> DEFINE o == Append(outq[c], ReplyTo(Head(inq[c])))
               i == Tail(inq[c])
    <2>4. i \in Seq(Messages) /\ o \in Seq(Reply) /\ Matched(asked[c], o, i)
      BY <2>1, <2>3, MatchedReply
    <2>5. outq'[c] = o /\ inq'[c] = i /\ asked'[c] = asked[c]
      BY <2>2 DEF Inv, TypeOK
    <2> HIDE DEF o, i
    <2>6. TypeOK'
      BY <2>2, <2>4 DEF Inv, TypeOK, o, i
    <2>7. Session(c)'
      BY <1>1, <2>1, <2>2, <2>4, <2>5 DEF Session
    <2> QED
      BY <2>2, <2>6, <2>7, OneSession DEF Inv, TypeOK
  <1> QED
    BY <1>2, <1>3

\* A connection is accepted or closed: nothing was sent on it.
LEMMA PortStep ==
    ASSUME Inv, NEW c \in Chan, keybox_port_handler(c)
    PROVE  Inv'
  <1>1. st[c] = "connecting" /\ UNCHANGED <<hup, inq, outq, asked>>
    BY DEF keybox_port_handler
  <1>2. PICK s \in {"open", "closed"} : st' = [st EXCEPT ![c] = s]
    BY DEF keybox_port_handler
  <1>3. TypeOK'
    BY <1>1, <1>2 DEF Inv, TypeOK
  <1>4. ~hup[c] /\ inq[c] = <<>> /\ outq[c] = <<>> /\ asked[c] = <<>>
    BY <1>1 DEF Inv, TypeOK, Session
  <1>5. Matched(<<>>, <<>>, <<>>) /\ Len(<<>>) <= Len(<<>>)
    BY DEF Matched
  <1>6. Session(c)'
    BY <1>1, <1>2, <1>4, <1>5 DEF Inv, TypeOK, Session
  <1> QED
    BY <1>1, <1>2, <1>3, <1>6, OneSession DEF Inv, TypeOK

\* What the clients do.
LEMMA ConnectStep ==
    ASSUME Inv, NEW c \in Chan, ClientConnect(c)
    PROVE  Inv'
  <1>1. TypeOK' /\ Session(c)'
    BY DEF Inv, TypeOK, Session, ClientConnect
  <1> QED
    BY <1>1, OneSession DEF Inv, TypeOK, ClientConnect

\* A request is asked and queued.
LEMMA SendStep ==
    ASSUME Inv, NEW c \in Chan, NEW m \in Messages, ClientSend(c, m)
    PROVE  Inv'
  <1>1. /\ st[c] = "open" /\ ~hup[c] /\ UNCHANGED <<st, hup, outq>>
        /\ inq' = [inq EXCEPT ![c] = Append(@, m)]
        /\ asked' = [asked EXCEPT ![c] = Append(@, m)]
    BY DEF ClientSend
  <1>2. /\ inq[c] \in Seq(Messages) /\ outq[c] \in Seq(Reply)
        /\ asked[c] \in Seq(Messages) /\ Matched(asked[c], outq[c], inq[c])
    BY <1>1 DEF Inv, TypeOK, Session
  <1>3. Matched(Append(asked[c], m), outq[c], Append(inq[c], m))
    BY <1>2, MatchedSend
  <1>4. /\ inq'[c] = Append(inq[c], m) /\ asked'[c] = Append(asked[c], m)
        /\ outq'[c] = outq[c]
    BY <1>1 DEF Inv, TypeOK
  <1>5. TypeOK'
    BY <1>1, <1>2 DEF Inv, TypeOK
  <1>6. Session(c)'
    BY <1>1, <1>3, <1>4 DEF Session
  <1> QED
    BY <1>1, <1>5, <1>6, OneSession DEF Inv, TypeOK

\* A reply is read; its request is the first one.
LEMMA RecvStep ==
    ASSUME Inv, NEW c \in Chan, ClientRecv(c)
    PROVE  Inv'
  <1>1. /\ st[c] \in {"open", "closed"} /\ ~hup[c] /\ UNCHANGED <<st, hup, inq>>
        /\ outq[c] # <<>>
        /\ outq' = [outq EXCEPT ![c] = Tail(@)]
        /\ asked' = [asked EXCEPT ![c] = Tail(@)]
    BY DEF ClientRecv
  <1>2. inq[c] \in Seq(Messages) /\ outq[c] \in Seq(Reply) /\ asked[c] \in Seq(Messages)
    BY DEF Inv, TypeOK
  <1>3. Len(outq[c]) \in Nat /\ Len(outq[c]) # 0 /\ Len(inq[c]) \in Nat
        /\ Len(asked[c]) \in Nat /\ Len(outq[c]) <= Len(asked[c])
    <2>1. Len(outq[c]) \in Nat /\ Len(outq[c]) # 0 /\ Len(inq[c]) \in Nat
          /\ Len(asked[c]) \in Nat
      BY <1>1, <1>2
    <2>2. CASE st[c] = "open"
      <3>1. Matched(asked[c], outq[c], inq[c])
        BY <1>1, <2>2 DEF Inv, Session
      <3>2. Len(asked[c]) = Len(outq[c]) + Len(inq[c])
        BY <3>1 DEF Matched
      <3> QED
        BY <2>1, <3>2, SumIsNoLess
    <2>3. CASE st[c] = "closed"
      BY <2>1, <2>3 DEF Inv, Session
    <2> QED
      BY <1>1, <2>1, <2>2, <2>3
  <1>4. asked[c] # <<>>
    BY <1>3
  <1>5. /\ Tail(outq[c]) \in Seq(Reply) /\ Tail(asked[c]) \in Seq(Messages)
        /\ Len(Tail(outq[c])) = Len(outq[c]) - 1
        /\ Len(Tail(asked[c])) = Len(asked[c]) - 1
    BY <1>1, <1>2, <1>4, HeadTailProperties
  <1>6. TypeOK'
    BY <1>1, <1>5 DEF Inv, TypeOK
  <1>7. outq'[c] = Tail(outq[c]) /\ asked'[c] = Tail(asked[c]) /\ inq'[c] = inq[c]
    BY <1>1 DEF Inv, TypeOK
  <1>8. st[c] = "open" => Matched(Tail(asked[c]), Tail(outq[c]), inq[c])
    <2>1. st[c] = "open" => Matched(asked[c], outq[c], inq[c])
      BY <1>1 DEF Inv, Session
    <2> QED
      BY <1>1, <1>2, <2>1, MatchedRecv
  <1>9. Len(Tail(outq[c])) <= Len(Tail(asked[c]))
    BY <1>3, <1>5
  <1>10. Session(c)'
    BY <1>1, <1>7, <1>8, <1>9 DEF Inv, Session
  <1> QED
    BY <1>1, <1>6, <1>10, OneSession DEF Inv, TypeOK

\* The client leaves, and its replies with it.
LEMMA CloseStep ==
    ASSUME Inv, NEW c \in Chan, ClientClose(c)
    PROVE  Inv'
  <1>0. <<>> \in Seq(Reply) /\ <<>> \in Seq(Messages)
    OBVIOUS
  <1>1. TypeOK'
    <2>1. outq' \in [Chan -> Seq(Reply)] /\ inq' \in [Chan -> Seq(Messages)]
      BY <1>0 DEF Inv, TypeOK, ClientClose
    <2>2. /\ st' \in [Chan -> {"free", "connecting", "open", "closed"}]
          /\ hup' \in [Chan -> BOOLEAN]
      BY DEF Inv, TypeOK, ClientClose
    <2>3. asked' \in [Chan -> Seq(Messages)]
      BY <1>0 DEF Inv, TypeOK, ClientClose
    <2> QED
      BY <2>1, <2>2, <2>3 DEF TypeOK
  <1>2. Session(c)'
    <2>1. CASE st[c] \in {"connecting", "closed"}
      BY <2>1 DEF Inv, TypeOK, Session, ClientClose
    <2>2. CASE st[c] = "open"
      BY <2>2 DEF Inv, TypeOK, Session, ClientClose
    <2> QED
      BY <2>1, <2>2 DEF ClientClose
  <1> QED
    BY <1>1, <1>2, OneSession DEF Inv, TypeOK, ClientClose

\* The application stops, and the kernel closes all its sessions.
LEMMA StopStep ==
    ASSUME Inv, Stop
    PROVE  Inv'
  <1>0. <<>> \in Seq(Messages)
    OBVIOUS
  <1>1. TypeOK'
    <2>1. /\ st' \in [Chan -> {"free", "connecting", "open", "closed"}]
          /\ hup' \in [Chan -> BOOLEAN] /\ outq' \in [Chan -> Seq(Reply)]
      BY DEF Inv, TypeOK, Stop
    <2>2. inq' \in [Chan -> Seq(Messages)] /\ asked' \in [Chan -> Seq(Messages)]
      BY <1>0 DEF Inv, TypeOK, Stop
    <2> QED
      BY <2>1, <2>2 DEF TypeOK
  <1>2. ASSUME NEW c \in Chan PROVE Session(c)'
    <2>1. /\ ~hup'[c] /\ inq'[c] = <<>> /\ outq'[c] = outq[c]
          /\ asked'[c] = IF hup[c] THEN <<>> ELSE asked[c]
          /\ st'[c] = IF st[c] = "open" /\ hup[c] THEN "free"
                      ELSE IF st[c] = "free" THEN "free" ELSE "closed"
      BY DEF Stop
    <2>2. Session(c) /\ st[c] \in {"free", "connecting", "open", "closed"}
      BY DEF Inv, TypeOK
    <2>3. CASE st'[c] = "free"
      BY <2>1, <2>2, <2>3 DEF Session
    <2>4. CASE st'[c] = "closed"
      <3>1. ~hup[c] /\ asked'[c] = asked[c]
        BY <2>1, <2>2, <2>4 DEF Session
      <3>2. Len(outq[c]) <= Len(asked[c])
        <4>1. CASE st[c] = "open"
          <5>1. Matched(asked[c], outq[c], inq[c])
            BY <2>2, <3>1, <4>1 DEF Session
          <5>2. Len(outq[c]) \in Nat /\ Len(inq[c]) \in Nat
            BY DEF Inv, TypeOK
          <5>3. Len(asked[c]) = Len(outq[c]) + Len(inq[c])
            BY <5>1 DEF Matched
          <5> QED
            BY <5>2, <5>3, SumIsNoLess
        <4>2. CASE st[c] = "connecting"
          BY <2>2, <4>2 DEF Session
        <4>3. CASE st[c] = "closed"
          BY <2>2, <4>3 DEF Session
        <4> QED
          BY <2>1, <2>2, <2>4, <4>1, <4>2, <4>3
      <3> QED
        BY <2>1, <2>4, <3>1, <3>2 DEF Session
    <2> QED
      BY <2>1, <2>3, <2>4
  <1> QED
    BY <1>1, <1>2 DEF Inv

\* A port without a handler is closed at the first connection, and those who
\* were connecting find their ends closed.
LEMMA MutePortStep ==
    ASSUME Inv, NEW s,
           st' = [c \in Chan |-> IF s = "keybox" /\ st[c] = "connecting"
                                 THEN "closed" ELSE st[c]],
           UNCHANGED <<hup, inq, outq, asked>>
    PROVE  Inv'
  <1>1. TypeOK'
    BY DEF Inv, TypeOK
  <1>2. ASSUME NEW c \in Chan PROVE Session(c)'
    <2>1. Session(c) /\ st'[c] = IF s = "keybox" /\ st[c] = "connecting"
                                 THEN "closed" ELSE st[c]
      BY DEF Inv
    <2>2. Len(<<>>) <= Len(<<>>)
      OBVIOUS
    <2> QED
      BY <2>1, <2>2 DEF Session
  <1> QED
    BY <1>1, <1>2 DEF Inv

\* A step that leaves the keybox service alone.
LEMMA IdleStep == Inv /\ UNCHANGED vars => Inv'
  BY DEF Inv, TypeOK, Session, vars

\* Every step of main keeps the invariant.
LEMMA MainStep ==
    ASSUME Inv, main
    PROVE  Inv'
  <1>1. CASE hwrng_start_service
    BY <1>1, StopStep, IdleStep DEF hwrng_start_service, PortCreated
  <1>2. CASE hwkey_init_srv_provider
    BY <1>2, StopStep, IdleStep DEF hwkey_init_srv_provider, PortCreated
  <1>3. CASE keybox_start_service
    BY <1>3, StopStep, IdleStep DEF keybox_start_service, PortCreated
  <1>4. ASSUME NEW s \in Services, dispatch_event(s) PROVE Inv'
    BY <1>4, PortStep, MutePortStep, IdleStep DEF dispatch_event
  <1>5. ASSUME NEW c \in Chan, SessionEvent(c) PROVE Inv'
    BY <1>5, HandlerStep DEF SessionEvent
  <1>6. CASE WaitFails
    BY <1>6, StopStep DEF WaitFails
  <1> QED
    BY <1>1, <1>2, <1>3, <1>4, <1>5, <1>6 DEF main

\* In every state of the application each session is as Session says.
THEOREM Invariance == MainSpec => []Inv
  <1>1. MainInit => Inv
    BY DEF MainInit, Init, Inv, TypeOK, Session
  <1>2. Inv /\ [MainNext]_allvars => Inv'
    <2> SUFFICES ASSUME Inv, [MainNext]_allvars PROVE Inv'
      OBVIOUS
    <2>1. CASE main
      BY <2>1, MainStep
    <2>2. ASSUME NEW s \in Other, Connects(s) PROVE Inv'
      BY <2>2, IdleStep DEF Connects
    <2>3. ASSUME NEW c \in Chan, KeyboxClient(c) PROVE Inv'
      BY <2>3, ConnectStep, SendStep, RecvStep, CloseStep DEF KeyboxClient
    <2>4. CASE UNCHANGED allvars
      BY <2>4, IdleStep DEF allvars
    <2> QED
      BY <2>1, <2>2, <2>3, <2>4 DEF MainNext
  <1> QED
    BY <1>1, <1>2, PTL DEF MainSpec

\* What Matched says of the queues, in the words of the property.
LEMMA MatchedIsInOrder ==
    ASSUME NEW a \in Seq(Messages), NEW o \in Seq(Reply), NEW i \in Seq(Messages),
           Matched(a, o, i)
    PROVE  /\ SubSeq(a, Len(o) + 1, Len(a)) = i
           /\ \A k \in DOMAIN o : a[k] \in Messages /\ o[k] = ReplyTo(a[k])
  <1>1. /\ Len(a) \in Nat /\ Len(o) \in Nat /\ Len(i) \in Nat
        /\ DOMAIN o = 1..Len(o) /\ i \in [1..Len(i) -> Messages]
        /\ a \in [1..Len(a) -> Messages] /\ Len(a) = Len(o) + Len(i)
    BY DEF Matched
  <1>2. \A k \in DOMAIN o : a[k] \in Messages /\ o[k] = ReplyTo(a[k])
    BY <1>1 DEF Matched
  <1> DEFINE q == SubSeq(a, Len(o) + 1, Len(a))
  <1>3. /\ Len(q) = Len(i) /\ q \in Seq(Messages)
        /\ \A k \in 1..Len(i) : q[k] = a[Len(o) + k]
    <2>1. q = [k \in 1..(Len(a) - (Len(o) + 1) + 1) |-> a[(Len(o) + 1) + k - 1]]
      BY <1>1
    <2>2. Len(a) - (Len(o) + 1) + 1 = Len(i)
      BY <1>1
    <2>3. \A k \in 1..Len(i) : (Len(o) + 1) + k - 1 = Len(o) + k /\ Len(o) + k \in 1..Len(a)
      BY <1>1
    <2>4. q = [k \in 1..Len(i) |-> a[Len(o) + k]]
      BY <2>1, <2>2, <2>3
    <2>5. q \in [1..Len(i) -> Messages]
      BY <1>1, <2>3, <2>4
    <2> HIDE DEF q
    <2> QED
      BY <1>1, <2>4, <2>5
  <1> HIDE DEF q
  <1>4. q = i
    BY <1>1, <1>3 DEF Matched
  <1> QED
    BY <1>2, <1>4 DEF q

\* On every open session the requests and the replies are in step, and each
\* reply is right for its request, for keyboxes of every length.
THEOREM RepliesInStep == MainSpec => []RepliesMatchRequests
  <1>1. Inv => RepliesMatchRequests
    <2> SUFFICES ASSUME Inv, NEW c \in Chan, st[c] = "open", ~hup[c]
                 PROVE  /\ Len(asked[c]) = Len(outq[c]) + Len(inq[c])
                        /\ SubSeq(asked[c], Len(outq[c]) + 1, Len(asked[c])) = inq[c]
                        /\ \A k \in DOMAIN outq[c] : RightReply(asked[c][k], outq[c][k])
      BY DEF RepliesMatchRequests
    <2>1. /\ inq[c] \in Seq(Messages) /\ outq[c] \in Seq(Reply)
          /\ asked[c] \in Seq(Messages) /\ Matched(asked[c], outq[c], inq[c])
      BY DEF Inv, TypeOK, Session
    <2>2. /\ SubSeq(asked[c], Len(outq[c]) + 1, Len(asked[c])) = inq[c]
          /\ \A k \in DOMAIN outq[c] : /\ asked[c][k] \in Messages
                                       /\ outq[c][k] = ReplyTo(asked[c][k])
      BY <2>1, MatchedIsInOrder
    <2>3. \A k \in DOMAIN outq[c] : RightReply(asked[c][k], outq[c][k])
      BY <2>2, RepliesAreRight
    <2> QED
      BY <2>1, <2>2, <2>3 DEF Matched
  <1> QED
    BY <1>1, Invariance, PTL

\* A keybox of which one byte was changed gives no plaintext, whatever its
\* length, the byte and the change.
THEOREM TamperingNoticed == MainSpec => []TamperDetected
  <1>1. Inv => TamperDetected
    <2> SUFFICES ASSUME Inv, NEW c \in Chan, st[c] = "open", ~hup[c],
                        NEW k \in DOMAIN outq[c],
                        asked[c][k].cmd = "UNWRAP", IsTampered(asked[c][k].body)
                 PROVE  outq[c][k].status # "SUCCESS" /\ outq[c][k].plaintext = <<>>
      BY DEF TamperDetected
    <2>1. /\ inq[c] \in Seq(Messages) /\ outq[c] \in Seq(Reply)
          /\ asked[c] \in Seq(Messages) /\ Matched(asked[c], outq[c], inq[c])
      BY DEF Inv, TypeOK, Session
    <2>2. asked[c][k] \in Messages /\ outq[c][k] = ReplyTo(asked[c][k])
      BY <2>1, MatchedIsInOrder
    <2> QED
      BY <2>2, RepliesAreRight
  <1> QED
    BY <1>1, Invariance, PTL
-----------------------------------------------------------------------------
(* How far the second shutdown of keybox_chan_handler reaches.             *)

\* A client hangs up only when it has read the replies to all its requests.
Patient == \A c \in Chan : hup[c] => asked[c] = <<>>

\* No context was freed twice, and none can be: when a client has hung up, no
\* message is left that could be reported together with that.
NothingLeftQueued ==
    /\ heap = "ok"
    /\ \A c \in Chan : hup[c] => inq[c] = <<>>

\* An event of a session with MSG and HUP needs a message that was left.
LEMMA HandlerOnce ==
    ASSUME Inv, NothingLeftQueued, NEW c \in Chan, NEW event \in SUBSET Pending(c),
           keybox_chan_handler(c, event)
    PROVE  NothingLeftQueued'
  <1> DEFINE rc == "MSG" \in event /\ keybox_handle_msg_fails(c)
  <1>1. ~("HUP" \in event /\ "MSG" \in event)
    BY DEF Pending, NothingLeftQueued
  <1>2. heap' = "ok"
    BY <1>1 DEF keybox_chan_handler, NothingLeftQueued
  <1>3. ASSUME NEW d \in Chan, hup'[d] PROVE inq'[d] = <<>>
    <2>1. CASE "HUP" \in event \/ rc
      <3>1. keybox_shutdown(c)
        BY <2>1 DEF keybox_chan_handler
      <3> QED
        BY <1>3, <3>1 DEF keybox_shutdown, NothingLeftQueued, Inv, TypeOK
    <2>2. CASE ~("HUP" \in event \/ rc)
      <3>1. inq[c] # <<>>
        BY <2>2 DEF keybox_chan_handler, Pending
      <3>2. hup' = hup /\ inq' = [inq EXCEPT ![c] = Tail(@)] /\ d # c
        BY <1>3, <2>2, <3>1 DEF keybox_chan_handler, NothingLeftQueued
      <3> QED
        BY <1>3, <3>2 DEF NothingLeftQueued, Inv, TypeOK
    <2> QED
      BY <2>1, <2>2
  <1> QED
    BY <1>2, <1>3 DEF NothingLeftQueued

\* A client that leaves when it has read all its replies leaves no request.
LEMMA PatientClose ==
    ASSUME Inv, NothingLeftQueued, Patient', NEW c \in Chan, ClientClose(c)
    PROVE  NothingLeftQueued'
  <1>1. heap' = heap /\ inq' = inq
    BY DEF ClientClose
  <1>2. CASE hup' = hup
    BY <1>1, <1>2 DEF NothingLeftQueued
  <1>3. CASE hup' # hup
    <2>1. /\ st[c] = "open" /\ ~hup[c] /\ asked' = asked
          /\ hup' = [hup EXCEPT ![c] = TRUE]
      BY <1>3 DEF ClientClose
    <2>2. asked[c] = <<>>
      BY <2>1 DEF Patient, Inv, TypeOK
    <2>3. inq[c] = <<>>
      <3>1. /\ inq[c] \in Seq(Messages) /\ outq[c] \in Seq(Reply)
            /\ Matched(asked[c], outq[c], inq[c])
        BY <2>1 DEF Inv, TypeOK, Session
      <3>2. Len(outq[c]) \in Nat /\ Len(inq[c]) \in Nat
        BY <3>1
      <3>3. Len(<<>>) = Len(outq[c]) + Len(inq[c])
        BY <2>2, <3>1 DEF Matched
      <3>4. Len(inq[c]) <= Len(<<>>)
        BY <3>2, <3>3, SumIsNoLess
      <3> QED
        BY <3>1, <3>4
    <2> QED
      BY <1>1, <2>1, <2>3 DEF NothingLeftQueued, Inv, TypeOK
  <1> QED
    BY <1>2, <1>3

\* The other steps: no client hangs up, and no message is sent to one that
\* has hung up.
LEMMA OtherStepsOnce ==
    ASSUME NothingLeftQueued, heap' = heap,
           \A c \in Chan : hup'[c] => hup[c] /\ (inq'[c] = inq[c] \/ inq'[c] = <<>>)
    PROVE  NothingLeftQueued'
  BY DEF NothingLeftQueued

\* The double shutdown of keybox_chan_handler (run keybox_shutdown) needs a
\* client that hangs up before it has read all its replies: with clients that
\* wait for them every context is freed once, however many they are and in
\* whatever combinations their events are reported.
THEOREM PatientClientsSafe == MainSpec /\ []Patient => []ContextFreedOnce
  <1>1. MainInit => NothingLeftQueued
    BY DEF MainInit, Init, NothingLeftQueued
  <1>2. ASSUME Inv, NothingLeftQueued, Patient', [MainNext]_allvars
        PROVE  NothingLeftQueued'
    <2>1. CASE Stop
      BY <1>2, <2>1, OtherStepsOnce DEF Stop
    <2>2. CASE UNCHANGED vars
      BY <1>2, <2>2, OtherStepsOnce DEF vars
    <2>3. ASSUME NEW s \in Services, dispatch_event(s) PROVE NothingLeftQueued'
      BY <1>2, <2>3, OtherStepsOnce DEF dispatch_event, keybox_port_handler, vars
    <2>4. ASSUME NEW c \in Chan, SessionEvent(c) PROVE NothingLeftQueued'
      BY <1>2, <2>4, HandlerOnce DEF SessionEvent
    <2>5. CASE main
      BY <2>1, <2>2, <2>3, <2>4, <2>5
         DEF main, hwrng_start_service, hwkey_init_srv_provider, keybox_start_service,
             PortCreated, WaitFails
    <2>6. ASSUME NEW c \in Chan, KeyboxClient(c) PROVE NothingLeftQueued'
      <3>1. CASE ClientConnect(c) \/ ClientRecv(c)
        BY <3>1, <1>2, OtherStepsOnce DEF ClientConnect, ClientRecv
      <3>2. ASSUME NEW m \in Messages, ClientSend(c, m) PROVE NothingLeftQueued'
        <4>1. \A d \in Chan : hup'[d] => hup[d] /\ inq'[d] = inq[d]
          BY <1>2, <3>2 DEF ClientSend, Inv, TypeOK
        <4> QED
          BY <1>2, <3>2, <4>1, OtherStepsOnce DEF ClientSend
      <3>3. CASE ClientClose(c)
        BY <1>2, <3>3, PatientClose
      <3> QED
        BY <2>6, <3>1, <3>2, <3>3 DEF KeyboxClient
    <2> QED
      BY <1>2, <2>2, <2>5, <2>6 DEF MainNext, Connects, allvars
  <1>3. NothingLeftQueued => ContextFreedOnce
    BY DEF NothingLeftQueued, ContextFreedOnce
  <1> QED
    BY <1>1, <1>2, <1>3, Invariance, PTL DEF MainSpec
=============================================================================
