------------------------- MODULE Sen66ProtocolProofs -------------------------
(***************************************************************************)
(* Proofs about the wire format: what the CRC notices whatever the payload *)
(* is, and that an intact frame is decoded to the words the part sent.     *)
(***************************************************************************)
EXTENDS MCSen66Protocol, FiniteSetTheorems, SequenceTheorems, TLAPS

-----------------------------------------------------------------------------
(* A byte bit by bit.                                                      *)

Xor(p, q) == ~(p <=> q)

\* Two bytes with the same bits are the same byte.
LEMMA SameBits ==
    ASSUME NEW A \in Bytes, NEW B \in Bytes,
           0 \in A <=> 0 \in B, 1 \in A <=> 1 \in B, 2 \in A <=> 2 \in B,
           3 \in A <=> 3 \in B, 4 \in A <=> 4 \in B, 5 \in A <=> 5 \in B,
           6 \in A <=> 6 \in B, 7 \in A <=> 7 \in B
    PROVE  A = B
<1>1. \A b : b \in A => b \in {0, 1, 2, 3, 4, 5, 6, 7}
    BY DEF Bytes
<1>2. \A b : b \in B => b \in {0, 1, 2, 3, 4, 5, 6, 7}
    BY DEF Bytes
<1> QED
    BY <1>1, <1>2

\* The exclusive or of two bytes, bit by bit.
LEMMA XorBits ==
    ASSUME NEW A \in Bytes, NEW B \in Bytes
    PROVE  /\ SymDiff(A, B) \in Bytes
           /\ \A b : b \in SymDiff(A, B) <=> Xor(b \in A, b \in B)
BY DEF Bytes, SymDiff, Xor

\* c is a after one round, two, four and eight rounds of the CRC's loop.
OneRound(c, a) ==
    /\ c \in Bytes
    /\ 0 \in c <=> 7 \in a
    /\ 1 \in c <=> 0 \in a
    /\ 2 \in c <=> 1 \in a
    /\ 3 \in c <=> 2 \in a
    /\ 4 \in c <=> Xor(3 \in a, 7 \in a)
    /\ 5 \in c <=> Xor(4 \in a, 7 \in a)
    /\ 6 \in c <=> 5 \in a
    /\ 7 \in c <=> 6 \in a

TwoRounds(c, a) ==
    /\ c \in Bytes
    /\ 0 \in c <=> 6 \in a
    /\ 1 \in c <=> 7 \in a
    /\ 2 \in c <=> 0 \in a
    /\ 3 \in c <=> 1 \in a
    /\ 4 \in c <=> Xor(2 \in a, 6 \in a)
    /\ 5 \in c <=> Xor(Xor(3 \in a, 7 \in a), 6 \in a)
    /\ 6 \in c <=> Xor(4 \in a, 7 \in a)
    /\ 7 \in c <=> 5 \in a

FourRounds(c, a) ==
    /\ c \in Bytes
    /\ 0 \in c <=> Xor(4 \in a, 7 \in a)
    /\ 1 \in c <=> 5 \in a
    /\ 2 \in c <=> 6 \in a
    /\ 3 \in c <=> 7 \in a
    /\ 4 \in c <=> Xor(Xor(0 \in a, 4 \in a), 7 \in a)
    /\ 5 \in c <=> Xor(Xor(1 \in a, 5 \in a), Xor(4 \in a, 7 \in a))
    /\ 6 \in c <=> Xor(Xor(2 \in a, 6 \in a), 5 \in a)
    /\ 7 \in c <=> Xor(Xor(3 \in a, 7 \in a), 6 \in a)

EightRounds(c, a) ==
    /\ c \in Bytes
    /\ 0 \in c <=> Xor(Xor(0 \in a, 3 \in a), Xor(4 \in a, 6 \in a))
    /\ 1 \in c <=> Xor(Xor(1 \in a, 4 \in a), Xor(5 \in a, 7 \in a))
    /\ 2 \in c <=> Xor(Xor(2 \in a, 5 \in a), 6 \in a)
    /\ 3 \in c <=> Xor(Xor(3 \in a, 6 \in a), 7 \in a)
    /\ 4 \in c <=> Xor(Xor(0 \in a, 3 \in a), Xor(6 \in a, 7 \in a))
    /\ 5 \in c <=> Xor(Xor(Xor(0 \in a, 1 \in a), 3 \in a), Xor(6 \in a, 7 \in a))
    /\ 6 \in c <=> Xor(Xor(1 \in a, 2 \in a), Xor(4 \in a, 7 \in a))
    /\ 7 \in c <=> Xor(Xor(2 \in a, 3 \in a), 5 \in a)

\* One round of the CRC's loop, bit by bit.
LEMMA RoundBits ==
    ASSUME NEW a \in Bytes
    PROVE  OneRound(ShiftBit(a), a)
<1>1. \A b : b \in a => b \in 0 .. 7
    BY DEF Bytes
<1>2. /\ Shifted(a) \in Bytes
      /\ 0 \notin Shifted(a)
      /\ \A b \in 0 .. 6 : b + 1 \in Shifted(a) <=> b \in a
    BY <1>1 DEF Shifted, Bytes
<1>3. /\ 1 \in Shifted(a) <=> 0 \in a
      /\ 2 \in Shifted(a) <=> 1 \in a
      /\ 3 \in Shifted(a) <=> 2 \in a
      /\ 4 \in Shifted(a) <=> 3 \in a
      /\ 5 \in Shifted(a) <=> 4 \in a
      /\ 6 \in Shifted(a) <=> 5 \in a
      /\ 7 \in Shifted(a) <=> 6 \in a
    BY <1>2
<1>4. CASE 7 \in a
    <2>1. ShiftBit(a) = SymDiff(Shifted(a), Polynomial)
        BY <1>4 DEF ShiftBit
    <2>2. /\ Polynomial \in Bytes
          /\ \A b : b \in Polynomial <=> b = 0 \/ b = 4 \/ b = 5
        BY DEF Polynomial, Bytes
    <2>3. /\ ShiftBit(a) \in Bytes
          /\ \A b : b \in ShiftBit(a) <=> Xor(b \in Shifted(a), b = 0 \/ b = 4 \/ b = 5)
        BY <1>2, <2>1, <2>2, XorBits DEF Xor
    <2> QED
        BY <1>2, <1>3, <1>4, <2>3 DEF Xor, OneRound
<1>5. CASE 7 \notin a
    BY <1>2, <1>3, <1>5 DEF ShiftBit, Xor, OneRound
<1> QED
    BY <1>4, <1>5

\* Each doubling of the rounds is composed of the one before.
LEMMA TwoBits ==
    ASSUME NEW a \in Bytes
    PROVE  TwoRounds(ShiftTwo(a), a)
<1> DEFINE b == ShiftBit(a)
<1>1. OneRound(b, a)
    BY RoundBits
<1>2. OneRound(ShiftBit(b), b)
    BY <1>1, RoundBits DEF OneRound
<1> HIDE DEF b
<1>3. TwoRounds(ShiftBit(b), a)
    BY <1>1, <1>2 DEF OneRound, TwoRounds, Xor
<1> QED
    BY <1>3 DEF ShiftTwo, b

LEMMA FourBits ==
    ASSUME NEW a \in Bytes
    PROVE  FourRounds(ShiftFour(a), a)
<1> DEFINE b == ShiftTwo(a)
<1>1. TwoRounds(b, a)
    BY TwoBits
<1>2. TwoRounds(ShiftTwo(b), b)
    BY <1>1, TwoBits DEF TwoRounds
<1> HIDE DEF b
<1>3. FourRounds(ShiftTwo(b), a)
    BY <1>1, <1>2 DEF TwoRounds, FourRounds, Xor
<1> QED
    BY <1>3 DEF ShiftFour, b

LEMMA ByteBits ==
    ASSUME NEW a \in Bytes
    PROVE  EightRounds(ShiftByte[a], a)
<1> DEFINE b == ShiftFour(a)
<1>1. FourRounds(b, a)
    BY FourBits
<1>2. FourRounds(ShiftFour(b), b)
    BY <1>1, FourBits DEF FourRounds
<1> HIDE DEF b
<1>3. EightRounds(ShiftFour(b), a)
    BY <1>1, <1>2 DEF FourRounds, EightRounds, Xor
<1> QED
    BY <1>3 DEF ShiftByte, b

-----------------------------------------------------------------------------
(* The CRC is linear: what it says of a wrong word does not depend on the  *)
(* payload, only on the bits that are wrong.                               *)

LEMMA ByteLinear ==
    ASSUME NEW A \in Bytes, NEW B \in Bytes
    PROVE  ShiftByte[SymDiff(A, B)] = SymDiff(ShiftByte[A], ShiftByte[B])
<1> DEFINE X == SymDiff(A, B)
           SA == ShiftByte[A]
           SB == ShiftByte[B]
           SX == ShiftByte[X]
<1>1. /\ X \in Bytes
      /\ \A b : b \in X <=> Xor(b \in A, b \in B)
    BY XorBits
<1>2. EightRounds(SA, A) /\ EightRounds(SB, B) /\ EightRounds(SX, X)
    BY <1>1, ByteBits
<1> HIDE DEF X, SA, SB, SX
<1>3. /\ SymDiff(SA, SB) \in Bytes
      /\ \A b : b \in SymDiff(SA, SB) <=> Xor(b \in SA, b \in SB)
    BY <1>2, XorBits DEF EightRounds
<1>4. SX = SymDiff(SA, SB)
    BY <1>1, <1>2, <1>3, SameBits DEF EightRounds, Xor
<1> QED
    BY <1>4 DEF X, SA, SB, SX

\* A word whose three bytes are wrong in the bits e1, e2 and e3 passes the check.
Unnoticed(e1, e2, e3) == ShiftByte[SymDiff(ShiftByte[e1], e2)] = e3

LEMMA ErrorAlone ==
    ASSUME NEW d1 \in Bytes, NEW d2 \in Bytes,
           NEW e1 \in Bytes, NEW e2 \in Bytes, NEW e3 \in Bytes
    PROVE  Crc(<<SymDiff(d1, e1), SymDiff(d2, e2)>>) = SymDiff(Crc(<<d1, d2>>), e3)
               <=> Unnoticed(e1, e2, e3)
<1> DEFINE s == ShiftByte[SymDiff(CrcInit, d1)]
           t == ShiftByte[e1]
           u == SymDiff(t, e2)
           c == ShiftByte[SymDiff(s, d2)]
<1>1. CrcInit \in Bytes
    BY DEF CrcInit, Bytes
<1>2. \A A, B \in Bytes : SymDiff(A, B) \in Bytes
    BY XorBits
<1>3. \A A \in Bytes : ShiftByte[A] \in Bytes
    BY ByteBits DEF EightRounds
<1>4. s \in Bytes /\ t \in Bytes /\ u \in Bytes /\ c \in Bytes
    BY <1>1, <1>2, <1>3
<1>5. ShiftByte[SymDiff(CrcInit, SymDiff(d1, e1))] = SymDiff(s, t)
    <2>1. SymDiff(CrcInit, SymDiff(d1, e1)) = SymDiff(SymDiff(CrcInit, d1), e1)
        BY DEF SymDiff
    <2> QED
        BY ZenonT(40), <2>1, <1>1, <1>2, ByteLinear
<1>6. SymDiff(SymDiff(s, t), SymDiff(d2, e2)) = SymDiff(SymDiff(s, d2), u)
    BY DEF SymDiff
<1>7. ShiftByte[SymDiff(SymDiff(s, d2), u)] = SymDiff(c, ShiftByte[u])
    BY <1>2, <1>4, ByteLinear
<1>8. Crc(<<SymDiff(d1, e1), SymDiff(d2, e2)>>) = SymDiff(c, ShiftByte[u])
    BY <1>5, <1>6, <1>7 DEF Crc, CrcFrom
<1>9. Crc(<<d1, d2>>) = c
    BY DEF Crc, CrcFrom
<1>10. \A A, B, C : SymDiff(A, B) = SymDiff(A, C) <=> B = C
    BY DEF SymDiff
<1>11. SymDiff(c, ShiftByte[u]) = SymDiff(c, e3) <=> ShiftByte[u] = e3
    BY <1>10
<1> QED
    BY <1>8, <1>9, <1>11 DEF Unnoticed

\* The remainder of a byte that is not wrong is no error, that of a wrong one is.
LEMMA NoKernel ==
    ASSUME NEW a \in Bytes
    PROVE  ShiftByte[a] = {} <=> a = {}
<1>1. EightRounds(ShiftByte[a], a)
    BY ByteBits
<1>2. ASSUME ShiftByte[a] = {}
      PROVE  a = {}
    <2>1. {} \in Bytes
        BY DEF Bytes
    <2> QED
        BY <1>1, <1>2, <2>1, SameBits DEF EightRounds, Xor
<1>3. ASSUME a = {}
      PROVE  ShiftByte[a] = {}
    <2>1. {} \in Bytes
        BY DEF Bytes
    <2> QED
        BY <1>1, <1>3, <2>1, SameBits DEF EightRounds, Xor
<1> QED
    BY <1>2, <1>3

-----------------------------------------------------------------------------
(* Parity: the polynomial keeps the number of wrong bits even or odd, so   *)
(* an odd number of them is noticed.                                       *)

Even(a) ==
    (((0 \in a <=> 1 \in a) <=> (2 \in a <=> 3 \in a))
        <=> ((4 \in a <=> 5 \in a) <=> (6 \in a <=> 7 \in a)))

LEMMA EvenXor ==
    ASSUME NEW A \in Bytes, NEW B \in Bytes
    PROVE  Even(SymDiff(A, B)) <=> (Even(A) <=> Even(B))
<1>1. \A b : b \in SymDiff(A, B) <=> Xor(b \in A, b \in B)
    BY XorBits
<1> QED
    BY <1>1 DEF Even, Xor

LEMMA EvenByte ==
    ASSUME NEW a \in Bytes
    PROVE  Even(ShiftByte[a]) <=> Even(a)
BY ByteBits DEF EightRounds, Even, Xor

LEMMA OddIsNoticed ==
    ASSUME NEW e1 \in Bytes, NEW e2 \in Bytes, NEW e3 \in Bytes,
           Unnoticed(e1, e2, e3)
    PROVE  (Even(e1) <=> Even(e2)) <=> Even(e3)
<1>1. ShiftByte[e1] \in Bytes /\ SymDiff(ShiftByte[e1], e2) \in Bytes
    BY ByteBits, XorBits DEF EightRounds
<1> QED
    BY <1>1, EvenByte, EvenXor DEF Unnoticed

-----------------------------------------------------------------------------
(* Errors in one byte or in two.                                           *)

LEMMA FirstTwoBytes ==
    ASSUME NEW e \in Bytes, NEW f \in Bytes, Unnoticed(e, f, {})
    PROVE  ShiftByte[e] = f
<1>1. ShiftByte[e] \in Bytes /\ SymDiff(ShiftByte[e], f) \in Bytes
    BY ByteBits, XorBits DEF EightRounds
<1>2. SymDiff(ShiftByte[e], f) = {}
    BY <1>1, NoKernel DEF Unnoticed
<1> QED
    BY <1>2 DEF SymDiff

LEMMA LastTwoBytes ==
    ASSUME NEW e \in Bytes, NEW f \in Bytes, Unnoticed({}, e, f)
    PROVE  ShiftByte[e] = f
<1>1. ShiftByte[{}] = {}
    BY NoKernel DEF Bytes
<1>2. SymDiff({}, e) = e
    BY DEF SymDiff
<1> QED
    BY <1>1, <1>2 DEF Unnoticed

LEMMA OuterBytes ==
    ASSUME NEW e \in Bytes, NEW f \in Bytes, Unnoticed(e, {}, f)
    PROVE  ShiftByte[ShiftByte[e]] = f
<1>1. SymDiff(ShiftByte[e], {}) = ShiftByte[e]
    BY DEF SymDiff
<1> QED
    BY <1>1 DEF Unnoticed

LEMMA OneByte ==
    ASSUME NEW e \in Bytes, e # {}
    PROVE  /\ ~Unnoticed(e, {}, {})
           /\ ~Unnoticed({}, e, {})
           /\ ~Unnoticed({}, {}, e)
<1>1. {} \in Bytes
    BY DEF Bytes
<1>2. ShiftByte[e] # {} /\ ShiftByte[{}] = {}
    BY <1>1, NoKernel
<1> QED
    BY <1>1, <1>2, FirstTwoBytes, LastTwoBytes

\* A burst over the end of a byte: e wrong at the bits below k, the next byte
\* at the bits from k on.
LEMMA BurstAcross ==
    ASSUME NEW k \in 1 .. 7, NEW e \in Bytes, NEW f \in Bytes,
           \A b \in e : b < k, \A b \in f : b >= k,
           ShiftByte[e] = f
    PROVE  e = {}
<1>1. EightRounds(f, e)
    BY ByteBits
<1>2. SUFFICES ~(0 \in e) /\ ~(1 \in e) /\ ~(2 \in e) /\ ~(3 \in e)
                  /\ ~(4 \in e) /\ ~(5 \in e) /\ ~(6 \in e) /\ ~(7 \in e)
    BY SameBits DEF Bytes
<1>3. CASE k = 1
    BY <1>1, <1>3 DEF EightRounds, Xor
<1>4. CASE k = 2
    BY <1>1, <1>4 DEF EightRounds, Xor
<1>5. CASE k = 3
    BY <1>1, <1>5 DEF EightRounds, Xor
<1>6. CASE k = 4
    BY <1>1, <1>6 DEF EightRounds, Xor
<1>7. CASE k = 5
    BY <1>1, <1>7 DEF EightRounds, Xor
<1>8. CASE k = 6
    BY <1>1, <1>8 DEF EightRounds, Xor
<1>9. CASE k = 7
    BY <1>1, <1>9 DEF EightRounds, Xor
<1> QED
    BY <1>3, <1>4, <1>5, <1>6, <1>7, <1>8, <1>9

\* A single wrong bit comes out of the rounds of one byte, or of two, as several.
LEMMA OneBitSpreads ==
    ASSUME NEW u \in 0 .. 7, NEW v \in 0 .. 7
    PROVE  /\ ShiftByte[{u}] # {v}
           /\ ShiftByte[ShiftByte[{u}]] # {v}
<1> DEFINE c == ShiftByte[{u}]
           d == ShiftByte[c]
<1>1. {u} \in Bytes /\ {v} \in Bytes
    BY DEF Bytes
<1>2. EightRounds(c, {u})
    BY <1>1, ByteBits
<1>3. EightRounds(d, c)
    BY <1>2, ByteBits DEF EightRounds
<1> HIDE DEF c, d
<1>4. \A b : b \in {u} <=> b = u
    OBVIOUS
<1>5. c # {v}
    BY <1>2, <1>4 DEF EightRounds, Xor
<1>6. d # {v}
    BY <1>2, <1>3, <1>4 DEF EightRounds, Xor
<1> QED
    BY <1>5, <1>6 DEF c, d

-----------------------------------------------------------------------------
(* The wrong bits of a word, by their positions in the order they are sent. *)

\* The wrong bits of a byte, and what passes the check.
ByteOf(P, byte) == {b \in 0 .. 7 : 8 * byte - 1 - b \in P}
Passes(P) == Unnoticed(ByteOf(P, 1), ByteOf(P, 2), ByteOf(P, 3))

AllEven(P) == (Even(ByteOf(P, 1)) <=> Even(ByteOf(P, 2))) <=> Even(ByteOf(P, 3))

LEMMA ByteOfBits ==
    ASSUME NEW P, NEW byte
    PROVE  /\ ByteOf(P, byte) \in Bytes
           /\ \A b \in 0 .. 7 : b \in ByteOf(P, byte) <=> 8 * byte - 1 - b \in P
BY DEF ByteOf, Bytes

LEMMA PassesEven ==
    ASSUME NEW P, Passes(P)
    PROVE  AllEven(P)
BY ByteOfBits, OddIsNoticed DEF Passes, AllEven

\* One more wrong bit makes an even number odd and an odd one even.
LEMMA OneMore ==
    ASSUME NEW P, NEW p \in 0 .. 23, p \notin P
    PROVE  AllEven(P \cup {p}) <=> ~AllEven(P)
<1> DEFINE Q == P \cup {p}
<1>1. \A b \in 0 .. 7 : {b} \in Bytes /\ ~Even({b})
    BY DEF Even, Bytes
<1>2. \A byte \in 1 .. 3 : \A b \in 0 .. 7 :
          8 * byte - 1 - b = p => ByteOf(Q, byte) = SymDiff(ByteOf(P, byte), {b})
    BY DEF ByteOf, SymDiff
<1>3. \A byte \in 1 .. 3 : \A b \in 0 .. 7 :
          8 * byte - 1 - b = p => (Even(ByteOf(Q, byte)) <=> ~Even(ByteOf(P, byte)))
    BY <1>1, <1>2, ByteOfBits, EvenXor
<1>4. \A byte \in 1 .. 3 :
          (\A b \in 0 .. 7 : 8 * byte - 1 - b # p) => ByteOf(Q, byte) = ByteOf(P, byte)
    BY DEF ByteOf
<1> HIDE DEF Q
<1>5. CASE p \in 0 .. 7
    <2>1. 7 - p \in 0 .. 7 /\ 8 * 1 - 1 - (7 - p) = p
        BY <1>5
    <2>2. Even(ByteOf(Q, 1)) <=> ~Even(ByteOf(P, 1))
        BY <1>3, <2>1
    <2>3. ByteOf(Q, 2) = ByteOf(P, 2) /\ ByteOf(Q, 3) = ByteOf(P, 3)
        BY <1>4, <1>5
    <2> QED
        BY <2>2, <2>3 DEF AllEven, Q
<1>6. CASE p \in 8 .. 15
    <2>1. 15 - p \in 0 .. 7 /\ 8 * 2 - 1 - (15 - p) = p
        BY <1>6
    <2>2. Even(ByteOf(Q, 2)) <=> ~Even(ByteOf(P, 2))
        BY <1>3, <2>1
    <2>3. ByteOf(Q, 1) = ByteOf(P, 1) /\ ByteOf(Q, 3) = ByteOf(P, 3)
        BY <1>4, <1>6
    <2> QED
        BY <2>2, <2>3 DEF AllEven, Q
<1>7. CASE p \in 16 .. 23
    <2>1. 23 - p \in 0 .. 7 /\ 8 * 3 - 1 - (23 - p) = p
        BY <1>7
    <2>2. Even(ByteOf(Q, 3)) <=> ~Even(ByteOf(P, 3))
        BY <1>3, <2>1
    <2>3. ByteOf(Q, 1) = ByteOf(P, 1) /\ ByteOf(Q, 2) = ByteOf(P, 2)
        BY <1>4, <1>7
    <2> QED
        BY <2>2, <2>3 DEF AllEven, Q
<1> QED
    BY <1>5, <1>6, <1>7

\* An odd number of wrong bits, of which one and three are used.
LEMMA OneOrThreeNoticed ==
    ASSUME NEW p \in 0 .. 23, NEW q \in 0 .. 23, NEW r \in 0 .. 23,
           p # q, p # r, q # r
    PROVE  ~Passes({p}) /\ ~Passes({p, q, r})
<1>1. AllEven({})
    BY DEF AllEven, ByteOf, Even
<1>2. ~AllEven({p})
    <2>1. {} \cup {p} = {p}
        OBVIOUS
    <2> QED
        BY <1>1, <2>1, OneMore
<1>3. AllEven({p, q})
    <2>1. {p} \cup {q} = {p, q}
        OBVIOUS
    <2>2. q \notin {p}
        OBVIOUS
    <2> QED
        BY <1>2, <2>1, <2>2, OneMore
<1>4. ~AllEven({p, q, r})
    <2>1. {p, q} \cup {r} = {p, q, r}
        OBVIOUS
    <2>2. r \notin {p, q}
        OBVIOUS
    <2> QED
        BY ZenonT(40), <1>3, <2>1, <2>2, OneMore
<1> QED
    BY <1>2, <1>4, PassesEven

\* Two wrong bits.
LEMMA TwoNoticed ==
    ASSUME NEW p \in 0 .. 23, NEW q \in 0 .. 23, p < q
    PROVE  ~Passes({p, q})
<1> DEFINE e1 == ByteOf({p, q}, 1)
           e2 == ByteOf({p, q}, 2)
           e3 == ByteOf({p, q}, 3)
<1>1. SUFFICES ~Unnoticed(e1, e2, e3)
    BY DEF Passes
<1>2. e1 \in Bytes /\ e2 \in Bytes /\ e3 \in Bytes
    BY ByteOfBits
<1>3. /\ \A b : b \in e1 <=> b \in 0 .. 7 /\ (7 - b = p \/ 7 - b = q)
      /\ \A b : b \in e2 <=> b \in 0 .. 7 /\ (15 - b = p \/ 15 - b = q)
      /\ \A b : b \in e3 <=> b \in 0 .. 7 /\ (23 - b = p \/ 23 - b = q)
    BY DEF ByteOf
<1> HIDE DEF e1, e2, e3
<1>4. \A b \in 0 .. 7 : {b} \in Bytes
    BY DEF Bytes
<1>5. CASE p \in 0 .. 7 /\ q \in 0 .. 7
    <2>1. e1 # {} /\ e2 = {} /\ e3 = {}
        <3>1. 7 - p \in e1
            BY <1>3, <1>5
        <3>2. e2 = {} /\ e3 = {}
            BY <1>3, <1>5
        <3> QED
            BY <3>1, <3>2
    <2> QED
        BY <1>2, <2>1, OneByte
<1>6. CASE p \in 8 .. 15 /\ q \in 8 .. 15
    <2>1. 15 - p \in e2
        BY <1>3, <1>6
    <2>2. e1 = {} /\ e3 = {}
        BY <1>3, <1>6
    <2> QED
        BY <1>2, <2>1, <2>2, OneByte
<1>7. CASE p \in 16 .. 23
    <2>1. 23 - p \in e3
        BY <1>3, <1>7
    <2>2. e1 = {} /\ e2 = {}
        BY SMTT(20), <1>3, <1>7
    <2> QED
        BY <1>2, <2>1, <2>2, OneByte
<1>8. CASE p \in 0 .. 7 /\ q \in 8 .. 15
    <2>1. e1 = {7 - p} /\ e2 = {15 - q} /\ e3 = {}
        BY <1>3, <1>8
    <2>2. 7 - p \in 0 .. 7 /\ 15 - q \in 0 .. 7
        BY SMTT(20), <1>8
    <2> QED
        BY Zenon, <1>4, <2>1, <2>2, FirstTwoBytes, OneBitSpreads
<1>9. CASE p \in 8 .. 15 /\ q \in 16 .. 23
    <2>1. e1 = {} /\ e2 = {15 - p} /\ e3 = {23 - q}
        BY <1>3, <1>9
    <2>2. 15 - p \in 0 .. 7 /\ 23 - q \in 0 .. 7
        BY SMTT(20), <1>9
    <2> QED
        BY Zenon, <1>4, <2>1, <2>2, LastTwoBytes, OneBitSpreads
<1>10. CASE p \in 0 .. 7 /\ q \in 16 .. 23
    <2>1. e1 = {7 - p} /\ e2 = {} /\ e3 = {23 - q}
        BY <1>3, <1>10
    <2>2. 7 - p \in 0 .. 7 /\ 23 - q \in 0 .. 7
        BY <1>10
    <2> QED
        BY Zenon, <1>4, <2>1, <2>2, OuterBytes, OneBitSpreads
<1> QED
    BY <1>5, <1>6, <1>7, <1>8, <1>9, <1>10

\* Wrong bits that all lie within eight.
LEMMA BurstNoticed ==
    ASSUME NEW P, P # {}, NEW s \in 0 .. 16, P \subseteq s .. s + 7
    PROVE  ~Passes(P)
<1> DEFINE e1 == ByteOf(P, 1)
           e2 == ByteOf(P, 2)
           e3 == ByteOf(P, 3)
<1>1. SUFFICES ASSUME Unnoticed(e1, e2, e3) PROVE FALSE
    BY DEF Passes
<1>2. e1 \in Bytes /\ e2 \in Bytes /\ e3 \in Bytes
    BY ByteOfBits
<1>3. PICK p \in P : p \in 0 .. 23 /\ s <= p /\ p <= s + 7
    <2>1. PICK q : q \in P
        OBVIOUS
    <2>2. q \in s .. s + 7
        BY <2>1
    <2>3. q \in 0 .. 23 /\ s <= q /\ q <= s + 7
        BY <2>2
    <2> QED
        BY <2>1, <2>3
<1>4. /\ \A b : b \in e1 <=> b \in 0 .. 7 /\ 7 - b \in P
      /\ \A b : b \in e2 <=> b \in 0 .. 7 /\ 15 - b \in P
      /\ \A b : b \in e3 <=> b \in 0 .. 7 /\ 23 - b \in P
    BY DEF ByteOf
<1>5. \A n \in P : n \in Int /\ s <= n /\ n <= s + 7
    OBVIOUS
<1> HIDE DEF e1, e2, e3
<1>6. CASE s = 0
    <2>1. 7 - p \in e1
        BY <1>3, <1>4, <1>6
    <2>2. e2 = {} /\ e3 = {}
        BY <1>4, <1>5, <1>6
    <2> QED
        BY <1>1, <1>2, <2>1, <2>2, OneByte
<1>7. CASE s = 8
    <2>1. 15 - p \in e2
        BY <1>3, <1>4, <1>7
    <2>2. e1 = {} /\ e3 = {}
        BY <1>4, <1>5, <1>7
    <2> QED
        BY <1>1, <1>2, <2>1, <2>2, OneByte
<1>8. CASE s = 16
    <2>1. 23 - p \in e3
        BY <1>3, <1>4, <1>8
    <2>2. e1 = {} /\ e2 = {}
        BY <1>4, <1>5, <1>8
    <2> QED
        BY <1>1, <1>2, <2>1, <2>2, OneByte
<1>9. CASE s \in 1 .. 7
    <2>1. e3 = {}
        BY <1>4, <1>5, <1>9
    <2>2. ShiftByte[e1] = e2
        BY <1>1, <1>2, <2>1, FirstTwoBytes
    <2>3. 8 - s \in 1 .. 7 /\ (\A b \in e1 : b < 8 - s) /\ (\A b \in e2 : b >= 8 - s)
        BY <1>4, <1>5, <1>9
    <2>4. e1 = {}
        BY <1>2, <2>2, <2>3, BurstAcross
    <2>5. e2 = {}
        BY <1>2, <2>2, <2>4, NoKernel
    <2>6. 7 - p \in e1 \/ 15 - p \in e2
        BY <1>3, <1>4, <1>9
    <2> QED
        BY <2>4, <2>5, <2>6
<1>10. CASE s \in 9 .. 15
    <2>1. e1 = {}
        BY <1>4, <1>5, <1>10
    <2>2. ShiftByte[e2] = e3
        BY <1>1, <1>2, <2>1, LastTwoBytes
    <2>3. 16 - s \in 1 .. 7 /\ (\A b \in e2 : b < 16 - s) /\ (\A b \in e3 : b >= 16 - s)
        BY <1>4, <1>5, <1>10
    <2>4. e2 = {}
        BY <1>2, <2>2, <2>3, BurstAcross
    <2>5. e3 = {}
        BY <1>2, <2>2, <2>4, NoKernel
    <2>6. 15 - p \in e2 \/ 23 - p \in e3
        BY <1>3, <1>4, <1>10
    <2> QED
        BY <2>4, <2>5, <2>6
<1> QED
    BY <1>6, <1>7, <1>8, <1>9, <1>10

LEMMA OneFewer ==
    ASSUME NEW S, IsFiniteSet(S), NEW x \in S
    PROVE  /\ IsFiniteSet(S \ {x})
           /\ Cardinality(S) \in Nat /\ Cardinality(S \ {x}) \in Nat
           /\ Cardinality(S \ {x}) = Cardinality(S) - 1
<1>1. /\ IsFiniteSet(S \ {x})
      /\ Cardinality(S \ {x}) = IF x \in S THEN Cardinality(S) - 1 ELSE Cardinality(S)
    BY FS_RemoveElement
<1> QED
    BY <1>1, FS_CardinalityType

\* Up to three wrong bits, as a set.
LEMMA FewNoticed ==
    ASSUME NEW P, P # {}, P \subseteq 0 .. 23, Cardinality(P) <= 3
    PROVE  ~Passes(P)
<1>1. IsFiniteSet(P)
    <2>1. 0 \in Int /\ 23 \in Int
        OBVIOUS
    <2>2. IsFiniteSet(0 .. 23)
        BY ONLY Zenon, <2>1, FS_Interval
    <2> QED
        BY Zenon, <2>2, FS_Subset
<1>2. PICK p : p \in P
    OBVIOUS
<1> DEFINE Q == P \ {p}
<1>3. IsFiniteSet(Q) /\ Cardinality(Q) <= 2 /\ Cardinality(Q) \in Nat
    BY <1>1, <1>2, OneFewer
<1>4. CASE Q = {}
    <2>1. P = {p}
        BY <1>2, <1>4
    <2>2. p \in 0 .. 23
        BY <1>2
    <2>3. PICK q \in 0 .. 23, r \in 0 .. 23 : p # q /\ p # r /\ q # r
        <3>1. CASE p > 1
            BY <2>2, <3>1
        <3>2. CASE p <= 1
            <4>1. 2 \in 0 .. 23 /\ 3 \in 0 .. 23 /\ p # 2 /\ p # 3 /\ 2 # 3
                BY <2>2, <3>2
            <4> QED
                BY <4>1
        <3> QED
            BY <2>2, <3>1, <3>2
    <2> QED
        BY Zenon, <2>1, <2>2, <2>3, OneOrThreeNoticed
<1>5. CASE Q # {}
    <2>1. PICK q : q \in Q
        BY <1>5
    <2> DEFINE R == Q \ {q}
    <2>2. IsFiniteSet(R) /\ Cardinality(R) <= 1 /\ Cardinality(R) \in Nat
        BY <1>3, <2>1, OneFewer
    <2>3. p \in 0 .. 23 /\ q \in 0 .. 23 /\ p # q
        BY <1>2, <2>1
    <2>4. CASE R = {}
        <3>1. P = {p, q} /\ P = {q, p}
            <4>1. \A x \in P : x = p \/ x = q
                BY <2>4
            <4> QED
                BY <1>2, <2>1, <4>1
        <3>2. p < q \/ q < p
            BY <2>3
        <3> QED
            BY <2>3, <3>1, <3>2, TwoNoticed
    <2>5. CASE R # {}
        <3>1. PICK r : r \in R
            BY <2>5
        <3>2. /\ IsFiniteSet(R \ {r})
              /\ Cardinality(R \ {r}) \in Nat
              /\ Cardinality(R \ {r}) = Cardinality(R) - 1
            BY <2>2, <3>1, OneFewer
        <3>3. R \ {r} = {}
            BY <2>2, <3>2, FS_EmptySet
        <3>4. P = {p, q, r}
            <4>1. \A x \in P : x = p \/ x = q \/ x = r
                BY <3>3
            <4> QED
                BY <1>2, <2>1, <3>1, <4>1
        <3>5. r \in 0 .. 23 /\ p # r /\ q # r
            BY <3>1
        <3> QED
            BY Zenon, <2>3, <3>4, <3>5, OneOrThreeNoticed
    <2> QED
        BY <2>4, <2>5
<1> QED
    BY <1>4, <1>5

-----------------------------------------------------------------------------
(* The invariant of the link: what the flips of a response can be.         *)

LinkTypeOK ==
    /\ words \in Seq(Payloads)
    /\ flips \subseteq (DOMAIN words) \X (0 .. 23)

FewFlips ==
    /\ IsFiniteSet(flips)
    /\ ~OneWord => flips = {} \/ \E f \in (DOMAIN words) \X (0 .. 23) : flips = {f}
    /\ OneWord =>
         \/ Cardinality(flips) <= 3
         \/ \E s \in 0 .. 16 : \A f \in flips : f[2] \in s .. s + 7

LinkInv == LinkTypeOK /\ FewFlips

LEMMA SameEverywhere ==
    ASSUME NEW S, NEW x \in S, NEW n \in Nat
    PROVE  [i \in 1 .. n |-> x] \in Seq(S)
OBVIOUS

LEMMA OneReplaced ==
    ASSUME NEW S, NEW s \in Seq(S), NEW x \in S, NEW i \in DOMAIN s
    PROVE  /\ [s EXCEPT ![i] = x] \in Seq(S)
           /\ DOMAIN [s EXCEPT ![i] = x] = DOMAIN s
OBVIOUS

LEMMA LinkInit_LinkInv == LinkInit => LinkInv
<1> SUFFICES ASSUME LinkInit PROVE LinkInv
    OBVIOUS
<1>1. words = <<>> /\ flips = {}
    BY DEF LinkInit
<1>2. LinkTypeOK
    BY <1>1 DEF LinkTypeOK
<1>3. IsFiniteSet({}) /\ Cardinality({}) = 0
    BY FS_EmptySet
<1> QED
    BY <1>1, <1>2, <1>3 DEF LinkInv, FewFlips

LEMMA LinkNext_LinkInv == LinkInv /\ [LinkNext]_linkVars => LinkInv'
<1> SUFFICES ASSUME LinkInv, [LinkNext]_linkVars PROVE LinkInv'
    OBVIOUS
<1> USE DEF LinkInv
<1>1. ASSUME NEW n \in Lengths, Begin(n)
      PROVE  LinkInv'
    <2>1. n \in Nat /\ Base \in Payloads
        BY LinkAssumption DEF LinkAssumption
    <2>2. words = <<>> /\ flips = {}
        BY <1>1 DEF Begin, LinkTypeOK
    <2>3. words' = [i \in 1 .. n |-> Base] /\ flips' = {}
        BY <1>1, <2>2 DEF Begin, Intact
    <2>4. LinkTypeOK'
        <3>1. words' \in Seq(Payloads)
            BY <2>1, <2>3, SameEverywhere
        <3> QED
            BY <2>3, <3>1 DEF LinkTypeOK
    <2>5. IsFiniteSet({}) /\ Cardinality({}) = 0
        BY FS_EmptySet
    <2> QED
        BY <2>3, <2>4, <2>5 DEF FewFlips
<1>2. ASSUME NEW i \in DOMAIN words, NEW w \in Samples, Fill(i, w)
      PROVE  LinkInv'
    <2>1. w \in Payloads
        BY LinkAssumption DEF LinkAssumption
    <2>2. flips' = {} /\ words' = [words EXCEPT ![i] = w]
        BY <1>2 DEF Fill
    <2>3. LinkTypeOK'
        <3>1. words' \in Seq(Payloads)
            BY <2>1, <2>2, OneReplaced DEF LinkTypeOK
        <3> QED
            BY <2>2, <3>1 DEF LinkTypeOK
    <2>4. IsFiniteSet({}) /\ Cardinality({}) = 0
        BY FS_EmptySet
    <2> QED
        BY <2>2, <2>3, <2>4 DEF FewFlips
<1>3. ASSUME NEW i \in DOMAIN words, NEW b \in 0 .. 23, Flip(i, b)
      PROVE  LinkInv'
    <2>1. words' = words /\ flips' = flips \cup {<<i, b>>}
        BY <1>3 DEF Flip
    <2>2. LinkTypeOK'
        <3>1. <<i, b>> \in (DOMAIN words) \X (0 .. 23)
            OBVIOUS
        <3> QED
            BY Zenon, <1>3, <2>1, <3>1 DEF LinkTypeOK
    <2>3. /\ IsFiniteSet(flips')
          /\ Cardinality(flips') <= Cardinality(flips) + 1
          /\ Cardinality(flips) \in Nat
        <3>1. /\ IsFiniteSet(flips \cup {<<i, b>>})
              /\ Cardinality(flips \cup {<<i, b>>}) =
                    IF <<i, b>> \in flips THEN Cardinality(flips) ELSE Cardinality(flips) + 1
            BY FS_AddElement DEF FewFlips
        <3>2. Cardinality(flips) \in Nat
            BY FS_CardinalityType DEF FewFlips
        <3> QED
            BY <2>1, <3>1, <3>2
    <2>4. CASE OneWord
        <3>1. MaxFlips \in 0 .. 3 /\ Cardinality(flips) < MaxFlips
            BY <1>3, <2>4, LinkAssumption DEF Flip, LinkAssumption
        <3>2. Cardinality(flips') <= 3
            <4> DEFINE k == Cardinality(flips)
                       m == Cardinality(flips')
            <4>1. m \in Nat
                BY <2>3, FS_CardinalityType
            <4>2. m <= k + 1 /\ k \in Nat /\ k < MaxFlips /\ MaxFlips \in 0 .. 3
                BY <2>3, <3>1
            <4> HIDE DEF k, m
            <4>3. m <= 3
                BY <4>1, <4>2
            <4> QED
                BY <4>3 DEF m
        <3> QED
            BY <2>1, <2>2, <2>3, <2>4, <3>2 DEF FewFlips, OneWord
    <2>5. CASE ~OneWord
        <3>1. Cardinality(flips) = 0
            BY <1>3, <2>3, <2>5 DEF Flip
        <3>2. flips = {}
            BY <3>1, FS_EmptySet DEF FewFlips
        <3>3. flips' = {<<i, b>>}
            BY <2>1, <3>2
        <3> QED
            BY <1>3, <2>1, <2>2, <2>3, <2>5, <3>3 DEF FewFlips, OneWord
    <2> QED
        BY <2>4, <2>5
<1>4. ASSUME NEW i \in DOMAIN words, NEW b \in 0 .. 16, NEW pattern \in SUBSET (0 .. 7),
             Burst(i, b, pattern)
      PROVE  LinkInv'
    <2>1. OneWord /\ words' = words /\ flips' = {<<i, b + k>> : k \in pattern}
        BY <1>4 DEF Burst
    <2>2. \A k \in pattern : k \in 0 .. 7 /\ b + k \in 0 .. 23 /\ b + k \in b .. b + 7
        OBVIOUS
    <2>3. LinkTypeOK'
        <3>1. words' \in Seq(Payloads)
            BY <2>1 DEF LinkTypeOK
        <3>2. \A f \in flips' : f \in (DOMAIN words) \X (0 .. 23)
            BY <2>1, <2>2
        <3> QED
            BY <2>1, <3>1, <3>2 DEF LinkTypeOK
    <2>4. \A f \in flips' : f[2] \in b .. b + 7
        BY <2>1, <2>2
    <2>5. flips' \in SUBSET ({i} \X (0 .. 23))
        BY <2>1, <2>2
    <2>6. IsFiniteSet({i} \X (0 .. 23))
        <3>1. 0 \in Int /\ 23 \in Int
            OBVIOUS
        <3>2. IsFiniteSet(0 .. 23)
            BY ONLY <3>1, FS_Interval
        <3>3. IsFiniteSet({i})
            BY FS_Singleton
        <3> QED
            BY <3>2, <3>3, FS_Product
    <2>7. IsFiniteSet(flips')
        BY <2>5, <2>6, FS_Subset
    <2> QED
        BY <2>1, <2>3, <2>4, <2>7 DEF FewFlips, OneWord
<1>5. CASE UNCHANGED linkVars
    BY <1>5 DEF linkVars, LinkTypeOK, FewFlips, OneWord
<1>6. CASE LinkNext
    <2>1. ASSUME NEW i \in DOMAIN words, NEW b \in IF OneWord THEN 0 .. 23 ELSE LongBits
          PROVE  b \in 0 .. 23
        BY LinkAssumption DEF LinkAssumption
    <2> QED
        BY <1>1, <1>2, <1>3, <1>4, <1>6, <2>1 DEF LinkNext
<1> QED
    BY <1>5, <1>6

THEOREM LinkInvariant == LinkSpec => []LinkInv
BY LinkInit_LinkInv, LinkNext_LinkInv, PTL DEF LinkSpec

-----------------------------------------------------------------------------
(* What arrives.                                                           *)

\* The positions of the wrong bits of a word.
WrongBits(i) == {p \in 0 .. 23 : <<i, p>> \in flips}

LEMMA BitsIsByte == \A n : Bits(n) \in Bytes
BY DEF Bits, Bytes

LEMMA MaskIsByteOf ==
    ASSUME NEW i, NEW byte \in 1 .. 3
    PROVE  Mask(i, byte) = ByteOf(WrongBits(i), byte)
BY DEF Mask, ByteOf, WrongBits

\* A word that passes the check passes it for its wrong bits alone.
LEMMA WordPasses ==
    ASSUME NEW i \in DOMAIN words, Crc(Wire[i]) = Wire[i][3]
    PROVE  Passes(WrongBits(i))
<1> DEFINE d1 == Bits(words[i] \div 256)
           d2 == Bits(words[i] % 256)
           e1 == Mask(i, 1)
           e2 == Mask(i, 2)
           e3 == Mask(i, 3)
<1>1. d1 \in Bytes /\ d2 \in Bytes
    BY BitsIsByte
<1>2. e1 \in Bytes /\ e2 \in Bytes /\ e3 \in Bytes
    BY DEF Mask, Bytes
<1>3. Sent(i) = <<d1, d2, Crc(<<d1, d2>>)>>
    BY DEF Sent, Payload
<1> HIDE DEF d1, d2, e1, e2, e3
<1>4. Wire[i] = <<SymDiff(d1, e1), SymDiff(d2, e2), SymDiff(Crc(<<d1, d2>>), e3)>>
    BY <1>3 DEF Wire, Arrived, e1, e2, e3
<1>5. Crc(Wire[i]) = Crc(<<SymDiff(d1, e1), SymDiff(d2, e2)>>)
    BY <1>4 DEF Crc, CrcFrom
<1>6. Crc(<<SymDiff(d1, e1), SymDiff(d2, e2)>>) = SymDiff(Crc(<<d1, d2>>), e3)
    BY <1>4, <1>5
<1>7. Unnoticed(e1, e2, e3)
    BY <1>1, <1>2, <1>6, ErrorAlone
<1> QED
    BY <1>7, MaskIsByteOf DEF Passes, e1, e2, e3

LEMMA WireLength ==
    ASSUME LinkTypeOK
    PROVE  Len(Wire) = Len(words) /\ DOMAIN words = 1 .. Len(words)
BY DEF LinkTypeOK, Wire

LEMMA ManyOrFew ==
    ASSUME LinkInv, NEW i \in DOMAIN words, NEW b \in 0 .. 23, <<i, b>> \in flips
    PROVE  ~Passes(WrongBits(i))
<1> DEFINE P == WrongBits(i)
<1>1. P # {} /\ P \subseteq 0 .. 23
    BY DEF WrongBits
<1>2. CASE OneWord
    <2>1. i = 1 /\ DOMAIN words = {1}
        BY <1>2, WireLength DEF LinkInv, OneWord
    <2>2. CASE Cardinality(flips) <= 3
        <3> DEFINE f == [x \in flips |-> x[2]]
        <3>1. \A x \in flips : x = <<i, x[2]>> /\ x[2] \in 0 .. 23
            BY <2>1 DEF LinkInv, LinkTypeOK
        <3>2. f \in Surjection(flips, P)
            <4>1. f \in [flips -> P]
                BY <3>1 DEF WrongBits
            <4>2. \A p \in P : <<i, p>> \in flips /\ f[<<i, p>>] = p
                BY DEF WrongBits
            <4> QED
                BY <4>1, <4>2 DEF Surjection
        <3>3. IsFiniteSet(P) /\ Cardinality(P) <= Cardinality(flips)
            BY <3>2, FS_Surjection DEF LinkInv, FewFlips
        <3>4. Cardinality(P) \in Nat /\ Cardinality(flips) \in Nat
            BY <3>3, FS_CardinalityType DEF LinkInv, FewFlips
        <3>5. Cardinality(P) <= 3
            BY <2>2, <3>3, <3>4
        <3> QED
            BY <1>1, <3>5, FewNoticed
    <2>3. ASSUME NEW s \in 0 .. 16, \A x \in flips : x[2] \in s .. s + 7
          PROVE  ~Passes(P)
        <3>1. \A p \in P : p \in s .. s + 7
            <4>1. \A p : <<i, p>>[2] = p
                OBVIOUS
            <4> QED
                BY <2>3, <4>1 DEF WrongBits
        <3> QED
            BY <1>1, <3>1, BurstNoticed
    <2> QED
        BY <1>2, <2>2, <2>3 DEF LinkInv, FewFlips
<1>3. CASE ~OneWord
    <2>1. flips = {<<i, b>>}
        BY <1>3 DEF LinkInv, FewFlips
    <2>2. P = {b}
        BY <2>1 DEF WrongBits
    <2>3. IsFiniteSet({b}) /\ Cardinality({b}) = 1
        BY FS_Singleton
    <2> QED
        BY <1>1, <2>2, <2>3, FewNoticed
<1> QED
    BY <1>2, <1>3

LEMMA LinkInv_CorruptionNoticed == LinkInv => CorruptionNoticed
<1> SUFFICES ASSUME LinkInv, flips # {}, CheckWordsCrc(Wire)
             PROVE  FALSE
    BY DEF CorruptionNoticed
<1>1. PICK i \in DOMAIN words, b \in 0 .. 23 : <<i, b>> \in flips
    <2>1. PICK f : f \in flips
        OBVIOUS
    <2>2. f \in (DOMAIN words) \X (0 .. 23)
        BY <2>1 DEF LinkInv, LinkTypeOK
    <2>3. f = <<f[1], f[2]>> /\ f[1] \in DOMAIN words /\ f[2] \in 0 .. 23
        BY <2>2
    <2> QED
        BY <2>1, <2>3
<1>2. Crc(Wire[i]) = Wire[i][3]
    BY WireLength DEF CheckWordsCrc, LinkInv
<1> QED
    BY <1>1, <1>2, WordPasses, ManyOrFew

\* Up to three wrong bits of a word, any burst of up to eight, and one wrong bit
\* anywhere in a longer response are noticed, whatever words it carries
\* (sen66_crc.cpp; sen66_protocol.cpp, CheckWordsCrc()).
THEOREM WrongBitsAreNoticed == LinkSpec => []CorruptionNoticed
BY LinkInvariant, LinkInv_CorruptionNoticed, PTL

\* A frame with a wrong bit is rejected as a whole, and nothing of it reaches the
\* caller's measurement or serial number (sen66_protocol.cpp, ParseMeasurement()
\* and ParseSerialNumber()).
THEOREM WrongFramesAreRejected == LinkSpec => []CorruptionRejected
<1>1. LinkInv => CorruptionRejected
    BY LinkInv_CorruptionNoticed
       DEF CorruptionNoticed, CorruptionRejected, ParseMeasurement, ParseSerialNumber
<1> QED
    BY <1>1, LinkInvariant, PTL

\* No response of a line that is stuck at one level passes the check.
THEOREM StuckLinesAreNoticed == LinkSpec => []StuckLineNoticed
<1>1. \A byte \in {{}, 0 .. 7} : Crc(<<byte, byte, byte>>) # byte
    <2> DEFINE full == 0 .. 7
               once == ShiftByte[full]
    <2>1. full \in Bytes /\ {} \in Bytes /\ full # {}
        BY DEF Bytes
    <2>2. SymDiff(full, {}) = full /\ SymDiff(full, full) = {}
        BY DEF SymDiff
    <2>3. ShiftByte[{}] = {} /\ once # {} /\ once \in Bytes
        BY <2>1, NoKernel, ByteBits DEF EightRounds
    <2>4. Crc(<<{}, {}, {}>>) = ShiftByte[once]
        <3>1. SymDiff(once, {}) = once
            BY DEF SymDiff
        <3> QED
            BY <2>2, <3>1 DEF Crc, CrcFrom, CrcInit
    <2>5. ShiftByte[once] # {}
        BY <2>3, NoKernel
    <2>6. Crc(<<full, full, full>>) = once
        <3>1. SymDiff(ShiftByte[{}], full) = full
            BY <2>3 DEF SymDiff
        <3> QED
            BY <2>2, <3>1 DEF Crc, CrcFrom, CrcInit
    <2>7. once # full
        <3>1. EightRounds(once, full)
            BY <2>1, ByteBits
        <3>2. 0 \in full /\ 1 \in full /\ 3 \in full /\ 4 \in full /\ 6 \in full
            OBVIOUS
        <3> QED
            BY <3>1, <3>2 DEF EightRounds, Xor
    <2> HIDE DEF full, once
    <2>8. \A byte \in {{}, full} : Crc(<<byte, byte, byte>>) # byte
        BY <2>4, <2>5, <2>6, <2>7
    <2> QED
        BY <2>8 DEF full
<1>2. LinkInv => StuckLineNoticed
    <2> SUFFICES ASSUME LinkInv, NEW byte \in {{}, 0 .. 7}, words # <<>>,
                        CheckWordsCrc([i \in DOMAIN words |-> <<byte, byte, byte>>])
                 PROVE  FALSE
        BY DEF StuckLineNoticed
    <2> DEFINE stuck == [i \in DOMAIN words |-> <<byte, byte, byte>>]
    <2>1. Len(words) \in Nat /\ 1 \in DOMAIN words /\ DOMAIN words = 1 .. Len(words)
        <3>1. words \in Seq(Payloads)
            BY DEF LinkInv, LinkTypeOK
        <3>2. words = <<>> \/ Len(words) > 0
            BY <3>1, EmptySeq
        <3> QED
            BY <3>1, <3>2
    <2>2. Len(stuck) = Len(words) /\ stuck[1] = <<byte, byte, byte>>
        BY <2>1
    <2>3. Crc(stuck[1]) = stuck[1][3]
        BY <2>1, <2>2 DEF CheckWordsCrc
    <2> HIDE DEF stuck
    <2>4. Crc(<<byte, byte, byte>>) = byte
        BY <2>2, <2>3
    <2> QED
        BY <1>1, <2>4, Zenon
<1> QED
    BY <1>2, LinkInvariant, PTL

-----------------------------------------------------------------------------
(* An intact response is decoded to the words the part sent.               *)

\* A byte is the number its bits stand for.
LEMMA EightBits ==
    ASSUME NEW n \in Nat, n <= 255
    PROVE  n = (n % 2) + 2 * ((n \div 2) % 2) + 4 * ((n \div 4) % 2)
                  + 8 * ((n \div 8) % 2) + 16 * ((n \div 16) % 2)
                  + 32 * ((n \div 32) % 2) + 64 * ((n \div 64) % 2)
                  + 128 * ((n \div 128) % 2)
BY SMTT(60)

LEMMA ByteRoundTrip ==
    ASSUME NEW n \in Nat, n <= 255
    PROVE  ByteValue(Bits(n)) = n
<1> DEFINE Part(b, w) == IF b \in Bits(n) THEN w ELSE 0
<1>1. /\ Weight[0 + 1] = 1 /\ Weight[1 + 1] = 2 /\ Weight[2 + 1] = 4
      /\ Weight[3 + 1] = 8 /\ Weight[4 + 1] = 16 /\ Weight[5 + 1] = 32
      /\ Weight[6 + 1] = 64 /\ Weight[7 + 1] = 128
    BY DEF Weight
<1>2. ByteValue(Bits(n)) = Part(0, 1) + Part(1, 2) + Part(2, 4) + Part(3, 8)
                             + Part(4, 16) + Part(5, 32) + Part(6, 64) + Part(7, 128)
    BY <1>1 DEF ByteValue
<1> HIDE DEF Part
<1>3. /\ Part(0, 1) = n % 2
      /\ Part(1, 2) = 2 * ((n \div 2) % 2)
      /\ Part(2, 4) = 4 * ((n \div 4) % 2)
      /\ Part(3, 8) = 8 * ((n \div 8) % 2)
      /\ Part(4, 16) = 16 * ((n \div 16) % 2)
      /\ Part(5, 32) = 32 * ((n \div 32) % 2)
      /\ Part(6, 64) = 64 * ((n \div 64) % 2)
      /\ Part(7, 128) = 128 * ((n \div 128) % 2)
    <2> DEFINE Bit(w) == (n \div w) % 2
    <2>1. /\ Bit(1) = n % 2
          /\ Bit(1) \in {0, 1} /\ Bit(2) \in {0, 1} /\ Bit(4) \in {0, 1}
          /\ Bit(8) \in {0, 1} /\ Bit(16) \in {0, 1} /\ Bit(32) \in {0, 1}
          /\ Bit(64) \in {0, 1} /\ Bit(128) \in {0, 1}
        OBVIOUS
    <2>2. /\ 0 \in Bits(n) <=> Bit(1) = 1
          /\ 1 \in Bits(n) <=> Bit(2) = 1
          /\ 2 \in Bits(n) <=> Bit(4) = 1
          /\ 3 \in Bits(n) <=> Bit(8) = 1
          /\ 4 \in Bits(n) <=> Bit(16) = 1
          /\ 5 \in Bits(n) <=> Bit(32) = 1
          /\ 6 \in Bits(n) <=> Bit(64) = 1
          /\ 7 \in Bits(n) <=> Bit(128) = 1
        BY <1>1 DEF Bits
    <2> HIDE DEF Bit
    <2>3. /\ Part(0, 1) = Bit(1) /\ Part(1, 2) = 2 * Bit(2)
          /\ Part(2, 4) = 4 * Bit(4) /\ Part(3, 8) = 8 * Bit(8)
          /\ Part(4, 16) = 16 * Bit(16) /\ Part(5, 32) = 32 * Bit(32)
          /\ Part(6, 64) = 64 * Bit(64) /\ Part(7, 128) = 128 * Bit(128)
        BY <2>1, <2>2 DEF Part
    <2> QED
        BY <2>1, <2>3 DEF Bit
<1> QED
    BY <1>2, <1>3, EightBits

LEMMA TwoHalves ==
    ASSUME NEW w \in Nat, w <= 65535
    PROVE  /\ w \div 256 \in Nat /\ w \div 256 <= 255
           /\ w % 256 \in Nat /\ w % 256 <= 255
           /\ w = (w % 256) + 256 * (w \div 256)
<1>1. /\ w \div 256 \in Nat /\ w \div 256 <= 255
      /\ w % 256 \in Nat /\ w % 256 <= 255
    BY SMT
<1>2. w = (w % 256) + 256 * (w \div 256)
    BY SMT
<1> QED
    BY <1>1, <1>2

LEMMA PayloadRange == \A w \in Payloads : w \in Nat /\ w <= 65535
<1> DEFINE top == 65534 + 1
<1>1. Payloads = 0 .. top
    BY DEF Payloads
<1>2. top \in Int /\ top <= 65535
    OBVIOUS
<1> HIDE DEF top
<1> QED
    BY <1>1, <1>2

LEMMA TwoBytes ==
    ASSUME NEW w \in Payloads
    PROVE  ByteValue(Bits(w \div 256)) * 256 + ByteValue(Bits(w % 256)) = w
<1> DEFINE h == w \div 256
           l == w % 256
<1>1. w \in Nat /\ w <= 65535
    BY PayloadRange
<1>2. /\ h \in Nat /\ h <= 255 /\ l \in Nat /\ l <= 255
      /\ w = l + 256 * h
    BY <1>1, TwoHalves
<1> HIDE DEF h, l
<1>3. ByteValue(Bits(h)) = h /\ ByteValue(Bits(l)) = l
    BY <1>2, ByteRoundTrip
<1>4. h * 256 + l = w
    BY <1>2
<1> QED
    BY <1>3, <1>4 DEF h, l

LEMMA IntactWire ==
    ASSUME LinkTypeOK, flips = {}
    PROVE  /\ CheckWordsCrc(Wire)
           /\ Len(Wire) = Len(words) /\ Len(words) \in Nat
           /\ DOMAIN words = 1 .. Len(words)
           /\ \A i \in DOMAIN words :
                 /\ words[i] \in Payloads
                 /\ Wire[i][1] = Bits(words[i] \div 256)
                 /\ Wire[i][2] = Bits(words[i] % 256)
                 /\ Word(Wire[i]) = words[i]
<1>1. \A i, byte : Mask(i, byte) = {}
    BY DEF Mask
<1>2. \A A : SymDiff(A, {}) = A
    BY DEF SymDiff
<1>3. \A i, byte : Arrived(i, byte) = Sent(i)[byte]
    BY <1>1, <1>2 DEF Arrived
<1>4. \A i \in DOMAIN words :
          Wire[i] = <<Bits(words[i] \div 256), Bits(words[i] % 256), Crc(Payload(i))>>
    BY <1>3 DEF Wire, Sent, Payload
<1>5. \A i \in DOMAIN words : words[i] \in Payloads
    BY DEF LinkTypeOK
<1>6. Len(Wire) = Len(words) /\ DOMAIN words = 1 .. Len(words) /\ Len(words) \in Nat
    BY WireLength DEF LinkTypeOK
<1>7. ASSUME NEW i \in DOMAIN words
      PROVE  /\ Wire[i][1] = Bits(words[i] \div 256)
             /\ Wire[i][2] = Bits(words[i] % 256)
             /\ Wire[i][3] = Crc(Payload(i))
    BY <1>4
<1>8. ASSUME NEW i \in DOMAIN words
      PROVE  Crc(Wire[i]) = Wire[i][3] /\ Word(Wire[i]) = words[i]
    <2>1. Crc(Wire[i]) = Crc(Payload(i))
        BY <1>7 DEF Crc, CrcFrom, Payload
    <2>2. Word(Wire[i]) = ByteValue(Bits(words[i] \div 256)) * 256
                              + ByteValue(Bits(words[i] % 256))
        BY <1>7 DEF Word
    <2> QED
        BY <1>5, <1>7, <2>1, <2>2, TwoBytes
<1> QED
    BY <1>5, <1>6, <1>7, <1>8 DEF CheckWordsCrc

LEMMA DecodeUnsigned ==
    ASSUME NEW c, c \notin SignedChannels, NEW w \in Nat, w <= 65535
    PROVE  /\ Decode(c, w) % 65536 = w
           /\ Decode(c, w) = w
           /\ Decode(c, w) # UnavailableOf(c) <=> w # 65535
<1>1. Decode(c, w) = w /\ UnavailableOf(c) = 65535
    BY SMT DEF Decode, UnavailableOf, kUnavailableUnsigned
<1>2. w % 65536 = w
    BY SMT
<1> QED
    BY <1>1, <1>2, SMT

LEMMA DecodeSigned ==
    ASSUME NEW c \in SignedChannels, NEW w \in Nat, w <= 65535
    PROVE  /\ Decode(c, w) % 65536 = w
           /\ Decode(c, w) \in Int /\ -32768 <= Decode(c, w) /\ Decode(c, w) <= 32767
           /\ Decode(c, w) # UnavailableOf(c) <=> w # 32767
<1>1. Decode(c, w) = AsSigned(w) /\ UnavailableOf(c) = 32767
    BY SMT DEF Decode, UnavailableOf, kUnavailableSigned
<1>2. CASE w >= 32768
    <2>1. AsSigned(w) = w - 65536
        BY <1>2, SMT DEF AsSigned
    <2>2. (w - 65536) % 65536 = w
        BY SMT
    <2> QED
        BY <1>1, <1>2, <2>1, <2>2, SMT
<1>3. CASE w < 32768
    <2>1. AsSigned(w) = w
        BY <1>3, SMT DEF AsSigned
    <2>2. w % 65536 = w
        BY SMT
    <2> QED
        BY <1>1, <1>3, <2>1, <2>2, SMT
<1> QED
    BY <1>2, <1>3, SMT

LEMMA SignedOnes ==
    ASSUME NEW i \in 1 .. 9
    PROVE  Layout[i] \in SignedChannels <=> i \in 5 .. 8
BY DEF Layout, SignedChannels

\* A channel of an intact frame.
LEMMA ChannelDecoded ==
    ASSUME NEW out, NEW i \in 1 .. 9, words[i] \in Payloads,
           out.value[i] = Decode(Layout[i], words[i]),
           i \in out.valid <=> out.value[i] # UnavailableOf(Layout[i])
    PROVE  ChannelExact(out, i)
<1> DEFINE v == out.value[i]
           w == words[i]
           c == Layout[i]
           ok == i \in out.valid
<1>1. w \in Payloads /\ v = Decode(c, w) /\ (ok <=> v # UnavailableOf(c))
    OBVIOUS
<1>2. c \in SignedChannels <=> i \in 5 .. 8
    BY SignedOnes
<1> HIDE DEF v, w, c, ok
<1>3. w \in Nat /\ w <= 65535
    BY <1>1, PayloadRange
<1>4. CASE i \in 5 .. 8
    <2>1. /\ v % 65536 = w
          /\ v \in Int /\ -32768 <= v /\ v <= 32767
          /\ ok <=> w # 32767
        BY <1>1, <1>2, <1>3, <1>4, DecodeSigned
    <2> QED
        BY <1>4, <2>1 DEF ChannelExact, v, w, ok
<1>5. CASE i \notin 5 .. 8
    <2>1. v = w /\ v % 65536 = w /\ (ok <=> w # 65535)
        BY <1>1, <1>2, <1>3, <1>5, DecodeUnsigned
    <2>2. 0 <= v /\ v <= 65535
        BY <1>3, <2>1
    <2> QED
        BY <1>5, <2>1, <2>2 DEF ChannelExact, v, w, ok
<1> QED
    BY <1>4, <1>5

LEMMA LinkInv_DecodedExactly == LinkInv => DecodedExactly
<1> DEFINE p == ParseMeasurement(Wire, Before)
           reading == [i \in 1 .. kMeasurementWords |-> Decode(Layout[i], Word(Wire[i]))]
<1> SUFFICES ASSUME LinkInv, flips = {}, Len(words) = kMeasurementWords
             PROVE  p.ok /\ \A i \in DOMAIN words : ChannelExact(p.out, i)
    BY Zenon DEF DecodedExactly
<1>1. /\ CheckWordsCrc(Wire)
      /\ DOMAIN words = 1 .. 9
      /\ \A i \in DOMAIN words : words[i] \in Payloads /\ Word(Wire[i]) = words[i]
    BY IntactWire DEF LinkInv, kMeasurementWords
<1>2. p = [ok  |-> TRUE,
           out |-> [value |-> reading,
                    valid |-> {i \in 1 .. kMeasurementWords :
                                  reading[i] # UnavailableOf(Layout[i])}]]
    BY <1>1, Zenon DEF ParseMeasurement
<1> HIDE DEF p
<1>3. ASSUME NEW i \in 1 .. 9
      PROVE  reading[i] = Decode(Layout[i], words[i])
    BY <1>1 DEF kMeasurementWords
<1> HIDE DEF reading
<1>4. /\ p.ok
      /\ p.out.value = reading
      /\ \A i \in 1 .. 9 : i \in p.out.valid <=> reading[i] # UnavailableOf(Layout[i])
    BY <1>2 DEF kMeasurementWords
<1>5. ASSUME NEW i \in 1 .. 9
      PROVE  ChannelExact(p.out, i)
    BY <1>1, <1>3, <1>4, ChannelDecoded
<1> QED
    BY <1>1, <1>4, <1>5

\* An intact frame is decoded to its words, channel by channel: the value, the
\* signedness and the sentinel of each, for every 16-bit word of the frame
\* (sen66_protocol.cpp, ParseMeasurement()).
THEOREM FramesAreDecoded == LinkSpec => []DecodedExactly
BY LinkInvariant, LinkInv_DecodedExactly, PTL

LEMMA LinkInv_SerialExact == LinkInv => SerialExact
<1> DEFINE p == ParseSerialNumber(Wire, Before)
           chars == SerialChars(Wire)
<1> SUFFICES ASSUME LinkInv, flips = {}, Len(words) = kSerialWords
             PROVE  /\ p.ok /\ Len(p.out) = kSerialChars
                    /\ Last(p.out) = {}
                    /\ \A i \in DOMAIN words :
                           ByteValue(p.out[2*i - 1]) * 256 + ByteValue(p.out[2*i]) = words[i]
    BY DEF SerialExact
<1>1. /\ CheckWordsCrc(Wire)
      /\ Len(Wire) = 16 /\ DOMAIN words = 1 .. 16
      /\ \A i \in 1 .. 16 : Word(Wire[i]) = words[i]
    BY IntactWire DEF LinkInv, kSerialWords
<1>2. p.ok /\ p.out = chars \o <<{}>>
    BY <1>1 DEF ParseSerialNumber
<1>3. chars = [i \in 1 .. 32 |-> Wire[(i + 1) \div 2][2 - (i % 2)]]
    BY <1>1 DEF SerialChars
<1> HIDE DEF p, chars
<1> DEFINE n == 32
<1>4. chars \in Seq({chars[i] : i \in 1 .. n} \cup {{}}) /\ Len(chars) = n
    <2>1. n \in Nat /\ DOMAIN chars = 1 .. n /\ chars = [i \in 1 .. n |-> chars[i]]
        BY <1>3
    <2> HIDE DEF n
    <2> QED
        BY <2>1
<1>5. /\ Len(p.out) = 33 /\ p.out[33] = {}
      /\ \A i \in 1 .. 32 : p.out[i] = chars[i]
    <2> DEFINE S == {chars[i] : i \in 1 .. n} \cup {{}}
    <2>1. {} \in S /\ chars \in Seq(S)
        BY <1>4
    <2> HIDE DEF S
    <2>2. p.out = Append(chars, {})
        BY <1>2, <2>1, AppendIsConcat
    <2>3. /\ Len(p.out) = Len(chars) + 1
          /\ \A i \in 1 .. Len(chars) : p.out[i] = chars[i]
          /\ p.out[Len(chars) + 1] = {}
        BY <2>1, <2>2, AppendProperties
    <2>4. Len(chars) = 32 /\ Len(chars) + 1 = 33
        BY <1>4
    <2> QED
        BY <2>3, <2>4, Zenon
<1>6. ASSUME NEW i \in 1 .. 16
      PROVE  ByteValue(p.out[2*i - 1]) * 256 + ByteValue(p.out[2*i]) = words[i]
    <2> DEFINE odd == 2*i - 1
               even == 2*i
    <2>1. /\ odd \in 1 .. 32 /\ (odd + 1) \div 2 = i /\ 2 - (odd % 2) = 1
          /\ even \in 1 .. 32 /\ (even + 1) \div 2 = i /\ 2 - (even % 2) = 2
        OBVIOUS
    <2> HIDE DEF odd, even
    <2>2. p.out[odd] = Wire[i][1] /\ p.out[even] = Wire[i][2]
        BY ZenonT(40), <1>3, <1>5, <2>1
    <2>3. ByteValue(p.out[odd]) * 256 + ByteValue(p.out[even]) = words[i]
        BY ZenonT(40), <1>1, <2>2 DEF Word
    <2> QED
        BY <2>3 DEF odd, even
<1>7. Last(p.out) = {}
    BY <1>5 DEF Last
<1>8. kSerialChars = 33
    BY DEF kSerialChars, kSerialWords
<1>9. \A i \in DOMAIN words :
          ByteValue(p.out[2*i - 1]) * 256 + ByteValue(p.out[2*i]) = words[i]
    BY ZenonT(40), <1>1, <1>6
<1> QED
    BY <1>2, <1>5, <1>7, <1>8, <1>9

\* The serial number arrives character by character and is terminated inside its
\* buffer, whatever the part sends (sen66_protocol.cpp, ParseSerialNumber()).
THEOREM SerialNumbersArrive == LinkSpec => []SerialExact
BY LinkInvariant, LinkInv_SerialExact, PTL
=============================================================================
