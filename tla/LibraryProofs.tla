--------------------------- MODULE LibraryProofs ---------------------------
(***************************************************************************)
(* Theorems of module Library: what the package's algorithms answer, for   *)
(* any advertisements, numbers, frames and voice packs.  A behaviour takes *)
(* one step, so the work is in the lemmas about the operators of Scan,     *)
(* Commands, Replies and VoicePack.                                        *)
(***************************************************************************)
EXTENDS Library, TLAPS, SequenceTheorems, WellFoundedInduction

-----------------------------------------------------------------------------
(* Numbers and bytes.                                                      *)

\* Induction, of a set of numbers instead of a predicate.
LEMMA AllNumbers ==
  ASSUME NEW T, 0 \in T, \A n \in Nat : n \in T => n + 1 \in T
  PROVE  Nat \subseteq T
<1>1. SUFFICES ASSUME Nat \ T # {} PROVE FALSE
  OBVIOUS
<1>2. PICK x \in Nat \ T : \A y \in Nat \ T : ~(<<y, x>> \in OpToRel(<, Nat))
  <2>1. Nat \ T \subseteq Nat
    OBVIOUS
  <2>2. QED
    BY <1>1, <2>1, NatLessThanWellFounded, WFMin
<1>3. x # 0 /\ x \in Nat
  OBVIOUS
<1>4. x - 1 \in Nat /\ (x - 1) + 1 = x
  BY <1>3
<1>5. x - 1 \notin T
  BY <1>3, <1>4
<1>6. <<x - 1, x>> \in OpToRel(<, Nat)
  BY <1>3, <1>4 DEF OpToRel
<1>7. QED
  BY <1>2, <1>4, <1>5, <1>6

\* Some numbers have a least one.
LEMMA LeastNumber ==
  ASSUME NEW S, S \subseteq Nat, S # {}
  PROVE  Min(S) \in S /\ \A y \in S : Min(S) <= y
<1>1. PICK x \in S : \A y \in S : ~(<<y, x>> \in OpToRel(<, Nat))
  BY NatLessThanWellFounded, WFMin
<1>2. ASSUME NEW y \in S
      PROVE  x <= y
  <2>1. x \in Nat /\ y \in Nat
    BY <1>2
  <2>2. ~(y < x)
    BY <1>1, <1>2, <2>1 DEF OpToRel
  <2>3. QED
    BY <2>1, <2>2
<1>3. QED
  BY <1>2 DEF Min

\* Some of the first numbers have a greatest one.
LEMMA GreatestNumber ==
  ASSUME NEW N \in Nat, NEW S, S \subseteq 0 .. N, S # {}
  PROVE  Max(S) \in S /\ \A y \in S : y <= Max(S)
<1> DEFINE R == { N - y : y \in S }
<1>1. R \subseteq Nat /\ R # {}
  <2>1. \A y \in S : N - y \in Nat
    OBVIOUS
  <2>2. QED
    BY <2>1
<1>2. PICK r \in R : \A q \in R : r <= q
  BY <1>1, LeastNumber
<1>3. PICK x \in S : r = N - x
  OBVIOUS
<1>4. ASSUME NEW y \in S
      PROVE  y <= x
  <2>1. N - y \in R
    BY <1>4
  <2>2. x \in Int /\ y \in Int
    BY <1>4
  <2>3. N - x <= N - y
    BY <1>2, <1>3, <2>1
  <2>4. QED
    BY <2>2, <2>3
<1>5. \E z \in S : \A y \in S : z >= y
  BY <1>4
<1>6. Max(S) \in S /\ \A y \in S : Max(S) >= y
  BY <1>5 DEF Max
<1>7. QED
  BY <1>6

\* Quotient and remainder.
LEMMA Division ==
  ASSUME NEW a \in Nat, NEW b \in Nat \ {0}
  PROVE  a \div b \in Nat /\ a % b \in 0 .. b - 1 /\ a = (a \div b) * b + (a % b)
<1> DEFINE q == a \div b
           r == a - q * b
<1>1. q \in Nat /\ q * b <= a /\ a < q * b + b /\ q * b \in Nat
  OBVIOUS
<1> HIDE DEF q
<1>2. r \in Int /\ 0 <= r /\ r < b /\ a = q * b + r
  BY <1>1
<1> HIDE DEF r
<1>3. (q * b + r) % b = r
  BY <1>1, <1>2
<1>4. QED
  BY <1>1, <1>2, <1>3 DEF q

\* The bits of an exclusive or; of bytes, those above the eighth are 0.
LEMMA BitOfXor ==
  ASSUME NEW a \in Nat, NEW b \in Nat,
         NEW p \in {1, 2, 4, 8, 16, 32, 64, 128, 256, 512, 1024, 2048, 4096, 8192, 16384, 32768}
  PROVE  p * ((Bit(a, p) + Bit(b, p)) % 2) \in {0, p}
BY DEF Bit

LEMMA HighBitOfXor ==
  ASSUME NEW a \in Byte, NEW b \in Byte,
         NEW p \in {256, 512, 1024, 2048, 4096, 8192, 16384, 32768}
  PROVE  p * ((Bit(a, p) + Bit(b, p)) % 2) = 0
BY DEF Bit, Byte

LEMMA XorOfBytes ==
  ASSUME NEW a \in Byte, NEW b \in Byte
  PROVE  Xor(a, b) \in Byte
<1> DEFINE At(p) == p * ((Bit(a, p) + Bit(b, p)) % 2)
<1>1. a \in Nat /\ b \in Nat
  BY DEF Byte
<1>2. /\ At(1) \in {0, 1} /\ At(2) \in {0, 2} /\ At(4) \in {0, 4} /\ At(8) \in {0, 8}
      /\ At(16) \in {0, 16} /\ At(32) \in {0, 32} /\ At(64) \in {0, 64} /\ At(128) \in {0, 128}
  BY <1>1, BitOfXor
<1>3. /\ At(256) = 0 /\ At(512) = 0 /\ At(1024) = 0 /\ At(2048) = 0
      /\ At(4096) = 0 /\ At(8192) = 0 /\ At(16384) = 0 /\ At(32768) = 0
  BY HighBitOfXor
<1>4. Xor(a, b) = At(1) + At(2) + At(4) + At(8) + At(16) + At(32) + At(64) + At(128)
                  + At(256) + At(512) + At(1024) + At(2048) + At(4096) + At(8192) + At(16384)
                  + At(32768)
  BY DEF Xor
<1> HIDE DEF At
<1>5. QED
  BY <1>2, <1>3, <1>4 DEF Byte

\* Two tuples, one after the other.
LEMMA Cat12 ==
  ASSUME NEW a, NEW b, NEW c
  PROVE  <<a>> \o <<b, c>> = <<a, b, c>>
<1> DEFINE u == <<a>> \o <<b, c>>
           U == {a, b, c}
<1>1. <<a>> \in Seq(U) /\ <<b, c>> \in Seq(U) /\ <<a, b, c>> \in Seq(U)
  OBVIOUS
<1>2. /\ u \in Seq(U) /\ Len(u) = 3
      /\ u[1] = a /\ u[2] = b /\ u[3] = c
  BY <1>1, ConcatProperties
<1> HIDE DEF u
<1>3. u = <<a, b, c>>
  BY <1>1, <1>2, SeqEqual
<1>4. QED
  BY <1>3 DEF u

LEMMA Cat22 ==
  ASSUME NEW a, NEW b, NEW c, NEW d
  PROVE  <<a, b>> \o <<c, d>> = <<a, b, c, d>>
<1> DEFINE u == <<a, b>> \o <<c, d>>
           U == {a, b, c, d}
<1>1. <<a, b>> \in Seq(U) /\ <<c, d>> \in Seq(U) /\ <<a, b, c, d>> \in Seq(U)
  OBVIOUS
<1>2. /\ u \in Seq(U) /\ Len(u) = 4
      /\ u[1] = a /\ u[2] = b /\ u[3] = c /\ u[4] = d
  BY <1>1, ConcatProperties
<1> HIDE DEF u
<1>3. u = <<a, b, c, d>>
  BY <1>1, <1>2, SeqEqual
<1>4. QED
  BY <1>3 DEF u

LEMMA Cat32 ==
  ASSUME NEW a, NEW b, NEW c, NEW d, NEW e
  PROVE  <<a, b, c>> \o <<d, e>> = <<a, b, c, d, e>>
<1> DEFINE u == <<a, b, c>> \o <<d, e>>
           U == {a, b, c, d, e}
<1>1. <<a, b, c>> \in Seq(U) /\ <<d, e>> \in Seq(U) /\ <<a, b, c, d, e>> \in Seq(U)
  OBVIOUS
<1>2. /\ u \in Seq(U) /\ Len(u) = 5
      /\ u[1] = a /\ u[2] = b /\ u[3] = c /\ u[4] = d /\ u[5] = e
  BY <1>1, ConcatProperties
<1> HIDE DEF u
<1>3. u = <<a, b, c, d, e>>
  BY <1>1, <1>2, SeqEqual
<1>4. QED
  BY <1>3 DEF u

LEMMA Cat42 ==
  ASSUME NEW a, NEW b, NEW c, NEW d, NEW e, NEW f
  PROVE  <<a, b, c, d>> \o <<e, f>> = <<a, b, c, d, e, f>>
<1> DEFINE u == <<a, b, c, d>> \o <<e, f>>
           U == {a, b, c, d, e, f}
<1>1. <<a, b, c, d>> \in Seq(U) /\ <<e, f>> \in Seq(U) /\ <<a, b, c, d, e, f>> \in Seq(U)
  OBVIOUS
<1>2. /\ u \in Seq(U) /\ Len(u) = 6
      /\ u[1] = a /\ u[2] = b /\ u[3] = c /\ u[4] = d /\ u[5] = e /\ u[6] = f
  BY <1>1, ConcatProperties
<1> HIDE DEF u
<1>3. u = <<a, b, c, d, e, f>>
  BY <1>1, <1>2, SeqEqual
<1>4. QED
  BY <1>3 DEF u

LEMMA Cat14 ==
  ASSUME NEW a, NEW b, NEW c, NEW d, NEW e
  PROVE  <<a>> \o <<b, c, d, e>> = <<a, b, c, d, e>>
<1> DEFINE u == <<a>> \o <<b, c, d, e>>
           U == {a, b, c, d, e}
<1>1. <<a>> \in Seq(U) /\ <<b, c, d, e>> \in Seq(U) /\ <<a, b, c, d, e>> \in Seq(U)
  OBVIOUS
<1>2. /\ u \in Seq(U) /\ Len(u) = 5
      /\ u[1] = a /\ u[2] = b /\ u[3] = c /\ u[4] = d /\ u[5] = e
  BY <1>1, ConcatProperties
<1> HIDE DEF u
<1>3. u = <<a, b, c, d, e>>
  BY <1>1, <1>2, SeqEqual
<1>4. QED
  BY <1>3 DEF u

\* The frames of an opcode and so many bytes.
LEMMA FrameOfThree ==
  ASSUME NEW op, NEW a, NEW b, NEW c
  PROVE  Frame(op, <<a, b, c>>) = <<op, a, b, c>>
<1> DEFINE u == Frame(op, <<a, b, c>>)
           U == {op, a, b, c}
<1>1. <<op>> \in Seq(U) /\ <<a, b, c>> \in Seq(U) /\ <<op, a, b, c>> \in Seq(U)
  OBVIOUS
<1>2. /\ u \in Seq(U) /\ Len(u) = 4
      /\ u[1] = op /\ u[2] = a /\ u[3] = b /\ u[4] = c
  BY <1>1, ConcatProperties DEF Frame
<1> HIDE DEF u
<1>3. u = <<op, a, b, c>>
  BY <1>1, <1>2, SeqEqual
<1>4. QED
  BY <1>3 DEF u

LEMMA FrameOfFour ==
  ASSUME NEW op, NEW a, NEW b, NEW c, NEW d
  PROVE  Frame(op, <<a, b, c, d>>) = <<op, a, b, c, d>>
<1> DEFINE u == Frame(op, <<a, b, c, d>>)
           U == {op, a, b, c, d}
<1>1. <<op>> \in Seq(U) /\ <<a, b, c, d>> \in Seq(U) /\ <<op, a, b, c, d>> \in Seq(U)
  OBVIOUS
<1>2. /\ u \in Seq(U) /\ Len(u) = 5
      /\ u[1] = op /\ u[2] = a /\ u[3] = b /\ u[4] = c /\ u[5] = d
  BY <1>1, ConcatProperties DEF Frame
<1> HIDE DEF u
<1>3. u = <<op, a, b, c, d>>
  BY <1>1, <1>2, SeqEqual
<1>4. QED
  BY <1>3 DEF u

LEMMA FrameOfFive ==
  ASSUME NEW op, NEW a, NEW b, NEW c, NEW d, NEW e
  PROVE  Frame(op, <<a, b, c, d, e>>) = <<op, a, b, c, d, e>>
<1> DEFINE u == Frame(op, <<a, b, c, d, e>>)
           U == {op, a, b, c, d, e}
<1>1. <<op>> \in Seq(U) /\ <<a, b, c, d, e>> \in Seq(U) /\ <<op, a, b, c, d, e>> \in Seq(U)
  OBVIOUS
<1>2. /\ u \in Seq(U) /\ Len(u) = 6
      /\ u[1] = op /\ u[2] = a /\ u[3] = b /\ u[4] = c /\ u[5] = d /\ u[6] = e
  BY <1>1, ConcatProperties DEF Frame
<1> HIDE DEF u
<1>3. u = <<op, a, b, c, d, e>>
  BY <1>1, <1>2, SeqEqual
<1>4. QED
  BY <1>3 DEF u

LEMMA FrameOfSix ==
  ASSUME NEW op, NEW a, NEW b, NEW c, NEW d, NEW e, NEW f
  PROVE  Frame(op, <<a, b, c, d, e, f>>) = <<op, a, b, c, d, e, f>>
<1> DEFINE u == Frame(op, <<a, b, c, d, e, f>>)
           U == {op, a, b, c, d, e, f}
<1>1. <<op>> \in Seq(U) /\ <<a, b, c, d, e, f>> \in Seq(U) /\ <<op, a, b, c, d, e, f>> \in Seq(U)
  OBVIOUS
<1>2. /\ u \in Seq(U) /\ Len(u) = 7
      /\ u[1] = op /\ u[2] = a /\ u[3] = b /\ u[4] = c /\ u[5] = d /\ u[6] = e /\ u[7] = f
  BY <1>1, ConcatProperties DEF Frame
<1> HIDE DEF u
<1>3. u = <<op, a, b, c, d, e, f>>
  BY <1>1, <1>2, SeqEqual
<1>4. QED
  BY <1>3 DEF u

-----------------------------------------------------------------------------
(* The frames of the requests.                                             *)

\* The two bytes of a word, and the four of a number below 2^32.
LEMMA TwoBytes ==
  ASSUME NEW n \in Word
  PROVE  n % 256 \in Byte /\ n \div 256 \in Byte /\ n = (n % 256) + 256 * (n \div 256)
BY DEF Word, Byte

LEMMA Remainder ==
  ASSUME NEW n \in Int
  PROVE  n % 65536 \in Word
BY DEF Word

LEMMA FourBytes ==
  ASSUME NEW n \in Int, n \div 65536 \in Word
  PROVE  \E a, b, c, d \in Byte :
           LittleEndian4(n) = <<a, b, c, d>> /\ n = a + 256 * b + 65536 * (c + 256 * d)
<1> DEFINE l == n % 65536
           h == n \div 65536
<1>1. l \in Word
  BY Remainder
<1>2. n = l + 65536 * h
  OBVIOUS
<1>3. h \in Word
  OBVIOUS
<1>4. LittleEndian4(n) = LittleEndian(l) \o LittleEndian(h)
  BY DEF LittleEndian4
<1> HIDE DEF l, h
<1>5. PICK a \in Byte, b \in Byte : LittleEndian(l) = <<a, b>> /\ l = a + 256 * b
  BY <1>1, TwoBytes DEF LittleEndian
<1>6. PICK c \in Byte, d \in Byte : LittleEndian(h) = <<c, d>> /\ h = c + 256 * d
  BY <1>3, TwoBytes DEF LittleEndian
<1>7. LittleEndian4(n) = <<a, b, c, d>>
  <2>1. LittleEndian(l) = <<a, b>> /\ LittleEndian(h) = <<c, d>>
    BY <1>5, <1>6
  <2>2. <<a, b>> \o <<c, d>> = <<a, b, c, d>>
    BY Cat22
  <2>3. QED
    BY <1>4, <2>1, <2>2
<1>8. n = a + 256 * b + 65536 * (c + 256 * d)
  BY <1>2, <1>5, <1>6 DEF Byte
<1>9. QED
  BY <1>7, <1>8

\* What the frame of each setting is, when it is not refused.
LEMMA OperateFrameIs ==
  ASSUME NEW open \in BOOLEAN, NEW n \in Int, OperateFrame(open, n) # Refused
  PROVE  \E a, b, c, d \in Byte :
           /\ n = a + 256 * b
           /\ OperateFrame(open, n) = <<\h74, IF open THEN 1 ELSE 0, a, b, c, d>>
<1> DEFINE m == (OperateBase(open) + n) % 65536
           dir == IF open THEN 1 ELSE 0
<1>1. n \in Word
  BY DEF OperateFrame
<1>2. m \in Word
  <2>1. OperateBase(open) + n \in Nat
    BY <1>1 DEF Word, OperateBase
  <2>2. QED
    BY <2>1, Remainder
<1>3. OperateFrame(open, n) = Frame(\h74, <<dir>> \o LittleEndian(n) \o LittleEndian(m))
  BY <1>1 DEF OperateFrame
<1> HIDE DEF m, dir
<1>4. PICK a \in Byte, b \in Byte : LittleEndian(n) = <<a, b>> /\ n = a + 256 * b
  BY <1>1, TwoBytes DEF LittleEndian
<1>5. PICK c \in Byte, d \in Byte : LittleEndian(m) = <<c, d>>
  BY <1>2, TwoBytes DEF LittleEndian
<1>6. <<dir>> \o LittleEndian(n) \o LittleEndian(m) = <<dir, a, b, c, d>>
  <2>1. LittleEndian(n) = <<a, b>>
    BY <1>4
  <2>2. <<dir>> \o <<a, b>> = <<dir, a, b>>
    BY Cat12
  <2>3. <<dir, a, b>> \o <<c, d>> = <<dir, a, b, c, d>>
    BY Cat32
  <2>4. QED
    BY <1>5, <2>1, <2>2, <2>3, Zenon
<1>7. OperateFrame(open, n) = <<\h74, dir, a, b, c, d>>
  <2>1. Frame(\h74, <<dir, a, b, c, d>>) = <<\h74, dir, a, b, c, d>>
    BY FrameOfFive
  <2>2. QED
    BY <1>3, <1>6, <2>1, Zenon
<1>8. QED
  BY <1>4, <1>7 DEF dir

LEMMA AutoLockIs ==
  ASSUME NEW n \in Int, NEW which, AutoLock(n, which) # Refused
  PROVE  \E a, b \in Byte : n = a + 256 * b /\ AutoLock(n, which) = <<\hD5, a, b, which, \hfe>>
<1>1. n \in Word
  BY DEF AutoLock
<1>2. AutoLock(n, which) = Frame(\hD5, LittleEndian(n) \o <<which, \hfe>>)
  BY <1>1 DEF AutoLock
<1>3. PICK a \in Byte, b \in Byte : LittleEndian(n) = <<a, b>> /\ n = a + 256 * b
  BY <1>1, TwoBytes DEF LittleEndian
<1>4. AutoLock(n, which) = <<\hD5, a, b, which, \hfe>>
  <2>1. LittleEndian(n) = <<a, b>>
    BY <1>3
  <2>2. <<a, b>> \o <<which, \hfe>> = <<a, b, which, \hfe>>
    BY Cat22
  <2>3. Frame(\hD5, <<a, b, which, \hfe>>) = <<\hD5, a, b, which, \hfe>>
    BY FrameOfFour
  <2>4. QED
    BY <1>2, <2>1, <2>2, <2>3, Zenon
<1>5. QED
  BY <1>3, <1>4

LEMMA VerifyFailIs ==
  ASSUME NEW n \in Int, SetVerifyFailTime(n) # Refused
  PROVE  \E a, b, c, d \in Byte :
           /\ n = a + 256 * b + 65536 * (c + 256 * d)
           /\ SetVerifyFailTime(n) = <<\hAF, a, b, c, d, \h0c, \h4a>>
<1>1. n \div 65536 \in Word
  BY DEF SetVerifyFailTime
<1>2. PICK a \in Byte, b \in Byte, c \in Byte, d \in Byte :
        LittleEndian4(n) = <<a, b, c, d>> /\ n = a + 256 * b + 65536 * (c + 256 * d)
  BY <1>1, FourBytes
<1>3. SetVerifyFailTime(n) = Frame(\hAF, LittleEndian4(n) \o <<\h0c, \h4a>>)
  BY <1>1 DEF SetVerifyFailTime
<1>4. SetVerifyFailTime(n) = <<\hAF, a, b, c, d, \h0c, \h4a>>
  <2>1. LittleEndian4(n) = <<a, b, c, d>>
    BY <1>2
  <2>2. <<a, b, c, d>> \o <<\h0c, \h4a>> = <<a, b, c, d, \h0c, \h4a>>
    BY Cat42
  <2>3. Frame(\hAF, <<a, b, c, d, \h0c, \h4a>>) = <<\hAF, a, b, c, d, \h0c, \h4a>>
    BY FrameOfSix
  <2>4. QED
    BY <1>3, <2>1, <2>2, <2>3, Zenon
<1>5. QED
  BY <1>2, <1>4

\* What a setting's frame says: the setting and the value can be read off it, so
\* no two requests have the same.
SettingIn(f) ==
  CASE f[1] = \h74 /\ f[2] = 1    -> "open"
    [] f[1] = \h74 /\ f[2] = 0    -> "close"
    [] f[1] = \hAF                -> "verify fail"
    [] f[1] = \hD5 /\ f[4] = \h0e -> "relock delay"
    [] f[1] = \hD5 /\ f[4] = \h01 -> "on-close delay"
    [] f[1] = \h83                -> "alarm silent"
    [] f[1] = 2                   -> "alert volume"
    [] f[1] = \h18                -> "alert delay"
    [] f[1] = 3                   -> "language"
    [] f[1] = \hC4 /\ f[2] = 2    -> "on-close on"
    [] f[1] = \hC4 /\ f[2] = 4    -> "relock on"

ValueIn(f) ==
  CASE f[1] = \h74 -> f[3] + 256 * f[4]
    [] f[1] = \hAF -> f[2] + 256 * f[3] + 65536 * (f[4] + 256 * f[5])
    [] f[1] = \hD5 -> f[2] + 256 * f[3]
    [] f[1] = \h83 -> IF f[3] = 0 THEN 1 ELSE 0
    [] f[1] = 2    -> f[3]
    [] f[1] = \h18 -> f[5]
    [] f[1] = 3    -> f[2]
    [] f[1] = \hC4 -> 1

SetOps == {\h74, \hAF, \hD5, \h83, 2, \h18, 3, \hC4}

Fits(f) ==
  /\ \A i \in DOMAIN f : f[i] \in Byte
  /\ f[1] \in SetOps
  /\ f[1] \in {2, 3} => Len(f) < 6

\* A request that is not refused says what it asks for.
IsReadBack(setting, value) ==
  LET f == Build(setting, value) IN
  f # Refused => Fits(f) /\ SettingIn(f) = setting /\ ValueIn(f) = value

LEMMA OperateIsReadBack ==
  ASSUME NEW n \in Int
  PROVE  IsReadBack("open", n) /\ IsReadBack("close", n)
<1>1. ASSUME NEW open \in BOOLEAN, OperateFrame(open, n) # Refused
      PROVE  LET f == OperateFrame(open, n) IN
             Fits(f) /\ ValueIn(f) = n /\ SettingIn(f) = IF open THEN "open" ELSE "close"
  <2> DEFINE f == OperateFrame(open, n)
  <2>1. PICK a \in Byte, b \in Byte, c \in Byte, d \in Byte :
          n = a + 256 * b /\ f = <<\h74, IF open THEN 1 ELSE 0, a, b, c, d>>
    BY <1>1, OperateFrameIs
  <2>2. DOMAIN f = 1 .. 6 /\ f[1] = \h74 /\ f[2] = (IF open THEN 1 ELSE 0) /\ f[3] = a /\ f[4] = b
        /\ f[5] = c /\ f[6] = d
    BY <2>1
  <2> HIDE DEF f
  <2>3. Fits(f)
    BY <2>2 DEF Fits, SetOps, Byte
  <2>4. ValueIn(f) = n
    BY <2>1, <2>2 DEF ValueIn
  <2>5. SettingIn(f) = IF open THEN "open" ELSE "close"
    BY <2>2 DEF SettingIn
  <2>6. QED
    BY <2>3, <2>4, <2>5 DEF f
<1>2. Build("open", n) = OperateFrame(TRUE, n) /\ Build("close", n) = OperateFrame(FALSE, n)
  BY DEF Build
<1>3. QED
  BY <1>1, <1>2 DEF IsReadBack

LEMMA VerifyFailIsReadBack ==
  ASSUME NEW n \in Int
  PROVE  IsReadBack("verify fail", n)
<1> DEFINE f == SetVerifyFailTime(n)
<1>1. Build("verify fail", n) = f
  BY DEF Build
<1>2. SUFFICES ASSUME f # Refused
               PROVE  Fits(f) /\ SettingIn(f) = "verify fail" /\ ValueIn(f) = n
  BY <1>1 DEF IsReadBack
<1>3. PICK a \in Byte, b \in Byte, c \in Byte, d \in Byte :
        n = a + 256 * b + 65536 * (c + 256 * d) /\ f = <<\hAF, a, b, c, d, \h0c, \h4a>>
  BY <1>2, VerifyFailIs
<1>4. /\ DOMAIN f = 1 .. 7 /\ f[1] = \hAF /\ f[2] = a /\ f[3] = b /\ f[4] = c /\ f[5] = d
      /\ f[6] = \h0c /\ f[7] = \h4a
  BY <1>3
<1> HIDE DEF f
<1>5. Fits(f)
  BY <1>4 DEF Fits, SetOps, Byte
<1>6. ValueIn(f) = n
  BY <1>3, <1>4 DEF ValueIn
<1>7. SettingIn(f) = "verify fail"
  BY <1>4 DEF SettingIn
<1>8. QED
  BY <1>5, <1>6, <1>7

LEMMA DelayIsReadBack ==
  ASSUME NEW n \in Int
  PROVE  IsReadBack("relock delay", n) /\ IsReadBack("on-close delay", n)
<1>1. ASSUME NEW which \in {\h0e, \h01}, AutoLock(n, which) # Refused
      PROVE  LET f == AutoLock(n, which) IN
             /\ Fits(f) /\ ValueIn(f) = n
             /\ SettingIn(f) = IF which = \h0e THEN "relock delay" ELSE "on-close delay"
  <2> DEFINE f == AutoLock(n, which)
  <2>1. PICK a \in Byte, b \in Byte : n = a + 256 * b /\ f = <<\hD5, a, b, which, \hfe>>
    BY <1>1, AutoLockIs
  <2>2. DOMAIN f = 1 .. 5 /\ f[1] = \hD5 /\ f[2] = a /\ f[3] = b /\ f[4] = which /\ f[5] = \hfe
    BY <2>1
  <2> HIDE DEF f
  <2>3. Fits(f)
    BY <2>2 DEF Fits, SetOps, Byte
  <2>4. ValueIn(f) = n
    BY <2>1, <2>2 DEF ValueIn
  <2>5. SettingIn(f) = IF which = \h0e THEN "relock delay" ELSE "on-close delay"
    <3>1. CASE which = \h0e
      BY <2>2, <3>1 DEF SettingIn
    <3>2. CASE which = \h01
      BY <2>2, <3>2 DEF SettingIn
    <3>3. QED
      BY <1>1, <3>1, <3>2
  <2>6. QED
    BY <2>3, <2>4, <2>5 DEF f
<1>2. Build("relock delay", n) = AutoLock(n, \h0e) /\ Build("on-close delay", n) = AutoLock(n, \h01)
  BY DEF Build, SetRelockDelay, SetOnCloseDelay
<1>3. \h0e # \h01
  OBVIOUS
<1>4. IsReadBack("relock delay", n)
  BY <1>1, <1>2 DEF IsReadBack
<1>5. IsReadBack("on-close delay", n)
  BY <1>1, <1>2, <1>3 DEF IsReadBack
<1>6. QED
  BY <1>4, <1>5

LEMMA VolumeIsReadBack ==
  ASSUME NEW n \in Int
  PROVE  /\ IsReadBack("alert volume", n)
         /\ n \in {0, 1} => IsReadBack("alarm silent", n)
<1>1. IsReadBack("alert volume", n)
  <2> DEFINE f == SetAlertVolume(n)
  <2>1. Build("alert volume", n) = f
    BY DEF Build
  <2>2. SUFFICES ASSUME f # Refused
                 PROVE  Fits(f) /\ SettingIn(f) = "alert volume" /\ ValueIn(f) = n
    BY <2>1 DEF IsReadBack
  <2>3. n \in 1 .. 4 /\ f = Frame(2, <<2, n, 4, (n + \h0c) % 256>>)
    BY <2>2 DEF SetAlertVolume
  <2>4. (n + \h0c) % 256 \in Byte
    BY <2>3 DEF Byte
  <2>5. f = <<2, 2, n, 4, (n + \h0c) % 256>>
    BY <2>3, FrameOfFour
  <2>6. /\ DOMAIN f = 1 .. 5 /\ Len(f) = 5 /\ f[1] = 2 /\ f[2] = 2 /\ f[3] = n /\ f[4] = 4
        /\ f[5] = (n + \h0c) % 256
    BY <2>5
  <2> HIDE DEF f
  <2>7. Fits(f)
    <3>1. n \in Byte /\ 2 \in Byte /\ 4 \in Byte
      BY <2>3 DEF Byte
    <3>2. \A i \in DOMAIN f : f[i] \in Byte
      BY <2>4, <2>6, <3>1
    <3>3. QED
      BY <2>6, <3>2 DEF Fits, SetOps
  <2>8. SettingIn(f) = "alert volume" /\ ValueIn(f) = n
    BY <2>6 DEF SettingIn, ValueIn
  <2>9. QED
    BY <2>7, <2>8
<1>2. ASSUME n \in {0, 1}
      PROVE  IsReadBack("alarm silent", n)
  <2> DEFINE b == IF n = 1 THEN 0 ELSE \h10
             f == SetAlarmVolume(n = 1)
  <2>1. Build("alarm silent", n) = f
    BY DEF Build
  <2>2. f = Frame(\h83, <<2, b, 7>>)
    BY DEF SetAlarmVolume
  <2>3. f = <<\h83, 2, b, 7>>
    BY <2>2, FrameOfThree
  <2>4. DOMAIN f = 1 .. 4 /\ f[1] = \h83 /\ f[2] = 2 /\ f[3] = b /\ f[4] = 7
    BY <2>3
  <2> HIDE DEF f
  <2>5. Fits(f)
    BY <2>4 DEF Fits, SetOps, Byte
  <2>6. SettingIn(f) = "alarm silent" /\ ValueIn(f) = n
    BY <1>2, <2>4 DEF SettingIn, ValueIn
  <2>7. QED
    BY <2>1, <2>5, <2>6 DEF IsReadBack
<1>3. QED
  BY <1>1, <1>2

LEMMA AlertDelayIsReadBack ==
  ASSUME NEW n \in Int
  PROVE  IsReadBack("alert delay", n)
<1> DEFINE f == SetAlertDelay(n)
           x == Xor(n, \hdf)
<1>1. Build("alert delay", n) = f
  BY DEF Build
<1>2. SUFFICES ASSUME f # Refused
               PROVE  Fits(f) /\ SettingIn(f) = "alert delay" /\ ValueIn(f) = n
  BY <1>1 DEF IsReadBack
<1>3. n \in Byte /\ f = Frame(\h18, <<5, \h0a, 3, n, \h88, x>>)
  BY <1>2 DEF SetAlertDelay
<1>4. x \in Byte
  <2>1. \hdf \in Byte
    BY DEF Byte
  <2>2. QED
    BY <1>3, <2>1, XorOfBytes
<1> HIDE DEF x
<1>5. f = <<\h18, 5, \h0a, 3, n, \h88, x>>
  BY <1>3, FrameOfSix
<1>6. /\ DOMAIN f = 1 .. 7 /\ f[1] = \h18 /\ f[2] = 5 /\ f[3] = \h0a /\ f[4] = 3 /\ f[5] = n
      /\ f[6] = \h88 /\ f[7] = x
  BY <1>5
<1> HIDE DEF f
<1>7. Fits(f)
  <2>1. \h18 \in Byte /\ 5 \in Byte /\ \h0a \in Byte /\ 3 \in Byte /\ \h88 \in Byte
    BY DEF Byte
  <2>2. \A i \in DOMAIN f : f[i] \in Byte
    BY <1>3, <1>4, <1>6, <2>1
  <2>3. QED
    BY <1>6, <2>2 DEF Fits, SetOps
<1>8. SettingIn(f) = "alert delay" /\ ValueIn(f) = n
  BY <1>6 DEF SettingIn, ValueIn
<1>9. QED
  BY <1>7, <1>8

LEMMA LanguageIsReadBack ==
  ASSUME NEW n \in {2, 9}
  PROVE  IsReadBack("language", n)
<1> DEFINE f == SetLanguage(n)
           x == Xor(n, 5)
<1>1. Build("language", n) = f /\ f = Frame(3, <<n, \h83, x>>)
  BY DEF Build, SetLanguage
<1>2. x \in Byte
  <2>1. n \in Byte /\ 5 \in Byte
    BY DEF Byte
  <2>2. QED
    BY <2>1, XorOfBytes
<1> HIDE DEF x
<1>3. f = <<3, n, \h83, x>>
  BY <1>1, FrameOfThree
<1>4. DOMAIN f = 1 .. 4 /\ Len(f) = 4 /\ f[1] = 3 /\ f[2] = n /\ f[3] = \h83 /\ f[4] = x
  BY <1>3
<1> HIDE DEF f
<1>5. Fits(f)
  BY <1>2, <1>4 DEF Fits, SetOps, Byte
<1>6. SettingIn(f) = "language" /\ ValueIn(f) = n
  BY <1>4 DEF SettingIn, ValueIn
<1>7. QED
  BY <1>1, <1>5, <1>6 DEF IsReadBack

LEMMA EnableFrame ==
  ASSUME NEW f, NEW a \in {2, 4}, NEW c \in {0, 6}, f = Frame(\hC4, <<a, 0, c, \h98>>)
  PROVE  Fits(f) /\ f[1] = \hC4 /\ f[2] = a /\ ValueIn(f) = 1
<1>1. f = <<\hC4, a, 0, c, \h98>>
  BY FrameOfFour
<1>2. DOMAIN f = 1 .. 5 /\ f[1] = \hC4 /\ f[2] = a /\ f[3] = 0 /\ f[4] = c /\ f[5] = \h98
  BY <1>1
<1>3. Fits(f)
  <2>1. \hC4 \in Byte /\ a \in Byte /\ 0 \in Byte /\ c \in Byte /\ \h98 \in Byte
    BY DEF Byte
  <2>2. \A i \in DOMAIN f : f[i] \in Byte
    BY <1>2, <2>1
  <2>3. QED
    BY <1>2, <2>2 DEF Fits, SetOps
<1>4. ValueIn(f) = 1
  BY <1>2 DEF ValueIn
<1>5. QED
  BY <1>2, <1>3, <1>4

LEMMA EnableIsReadBack == IsReadBack("on-close on", 1) /\ IsReadBack("relock on", 1)
<1>1. IsReadBack("on-close on", 1)
  <2> DEFINE f == Build("on-close on", 1)
  <2>1. f = Frame(\hC4, <<2, 0, 6, \h98>>)
    BY DEF Build, EnableOnCloseLocking
  <2> HIDE DEF f
  <2>2. Fits(f) /\ f[1] = \hC4 /\ f[2] = 2 /\ ValueIn(f) = 1
    BY <2>1, EnableFrame
  <2>3. SettingIn(f) = "on-close on"
    BY <2>2 DEF SettingIn
  <2>4. QED
    BY <2>2, <2>3 DEF IsReadBack, f
<1>2. IsReadBack("relock on", 1)
  <2> DEFINE f == Build("relock on", 1)
  <2>1. f = Frame(\hC4, <<4, 0, 0, \h98>>)
    BY DEF Build, EnableRelocking
  <2> HIDE DEF f
  <2>2. Fits(f) /\ f[1] = \hC4 /\ f[2] = 4 /\ ValueIn(f) = 1
    BY <2>1, EnableFrame
  <2>3. SettingIn(f) = "relock on"
    BY <2>2 DEF SettingIn
  <2>4. QED
    BY <2>2, <2>3 DEF IsReadBack, f
<1>3. QED
  BY <1>1, <1>2

LEMMA RequestIsReadBack ==
  ASSUME NEW j \in RequestJobs
  PROVE  j = Ask(j.setting, j.value) /\ IsReadBack(j.setting, j.value)
<1>1. ASSUME NEW s, NEW n, j = Ask(s, n), IsReadBack(s, n)
      PROVE  j = Ask(j.setting, j.value) /\ IsReadBack(j.setting, j.value)
  <2>1. j.setting = s /\ j.value = n
    BY <1>1 DEF Ask
  <2>2. QED
    BY <1>1, <2>1
<1>2. ASSUME NEW s \in NumberSettings, NEW n \in Numbers
      PROVE  IsReadBack(s, n)
  <2>1. n \in Int
    BY <1>2, LibraryConstantsOK DEF LibraryConstantsOK
  <2>2. /\ IsReadBack("open", n) /\ IsReadBack("close", n) /\ IsReadBack("verify fail", n)
        /\ IsReadBack("relock delay", n) /\ IsReadBack("on-close delay", n)
        /\ IsReadBack("alert volume", n) /\ IsReadBack("alert delay", n)
    BY <2>1, OperateIsReadBack, VerifyFailIsReadBack, DelayIsReadBack, VolumeIsReadBack,
       AlertDelayIsReadBack
  <2>3. QED
    BY <1>2, <2>2 DEF NumberSettings
<1>3. IsReadBack("alarm silent", 0) /\ IsReadBack("alarm silent", 1)
  <2>1. 0 \in {0, 1} /\ 1 \in {0, 1} /\ 0 \in Int /\ 1 \in Int
    OBVIOUS
  <2>2. QED
    BY <2>1, VolumeIsReadBack
<1>4. \A n \in {2, 9} : IsReadBack("language", n)
  BY LanguageIsReadBack
<1>5. \A s \in {"on-close on", "relock on"} : IsReadBack(s, 1)
  BY EnableIsReadBack
<1>6. CASE j \in NumberRequests
  <2>1. PICK s \in NumberSettings, n \in Numbers : j = Ask(s, n)
    BY <1>6 DEF NumberRequests
  <2>2. QED
    BY <1>1, <1>2, <2>1
<1>7. CASE j \in SwitchRequests
  BY <1>1, <1>5, <1>7 DEF SwitchRequests
<1>8. CASE j \in AlarmRequests
  BY <1>1, <1>3, <1>8 DEF AlarmRequests
<1>9. CASE j \in LanguageRequests
  BY <1>1, <1>4, <1>9 DEF LanguageRequests
<1>10. QED
  BY <1>6, <1>7, <1>8, <1>9 DEF RequestJobs

\* The opcodes of the reads are not those of the requests, but for two.
LEMMA ReadsDoNotSet ==
  ASSUME NEW op, IsRead(op), op \in SetOps
  PROVE  op \in {2, 3}
BY DEF IsRead, Marked, SetOps

LEMMA ReadFrameIs ==
  ASSUME NEW op
  PROVE  ReadQuery(op, <<0>>) = <<op, 0, \h15, \h8b, \h36, \h09>>
<1>1. <<0>> \o <<\h15, \h8b, \h36, \h09>> = <<0, \h15, \h8b, \h36, \h09>>
  BY Cat14
<1>2. Frame(op, <<0, \h15, \h8b, \h36, \h09>>) = <<op, 0, \h15, \h8b, \h36, \h09>>
  BY FrameOfFive
<1>3. ReadQuery(op, <<0>>) = Frame(op, <<0>> \o <<\h15, \h8b, \h36, \h09>>)
  BY DEF ReadQuery, ReadTrailer
<1>4. QED
  BY <1>1, <1>2, <1>3, Zenon

\* What the names stand for.
LEMMA NamesAre ==
  /\ NamedOperation("keepalive") = <<\h2f, \h01, \h2f>>
  /\ NamedOperation("snapshot") = <<\h33, \h4e, \h74, \h74, \h6a, \h20, \h1c, 0, 0, \h30, \h49>>
  /\ NamedOperation("lock") = OperateFrame(FALSE, 1)
  /\ NamedOperation("unlock") = OperateFrame(TRUE, 1)
  /\ NamedOperation("legacy") = Refused
  /\ NamedOperation("74010100b917") = Refused
  /\ DOMAIN Names = {"keepalive", "lock", "unlock", "snapshot", "legacy"}
<1>1. DOMAIN Names = {"keepalive", "lock", "unlock", "snapshot", "legacy"}
  BY DEF Names
<1>2. NamedOperation("legacy") = Refused /\ NamedOperation("74010100b917") = Refused
  BY <1>1 DEF NamedOperation
<1>3. \A v \in {"keepalive", "lock", "unlock", "snapshot"} : NamedOperation(v) = Names[v]
  BY <1>1 DEF NamedOperation
<1>4. /\ Names["keepalive"] = <<\h2f, \h01, \h2f>>
      /\ Names["snapshot"] = <<\h33, \h4e, \h74, \h74, \h6a, \h20, \h1c, 0, 0, \h30, \h49>>
      /\ Names["lock"] = OperateFrame(FALSE, 1)
      /\ Names["unlock"] = OperateFrame(TRUE, 1)
  BY DEF Names
<1>5. QED
  BY <1>1, <1>2, <1>3, <1>4

-----------------------------------------------------------------------------
(* The one step.                                                           *)

ReadJobs  == { [kind |-> "read", op |-> op] : op \in Byte }
NamedJobs == { [kind |-> "named", name |-> name] : name \in DOMAIN Names \cup {"74010100b917"} }

Asked ==
  \/ job \in ScanJobs \/ job \in RequestJobs \/ job \in ReadJobs \/ job \in NamedJobs
  \/ job \in FrameJobs \/ job \in WindowJobs \/ job \in LanguageJobs

Concluded == [states   |-> {ReadAny(job.said.frame), ReadBattery(job.said.frame),
                            ReadPosition(job.said.frame), Status(job.said.frame)},
              settings |-> Settings(job.said.frame)]
Noticed   == [states   |-> {OnState(job.said.frame), OnEvent(job.said.frame)},
              settings |-> NoSetting]

\* The answer is that of the operators for a question of its kind.
Decided ==
  \/ answer = <<>>
  \/ job.kind = "scan" /\ answer = <<Choice(job.advs, job.mac, job.way)>>
  \/ job.kind = "request" /\ answer = <<Build(job.setting, job.value)>>
  \/ job.kind = "read" /\ answer = <<IF IsRead(job.op) THEN ReadQuery(job.op, <<0>>) ELSE Refused>>
  \/ job.kind = "named" /\ answer = <<NamedOperation(job.name)>>
  \/ job.kind = "reply" /\ answer = <<Concluded>>
  \/ job.kind = "push" /\ answer = <<Noticed>>
  \/ job.kind = "window" /\ answer = <<Observed([i \in DOMAIN job.said |-> job.said[i].frame])>>
  \/ job.kind = "language"
     /\ answer = <<Prepare(job.payload, job.language, job.served, job.verify)>>

LEMMA InitDecides == Init => Asked /\ Decided
BY DEF Init, Asked, Decided, ReadJobs, NamedJobs

LEMMA NextDecides == Asked /\ Decided /\ [Next]_vars => Asked' /\ Decided'
<1> SUFFICES ASSUME Asked, Decided, [Next]_vars
             PROVE  Asked' /\ Decided'
  OBVIOUS
<1>1. CASE UNCHANGED vars
  BY <1>1 DEF vars, Asked, Decided, Concluded, Noticed
<1>2. CASE Next
  <2>1. job' = job
    BY <1>2 DEF Next, ChooseDevice, BuildRequest, BuildRead, Name, Conclude, Notice, Observe,
                PrepareOta, Answer
  <2>2. Asked'
    BY <2>1 DEF Asked
  <2>3. CASE ChooseDevice
    <3>1. job.kind = "scan" /\ answer' = <<Choice(job.advs, job.mac, job.way)>>
      BY <2>3 DEF ChooseDevice, Answer
    <3>2. job'.kind = "scan" /\ answer' = <<Choice(job'.advs, job'.mac, job'.way)>>
      BY <2>1, <3>1, Zenon
    <3>3. QED
      BY <2>2, <3>2, Zenon DEF Decided
  <2>4. CASE BuildRequest
    <3>1. job.kind = "request" /\ answer' = <<Build(job.setting, job.value)>>
      BY <2>4 DEF BuildRequest, Answer
    <3>2. job'.kind = "request" /\ answer' = <<Build(job'.setting, job'.value)>>
      BY <2>1, <3>1, Zenon
    <3>3. QED
      BY <2>2, <3>2, Zenon DEF Decided
  <2>5. CASE BuildRead
    <3>1. job.kind = "read" /\ answer' = <<IF IsRead(job.op) THEN ReadQuery(job.op, <<0>>) ELSE Refused>>
      BY <2>5 DEF BuildRead, Answer
    <3>2. job'.kind = "read" /\ answer' = <<IF IsRead(job'.op) THEN ReadQuery(job'.op, <<0>>) ELSE Refused>>
      BY <2>1, <3>1, Zenon
    <3>3. QED
      BY <2>2, <3>2, Zenon DEF Decided
  <2>6. CASE Name
    <3>1. job.kind = "named" /\ answer' = <<NamedOperation(job.name)>>
      BY <2>6 DEF Name, Answer
    <3>2. job'.kind = "named" /\ answer' = <<NamedOperation(job'.name)>>
      BY <2>1, <3>1, Zenon
    <3>3. QED
      BY <2>2, <3>2, Zenon DEF Decided
  <2>7. CASE Conclude
    <3>1. job.kind = "reply" /\ answer' = <<Concluded>>
      BY <2>7 DEF Conclude, Answer, Concluded
    <3>2. job'.kind = "reply" /\ answer' = <<Concluded'>>
      BY <2>1, <3>1, Zenon DEF Concluded
    <3>3. QED
      BY <2>2, <3>2, Zenon DEF Decided
  <2>8. CASE Notice
    <3>1. job.kind = "push" /\ answer' = <<Noticed>>
      BY <2>8 DEF Notice, Answer, Noticed
    <3>2. job'.kind = "push" /\ answer' = <<Noticed'>>
      BY <2>1, <3>1, Zenon DEF Noticed
    <3>3. QED
      BY <2>2, <3>2, Zenon DEF Decided
  <2>9. CASE Observe
    <3>1. job.kind = "window" /\ answer' = <<Observed([i \in DOMAIN job.said |-> job.said[i].frame])>>
      BY <2>9 DEF Observe, Answer
    <3>2. job'.kind = "window" /\ answer' = <<Observed([i \in DOMAIN job'.said |-> job'.said[i].frame])>>
      BY <2>1, <3>1, Zenon
    <3>3. QED
      BY <2>2, <3>2, Zenon DEF Decided
  <2>10. CASE PrepareOta
    <3>1. job.kind = "language" /\ answer' = <<Prepare(job.payload, job.language, job.served, job.verify)>>
      BY <2>10 DEF PrepareOta, Answer
    <3>2. job'.kind = "language" /\ answer' = <<Prepare(job'.payload, job'.language, job'.served, job'.verify)>>
      BY <2>1, <3>1, Zenon
    <3>3. QED
      BY <2>2, <3>2, Zenon DEF Decided
  <2>11. QED
    BY <1>2, <2>2, <2>3, <2>4, <2>5, <2>6, <2>7, <2>8, <2>9, <2>10 DEF Next
<1>3. QED
  BY <1>1, <1>2

LEMMA Inductive == Spec => [](Asked /\ Decided)
<1>1. QED
  BY InitDecides, NextDecides, PTL DEF Spec

\* A question's kind tells its set.
LEMMA KindTells ==
  ASSUME Asked
  PROVE  /\ job.kind = "scan" => job \in ScanJobs
         /\ job.kind = "request" => job \in RequestJobs
         /\ job.kind = "read" => job \in ReadJobs
         /\ job.kind = "named" => job \in NamedJobs
         /\ job.kind \in {"reply", "push"} => job \in FrameJobs
         /\ job.kind = "window" => job \in WindowJobs
         /\ job.kind = "language" => job \in LanguageJobs
<1>1. job \in ScanJobs => job.kind = "scan"
  BY DEF ScanJobs
<1>2. job \in RequestJobs => job.kind = "request"
  BY RequestIsReadBack DEF Ask
<1>3. job \in ReadJobs => job.kind = "read"
  BY DEF ReadJobs
<1>4. job \in NamedJobs => job.kind = "named"
  BY DEF NamedJobs
<1>5. job \in FrameJobs => job.kind \in {"reply", "push"}
  BY DEF FrameJobs
<1>6. job \in WindowJobs => job.kind = "window"
  BY DEF WindowJobs
<1>7. job \in LanguageJobs => job.kind = "language"
  BY DEF LanguageJobs
<1>8. QED
  BY <1>1, <1>2, <1>3, <1>4, <1>5, <1>6, <1>7 DEF Asked

\* What is answered is what the operators of its kind say.
LEMMA AnswerTells ==
  ASSUME Decided
  PROVE  /\ Answered("scan") => Got1 = Choice(job.advs, job.mac, job.way)
         /\ Answered("request") => Got1 = Build(job.setting, job.value)
         /\ Answered("read") => Got1 = IF IsRead(job.op) THEN ReadQuery(job.op, <<0>>) ELSE Refused
         /\ Answered("named") => Got1 = NamedOperation(job.name)
         /\ Answered("reply") => Got1 = Concluded
         /\ Answered("push") => Got1 = Noticed
         /\ Answered("window") => Got1 = Observed([i \in DOMAIN job.said |-> job.said[i].frame])
         /\ Answered("language") =>
              Got1 = Prepare(job.payload, job.language, job.served, job.verify)
BY DEF Decided, Answered, Got1
-----------------------------------------------------------------------------
(* Requests.                                                               *)

LEMMA SameFrameSameRequest ==
  ASSUME NEW j \in RequestJobs, NEW k \in RequestJobs,
         Build(j.setting, j.value) # Refused,
         Build(j.setting, j.value) = Build(k.setting, k.value)
  PROVE  j = k
<1>1. j = Ask(j.setting, j.value) /\ k = Ask(k.setting, k.value)
  BY RequestIsReadBack
<1>2. IsReadBack(j.setting, j.value) /\ IsReadBack(k.setting, k.value)
  BY RequestIsReadBack
<1>3. j.setting = k.setting /\ j.value = k.value
  BY <1>2, Zenon DEF IsReadBack
<1>4. QED
  BY <1>1, <1>3, Zenon

LEMMA RequestFits ==
  ASSUME NEW j \in RequestJobs, Build(j.setting, j.value) # Refused
  PROVE  Fits(Build(j.setting, j.value))
BY RequestIsReadBack DEF IsReadBack

LEMMA ReadStaysApart ==
  ASSUME NEW op, IsRead(op), NEW j \in RequestJobs, Build(j.setting, j.value) # Refused
  PROVE  /\ ReadQuery(op, <<0>>) # Build(j.setting, j.value)
         /\ op = Build(j.setting, j.value)[1] => op \in {2, 3}
<1> DEFINE f == Build(j.setting, j.value)
           r == ReadQuery(op, <<0>>)
<1>1. Fits(f)
  BY RequestFits
<1>2. r = <<op, 0, \h15, \h8b, \h36, \h09>>
  BY ReadFrameIs
<1>3. Len(r) = 6 /\ r[1] = op
  BY <1>2
<1> HIDE DEF f, r
<1>4. op = f[1] => op \in {2, 3}
  BY <1>1, ReadsDoNotSet DEF Fits
<1>5. r # f
  <2>1. SUFFICES ASSUME r = f PROVE FALSE
    OBVIOUS
  <2>2. f[1] = op /\ Len(f) = 6
    BY <1>3, <2>1
  <2>3. f[1] \in {2, 3}
    BY <1>4, <2>2
  <2>4. Len(f) < 6
    BY <1>1, <2>3 DEF Fits
  <2>5. QED
    BY <2>2, <2>4
<1>6. QED
  BY <1>4, <1>5 DEF f, r

LEMMA OperateSays ==
  ASSUME NEW open \in BOOLEAN
  PROVE  LET f == OperateFrame(open, 1) IN
         /\ f # Refused
         /\ SettingIn(f) = IF open THEN "open" ELSE "close"
         /\ ValueIn(f) = 1
<1> DEFINE f == OperateFrame(open, 1)
           s == IF open THEN "open" ELSE "close"
<1>1. f = Build(s, 1)
  BY DEF Build
<1>2. IsReadBack(s, 1)
  BY OperateIsReadBack
<1>3. f # Refused
  <2>1. 1 \in Word
    BY DEF Word
  <2>2. f = Frame(\h74, <<IF open THEN 1 ELSE 0>> \o LittleEndian(1)
                          \o LittleEndian((OperateBase(open) + 1) % 65536))
    BY <2>1 DEF OperateFrame
  <2> DEFINE body == <<IF open THEN 1 ELSE 0>> \o LittleEndian(1)
                     \o LittleEndian((OperateBase(open) + 1) % 65536)
             U == Int
  <2>3. \h74 \in Int
    OBVIOUS
  <2>4. OperateBase(open) \in Int
    BY DEF OperateBase
  <2>5. LittleEndian(1) \in Seq(Int) /\ LittleEndian((OperateBase(open) + 1) % 65536) \in Seq(Int)
    BY <2>4 DEF LittleEndian
  <2>6. <<IF open THEN 1 ELSE 0>> \in Seq(Int) /\ <<\h74>> \in Seq(Int)
    OBVIOUS
  <2>7. body \in Seq(Int)
    BY <2>5, <2>6, ConcatProperties
  <2> HIDE DEF body
  <2>8. Len(<<\h74>> \o body) = 1 + Len(body) /\ Len(body) \in Nat
    BY <2>6, <2>7, ConcatProperties
  <2>9. Len(f) # 0
    BY <2>2, <2>8 DEF body, Frame
  <2>10. QED
    BY <2>9 DEF Refused
<1> HIDE DEF f, s
<1>4. SettingIn(f) = s /\ ValueIn(f) = 1
  BY <1>1, <1>2, <1>3 DEF IsReadBack
<1>5. QED
  BY <1>3, <1>4 DEF f, s

LEMMA NameStaysApart ==
  ASSUME NEW name \in DOMAIN Names \cup {"74010100b917"}
  PROVE  /\ \A j \in RequestJobs :
              Build(j.setting, j.value) # Refused
              /\ NamedOperation(name) = Build(j.setting, j.value) =>
                <<name, j.setting, j.value>> \in {<<"unlock", "open", 1>>, <<"lock", "close", 1>>}
         /\ NamedOperation(name) = Refused <=> name \in {"legacy", "74010100b917"}
<1> DEFINE f == NamedOperation(name)
<1>1. name \in {"keepalive", "lock", "unlock", "snapshot", "legacy", "74010100b917"}
  BY NamesAre
<1>2. SUFFICES
        /\ \A j \in RequestJobs :
             Build(j.setting, j.value) # Refused /\ f = Build(j.setting, j.value) =>
               \/ name = "unlock" /\ j.setting = "open" /\ j.value = 1
               \/ name = "lock" /\ j.setting = "close" /\ j.value = 1
        /\ f = Refused <=> name \in {"legacy", "74010100b917"}
  BY Zenon
<1>3. CASE name \in {"legacy", "74010100b917"}
  BY <1>3, NamesAre
<1>4. ASSUME f # Refused, name \notin {"legacy", "74010100b917"},
             f[1] \notin SetOps
      PROVE  /\ \A j \in RequestJobs :
                  Build(j.setting, j.value) # Refused => f # Build(j.setting, j.value)
             /\ f = Refused <=> name \in {"legacy", "74010100b917"}
  <2>1. ASSUME NEW j \in RequestJobs, Build(j.setting, j.value) # Refused
        PROVE  f # Build(j.setting, j.value)
    BY <1>4, <2>1, RequestFits DEF Fits
  <2>2. QED
    BY <1>4, <2>1
<1>5. CASE name = "keepalive"
  <2>1. f = <<\h2f, \h01, \h2f>>
    BY <1>5, NamesAre
  <2>2. Len(f) = 3 /\ f[1] = \h2f
    BY <2>1
  <2>3. f # Refused /\ f[1] \notin SetOps
    BY <2>2 DEF Refused, SetOps
  <2>4. QED
    BY <1>4, <1>5, <2>3
<1>6. CASE name = "snapshot"
  <2>1. f = <<\h33, \h4e, \h74, \h74, \h6a, \h20, \h1c, 0, 0, \h30, \h49>>
    BY <1>6, NamesAre
  <2>2. Len(f) = 11 /\ f[1] = \h33
    BY <2>1
  <2>3. f # Refused /\ f[1] \notin SetOps
    BY <2>2 DEF Refused, SetOps
  <2>4. QED
    BY <1>4, <1>6, <2>3
<1>7. ASSUME NEW open \in BOOLEAN, name = IF open THEN "unlock" ELSE "lock"
      PROVE  /\ \A j \in RequestJobs :
                  Build(j.setting, j.value) # Refused /\ f = Build(j.setting, j.value) =>
                    j.setting = (IF open THEN "open" ELSE "close") /\ j.value = 1
             /\ f # Refused
  <2>1. f = OperateFrame(open, 1)
    BY <1>7, NamesAre
  <2> HIDE DEF f
  <2>2. f # Refused /\ SettingIn(f) = (IF open THEN "open" ELSE "close") /\ ValueIn(f) = 1
    BY <2>1, OperateSays
  <2>3. ASSUME NEW j \in RequestJobs, Build(j.setting, j.value) # Refused, f = Build(j.setting, j.value)
        PROVE  j.setting = SettingIn(f) /\ j.value = ValueIn(f)
    BY <2>3, RequestIsReadBack DEF IsReadBack
  <2>4. QED
    BY <2>2, <2>3
<1>8. CASE name = "unlock"
  BY <1>7, <1>8
<1>9. CASE name = "lock"
  BY <1>7, <1>9
<1>10. QED
  BY <1>1, <1>3, <1>5, <1>6, <1>8, <1>9

\* The frames of two requests, of a request and a read, and of a request and a
\* name are never taken for one another, for any numbers a caller may give
\* (lock_ops.py, system_read_opcodes).
THEOREM RequestsNeverMeet == Spec => []RequestsStayApart
<1>1. Asked /\ Decided => RequestsStayApart
  <2> SUFFICES ASSUME Asked, Decided
               PROVE  RequestsStayApart
    OBVIOUS
  <2> DEFINE Requests == { j \in RequestJobs : Build(j.setting, j.value) # Refused }
  <2>1. ASSUME Answered("request")
        PROVE  /\ \A i \in DOMAIN Got1 : Got1[i] \in Byte
               /\ \A j \in Requests : Got1 = Build(j.setting, j.value) => j = job
    <3>1. job \in RequestJobs /\ Got1 = Build(job.setting, job.value)
      BY <2>1, KindTells, AnswerTells DEF Answered
    <3>2. \A j \in Requests : Got1 = Build(j.setting, j.value) => j = job
      BY <3>1, SameFrameSameRequest
    <3>3. CASE Got1 = Refused
      BY <3>2, <3>3 DEF Refused
    <3>4. CASE Got1 # Refused
      BY <3>1, <3>2, <3>4, RequestFits DEF Fits
    <3>5. QED
      BY <3>3, <3>4
  <2>2. ASSUME Answered("read"), Got1 # Refused
        PROVE  \A j \in Requests :
                 /\ Got1 # Build(j.setting, j.value)
                 /\ job.op = Build(j.setting, j.value)[1] => job.op \in {2, 3}
    <3>1. Got1 = IF IsRead(job.op) THEN ReadQuery(job.op, <<0>>) ELSE Refused
      BY <2>2, AnswerTells
    <3>2. IsRead(job.op) /\ Got1 = ReadQuery(job.op, <<0>>)
      BY <2>2, <3>1
    <3>3. QED
      BY <3>2, ReadStaysApart
  <2>3. ASSUME Answered("named")
        PROVE  /\ \A j \in Requests :
                    Got1 = Build(j.setting, j.value) =>
                      <<job.name, j.setting, j.value>> \in
                        {<<"unlock", "open", 1>>, <<"lock", "close", 1>>}
               /\ Got1 = Refused <=> job.name \in {"legacy", "74010100b917"}
    <3>1. job \in NamedJobs /\ Got1 = NamedOperation(job.name)
      BY <2>3, KindTells, AnswerTells DEF Answered
    <3>2. job.name \in DOMAIN Names \cup {"74010100b917"}
      BY <3>1 DEF NamedJobs
    <3>3. QED
      BY <3>1, <3>2, NameStaysApart
  <2> HIDE DEF Requests
  <2>4. QED
    BY <2>1, <2>2, <2>3, Zenon DEF RequestsStayApart, Requests
<1>2. QED
  BY <1>1, Inductive, PTL
-----------------------------------------------------------------------------
(* Replies and events.                                                     *)

\* A decoder reads nothing off a frame of another opcode.
LEMMA OtherOpcode ==
  ASSUME NEW raw
  PROVE  /\ raw[1] # \h07 => LockStatus(raw) = {}
         /\ raw[1] # \hDE => BatteryInfo(raw) = {}
         /\ raw[1] # \hE0 => DoorType(raw) = {}
         /\ raw[1] # \hE9 => AssistTurn(raw) = {}
         /\ raw[1] # \hE4 => PullSpring(raw) = {}
         /\ raw[1] # \h1A => AlertVolume(raw) = {}
         /\ raw[1] # \hC3 => LockVolume(raw) = {}
         /\ raw[1] # \h84 => AlarmVolume(raw) = {}
         /\ raw[1] # \h68 => Language(raw) = {}
BY DEF IsReply, LockStatus, BatteryInfo, DoorType, AssistTurn, PullSpring, AlertVolume,
       LockVolume, AlarmVolume, Language

SettingNames == {"door", "assist", "spring", "alert", "volume", "alarm", "language"}
SettingOpcodes == {\hE0, \hE9, \hE4, \h1A, \hC3, \h84, \h68}

LEMMA NoSettingIs ==
  DOMAIN NoSetting = SettingNames /\ \A s \in SettingNames : NoSetting[s] = {}
BY DEF NoSetting, SettingNames

LEMMA SettingsAre ==
  ASSUME NEW raw, NEW F, F = [s \in SettingNames |-> F[s]],
         F["door"] = DoorType(raw), F["assist"] = AssistTurn(raw), F["spring"] = PullSpring(raw),
         F["alert"] = AlertVolume(raw), F["volume"] = LockVolume(raw),
         F["alarm"] = AlarmVolume(raw), F["language"] = Language(raw)
  PROVE  Settings(raw) = F
<1> DEFINE G == Settings(raw)
<1>1. /\ DOMAIN G = SettingNames
      /\ G["door"] = DoorType(raw) /\ G["assist"] = AssistTurn(raw)
      /\ G["spring"] = PullSpring(raw) /\ G["alert"] = AlertVolume(raw)
      /\ G["volume"] = LockVolume(raw) /\ G["alarm"] = AlarmVolume(raw)
      /\ G["language"] = Language(raw)
  BY DEF Settings, SettingNames
<1>2. G = [s \in DOMAIN G |-> G[s]]
  BY DEF Settings
<1> HIDE DEF G
<1>3. \A s \in SettingNames : G[s] = F[s]
  BY <1>1 DEF SettingNames
<1>4. G = F
  BY <1>1, <1>2, <1>3
<1>5. QED
  BY <1>4 DEF G

\* A frame is told truly: nothing but what holds is read off it, and all that does.
IsTrue(said) ==
  /\ LockStatus(said.frame) \subseteq said.locked /\ BatteryInfo(said.frame) \subseteq said.battery
  /\ \A s \in SettingNames : Settings(said.frame)[s] \subseteq said.settings[s]
IsTold(said) ==
  /\ LockStatus(said.frame) = said.locked /\ BatteryInfo(said.frame) = said.battery
  /\ Settings(said.frame) = said.settings

LEMMA ToldIsTrue ==
  ASSUME NEW said, IsTold(said)
  PROVE  IsTrue(said)
BY DEF IsTold, IsTrue

\* A frame without a setting.
LEMMA NoSettingIn ==
  ASSUME NEW raw, raw[1] \notin SettingOpcodes
  PROVE  Settings(raw) = NoSetting
<1>1. NoSetting = [s \in SettingNames |-> NoSetting[s]]
  BY DEF NoSetting, SettingNames
<1>2. /\ NoSetting["door"] = {} /\ NoSetting["assist"] = {} /\ NoSetting["spring"] = {}
      /\ NoSetting["alert"] = {} /\ NoSetting["volume"] = {} /\ NoSetting["alarm"] = {}
      /\ NoSetting["language"] = {}
  BY NoSettingIs DEF SettingNames
<1>3. /\ DoorType(raw) = {} /\ AssistTurn(raw) = {} /\ PullSpring(raw) = {} /\ AlertVolume(raw) = {}
      /\ LockVolume(raw) = {} /\ AlarmVolume(raw) = {} /\ Language(raw) = {}
  BY OtherOpcode DEF SettingOpcodes
<1>4. QED
  BY <1>1, <1>2, <1>3, SettingsAre

LEMMA StatusIsTold ==
  ASSUME NEW said \in StatusReplies
  PROVE  IsTold(said)
<1>1. PICK b \in {\h04, \h06, \h0b}, n \in Noise :
        said = Says(StatusReply(b, n), {b = \h04}, {})
  BY DEF StatusReplies
<1>2. (b = \h04) = (Bit(b, 2) = 0)
  BY DEF Bit
<1> DEFINE raw == StatusReply(b, n)
<1>3. said.frame = raw /\ said.locked = {b = \h04} /\ said.battery = {} /\ said.settings = NoSetting
  BY <1>1 DEF Says
<1>4. Len(raw) = 11 /\ raw[1] = \h07 /\ raw[2] = 0 /\ raw[3] = b
  BY DEF StatusReply
<1> HIDE DEF raw
<1>5. LockStatus(raw) = {Bit(b, 2) = 0}
  BY <1>4 DEF LockStatus, IsReply
<1>6. BatteryInfo(raw) = {} /\ Settings(raw) = NoSetting
  BY <1>4, OtherOpcode, NoSettingIn DEF SettingOpcodes
<1>7. QED
  BY <1>2, <1>3, <1>5, <1>6, Zenon DEF IsTold

LEMMA BatteryIsTold ==
  ASSUME NEW said \in BatteryReplies
  PROVE  IsTold(said)
<1>1. PICK p \in Charges, n \in Noise :
        said = Says(BatteryReply(p, n), {}, {p})
  BY DEF BatteryReplies
<1> DEFINE raw == BatteryReply(p, n)
<1>2. said.frame = raw /\ said.locked = {} /\ said.battery = {p} /\ said.settings = NoSetting
  BY <1>1 DEF Says
<1>3. Len(raw) = 11 /\ raw[1] = \hDE /\ raw[2] = 0 /\ raw[7] = p
  BY DEF BatteryReply
<1> HIDE DEF raw
<1>4. p \in 0 .. 100
  BY LibraryConstantsOK DEF LibraryConstantsOK
<1>5. BatteryInfo(raw) = {p}
  <2>1. IsReply(raw, \hDE, 7)
    BY <1>3 DEF IsReply
  <2>2. {p} \cap 0 .. 100 = {p}
    BY <1>4
  <2>3. QED
    BY <1>3, <2>1, <2>2, Zenon DEF BatteryInfo
<1>6. LockStatus(raw) = {} /\ Settings(raw) = NoSetting
  BY <1>3, OtherOpcode, NoSettingIn DEF SettingOpcodes
<1>7. QED
  BY <1>2, <1>5, <1>6, Zenon DEF IsTold

\* The replies to the reads of a setting.
Only(setting, value, raw) ==
  /\ DoorType(raw)    = IF setting = "door" THEN {value} ELSE {}
  /\ AssistTurn(raw)  = IF setting = "assist" THEN {value} ELSE {}
  /\ PullSpring(raw)  = IF setting = "spring" THEN {value} ELSE {}
  /\ AlertVolume(raw) = IF setting = "alert" THEN {value} ELSE {}
  /\ LockVolume(raw)  = IF setting = "volume" THEN {value} ELSE {}
  /\ AlarmVolume(raw) = IF setting = "alarm" THEN {value} ELSE {}
  /\ Language(raw)    = IF setting = "language" THEN {value} ELSE {}

LEMMA SettingIsTold ==
  ASSUME NEW setting \in SettingNames, NEW value, NEW raw, NEW said,
         said = SaysOf(setting, value, raw), raw[1] \in SettingOpcodes, Only(setting, value, raw)
  PROVE  IsTold(said)
<1> DEFINE F == [NoSetting EXCEPT ![setting] = {value}]
<1>1. F = [s \in SettingNames |-> IF s = setting THEN {value} ELSE {}]
  BY NoSettingIs
<1>2. F = [s \in SettingNames |-> F[s]]
  BY <1>1
<1>3. \A s \in SettingNames : F[s] = IF s = setting THEN {value} ELSE {}
  BY <1>1
<1>4. said.frame = raw /\ said.locked = {} /\ said.battery = {} /\ said.settings = F
  BY DEF SaysOf
<1> HIDE DEF F
<1>5. /\ F["door"] = DoorType(raw) /\ F["assist"] = AssistTurn(raw) /\ F["spring"] = PullSpring(raw)
      /\ F["alert"] = AlertVolume(raw) /\ F["volume"] = LockVolume(raw)
      /\ F["alarm"] = AlarmVolume(raw) /\ F["language"] = Language(raw)
  BY <1>3 DEF SettingNames, Only
<1>6. Settings(raw) = F
  BY <1>2, <1>5, SettingsAre
<1>7. LockStatus(raw) = {} /\ BatteryInfo(raw) = {}
  BY OtherOpcode DEF SettingOpcodes
<1>8. QED
  BY <1>4, <1>6, <1>7, Zenon DEF IsTold
LEMMA SettingsAreTold ==
  ASSUME NEW said \in SettingReplies
  PROVE  IsTold(said) /\ said.frame[1] \in SettingOpcodes
<1>1. PICK v \in Levels, n \in Noise : said \in SettingReply(v, n)
  BY DEF SettingReplies
<1>2. CASE said = SaysOf("door", v, <<\hE0, 0, v, n>>)
  <2> DEFINE raw == <<\hE0, 0, v, n>>
             x == v
  <2>1. Len(raw) = 4 /\ raw[1] = \hE0 /\ raw[2] = 0 /\ raw[3] = v
    OBVIOUS
  <2>2. said = SaysOf("door", x, raw)
    BY <1>2
  <2> HIDE DEF raw
  <2>3. IsReply(raw, \hE0, 3)
    BY <2>1 DEF IsReply
  <2>4. DoorType(raw) = {x}
    BY <2>1, <2>3, Zenon DEF DoorType
  <2> HIDE DEF x
  <2>5. /\ AssistTurn(raw) = {} /\ PullSpring(raw) = {} /\ AlertVolume(raw) = {}
       /\ LockVolume(raw) = {} /\ AlarmVolume(raw) = {} /\ Language(raw) = {}
    BY <2>1, OtherOpcode
  <2>6. "door" \in SettingNames /\ Only("door", x, raw)
    BY <2>4, <2>5 DEF Only, SettingNames
  <2>7. raw[1] \in SettingOpcodes
    BY <2>1 DEF SettingOpcodes
  <2>8. said.frame = raw
    BY <2>2 DEF SaysOf
  <2>9. QED
    BY <2>2, <2>6, <2>7, <2>8, SettingIsTold
<1>3. CASE said = SaysOf("assist", v # 0, <<\hE9, 0, v, n>>)
  <2> DEFINE raw == <<\hE9, 0, v, n>>
             x == v # 0
  <2>1. Len(raw) = 4 /\ raw[1] = \hE9 /\ raw[2] = 0 /\ raw[3] = v
    OBVIOUS
  <2>2. said = SaysOf("assist", x, raw)
    BY <1>3
  <2> HIDE DEF raw
  <2>3. IsReply(raw, \hE9, 3)
    BY <2>1 DEF IsReply
  <2>4. AssistTurn(raw) = {x}
    BY <2>1, <2>3, Zenon DEF AssistTurn
  <2> HIDE DEF x
  <2>5. /\ DoorType(raw) = {} /\ PullSpring(raw) = {} /\ AlertVolume(raw) = {}
       /\ LockVolume(raw) = {} /\ AlarmVolume(raw) = {} /\ Language(raw) = {}
    BY <2>1, OtherOpcode
  <2>6. "assist" \in SettingNames /\ Only("assist", x, raw)
    BY <2>4, <2>5 DEF Only, SettingNames
  <2>7. raw[1] \in SettingOpcodes
    BY <2>1 DEF SettingOpcodes
  <2>8. said.frame = raw
    BY <2>2 DEF SaysOf
  <2>9. QED
    BY <2>2, <2>6, <2>7, <2>8, SettingIsTold
<1>4. CASE said = SaysOf("spring", <<v # 0, n>>, <<\hE4, 0, v, n, 0>>)
  <2> DEFINE raw == <<\hE4, 0, v, n, 0>>
             x == <<v # 0, n>>
  <2>1. Len(raw) = 5 /\ raw[1] = \hE4 /\ raw[2] = 0 /\ raw[3] = v /\ raw[4] = n
    OBVIOUS
  <2>2. said = SaysOf("spring", x, raw)
    BY <1>4
  <2> HIDE DEF raw
  <2>3. IsReply(raw, \hE4, 4)
    BY <2>1 DEF IsReply
  <2>4. PullSpring(raw) = {x}
    BY <2>1, <2>3, Zenon DEF PullSpring
  <2> HIDE DEF x
  <2>5. /\ DoorType(raw) = {} /\ AssistTurn(raw) = {} /\ AlertVolume(raw) = {}
       /\ LockVolume(raw) = {} /\ AlarmVolume(raw) = {} /\ Language(raw) = {}
    BY <2>1, OtherOpcode
  <2>6. "spring" \in SettingNames /\ Only("spring", x, raw)
    BY <2>4, <2>5 DEF Only, SettingNames
  <2>7. raw[1] \in SettingOpcodes
    BY <2>1 DEF SettingOpcodes
  <2>8. said.frame = raw
    BY <2>2 DEF SaysOf
  <2>9. QED
    BY <2>2, <2>6, <2>7, <2>8, SettingIsTold
<1>5. CASE said = SaysOf("alert", v, <<\h1A, 0, n, 1, v, \h0a, 1, 1, n, n>>)
  <2> DEFINE raw == <<\h1A, 0, n, 1, v, \h0a, 1, 1, n, n>>
             x == v
  <2>1. Len(raw) = 10 /\ raw[1] = \h1A /\ raw[2] = 0 /\ raw[5] = v
    OBVIOUS
  <2>2. said = SaysOf("alert", x, raw)
    BY <1>5
  <2> HIDE DEF raw
  <2>3. IsReply(raw, \h1A, 5)
    BY <2>1 DEF IsReply
  <2>4. AlertVolume(raw) = {x}
    BY <2>1, <2>3, Zenon DEF AlertVolume
  <2> HIDE DEF x
  <2>5. /\ DoorType(raw) = {} /\ AssistTurn(raw) = {} /\ PullSpring(raw) = {}
       /\ LockVolume(raw) = {} /\ AlarmVolume(raw) = {} /\ Language(raw) = {}
    BY <2>1, OtherOpcode
  <2>6. "alert" \in SettingNames /\ Only("alert", x, raw)
    BY <2>4, <2>5 DEF Only, SettingNames
  <2>7. raw[1] \in SettingOpcodes
    BY <2>1 DEF SettingOpcodes
  <2>8. said.frame = raw
    BY <2>2 DEF SaysOf
  <2>9. QED
    BY <2>2, <2>6, <2>7, <2>8, SettingIsTold
<1>6. CASE said = SaysOf("volume", v, <<\hC3, 0, v, 4, n, n>>)
  <2> DEFINE raw == <<\hC3, 0, v, 4, n, n>>
             x == v
  <2>1. Len(raw) = 6 /\ raw[1] = \hC3 /\ raw[2] = 0 /\ raw[3] = v
    OBVIOUS
  <2>2. said = SaysOf("volume", x, raw)
    BY <1>6
  <2> HIDE DEF raw
  <2>3. IsReply(raw, \hC3, 3)
    BY <2>1 DEF IsReply
  <2>4. LockVolume(raw) = {x}
    BY <2>1, <2>3, Zenon DEF LockVolume
  <2> HIDE DEF x
  <2>5. /\ DoorType(raw) = {} /\ AssistTurn(raw) = {} /\ PullSpring(raw) = {}
       /\ AlertVolume(raw) = {} /\ AlarmVolume(raw) = {} /\ Language(raw) = {}
    BY <2>1, OtherOpcode
  <2>6. "volume" \in SettingNames /\ Only("volume", x, raw)
    BY <2>4, <2>5 DEF Only, SettingNames
  <2>7. raw[1] \in SettingOpcodes
    BY <2>1 DEF SettingOpcodes
  <2>8. said.frame = raw
    BY <2>2 DEF SaysOf
  <2>9. QED
    BY <2>2, <2>6, <2>7, <2>8, SettingIsTold
<1>7. CASE said = SaysOf("alarm", <<2, 0, v>>, <<\h84, 0, 2, 0, v, n, n>>)
  <2> DEFINE raw == <<\h84, 0, 2, 0, v, n, n>>
             x == <<2, 0, v>>
  <2>1. Len(raw) = 7 /\ raw[1] = \h84 /\ raw[2] = 0 /\ raw[3] = 2 /\ raw[4] = 0 /\ raw[5] = v
    OBVIOUS
  <2>2. SubSeq(raw, 3, Len(raw) - 2) = <<2, 0, v>>
    <3>1. raw \in Seq({\h84, 0, 2, v, n}) /\ <<2, 0, v>> \in Seq({\h84, 0, 2, v, n})
      OBVIOUS
    <3>2. Len(raw) - 2 = 5
      BY <2>1
    <3> DEFINE u == SubSeq(raw, 3, 5)
    <3> HIDE DEF raw
    <3>3. /\ u \in Seq({\h84, 0, 2, v, n}) /\ Len(u) = 3
          /\ u[1] = raw[3] /\ u[2] = raw[4] /\ u[3] = raw[5]
      BY <2>1, <3>1, SubSeqProperties
    <3> HIDE DEF u
    <3>4. u = <<2, 0, v>>
      BY <2>1, <3>1, <3>3, SeqEqual
    <3>5. QED
      BY <3>2, <3>4 DEF u
  <2>3. said = SaysOf("alarm", x, raw)
    BY <1>7
  <2> HIDE DEF raw
  <2>4. IsReply(raw, \h84, 5)
    BY <2>1 DEF IsReply
  <2>5. AlarmVolume(raw) = {x}
    BY <2>1, <2>2, <2>4, Zenon DEF AlarmVolume
  <2> HIDE DEF x
  <2>6. /\ DoorType(raw) = {} /\ AssistTurn(raw) = {} /\ PullSpring(raw) = {}
       /\ AlertVolume(raw) = {} /\ LockVolume(raw) = {} /\ Language(raw) = {}
    BY <2>1, OtherOpcode
  <2>7. "alarm" \in SettingNames /\ Only("alarm", x, raw)
    BY <2>5, <2>6 DEF Only, SettingNames
  <2>8. raw[1] \in SettingOpcodes
    BY <2>1 DEF SettingOpcodes
  <2>9. said.frame = raw
    BY <2>3 DEF SaysOf
  <2>10. QED
    BY <2>3, <2>7, <2>8, <2>9, SettingIsTold
<1>8. CASE said = SaysOf("language", v, <<\h68, 0, 2, v, 0, 0, n, n>>)
  <2> DEFINE raw == <<\h68, 0, 2, v, 0, 0, n, n>>
             x == v
  <2>1. Len(raw) = 8 /\ raw[1] = \h68 /\ raw[2] = 0 /\ raw[4] = v
    OBVIOUS
  <2>2. said = SaysOf("language", x, raw)
    BY <1>8
  <2> HIDE DEF raw
  <2>3. IsReply(raw, \h68, 4)
    BY <2>1 DEF IsReply
  <2>4. Language(raw) = {x}
    BY <2>1, <2>3, Zenon DEF Language
  <2> HIDE DEF x
  <2>5. /\ DoorType(raw) = {} /\ AssistTurn(raw) = {} /\ PullSpring(raw) = {}
       /\ AlertVolume(raw) = {} /\ LockVolume(raw) = {} /\ AlarmVolume(raw) = {}
    BY <2>1, OtherOpcode
  <2>6. "language" \in SettingNames /\ Only("language", x, raw)
    BY <2>4, <2>5 DEF Only, SettingNames
  <2>7. raw[1] \in SettingOpcodes
    BY <2>1 DEF SettingOpcodes
  <2>8. said.frame = raw
    BY <2>2 DEF SaysOf
  <2>9. QED
    BY <2>2, <2>6, <2>7, <2>8, SettingIsTold
<1>9. QED
  BY <1>1, <1>2, <1>3, <1>4, <1>5, <1>6, <1>7, <1>8, Zenon DEF SettingReply

LEMMA OthersAreTold ==
  ASSUME NEW said \in OtherReplies
  PROVE  IsTold(said)
<1>1. PICK op \in (ReadOpcodes \ {\h07, \hDE, \hE0, \hE9, \hE4, \h1A, \hC3, \h84, \h68})
                 \cup {\h2F, \h74}, n \in Noise :
        said = Says(<<op, 0, n, n, n, n>>, {}, {})
  BY DEF OtherReplies
<1>2. op \notin SettingOpcodes /\ op # \h07 /\ op # \hDE
  BY <1>1 DEF SettingOpcodes
<1> DEFINE raw == <<op, 0, n, n, n, n>>
<1>3. raw[1] = op
  OBVIOUS
<1>4. said.frame = raw /\ said.locked = {} /\ said.battery = {} /\ said.settings = NoSetting
  BY <1>1 DEF Says
<1> HIDE DEF raw
<1>5. LockStatus(raw) = {} /\ BatteryInfo(raw) = {} /\ Settings(raw) = NoSetting
  BY <1>2, <1>3, OtherOpcode, NoSettingIn
<1>6. QED
  BY <1>4, <1>5, Zenon DEF IsTold

\* What decode_event makes of a frame.
LEMMA EventIs ==
  ASSUME NEW raw, Len(raw) \in Nat
  PROVE  /\ raw[1] = ReportLocked /\ Len(raw) >= 6 =>
              Event(raw).locked = {TRUE} /\ Event(raw).battery = {}
         /\ raw[1] = ReportUnlocked /\ Len(raw) >= 6 =>
              Event(raw).locked = {FALSE} /\ Event(raw).battery = {}
         /\ raw[1] = \hDE /\ Len(raw) >= 6 =>
              Event(raw).locked = {} /\ Event(raw).battery = PushedCharge(raw)
         /\ raw[1] \notin {ReportLocked, ReportUnlocked, \hDE} \/ Len(raw) < 6 =>
              Event(raw).locked = {} /\ Event(raw).battery = {}
<1>1. \hDE # ReportLocked /\ \hDE # ReportUnlocked /\ ReportLocked # ReportUnlocked
      /\ ReportStatus \notin {ReportLocked, ReportUnlocked, \hDE}
  BY DEF ReportLocked, ReportUnlocked, ReportStatus
<1>2. Nothing.locked = {} /\ Nothing.battery = {}
  BY DEF Nothing
<1>3. ASSUME Len(raw) < 6
      PROVE  Event(raw).locked = {} /\ Event(raw).battery = {}
  BY <1>2, <1>3 DEF Event
<1>4. ASSUME Len(raw) >= 6, raw[1] = ReportLocked
      PROVE  Event(raw).locked = {TRUE} /\ Event(raw).battery = {}
  <2>1. Event(raw) = [Nothing EXCEPT !.kind = "locked", !.locked = {TRUE},
                                     !.source = {raw[2]}, !.at = Timestamp(raw)]
    BY <1>1, <1>4 DEF Event
  <2>2. QED
    BY <2>1 DEF Nothing
<1>5. ASSUME Len(raw) >= 6, raw[1] = ReportUnlocked
      PROVE  Event(raw).locked = {FALSE} /\ Event(raw).battery = {}
  <2>1. Event(raw) = [Nothing EXCEPT !.kind = "unlocked", !.locked = {FALSE},
                                     !.at = Timestamp(raw)]
    BY <1>1, <1>5 DEF Event
  <2>2. QED
    BY <2>1 DEF Nothing
<1>6. ASSUME Len(raw) >= 6, raw[1] \notin {ReportLocked, ReportUnlocked},
             raw[1] # \hDE \/ PushedCharge(raw) = {}
      PROVE  Event(raw).locked = {} /\ Event(raw).battery = {}
  <2>1. \/ Event(raw) = [Nothing EXCEPT !.kind = "status", !.at = Timestamp(raw)]
        \/ Event(raw) = [Nothing EXCEPT !.kind = "unknown"]
    <3>1. CASE raw[1] = ReportStatus
      BY <1>1, <1>6, <3>1 DEF Event
    <3>2. CASE raw[1] # ReportStatus
      BY <1>1, <1>6, <3>2 DEF Event
    <3>3. QED
      BY <3>1, <3>2
  <2>2. QED
    BY <2>1 DEF Nothing
<1>7. ASSUME Len(raw) >= 6, raw[1] = \hDE, PushedCharge(raw) # {}
      PROVE  Event(raw).locked = {} /\ Event(raw).battery = PushedCharge(raw)
  <2>1. Event(raw) = [Nothing EXCEPT !.kind = "battery", !.battery = PushedCharge(raw)]
    BY <1>1, <1>7 DEF Event
  <2>2. QED
    BY <2>1 DEF Nothing
<1>8. ASSUME Len(raw) >= 6, raw[1] = \hDE
      PROVE  Event(raw).locked = {} /\ Event(raw).battery = PushedCharge(raw)
  <2>1. CASE PushedCharge(raw) = {}
    BY <1>1, <1>6, <1>8, <2>1
  <2>2. CASE PushedCharge(raw) # {}
    BY <1>7, <1>8, <2>2
  <2>3. QED
    BY <2>1, <2>2
<1>9. Len(raw) >= 6 \/ Len(raw) < 6
  OBVIOUS
<1>10. QED
  BY <1>3, <1>4, <1>5, <1>6, <1>8, <1>9

\* A push is told truly by the decoders of the events.
IsHeard(said) ==
  /\ StateReport(said.frame) \subseteq said.locked
  /\ Event(said.frame).locked = said.locked /\ Event(said.frame).battery = said.battery

LEMMA PositionPushIs ==
  ASSUME NEW noise, NEW said \in PositionPushes(noise)
  PROVE  /\ IsTrue(said) /\ IsHeard(said)
         /\ StateReport(said.frame) = said.locked /\ said.locked # {}
<1>1. PICK op \in {ReportLocked, ReportUnlocked}, n \in noise :
        said = Says(PositionPush(op, n), {op = ReportLocked}, {})
  BY DEF PositionPushes
<1> DEFINE raw == PositionPush(op, n)
<1>2. /\ said.frame = raw /\ said.locked = {op = ReportLocked} /\ said.battery = {}
      /\ said.settings = NoSetting
  BY <1>1 DEF Says
<1>3. Len(raw) = 12 /\ raw[1] = op
  BY DEF PositionPush
<1> HIDE DEF raw
<1>4. op \notin SettingOpcodes /\ op # \h07 /\ op # \hDE /\ ReportLocked # ReportUnlocked
  BY DEF SettingOpcodes, ReportLocked, ReportUnlocked
<1>5. LockStatus(raw) = {} /\ BatteryInfo(raw) = {} /\ Settings(raw) = NoSetting
  BY <1>3, <1>4, OtherOpcode, NoSettingIn
<1>6. IsTrue(said)
  BY <1>2, <1>5 DEF IsTrue
<1>7. Len(raw) \in Nat /\ Len(raw) >= 6 /\ raw[1] = op
  BY <1>3
<1>8. CASE op = ReportLocked
  <2>1. said.locked = {TRUE}
    BY <1>2, <1>8
  <2>2. StateReport(raw) = {TRUE}
    BY <1>3, <1>4, <1>8 DEF StateReport
  <2>3. Event(raw).locked = {TRUE} /\ Event(raw).battery = {}
    BY <1>8, <1>7, EventIs, Zenon
  <2>4. QED
    BY <1>2, <1>6, <2>1, <2>2, <2>3 DEF IsHeard
<1>9. CASE op = ReportUnlocked
  <2>1. said.locked = {FALSE}
    BY <1>2, <1>4, <1>9
  <2>2. StateReport(raw) = {FALSE}
    BY <1>3, <1>4, <1>9 DEF StateReport
  <2>3. Event(raw).locked = {FALSE} /\ Event(raw).battery = {}
    BY <1>9, <1>7, EventIs, Zenon
  <2>4. QED
    BY <1>2, <1>6, <2>1, <2>2, <2>3 DEF IsHeard
<1>10. QED
  BY <1>8, <1>9

LEMMA NoEvent ==
  ASSUME NEW raw, Len(raw) \in Nat, raw[1] \notin {ReportLocked, ReportUnlocked, \hDE}
  PROVE  Event(raw).locked = {} /\ Event(raw).battery = {}
BY EventIs, Zenon

LEMMA NoReport ==
  ASSUME NEW raw, raw[1] \notin {ReportLocked, ReportUnlocked}
  PROVE  StateReport(raw) = {}
BY DEF StateReport

LEMMA BatteryPushIs ==
  ASSUME NEW noise, NEW said \in BatteryPushes(noise)
  PROVE  /\ IsTrue(said) /\ IsHeard(said)
         /\ StateReport(said.frame) = {} /\ said.frame[1] = \hDE
<1>1. PICK p \in Charges, n \in noise : said = Says(BatteryPush(p, n), {}, {p})
  BY DEF BatteryPushes
<1> DEFINE raw == BatteryPush(p, n)
<1>2. /\ said.frame = raw /\ said.locked = {} /\ said.battery = {p}
      /\ said.settings = NoSetting
  BY <1>1 DEF Says
<1>3. Len(raw) = 10 /\ raw[1] = \hDE /\ raw[2] = 7 /\ raw[6] = p
  BY DEF BatteryPush
<1> HIDE DEF raw
<1>4. p \in 0 .. 100
  BY LibraryConstantsOK DEF LibraryConstantsOK
<1>5. PushedCharge(raw) = {p}
  <2>1. raw[Len(raw) - 4] = p
    BY <1>3
  <2>2. {p} \cap 0 .. 100 = {p}
    BY <1>4
  <2>3. QED
    BY <2>1, <2>2, Zenon DEF PushedCharge
<1>6. Event(raw).locked = {} /\ Event(raw).battery = {p}
  <2>1. Len(raw) \in Nat /\ Len(raw) >= 6 /\ raw[1] = \hDE
    BY <1>3
  <2>2. QED
    BY <1>5, <2>1, EventIs, Zenon
<1>7. ~IsReply(raw, \hDE, 7)
  BY <1>3 DEF IsReply
<1>8. LockStatus(raw) = {} /\ BatteryInfo(raw) = {} /\ Settings(raw) = NoSetting
  BY <1>3, <1>7, OtherOpcode, NoSettingIn DEF BatteryInfo, SettingOpcodes
<1>9. StateReport(raw) = {}
  BY <1>3, NoReport DEF ReportLocked, ReportUnlocked
<1>10. QED
  BY <1>2, <1>3, <1>6, <1>8, <1>9 DEF IsTrue, IsHeard

LEMMA OtherPushIs ==
  ASSUME NEW noise, NEW said \in OtherPushes(noise)
  PROVE  /\ IsTrue(said) /\ IsHeard(said)
         /\ StateReport(said.frame) = {} /\ said.frame[1] \in {ReportStatus, \h2F, \h74}
<1>1. ASSUME NEW raw, said = Says(raw, {}, {}), Len(raw) \in Nat,
             raw[1] \in {ReportStatus, \h2F, \h74}
      PROVE  /\ IsTrue(said) /\ IsHeard(said)
             /\ StateReport(said.frame) = {} /\ said.frame[1] \in {ReportStatus, \h2F, \h74}
  <2>1. /\ said.frame = raw /\ said.locked = {} /\ said.battery = {}
        /\ said.settings = NoSetting
    BY <1>1 DEF Says
  <2>2. /\ raw[1] \notin SettingOpcodes /\ raw[1] # \h07 /\ raw[1] # \hDE
        /\ raw[1] \notin {ReportLocked, ReportUnlocked, \hDE}
    BY <1>1 DEF SettingOpcodes, ReportLocked, ReportUnlocked, ReportStatus
  <2>3. LockStatus(raw) = {} /\ BatteryInfo(raw) = {} /\ Settings(raw) = NoSetting
    BY <2>2, OtherOpcode, NoSettingIn
  <2>4. Event(raw).locked = {} /\ Event(raw).battery = {}
    BY <1>1, <2>2, NoEvent, Zenon
  <2>5. StateReport(raw) = {}
    BY <2>2, NoReport
  <2>6. QED
    BY <1>1, <2>1, <2>3, <2>4, <2>5 DEF IsTrue, IsHeard
<1>2. CASE said \in { Says(StatusPush(n), {}, {}) : n \in noise }
  <2>1. PICK n \in noise : said = Says(StatusPush(n), {}, {})
    BY <1>2
  <2>2. Len(StatusPush(n)) \in Nat /\ StatusPush(n)[1] = ReportStatus
    BY DEF StatusPush
  <2>3. QED
    BY <1>1, <2>1, <2>2
<1>3. CASE said \in { Says(<<op, 0, n, n>>, {}, {}) : op \in {\h2F, \h74}, n \in noise }
  <2>1. PICK op \in {\h2F, \h74}, n \in noise : said = Says(<<op, 0, n, n>>, {}, {})
    BY <1>3
  <2>2. Len(<<op, 0, n, n>>) \in Nat /\ <<op, 0, n, n>>[1] = op
    OBVIOUS
  <2>3. QED
    BY <1>1, <2>1, <2>2
<1>4. QED
  BY <1>2, <1>3 DEF OtherPushes

LEMMA PushIs ==
  ASSUME NEW noise, NEW said \in Pushes(noise)
  PROVE  IsTrue(said) /\ IsHeard(said)
BY PositionPushIs, BatteryPushIs, OtherPushIs DEF Pushes

\* The replies that reach the listen window.
IsSafe(said) ==
  /\ StateReport(said.frame) \subseteq said.locked
  /\ Event(said.frame).locked \subseteq said.locked
  /\ Event(said.frame).battery \subseteq said.battery

LEMMA StatusReplyIsHeard ==
  ASSUME NEW said \in StatusReplies
  PROVE  IsSafe(said)
<1>1. PICK b \in {\h04, \h06, \h0b}, n \in Noise :
        said = Says(StatusReply(b, n), {b = \h04}, {})
  BY DEF StatusReplies
<1>2. said.frame = StatusReply(b, n)
  BY <1>1 DEF Says
<1>3. Len(said.frame) \in Nat /\ said.frame[1] = \h07
  BY <1>2 DEF StatusReply
<1>4. said.frame[1] \notin {ReportLocked, ReportUnlocked, \hDE}
  BY <1>3 DEF ReportLocked, ReportUnlocked
<1>5. Event(said.frame).locked = {} /\ Event(said.frame).battery = {}
  BY <1>3, <1>4, NoEvent, Zenon
<1>6. StateReport(said.frame) = {}
  BY <1>4, NoReport
<1>7. QED
  BY <1>5, <1>6 DEF IsSafe

LEMMA BatteryReplyIsHeard ==
  ASSUME NEW said \in BatteryReplies
  PROVE  IsSafe(said)
<1>1. PICK p \in Charges, n \in Noise : said = Says(BatteryReply(p, n), {}, {p})
  BY DEF BatteryReplies
<1> DEFINE raw == BatteryReply(p, n)
<1>2. said.frame = raw /\ said.battery = {p}
  BY <1>1 DEF Says
<1>3. Len(raw) = 11 /\ raw[1] = \hDE /\ raw[7] = p
  BY DEF BatteryReply
<1> HIDE DEF raw
<1>4. PushedCharge(raw) \subseteq {p}
  BY <1>3 DEF PushedCharge
<1>5. Event(raw).locked = {} /\ Event(raw).battery \subseteq {p}
  <2>1. Len(raw) \in Nat /\ Len(raw) >= 6 /\ raw[1] = \hDE
    BY <1>3
  <2>2. Event(raw).locked = {} /\ Event(raw).battery = PushedCharge(raw)
    BY <2>1, EventIs, Zenon
  <2>3. QED
    BY <1>4, <2>2
<1>6. StateReport(raw) = {}
  BY <1>3, NoReport DEF ReportLocked, ReportUnlocked
<1>7. QED
  BY <1>2, <1>5, <1>6 DEF IsSafe
\* What operate observes is what the last position event of its window says.
LEMMA BoundedSequence ==
  ASSUME NEW S, NEW n \in Nat, NEW s \in SeqOf(S, n)
  PROVE  s \in Seq(S) /\ Len(s) \in 0 .. n /\ DOMAIN s = 1 .. Len(s)
<1>1. PICK m \in 0 .. n : s \in [1 .. m -> S]
  BY DEF SeqOf
<1>2. m \in Nat
  BY <1>1
<1>3. s \in Seq(S)
  BY <1>1, <1>2
<1>4. Len(s) = m
  BY <1>1, <1>2, <1>3, LenProperties
<1>5. QED
  BY <1>1, <1>3, <1>4

LEMMA PushOfNoise ==
  ASSUME NEW said \in Pushes(WindowNoise)
  PROVE  /\ said \in PositionPushes(Noise) =>
              StateReport(said.frame) = said.locked /\ said.locked # {}
         /\ said \notin PositionPushes(Noise) => StateReport(said.frame) = {}
<1>1. said \in PositionPushes(Noise) =>
        StateReport(said.frame) = said.locked /\ said.locked # {}
  BY PositionPushIs
<1>2. CASE said \in PositionPushes(WindowNoise)
  <2>1. PICK op \in {ReportLocked, ReportUnlocked}, n \in WindowNoise :
          said = Says(PositionPush(op, n), {op = ReportLocked}, {})
    BY <1>2 DEF PositionPushes
  <2>2. n \in Noise
    BY LibraryConstantsOK DEF LibraryConstantsOK
  <2>3. said \in PositionPushes(Noise)
    BY <2>1, <2>2 DEF PositionPushes
  <2>4. QED
    BY <1>1, <2>3
<1>3. CASE said \in BatteryPushes(WindowNoise) \cup OtherPushes(WindowNoise)
  BY <1>1, <1>3, BatteryPushIs, OtherPushIs
<1>4. QED
  BY <1>2, <1>3, Zenon DEF Pushes

LEMMA WindowTells ==
  ASSUME NEW said \in Seq(Pushes(WindowNoise))
  PROVE  LET telling == { i \in DOMAIN said : said[i] \in PositionPushes(Noise) } IN
         Observed([i \in DOMAIN said |-> said[i].frame])
           = UNION { said[i].locked : i \in { n \in telling : \A m \in telling : m <= n } }
<1> DEFINE frames == [i \in DOMAIN said |-> said[i].frame]
           telling == { i \in DOMAIN said : said[i] \in PositionPushes(Noise) }
           last == { n \in telling : \A m \in telling : m <= n }
<1>1. Len(said) \in Nat /\ DOMAIN said = 1 .. Len(said)
  BY LenProperties
<1>2. \A i \in DOMAIN said : said[i] \in Pushes(WindowNoise)
  BY ElementOfSeq, <1>1
<1>3. \A i \in DOMAIN said : frames[i] = said[i].frame
  OBVIOUS
<1>4. DOMAIN frames = DOMAIN said
  OBVIOUS
<1>5. \A i \in telling : StateReport(frames[i]) = said[i].locked
  BY <1>2, <1>3, PushOfNoise
<1>6. { i \in DOMAIN frames : StateReport(frames[i]) # {} } = telling
  <2>1. \A i \in DOMAIN said : i \in telling <=> StateReport(said[i].frame) # {}
    BY <1>2, PushOfNoise
  <2> HIDE DEF telling, frames
  <2>2. telling \subseteq DOMAIN said
    BY DEF telling
  <2>3. QED
    BY <1>3, <1>4, <2>1, <2>2
<1>7. telling \subseteq 0 .. Len(said)
  BY <1>1
<1> HIDE DEF frames, telling
<1>8. Observed(frames) = IF telling = {} THEN {} ELSE StateReport(frames[Max(telling)])
  BY <1>6, Zenon DEF Observed
<1>9. CASE telling = {}
  BY <1>8, <1>9 DEF frames, telling
<1>10. CASE telling # {}
  <2>1. Max(telling) \in telling /\ \A y \in telling : y <= Max(telling)
    BY <1>1, <1>7, <1>10, GreatestNumber
  <2>2. \A y \in telling : y \in Int
    BY <1>7, <1>1
  <2>3. last = {Max(telling)}
    BY <2>1, <2>2
  <2>4. UNION { said[i].locked : i \in last } = said[Max(telling)].locked
    BY <2>3
  <2>5. Observed(frames) = said[Max(telling)].locked
    BY <1>5, <1>8, <1>10, <2>1
  <2> HIDE DEF last
  <2>6. Observed(frames) = UNION { said[i].locked : i \in last }
    BY <2>4, <2>5
  <2>7. QED
    BY <2>6 DEF frames, telling, last
<1>11. QED
  BY <1>9, <1>10

\* What the calls conclude of the lock is true of it, and what it tells reaches
\* the call it is for, for any noise, charges and levels in the frames, and any
\* window of pushes (lock_state.py, U200Client).
THEOREM EveryConclusionIsTrue == Spec => []ConclusionsAreTrue
<1>1. Asked /\ Decided => ConclusionsAreTrue
  <2> SUFFICES ASSUME Asked, Decided
               PROVE  ConclusionsAreTrue
    OBVIOUS
  <2>1. DOMAIN NoSetting = SettingNames
    BY NoSettingIs
  <2>2. ASSUME Answered("reply")
        PROVE  /\ \A c \in Got1.states :
                    c.locked \subseteq job.said.locked /\ c.battery \subseteq job.said.battery
               /\ \A s \in SettingNames : Got1.settings[s] \subseteq job.said.settings[s]
               /\ job.said \notin Pushes(Noise) =>
                    /\ State(job.said.locked, job.said.battery) \in Got1.states
                    /\ Got1.settings = job.said.settings
    <3> DEFINE said == job.said
    <3>1. job \in FrameJobs /\ job.kind = "reply" /\ Got1 = Concluded
      BY <2>2, KindTells, AnswerTells DEF Answered
    <3>2. said \in Pushes(Noise) \cup StatusReplies \cup BatteryReplies \cup SettingReplies
                   \cup OtherReplies
      BY <3>1 DEF FrameJobs
    <3>3. Got1.states = {ReadAny(said.frame), ReadBattery(said.frame), ReadPosition(said.frame),
                         Status(said.frame)}
      BY <3>1 DEF Concluded
    <3>4. Got1.settings = Settings(said.frame)
      BY <3>1 DEF Concluded
    <3> HIDE DEF said
    <3>5. IsTrue(said) /\ (said \notin Pushes(Noise) => IsTold(said))
      BY <3>2, PushIs, StatusIsTold, BatteryIsTold, SettingsAreTold, OthersAreTold, ToldIsTrue
    <3>6. ASSUME NEW c \in Got1.states
          PROVE  c.locked \subseteq said.locked /\ c.battery \subseteq said.battery
      BY <3>3, <3>5 DEF IsTrue, ReadAny, ReadBattery, ReadPosition, Status, State
    <3>7. \A s \in SettingNames : Got1.settings[s] \subseteq said.settings[s]
      BY <3>4, <3>5 DEF IsTrue
    <3>8. ASSUME said \notin Pushes(Noise)
          PROVE  /\ State(said.locked, said.battery) \in Got1.states
                 /\ Got1.settings = said.settings
      BY <3>3, <3>4, <3>5, <3>8 DEF IsTold, ReadAny
    <3>9. QED
      BY <3>6, <3>7, <3>8 DEF said
  <2>3. ASSUME Answered("push")
        PROVE  /\ \A c \in Got1.states :
                    c.locked \subseteq job.said.locked /\ c.battery \subseteq job.said.battery
               /\ \A s \in SettingNames : Got1.settings[s] \subseteq job.said.settings[s]
               /\ job.said \in Pushes(Noise) =>
                    State(job.said.locked, job.said.battery) \in Got1.states
    <3> DEFINE said == job.said
    <3>1. job \in FrameJobs /\ job.kind = "push" /\ Got1 = Noticed
      BY <2>3, KindTells, AnswerTells DEF Answered
    <3>2. said \in Pushes(Noise) \cup StatusReplies \cup BatteryReplies
      BY <3>1 DEF FrameJobs
    <3>3. Got1.states = {OnState(said.frame), OnEvent(said.frame)} /\ Got1.settings = NoSetting
      BY <3>1 DEF Noticed
    <3> HIDE DEF said
    <3>4. IsSafe(said) /\ (said \in Pushes(Noise) => IsHeard(said))
      BY <3>2, PushIs, StatusReplyIsHeard, BatteryReplyIsHeard DEF IsHeard, IsSafe
    <3>5. ASSUME NEW c \in Got1.states
          PROVE  c.locked \subseteq said.locked /\ c.battery \subseteq said.battery
      BY <3>3, <3>4 DEF IsSafe, OnState, OnEvent, State
    <3>6. \A s \in SettingNames : Got1.settings[s] \subseteq said.settings[s]
      BY <3>3, NoSettingIs
    <3>7. ASSUME said \in Pushes(Noise)
          PROVE  State(said.locked, said.battery) \in Got1.states
      BY <3>3, <3>4, <3>7 DEF IsHeard, OnEvent
    <3>8. QED
      BY <3>5, <3>6, <3>7 DEF said
  <2>4. ASSUME Answered("window")
        PROVE  LET telling == { i \in DOMAIN job.said : job.said[i] \in PositionPushes(Noise) } IN
               Got1 = UNION { job.said[i].locked :
                                i \in { n \in telling : \A m \in telling : m <= n } }
    <3>1. job \in WindowJobs
          /\ Got1 = Observed([i \in DOMAIN job.said |-> job.said[i].frame])
      BY <2>4, KindTells, AnswerTells DEF Answered
    <3>2. job.said \in SeqOf(Pushes(WindowNoise), MaxWindow)
      BY <3>1 DEF WindowJobs
    <3>3. job.said \in Seq(Pushes(WindowNoise))
      BY <3>2, BoundedSequence, LibraryConstantsOK DEF LibraryConstantsOK
    <3>4. QED
      BY <3>1, <3>3, WindowTells
  <2>5. QED
    BY <2>1, <2>2, <2>3, <2>4, Zenon DEF ConclusionsAreTrue
<1>2. QED
  BY <1>1, Inductive, PTL
-----------------------------------------------------------------------------
(* The scan.                                                               *)

\* The recursive function of the scan is one.
LEMMA FoundAfterIs ==
  ASSUME NEW advs, Len(advs) \in Nat, NEW mac
  PROVE  FoundAfter(advs, mac) =
           [n \in 0 .. Len(advs) |->
              IF n = 0 THEN <<>>
              ELSE IF n \in Heard(advs, mac) THEN Keep(FoundAfter(advs, mac)[n - 1], advs[n], mac)
                   ELSE FoundAfter(advs, mac)[n - 1]]
<1> DEFINE Next1(n, before) == IF n \in Heard(advs, mac) THEN Keep(before, advs[n], mac) ELSE before
           R(f, k) == f = [n \in 0 .. k |-> IF n = 0 THEN <<>> ELSE Next1(n, f[n - 1])]
           T == { k \in Nat : \E f : R(f, k) }
<1> HIDE DEF Next1
<1>1. 0 \in T
  <2>1. R([n \in 0 .. 0 |-> <<>>], 0)
    OBVIOUS
  <2>2. QED
    BY <2>1
<1>2. ASSUME NEW k \in Nat, k \in T
      PROVE  k + 1 \in T
  <2>1. PICK f : R(f, k)
    BY <1>2
  <2> DEFINE g == [n \in 0 .. k + 1 |-> IF n = k + 1 THEN Next1(k + 1, f[k]) ELSE f[n]]
  <2>2. R(g, k + 1)
    <3>1. SUFFICES ASSUME NEW n \in 0 .. k + 1
                   PROVE  g[n] = IF n = 0 THEN <<>> ELSE Next1(n, g[n - 1])
      OBVIOUS
    <3>2. CASE n = k + 1
      BY <3>2, g[n - 1] = f[k]
    <3>3. CASE n # k + 1
      BY <2>1, <3>3, n \in 0 .. k
    <3>4. QED
      BY <3>2, <3>3
  <2> HIDE DEF R, g
  <2>3. \E h : R(h, k + 1)
    BY <2>2
  <2>4. QED
    BY <2>3
<1>3. Nat \subseteq T
  BY <1>1, <1>2, AllNumbers
<1>4. \E f : R(f, Len(advs))
  BY <1>3
<1>5. QED
  BY <1>4 DEF FoundAfter, Next1

\* The advertisements that count among the first n: heard, and with a reason.
Counting(advs, mac, n) ==
  { i \in Heard(advs, mac) : i <= n /\ Reasons(advs[i], mac) # {} }

\* What has been found after n advertisements: one place for each address that
\* counts, and in it the last that counts of the address.
IsFound(advs, mac, n, found) ==
  /\ found \in Seq({ Candidate(advs[i], mac) : i \in DOMAIN advs })
  /\ \A p, q \in DOMAIN found : found[p].addr = found[q].addr => p = q
  /\ \A p \in DOMAIN found : \E i \in Counting(advs, mac, n) :
       /\ found[p] = Candidate(advs[i], mac)
       /\ \A j \in Counting(advs, mac, n) : advs[j].addr = advs[i].addr => j <= i
  /\ \A i \in Counting(advs, mac, n) : \E p \in DOMAIN found : found[p].addr = advs[i].addr

LEMMA CandidateAddress ==
  ASSUME NEW adv, NEW mac
  PROVE  Candidate(adv, mac).addr = adv.addr
BY DEF Candidate

LEMMA KeepKeeps ==
  ASSUME NEW S, NEW advs \in Seq(S), NEW mac, NEW n \in 1 .. Len(advs), NEW found,
         IsFound(advs, mac, n - 1, found)
  PROVE  IsFound(advs, mac, n,
                 IF n \in Heard(advs, mac) THEN Keep(found, advs[n], mac) ELSE found)
<1> DEFINE C == { Candidate(advs[i], mac) : i \in DOMAIN advs }
           before == Counting(advs, mac, n - 1)
           now == Counting(advs, mac, n)
           c == Candidate(advs[n], mac)
<1>1. DOMAIN advs = 1 .. Len(advs) /\ Len(advs) \in Nat /\ n \in Int
  BY LenProperties
<1>2. Heard(advs, mac) \subseteq 1 .. Len(advs)
  BY <1>1 DEF Heard
<1>3. before \subseteq 1 .. n - 1
  BY <1>2 DEF Counting
<1>4. CASE ~(n \in Heard(advs, mac) /\ Reasons(advs[n], mac) # {})
  <2>1. now = before
    <3>1. \A i \in Heard(advs, mac) : i <= n <=> i <= n - 1 \/ i = n
      BY <1>1, <1>2
    <3>2. QED
      BY <1>4, <3>1 DEF Counting
  <2>2. (IF n \in Heard(advs, mac) THEN Keep(found, advs[n], mac) ELSE found) = found
    BY <1>4 DEF Keep
  <2>3. QED
    BY <2>1, <2>2, Zenon DEF IsFound
<1>5. CASE n \in Heard(advs, mac) /\ Reasons(advs[n], mac) # {}
  <2>1. now = before \cup {n}
    <3>1. \A i \in Heard(advs, mac) : i <= n <=> i <= n - 1 \/ i = n
      BY <1>1, <1>2
    <3>2. QED
      BY <1>1, <1>5, <3>1 DEF Counting
  <2>2. c \in C /\ c.addr = advs[n].addr
    BY <1>1, CandidateAddress
  <2>3. \A j \in before : j < n
    BY <1>1, <1>3
  <2> DEFINE places == { i \in DOMAIN found : found[i].addr = advs[n].addr }
  <2>4. /\ found \in Seq(C)
        /\ \A p, q \in DOMAIN found : found[p].addr = found[q].addr => p = q
        /\ \A p \in DOMAIN found : \E i \in before :
             /\ found[p] = Candidate(advs[i], mac)
             /\ \A j \in before : advs[j].addr = advs[i].addr => j <= i
        /\ \A i \in before : \E p \in DOMAIN found : found[p].addr = advs[i].addr
    BY DEF IsFound
  <2>5. \A p \in DOMAIN found : found[p].addr = advs[n].addr <=> p \in places
    OBVIOUS
  <2>6. DOMAIN found = 1 .. Len(found) /\ Len(found) \in Nat
    BY <2>4, LenProperties
  <2>7. ASSUME NEW later, later \in Seq(C),
               \A p, q \in DOMAIN later : later[p].addr = later[q].addr => p = q,
               \A p \in DOMAIN later : \/ later[p] = c
                                       \/ /\ p \in DOMAIN found /\ later[p] = found[p]
                                          /\ found[p].addr # advs[n].addr,
               \E p \in DOMAIN later : later[p] = c,
               \A p \in DOMAIN found : \E q \in DOMAIN later : later[q].addr = found[p].addr
        PROVE  IsFound(advs, mac, n, later)
    <3>1. ASSUME NEW p \in DOMAIN later
          PROVE  \E i \in now : /\ later[p] = Candidate(advs[i], mac)
                                /\ \A j \in now : advs[j].addr = advs[i].addr => j <= i
      <4>1. CASE later[p] = c
        <5>1. \A j \in now : j <= n
          <6>1. \A j \in before : j <= n
            BY <1>1, <1>3
          <6>2. n <= n
            BY <1>1
          <6>3. QED
            BY <2>1, <6>1, <6>2
        <5>2. n \in now
          BY <2>1
        <5>3. QED
          BY <4>1, <5>1, <5>2
      <4>2. CASE p \in DOMAIN found /\ later[p] = found[p] /\ found[p].addr # advs[n].addr
        <5>1. PICK i \in before : /\ found[p] = Candidate(advs[i], mac)
                                  /\ \A j \in before : advs[j].addr = advs[i].addr => j <= i
          BY <2>4, <4>2
        <5>2. advs[i].addr # advs[n].addr
          BY <4>2, <5>1, CandidateAddress
        <5>3. QED
          BY <2>1, <4>2, <5>1, <5>2
      <4>3. QED
        BY <2>7, <3>1, <4>1, <4>2
    <3>2. ASSUME NEW i \in now
          PROVE  \E p \in DOMAIN later : later[p].addr = advs[i].addr
      <4>1. CASE i = n
        BY <2>2, <2>7, <4>1
      <4>2. CASE i \in before
        BY <2>4, <2>7, <4>2
      <4>3. QED
        BY <2>1, <3>2, <4>1, <4>2
    <3> HIDE DEF C, now, before, c
    <3>3. QED
      BY <2>7, <3>1, <3>2 DEF IsFound, C, now
  <2>8. CASE places = {}
    <3> DEFINE later == Append(found, c)
    <3>1. /\ later \in Seq(C) /\ Len(later) = Len(found) + 1
          /\ later[Len(found) + 1] = c
          /\ \A p \in 1 .. Len(found) : later[p] = found[p]
      BY <2>2, <2>4, AppendProperties
    <3>2. DOMAIN later = 1 .. Len(found) + 1
      BY <3>1, LenProperties
    <3>3. Keep(found, advs[n], mac) = later
      BY <1>5, <2>8, Zenon DEF Keep
    <3> HIDE DEF later, C, c
    <3>4. \A p \in DOMAIN later : p = Len(found) + 1 \/ p \in DOMAIN found
      BY <2>6, <3>2
    <3>5. Len(found) + 1 \in DOMAIN later /\ DOMAIN found \subseteq DOMAIN later
          /\ Len(found) + 1 \notin DOMAIN found
      BY <2>6, <3>2
    <3>6. \A p \in DOMAIN found : later[p] = found[p] /\ found[p].addr # advs[n].addr
      BY <2>5, <2>6, <2>8, <3>1
    <3>7. \A p, q \in DOMAIN later : later[p].addr = later[q].addr => p = q
      BY <2>2, <2>4, <3>1, <3>4, <3>6
    <3>8. IsFound(advs, mac, n, later)
      BY <2>7, <3>1, <3>4, <3>5, <3>6, <3>7
    <3>9. QED
      BY <1>5, <3>3, <3>8
  <2>9. CASE places # {}
    <3> DEFINE later == [i \in DOMAIN found |-> IF i \in places THEN c ELSE found[i]]
    <3>1. later \in Seq(C) /\ DOMAIN later = DOMAIN found
      <4>1. \A i \in DOMAIN found : later[i] \in C
        BY <2>2, <2>4, <2>6, ElementOfSeq
      <4>2. later \in [1 .. Len(found) -> C]
        BY <2>6, <4>1
      <4>3. QED
        BY <2>6, <4>2
    <3>2. Keep(found, advs[n], mac) = later
      BY <1>5, <2>9, Zenon DEF Keep
    <3>3. \A p \in DOMAIN found : p \in places => later[p] = c /\ found[p].addr = advs[n].addr
      OBVIOUS
    <3>4. \A p \in DOMAIN found : p \notin places =>
                                  later[p] = found[p] /\ found[p].addr # advs[n].addr
      OBVIOUS
    <3>5. PICK r \in places : TRUE
      BY <2>9
    <3>6. r \in DOMAIN found /\ later[r] = c
      OBVIOUS
    <3> HIDE DEF later, C, c, places
    <3>7. \A p \in DOMAIN found : later[p].addr = found[p].addr
      BY <2>2, <3>3, <3>4
    <3>8. \A p, q \in DOMAIN later : later[p].addr = later[q].addr => p = q
      BY <2>4, <3>1, <3>7
    <3>9. IsFound(advs, mac, n, later)
      BY <2>7, <3>1, <3>3, <3>4, <3>6, <3>7, <3>8
    <3>10. QED
      BY <1>5, <3>2, <3>9
  <2>10. QED
    BY <2>8, <2>9
<1>6. QED
  BY <1>4, <1>5

LEMMA FoundIsFound ==
  ASSUME NEW S, NEW advs \in Seq(S), NEW mac
  PROVE  IsFound(advs, mac, Len(advs), Found(advs, mac))
<1> DEFINE N == Len(advs)
           f == FoundAfter(advs, mac)
           T == { k \in Nat : k <= N => IsFound(advs, mac, k, f[k]) }
<1>1. N \in Nat /\ DOMAIN advs = 1 .. N
  BY LenProperties
<1>2. \A n \in 0 .. N : f[n] = IF n = 0 THEN <<>>
                               ELSE IF n \in Heard(advs, mac) THEN Keep(f[n - 1], advs[n], mac)
                                    ELSE f[n - 1]
  BY <1>1, FoundAfterIs
<1> HIDE DEF f, N
<1>3. 0 \in T
  <2>1. f[0] = <<>>
    BY <1>1, <1>2
  <2>2. Counting(advs, mac, 0) = {}
    BY <1>1 DEF Counting, Heard
  <2>3. <<>> \in Seq({ Candidate(advs[i], mac) : i \in DOMAIN advs }) /\ DOMAIN <<>> = {}
    OBVIOUS
  <2>4. IsFound(advs, mac, 0, <<>>)
    BY <2>2, <2>3, Zenon DEF IsFound
  <2>5. QED
    BY <2>1, <2>4
<1>4. ASSUME NEW k \in Nat, k \in T
      PROVE  k + 1 \in T
  <2>1. SUFFICES ASSUME k + 1 <= N
                 PROVE  IsFound(advs, mac, k + 1, f[k + 1])
    OBVIOUS
  <2>2. k + 1 \in 1 .. N /\ (k + 1) - 1 = k /\ k + 1 # 0 /\ k + 1 \in 0 .. N
    BY <1>1, <2>1
  <2>3. IsFound(advs, mac, k, f[k])
    BY <1>1, <1>4, <2>1
  <2>4. f[k + 1] = IF k + 1 \in Heard(advs, mac) THEN Keep(f[k], advs[k + 1], mac) ELSE f[k]
    BY <1>2, <2>2
  <2>5. IsFound(advs, mac, k + 1,
                IF k + 1 \in Heard(advs, mac) THEN Keep(f[k], advs[k + 1], mac) ELSE f[k])
    BY <2>2, <2>3, KeepKeeps DEF N
  <2>6. QED
    BY <2>4, <2>5
<1>5. N \in T
  BY <1>1, <1>3, <1>4, AllNumbers
<1>6. QED
  BY <1>1, <1>5 DEF Found, f, N
\* Of some places there is a best one, and BestOf gives it.
LEMMA BestExists ==
  ASSUME NEW N \in Nat, NEW f, NEW pool, pool \subseteq 1 .. N, pool # {},
         \A p \in pool : f[p].score \in Int /\ f[p].rssi \in Int
  PROVE  \E b \in pool : BestOf(f, pool) = f[b] /\ \A j \in pool : ~Better(f[j], f[b])
<1> DEFINE Best(P, b) == \A j \in P : ~Better(f[j], f[b])
           T == { k \in Nat : \A P \in SUBSET pool : P \subseteq 1 .. k /\ P # {} =>
                                \E b \in P : Best(P, b) }
<1>1. 0 \in T
  <2>1. 1 .. 0 = {}
    OBVIOUS
  <2>2. QED
    BY <2>1
<1>2. ASSUME NEW k \in Nat, k \in T
      PROVE  k + 1 \in T
  <2>1. SUFFICES ASSUME NEW P \in SUBSET pool, P \subseteq 1 .. k + 1, P # {}
                 PROVE  \E b \in P : Best(P, b)
    OBVIOUS
  <2> DEFINE Q == P \ {k + 1}
  <2>2. Q \in SUBSET pool /\ Q \subseteq 1 .. k
    BY <2>1
  <2>3. CASE Q = {}
    <3>1. P = {k + 1}
      BY <2>1, <2>3
    <3>2. ~Better(f[k + 1], f[k + 1])
      BY <2>1, <3>1 DEF Better
    <3>3. QED
      BY <3>1, <3>2
  <2>4. CASE Q # {}
    <3>1. PICK q \in Q : Best(Q, q)
      BY <1>2, <2>2, <2>4
    <3>2. CASE k + 1 \notin P
      <4>1. P = Q
        BY <3>2
      <4>2. QED
        BY <3>1, <4>1
    <3>3. CASE k + 1 \in P /\ ~Better(f[k + 1], f[q])
      BY <3>1, <3>3
    <3>4. CASE k + 1 \in P /\ Better(f[k + 1], f[q])
      <4>1. ASSUME NEW j \in P
            PROVE  ~Better(f[j], f[k + 1])
        <5>1. /\ f[j].score \in Int /\ f[j].rssi \in Int /\ f[q].score \in Int /\ f[q].rssi \in Int
              /\ f[k + 1].score \in Int /\ f[k + 1].rssi \in Int
          BY <2>1, <3>4, <4>1
        <5>2. CASE j = k + 1
          BY <5>1, <5>2 DEF Better
        <5>3. CASE j \in Q
          BY <3>1, <3>4, <5>1, <5>3 DEF Better
        <5>4. QED
          BY <4>1, <5>2, <5>3
      <4>2. QED
        BY <3>4, <4>1
    <3>5. QED
      BY <3>2, <3>3, <3>4
  <2>5. QED
    BY <2>3, <2>4
<1>3. N \in T
  BY <1>1, <1>2, AllNumbers
<1> DEFINE bests == { i \in pool : \A j \in pool : ~Better(f[j], f[i]) }
<1>4. bests # {} /\ bests \subseteq Nat
  <2>1. \E b \in pool : Best(pool, b)
    BY <1>3
  <2>2. PICK b \in pool : Best(pool, b)
    BY <2>1
  <2>3. b \in bests
    BY <2>2
  <2>4. pool \subseteq Nat
    OBVIOUS
  <2>5. QED
    BY <2>3, <2>4
<1>5. Min(bests) \in bests
  BY <1>4, LeastNumber
<1>6. BestOf(f, pool) = f[Min(bests)]
  BY DEF BestOf
<1>7. QED
  BY <1>5, <1>6

\* The advertisements of one device, and what it is found as.
OfDevice(advs, mac, a) ==
  { i \in Heard(advs, mac) : advs[i].addr = a /\ Reasons(advs[i], mac) # {} }

\* Any advertisements a scan hears, and any address it may look for.
LEMMA FoundIs ==
  ASSUME NEW advs \in Seq(Adverts), NEW mac
  PROVE  LET f == Found(advs, mac) IN
         /\ Len(f) \in Nat /\ DOMAIN f = 1 .. Len(f)
         /\ \A p \in DOMAIN f :
              /\ f[p].addr \in Addresses /\ OfDevice(advs, mac, f[p].addr) # {}
              /\ f[p] = Candidate(advs[Max(OfDevice(advs, mac, f[p].addr))], mac)
              /\ advs[Max(OfDevice(advs, mac, f[p].addr))] \in Adverts
              /\ f[p].score \in Int /\ f[p].rssi \in Int
         /\ \A a : OfDevice(advs, mac, a) # {} => \E p \in DOMAIN f : f[p].addr = a
<1> DEFINE f == Found(advs, mac)
           all == Counting(advs, mac, Len(advs))
<1>1. Len(advs) \in Nat /\ DOMAIN advs = 1 .. Len(advs)
  BY LenProperties
<1>2. IsFound(advs, mac, Len(advs), f)
  BY FoundIsFound
<1>3. Heard(advs, mac) \subseteq 1 .. Len(advs)
  BY <1>1 DEF Heard
<1>4. \A i : i \in all <=> i \in Heard(advs, mac) /\ Reasons(advs[i], mac) # {}
  BY <1>1, <1>3 DEF Counting
<1>5. \A a : OfDevice(advs, mac, a) = { i \in all : advs[i].addr = a }
  BY <1>4 DEF OfDevice
<1>6. \A i \in all : advs[i] \in Adverts
  BY <1>3, <1>4, ElementOfSeq
<1>7. all \subseteq 0 .. Len(advs) /\ all \subseteq Int
  BY <1>1, <1>3, <1>4
<1> HIDE DEF f, all
<1>8. /\ f \in Seq({ Candidate(advs[i], mac) : i \in DOMAIN advs })
      /\ \A p \in DOMAIN f : \E i \in all :
           /\ f[p] = Candidate(advs[i], mac)
           /\ \A j \in all : advs[j].addr = advs[i].addr => j <= i
      /\ \A i \in all : \E p \in DOMAIN f : f[p].addr = advs[i].addr
  BY <1>2 DEF IsFound, all
<1>9. Len(f) \in Nat /\ DOMAIN f = 1 .. Len(f)
  BY <1>8, LenProperties
<1>10. ASSUME NEW p \in DOMAIN f
       PROVE  /\ f[p].addr \in Addresses /\ OfDevice(advs, mac, f[p].addr) # {}
              /\ f[p] = Candidate(advs[Max(OfDevice(advs, mac, f[p].addr))], mac)
              /\ advs[Max(OfDevice(advs, mac, f[p].addr))] \in Adverts
              /\ f[p].score \in Int /\ f[p].rssi \in Int
  <2>1. PICK i \in all : /\ f[p] = Candidate(advs[i], mac)
                         /\ \A j \in all : advs[j].addr = advs[i].addr => j <= i
    BY <1>8, <1>10
  <2> DEFINE a == advs[i].addr
             of == OfDevice(advs, mac, a)
  <2>2. f[p].addr = a
    BY <2>1, CandidateAddress
  <2>3. i \in of /\ of \subseteq all /\ \A j \in of : j <= i
    BY <1>5, <2>1
  <2>4. advs[i] \in Adverts /\ advs[i].addr \in Addresses /\ advs[i].rssi \in Strengths
    BY <1>6, <2>1 DEF Adverts
  <2> HIDE DEF of
  <2>5. Max(of) = i
    <3>1. of \subseteq 0 .. Len(advs) /\ of # {}
      BY <1>7, <2>3
    <3>2. Max(of) \in of /\ \A j \in of : j <= Max(of)
      BY <1>1, <3>1, GreatestNumber
    <3>3. Max(of) \in Int /\ i \in Int /\ Max(of) <= i /\ i <= Max(of)
      BY <1>7, <2>3, <3>2
    <3>4. QED
      BY <3>3
  <2>6. f[p].rssi \in Int
    <3>1. f[p].rssi = advs[i].rssi
      BY <2>1 DEF Candidate
    <3>2. advs[i].rssi \in Int
      BY <2>4, LibraryConstantsOK DEF LibraryConstantsOK
    <3>3. QED
      BY <3>1, <3>2
  <2>7. f[p].score \in Int
    <3>1. f[p].score = Score(Reasons(advs[i], mac))
      BY <2>1 DEF Candidate
    <3>2. Score(Reasons(advs[i], mac)) \in Int
      BY DEF Score
    <3>3. QED
      BY <3>1, <3>2
  <2>8. QED
    BY <2>1, <2>2, <2>3, <2>4, <2>5, <2>6, <2>7 DEF of
<1>11. ASSUME NEW a, OfDevice(advs, mac, a) # {}
       PROVE  \E p \in DOMAIN f : f[p].addr = a
  BY <1>5, <1>8, <1>11
<1>12. QED
  BY <1>9, <1>10, <1>11 DEF f
\* The reasons of an advertisement.
LEMMA ReasonsAre ==
  ASSUME NEW adv \in Adverts
  PROVE  /\ Reasons(adv, AnyAddress) = adv.signs
         /\ Reasons(adv, Wanted) = IF adv.addr = Wanted THEN adv.signs \cup {"mac"} ELSE {}
         /\ adv.signs \subseteq {"name", "service", "manufacturer"}
<1>1. adv.addr \in Addresses /\ adv.signs \in Showings
  BY DEF Adverts
<1>2. adv.addr # AnyAddress /\ Wanted # AnyAddress
  BY <1>1, LibraryConstantsOK DEF LibraryConstantsOK
<1>3. adv.signs \subseteq {"name", "service", "manufacturer"}
  BY <1>1, LibraryConstantsOK DEF LibraryConstantsOK
<1>4. Reasons(adv, AnyAddress) = adv.signs
  BY <1>2 DEF Reasons
<1>5. Reasons(adv, Wanted) = IF adv.addr = Wanted THEN adv.signs \cup {"mac"} ELSE {}
  BY <1>2 DEF Reasons
<1>6. QED
  BY <1>3, <1>4, <1>5

LEMMA CandidateIs ==
  ASSUME NEW adv \in Adverts
  PROVE  LET c == Candidate(adv, AnyAddress) IN
         c.score = Rank(adv) /\ Rank(adv) \in Int /\ (IsPreferred(c) <=> Shows(adv))
<1> DEFINE c == Candidate(adv, AnyAddress)
<1>1. c.reasons = adv.signs /\ c.score = Score(adv.signs)
  BY ReasonsAre DEF Candidate
<1>2. "mac" \notin adv.signs
  BY ReasonsAre
<1>3. Score(adv.signs) = Rank(adv) /\ Rank(adv) \in Int
  BY <1>2 DEF Score, Rank
<1>4. IsPreferred(c) <=> Shows(adv)
  BY <1>1, <1>2 DEF IsPreferred, Shows
<1>5. QED
  BY <1>1, <1>3, <1>4

\* The properties' advertisements of a device are those the scan counts.
LEMMA HeardOfIs ==
  ASSUME job \in ScanJobs
  PROVE  /\ job.advs \in Seq(Adverts) /\ job.mac = Wanted
         /\ job.way \in {"connect", "address", "select"}
         /\ job.way # "address" => \A a : HeardOf(a) = OfDevice(job.advs, AnyAddress, a)
         /\ job.way = "address" => HeardOf(Wanted) = OfDevice(job.advs, Wanted, Wanted)
<1>1. /\ job.advs \in SeqOf(Adverts, MaxAdverts) /\ job.mac = Wanted
      /\ job.way \in {"connect", "address", "select"}
  BY DEF ScanJobs
<1>2. job.advs \in Seq(Adverts)
  BY <1>1, BoundedSequence, LibraryConstantsOK DEF LibraryConstantsOK
<1>3. \A mac : \A i \in Heard(job.advs, mac) : job.advs[i] \in Adverts
  BY <1>2, ElementOfSeq, LenProperties DEF Heard
<1>4. ASSUME job.way # "address", NEW a
      PROVE  HeardOf(a) = OfDevice(job.advs, AnyAddress, a)
  <2>1. AsksFor = AnyAddress
    BY <1>4 DEF AsksFor
  <2>2. \A i \in Heard(job.advs, AnyAddress) :
          Reasons(job.advs[i], AnyAddress) = job.advs[i].signs
    BY <1>3, ReasonsAre
  <2>3. QED
    BY <1>4, <2>1, <2>2 DEF HeardOf, OfDevice
<1>5. ASSUME job.way = "address"
      PROVE  HeardOf(Wanted) = OfDevice(job.advs, Wanted, Wanted)
  <2>1. AsksFor = Wanted
    BY <1>1, <1>5 DEF AsksFor
  <2>2. \A i \in Heard(job.advs, Wanted) :
          job.advs[i].addr = Wanted => Reasons(job.advs[i], Wanted) # {}
    BY <1>3, ReasonsAre
  <2>3. QED
    BY <1>5, <2>1, <2>2 DEF HeardOf, OfDevice
<1>6. QED
  BY <1>1, <1>2, <1>4, <1>5

\* What a scan without an address offers of the devices: each with what it
\* showed last.
LEMMA OfferIs ==
  ASSUME job \in ScanJobs, job.way # "address"
  PROVE  LET f == Found(job.advs, AnyAddress) IN
         /\ Len(f) \in Nat /\ DOMAIN f = 1 .. Len(f)
         /\ \A p \in DOMAIN f :
              /\ f[p].addr \in Addresses /\ HeardOf(f[p].addr) # {}
              /\ f[p].score \in Int /\ f[p].rssi \in Int
              /\ f[p].score = Rank(LastOf(f[p].addr))
              /\ IsPreferred(f[p]) <=> Shows(LastOf(f[p].addr))
         /\ \A a : HeardOf(a) # {} => \E p \in DOMAIN f : f[p].addr = a
<1> DEFINE f == Found(job.advs, AnyAddress)
<1>1. job.advs \in Seq(Adverts) /\ \A a : HeardOf(a) = OfDevice(job.advs, AnyAddress, a)
  BY HeardOfIs
<1>2. /\ Len(f) \in Nat /\ DOMAIN f = 1 .. Len(f)
      /\ \A p \in DOMAIN f :
           /\ f[p].addr \in Addresses /\ OfDevice(job.advs, AnyAddress, f[p].addr) # {}
           /\ f[p] = Candidate(job.advs[Max(OfDevice(job.advs, AnyAddress, f[p].addr))], AnyAddress)
           /\ job.advs[Max(OfDevice(job.advs, AnyAddress, f[p].addr))] \in Adverts
           /\ f[p].score \in Int /\ f[p].rssi \in Int
      /\ \A a : OfDevice(job.advs, AnyAddress, a) # {} => \E p \in DOMAIN f : f[p].addr = a
  BY <1>1, FoundIs
<1> HIDE DEF f
<1>3. ASSUME NEW p \in DOMAIN f
      PROVE  /\ f[p].score = Rank(LastOf(f[p].addr))
             /\ IsPreferred(f[p]) <=> Shows(LastOf(f[p].addr))
  <2>1. LastOf(f[p].addr) = job.advs[Max(OfDevice(job.advs, AnyAddress, f[p].addr))]
    BY <1>1 DEF LastOf
  <2>2. LastOf(f[p].addr) \in Adverts /\ f[p] = Candidate(LastOf(f[p].addr), AnyAddress)
    BY <1>2, <1>3, <2>1
  <2>3. QED
    BY <2>2, CandidateIs
<1>4. QED
  BY <1>1, <1>2, <1>3 DEF f
LEMMA KindsOfChoice ==
  /\ NoDevice.kind = "no device" /\ Ambiguous.kind = "ambiguous"
  /\ \A c : Picked(c).kind = "picked" /\ Picked(c).addr = c.addr
BY DEF NoDevice, Ambiguous, Picked

\* What select_preferred makes of what was found.
LEMMA SelectIs ==
  ASSUME NEW f, NEW mac, Len(f) \in Nat, DOMAIN f = 1 .. Len(f),
         \A p \in DOMAIN f : f[p].score \in Int /\ f[p].rssi \in Int
  PROVE  LET pool == Preferred(f, mac) IN
         \/ pool = {} /\ SelectPreferred(f, mac) = NoDevice
         \/ \E b \in pool :
              /\ \A j \in pool : ~Better(f[j], f[b])
              /\ \/ /\ SelectPreferred(f, mac) = Ambiguous /\ mac = AnyAddress
                    /\ \E i \in pool : f[i].score = f[b].score /\ f[i].addr # f[b].addr
                 \/ /\ SelectPreferred(f, mac) = Picked(f[b])
                    /\ mac = AnyAddress =>
                         \A i \in pool : f[i].score = f[b].score => f[i].addr = f[b].addr
<1> DEFINE pool == Preferred(f, mac)
           tied(best) == mac = AnyAddress
                         /\ \E i \in pool : f[i].score = best.score /\ f[i].addr # best.addr
<1>1. pool \subseteq 1 .. Len(f)
  BY DEF Preferred
<1>2. SelectPreferred(f, mac) = IF pool = {} THEN NoDevice
                                ELSE IF tied(BestOf(f, pool)) THEN Ambiguous
                                     ELSE Picked(BestOf(f, pool))
  BY DEF SelectPreferred
<1> HIDE DEF pool
<1>3. CASE pool = {}
  BY <1>2, <1>3 DEF pool
<1>4. CASE pool # {}
  <2>1. PICK b \in pool : BestOf(f, pool) = f[b] /\ \A j \in pool : ~Better(f[j], f[b])
    BY <1>1, <1>4, BestExists
  <2>2. CASE tied(f[b])
    <3>1. SelectPreferred(f, mac) = Ambiguous
      BY <1>2, <1>4, <2>1, <2>2
    <3>2. QED
      BY <2>1, <2>2, <3>1, Zenon DEF pool
  <2>3. CASE ~tied(f[b])
    <3>1. SelectPreferred(f, mac) = Picked(f[b])
      BY <1>2, <1>4, <2>1, <2>3
    <3>2. QED
      BY <2>1, <2>3, <3>1, Zenon DEF pool
  <2>4. QED
    BY <2>2, <2>3
<1>5. QED
  BY <1>3, <1>4

\* The properties of a choice, of each way.
IsRight(choice) ==
  choice.kind = "picked" =>
    /\ HeardOf(choice.addr) # {}
    /\ job.way \in {"address", "select"} => choice.addr = job.mac
    /\ job.way # "address" => Shows(LastOf(choice.addr))
    /\ job.way = "connect" =>
         \A b \in Addresses \ {choice.addr} :
           HeardOf(b) # {} /\ Shows(LastOf(b)) => Rank(LastOf(choice.addr)) > Rank(LastOf(b))

IsReasoned(choice) ==
  choice.kind # "picked" =>
    /\ job.way = "address" => HeardOf(job.mac) = {}
    /\ choice.kind = "no device" /\ job.way # "address" =>
         \A a \in (IF job.way = "connect" THEN Addresses ELSE {job.mac}) :
           HeardOf(a) # {} => ~Shows(LastOf(a))
    /\ choice.kind = "ambiguous" =>
         job.way = "connect"
         /\ \E a, b \in Addresses :
              /\ a # b /\ HeardOf(a) # {} /\ HeardOf(b) # {}
              /\ Shows(LastOf(a)) /\ Shows(LastOf(b)) /\ Rank(LastOf(a)) = Rank(LastOf(b))
              /\ \A c \in Addresses :
                   HeardOf(c) # {} /\ Shows(LastOf(c)) => Rank(LastOf(c)) <= Rank(LastOf(a))

LEMMA AddressChoice ==
  ASSUME job \in ScanJobs, job.way = "address"
  PROVE  LET g == Choice(job.advs, job.mac, job.way) IN IsRight(g) /\ IsReasoned(g)
<1> DEFINE f == Found(job.advs, Wanted)
           g == Choice(job.advs, job.mac, job.way)
<1>1. /\ job.advs \in Seq(Adverts) /\ job.mac = Wanted
      /\ HeardOf(Wanted) = OfDevice(job.advs, Wanted, Wanted)
  BY HeardOfIs
<1>2. g = ConnectToAddress(f)
  BY <1>1 DEF Choice
<1>3. /\ Len(f) \in Nat /\ DOMAIN f = 1 .. Len(f)
      /\ \A p \in DOMAIN f :
           /\ OfDevice(job.advs, Wanted, f[p].addr) # {}
           /\ f[p].score \in Int /\ f[p].rssi \in Int
      /\ OfDevice(job.advs, Wanted, Wanted) # {} => \E p \in DOMAIN f : f[p].addr = Wanted
  BY <1>1, FoundIs
<1> HIDE DEF f, g
<1>4. CASE f = <<>>
  <2>1. g = NoDevice
    BY <1>2, <1>4 DEF ConnectToAddress
  <2>2. DOMAIN f = {}
    BY <1>4
  <2>3. HeardOf(Wanted) = {}
    BY <1>1, <1>3, <2>2
  <2>4. QED
    BY <1>1, <2>1, <2>3, KindsOfChoice DEF IsRight, IsReasoned, g
<1>5. CASE f # <<>>
  <2>1. g = Picked(BestOf(f, DOMAIN f))
    BY <1>2, <1>5 DEF ConnectToAddress
  <2>2. DOMAIN f # {}
    <3>1. IsFound(job.advs, Wanted, Len(job.advs), f)
      BY <1>1, FoundIsFound DEF f
    <3>2. f \in Seq({ Candidate(job.advs[i], Wanted) : i \in DOMAIN job.advs })
      BY <3>1 DEF IsFound
    <3>3. Len(f) # 0
      BY <1>5, <3>2
    <3>4. QED
      BY <1>3, <3>3
  <2>3. PICK b \in DOMAIN f : BestOf(f, DOMAIN f) = f[b]
    BY <1>3, <2>2, BestExists
  <2> DEFINE a == f[b].addr
  <2>4. OfDevice(job.advs, Wanted, a) # {}
    BY <1>3
  <2>5. a = Wanted
    <3>1. PICK i \in Heard(job.advs, Wanted) :
            job.advs[i].addr = a /\ Reasons(job.advs[i], Wanted) # {}
      BY <2>4 DEF OfDevice
    <3>2. job.advs[i] \in Adverts
      BY <1>1, ElementOfSeq, LenProperties DEF Heard
    <3>3. QED
      BY <3>1, <3>2, ReasonsAre
  <2>6. g.kind = "picked" /\ g.addr = Wanted
    BY <2>1, <2>3, <2>5, KindsOfChoice
  <2>7. HeardOf(Wanted) # {}
    BY <1>1, <2>4, <2>5
  <2>8. QED
    BY <1>1, <2>6, <2>7 DEF IsRight, IsReasoned, g
<1>6. QED
  BY <1>4, <1>5

LEMMA ConnectChoice ==
  ASSUME job \in ScanJobs, job.way = "connect"
  PROVE  LET g == Choice(job.advs, job.mac, job.way) IN IsRight(g) /\ IsReasoned(g)
<1> DEFINE f == Found(job.advs, AnyAddress)
           g == Choice(job.advs, job.mac, job.way)
           pool == Preferred(f, AnyAddress)
<1>1. g = SelectPreferred(f, AnyAddress)
  BY DEF Choice
<1>2. /\ Len(f) \in Nat /\ DOMAIN f = 1 .. Len(f)
      /\ \A p \in DOMAIN f :
           /\ f[p].addr \in Addresses /\ HeardOf(f[p].addr) # {}
           /\ f[p].score \in Int /\ f[p].rssi \in Int
           /\ f[p].score = Rank(LastOf(f[p].addr))
           /\ IsPreferred(f[p]) <=> Shows(LastOf(f[p].addr))
      /\ \A a : HeardOf(a) # {} => \E p \in DOMAIN f : f[p].addr = a
  BY OfferIs
<1>3. \/ pool = {} /\ g = NoDevice
      \/ \E b \in pool :
           /\ \A j \in pool : ~Better(f[j], f[b])
           /\ \/ /\ g = Ambiguous
                 /\ \E i \in pool : f[i].score = f[b].score /\ f[i].addr # f[b].addr
              \/ /\ g = Picked(f[b])
                 /\ \A i \in pool : f[i].score = f[b].score => f[i].addr = f[b].addr
  BY <1>1, <1>2, SelectIs
<1>4. pool = { p \in DOMAIN f : IsPreferred(f[p]) }
  BY DEF Preferred
<1> HIDE DEF f, g, pool
<1>5. \A a : HeardOf(a) # {} /\ Shows(LastOf(a)) => \E p \in pool : f[p].addr = a
  BY <1>2, <1>4
<1>6. \A p \in pool : /\ p \in DOMAIN f /\ f[p].addr \in Addresses /\ HeardOf(f[p].addr) # {}
                      /\ f[p].score \in Int /\ f[p].score = Rank(LastOf(f[p].addr))
                      /\ Shows(LastOf(f[p].addr))
  BY <1>2, <1>4
<1>7. CASE pool = {} /\ g = NoDevice
  <2>1. \A a : HeardOf(a) # {} => ~Shows(LastOf(a))
    BY <1>5, <1>7
  <2>2. g.kind = "no device"
    BY <1>7, KindsOfChoice
  <2>3. QED
    BY <2>1, <2>2 DEF IsRight, IsReasoned, g
<1>8. ASSUME NEW b \in pool, \A j \in pool : ~Better(f[j], f[b])
      PROVE  \A c : HeardOf(c) # {} /\ Shows(LastOf(c)) =>
               /\ Rank(LastOf(c)) <= f[b].score
               /\ \E p \in pool : f[p].addr = c /\ f[p].score = Rank(LastOf(c))
                                  /\ f[p].score \in Int
  <2>1. SUFFICES ASSUME NEW c, HeardOf(c) # {}, Shows(LastOf(c))
                 PROVE  /\ Rank(LastOf(c)) <= f[b].score
                        /\ \E p \in pool : f[p].addr = c /\ f[p].score = Rank(LastOf(c))
                                           /\ f[p].score \in Int
    BY Zenon
  <2>2. PICK p \in pool : f[p].addr = c
    BY <1>5, <2>1
  <2>3. f[p].score = Rank(LastOf(c)) /\ f[p].score \in Int /\ f[b].score \in Int
    BY <1>6, <1>8, <2>2
  <2>4. ~(f[p].score > f[b].score)
    BY <1>8, <2>2 DEF Better
  <2>5. f[p].score <= f[b].score
    BY <2>3, <2>4
  <2>6. QED
    BY <2>2, <2>3, <2>5
<1>9. ASSUME NEW b \in pool, \A j \in pool : ~Better(f[j], f[b]), g = Ambiguous,
             NEW i \in pool, f[i].score = f[b].score, f[i].addr # f[b].addr
      PROVE  IsRight(g) /\ IsReasoned(g)
  <2>1. g.kind = "ambiguous"
    BY <1>9, KindsOfChoice
  <2> DEFINE a == f[b].addr
             d == f[i].addr
  <2>2. /\ a \in Addresses /\ d \in Addresses /\ a # d /\ HeardOf(a) # {} /\ HeardOf(d) # {}
        /\ Shows(LastOf(a)) /\ Shows(LastOf(d)) /\ Rank(LastOf(a)) = Rank(LastOf(d))
        /\ f[b].score = Rank(LastOf(a))
    BY <1>6, <1>9
  <2>3. \A c \in Addresses :
          HeardOf(c) # {} /\ Shows(LastOf(c)) => Rank(LastOf(c)) <= Rank(LastOf(a))
    BY <1>8, <1>9, <2>2
  <2> HIDE DEF a, d
  <2>4. QED
    BY <2>1, <2>2, <2>3 DEF IsRight, IsReasoned
<1>10. ASSUME NEW b \in pool, \A j \in pool : ~Better(f[j], f[b]), g = Picked(f[b]),
              \A i \in pool : f[i].score = f[b].score => f[i].addr = f[b].addr
       PROVE  IsRight(g) /\ IsReasoned(g)
  <2> DEFINE a == f[b].addr
  <2>1. g.kind = "picked" /\ g.addr = a
    BY <1>10, KindsOfChoice
  <2>2. HeardOf(a) # {} /\ Shows(LastOf(a)) /\ f[b].score = Rank(LastOf(a)) /\ f[b].score \in Int
    BY <1>6, <1>10
  <2>3. ASSUME NEW c \in Addresses \ {a}, HeardOf(c) # {}, Shows(LastOf(c))
        PROVE  Rank(LastOf(a)) > Rank(LastOf(c))
    <3>1. PICK p \in pool : f[p].addr = c /\ f[p].score = Rank(LastOf(c)) /\ f[p].score \in Int
      BY <1>8, <1>10, <2>3
    <3>2. f[p].score <= f[b].score
      BY <1>8, <1>10, <2>3, <3>1
    <3>3. f[p].score # f[b].score
      BY <1>10, <2>3, <3>1
    <3>4. QED
      BY <2>2, <3>1, <3>2, <3>3
  <2> HIDE DEF a
  <2>4. QED
    BY <2>1, <2>2, <2>3 DEF IsRight, IsReasoned
<1>11. QED
  BY <1>3, <1>7, <1>9, <1>10 DEF g

LEMMA SelectChoice ==
  ASSUME job \in ScanJobs, job.way = "select"
  PROVE  LET g == Choice(job.advs, job.mac, job.way) IN IsRight(g) /\ IsReasoned(g)
<1> DEFINE f == Found(job.advs, AnyAddress)
           g == Choice(job.advs, job.mac, job.way)
           pool == Preferred(f, Wanted)
<1>1. job.mac = Wanted /\ Wanted # AnyAddress
  BY HeardOfIs, LibraryConstantsOK DEF LibraryConstantsOK
<1>2. g = SelectPreferred(f, Wanted)
  BY <1>1 DEF Choice
<1>3. /\ Len(f) \in Nat /\ DOMAIN f = 1 .. Len(f)
      /\ \A p \in DOMAIN f :
           /\ HeardOf(f[p].addr) # {} /\ f[p].score \in Int /\ f[p].rssi \in Int
           /\ IsPreferred(f[p]) <=> Shows(LastOf(f[p].addr))
      /\ \A a : HeardOf(a) # {} => \E p \in DOMAIN f : f[p].addr = a
  BY OfferIs
<1>4. \/ pool = {} /\ g = NoDevice
      \/ \E b \in pool : g = Picked(f[b])
  BY <1>1, <1>2, <1>3, SelectIs
<1>5. pool = { p \in DOMAIN f : IsPreferred(f[p]) /\ f[p].addr = Wanted }
  BY <1>1 DEF Preferred
<1> HIDE DEF f, g, pool
<1>6. CASE pool = {} /\ g = NoDevice
  <2>1. HeardOf(Wanted) # {} => ~Shows(LastOf(Wanted))
    BY <1>3, <1>5, <1>6
  <2>2. g.kind = "no device"
    BY <1>6, KindsOfChoice
  <2>3. QED
    BY <1>1, <2>1, <2>2 DEF IsRight, IsReasoned, g
<1>7. ASSUME NEW b \in pool, g = Picked(f[b])
      PROVE  IsRight(g) /\ IsReasoned(g)
  <2>1. g.kind = "picked" /\ g.addr = Wanted
    BY <1>5, <1>7, KindsOfChoice
  <2>2. HeardOf(Wanted) # {} /\ Shows(LastOf(Wanted))
    BY <1>3, <1>5, <1>7
  <2>3. QED
    BY <1>1, <2>1, <2>2 DEF IsRight, IsReasoned
<1>8. QED
  BY <1>4, <1>6, <1>7 DEF g

LEMMA ChoiceIs ==
  ASSUME Asked, Decided, Answered("scan")
  PROVE  IsRight(Got1) /\ IsReasoned(Got1)
<1>1. job \in ScanJobs /\ Got1 = Choice(job.advs, job.mac, job.way)
  BY KindTells, AnswerTells DEF Answered
<1>2. job.way \in {"connect", "address", "select"}
  BY <1>1, HeardOfIs
<1>3. QED
  BY <1>1, <1>2, AddressChoice, ConnectChoice, SelectChoice

\* Whatever is on the air, in any order and at any strength, the device that is
\* picked is the one asked for or shows more than every other heard before the
\* scan stopped (select_preferred, BleakTransport.connect).
THEOREM TheRightLock == Spec => []RightLock
<1>1. Asked /\ Decided => RightLock
  BY ChoiceIs, Zenon DEF RightLock, IsRight
<1>2. QED
  BY <1>1, Inductive, PTL

\* And a lock that was heard before the scan stopped is missed only for a
\* reason: its last advertisement showed too little, or two devices show the same (select_preferred,
\* BleakTransport.connect).
THEOREM NoLockIsLost == Spec => []MissedForAReason
<1>1. Asked /\ Decided => MissedForAReason
  BY ChoiceIs, Zenon DEF MissedForAReason, IsReasoned
<1>2. QED
  BY <1>1, Inductive, PTL
-----------------------------------------------------------------------------
(* The checksum.                                                           *)

LEMMA OddOnes ==
  ASSUME NEW x \in Int, NEW y \in Int
  PROVE  /\ x % 2 \in Int /\ (x + y) % 2 \in {0, 1}
         /\ x = y => (x + y) % 2 = 0
OBVIOUS

LEMMA XorOfNumbers ==
  ASSUME NEW a \in Nat, NEW b \in Nat
  PROVE  Xor(a, b) \in Word
<1> DEFINE At(p) == p * ((Bit(a, p) + Bit(b, p)) % 2)
<1>1. /\ At(1) \in {0, 1} /\ At(2) \in {0, 2} /\ At(4) \in {0, 4} /\ At(8) \in {0, 8}
      /\ At(16) \in {0, 16} /\ At(32) \in {0, 32} /\ At(64) \in {0, 64} /\ At(128) \in {0, 128}
      /\ At(256) \in {0, 256} /\ At(512) \in {0, 512} /\ At(1024) \in {0, 1024}
      /\ At(2048) \in {0, 2048} /\ At(4096) \in {0, 4096} /\ At(8192) \in {0, 8192}
      /\ At(16384) \in {0, 16384} /\ At(32768) \in {0, 32768}
  BY BitOfXor
<1>2. Xor(a, b) = At(1) + At(2) + At(4) + At(8) + At(16) + At(32) + At(64) + At(128)
                  + At(256) + At(512) + At(1024) + At(2048) + At(4096) + At(8192) + At(16384)
                  + At(32768)
  BY DEF Xor
<1> HIDE DEF At
<1>3. /\ At(1) \in Int /\ 0 <= At(1) /\ At(1) <= 1 /\ At(2) \in Int /\ 0 <= At(2) /\ At(2) <= 2
      /\ At(4) \in Int /\ 0 <= At(4) /\ At(4) <= 4 /\ At(8) \in Int /\ 0 <= At(8) /\ At(8) <= 8
      /\ At(16) \in Int /\ 0 <= At(16) /\ At(16) <= 16
      /\ At(32) \in Int /\ 0 <= At(32) /\ At(32) <= 32
      /\ At(64) \in Int /\ 0 <= At(64) /\ At(64) <= 64
      /\ At(128) \in Int /\ 0 <= At(128) /\ At(128) <= 128
  BY <1>1
<1>4. /\ At(256) \in Int /\ 0 <= At(256) /\ At(256) <= 256
      /\ At(512) \in Int /\ 0 <= At(512) /\ At(512) <= 512
      /\ At(1024) \in Int /\ 0 <= At(1024) /\ At(1024) <= 1024
      /\ At(2048) \in Int /\ 0 <= At(2048) /\ At(2048) <= 2048
      /\ At(4096) \in Int /\ 0 <= At(4096) /\ At(4096) <= 4096
      /\ At(8192) \in Int /\ 0 <= At(8192) /\ At(8192) <= 8192
      /\ At(16384) \in Int /\ 0 <= At(16384) /\ At(16384) <= 16384
      /\ At(32768) \in Int /\ 0 <= At(32768) /\ At(32768) <= 32768
  BY <1>1
<1> DEFINE low == At(1) + At(2) + At(4) + At(8) + At(16) + At(32) + At(64) + At(128)
<1>5. low \in Int /\ 0 <= low /\ low <= 255
  BY <1>3
<1>6. Xor(a, b) = low + At(256) + At(512) + At(1024) + At(2048) + At(4096) + At(8192) + At(16384)
                  + At(32768)
  BY <1>2
<1> HIDE DEF low
<1>7. Xor(a, b) \in Int /\ 0 <= Xor(a, b) /\ Xor(a, b) <= 65535
  BY <1>4, <1>5, <1>6
<1>8. QED
  BY <1>7 DEF Word

LEMMA XorOfSame ==
  ASSUME NEW a \in Nat
  PROVE  Xor(a, a) = 0
<1> DEFINE At(p) == p * ((Bit(a, p) + Bit(a, p)) % 2)
<1>1. ASSUME NEW p \in {1, 2, 4, 8, 16, 32, 64, 128, 256, 512, 1024, 2048, 4096, 8192, 16384, 32768}
      PROVE  At(p) = 0
  BY DEF Bit
<1>2. Xor(a, a) = At(1) + At(2) + At(4) + At(8) + At(16) + At(32) + At(64) + At(128)
                  + At(256) + At(512) + At(1024) + At(2048) + At(4096) + At(8192) + At(16384)
                  + At(32768)
  BY DEF Xor
<1> HIDE DEF At
<1>3. QED
  BY <1>1, <1>2

\* A byte is the sum of its bits.
LEMMA BitsOfByte ==
  ASSUME NEW l \in Byte
  PROVE  l = Bit(l, 1) + 2 * Bit(l, 2) + 4 * Bit(l, 4) + 8 * Bit(l, 8) + 16 * Bit(l, 16)
             + 32 * Bit(l, 32) + 64 * Bit(l, 64) + 128 * Bit(l, 128)
BY DEF Byte, Bit

\* The high byte taken from a word leaves the low one.
LEMMA LowBits ==
  ASSUME NEW h \in Byte, NEW l \in Byte, NEW p \in {1, 2, 4, 8, 16, 32, 64, 128}
  PROVE  p * ((Bit(256 * h + l, p) + Bit(h * 256, p)) % 2) = p * Bit(l, p)
BY DEF Byte, Bit

LEMMA HighPart ==
  ASSUME NEW h \in Nat, NEW l \in Nat, l < 256, NEW q \in Nat \ {0}
  PROVE  (256 * h + l) \div (256 * q) = h \div q
<1> DEFINE d == h \div q
           r == h % q
           b == 256 * q
           t == 256 * r + l
<1>1. d \in Nat /\ r \in 0 .. q - 1 /\ h = d * q + r
  BY Division, Zenon
<1> HIDE DEF d, r
<1>2. b \in Nat /\ b > 0 /\ t \in Nat /\ t < b
  BY <1>1
<1>3. 256 * h + l = d * b + t
  <2>1. d * q \in Nat /\ 256 * (d * q) = d * (256 * q)
    BY <1>1
  <2>2. 256 * h + l = 256 * (d * q) + (256 * r + l)
    BY <1>1, <2>1
  <2>3. QED
    BY <2>1, <2>2
<1> HIDE DEF b, t
<1>4. (d * b + t) \div b = d
  BY <1>1, <1>2
<1>5. (256 * h + l) \div b = d
  BY <1>3, <1>4, Zenon
<1>6. QED
  BY <1>5 DEF b, d

LEMMA HighBits ==
  ASSUME NEW h \in Byte, NEW l \in Byte, NEW q \in {1, 2, 4, 8, 16, 32, 64, 128}
  PROVE  (256 * q) * ((Bit(256 * h + l, 256 * q) + Bit(h * 256, 256 * q)) % 2) = 0
<1>1. (256 * h + l) \div (256 * q) = h \div q /\ (h * 256) \div (256 * q) = h \div q
  <2>1. h \in Nat /\ l \in Nat /\ l < 256 /\ 0 \in Nat /\ q \in Nat \ {0}
    BY DEF Byte
  <2>2. /\ (256 * h + l) \div (256 * q) = h \div q
        /\ (256 * h + 0) \div (256 * q) = h \div q
    BY <2>1, HighPart, 0 < 256
  <2>3. 256 * h + 0 = h * 256
    BY <2>1
  <2>4. QED
    BY <2>2, <2>3
<1>2. h \div q \in Int
  BY DEF Byte
<1> DEFINE d == h \div q
<1> HIDE DEF d
<1>3. Bit(256 * h + l, 256 * q) = d % 2 /\ Bit(h * 256, 256 * q) = d % 2
  BY <1>1, Zenon DEF Bit, d
<1>4. d \in Int
  BY <1>2 DEF d
<1>5. ((d % 2) + (d % 2)) % 2 = 0
  BY <1>4
<1>6. (Bit(256 * h + l, 256 * q) + Bit(h * 256, 256 * q)) % 2 = 0
  BY <1>3, <1>4, OddOnes
<1>7. (256 * q) * 0 = 0
  OBVIOUS
<1>8. QED
  BY <1>6, <1>7, Zenon

LEMMA XorOfHigh ==
  ASSUME NEW h \in Byte, NEW l \in Byte
  PROVE  Xor(256 * h + l, h * 256) = l
<1> DEFINE At(p) == p * ((Bit(256 * h + l, p) + Bit(h * 256, p)) % 2)
<1>1. /\ At(1) = 1 * Bit(l, 1) /\ At(2) = 2 * Bit(l, 2) /\ At(4) = 4 * Bit(l, 4)
      /\ At(8) = 8 * Bit(l, 8) /\ At(16) = 16 * Bit(l, 16) /\ At(32) = 32 * Bit(l, 32)
      /\ At(64) = 64 * Bit(l, 64) /\ At(128) = 128 * Bit(l, 128)
  BY LowBits
<1>2. /\ At(256) = 0 /\ At(512) = 0 /\ At(1024) = 0 /\ At(2048) = 0
      /\ At(4096) = 0 /\ At(8192) = 0 /\ At(16384) = 0 /\ At(32768) = 0
  BY HighBits, 256 * 1 = 256, 256 * 2 = 512, 256 * 4 = 1024, 256 * 8 = 2048, 256 * 16 = 4096,
     256 * 32 = 8192, 256 * 64 = 16384, 256 * 128 = 32768
<1>3. Xor(256 * h + l, h * 256) =
        At(1) + At(2) + At(4) + At(8) + At(16) + At(32) + At(64) + At(128)
        + At(256) + At(512) + At(1024) + At(2048) + At(4096) + At(8192) + At(16384) + At(32768)
  BY DEF Xor
<1>4. \A p \in {1, 2, 4, 8, 16, 32, 64, 128} : Bit(l, p) \in Int
  BY DEF Bit, Byte
<1> HIDE DEF At
<1>5. QED
  BY <1>1, <1>2, <1>3, <1>4, BitsOfByte DEF Byte

\* A bit of the checksum, and a byte.
LEMMA CrcBitOfWord ==
  ASSUME NEW c \in Word
  PROVE  CrcBit(c) \in Word /\ (c < 32768 => CrcBit(c) = 2 * c)
<1>1. CASE c >= 32768
  <2>1. (2 * c) % 65536 \in Nat /\ \h1021 \in Nat
    BY DEF Word
  <2>2. CrcBit(c) \in Word
    BY <1>1, <2>1, XorOfNumbers DEF CrcBit
  <2>3. ~(c < 32768)
    BY <1>1 DEF Word
  <2>4. QED
    BY <2>2, <2>3
<1>2. CASE ~(c >= 32768)
  <2>1. c < 32768 /\ 2 * c \in Word
    BY <1>2 DEF Word
  <2>2. CrcBit(c) = 2 * c
    BY <1>2 DEF CrcBit
  <2>3. QED
    BY <2>1, <2>2
<1>3. QED
  BY <1>1, <1>2

LEMMA CrcBitDoubles ==
  ASSUME NEW c \in Nat, c < 32768, NEW d, d = 2 * c
  PROVE  CrcBit(c) = d
BY CrcBitOfWord DEF Word

LEMMA CrcByteOfWord ==
  ASSUME NEW c \in Nat, NEW b \in Nat
  PROVE  CrcByte(c, b) \in Word
<1> DEFINE x == Xor(c, b * 256)
<1>1. x \in Word
  BY XorOfNumbers
<1>2. CrcByte(c, b) = CrcBit(CrcBit(CrcBit(CrcBit(CrcBit(CrcBit(CrcBit(CrcBit(x))))))))
  BY DEF CrcByte
<1> HIDE DEF x
<1>3. CrcBit(CrcBit(CrcBit(CrcBit(CrcBit(CrcBit(CrcBit(CrcBit(x)))))))) \in Word
  BY <1>1, CrcBitOfWord
<1>4. QED
  BY <1>2, <1>3

LEMMA CrcByteOfSmall ==
  ASSUME NEW c \in Nat, NEW b \in Nat, NEW l \in Byte, Xor(c, b * 256) = l
  PROVE  CrcByte(c, b) = l * 256
<1>1. CrcByte(c, b) = CrcBit(CrcBit(CrcBit(CrcBit(CrcBit(CrcBit(CrcBit(CrcBit(l))))))))
  BY DEF CrcByte
<1>2. /\ CrcBit(l) = 2 * l /\ CrcBit(2 * l) = 4 * l /\ CrcBit(4 * l) = 8 * l
      /\ CrcBit(8 * l) = 16 * l /\ CrcBit(16 * l) = 32 * l /\ CrcBit(32 * l) = 64 * l
      /\ CrcBit(64 * l) = 128 * l /\ CrcBit(128 * l) = 256 * l
  BY CrcBitDoubles DEF Byte
<1>3. CrcByte(c, b) = 256 * l
  BY <1>1, <1>2
<1>4. QED
  BY <1>3 DEF Byte

\* The checksum over a word of the checksum itself is zero.
LEMMA CrcOfCrc ==
  ASSUME NEW c \in Word
  PROVE  CrcByte(CrcByte(c, c \div 256), c % 256) = 0
<1> DEFINE h == c \div 256
           l == c % 256
<1>1. h \in Byte /\ l \in Byte /\ c = 256 * h + l
  <2>1. h \in Byte /\ l \in Byte /\ c = l + 256 * h
    BY TwoBytes
  <2> HIDE DEF h, l
  <2>2. QED
    BY <2>1 DEF Byte
<1> HIDE DEF h, l
<1>2. c \in Nat /\ h \in Nat /\ l \in Nat /\ 0 \in Byte /\ l * 256 \in Nat
  BY <1>1 DEF Word, Byte
<1>3. Xor(c, h * 256) = l
  BY <1>1, XorOfHigh
<1>4. CrcByte(c, h) = l * 256
  BY <1>1, <1>2, <1>3, CrcByteOfSmall
<1>5. Xor(l * 256, l * 256) = 0
  BY <1>2, XorOfSame
<1>6. CrcByte(l * 256, l) = 0 * 256
  BY <1>2, <1>5, CrcByteOfSmall
<1>7. QED
  BY <1>4, <1>6 DEF h, l

\* The recursive function of the checksum is one.
LEMMA CrcAfterIs ==
  ASSUME NEW data, Len(data) \in Nat
  PROVE  CrcAfter(data) =
           [n \in 0 .. Len(data) |-> IF n = 0 THEN 0 ELSE CrcByte(CrcAfter(data)[n - 1], data[n])]
<1> DEFINE R(f, k) == f = [n \in 0 .. k |-> IF n = 0 THEN 0 ELSE CrcByte(f[n - 1], data[n])]
           T == { k \in Nat : \E f : R(f, k) }
<1>1. 0 \in T
  <2>1. R([n \in 0 .. 0 |-> 0], 0)
    OBVIOUS
  <2>2. QED
    BY <2>1
<1>2. ASSUME NEW k \in Nat, k \in T
      PROVE  k + 1 \in T
  <2>1. PICK f : R(f, k)
    BY <1>2
  <2> DEFINE g == [n \in 0 .. k + 1 |-> IF n = k + 1 THEN CrcByte(f[k], data[k + 1]) ELSE f[n]]
  <2>2. R(g, k + 1)
    <3>1. SUFFICES ASSUME NEW n \in 0 .. k + 1
                   PROVE  g[n] = IF n = 0 THEN 0 ELSE CrcByte(g[n - 1], data[n])
      OBVIOUS
    <3>2. CASE n = k + 1
      BY <3>2, g[n - 1] = f[k]
    <3>3. CASE n # k + 1
      BY <2>1, <3>3, n \in 0 .. k
    <3>4. QED
      BY <3>2, <3>3
  <2> HIDE DEF R, g
  <2>3. \E h : R(h, k + 1)
    BY <2>2
  <2>4. QED
    BY <2>3
<1>3. Nat \subseteq T
  BY <1>1, <1>2, AllNumbers
<1>4. \E f : R(f, Len(data))
  BY <1>3
<1>5. QED
  BY <1>4 DEF CrcAfter

\* It is a word, after every byte.
LEMMA CrcIsWord ==
  ASSUME NEW data \in Seq(Byte)
  PROVE  \A n \in 0 .. Len(data) : CrcAfter(data)[n] \in Word
<1> DEFINE N == Len(data)
           f == CrcAfter(data)
           T == { k \in Nat : k <= N => f[k] \in Word }
<1>1. N \in Nat
  BY LenProperties
<1>2. \A n \in 0 .. N : f[n] = IF n = 0 THEN 0 ELSE CrcByte(f[n - 1], data[n])
  BY <1>1, CrcAfterIs
<1>3. \A n \in 1 .. N : data[n] \in Byte
  BY ElementOfSeq
<1>4. Byte \subseteq Nat /\ Word \subseteq Nat /\ 0 \in Word
  BY DEF Byte, Word
<1> HIDE DEF f, N
<1>5. f[0] = 0
  BY <1>1, <1>2
<1>6. 0 \in T
  BY <1>4, <1>5
<1>7. ASSUME NEW k \in Nat, k \in T
      PROVE  k + 1 \in T
  <2>1. SUFFICES ASSUME k + 1 <= N
                 PROVE  f[k + 1] \in Word
    OBVIOUS
  <2>2. k <= N /\ k + 1 \in 1 .. N
    BY <1>1, <2>1
  <2>3. f[k] \in Nat /\ data[k + 1] \in Nat
    BY <1>3, <1>4, <1>7, <2>2
  <2>4. f[k + 1] = CrcByte(f[k], data[k + 1])
    BY <1>1, <1>2, <2>1
  <2>5. QED
    BY <2>3, <2>4, CrcByteOfWord
<1>8. Nat \subseteq T
  BY <1>6, <1>7, AllNumbers
<1>9. QED
  BY <1>1, <1>8 DEF f, N

\* It depends on the bytes so far.
LEMMA CrcOfPrefix ==
  ASSUME NEW data, Len(data) \in Nat, NEW more, Len(more) \in Nat, Len(data) <= Len(more),
         \A i \in 1 .. Len(data) : more[i] = data[i]
  PROVE  CrcAfter(more)[Len(data)] = CrcAfter(data)[Len(data)]
<1> DEFINE N == Len(data)
           f == CrcAfter(data)
           g == CrcAfter(more)
           T == { k \in Nat : k <= N => g[k] = f[k] }
<1>1. \A n \in 0 .. N : f[n] = IF n = 0 THEN 0 ELSE CrcByte(f[n - 1], data[n])
  BY CrcAfterIs
<1>2. \A n \in 0 .. Len(more) : g[n] = IF n = 0 THEN 0 ELSE CrcByte(g[n - 1], more[n])
  BY CrcAfterIs
<1>3. N \in Nat /\ N <= Len(more) /\ \A i \in 1 .. N : more[i] = data[i]
  OBVIOUS
<1> HIDE DEF f, g, N
<1>4. 0 \in T
  BY <1>1, <1>2, <1>3
<1>5. ASSUME NEW k \in Nat, k \in T
      PROVE  k + 1 \in T
  <2>1. SUFFICES ASSUME k + 1 <= N
                 PROVE  g[k + 1] = f[k + 1]
    OBVIOUS
  <2>2. g[k] = f[k] /\ more[k + 1] = data[k + 1]
    BY <1>3, <1>5, <2>1
  <2>3. k + 1 \in 0 .. N /\ k + 1 \in 0 .. Len(more) /\ k + 1 # 0 /\ (k + 1) - 1 = k
    BY <1>3, <2>1
  <2>4. f[k + 1] = CrcByte(f[k], data[k + 1])
    BY <1>1, <2>3
  <2>5. g[k + 1] = CrcByte(g[k], more[k + 1])
    BY <1>2, <2>3
  <2>6. QED
    BY <2>2, <2>4, <2>5
<1>6. Nat \subseteq T
  BY <1>4, <1>5, AllNumbers
<1>7. QED
  BY <1>3, <1>6 DEF f, g, N

\* Data with their checksum behind them check to zero.
LEMMA CheckIsZero ==
  ASSUME NEW data \in Seq(Byte)
  PROVE  Crc16Xmodem(data \o BigEndian(Crc16Xmodem(data))) = 0
<1> DEFINE N == Len(data)
           c == CrcAfter(data)[N]
           all == data \o BigEndian(c)
<1>1. N \in Nat /\ DOMAIN data = 1 .. N
  BY LenProperties
<1>2. c \in Word
  BY <1>1, CrcIsWord
<1>3. Crc16Xmodem(data) = c
  BY DEF Crc16Xmodem
<1> HIDE DEF c
<1>4. BigEndian(c) \in Seq(Byte) /\ Len(BigEndian(c)) = 2
      /\ BigEndian(c)[1] = c \div 256 /\ BigEndian(c)[2] = c % 256
  BY <1>2, TwoBytes DEF BigEndian
<1>5. /\ all \in Seq(Byte) /\ Len(all) = N + 2
      /\ \A i \in 1 .. N : all[i] = data[i]
      /\ all[N + 1] = c \div 256 /\ all[N + 2] = c % 256
  <2>1. /\ all \in Seq(Byte) /\ Len(all) = N + 2
        /\ \A i \in 1 .. N + 2 : all[i] = IF i <= N THEN data[i] ELSE BigEndian(c)[i - N]
    <3> DEFINE tail == BigEndian(c)
    <3>1. tail \in Seq(Byte) /\ Len(tail) = 2 /\ all = data \o tail
      BY <1>4
    <3> HIDE DEF tail, all
    <3>2. /\ data \o tail \in Seq(Byte) /\ Len(data \o tail) = Len(data) + Len(tail)
          /\ \A i \in 1 .. Len(data) + Len(tail) :
               (data \o tail)[i] = IF i <= Len(data) THEN data[i] ELSE tail[i - Len(data)]
      BY <3>1, ConcatProperties
    <3>3. QED
      BY <3>1, <3>2 DEF tail
  <2> HIDE DEF all, N
  <2>2. /\ N + 1 \in 1 .. N + 2 /\ ~(N + 1 <= N) /\ (N + 1) - N = 1
        /\ N + 2 \in 1 .. N + 2 /\ ~(N + 2 <= N) /\ (N + 2) - N = 2
    BY <1>1
  <2>3. all[N + 1] = BigEndian(c)[1] /\ all[N + 2] = BigEndian(c)[2]
    BY <2>1, <2>2
  <2>4. \A i \in 1 .. N : all[i] = data[i]
    BY <1>1, <2>1
  <2>5. QED
    BY <1>4, <2>1, <2>3, <2>4
<1> HIDE DEF all
<1>6. CrcAfter(all)[N] = c
  BY <1>1, <1>5, CrcOfPrefix DEF c
<1>7. CrcAfter(all)[N + 1] = CrcByte(c, c \div 256)
  <2>1. CrcAfter(all)[N + 1] = CrcByte(CrcAfter(all)[(N + 1) - 1], all[N + 1])
    BY <1>1, <1>5, CrcAfterIs
  <2>2. (N + 1) - 1 = N
    BY <1>1
  <2>3. QED
    BY <1>5, <1>6, <2>1, <2>2
<1>8. CrcAfter(all)[N + 2] = CrcByte(CrcByte(c, c \div 256), c % 256)
  <2>1. CrcAfter(all)[N + 2] = CrcByte(CrcAfter(all)[(N + 2) - 1], all[N + 2])
    BY <1>1, <1>5, CrcAfterIs
  <2>2. (N + 2) - 1 = N + 1
    BY <1>1
  <2>3. QED
    BY <1>5, <1>7, <2>1, <2>2
<1>9. Crc16Xmodem(all) = CrcAfter(all)[N + 2]
  BY <1>5 DEF Crc16Xmodem
<1>10. QED
  BY <1>2, <1>3, <1>8, <1>9, CrcOfCrc DEF all
-----------------------------------------------------------------------------
(* The pieces of a sequence, and the whole of them.                        *)

LEMMA TimesMore ==
  ASSUME NEW b \in Nat, NEW m \in Nat, NEW n \in Nat, m <= n
  PROVE  b * m \in Nat /\ b * n \in Nat /\ b * m <= b * n
<1> DEFINE d == n - m
<1>1. d \in Nat /\ n = m + d
  OBVIOUS
<1> HIDE DEF d
<1>2. b * d \in Nat /\ b * (m + d) = b * m + b * d /\ b * m \in Nat
  BY <1>1
<1>3. QED
  BY <1>1, <1>2

LEMMA OneTimeMore ==
  ASSUME NEW b \in Nat, NEW n \in Int
  PROVE  b * (n - 1) + b = b * n /\ b * n \in Int /\ n * b = b * n
OBVIOUS

\* The number of pieces of so many items, the piece an item is in, and its place there.
Count(n, b)   == (n + b - 1) \div b
PieceAt(p, b) == ((p - 1) \div b) + 1
PlaceAt(p, b) == ((p - 1) % b) + 1

\* How many pieces there are, and where each of them lies.
LEMMA HowMany ==
  ASSUME NEW L \in Nat, NEW b \in Nat \ {0}
  PROVE  /\ Count(L, b) \in Nat /\ L <= b * Count(L, b)
<1> DEFINE K == Count(L, b)
           a == L + b - 1
<1>1. a \in Nat
  OBVIOUS
<1>2. a = L + b - 1 /\ K = a \div b
  BY DEF Count
<1> HIDE DEF a, K
<1>3. K \in Nat /\ K * b <= a /\ a < K * b + b /\ K * b \in Nat
  BY <1>1, <1>2
<1>4. K * b = b * K
  BY <1>3
<1>5. b * K \in Nat /\ b * K <= L + b - 1 /\ L <= b * K
  BY <1>2, <1>3, <1>4
<1>6. QED
  BY <1>3, <1>5 DEF K

LEMMA PieceLies ==
  ASSUME NEW L \in Nat, NEW b \in Nat \ {0}, NEW n \in 1 .. Count(L, b)
  PROVE  /\ b * (n - 1) \in Nat /\ b * n \in Nat
         /\ b * (n - 1) < L /\ b * n = b * (n - 1) + b
         /\ n < Count(L, b) => b * n < L
<1> DEFINE K == Count(L, b)
           a == L + b - 1
<1>1. a \in Nat /\ a = L + b - 1
  OBVIOUS
<1>2. K = a \div b
  BY DEF Count
<1> HIDE DEF a, K
<1>3. K \in Nat /\ K * b <= a /\ K * b \in Nat
  BY <1>1, <1>2
<1>4. K * b = b * K
  BY <1>3
<1>5. b * K \in Nat /\ b * K <= L + b - 1
  BY <1>1, <1>3, <1>4
<1>6. ASSUME NEW m \in 0 .. K - 1
      PROVE  b * m \in Nat /\ b * m < L
  <2>1. m \in Nat /\ K - 1 \in Nat /\ m <= K - 1
    BY <1>3, <1>6
  <2>2. b * m \in Nat /\ b * m <= b * (K - 1)
    BY <2>1, TimesMore
  <2>3. b * (K - 1) + b = b * K /\ b * (K - 1) \in Nat
    BY <2>1, <1>3, OneTimeMore, TimesMore
  <2>4. QED
    BY <1>5, <2>2, <2>3
<1>7. /\ b * (n - 1) \in Nat /\ b * n \in Nat
      /\ b * (n - 1) < L /\ b * n = b * (n - 1) + b
      /\ n < K => b * n < L
  <2>1. n \in Nat /\ n - 1 \in 0 .. K - 1
    BY <1>3 DEF K
  <2>2. b * (n - 1) \in Nat /\ b * (n - 1) < L
    BY <1>6, <2>1
  <2>3. b * n = b * (n - 1) + b
    BY <2>1, OneTimeMore
  <2>4. ASSUME n < K
        PROVE  b * n < L
    <3>1. n \in 0 .. K - 1
      BY <1>3, <2>1, <2>4
    <3>2. QED
      BY <1>6, <3>1
  <2>5. b * n \in Nat
    BY <2>2, <2>3
  <2>6. QED
    BY <2>2, <2>3, <2>4, <2>5
<1>8. QED
  BY <1>7 DEF K

\* Each piece: all but the last are full.
LEMMA CutIs ==
  ASSUME NEW s, Len(s) \in Nat, NEW b \in Nat \ {0}, NEW n \in 1 .. Count(Len(s), b)
  PROVE  \E e \in Nat :
           /\ Pieces(s, b)[n] = SubSeq(s, b * (n - 1) + 1, e)
           /\ b * (n - 1) \in Nat /\ b * (n - 1) < e /\ e <= Len(s) /\ e <= b * (n - 1) + b
           /\ n < Count(Len(s), b) => e = b * (n - 1) + b
           /\ n = Count(Len(s), b) => e = Len(s)
<1> DEFINE L == Len(s)
           K == Count(L, b)
           a == b * (n - 1)
           e == IF b * n < L THEN b * n ELSE L
<1>1. L \in Nat /\ n \in 1 .. K
  OBVIOUS
<1>2. /\ K \in Nat /\ L <= b * K
      /\ a \in Nat /\ b * n \in Nat /\ a < L /\ b * n = a + b
      /\ n < K => b * n < L
  <2> HIDE DEF L
  <2>1. K \in Nat /\ L <= b * K
    BY <1>1, HowMany
  <2>2. /\ b * (n - 1) \in Nat /\ b * n \in Nat
        /\ b * (n - 1) < L /\ b * n = b * (n - 1) + b
        /\ n < K => b * n < L
    BY <1>1, PieceLies
  <2>3. QED
    BY <2>1, <2>2
<1>3. Pieces(s, b)[n] = SubSeq(s, a + 1, e)
  BY DEF Pieces, Count
<1>4. e \in Nat /\ a < e /\ e <= L /\ e <= a + b
      /\ (n < K => e = a + b) /\ (n = K => e = L)
  <2>1. n = K => ~(b * n < L)
    BY <1>1, <1>2
  <2> HIDE DEF a, K, L
  <2>2. CASE b * n < L
    BY <1>1, <1>2, <2>1, <2>2
  <2>3. CASE ~(b * n < L)
    BY <1>1, <1>2, <2>3
  <2>4. QED
    BY <2>2, <2>3
<1> HIDE DEF e, K, L, a
<1>5. /\ Pieces(s, b)[n] = SubSeq(s, a + 1, e)
      /\ e \in Nat /\ a \in Nat /\ a < e /\ e <= L /\ e <= a + b
      /\ (n < K => e = a + b) /\ (n = K => e = L)
  BY <1>2, <1>3, <1>4, Zenon
<1>6. QED
  BY <1>5, Zenon DEF K, L, a

LEMMA PieceIs ==
  ASSUME NEW s, Len(s) \in Nat, NEW b \in Nat \ {0}, NEW n \in 1 .. Count(Len(s), b)
  PROVE  /\ Len(Pieces(s, b)[n]) \in 1 .. b
         /\ n < Count(Len(s), b) => Len(Pieces(s, b)[n]) = b
         /\ n = Count(Len(s), b) => Len(Pieces(s, b)[n]) = Len(s) - b * (n - 1)
<1> DEFINE L == Len(s)
           K == Count(L, b)
           a == b * (n - 1)
           piece == Pieces(s, b)[n]
<1>1. PICK e \in Nat : /\ piece = SubSeq(s, a + 1, e)
                       /\ a \in Nat /\ a < e /\ e <= L /\ e <= a + b
                       /\ n < K => e = a + b
                       /\ n = K => e = L
  BY CutIs, Zenon
<1> DEFINE S == { s[i] : i \in 1 .. L }
<1>2. L \in Nat /\ \A i \in 1 .. L : s[i] \in S
  OBVIOUS
<1> HIDE DEF K, L, a, piece, S
<1>3. a + 1 \in Int /\ e \in Int /\ \A i \in a + 1 .. e : s[i] \in S
  BY <1>1, <1>2
<1>4. Len(SubSeq(s, a + 1, e)) = IF a + 1 <= e THEN e - (a + 1) + 1 ELSE 0
  BY <1>3, SubSeqProperties
<1>5. Len(piece) = e - a
  BY <1>1, <1>4
<1>6. Len(piece) \in 1 .. b /\ (n < K => Len(piece) = b) /\ (n = K => Len(piece) = L - a)
  BY <1>1, <1>2, <1>5
<1>7. QED
  BY <1>6, Zenon DEF K, L, a, piece

\* What the sequence has at a place, the piece has at its own.
PieceHas(s, b, n, k) == Pieces(s, b)[n][k] = s[b * (n - 1) + k]

LEMMA PieceHolds ==
  ASSUME NEW s, Len(s) \in Nat, NEW b \in Nat \ {0}, NEW n \in 1 .. Count(Len(s), b),
         NEW k \in 1 .. Len(Pieces(s, b)[n])
  PROVE  PieceHas(s, b, n, k)
<1> DEFINE L == Len(s)
           a == b * (n - 1)
           piece == Pieces(s, b)[n]
<1>1. PICK e \in Nat : /\ piece = SubSeq(s, a + 1, e)
                       /\ a \in Nat /\ a < e /\ e <= L
  BY CutIs, Zenon
<1> DEFINE S == { s[i] : i \in 1 .. L }
<1>2. L \in Nat /\ (\A i \in 1 .. L : s[i] \in S) /\ k \in 1 .. Len(piece)
  OBVIOUS
<1> HIDE DEF L, a, piece, S
<1>3. a + 1 \in Int /\ e \in Int /\ \A i \in a + 1 .. e : s[i] \in S
  BY <1>1, <1>2
<1>4. /\ Len(SubSeq(s, a + 1, e)) = IF a + 1 <= e THEN e - (a + 1) + 1 ELSE 0
      /\ \A i \in 1 .. e - (a + 1) + 1 : SubSeq(s, a + 1, e)[i] = s[(a + 1) + i - 1]
  BY <1>3, SubSeqProperties
<1>5. k \in 1 .. e - (a + 1) + 1 /\ (a + 1) + k - 1 = a + k
  BY <1>1, <1>2, <1>4
<1>6. piece[k] = s[a + k]
  BY <1>1, <1>4, <1>5
<1>7. QED
  BY <1>6 DEF a, piece, PieceHas

LEMMA PieceInSeq ==
  ASSUME NEW T, NEW s \in Seq(T), NEW b \in Nat \ {0}, NEW n \in 1 .. Count(Len(s), b)
  PROVE  Pieces(s, b)[n] \in Seq(T)
<1> DEFINE L == Len(s)
           a == b * (n - 1)
           piece == Pieces(s, b)[n]
<1>1. L \in Nat /\ \A i \in 1 .. L : s[i] \in T
  BY LenProperties, ElementOfSeq
<1>2. PICK e \in Nat : /\ piece = SubSeq(s, a + 1, e)
                       /\ a \in Nat /\ a < e /\ e <= L
  BY <1>1, CutIs, Zenon
<1> HIDE DEF L, a, piece
<1>3. a + 1 \in Int /\ e \in Int /\ \A i \in a + 1 .. e : s[i] \in T
  BY <1>1, <1>2
<1>4. piece \in Seq(T)
  BY <1>2, <1>3, SubSeqProperties
<1>5. QED
  BY <1>4 DEF piece
LEMMA PiecesAre ==
  ASSUME NEW T, NEW s \in Seq(T), NEW b \in Nat \ {0}
  PROVE  /\ Count(Len(s), b) \in Nat /\ DOMAIN Pieces(s, b) = 1 .. Count(Len(s), b)
         /\ Pieces(s, b) \in Seq(Seq(T)) /\ Len(Pieces(s, b)) = Count(Len(s), b)
<1> DEFINE P == Pieces(s, b)
           L == Len(s)
           K == Count(L, b)
<1>1. K \in Nat
  <2>1. L \in Nat
    BY LenProperties
  <2> HIDE DEF L
  <2>2. QED
    BY <2>1, HowMany
<1>2. DOMAIN P = 1 .. K /\ P = [n \in 1 .. K |-> P[n]]
  BY Zenon DEF Pieces, Count
<1>3. \A n \in 1 .. K : P[n] \in Seq(T)
  BY PieceInSeq, Zenon
<1> HIDE DEF P, K, L
<1>4. P \in [1 .. K -> Seq(T)]
  BY <1>2, <1>3, Zenon
<1>5. P \in Seq(Seq(T))
  BY <1>1, <1>4
<1>6. Len(P) = K
  BY <1>1, <1>2, <1>5, LenProperties
<1>7. QED
  BY <1>1, <1>2, <1>5, <1>6 DEF P, K, L

\* The piece that holds a place, and where in the piece it is.
LEMMA PlaceIs ==
  ASSUME NEW L \in Nat, NEW b \in Nat \ {0}, NEW p \in 1 .. L
  PROVE  /\ PieceAt(p, b) \in 1 .. Count(L, b) /\ PlaceAt(p, b) \in 1 .. b
         /\ p = b * (PieceAt(p, b) - 1) + PlaceAt(p, b)
         /\ PieceAt(p, b) = Count(L, b) => PlaceAt(p, b) \in 1 .. L - b * (PieceAt(p, b) - 1)
<1> DEFINE K == Count(L, b)
           n == PieceAt(p, b)
           k == PlaceAt(p, b)
           o == p - 1
           q == o \div b
           r == o % b
<1>1. o \in Nat /\ p = o + 1 /\ p <= L /\ p \in Nat
  OBVIOUS
<1>2. n = q + 1 /\ k = r + 1
  BY DEF PieceAt, PlaceAt
<1>3. q \in Nat /\ r \in 0 .. b - 1 /\ o = q * b + r
  <2> HIDE DEF o
  <2>1. QED
    BY <1>1, Division, Zenon
<1>4. K \in Nat /\ L <= b * K
  BY HowMany
<1> HIDE DEF o, q, r, n, k, K
<1>5. r \in Nat /\ r < b /\ q * b = b * q /\ b * q \in Nat
  BY <1>3
<1>6. q < K
  <2>1. ASSUME K <= q
        PROVE  FALSE
    <3>1. b * K \in Nat /\ b * K <= b * q
      BY <1>3, <1>4, <2>1, TimesMore
    <3>2. QED
      BY <1>1, <1>3, <1>4, <1>5, <3>1
  <2>2. QED
    BY <1>3, <1>4, <2>1
<1>7. n - 1 = q
  BY <1>2, <1>3
<1>8. p = b * (n - 1) + k
  BY <1>1, <1>2, <1>3, <1>5, <1>7
<1>9. n \in 1 .. K /\ k \in 1 .. b
  BY <1>2, <1>3, <1>4, <1>5, <1>6
<1>10. k <= L - b * (n - 1)
  BY <1>1, <1>2, <1>5, <1>7, <1>8
<1>11. QED
  BY <1>2, <1>5, <1>7, <1>8, <1>9, <1>10 DEF n, k, K

\* Every place of a sequence, found in its pieces.
LEMMA PieceOfPlace ==
  ASSUME NEW T, NEW s \in Seq(T), NEW b \in Nat \ {0}, NEW p \in 1 .. Len(s)
  PROVE  /\ PieceAt(p, b) \in 1 .. Count(Len(s), b)
         /\ PlaceAt(p, b) \in 1 .. Len(Pieces(s, b)[PieceAt(p, b)])
         /\ Pieces(s, b)[PieceAt(p, b)][PlaceAt(p, b)] = s[p]
<1> DEFINE L == Len(s)
           K == Count(L, b)
           n == PieceAt(p, b)
           k == PlaceAt(p, b)
           P == Pieces(s, b)
<1>1. L \in Nat /\ p \in 1 .. L
  BY LenProperties
<1>2. /\ n \in 1 .. K /\ k \in 1 .. b /\ p = b * (n - 1) + k
      /\ n = K => k \in 1 .. L - b * (n - 1)
  <2> HIDE DEF L
  <2>1. QED
    BY <1>1, PlaceIs, Zenon
<1>3. K \in Nat
  BY PiecesAre, Zenon
<1> HIDE DEF n, k
<1>4. /\ n < K => Len(P[n]) = b
      /\ n = K => Len(P[n]) = L - b * (n - 1)
      /\ \A i \in 1 .. Len(P[n]) : P[n][i] = s[b * (n - 1) + i]
  <2>1. n \in 1 .. K
    BY <1>2
  <2>2. ASSUME NEW i \in 1 .. Len(P[n])
        PROVE  P[n][i] = s[b * (n - 1) + i]
    <3>1. PieceHas(s, b, n, i)
      BY <1>1, <2>1, <2>2, PieceHolds, Zenon
    <3>2. QED
      BY <3>1 DEF PieceHas
  <2>3. n < K => Len(P[n]) = b
    BY <1>1, <2>1, PieceIs, Zenon
  <2>4. n = K => Len(P[n]) = L - b * (n - 1)
    BY <1>1, <2>1, PieceIs, Zenon
  <2>5. QED
    BY <2>2, <2>3, <2>4, Zenon
<1> HIDE DEF P, K, L
<1>5. n < K \/ n = K
  BY <1>2, <1>3
<1>6. k \in 1 .. Len(P[n])
  BY <1>2, <1>4, <1>5, Zenon
<1>7. P[n][k] = s[p]
  BY <1>2, <1>4, <1>6, Zenon
<1>8. QED
  BY <1>2, <1>6, <1>7 DEF P, K, L, n, k

LEMMA SequenceIs ==
  ASSUME NEW T, NEW s \in Seq(T)
  PROVE  s = [p \in 1 .. Len(s) |-> s[p]]
BY LenProperties

\* What was cut is put together again.
LEMMA WholeIs ==
  ASSUME NEW T, NEW s \in Seq(T), NEW b \in Nat \ {0}
  PROVE  Whole(Pieces(s, b), b) = s
<1> DEFINE L == Len(s)
           P == Pieces(s, b)
           K == Count(L, b)
           N == IF K = 0 THEN 0 ELSE b * (K - 1) + Len(P[K])
<1>1. L \in Nat
  BY LenProperties
<1>2. K \in Nat /\ Len(P) = K
  BY PiecesAre, Zenon
<1>3. Whole(P, b) = [p \in 1 .. N |-> P[PieceAt(p, b)][PlaceAt(p, b)]]
  BY <1>2, Zenon DEF Whole, PieceAt, PlaceAt
<1>4. \A p \in 1 .. L : P[PieceAt(p, b)][PlaceAt(p, b)] = s[p]
  BY PieceOfPlace, Zenon
<1>5. L <= b * K
  <2> HIDE DEF L
  <2>1. QED
    BY <1>1, HowMany
<1>6. K # 0 => Len(P[K]) = L - b * (K - 1)
  <2>1. ASSUME NEW n \in 1 .. K, n = K
        PROVE  Len(P[n]) = L - b * (n - 1)
    BY <1>1, <2>1, PieceIs, Zenon
  <2> HIDE DEF P, L, K
  <2>2. K # 0 => K \in 1 .. K
    BY <1>2
  <2>3. QED
    BY <2>1, <2>2, Zenon
<1> HIDE DEF P, K, L
<1>7. N = L
  <2>1. CASE K = 0
    <3>1. b * K = 0
      BY <2>1
    <3>2. QED
      BY <1>1, <1>5, <2>1, <3>1
  <2>2. CASE K # 0
    <3>1. b * (K - 1) \in Int
      BY <1>2
    <3>2. QED
      BY <1>1, <1>6, <2>2, <3>1
  <2>3. QED
    BY <2>1, <2>2
<1> HIDE DEF N
<1>8. Whole(P, b) = [p \in 1 .. L |-> s[p]]
  BY <1>3, <1>4, <1>7, Zenon
<1>9. s = [p \in 1 .. L |-> s[p]]
  BY SequenceIs, Zenon DEF L
<1>10. QED
  BY <1>8, <1>9, Zenon DEF P

\* Pieces that are made as long as the others keep what was cut.
LEMMA StartOfWhole ==
  ASSUME NEW T, NEW s \in Seq(T), NEW b \in Nat \ {0},
         NEW Q, Len(Q) = Count(Len(s), b),
         \A n \in 1 .. Count(Len(s), b) :
           /\ Len(Q[n]) = b
           /\ \A k \in 1 .. Len(Pieces(s, b)[n]) : Q[n][k] = Pieces(s, b)[n][k]
  PROVE  SubSeq(Whole(Q, b), 1, Len(s)) = s
<1> DEFINE L == Len(s)
           P == Pieces(s, b)
           K == Count(L, b)
           N == IF K = 0 THEN 0 ELSE b * (K - 1) + Len(Q[K])
           W == Whole(Q, b)
           At(p) == Q[PieceAt(p, b)][PlaceAt(p, b)]
<1>1. L \in Nat
  BY LenProperties
<1>2. K \in Nat
  BY PiecesAre, Zenon
<1>3. W = [p \in 1 .. N |-> At(p)]
  BY Zenon DEF Whole, PieceAt, PlaceAt
<1>4. ASSUME NEW p \in 1 .. L
      PROVE  At(p) = s[p]
  <2> DEFINE n == PieceAt(p, b)
             k == PlaceAt(p, b)
  <2>1. n \in 1 .. K /\ k \in 1 .. Len(P[n]) /\ P[n][k] = s[p]
    BY <1>4, PieceOfPlace, Zenon
  <2>2. At(p) = Q[n][k]
    OBVIOUS
  <2> HIDE DEF n, k, At
  <2>3. \A i \in 1 .. Len(P[n]) : Q[n][i] = P[n][i]
    BY <2>1, Zenon
  <2> HIDE DEF P
  <2>4. QED
    BY <2>1, <2>2, <2>3, Zenon
<1>5. L <= b * K
  <2> HIDE DEF L
  <2>1. QED
    BY <1>1, HowMany
<1>6. \A n \in 1 .. K : Len(Q[n]) = b
  OBVIOUS
<1> HIDE DEF At, L, P, K
<1>7. N \in Nat /\ L <= N
  <2>1. CASE K = 0
    <3>1. b * K = 0
      BY <2>1
    <3>2. QED
      BY <1>1, <1>5, <2>1, <3>1
  <2>2. CASE K # 0
    <3>1. K \in 1 .. K
      BY <1>2, <2>2
    <3>2. Len(Q[K]) = b
      BY <1>6, <3>1, Zenon
    <3>3. b * (K - 1) + b = b * K /\ b * K \in Int
      BY <1>2, OneTimeMore
    <3>4. N = b * K
      BY <2>2, <3>2, <3>3, Zenon
    <3>5. QED
      BY <1>1, <1>5, <3>3, <3>4
  <2>3. QED
    BY <2>1, <2>2
<1> HIDE DEF N, W
<1>8. \A p \in 1 .. L : W[p] = s[p]
  <2>1. \A p \in 1 .. L : p \in 1 .. N
    BY <1>1, <1>7
  <2>2. QED
    BY <1>3, <1>4, <2>1, Zenon
<1>9. \A p \in 1 .. L : s[p] \in T
  BY ElementOfSeq DEF L
<1> DEFINE start == SubSeq(W, 1, L)
<1>10. /\ start \in Seq(T) /\ Len(start) = IF 1 <= L THEN L - 1 + 1 ELSE 0
      /\ \A i \in 1 .. L - 1 + 1 : start[i] = W[1 + i - 1]
  <2>1. 1 \in Int /\ L \in Int /\ \A i \in 1 .. L : W[i] \in T
    BY <1>1, <1>8, <1>9
  <2>2. QED
    BY <2>1, SubSeqProperties
<1> HIDE DEF start
<1>11. Len(start) = L /\ \A i \in 1 .. L : start[i] = s[i]
  <2>1. Len(start) = L
    BY <1>1, <1>10
  <2>2. \A i \in 1 .. L : i \in 1 .. L - 1 + 1 /\ 1 + i - 1 = i
    BY <1>1
  <2>3. QED
    BY <1>8, <1>10, <2>1, <2>2
<1>12. start = s
  BY <1>10, <1>11, SeqEqual DEF L
<1>13. QED
  BY <1>12 DEF start, W, L
-----------------------------------------------------------------------------
(* The frames of a blob.                                                   *)

LEMMA ConstantsAre ==
  /\ BlockSize \in Nat \ {0} /\ MtuPayload \in Nat \ {0}
  /\ SeqSize \in Nat \ {0} /\ SeqSize <= 256
BY PackConstantsOK DEF PackConstantsOK

\* The marker's second byte is the complement of its first.
LEMMA Complement ==
  ASSUME NEW S \in Nat \ {0}, NEW n \in Nat
  PROVE  /\ n % S \in 0 .. S - 1 /\ (S - 1 - n) % S \in 0 .. S - 1
         /\ ((n % S) + ((S - 1 - n) % S) + 1) % S = 0
<1> DEFINE q == n \div S
           r == n % S
           t == S - 1 - r
           m == 0 - q
<1>1. q \in Nat /\ r \in 0 .. S - 1 /\ n = q * S + r
  BY Division, Zenon
<1> HIDE DEF q, r
<1>2. t \in Int /\ 0 <= t /\ t < S /\ m \in Int
  BY <1>1
<1>3. S - 1 - n = m * S + t
  <2>1. m * S = 0 - q * S /\ q * S \in Int
    BY <1>1
  <2>2. t = S - 1 - r
    OBVIOUS
  <2> HIDE DEF m, t
  <2>3. QED
    BY <1>1, <1>2, <2>1, <2>2
<1>4. r + t + 1 = S
  BY <1>1
<1> HIDE DEF m, t
<1>5. (m * S + t) % S = t
  BY <1>2
<1>6. S % S = 0
  OBVIOUS
<1>7. t \in 0 .. S - 1
  BY <1>2
<1>8. (S - 1 - n) % S = t
  BY <1>3, <1>5, Zenon
<1>9. r + ((S - 1 - n) % S) + 1 = S
  BY <1>4, <1>8, Zenon
<1>10. QED
  BY <1>1, <1>6, <1>7, <1>8, <1>9, Zenon DEF r

LEMMA PaddedIs ==
  ASSUME NEW block \in Seq(Byte), Len(block) <= BlockSize
  PROVE  /\ Padded(block) \in Seq(Byte) /\ Len(Padded(block)) = BlockSize
         /\ \A k \in 1 .. Len(block) : Padded(block)[k] = block[k]
<1> DEFINE B == BlockSize
           N == Len(block)
           pad == [i \in 1 .. (B - N) |-> \h1a]
<1>1. B \in Nat /\ N \in Nat /\ N <= B /\ B - N \in Nat
  BY ConstantsAre, LenProperties
<1>2. \h1a \in Byte
  BY DEF Byte
<1> HIDE DEF B, N
<1>3. pad \in Seq(Byte) /\ Len(pad) = B - N
  <2>1. pad \in [1 .. (B - N) -> Byte]
    BY <1>2
  <2>2. pad \in Seq(Byte) /\ DOMAIN pad = 1 .. B - N
    BY <1>1, <2>1
  <2> HIDE DEF pad
  <2>3. QED
    BY <1>1, <2>2, LenProperties
<1>4. Padded(block) = block \o pad
  BY DEF Padded, B, N
<1> HIDE DEF pad
<1>5. /\ block \o pad \in Seq(Byte) /\ Len(block \o pad) = Len(block) + Len(pad)
      /\ \A i \in 1 .. Len(block) + Len(pad) :
           (block \o pad)[i] = IF i <= Len(block) THEN block[i] ELSE pad[i - Len(block)]
  BY <1>3, ConcatProperties
<1>6. Padded(block) \in Seq(Byte) /\ Len(Padded(block)) = B
  BY <1>1, <1>3, <1>4, <1>5 DEF N
<1>7. ASSUME NEW k \in 1 .. N
      PROVE  Padded(block)[k] = block[k]
  <2>1. k \in 1 .. N + (B - N) /\ k <= N
    BY <1>1, <1>7
  <2>2. QED
    BY <1>3, <1>4, <1>5, <2>1 DEF N
<1>8. QED
  BY <1>6, <1>7 DEF B, N

LEMMA PartIs ==
  ASSUME NEW frame, NEW block \in Seq(Byte),
         \A i \in 1 .. Len(block) : frame[4 + i - 1] = block[i]
  PROVE  SubSeq(frame, 4, Len(block) + 3) = block
<1> DEFINE N == Len(block)
           part == SubSeq(frame, 4, N + 3)
<1>1. N \in Nat /\ \A i \in 1 .. N : block[i] \in Byte
  BY LenProperties, ElementOfSeq
<1>2. \A i \in 1 .. N : frame[4 + i - 1] = block[i]
  OBVIOUS
<1> HIDE DEF N
<1>3. ASSUME NEW i \in 4 .. N + 3
      PROVE  frame[i] \in Byte
  <2>1. i - 3 \in 1 .. N /\ 4 + (i - 3) - 1 = i
    BY <1>1, <1>3
  <2>2. QED
    BY <1>1, <1>2, <2>1
<1>4. /\ part \in Seq(Byte) /\ Len(part) = IF 4 <= N + 3 THEN (N + 3) - 4 + 1 ELSE 0
      /\ \A i \in 1 .. (N + 3) - 4 + 1 : part[i] = frame[4 + i - 1]
  <2>1. 4 \in Int /\ N + 3 \in Int
    BY <1>1
  <2>2. QED
    BY <1>3, <2>1, SubSeqProperties
<1> HIDE DEF part
<1>5. Len(part) = N
  BY <1>1, <1>4
<1>6. \A i \in 1 .. N : i \in 1 .. (N + 3) - 4 + 1
  BY <1>1
<1>7. \A i \in 1 .. N : part[i] = block[i]
  BY <1>2, <1>4, <1>6
<1>8. part = block
  BY <1>4, <1>5, <1>7, SeqEqual DEF N
<1>9. QED
  BY <1>8 DEF part, N

\* Three bytes before and two behind: what is between, and from there on.
Encloses(frame, head, block, tail) ==
  /\ frame \in Seq(Byte) /\ Len(frame) = Len(block) + 5
  /\ frame[1] = head[1] /\ frame[2] = head[2] /\ frame[3] = head[3]
  /\ SubSeq(frame, 4, Len(block) + 3) = block
  /\ SubSeq(frame, 4, Len(frame)) = block \o tail

LEMMA Between ==
  ASSUME NEW head \in Seq(Byte), Len(head) = 3, NEW block \in Seq(Byte),
         NEW tail \in Seq(Byte), Len(tail) = 2, NEW frame, frame = head \o block \o tail
  PROVE  Encloses(frame, head, block, tail)
<1> DEFINE N == Len(block)
           body == block \o tail
<1>1. N \in Nat
  BY LenProperties
<1>2. body \in Seq(Byte) /\ Len(body) = N + 2 /\ \A i \in 1 .. N : body[i] = block[i]
  <2>1. /\ block \o tail \in Seq(Byte) /\ Len(block \o tail) = Len(block) + Len(tail)
        /\ \A i \in 1 .. Len(block) + Len(tail) :
             (block \o tail)[i] = IF i <= Len(block) THEN block[i] ELSE tail[i - Len(block)]
    BY ConcatProperties
  <2> HIDE DEF N
  <2>2. \A i \in 1 .. N : i \in 1 .. N + 2 /\ i <= N
    BY <1>1
  <2>3. QED
    BY <2>1, <2>2 DEF N
<1>3. frame = head \o body
  BY ConcatAssociative
<1> HIDE DEF body, N
<1>4. /\ frame \in Seq(Byte) /\ Len(frame) = N + 5
      /\ \A i \in 1 .. N + 5 : frame[i] = IF i <= 3 THEN head[i] ELSE body[i - 3]
  <2>1. /\ head \o body \in Seq(Byte) /\ Len(head \o body) = Len(head) + Len(body)
        /\ \A i \in 1 .. Len(head) + Len(body) :
             (head \o body)[i] = IF i <= Len(head) THEN head[i] ELSE body[i - Len(head)]
    BY <1>2, ConcatProperties
  <2>2. Len(head) + Len(body) = N + 5
    BY <1>1, <1>2
  <2>3. QED
    BY <1>3, <2>1, <2>2
<1>5. frame[1] = head[1] /\ frame[2] = head[2] /\ frame[3] = head[3]
  <2>1. /\ 1 \in 1 .. N + 5 /\ 2 \in 1 .. N + 5 /\ 3 \in 1 .. N + 5
        /\ 1 <= 3 /\ 2 <= 3 /\ 3 <= 3
    BY <1>1
  <2>2. QED
    BY <1>4, <2>1, Zenon
<1>6. \A i \in 1 .. N + 2 : frame[4 + i - 1] = body[i]
  <2>1. \A i \in 1 .. N + 2 : /\ 4 + i - 1 \in 1 .. N + 5 /\ ~(4 + i - 1 <= 3)
                              /\ (4 + i - 1) - 3 = i
    BY <1>1
  <2>2. QED
    BY <1>4, <2>1
<1>7. SubSeq(frame, 4, N + 3) = block
  <2>1. \A i \in 1 .. N : i \in 1 .. N + 2
    BY <1>1
  <2>2. \A i \in 1 .. Len(block) : frame[4 + i - 1] = block[i]
    BY <1>2, <1>6, <2>1 DEF N
  <2>3. QED
    BY <2>2, PartIs DEF N
<1>8. SubSeq(frame, 4, N + 5) = body
  <2>1. SubSeq(frame, 4, Len(body) + 3) = body
    BY <1>2, <1>6, PartIs
  <2>2. Len(body) + 3 = N + 5
    BY <1>1, <1>2
  <2>3. QED
    BY <2>1, <2>2
<1>9. QED
  BY <1>4, <1>5, <1>7, <1>8 DEF Encloses, N, body

LEMMA FrameIs ==
  ASSUME NEW n \in Nat, NEW block \in Seq(Byte), Len(block) = BlockSize
  PROVE  /\ FrameDataBlock(n, block) \in Seq(Byte)
         /\ Accepts(n, FrameDataBlock(n, block))
         /\ SubSeq(FrameDataBlock(n, block), 4, BlockSize + 3) = block
<1> DEFINE a == n % SeqSize
           z == (SeqSize - 1 - n) % SeqSize
           head == <<2, a, z>>
           crc == Crc16Xmodem(block)
           tail == BigEndian(crc)
           frame == FrameDataBlock(n, block)
<1>1. a \in 0 .. SeqSize - 1 /\ z \in 0 .. SeqSize - 1 /\ (a + z + 1) % SeqSize = 0
  BY ConstantsAre, Complement, Zenon
<1>2. frame = head \o block \o tail
  BY DEF FrameDataBlock
<1>3. Crc16Xmodem(block \o tail) = 0
  BY CheckIsZero, Zenon
<1>4. tail \in Seq(Byte) /\ Len(tail) = 2
  <2>1. crc \in Word
    <3>1. Len(block) \in Nat
      BY LenProperties
    <3>2. Len(block) \in 0 .. Len(block)
      BY <3>1
    <3>3. QED
      BY <3>2, CrcIsWord DEF Crc16Xmodem
  <2> HIDE DEF crc
  <2>2. QED
    BY <2>1, TwoBytes DEF BigEndian
<1> HIDE DEF a, z, crc, tail, frame
<1>5. a \in Byte /\ z \in Byte /\ 2 \in Byte
  BY <1>1, ConstantsAre DEF Byte
<1>6. head \in Seq(Byte) /\ Len(head) = 3 /\ head[1] = 2 /\ head[2] = a /\ head[3] = z
  BY <1>5
<1> HIDE DEF head
<1>7. /\ frame \in Seq(Byte) /\ Len(frame) = Len(block) + 5
      /\ frame[1] = head[1] /\ frame[2] = head[2] /\ frame[3] = head[3]
      /\ SubSeq(frame, 4, Len(block) + 3) = block
      /\ SubSeq(frame, 4, Len(frame)) = block \o tail
  <2>1. Encloses(frame, head, block, tail)
    BY <1>2, <1>4, <1>6, Between, Zenon
  <2>2. QED
    BY <2>1 DEF Encloses
<1>8. frame[1] = 2 /\ frame[2] = a /\ (frame[2] + frame[3] + 1) % SeqSize = 0
  BY <1>1, <1>6, <1>7, Zenon
<1>9. Accepts(n, frame)
  BY <1>3, <1>7, <1>8, Zenon DEF Accepts, a
<1>10. QED
  BY <1>7, <1>9, Zenon DEF frame
\* The prefix of a write, taken off again.
LEMMA TailIs ==
  ASSUME NEW a \in Byte, NEW t \in Seq(Byte)
  PROVE  /\ Tail(<<a>> \o t) = t /\ (<<a>> \o t)[1] = a /\ Len(<<a>> \o t) = Len(t) + 1
<1> DEFINE u == <<a>>
           v == u \o t
           N == Len(t)
<1>1. u \in Seq(Byte) /\ Len(u) = 1 /\ u[1] = a
  OBVIOUS
<1>2. N \in Nat
  BY LenProperties
<1> HIDE DEF u, N
<1>3. /\ v \in Seq(Byte) /\ Len(v) = 1 + N
      /\ \A i \in 1 .. 1 + N : v[i] = IF i <= 1 THEN u[i] ELSE t[i - 1]
  <2>1. /\ u \o t \in Seq(Byte) /\ Len(u \o t) = Len(u) + Len(t)
        /\ \A i \in 1 .. Len(u) + Len(t) :
             (u \o t)[i] = IF i <= Len(u) THEN u[i] ELSE t[i - Len(u)]
    BY <1>1, ConcatProperties
  <2>2. QED
    BY <1>1, <2>1 DEF N
<1> HIDE DEF v
<1>4. v[1] = a
  BY <1>1, <1>2, <1>3, 1 \in 1 .. 1 + N
<1>5. v # <<>>
  BY <1>2, <1>3
<1>6. /\ Tail(v) \in Seq(Byte) /\ Len(Tail(v)) = N
      /\ \A i \in 1 .. N : Tail(v)[i] = v[i + 1]
  BY <1>2, <1>3, <1>5, HeadTailProperties
<1>7. \A i \in 1 .. N : i + 1 \in 1 .. 1 + N /\ ~(i + 1 <= 1) /\ (i + 1) - 1 = i
  BY <1>2
<1>8. \A i \in 1 .. N : Tail(v)[i] = t[i]
  BY <1>3, <1>6, <1>7
<1>9. Tail(v) = t
  BY <1>6, <1>8, SeqEqual DEF N
<1>10. Len(v) = N + 1
  BY <1>2, <1>3
<1>11. QED
  BY <1>4, <1>9, <1>10 DEF v, u, N

\* The writes of a frame.
Writes(frame) == LET cut == Pieces(frame, MtuPayload) IN [w \in DOMAIN cut |-> <<\h11>> \o cut[w]]

LEMMA WritesAre ==
  ASSUME NEW frame \in Seq(Byte)
  PROVE  WellCut(Writes(frame)) /\ Whole(Payloads(Writes(frame)), MtuPayload) = frame
<1> DEFINE M == MtuPayload
           cut == Pieces(frame, M)
           group == Writes(frame)
           L == Len(frame)
           K == Count(L, M)
<1>1. M \in Nat \ {0} /\ L \in Nat
  BY ConstantsAre, LenProperties
<1>2. K \in Nat /\ DOMAIN cut = 1 .. K /\ cut = [w \in 1 .. K |-> cut[w]]
  <2>1. K \in Nat /\ DOMAIN cut = 1 .. K
    BY <1>1, PiecesAre, Zenon
  <2>2. cut = [w \in DOMAIN cut |-> cut[w]]
    BY Zenon DEF Pieces
  <2>3. QED
    BY <2>1, <2>2, Zenon
<1>3. group = [w \in 1 .. K |-> <<\h11>> \o cut[w]]
  BY <1>2, Zenon DEF Writes
<1>4. \h11 \in Byte
  BY DEF Byte
<1>5. ASSUME NEW w \in 1 .. K
      PROVE  /\ cut[w] \in Seq(Byte) /\ Len(cut[w]) \in 1 .. M
             /\ w < K => Len(cut[w]) = M
  <2>1. cut[w] \in Seq(Byte)
    BY <1>1, <1>5, PieceInSeq, Zenon
  <2>2. Len(cut[w]) \in 1 .. M
    BY <1>1, <1>5, PieceIs, Zenon
  <2>3. w < K => Len(cut[w]) = M
    BY <1>1, <1>5, PieceIs, Zenon
  <2>4. QED
    BY <2>1, <2>2, <2>3, Zenon
<1>6. Whole(cut, M) = frame
  BY <1>1, WholeIs, Zenon
<1> HIDE DEF M, cut, group, L, K
<1>7. ASSUME NEW w \in 1 .. K
      PROVE  /\ group[w] \in Seq(Byte) /\ Tail(group[w]) = cut[w]
             /\ group[w][1] = \h11 /\ Len(group[w]) = Len(cut[w]) + 1
  <2>1. cut[w] \in Seq(Byte)
    BY <1>5, <1>7, Zenon
  <2>2. group[w] = <<\h11>> \o cut[w]
    BY <1>3, <1>7, Zenon
  <2> DEFINE t == cut[w]
             a == \h11
  <2> HIDE DEF t, a
  <2>3. t \in Seq(Byte) /\ a \in Byte /\ group[w] = <<a>> \o t
    BY <1>4, <2>1, <2>2, Zenon DEF t, a
  <2>4. /\ Tail(<<a>> \o t) = t /\ (<<a>> \o t)[1] = a /\ Len(<<a>> \o t) = Len(t) + 1
    BY <2>3, TailIs, Zenon
  <2>5. <<a>> \o t \in Seq(Byte)
    <3>1. <<a>> \in Seq(Byte)
      BY <2>3
    <3>2. QED
      BY <2>3, <3>1, ConcatProperties
  <2>6. QED
    BY <2>3, <2>4, <2>5, Zenon DEF t, a
<1>8. DOMAIN group = 1 .. K /\ Len(group) = K
  <2>1. DOMAIN group = 1 .. K
    BY <1>3, Zenon
  <2>2. group = [w \in 1 .. K |-> group[w]]
    BY <1>3, Zenon
  <2>3. group \in [1 .. K -> Seq(Byte)]
    BY <1>7, <2>2, Zenon
  <2>4. group \in Seq(Seq(Byte))
    BY <1>2, <2>3
  <2>5. QED
    BY <1>2, <2>1, <2>4, LenProperties
<1>9. Payloads(group) = cut
  <2>1. Payloads(group) = [w \in 1 .. K |-> Tail(group[w])]
    BY <1>8, Zenon DEF Payloads
  <2>2. QED
    BY <1>2, <1>7, <2>1, Zenon
<1>10. ASSUME NEW w \in DOMAIN group
       PROVE  /\ group[w][1] = \h11 /\ Len(group[w]) <= M + 1
              /\ w < Len(group) => Len(group[w]) = M + 1
  <2>1. w \in 1 .. K
    BY <1>8, <1>10
  <2>2. Len(cut[w]) \in 1 .. M /\ (w < K => Len(cut[w]) = M)
    BY <1>5, <2>1
  <2>3. group[w][1] = \h11
    BY <1>7, <2>1
  <2>4. Len(group[w]) = Len(cut[w]) + 1
    BY <1>7, <2>1
  <2>5. QED
    BY <1>1, <1>8, <2>2, <2>3, <2>4
<1>11. WellCut(group)
  BY <1>10, Zenon DEF WellCut, M
<1>12. QED
  BY <1>6, <1>9, <1>11, Zenon DEF group, M

\* What the plan of a blob puts on the lock.
Arrives(plan, blob) ==
  /\ \A n \in DOMAIN plan.groups :
       WellCut(plan.groups[n]) /\ Accepts(n, Frames(plan)[n])
  /\ plan.size = Len(blob) /\ SubSeq(Image(plan), 1, plan.size) = blob

LEMMA PlanArrives ==
  ASSUME NEW blob \in Seq(Byte)
  PROVE  Arrives(DataPlan(blob), blob)
<1> DEFINE B == BlockSize
           blocks == Pieces(blob, B)
           L == Len(blob)
           K == Count(L, B)
           frames == DataFrames(blob)
           plan == DataPlan(blob)
<1>1. B \in Nat \ {0} /\ L \in Nat
  BY ConstantsAre, LenProperties
<1>2. K \in Nat /\ DOMAIN blocks = 1 .. K
  BY <1>1, PiecesAre, Zenon
<1>3. frames = [n \in 1 .. K |-> FrameDataBlock(n, Padded(blocks[n]))]
  BY <1>2, Zenon DEF DataFrames
<1>4. ASSUME NEW n \in 1 .. K
      PROVE  /\ blocks[n] \in Seq(Byte) /\ Len(blocks[n]) \in 1 .. B
  <2>1. blocks[n] \in Seq(Byte)
    BY <1>1, <1>4, PieceInSeq, Zenon
  <2>2. Len(blocks[n]) \in 1 .. B
    BY <1>1, <1>4, PieceIs, Zenon
  <2>3. QED
    BY <2>1, <2>2, Zenon
<1>5. plan = [size |-> L, groups |-> [n \in DOMAIN frames |-> Writes(frames[n])]]
  BY Zenon DEF DataPlan, Writes
<1> HIDE DEF frames, plan, K
<1>6. plan.size = L /\ plan.groups = [n \in 1 .. K |-> Writes(frames[n])]
  <2>1. DOMAIN frames = 1 .. K
    BY <1>3, Zenon
  <2>2. plan.size = L /\ plan.groups = [n \in DOMAIN frames |-> Writes(frames[n])]
    BY <1>5
  <2>3. QED
    BY <2>1, <2>2, Zenon
<1> HIDE DEF blocks, B, L
<1>7. ASSUME NEW n \in 1 .. K
      PROVE  /\ frames[n] \in Seq(Byte) /\ Accepts(n, frames[n])
             /\ SubSeq(frames[n], 4, B + 3) = Padded(blocks[n])
             /\ Len(Padded(blocks[n])) = B
             /\ \A k \in 1 .. Len(blocks[n]) : Padded(blocks[n])[k] = blocks[n][k]
  <2> DEFINE block == blocks[n]
             whole == Padded(block)
  <2>1. n \in Nat
    BY <1>2, <1>7
  <2>2. block \in Seq(Byte) /\ Len(block) \in 1 .. B
    BY <1>4, <1>7
  <2>3. Len(block) <= BlockSize
    BY <1>1, <2>2 DEF B
  <2> HIDE DEF block
  <2>4. /\ whole \in Seq(Byte) /\ Len(whole) = BlockSize
        /\ \A k \in 1 .. Len(block) : whole[k] = block[k]
    BY <2>2, <2>3, PaddedIs
  <2>5. frames[n] = FrameDataBlock(n, whole)
    BY <1>3, <1>7, Zenon DEF block
  <2> HIDE DEF whole
  <2>6. /\ FrameDataBlock(n, whole) \in Seq(Byte)
        /\ Accepts(n, FrameDataBlock(n, whole))
        /\ SubSeq(FrameDataBlock(n, whole), 4, BlockSize + 3) = whole
    BY <2>1, <2>4, FrameIs
  <2>7. QED
    BY <2>4, <2>5, <2>6, Zenon DEF block, whole, B
<1>8. ASSUME NEW n \in 1 .. K
      PROVE  /\ WellCut(plan.groups[n])
             /\ Whole(Payloads(plan.groups[n]), MtuPayload) = frames[n]
  <2>1. frames[n] \in Seq(Byte)
    BY <1>7, <1>8, Zenon
  <2>2. plan.groups[n] = Writes(frames[n])
    BY <1>6, <1>8, Zenon
  <2>3. WellCut(Writes(frames[n])) /\ Whole(Payloads(Writes(frames[n])), MtuPayload) = frames[n]
    BY <2>1, WritesAre, Zenon
  <2>4. QED
    BY <2>2, <2>3, Zenon
<1>9. DOMAIN plan.groups = 1 .. K
  BY <1>6, Zenon
<1>10. \A n \in 1 .. K : Frames(plan)[n] = frames[n]
  BY <1>8, <1>9, Zenon DEF Frames
<1> DEFINE Q == [n \in 1 .. K |-> SubSeq(Frames(plan)[n], 4, B + 3)]
<1>11. Image(plan) = Whole(Q, B)
  BY <1>9, Zenon DEF Image, B
<1>12. \A n \in 1 .. K : Q[n] = Padded(blocks[n])
  BY <1>7, <1>10, Zenon
<1>13. Len(Q) = K
  <2> DEFINE U == { Q[n] : n \in 1 .. K }
  <2>1. DOMAIN Q = 1 .. K /\ \A n \in 1 .. K : Q[n] \in U
    BY Zenon
  <2>2. Q = [n \in 1 .. K |-> Q[n]]
    BY Zenon
  <2> HIDE DEF Q, U
  <2>3. Q \in [1 .. K -> U]
    BY <2>1, <2>2, Zenon
  <2>4. Q \in Seq(U)
    BY <1>2, <2>3
  <2>5. QED
    BY <1>2, <2>1, <2>4, LenProperties
<1> HIDE DEF Q
<1>14. ASSUME NEW n \in 1 .. K
       PROVE  /\ Len(Q[n]) = B
              /\ \A k \in 1 .. Len(blocks[n]) : Q[n][k] = blocks[n][k]
  <2>1. Q[n] = Padded(blocks[n])
    BY <1>12, <1>14, Zenon
  <2>2. /\ Len(Padded(blocks[n])) = B
        /\ \A k \in 1 .. Len(blocks[n]) : Padded(blocks[n])[k] = blocks[n][k]
    BY <1>7, <1>14, Zenon
  <2>3. QED
    BY <2>1, <2>2, Zenon
<1>15. SubSeq(Whole(Q, B), 1, L) = blob
  <2>1. \A n \in 1 .. Count(Len(blob), B) :
          /\ Len(Q[n]) = B
          /\ \A k \in 1 .. Len(Pieces(blob, B)[n]) : Q[n][k] = Pieces(blob, B)[n][k]
    BY <1>14, Zenon DEF K, L, blocks
  <2>2. Len(Q) = Count(Len(blob), B)
    BY <1>13, Zenon DEF K, L
  <2>3. SubSeq(Whole(Q, B), 1, Len(blob)) = blob
    BY <1>1, <2>1, <2>2, StartOfWhole
  <2>4. QED
    BY <2>3, Zenon DEF L
<1>16. SubSeq(Image(plan), 1, plan.size) = blob
  BY <1>6, <1>11, <1>15, Zenon
<1>17. ASSUME NEW n \in DOMAIN plan.groups
       PROVE  WellCut(plan.groups[n]) /\ Accepts(n, Frames(plan)[n])
  <2>1. n \in 1 .. K
    BY <1>9, <1>17, Zenon
  <2>2. WellCut(plan.groups[n])
    BY <1>8, <2>1, Zenon
  <2>3. Accepts(n, frames[n]) /\ Frames(plan)[n] = frames[n]
    BY <1>7, <1>10, <2>1, Zenon
  <2>4. QED
    BY <2>2, <2>3, Zenon
<1>18. Arrives(plan, blob)
  BY <1>6, <1>16, <1>17, Zenon DEF Arrives, L
<1>19. QED
  BY <1>18 DEF plan
-----------------------------------------------------------------------------
(* The choice of a pack.                                                   *)

\* The rows that answer to the language, and what the cloud's list may be.
Hits(payload, language) ==
  { i \in DOMAIN payload.rows :
      payload.rows[i].files # "broken"
      /\ language \in {payload.rows[i].lang, payload.rows[i].name, payload.rows[i].code} }

IsListed(payload) == payload.code \in {"0", "none"}

IsList(payload) ==
  /\ payload.result \in {"bare", "keyed", "other"}
  /\ DOMAIN payload.rows \subseteq Nat
  /\ \A i \in DOMAIN payload.rows :
       payload.rows[i].files \in {"list", "text", "wrapped", "broken"}

LEMMA ListIs ==
  ASSUME NEW payload, NEW language, IsList(payload), IsListed(payload)
  PROVE  /\ ParseVoiceList(payload).ok
         /\ { i \in ParseVoiceList(payload).what : Answers(payload.rows[i], language) }
              = IF payload.result = "other" THEN {} ELSE Hits(payload, language)
<1> DEFINE kept == { i \in DOMAIN payload.rows : Readable(payload.rows[i]) }
<1>1. CASE payload.result = "other"
  <2>1. ParseVoiceList(payload) = Got({})
    BY <1>1 DEF ParseVoiceList, IsListed
  <2>2. QED
    BY <1>1, <2>1 DEF Got
<1>2. CASE payload.result # "other"
  <2>1. ParseVoiceList(payload) = Got(kept)
    BY <1>2 DEF ParseVoiceList, IsListed, IsList
  <2>2. Got(kept).ok /\ Got(kept).what = kept
    BY DEF Got
  <2>3. \A i \in DOMAIN payload.rows :
          Readable(payload.rows[i]) <=> payload.rows[i].files # "broken"
    BY DEF IsList, Readable
  <2>4. { i \in kept : Answers(payload.rows[i], language) } = Hits(payload, language)
    BY <2>3, Zenon DEF Hits, Answers
  <2>5. QED
    BY <1>2, <2>1, <2>2, <2>4, Zenon
<1>3. QED
  BY <1>1, <1>2

\* What the preparation comes to, by the rows that answer.
Comes(got, payload, language, served, verify) ==
  LET hits == Hits(payload, language) IN
  \/ got = Failed("code") /\ ~IsListed(payload)
  \/ got = Failed("no pack") /\ (hits = {} \/ payload.result = "other")
  \/ /\ got = Failed("ambiguous")
     /\ \E i, j \in hits : payload.rows[i].file # payload.rows[j].file
  \/ /\ got = Failed("md5") /\ verify /\ hits # {}
     /\ payload.rows[Min(hits)].md5 \notin {NoMd5, served}
  \/ \E i \in hits :
       /\ IsListed(payload) /\ i = Min(hits)
       /\ \A j \in hits : payload.rows[j].file = payload.rows[i].file
       /\ verify => payload.rows[i].md5 \in {NoMd5, served}
       /\ got = Got([file |-> payload.rows[i].file, plan |-> DataPlan(served)])

LEMMA PrepareComes ==
  ASSUME NEW payload, NEW language, NEW served, NEW verify, IsList(payload)
  PROVE  Comes(Prepare(payload, language, served, verify), payload, language, served, verify)
<1> DEFINE got == Prepare(payload, language, served, verify)
           listed == ParseVoiceList(payload)
           rows == payload.rows
           hits == Hits(payload, language)
           answering == { i \in listed.what : Answers(rows[i], language) }
           picked == SelectVoicePack(rows, listed.what, language)
           blob == Download(picked.what, served, verify)
<1>1. \A x : Failed(x).ok = FALSE
  BY DEF Failed
<1>2. \A x : Got(x).ok = TRUE /\ Got(x).what = x
  BY DEF Got
<1>3. CASE ~IsListed(payload)
  <2>1. listed = Failed("code")
    BY <1>3, Zenon DEF ParseVoiceList, IsListed
  <2>2. got = listed
    BY <1>1, <2>1, Zenon DEF Prepare
  <2>3. QED
    BY <1>3, <2>1, <2>2, Zenon DEF Comes
<1>4. CASE IsListed(payload)
  <2>1. listed.ok /\ answering = IF payload.result = "other" THEN {} ELSE hits
    BY <1>4, ListIs, Zenon
  <2>2. got = IF ~picked.ok THEN picked ELSE
              IF ~blob.ok THEN blob ELSE Got([file |-> picked.what.file, plan |-> DataPlan(blob.what)])
    BY <2>1, Zenon DEF Prepare
  <2>3. picked = IF answering = {} THEN Failed("no pack")
                 ELSE IF \E i, j \in answering : rows[i].file # rows[j].file THEN Failed("ambiguous")
                 ELSE Got(rows[Min(answering)])
    BY Zenon DEF SelectVoicePack
  <2>4. answering = hits \/ (answering = {} /\ payload.result = "other")
    BY <2>1
  <2>5. hits \subseteq Nat
    BY DEF Hits, IsList
  <2> HIDE DEF got, answering, picked, blob, rows, hits
  <2>6. CASE answering = {}
    <3>1. got = Failed("no pack")
      BY <1>1, <2>2, <2>3, <2>6, Zenon
    <3>2. QED
      BY <2>4, <2>6, <3>1, Zenon DEF Comes, got, hits
  <2>7. CASE answering # {} /\ \E i, j \in answering : rows[i].file # rows[j].file
    <3>1. got = Failed("ambiguous")
      BY <1>1, <2>2, <2>3, <2>7, Zenon
    <3>2. answering = hits
      BY <2>4, <2>7, Zenon
    <3>3. QED
      BY <2>7, <3>1, <3>2, Zenon DEF Comes, got, hits, rows
  <2>8. CASE answering # {} /\ ~\E i, j \in answering : rows[i].file # rows[j].file
    <3> DEFINE m == Min(hits)
    <3>1. answering = hits /\ hits # {}
      BY <2>4, <2>8, Zenon
    <3>2. m \in hits
      BY <2>5, <3>1, LeastNumber
    <3>3. picked = Got(rows[m])
      BY <2>3, <2>8, <3>1, Zenon
    <3>10. m = Min(hits)
      OBVIOUS
    <3> HIDE DEF m
    <3>4. picked.ok /\ picked.what = rows[m]
      BY <1>2, <3>3, Zenon
    <3>5. \A j \in hits : rows[j].file = rows[m].file
      BY <2>8, <3>1, <3>2, Zenon
    <3>6. blob = IF verify /\ rows[m].md5 # NoMd5 /\ rows[m].md5 # served
                 THEN Failed("md5") ELSE Got(served)
      BY <3>4, Zenon DEF blob, Download
    <3>7. CASE verify /\ rows[m].md5 # NoMd5 /\ rows[m].md5 # served
      <4>1. got = Failed("md5")
        BY <1>1, <2>2, <3>4, <3>6, <3>7, Zenon
      <4>2. rows[m].md5 \notin {NoMd5, served}
        BY <3>7, Zenon
      <4>3. QED
        BY <3>1, <3>10, <3>7, <4>1, <4>2, Zenon DEF Comes, got, hits, rows
    <3>8. CASE ~(verify /\ rows[m].md5 # NoMd5 /\ rows[m].md5 # served)
      <4>1. blob.ok /\ blob.what = served
        BY <1>2, <3>6, <3>8, Zenon
      <4>2. got = Got([file |-> rows[m].file, plan |-> DataPlan(served)])
        BY <2>2, <3>4, <4>1, Zenon
      <4>3. verify => rows[m].md5 \in {NoMd5, served}
        BY <3>8, Zenon
      <4>4. QED
        BY <1>4, <3>2, <3>5, <3>10, <4>2, <4>3, Zenon DEF Comes, got, hits, rows
    <3>9. QED
      BY <3>7, <3>8
  <2>9. QED
    BY <2>6, <2>7, <2>8, Zenon
<1>5. QED
  BY <1>3, <1>4, Zenon
LEMMA LanguageJobIs ==
  ASSUME Asked, job.kind = "language"
  PROVE  IsList(job.payload) /\ job.served \in Seq(Byte)
<1>1. job \in LanguageJobs
  BY KindTells
<1> DEFINE Offers == [code : {"0", "none", "text 0"}, result : {"bare", "keyed", "other"},
                         rows : SeqOf(Rows, MaxRows)]
<1>2. job.payload \in Offers /\ job.served \in Blobs
  BY <1>1 DEF LanguageJobs
<1>3. job.payload.result \in {"bare", "keyed", "other"}
  BY <1>2
<1>4. job.payload.rows \in SeqOf(Rows, MaxRows)
  BY <1>2
<1> DEFINE rows == job.payload.rows
<1> HIDE DEF rows
<1>5. rows \in Seq(Rows) /\ DOMAIN rows = 1 .. Len(rows)
  BY <1>4, LibraryConstantsOK, BoundedSequence DEF rows, LibraryConstantsOK
<1>6. DOMAIN rows \subseteq Nat /\ \A i \in DOMAIN rows : rows[i] \in Rows
  BY <1>5, ElementOfSeq
<1>7. \A i \in DOMAIN rows : rows[i].files \in {"list", "text", "wrapped", "broken"}
  BY <1>6, LibraryConstantsOK, Zenon DEF LibraryConstantsOK
<1>8. IsList(job.payload)
  BY <1>3, <1>6, <1>7, Zenon DEF IsList, rows
<1>9. job.served \in Seq(Byte)
  BY <1>2, LibraryConstantsOK, Zenon DEF LibraryConstantsOK
<1>10. QED
  BY <1>8, <1>9

\* What a preparation may come to is what PackArrives allows.
ArrivesAs(got, payload, language, served, verify) ==
  LET hits == Hits(payload, language)
      files == { payload.rows[i].file : i \in hits }
  IN
  IF got.ok
  THEN /\ IsListed(payload) /\ files = {got.what.file}
       /\ verify => payload.rows[Min(hits)].md5 \in {NoMd5, served}
       /\ Arrives(got.what.plan, served)
  ELSE \/ got.why = "code" /\ ~IsListed(payload)
       \/ got.why = "no pack" /\ (hits = {} \/ payload.result = "other")
       \/ got.why = "ambiguous" /\ \E f, g \in files : f # g
       \/ /\ got.why = "md5" /\ hits # {} /\ verify
          /\ payload.rows[Min(hits)].md5 \notin {NoMd5, served}

LEMMA WhatComes ==
  ASSUME NEW got, NEW payload, NEW language, NEW served \in Seq(Byte), NEW verify,
         Comes(got, payload, language, served, verify)
  PROVE  ArrivesAs(got, payload, language, served, verify)
<1> DEFINE hits == Hits(payload, language)
           rows == payload.rows
           files == { rows[i].file : i \in hits }
<1>1. \A x : Failed(x).ok = FALSE /\ Failed(x).why = x
  BY DEF Failed
<1>2. \A x : Got(x).ok = TRUE /\ Got(x).what = x
  BY DEF Got
<1>3. \A i \in hits : rows[i].file \in files
  BY Zenon
<1>4. \/ got = Failed("code") /\ ~IsListed(payload)
      \/ got = Failed("no pack") /\ (hits = {} \/ payload.result = "other")
      \/ /\ got = Failed("ambiguous")
         /\ \E i, j \in hits : rows[i].file # rows[j].file
      \/ /\ got = Failed("md5") /\ verify /\ hits # {}
         /\ rows[Min(hits)].md5 \notin {NoMd5, served}
      \/ \E i \in hits :
           /\ IsListed(payload) /\ i = Min(hits)
           /\ \A j \in hits : rows[j].file = rows[i].file
           /\ verify => rows[i].md5 \in {NoMd5, served}
           /\ got = Got([file |-> rows[i].file, plan |-> DataPlan(served)])
  BY Zenon DEF Comes
<1>5. CASE got = Failed("code") /\ ~IsListed(payload)
  BY <1>1, <1>5, Zenon DEF ArrivesAs
<1>6. CASE got = Failed("no pack") /\ (hits = {} \/ payload.result = "other")
  BY <1>1, <1>6, Zenon DEF ArrivesAs
<1>7. CASE got = Failed("ambiguous") /\ \E i, j \in hits : rows[i].file # rows[j].file
  <2>1. \E f, g \in files : f # g
    BY <1>3, <1>7, Zenon
  <2>2. QED
    BY <1>1, <1>7, <2>1, Zenon DEF ArrivesAs
<1>8. CASE /\ got = Failed("md5") /\ verify /\ hits # {}
           /\ rows[Min(hits)].md5 \notin {NoMd5, served}
  BY <1>1, <1>8, Zenon DEF ArrivesAs
<1>9. CASE \E i \in hits :
             /\ IsListed(payload) /\ i = Min(hits)
             /\ \A j \in hits : rows[j].file = rows[i].file
             /\ verify => rows[i].md5 \in {NoMd5, served}
             /\ got = Got([file |-> rows[i].file, plan |-> DataPlan(served)])
  <2>1. PICK i \in hits :
             /\ IsListed(payload) /\ i = Min(hits)
             /\ \A j \in hits : rows[j].file = rows[i].file
             /\ verify => rows[i].md5 \in {NoMd5, served}
             /\ got = Got([file |-> rows[i].file, plan |-> DataPlan(served)])
    BY <1>9, Zenon
  <2> DEFINE r == [file |-> rows[i].file, plan |-> DataPlan(served)]
  <2>2. r.file = rows[i].file /\ r.plan = DataPlan(served)
    OBVIOUS
  <2>3. got = Got(r)
    BY <2>1
  <2> HIDE DEF r
  <2>4. got.ok /\ got.what.file = rows[i].file /\ got.what.plan = DataPlan(served)
    BY <1>2, <2>2, <2>3, Zenon
  <2>5. files = {rows[i].file}
    BY <1>3, <2>1
  <2>6. Arrives(DataPlan(served), served)
    BY PlanArrives, Zenon
  <2>7. QED
    BY <2>1, <2>4, <2>5, <2>6, Zenon DEF ArrivesAs
<1>10. QED
  BY <1>4, <1>5, <1>6, <1>7, <1>8, <1>9, Zenon

\* What is sent to the lock is what the list gives for the language, to the last
\* byte, or nothing is and the reason is true, whatever the rows, the blob, the
\* size of a block and of a write.
THEOREM ThePackArrives == Spec => []PackArrives
<1>1. Asked /\ Decided => PackArrives
  <2>1. SUFFICES ASSUME Asked, Decided, Answered("language")
                 PROVE  PackArrives
    BY DEF PackArrives
  <2>2. job.kind = "language"
    BY <2>1 DEF Answered
  <2>3. IsList(job.payload) /\ job.served \in Seq(Byte)
    BY <2>1, <2>2, LanguageJobIs
  <2>4. Got1 = Prepare(job.payload, job.language, job.served, job.verify)
    BY <2>1, AnswerTells
  <2>5. Comes(Got1, job.payload, job.language, job.served, job.verify)
    BY <2>3, <2>4, PrepareComes, Zenon
  <2>6. ArrivesAs(Got1, job.payload, job.language, job.served, job.verify)
    BY <2>3, <2>5, WhatComes, Zenon
  <2> DEFINE hits == Hits(job.payload, job.language)
             files == { job.payload.rows[i].file : i \in hits }
             first == job.payload.rows[Min(hits)]
             got == Got1
  <2> HIDE DEF got
  <2>7. PackArrives <=>
          IF got.ok
          THEN /\ IsListed(job.payload) /\ files = {got.what.file}
               /\ job.verify => first.md5 \in {NoMd5, job.served}
               /\ Arrives(got.what.plan, job.served)
          ELSE CASE got.why = "code"      -> ~IsListed(job.payload)
                 [] got.why = "no pack"   -> hits = {} \/ job.payload.result = "other"
                 [] got.why = "ambiguous" -> \E f, g \in files : f # g
                 [] got.why = "md5"       -> /\ hits # {} /\ job.verify
                                             /\ first.md5 \notin {NoMd5, job.served}
    BY <2>1, Zenon DEF PackArrives, Hits, IsListed, Arrives, got
  <2>8. CASE got.ok
    BY <2>6, <2>7, <2>8, Zenon DEF ArrivesAs, got
  <2>9. CASE ~got.ok
    <3> DEFINE A == IsListed(job.payload)
               B == hits = {} \/ job.payload.result = "other"
               C == \E f, g \in files : f # g
               D == hits # {} /\ job.verify /\ first.md5 \notin {NoMd5, job.served}
    <3>1. \/ got.why = "code" /\ ~A
          \/ got.why = "no pack" /\ B
          \/ got.why = "ambiguous" /\ C
          \/ got.why = "md5" /\ D
      BY <2>6, <2>9, Zenon DEF ArrivesAs, got
    <3>2. PackArrives <=> CASE got.why = "code" -> ~A [] got.why = "no pack" -> B
                            [] got.why = "ambiguous" -> C [] got.why = "md5" -> D
      BY <2>7, <2>9, Zenon
    <3> HIDE DEF A, B, C, D
    <3>3. (CASE got.why = "code" -> ~A [] got.why = "no pack" -> B
             [] got.why = "ambiguous" -> C [] got.why = "md5" -> D)
      BY <3>1
    <3>4. QED
      BY <3>2, <3>3, Zenon
  <2>10. QED
    BY <2>8, <2>9
<1>2. QED
  BY <1>1, Inductive, PTL
=============================================================================
