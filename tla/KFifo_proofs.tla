---------------------------- MODULE KFifo_proofs ----------------------------
(***************************************************************************)
(* The ring of kfifo.h is the bounded queue, for every size, every width   *)
(* of the indices, and every block.                                        *)
(*                                                                         *)
(* Type correctness is inductive as it stands: the distance of the indices *)
(* grows and shrinks by what is moved, wherever they wrap.  The refinement *)
(* then needs to know which cell is which place of the queue: the cells    *)
(* from out_ on, around the end of the ring, because the indices wrap at a *)
(* multiple of its size.                                                   *)
(***************************************************************************)
EXTENDS KFifo, DataLemmas

(* The indices wrap after this many rounds of the ring.                    *)
Rounds == Power2[Width - K]

LEMMA Constants ==
  /\ Size \in Nat \ {0} /\ Rounds \in Nat \ {0, 1}
  /\ Modulus = Size * Rounds /\ Modulus \in Nat \ {0} /\ Size < Modulus
<1> DEFINE f == Power2
           w == Width - K
<1>1. f = CHOOSE g : IsPower(g, 2)
  BY DEF Power2, IsPower
<1> HIDE DEF f
<1>2. ArePowers(f, 2) /\ 2 > 1
  BY <1>1, PowersAre
<1>3. K \in Nat /\ w \in Nat \ {0} /\ Width = K + w
  BY KAssumption
<1> HIDE DEF w
<1>4. f[K] \in Nat \ {0} /\ f[w] \in Nat \ {0, 1}
  <2>1. Exceeds(f)
    BY <1>2, PowersExceed
  <2> QED
    BY <1>2, <1>3, <2>1 DEF ArePowers, Exceeds
<1>5. f[Width] = f[K] * f[w]
  BY <1>2, <1>3, PowersAdd DEF PowersMultiply
<1>6. f[K] * f[w] \in Nat \ {0} /\ f[K] < f[K] * f[w]
  BY <1>4
<1> QED
  BY <1>4, <1>5, <1>6 DEF Size, Modulus, Rounds, f, w
-----------------------------------------------------------------------------
(* Remainders.                                                             *)
LEMMA ModOnce ==
  ASSUME NEW m \in Nat \ {0}, NEW x \in Int
  PROVE  /\ 0 <= x /\ x < m => x % m = x
         /\ m <= x /\ x < m + m => x % m = x - m
         /\ -m <= x /\ x < 0 => x % m = x + m
         /\ x % m \in 0 .. m - 1
<1>1. 0 <= x /\ x < m => x % m = x
  BY SMT
<1>2. m <= x /\ x < m + m => x % m = x - m
  BY SMT
<1>3. -m <= x /\ x < 0 => x % m = x + m
  BY SMT
<1>4. x % m \in 0 .. m - 1
  BY SMT
<1> QED
  BY <1>1, <1>2, <1>3, <1>4

LEMMA Quotient ==
  ASSUME NEW m \in Nat \ {0}, NEW x \in Nat
  PROVE  x \div m \in Nat /\ x % m = x - m * (x \div m)
<1>1. x \div m \in Nat
  BY SMT
<1>2. x % m = x - m * (x \div m)
  BY Z3T(20)
<1> QED
  BY <1>1, <1>2

LEMMA Remainder ==
  ASSUME NEW m \in Nat \ {0}, NEW x \in Nat, NEW d \in Int,
         NEW r \in 0 .. m - 1, x = m * d + r
  PROVE  x % m = r
  BY SMTT(30)

(* A number is whole rounds and a place.                                   *)
LEMMA Parts ==
  ASSUME NEW m \in Nat \ {0}, NEW x \in Nat
  PROVE  \E d \in Nat : x % m \in 0 .. m - 1 /\ x = m * d + (x % m)
<1>1. x \div m \in Nat /\ x % m = x - m * (x \div m)
  BY Quotient
<1>2. x % m \in 0 .. m - 1
  BY SMT
<1> DEFINE d == x \div m
           r == x % m
           p == m * d
<1>3. d \in Nat /\ r = x - p /\ r \in 0 .. m - 1 /\ p \in Int
  BY <1>1, <1>2, SMT
<1> HIDE DEF d, r
<1>4. x = m * d + r
  BY <1>3, SMT
<1>5. x % m \in 0 .. m - 1 /\ x = m * d + (x % m)
  BY <1>3, <1>4, Zenon DEF r
<1> QED
  BY <1>3, <1>5, Zenon

(* A step of at most m in a ring of m.                                     *)
LEMMA Shifted ==
  ASSUME NEW m \in Nat \ {0}, NEW x \in Nat, NEW k \in 0 .. m
  PROVE  /\ (x % m) + k < m => (x + k) % m = (x % m) + k
         /\ (x % m) + k >= m => (x + k) % m = (x % m) + k - m
<1>0. PICK d \in Nat : x % m \in 0 .. m - 1 /\ x = m * d + (x % m)
  BY Parts
<1> DEFINE r == x % m
           y == x + k
           s == r + k
           u == r + k - m
<1>1. r \in 0 .. m - 1 /\ x = m * d + r
  BY <1>0, Zenon
<1> HIDE DEF r
<1>2. m * d \in Nat /\ m * (d + 1) = m * d + m /\ d + 1 \in Int /\ d \in Int
  BY <1>1, SMT
<1>3. y \in Nat
  BY SMT
<1>4. ASSUME r + k < m PROVE (x + k) % m = r + k
  <2>1. s \in 0 .. m - 1 /\ y = m * d + s
    BY <1>1, <1>2, <1>4, SMT
  <2> HIDE DEF y, s
  <2>2. y % m = s
    BY <1>2, <1>3, <2>1, Remainder
  <2> QED
    BY <2>2 DEF y, s
<1>5. ASSUME r + k >= m PROVE (x + k) % m = r + k - m
  <2>1. u \in 0 .. m - 1 /\ y = m * (d + 1) + u
    BY <1>1, <1>2, <1>5, SMT
  <2> HIDE DEF y, u
  <2>2. y % m = u
    BY <1>2, <1>3, <2>1, Remainder
  <2> QED
    BY <2>2 DEF y, u
<1> QED
  BY <1>4, <1>5 DEF r

(* Whole rounds leave a place where it is.                                 *)
LEMMA Periodic ==
  ASSUME NEW m \in Nat \ {0}, NEW x \in Nat, NEW q \in Nat
  PROVE  (x + m * q) % m = x % m
<1>0. PICK d \in Nat : x % m \in 0 .. m - 1 /\ x = m * d + (x % m)
  BY Parts
<1> DEFINE r == x % m
           y == x + m * q
<1>1. r \in 0 .. m - 1 /\ x = m * d + r
  BY <1>0, Zenon
<1> HIDE DEF r
<1>2. /\ m * d \in Nat /\ m * q \in Nat
      /\ m * (d + q) = m * d + m * q /\ d + q \in Int
  BY <1>1, SMT
<1> DEFINE e == d + q
<1>3. y = m * e + r /\ y \in Nat /\ e \in Int
  BY <1>1, <1>2, SMT
<1> HIDE DEF y, e
<1>4. y % m = r
  BY <1>1, <1>3, Remainder
<1> QED
  BY <1>4 DEF r, y

(* A remainder without the operator, for x less than a round away.         *)
Near(m, x) == IF x < 0 THEN x + m ELSE IF x < m THEN x ELSE x - m

LEMMA NearIsMod ==
  ASSUME NEW m \in Nat \ {0}, NEW x \in Int, -m <= x, x < m + m
  PROVE  x % m = Near(m, x)
<1>1. CASE x < 0
  BY <1>1, SMT DEF Near
<1>2. CASE 0 <= x /\ x < m
  BY <1>2, SMT DEF Near
<1>3. CASE m <= x
  BY <1>3, SMT DEF Near
<1> QED
  BY <1>1, <1>2, <1>3

(* The distance of two indices, one of which moves on.                     *)
LEMMA Grows ==
  ASSUME NEW m \in Nat \ {0}, NEW a \in 0 .. m - 1, NEW b \in 0 .. m - 1,
         NEW n \in Nat, ((a - b) % m) + n < m
  PROVE  (((a + n) % m) - b) % m = ((a - b) % m) + n
<1> DEFINE d == (a - b) % m
           i == (a + n) % m
<1>1. a - b \in Int /\ -m <= a - b /\ a - b < m + m
  BY SMT
<1>2. d = Near(m, a - b)
  BY <1>1, NearIsMod
<1>3. n < m /\ a + n \in Int /\ -m <= a + n /\ a + n < m + m
  <2>1. d \in Nat /\ d + n < m
    BY <1>1, ModOnce
  <2> HIDE DEF d
  <2> QED
    BY <2>1, SMT
<1>4. i = Near(m, a + n)
  BY <1>3, NearIsMod
<1>5. d + n < m
  OBVIOUS
<1> HIDE DEF d, i
<1>6. i - b \in Int /\ -m <= i - b /\ i - b < m + m
  BY <1>3, <1>4, SMT DEF Near
<1>7. (i - b) % m = Near(m, i - b)
  BY <1>6, NearIsMod
<1>8. (i - b) % m = d + n
  BY <1>2, <1>3, <1>4, <1>5, <1>7, SMT DEF Near
<1> QED
  BY <1>8 DEF d, i

LEMMA Shrinks ==
  ASSUME NEW m \in Nat \ {0}, NEW a \in 0 .. m - 1, NEW b \in 0 .. m - 1,
         NEW n \in Nat, n <= (a - b) % m
  PROVE  (a - ((b + n) % m)) % m = ((a - b) % m) - n
<1> DEFINE d == (a - b) % m
           i == (b + n) % m
<1>1. a - b \in Int /\ -m <= a - b /\ a - b < m + m
  BY SMT
<1>2. d = Near(m, a - b)
  BY <1>1, NearIsMod
<1>3. n < m /\ b + n \in Int /\ -m <= b + n /\ b + n < m + m
  <2>1. d \in 0 .. m - 1 /\ n <= d
    BY <1>1, ModOnce
  <2> HIDE DEF d
  <2> QED
    BY <2>1, SMT
<1>4. i = Near(m, b + n)
  BY <1>3, NearIsMod
<1>5. n <= d
  OBVIOUS
<1> HIDE DEF d, i
<1>6. a - i \in Int /\ -m <= a - i /\ a - i < m + m
  BY <1>3, <1>4, SMT DEF Near
<1>7. (a - i) % m = Near(m, a - i)
  BY <1>6, NearIsMod
<1>8. (a - i) % m = d - n
  BY <1>2, <1>3, <1>4, <1>5, <1>7, SMT DEF Near
<1> QED
  BY <1>8 DEF d, i
-----------------------------------------------------------------------------
(* Type correctness.                                                       *)
LEMMA Held ==
  ASSUME TypeOK
  PROVE  /\ in_ \in 0 .. Modulus - 1 /\ out_ \in 0 .. Modulus - 1
         /\ len \in 0 .. Size /\ unused = Size - len
<1>1. in_ \in 0 .. Modulus - 1 /\ out_ \in 0 .. Modulus - 1 /\ len <= Size
  BY DEF TypeOK
<1> DEFINE d == in_ - out_
           l == len
<1>2. d \in Int
  BY <1>1, Constants, SMT
<1>3. l \in 0 .. Modulus - 1
  <2> HIDE DEF d
  <2>1. d % Modulus \in 0 .. Modulus - 1
    BY <1>2, Constants, ModOnce
  <2> QED
    BY <2>1 DEF d, l, len
<1>4. l <= Size
  BY <1>1
<1> HIDE DEF l
<1> DEFINE room == Size - l
<1>5. l \in 0 .. Size /\ room \in Int /\ 0 <= room /\ room < Modulus
  BY <1>3, <1>4, Constants, SMT
<1> HIDE DEF room
<1>6. room % Modulus = room
  BY <1>5, Constants, ModOnce
<1> QED
  BY <1>1, <1>5, <1>6 DEF l, room, unused

(* The indices move, by no more than there is room or there is held.       *)
LEMMA Moves ==
  ASSUME TypeOK
  PROVE  /\ \A n \in 0 .. unused :
              /\ (in_ + n) % Modulus \in 0 .. Modulus - 1
              /\ (((in_ + n) % Modulus) - out_) % Modulus = len + n
         /\ \A n \in 0 .. len :
              /\ (out_ + n) % Modulus \in 0 .. Modulus - 1
              /\ (in_ - ((out_ + n) % Modulus)) % Modulus = len - n
<1>1. ASSUME NEW n \in 0 .. unused
      PROVE  /\ (in_ + n) % Modulus \in 0 .. Modulus - 1
             /\ (((in_ + n) % Modulus) - out_) % Modulus = len + n
  <2>1. n \in Nat /\ len + n < Modulus /\ in_ + n \in Int
    BY Held, Constants, SMT
  <2>2. (in_ + n) % Modulus \in 0 .. Modulus - 1
    BY <2>1, Constants, ModOnce
  <2> HIDE DEF Modulus
  <2>3. (((in_ + n) % Modulus) - out_) % Modulus = ((in_ - out_) % Modulus) + n
    BY <2>1, Held, Constants, Grows DEF len
  <2> QED
    BY <2>2, <2>3 DEF len
<1>2. ASSUME NEW n \in 0 .. len
      PROVE  /\ (out_ + n) % Modulus \in 0 .. Modulus - 1
             /\ (in_ - ((out_ + n) % Modulus)) % Modulus = len - n
  <2>1. n \in Nat /\ n <= len /\ out_ + n \in Int
    BY Held, Constants, SMT
  <2>2. (out_ + n) % Modulus \in 0 .. Modulus - 1
    BY <2>1, Constants, ModOnce
  <2> HIDE DEF Modulus
  <2>3. (in_ - ((out_ + n) % Modulus)) % Modulus = ((in_ - out_) % Modulus) - n
    BY <2>1, Held, Constants, Shrinks DEF len
  <2> QED
    BY <2>2, <2>3 DEF len
<1> QED
  BY <1>1, <1>2

(* How much one call moves.                                                *)
LEMMA Moved ==
  ASSUME TypeOK
  PROVE  /\ \A buf \in Buffers : Smaller(Len(buf), unused) \in 0 .. unused
         /\ \A length \in Lengths : Smaller(length, len) \in 0 .. len
<1>1. len \in Nat /\ unused \in Nat
  BY Held, Constants, SMT
<1>2. \A buf \in Buffers : Len(buf) \in Nat
  BY BuffersAssumption
<1>3. \A length \in Lengths : length \in Nat
  BY LengthsAssumption
<1> QED
  BY <1>1, <1>2, <1>3, SMT DEF Smaller

(* The two parts of a block, each from its place in the caller's buffer.   *)
LEMMA CopyType ==
  ASSUME TypeOK, NEW buf \in Buffers, NEW n \in 0 .. unused, n <= Len(buf)
  PROVE  copy_in(buf, n, in_) \in [0 .. Size - 1 -> Values \cup {Unset}]
<1> DEFINE o == in_ % Size
           l == Smaller(n, Size - o)
<1>0. in_ \in Int
  BY Held, Constants, SMT
<1>1. o \in 0 .. Size - 1
  BY <1>0, Constants, ModOnce
<1> HIDE DEF o
<1>2. n \in Nat /\ Size \in Nat
  BY Held, Constants, SMT
<1>3. l \in 0 .. n
  BY <1>1, <1>2, SMT DEF Smaller
<1> HIDE DEF l
<1>4. buf \in Seq(Values) /\ Len(buf) \in Nat
  BY BuffersAssumption
<1>5. \A i \in 1 .. n : buf[i] \in Values
  BY <1>2, <1>4, SMT
<1>6. ASSUME NEW i \in 0 .. Size - 1
      PROVE  (IF i < n - l THEN buf[l + i + 1]
              ELSE IF i >= o /\ i < o + l THEN buf[i - o + 1]
              ELSE data[i]) \in Values \cup {Unset}
  <2>1. CASE i < n - l
    <3>1. l + i + 1 \in 1 .. n
      BY <1>2, <1>3, <2>1, SMT
    <3> QED
      BY <1>5, <2>1, <3>1, Zenon
  <2>2. CASE ~(i < n - l) /\ i >= o /\ i < o + l
    <3>1. i - o + 1 \in 1 .. n
      BY <1>1, <1>2, <1>3, <2>2, SMT
    <3> QED
      BY <1>5, <2>2, <3>1, Zenon
  <2>3. CASE ~(i < n - l) /\ ~(i >= o /\ i < o + l)
    BY <2>3, Zenon DEF TypeOK
  <2> QED
    BY <2>1, <2>2, <2>3, Zenon
<1> QED
  BY <1>6, Zenon DEF copy_in, o, l

LEMMA StartsTyped == Init => TypeOK
<1> SUFFICES ASSUME Init PROVE TypeOK
  OBVIOUS
<1>1. 0 \in 0 .. Modulus - 1 /\ 0 - 0 = 0 /\ 0 % Modulus = 0 /\ 0 <= Size
  BY Constants, ModOnce, SMT
<1> QED
  BY <1>1, Zenon DEF Init, TypeOK, len

(* Every variable keeps its type, and the indices are never further apart  *)
(* than the ring is long, for every size, width and block (kfifo.h:44-66,  *)
(* 94-119).                                                                *)
THEOREM TypeCorrect == Spec => []TypeOK
<1>1. Init => TypeOK
  BY StartsTyped
<1>2. TypeOK /\ [Next]_vars => TypeOK'
  <2> SUFFICES ASSUME TypeOK, [Next]_vars PROVE TypeOK'
    OBVIOUS
  <2> DEFINE Goal == TypeOK'
  <2>0. 0 \in 0 .. Modulus - 1 /\ 0 - 0 = 0 /\ 0 % Modulus = 0 /\ 0 <= Size
    BY Constants, ModOnce, SMT
  <2>1. CASE reset
    BY <2>0, <2>1, Zenon DEF reset, TypeOK, len
  <2>2. CASE reset_out
    <3>1. in_ - in_ = 0
      BY Held, Constants, SMT
    <3> QED
      BY <2>0, <2>2, <3>1, Zenon DEF reset_out, TypeOK, len
  <2>3. ASSUME NEW buf \in Buffers, in(buf) PROVE Goal
    <3> DEFINE n == Smaller(Len(buf), unused)
    <3>1. n \in 0 .. unused
      BY Moved, Zenon
    <3>2. n <= Len(buf)
      <4>1. Len(buf) \in Nat /\ unused \in Nat
        BY BuffersAssumption, Held, Constants, SMT
      <4> QED
        BY <4>1, SMT DEF Smaller
    <3>3. /\ data' = copy_in(buf, n, in_) /\ out_' = out_
          /\ in_' = (in_ + n) % Modulus
      BY <2>3, Zenon DEF in
    <3> HIDE DEF n
    <3>4. data' \in [0 .. Size - 1 -> Values \cup {Unset}]
      BY <3>1, <3>2, <3>3, CopyType
    <3>5. in_' \in 0 .. Modulus - 1 /\ (in_' - out_') % Modulus = len + n
      BY <3>1, <3>3, Moves, Zenon
    <3>6. len + n <= Size
      BY <3>1, Held, Constants, SMT
    <3> QED
      BY <3>3, <3>4, <3>5, <3>6, Zenon DEF TypeOK, len
  <2>4. ASSUME NEW length \in Lengths, out_peek(length) PROVE Goal
    BY <2>4, Zenon DEF out_peek, TypeOK, len
  <2>5. ASSUME NEW length \in Lengths, out(length) PROVE Goal
    <3> DEFINE n == Smaller(length, len)
    <3>1. n \in 0 .. len
      BY Moved, Zenon
    <3>2. in_' = in_ /\ data' = data /\ out_' = (out_ + n) % Modulus
      BY <2>5, Zenon DEF out, Peeked
    <3> HIDE DEF n
    <3>3. out_' \in 0 .. Modulus - 1 /\ (in_' - out_') % Modulus = len - n
      BY <3>1, <3>2, Moves, Zenon
    <3>4. len - n <= Size
      BY <3>1, Held, Constants, SMT
    <3> QED
      BY <3>2, <3>3, <3>4, Zenon DEF TypeOK, len
  <2>6. CASE UNCHANGED vars
    BY <2>6, Zenon DEF vars, TypeOK, len
  <2> QED
    BY <2>1, <2>2, <2>3, <2>4, <2>5, <2>6, Zenon DEF Next
<1> QED
  BY <1>1, <1>2, PTL DEF Spec
-----------------------------------------------------------------------------
(* Which cell is which place of the queue.                                 *)
Place(k) == (out_ + k) % Size

(* An index that wraps at its width keeps its cell.                        *)
LEMMA WrapsAtRounds ==
  ASSUME NEW x \in 0 .. Modulus - 1, NEW n \in 0 .. Size, NEW k \in Nat
  PROVE  (((x + n) % Modulus) + k) % Size = (x + n + k) % Size
<1> DEFINE y == x + n
           i == y % Modulus
<1>1. y \in Int /\ -Modulus <= y /\ y < Modulus + Modulus /\ y >= 0
  BY Constants, SMT
<1> HIDE DEF y
<1>2. i = Near(Modulus, y)
  BY <1>1, Constants, NearIsMod
<1> HIDE DEF i
<1>3. CASE y < Modulus
  <2>1. i = y
    BY <1>1, <1>2, <1>3, SMT DEF Near
  <2> QED
    BY <2>1 DEF i, y
<1>4. CASE y >= Modulus
  <2> DEFINE z == i + k
  <2>1. i \in Nat /\ y = i + Modulus
    BY <1>1, <1>2, <1>4, Constants, SMT DEF Near
  <2>2. z \in Nat /\ y + k = z + Size * Rounds
    BY <2>1, Constants, SMT
  <2> HIDE DEF z
  <2>3. Size \in Nat \ {0} /\ Rounds \in Nat
    BY Constants, Zenon
  <2>4. (z + Size * Rounds) % Size = z % Size
    BY <2>2, <2>3, Periodic
  <2>5. (y + k) % Size = z % Size
    BY <2>2, <2>4, Zenon
  <2> QED
    BY <2>5, Zenon DEF z, i, y
<1> QED
  BY <1>1, <1>3, <1>4, Constants, SMT

(* The places are the cells from out_ on, around the end, and in_ is the   *)
(* place after the last.                                                   *)
LEMMA Places ==
  ASSUME TypeOK
  PROVE  /\ out_ % Size \in 0 .. Size - 1
         /\ \A k \in 0 .. Size :
              Place(k) = IF (out_ % Size) + k < Size THEN (out_ % Size) + k
                                               ELSE (out_ % Size) + k - Size
         /\ in_ % Size = Place(len)
<1>1. out_ \in Nat /\ Size \in Nat \ {0}
  BY Held, Constants, SMT
<1>2. out_ % Size \in 0 .. Size - 1
  <2>1. out_ \in Int
    BY <1>1, SMT
  <2> QED
    BY <1>1, <2>1, ModOnce
<1>3. ASSUME NEW k \in 0 .. Size
      PROVE  Place(k) = IF (out_ % Size) + k < Size THEN (out_ % Size) + k
                                              ELSE (out_ % Size) + k - Size
  <2> DEFINE o == out_ % Size
             c == (out_ + k) % Size
  <2>1. /\ o + k < Size => c = o + k
        /\ o + k >= Size => c = o + k - Size
    BY <1>1, Shifted
  <2>2. o \in 0 .. Size - 1
    BY <1>2
  <2> HIDE DEF o, c
  <2>3. c = IF o + k < Size THEN o + k ELSE o + k - Size
    BY <1>1, <2>1, <2>2, SMT
  <2> QED
    BY <2>3, Zenon DEF o, c, Place
<1>4. in_ % Size = Place(len)
  <2> DEFINE d == in_ - out_
             l == len
             i == (out_ + l) % Modulus
  <2>1. d \in Int /\ -Modulus <= d /\ d < Modulus + Modulus
    BY Held, Constants, SMT
  <2> HIDE DEF d
  <2>2. d % Modulus = Near(Modulus, d)
    BY <2>1, Constants, NearIsMod
  <2>3. l = Near(Modulus, d)
    BY <2>2, Zenon DEF l, len, d
  <2>4. l \in 0 .. Size
    BY Held, Zenon
  <2> HIDE DEF l
  <2>5. /\ out_ + l \in Int /\ -Modulus <= out_ + l
        /\ out_ + l < Modulus + Modulus
    BY <2>4, Held, Constants, SMT
  <2>6. i = Near(Modulus, out_ + l)
    BY <2>5, Constants, NearIsMod
  <2> HIDE DEF i
  <2>7. i = in_ /\ i \in Int
    BY <2>1, <2>3, <2>4, <2>6, Held, Constants, SMT DEF Near, d
  <2>8. out_ \in 0 .. Modulus - 1 /\ 0 \in Nat
    BY Held, SMT
  <2>9. (i + 0) % Size = (out_ + l + 0) % Size
    BY <2>4, <2>8, WrapsAtRounds, Zenon DEF i
  <2>10. i + 0 = i /\ out_ + l + 0 = out_ + l
    BY <2>4, <2>7, Held, Constants, SMT
  <2> QED
    BY <2>7, <2>9, <2>10, Zenon DEF Place, l
<1> QED
  BY <1>2, <1>3, <1>4, Zenon

(* A block that is copied in takes the places after the last, and disturbs *)
(* none of those before.                                                   *)
LEMMA CellsIn ==
  ASSUME TypeOK, NEW buf, NEW n \in 0 .. unused
  PROVE  \A k \in 0 .. len + n - 1 :
           copy_in(buf, n, in_)[Place(k)]
             = IF k < len THEN data[Place(k)] ELSE buf[k - len + 1]
<1> DEFINE o == out_ % Size
           s == Size
           f == in_ % Size
           h == len
           l == Smaller(n, Size - (in_ % Size))
<1>1. /\ o \in 0 .. s - 1 /\ s \in Nat \ {0} /\ h \in 0 .. s
      /\ n \in 0 .. s - h
  BY Places, Held, Constants, SMT
<1>2. \A k \in 0 .. s : Place(k) = IF o + k < s THEN o + k ELSE o + k - s
  BY Places
<1>3. f = Place(h)
  BY Places
<1> HIDE DEF o, f, s, h
<1>4. f = IF o + h < s THEN o + h ELSE o + h - s
  BY <1>1, <1>2, <1>3, SMT
<1>5. l = IF n < s - f THEN n ELSE s - f
  BY Zenon DEF Smaller, s, f
<1> HIDE DEF l
<1> SUFFICES ASSUME NEW k \in 0 .. h + n - 1
             PROVE  copy_in(buf, n, in_)[Place(k)]
                      = IF k < h THEN data[Place(k)] ELSE buf[k - h + 1]
  BY DEF h
<1> DEFINE p == Place(k)
<1>6. k \in Nat /\ k < s /\ k < h + n
  BY <1>1, SMT
<1>7. p = IF o + k < s THEN o + k ELSE o + k - s
  BY <1>1, <1>2, <1>6, SMT
<1> HIDE DEF p
<1>8. p \in 0 .. s - 1
  BY <1>1, <1>6, <1>7, SMT
<1>9. copy_in(buf, n, in_)[p] = IF p < n - l THEN buf[l + p + 1]
                                ELSE IF p >= f /\ p < f + l THEN buf[p - f + 1]
                                ELSE data[p]
  BY <1>8, Zenon DEF copy_in, s, f, l
<1>10. CASE k < h
  <2>1. ~(p < n - l) /\ ~(p >= f /\ p < f + l)
    BY <1>1, <1>4, <1>5, <1>6, <1>7, <1>10, SMT
  <2> QED
    BY <1>9, <1>10, <2>1, Zenon DEF p
<1>11. CASE ~(k < h)
  <2>1. CASE p < n - l
    <3>1. l + p + 1 = k - h + 1
      BY <1>1, <1>4, <1>5, <1>6, <1>7, <1>11, <2>1, SMT
    <3> QED
      BY <1>9, <1>11, <2>1, <3>1, Zenon DEF p
  <2>2. CASE ~(p < n - l)
    <3>1. p >= f /\ p < f + l /\ p - f + 1 = k - h + 1
      BY <1>1, <1>4, <1>5, <1>6, <1>7, <1>11, <2>2, SMT
    <3> QED
      BY <1>9, <1>11, <2>2, <3>1, Zenon DEF p
  <2> QED
    BY <2>1, <2>2, Zenon
<1> QED
  BY <1>10, <1>11, Zenon DEF p

(* What is copied out are the first places, in order.                      *)
LEMMA CellsOut ==
  ASSUME TypeOK, NEW n \in 0 .. len
  PROVE  /\ copy_out(n, out_) = [i \in 1 .. n |-> copy_out(n, out_)[i]]
         /\ \A i \in 1 .. n : copy_out(n, out_)[i] = data[Place(i - 1)]
<1> DEFINE s == Size
           o == out_ % Size
           l == Smaller(n, Size - (out_ % Size))
<1>1. /\ o \in 0 .. s - 1 /\ s \in Nat \ {0} /\ n \in 0 .. s
  BY Places, Held, Constants, SMT
<1>2. \A k \in 0 .. s : Place(k) = IF o + k < s THEN o + k ELSE o + k - s
  BY Places
<1>3. l = IF n < s - o THEN n ELSE s - o
  BY Zenon DEF Smaller, s, o
<1>4. copy_out(n, out_) = [i \in 1 .. n |-> IF i <= l THEN data[o + i - 1]
                                                   ELSE data[i - l - 1]]
  BY Zenon DEF copy_out, o, l
<1> HIDE DEF s, o, l
<1>5. ASSUME NEW i \in 1 .. n
      PROVE  copy_out(n, out_)[i] = data[Place(i - 1)]
  <2>1. i - 1 \in 0 .. s /\ i \in Nat
    BY <1>1, SMT
  <2>2. Place(i - 1) = IF o + (i - 1) < s THEN o + (i - 1) ELSE o + (i - 1) - s
    BY <1>2, <2>1
  <2>3. CASE i <= l
    <3>1. Place(i - 1) = o + i - 1
      BY <1>1, <1>3, <2>1, <2>2, <2>3, SMT
    <3> QED
      BY <1>4, <2>3, <3>1, Zenon
  <2>4. CASE ~(i <= l)
    <3>1. Place(i - 1) = i - l - 1
      BY <1>1, <1>3, <2>1, <2>2, <2>4, SMT
    <3> QED
      BY <1>4, <2>4, <3>1, Zenon
  <2> QED
    BY <2>3, <2>4, Zenon
<1>6. copy_out(n, out_) = [i \in 1 .. n |-> copy_out(n, out_)[i]]
  BY <1>4, Zenon
<1> QED
  BY <1>5, <1>6, Zenon
-----------------------------------------------------------------------------
(* The refinement.                                                         *)
Element == Values \cup {Unset}

Holds == /\ Contents \in Seq(Element)
         /\ len \in Nat
         /\ Len(Contents) = len
         /\ \A i \in 1 .. len : Contents[i] = data[Place(i - 1)]

Reported == [len |-> len, unused |-> unused,
             empty |-> is_empty, full |-> is_full]

LEMMA ContentsHold == TypeOK => Holds
<1> SUFFICES ASSUME TypeOK PROVE Holds
  OBVIOUS
<1>1. len \in Nat
  BY Held, Constants, SMT
<1>2. ASSUME NEW i \in 1 .. len
      PROVE  /\ (out_ + i - 1) % Size = Place(i - 1)
             /\ (out_ + i - 1) % Size \in 0 .. Size - 1
  <2> DEFINE x == out_ + i - 1
  <2>1. x \in Int /\ x = out_ + (i - 1)
    BY Held, Constants, SMT
  <2> HIDE DEF x
  <2>2. x % Size \in 0 .. Size - 1
    BY <2>1, Constants, ModOnce
  <2>3. x % Size = (out_ + (i - 1)) % Size
    BY <2>1, Zenon
  <2> QED
    BY <2>2, <2>3, Zenon DEF Place, x
<1>3. \A p \in 0 .. Size - 1 : data[p] \in Element
  BY Zenon DEF TypeOK, Element
<1>4. Contents \in [1 .. len -> Element]
  BY <1>2, <1>3, Zenon DEF Contents
<1>5. \A i \in 1 .. len : Contents[i] = data[Place(i - 1)]
  BY <1>2, Zenon DEF Contents
<1> QED
  BY <1>1, <1>4, <1>5, FunctionIsSeq DEF Holds

LEMMA ReportsHold == TypeOK => Reported = Fifo!Report(Contents)
<1> SUFFICES ASSUME TypeOK PROVE Reported = Fifo!Report(Contents)
  OBVIOUS
<1> DEFINE d == in_ - out_
           l == len
<1>1. Len(Contents) = len /\ Contents \in Seq(Element) /\ len \in Nat
  BY ContentsHold, Zenon DEF Holds
<1>2. d \in Int /\ -Modulus <= d /\ d < Modulus + Modulus
  BY Held, Constants, SMT
<1> HIDE DEF d
<1>3. d % Modulus = Near(Modulus, d)
  BY <1>2, Constants, NearIsMod
<1>4. l = Near(Modulus, d)
  BY <1>3, Zenon DEF l, len, d
<1>5. l \in 0 .. Size /\ unused = Size - l
  BY Held, Zenon
<1> HIDE DEF l
<1>6. in_ = out_ <=> l = 0
  BY <1>4, <1>5, Held, Constants, SMT DEF Near, d
<1>7. l > Size - 1 <=> l = Size
  BY <1>5, Constants, SMT
<1>8. Contents = <<>> <=> Len(Contents) = 0
  BY <1>1, EmptySeq, SMT
<1>9. is_empty = (Contents = <<>>)
  BY <1>1, <1>6, <1>8, Zenon DEF is_empty, l
<1>10. is_full = (Len(Contents) = Size)
  <2>1. is_full <=> l = Size
    BY <1>7, Zenon DEF is_full, l
  <2>2. l = Len(Contents)
    BY <1>1, Zenon DEF l
  <2> QED
    BY <2>1, <2>2, Zenon
<1>11. unused = Size - Len(Contents)
  BY <1>1, <1>5, Zenon DEF l
<1> QED
  BY <1>1, <1>9, <1>10, <1>11, Zenon DEF Reported, Fifo!Report

(* The same of the state after a step.                                     *)
LEMMA HoldNext ==
  TypeOK' => Holds' /\ Reported' = Fifo!Report(Contents')
<1>1. TypeOK => Holds
  BY ContentsHold
<1>2. TypeOK => Reported = Fifo!Report(Contents)
  BY ReportsHold
<1>3. TypeOK' => (Holds /\ Reported = Fifo!Report(Contents))'
  BY <1>1, <1>2, PTL
<1> QED
  BY <1>3, Zenon

LEMMA IsEmpty ==
  ASSUME Holds', len' = 0
  PROVE  Contents' = <<>>
<1>1. Contents' \in Seq(Element) /\ Len(Contents') = 0
  BY Zenon DEF Holds
<1> QED
  BY <1>1, EmptySeq, SMT

(* What fits of a block joins the end.                                     *)
LEMMA InJoins ==
  ASSUME TypeOK, TypeOK', NEW buf \in Buffers, in(buf)
  PROVE  /\ Contents' = Contents \o SubSeq(buf, 1, Smaller(Len(buf), unused))
         /\ Smaller(Len(buf), unused)
              = Fifo!Least(Len(buf), Size - Len(Contents))
<1> DEFINE n == Smaller(Len(buf), unused)
           sub == SubSeq(buf, 1, n)
           both == Contents \o sub
           after == Contents'
<1>1. n \in 0 .. unused /\ unused \in Nat
  BY Moved, Held, Constants, SMT
<1>2. buf \in Seq(Values) /\ Len(buf) \in Nat
  BY BuffersAssumption
<1>3. n \in 0 .. Len(buf)
  BY <1>1, <1>2, SMT DEF Smaller
<1>4. in_' = (in_ + n) % Modulus /\ out_' = out_ /\ data' = copy_in(buf, n, in_)
  BY Zenon DEF in
<1>5. Holds /\ Holds'
  BY ContentsHold, HoldNext, Zenon
<1>6. Contents \in Seq(Element) /\ Len(Contents) = len /\ len \in Nat
  BY <1>5, Zenon DEF Holds
<1>7. after \in Seq(Element) /\ Len(after) = len'
  BY <1>5, Zenon DEF Holds
<1>8. len' = len + n
  BY <1>1, <1>4, Moves, Zenon DEF len
<1>9. n = Fifo!Least(Len(buf), Size - Len(Contents))
  <2>1. unused = Size - Len(Contents)
    BY <1>6, Held, Zenon
  <2> QED
    BY <2>1, Zenon DEF Smaller, Fifo!Least
<1> HIDE DEF n, after
<1>10. /\ sub \in Seq(Element) /\ Len(sub) = n
       /\ \A i \in 1 .. n : sub[i] = buf[i]
  <2>1. \A i \in 1 .. n : buf[i] \in Element
    BY <1>2, <1>3, SMT DEF Element
  <2> QED
    BY <1>3, <2>1, SMT
<1> HIDE DEF sub
<1>11. /\ both \in Seq(Element) /\ Len(both) = len + n
       /\ \A i \in 1 .. len + n :
            both[i] = IF i <= len THEN Contents[i] ELSE sub[i - len]
  BY <1>6, <1>10, ConcatProperties
<1> HIDE DEF both
<1>12. ASSUME NEW i \in 1 .. len + n PROVE after[i] = both[i]
  <2>1. i - 1 \in 0 .. len + n - 1 /\ i - 1 - len + 1 = i - len
    BY <1>1, <1>6, SMT
  <2>2. after[i] = data'[Place(i - 1)]
    BY <1>4, <1>5, <1>8, Zenon DEF Holds, Place, after
  <2>3. data'[Place(i - 1)] = IF i - 1 < len THEN data[Place(i - 1)]
                                            ELSE buf[i - len]
    BY <1>1, <1>4, <2>1, CellsIn, Zenon
  <2>4. CASE i <= len
    <3>1. i \in 1 .. len /\ i - 1 < len
      BY <1>1, <1>6, <2>4, SMT
    <3>2. Contents[i] = data[Place(i - 1)]
      BY <1>5, <3>1, Zenon DEF Holds
    <3> QED
      BY <1>11, <2>2, <2>3, <2>4, <3>1, <3>2, Zenon
  <2>5. CASE ~(i <= len)
    <3>1. i - len \in 1 .. n /\ ~(i - 1 < len)
      BY <1>1, <1>6, <2>5, SMT
    <3> QED
      BY <1>10, <1>11, <2>2, <2>3, <2>5, <3>1, Zenon
  <2> QED
    BY <2>4, <2>5, Zenon
<1>13. after = both
  BY <1>7, <1>8, <1>11, <1>12, SeqEqual
<1> QED
  BY <1>9, <1>13, Zenon DEF after, both, sub, n

(* The front of the queue is what a caller sees ...                        *)
LEMMA PeekedIsFront ==
  ASSUME TypeOK, NEW length \in Lengths
  PROVE  Peeked(length) = Fifo!Front(length)
<1> DEFINE n == Smaller(length, len)
           seen == copy_out(n, out_)
           front == SubSeq(Contents, 1, n)
<1>1. n \in 0 .. len
  BY Moved, Zenon
<1>2. Holds
  BY ContentsHold, Zenon
<1>3. Contents \in Seq(Element) /\ Len(Contents) = len /\ len \in Nat
  BY <1>2, Zenon DEF Holds
<1>4. n = Fifo!Least(length, Len(Contents))
  BY <1>3, Zenon DEF Smaller, Fifo!Least
<1> HIDE DEF n
<1>5. /\ front \in Seq(Element) /\ Len(front) = n
      /\ \A i \in 1 .. n : front[i] = Contents[i] /\ Contents[i] \in Element
  <2>1. n \in Nat /\ n <= Len(Contents)
    BY <1>1, <1>3, SMT
  <2>2. \A i \in 1 .. n : Contents[i] \in Element
    BY <1>3, <2>1, SMT
  <2> QED
    BY <2>1, <2>2, <1>3, SMT
<1>6. /\ seen = [i \in 1 .. n |-> seen[i]]
      /\ \A i \in 1 .. n : seen[i] = data[Place(i - 1)]
  BY <1>1, CellsOut, Zenon
<1> HIDE DEF seen, front
<1>7. ASSUME NEW i \in 1 .. n PROVE seen[i] = front[i] /\ seen[i] \in Element
  <2>1. i \in 1 .. len
    BY <1>1, <1>3, SMT
  <2> QED
    BY <1>2, <1>5, <1>6, <2>1, Zenon DEF Holds
<1>8. seen \in [1 .. n -> Element] /\ n \in Nat
  BY <1>1, <1>3, <1>6, <1>7, SMT
<1>9. seen \in Seq(Element) /\ Len(seen) = n
  BY <1>8, FunctionIsSeq
<1>10. seen = front
  BY <1>5, <1>7, <1>9, SeqEqual
<1> QED
  BY <1>4, <1>10, Zenon DEF Peeked, Fifo!Front, seen, front, n

(* ... and what leaves it when he takes it.                                *)
LEMMA OutLeaves ==
  ASSUME TypeOK, TypeOK', NEW length \in Lengths, out(length)
  PROVE  Contents' = SubSeq(Contents, Fifo!Front(length).count + 1,
                            Len(Contents))
<1> DEFINE n == Smaller(length, len)
           rest == SubSeq(Contents, n + 1, Len(Contents))
           after == Contents'
<1>1. n \in 0 .. len
  BY Moved, Zenon
<1>2. Holds /\ Holds'
  BY ContentsHold, HoldNext, Zenon
<1>3. Contents \in Seq(Element) /\ Len(Contents) = len /\ len \in Nat
  BY <1>2, Zenon DEF Holds
<1>4. Fifo!Front(length).count = n
  BY <1>3, Zenon DEF Smaller, Fifo!Front, Fifo!Least
<1>5. in_' = in_ /\ data' = data /\ out_' = (out_ + n) % Modulus
  BY Zenon DEF out, Peeked
<1>6. after \in Seq(Element) /\ Len(after) = len'
  BY <1>2, Zenon DEF Holds
<1>7. len' = len - n
  BY <1>1, <1>5, Moves, Zenon DEF len
<1> HIDE DEF n, after
<1>8. /\ rest \in Seq(Element) /\ Len(rest) = len - n
      /\ \A i \in 1 .. len - n : rest[i] = Contents[n + i]
  <2>1. n \in Nat /\ n <= Len(Contents)
    BY <1>1, <1>3, SMT
  <2>2. \A i \in 1 .. len : Contents[i] \in Element
    BY <1>3, SMT
  <2> QED
    BY <2>1, <2>2, <1>3, SMT
<1> HIDE DEF rest
<1>9. ASSUME NEW i \in 1 .. len - n PROVE after[i] = rest[i]
  <2>1. /\ i - 1 \in Nat /\ n + i \in 1 .. len
        /\ n \in 0 .. Size /\ out_ + n + (i - 1) = out_ + ((n + i) - 1)
    BY <1>1, <1>3, Held, Constants, SMT
  <2>2. after[i] = data'[Place(i - 1)']
    BY <1>2, <1>7, Zenon DEF Holds, after
  <2>3. Place(i - 1)' = (out_' + (i - 1)) % Size
    BY Zenon DEF Place
  <2>4. Place(i - 1)' = (out_ + n + (i - 1)) % Size
    <3> DEFINE k == i - 1
    <3>1. out_ \in 0 .. Modulus - 1 /\ n \in 0 .. Size /\ k \in Nat
      BY <2>1, Held, Zenon
    <3> HIDE DEF k
    <3>2. (((out_ + n) % Modulus) + k) % Size = (out_ + n + k) % Size
      BY <3>1, WrapsAtRounds
    <3> QED
      BY <1>5, <2>3, <3>2, Zenon DEF k
  <2>5. Place(i - 1)' = Place((n + i) - 1)
    BY <2>1, <2>4, Zenon DEF Place
  <2>6. Contents[n + i] = data[Place((n + i) - 1)]
    <3> DEFINE j == n + i
    <3>1. j \in 1 .. len
      BY <2>1, Zenon
    <3> HIDE DEF j
    <3>2. Contents[j] = data[Place(j - 1)]
      BY <1>2, <3>1, Zenon DEF Holds
    <3> QED
      BY <3>2, Zenon DEF j
  <2> QED
    BY <1>5, <1>8, <2>2, <2>5, <2>6, Zenon
<1>10. after = rest
  BY <1>6, <1>7, <1>8, <1>9, SeqEqual
<1> QED
  BY <1>4, <1>10, Zenon DEF after, rest

LEMMA Steps ==
  ASSUME TypeOK, TypeOK', [Next]_vars
  PROVE  [Fifo!Next]_(Fifo!vars)
<1> DEFINE Goal == Fifo!Next
<1>1. Reported' = Fifo!Report(Contents')
  BY HoldNext, Zenon
<1>2. ASSUME NEW q, Contents' = q PROVE Fifo!Becomes(q)
  BY <1>1, <1>2, Zenon DEF Reported, Fifo!Becomes
<1>3. 0 % Modulus = 0 /\ in_ - in_ = 0 /\ 0 - 0 = 0
  BY Held, Constants, ModOnce, SMT
<1>4. ASSUME len' = 0, call' = Asked(<<>>, 0), answer' = Nothing PROVE Goal
  <2>1. Contents' = <<>>
    BY <1>4, HoldNext, IsEmpty, Zenon
  <2>2. Fifo!Becomes(<<>>)
    BY <1>2, <2>1, Zenon
  <2> QED
    BY <1>4, <2>2, Zenon
    DEF Fifo!Next, Fifo!Clear, Fifo!Asked, Fifo!Nothing, Asked, Nothing
<1>5. CASE reset
  <2>1. len' = 0
    BY <1>3, <1>5, Zenon DEF reset, len
  <2> QED
    BY <1>4, <1>5, <2>1, Zenon DEF reset
<1>6. CASE reset_out
  <2>1. len' = 0
    BY <1>3, <1>6, Zenon DEF reset_out, len
  <2> QED
    BY <1>4, <1>6, <2>1, Zenon DEF reset_out
<1>7. ASSUME NEW buf \in Buffers, in(buf) PROVE Goal
  <2>1. /\ call' = Asked(buf, Len(buf))
        /\ answer' = [count |-> Smaller(Len(buf), unused), values |-> <<>>]
    BY <1>7, Zenon DEF in
  <2>2. /\ Contents' = Contents \o SubSeq(buf, 1, Smaller(Len(buf), unused))
        /\ Smaller(Len(buf), unused)
             = Fifo!Least(Len(buf), Size - Len(Contents))
    BY <1>7, InJoins, Zenon
  <2>3. Fifo!Becomes(Contents \o SubSeq(buf, 1, Smaller(Len(buf), unused)))
    BY <1>2, <2>2, Zenon
  <2>4. Fifo!In(buf)
    BY <2>1, <2>2, <2>3, Zenon DEF Fifo!In, Fifo!Asked, Asked
  <2> QED
    BY <2>4, Zenon DEF Fifo!Next
<1>8. ASSUME NEW length \in Lengths, out_peek(length) PROVE Goal
  <2>1. Peeked(length) = Fifo!Front(length)
    BY PeekedIsFront, Zenon
  <2>2. Contents' = Contents
    BY <1>8, Zenon DEF out_peek, Contents, len
  <2>3. Fifo!Becomes(Contents)
    BY <1>2, <2>2, Zenon
  <2>4. Fifo!Peek(length)
    BY <1>8, <2>1, <2>3, Zenon DEF out_peek, Fifo!Peek, Fifo!Asked, Asked
  <2> QED
    BY <2>4, Zenon DEF Fifo!Next
<1>9. ASSUME NEW length \in Lengths, out(length) PROVE Goal
  <2>1. Peeked(length) = Fifo!Front(length)
    BY PeekedIsFront, Zenon
  <2>2. Contents' = SubSeq(Contents, Fifo!Front(length).count + 1, Len(Contents))
    BY <1>9, OutLeaves, Zenon
  <2>3. Fifo!Becomes(SubSeq(Contents, Fifo!Front(length).count + 1,
                            Len(Contents)))
    BY <1>2, <2>2, Zenon
  <2>4. Fifo!Out(length)
    BY <1>9, <2>1, <2>3, Zenon DEF out, Fifo!Out, Fifo!Asked, Asked
  <2> QED
    BY <2>4, Zenon DEF Fifo!Next
<1>10. CASE UNCHANGED vars
  <2>1. UNCHANGED Fifo!vars
    BY <1>10, Zenon DEF vars, Fifo!vars, Contents, len, unused, is_empty, is_full
  <2> QED
    BY <2>1, Zenon
<1> QED
  BY <1>5, <1>6, <1>7, <1>8, <1>9, <1>10, Zenon DEF Next

(* The ring is a bounded queue for every size, width and block: nothing is *)
(* lost, repeated or reordered, and what it answers is true of what it     *)
(* holds (kfifo.h:44-66, 94-119, 138-152).                                 *)
THEOREM RingIsFifo == Spec => ImplementsFifo
<1>1. Init => Fifo!Init
  <2> SUFFICES ASSUME Init PROVE Fifo!Init
    OBVIOUS
  <2>1. TypeOK
    <3>1. Init => TypeOK
      BY StartsTyped
    <3> QED
      BY <3>1
  <2>2. Holds /\ Reported = Fifo!Report(Contents)
    BY <2>1, ContentsHold, ReportsHold, Zenon
  <2>3. len = 0
    <3>1. 0 % Modulus = 0 /\ 0 - 0 = 0
      BY Constants, ModOnce, SMT
    <3> QED
      BY <3>1, Zenon DEF Init, len
  <2>4. Contents \in Seq(Element) /\ Len(Contents) = 0
    BY <2>2, <2>3, Zenon DEF Holds
  <2>5. Contents = <<>>
    BY <2>4, EmptySeq, SMT
  <2> QED
    BY <2>2, <2>5, Zenon DEF Init, Reported, Fifo!Init, Fifo!Asked,
                             Fifo!Nothing, Asked, Nothing
<1>2. TypeOK /\ TypeOK' /\ [Next]_vars => [Fifo!Next]_(Fifo!vars)
  BY Steps
<1> QED
  BY <1>1, <1>2, TypeCorrect, PTL DEF Spec, ImplementsFifo, Fifo!Spec
=============================================================================
