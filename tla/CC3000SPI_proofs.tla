-------------------------- MODULE CC3000SPI_proofs --------------------------
(***************************************************************************)
(* The framing of the SPI layer, proved for every payload length of 16     *)
(* bits and every sequence of transfers.                                   *)
(*                                                                         *)
(* FrameIsExact speaks of finished transactions only.  It is inductive     *)
(* together with RemainingIsOwed, which holds the account while one is     *)
(* open, and with the fact that a frame is complete only when the chip is  *)
(* not selected.                                                           *)
(***************************************************************************)
EXTENDS CC3000SPI, TLAPS

(* The parts of the account that FrameIsExact and WritesAreEven need.      *)
CompleteIsOut == complete => ~cs

AnnouncedIsOdd ==
  (kind \in {"write", "init"} /\ (InTransaction \/ complete))
    => announced % 2 = 1

(* The bytes a writing caller has not asked for yet are still owed, with   *)
(* the pad byte; once it asked for all of them, nothing it asks is due.    *)
OwedIsUnasked ==
  (InTransaction /\ kind = "write")
    => payload_remaining = IF asked <= Padded(length)
                           THEN Padded(length) - asked
                           ELSE 0

WaitingIsFresh == pc = "wait_irq" => cs /\ ~complete /\ asked = 0

(* TypeOK in two parts, one for each prover: lines and numbers.            *)
LinesOK == cs \in BOOLEAN /\ irq \in BOOLEAN /\ complete \in BOOLEAN

NumbersOK ==
  /\ pc \in {"caller", "wait_irq", "hung"}
  /\ kind \in {"none", "write", "read", "init"}
  /\ length \in Nat /\ length < HeaderLimit
  /\ payload_remaining \in Nat
  /\ announced \in Nat
  /\ clocked \in Nat
  /\ asked \in Nat

Account ==
  /\ NumbersOK
  /\ RemainingIsOwed
  /\ FrameIsExact
  /\ CompleteIsOut
  /\ AnnouncedIsOdd
  /\ OwedIsUnasked
  /\ WaitingIsFresh

IInv == LinesOK /\ Account
-----------------------------------------------------------------------------
LEMMA HeaderLimitFacts == HeaderLimit \in Nat \ {0} /\ HeaderLimit % 2 = 0
  BY SMT DEF HeaderLimit

(* start_write pads to an odd payload of at most one byte more, which      *)
(* still fits the 16 bits of the header.                                   *)
LEMMA PaddedFacts ==
  ASSUME NEW n \in Nat, n < HeaderLimit
  PROVE  /\ Padded(n) \in Nat
         /\ Padded(n) = n \/ Padded(n) = n + 1
         /\ Padded(n) % 2 = 1
         /\ Padded(n) % HeaderLimit = Padded(n)
<1>1. CASE n % 2 = 0
  <2>1. (n + 1) % 2 = 1 /\ n + 1 < HeaderLimit
    BY <1>1, HeaderLimitFacts, SMT
  <2>2. (n + 1) % HeaderLimit = n + 1
    BY <2>1, HeaderLimitFacts, SMT
  <2> QED
    BY <1>1, <2>1, <2>2 DEF Padded
<1>2. CASE n % 2 # 0
  <2>1. n % 2 = 1 /\ n % HeaderLimit = n
    BY <1>2, HeaderLimitFacts, SMT
  <2> QED
    BY <1>2, <2>1 DEF Padded
<1> QED
  BY <1>1, <1>2

(* A transfer never clocks more than was asked or than remains.            *)
LEMMA ClockedFacts ==
  ASSUME NEW n \in Nat, NEW r \in Nat
  PROVE  /\ Clocked(n, r) \in Nat
         /\ Clocked(n, r) <= r
         /\ r - Clocked(n, r) = IF n <= r THEN r - n ELSE 0
  BY DEF Clocked
-----------------------------------------------------------------------------
LEMMA InitIInv == Init => IInv
<1>1. Init => LinesOK
  BY Zenon DEF Init, LinesOK
<1>2. Init => Account
  BY HeaderLimitFacts, SMT DEF Init, Account, NumbersOK, RemainingIsOwed, FrameIsExact,
     CompleteIsOut, AnnouncedIsOdd, OwedIsUnasked, WaitingIsFresh,
     InTransaction
<1> QED
  BY <1>1, <1>2 DEF IInv

LEMMA StepIInv == IInv /\ [Next]_vars => IInv'
<1> USE LengthAssumption, HeaderLimitFacts
    DEF LinesOK, Account, NumbersOK, RemainingIsOwed, FrameIsExact,
        CompleteIsOut, AnnouncedIsOdd, OwedIsUnasked, WaitingIsFresh,
        InTransaction, HeaderSize, frame
<1> SUFFICES ASSUME LinesOK, Account, [Next]_vars PROVE LinesOK' /\ Account'
  BY DEF IInv
<1>1. CASE StartDangling
  <2>1. LinesOK'
    BY <1>1, Zenon DEF StartDangling
  <2>2. Account'
    BY <1>1, SMT DEF StartDangling
  <2> QED
    BY <2>1, <2>2
<1>2. ASSUME NEW k \in {"write", "read", "init"}, NEW n \in Nat, n < HeaderLimit,
             StartTransaction(k, n)
      PROVE  LinesOK' /\ Account'
  <2>1. LinesOK'
    BY <1>2, Zenon DEF StartTransaction
  <2>2. Account'
    BY <1>2, SMT DEF StartTransaction
  <2> QED
    BY <2>1, <2>2
<1>3. CASE WriteHeader
  <2> DEFINE p == Padded(length)
  <2>1. p \in Nat /\ p % 2 = 1 /\ p % HeaderLimit = p
    BY PaddedFacts
  <2>2. Header(p, p) /\ kind = "write"
    BY <1>3, <2>1 DEF WriteHeader
  <2>3. LinesOK'
    BY <2>2, Zenon DEF Header
  <2>4. OwedIsUnasked'
    BY <2>1, <2>2, SMT DEF Header
  <2> HIDE DEF p
  <2>5. /\ NumbersOK' /\ RemainingIsOwed' /\ FrameIsExact' /\ CompleteIsOut'
        /\ AnnouncedIsOdd' /\ WaitingIsFresh'
    BY <2>1, <2>2, SMT DEF Header
  <2> QED
    BY <2>3, <2>4, <2>5
<1>4. ASSUME NEW n \in FrameLengths, ReadHeader(n)
      PROVE  LinesOK' /\ Account'
  <2>1. LinesOK'
    BY <1>4, Zenon DEF ReadHeader, Header
  <2>2. Account'
    BY <1>4, SMT DEF ReadHeader, Header
  <2> QED
    BY <2>1, <2>2
<1>5. CASE InitFrame
  <2>1. LinesOK'
    BY <1>5, Zenon DEF InitFrame
  <2>2. Account'
    BY <1>5, SMT DEF InitFrame
  <2> QED
    BY <2>1, <2>2
<1>6. ASSUME NEW n \in Chunks, Transfer(n)
      PROVE  LinesOK' /\ Account'
  <2> DEFINE c == Clocked(n, payload_remaining)
  <2>1. /\ c \in Nat
        /\ c <= payload_remaining
        /\ payload_remaining - c =
             IF n <= payload_remaining THEN payload_remaining - n ELSE 0
    BY ClockedFacts
  <2>2. /\ pc = "caller" /\ cs
        /\ payload_remaining' = payload_remaining - c
        /\ clocked' = clocked + c
        /\ asked' = asked + n
        /\ UNCHANGED <<pc, kind, length, cs, irq, announced, complete>>
    BY <1>6 DEF Transfer
  <2>3. LinesOK'
    BY <2>2, Zenon
  <2> HIDE DEF c
  <2>4. /\ NumbersOK' /\ RemainingIsOwed' /\ FrameIsExact' /\ CompleteIsOut'
        /\ AnnouncedIsOdd' /\ WaitingIsFresh'
    BY <2>1, <2>2, SMT
  <2>5. Padded(length) \in Nat
    BY PaddedFacts
  <2>6. OwedIsUnasked'
    BY <2>1, <2>2, <2>5, SMT
  <2> QED
    BY <2>3, <2>4, <2>6
<1>7. CASE EndTransaction
  <2>1. LinesOK'
    BY <1>7, Zenon DEF EndTransaction
  <2>2. Account'
    BY <1>7, SMT DEF EndTransaction
  <2> QED
    BY <2>1, <2>2
<1>8. CASE Reset
  <2>1. LinesOK'
    BY <1>8, Zenon DEF Reset
  <2>2. Account'
    BY <1>8, SMT DEF Reset
  <2> QED
    BY <2>1, <2>2
<1>9. CASE IrqAssert
  <2>1. LinesOK'
    BY <1>9, Zenon DEF IrqAssert
  <2>2. Account'
    BY <1>9, SMT DEF IrqAssert
  <2> QED
    BY <2>1, <2>2
<1>10. CASE IrqDeassert
  <2>1. LinesOK'
    BY <1>10, Zenon DEF IrqDeassert
  <2>2. Account'
    BY <1>10, SMT DEF IrqDeassert
  <2> QED
    BY <2>1, <2>2
<1>11. CASE UNCHANGED vars
  <2>1. LinesOK'
    BY <1>11, Zenon DEF vars
  <2>2. Account'
    BY <1>11, SMT DEF vars
  <2> QED
    BY <2>1, <2>2
<1> QED
  <2> HIDE DEF LinesOK, Account
  <2> QED
    BY <1>1, <1>2, <1>3, <1>4, <1>5, <1>6, <1>7, <1>8, <1>9, <1>10, <1>11
       DEF Next

(* The strengthened invariant holds in every reachable state.              *)
THEOREM SpecIInv == Spec => []IInv
  BY InitIInv, StepIInv, PTL DEF Spec
-----------------------------------------------------------------------------
(* Type correctness: payload_remaining, a size_t, never wraps below zero.  *)
THEOREM TypeCorrect == Spec => []TypeOK
<1>1. IInv => TypeOK
  BY DEF IInv, LinesOK, Account, NumbersOK, TypeOK
<1> QED
  BY SpecIInv, <1>1, PTL

(* Every finished transaction clocked its header and exactly the payload   *)
(* announced, whatever lengths and transfers the caller chose.             *)
THEOREM FramesAreExact == Spec => []FrameIsExact
<1>1. IInv => FrameIsExact
  BY DEF IInv, Account
<1> QED
  BY SpecIInv, <1>1, PTL

(* Every frame the host writes is an even number of bytes.                *)
THEOREM WritesAreAlwaysEven == Spec => []WritesAreEven
<1>1. IInv => WritesAreEven
  BY SMT DEF IInv, Account, NumbersOK, WritesAreEven, FrameIsExact, AnnouncedIsOdd,
     HeaderSize
<1> QED
  BY SpecIInv, <1>1, PTL

(* A caller that keeps to the length it announced loses none of its bytes. *)
THEOREM NothingIsDropped == Spec => []NothingDropped
<1>1. IInv => NothingDropped
  <2> SUFFICES ASSUME IInv, InTransaction, kind = "write",
                      asked <= length
               PROVE  payload_remaining \in {length - asked,
                                             length - asked + 1}
    BY DEF NothingDropped
  <2>1. length \in Nat /\ length < HeaderLimit /\ asked \in Nat
    BY DEF IInv, Account, NumbersOK
  <2>2. Padded(length) = length \/ Padded(length) = length + 1
    BY <2>1, PaddedFacts
  <2>3. payload_remaining = Padded(length) - asked
    BY <2>1, <2>2 DEF IInv, Account, OwedIsUnasked
  <2> QED
    BY <2>1, <2>2, <2>3
<1> QED
  BY SpecIInv, <1>1, PTL

(* What is clocked and what is owed make up the announced frame         *)
(* all through a transaction, whatever a reset left before it.             *)
THEOREM RemainingIsAlwaysOwed == Spec => []RemainingIsOwed
<1>1. IInv => RemainingIsOwed
  BY DEF IInv, Account
<1> QED
  BY SpecIInv, <1>1, PTL
=============================================================================
