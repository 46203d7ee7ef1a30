------------------------------ MODULE CC3000SPI ------------------------------
(***************************************************************************)
(* The SPI layer of the CC3000 driver (cc3000_spi.cpp), byte for byte.     *)
(*                                                                         *)
(* A transaction is one low period of the chip-select line.  The layer     *)
(* announces a payload length in a five byte header, counts the payload    *)
(* down in payload_remaining, drops what the caller transfers beyond it    *)
(* ("payload overrun") and pads what the caller leaves out, so that the    *)
(* chip clocks exactly the frame that was announced, whatever the caller   *)
(* does.  The caller is arbitrary: any length, any number of transfers of  *)
(* any size between a start and the end, and a reset at any moment.        *)
(*                                                                         *)
(* The chip is external: it owns the IRQ line and the payload length of    *)
(* the frames the host reads.                                              *)
(*                                                                         *)
(* Definitions whose comment starts with "Variant" are faulty forms of the *)
(* definition that follows them; they are not part of the specification    *)
(* and show that the properties below can tell the difference.             *)
(***************************************************************************)
EXTENDS Naturals

CONSTANTS Lengths,      \* payload lengths the HCI layer asks start_write for
          Chunks,       \* sizes of one write() or read()
          FrameLengths, \* payload lengths the chip announces in a read
          MaxAsked      \* bound on the bytes asked for in one transaction

(* The header carries 16 bits of length; a longer payload is never asked.  *)
HeaderLimit == 65536

ASSUME LengthAssumption ==
  /\ Lengths \subseteq Nat /\ \A n \in Lengths : n < HeaderLimit
  /\ FrameLengths \subseteq Nat /\ \A n \in FrameLengths : n < HeaderLimit
  /\ Chunks \subseteq Nat
  /\ MaxAsked \in Nat

VARIABLES
  pc,                 \* "caller" between calls, "wait_irq" or "hung" inside one
  kind,               \* the transaction started last
  length,             \* payload length start_write was asked for in it
  cs,                 \* chip-select asserted
  irq,                \* the chip's IRQ line asserted
  payload_remaining,  \* the driver's count of payload bytes still to clock
  announced,          \* payload length the header of the transaction told
  clocked,            \* bytes the chip clocked in it, header included
  complete,           \* it was ended by end_transaction
  asked               \* payload bytes the caller asked to transfer in it

frame == <<kind, length, announced, clocked, complete, asked>>
vars == <<pc, cs, irq, payload_remaining, frame>>

(* Variant: pads the odd lengths.                                          *)
PaddedOdd(n) == IF n % 2 = 1 THEN n + 1 ELSE n

Padded(n) == IF n % 2 = 0 THEN n + 1 ELSE n

HeaderSize == 5

(* The caller runs, with the header of an open transaction behind it.      *)
InTransaction == pc = "caller" /\ cs

(* Bytes transfer_byte clocks out of n asked for with r still remaining.   *)
Clocked(n, r) == IF n <= r THEN n ELSE r
-----------------------------------------------------------------------------
Init ==
  /\ pc = "caller"
  /\ kind = "none"
  /\ length = 0
  /\ cs = FALSE
  /\ irq \in BOOLEAN
  /\ payload_remaining = 0
  /\ announced = 0
  /\ clocked = 0
  /\ complete = FALSE
  /\ asked = 0

(* start_transaction() with the previous transaction still open: the       *)
(* driver spins in while(true).                                            *)
StartDangling ==
  /\ pc = "caller"
  /\ cs
  /\ pc' = "hung"
  /\ UNCHANGED <<cs, irq, payload_remaining, frame>>

(* start_transaction(): assert chip-select, then wait for the IRQ line.    *)
(* init() waits for the IRQ before it starts as well.                      *)
StartTransaction(k, n) ==
  /\ pc = "caller"
  /\ ~cs
  /\ k = "init" => irq
  /\ pc' = "wait_irq"
  /\ kind' = k
  /\ length' = n
  /\ cs' = TRUE
  /\ announced' = 0
  /\ clocked' = 0
  /\ complete' = FALSE
  /\ asked' = 0
  /\ UNCHANGED <<irq, payload_remaining>>

(* Variant: waits for the IRQ line to go down.                             *)
HeaderAwaitsLow(n, remaining) ==
  /\ pc = "wait_irq"
  /\ ~irq
  /\ pc' = "caller"
  /\ payload_remaining' = remaining
  /\ announced' = n
  /\ clocked' = HeaderSize
  /\ UNCHANGED <<kind, length, cs, irq, complete, asked>>

(* The five header bytes, and the count for the payload that follows.      *)
Header(n, remaining) ==
  /\ pc = "wait_irq"
  /\ irq
  /\ pc' = "caller"
  /\ payload_remaining' = remaining
  /\ announced' = n
  /\ clocked' = HeaderSize
  /\ UNCHANGED <<kind, length, cs, irq, complete, asked>>

(* Variant: counts the payload without its pad byte.                       *)
WriteHeaderUnpadded ==
  /\ kind = "write"
  /\ Header(Padded(length) % HeaderLimit, length)

(* Variant: leaves payload_remaining as the header bytes left it.          *)
WriteHeaderUncounted ==
  /\ kind = "write"
  /\ Header(Padded(length) % HeaderLimit, 0)

(* start_write(): an even payload is padded by one byte, so that header    *)
(* and payload together are even; the length goes out in two bytes.        *)
WriteHeader ==
  /\ kind = "write"
  /\ Header(Padded(length) % HeaderLimit, Padded(length))

(* start_read(): the chip answers the header with its payload length.      *)
ReadHeader(n) ==
  /\ kind = "read"
  /\ Header(n, n)

(* init(): ten bytes written by hand, five of header and a SIMPLE_LINK_    *)
(* START command of five bytes; nothing remains when end_transaction runs. *)
InitFrame ==
  /\ kind = "init"
  /\ pc = "wait_irq"
  /\ irq
  /\ pc' = "caller"
  /\ payload_remaining' = 0
  /\ announced' = 5
  /\ clocked' = 10
  /\ asked' = 5
  /\ UNCHANGED <<kind, length, cs, irq, complete>>

(* Variant: transfer_byte counts down without looking.                     *)
TransferUnchecked(n) ==
  /\ InTransaction
  /\ asked + n <= MaxAsked
  /\ payload_remaining' = payload_remaining - n
  /\ clocked' = clocked + n
  /\ asked' = asked + n
  /\ UNCHANGED <<pc, kind, length, cs, irq, announced, complete>>

(* write() or read() of n bytes, which the callers do inside transactions: *)
(* transfer_byte clocks while payload_remaining allows and reports an      *)
(* overrun for the rest.                                                   *)
Transfer(n) ==
  /\ InTransaction
  /\ asked + n <= MaxAsked
  /\ payload_remaining' = payload_remaining - Clocked(n, payload_remaining)
  /\ clocked' = clocked + Clocked(n, payload_remaining)
  /\ asked' = asked + n
  /\ UNCHANGED <<pc, kind, length, cs, irq, announced, complete>>

(* Variant: releases chip-select without clocking the rest.                *)
EndTransactionShort ==
  /\ InTransaction
  /\ cs' = FALSE
  /\ complete' = TRUE
  /\ payload_remaining' = 0
  /\ UNCHANGED <<pc, kind, length, irq, announced, clocked, asked>>

(* end_transaction(): clock zeros for what remains, release chip-select.   *)
EndTransaction ==
  /\ InTransaction
  /\ cs' = FALSE
  /\ clocked' = clocked + payload_remaining
  /\ complete' = TRUE
  /\ payload_remaining' = 0
  /\ UNCHANGED <<pc, kind, length, irq, announced, asked>>

(* reset(), from CC3000::disable(): release chip-select and nothing else.  *)
(* payload_remaining keeps its value.                                      *)
Reset ==
  /\ pc = "caller"
  /\ cs' = FALSE
  /\ UNCHANGED <<pc, irq, payload_remaining, frame>>

(* The chip raises IRQ for an event it holds or once it is ready for a     *)
(* transaction, and keeps it up until a waiting host has seen it.          *)
IrqAssert ==
  /\ ~irq
  /\ irq' = TRUE
  /\ UNCHANGED <<pc, cs, payload_remaining, frame>>

IrqDeassert ==
  /\ irq
  /\ pc # "wait_irq"
  /\ irq' = FALSE
  /\ UNCHANGED <<pc, cs, payload_remaining, frame>>

Next ==
  \/ StartDangling
  \/ \E n \in Lengths : StartTransaction("write", n)
  \/ \E k \in {"read", "init"} : StartTransaction(k, 0)
  \/ WriteHeader
  \/ \E n \in FrameLengths : ReadHeader(n)
  \/ InitFrame
  \/ \E n \in Chunks : Transfer(n)
  \/ EndTransaction
  \/ Reset
  \/ IrqAssert
  \/ IrqDeassert

(* The chip answers a selected host, and the host's wait loop runs.        *)
Fairness ==
  /\ WF_vars(IrqAssert /\ pc = "wait_irq")
  /\ WF_vars(WriteHeader \/ InitFrame \/ \E n \in FrameLengths : ReadHeader(n))

Spec == Init /\ [][Next]_vars /\ Fairness
-----------------------------------------------------------------------------
TypeOK ==
  /\ pc \in {"caller", "wait_irq", "hung"}
  /\ kind \in {"none", "write", "read", "init"}
  /\ length \in Nat /\ length < HeaderLimit
  /\ cs \in BOOLEAN
  /\ irq \in BOOLEAN
  /\ payload_remaining \in Nat
  /\ announced \in Nat
  /\ clocked \in Nat
  /\ complete \in BOOLEAN
  /\ asked \in Nat

(* Whatever the caller transferred, a transaction that ended has clocked   *)
(* its header and exactly the payload its header announced: no short frame *)
(* and no byte beyond it (transfer_byte, end_transaction).                 *)
FrameIsExact ==
  complete => clocked = HeaderSize + announced

(* The chip needs an even number of bytes per frame the host writes        *)
(* (start_write's padding, init's ten bytes).                              *)
WritesAreEven ==
  (complete /\ kind \in {"write", "init"})
    => clocked % 2 = 0

(* A caller that transfers no more than the length it announced loses no   *)
(* byte, and at most one pad byte follows its data: the bytes still owed   *)
(* are those it has not asked for yet, and the pad byte.                   *)
NothingDropped ==
  (InTransaction /\ kind = "write" /\ asked <= length)
    => payload_remaining \in {length - asked,
                              length - asked + 1}

(* While the chip is selected, what has been clocked and what payload_     *)
(* remaining still owes make up the announced frame, whatever an earlier   *)
(* reset() left in payload_remaining.                                      *)
RemainingIsOwed ==
  InTransaction => clocked + payload_remaining = HeaderSize + announced

(* start_transaction()'s wait ends: the host is never left with the chip   *)
(* selected and no header sent.                                            *)
HeaderIsSent == pc = "wait_irq" ~> InTransaction
=============================================================================
