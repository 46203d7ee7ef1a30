------------------------------- MODULE Serial -------------------------------
(* serial.cpp: the log.  A call puts its characters out one at a time, and *)
(* for each waits until the UART's holding register is empty.  There is no *)
(* interrupt and no queue in the firmware: the caller is inside the call   *)
(* until the last character is in the UART.                                *)
EXTENDS Integers, SequencesExt

CONSTANT FifoDepth       \* characters the UART takes before it loses one

VARIABLES text,          \* what the call in progress has yet to write
          thr,           \* written, not yet on the wire
          wire,          \* what left the pin
          logged         \* the calls, as their callers meant them

vars == <<text, thr, wire, logged>>

Init == text = <<>> /\ thr = <<>> /\ wire = <<>> /\ logged = <<>>

Idle == text = <<>>

(* Characters are their codes. *)
Newline == <<13, 10>>

serial_write_hex_digit(value) ==
  IF value < 10 THEN value + 48
  ELSE IF value < 16 THEN value - 10 + 65
  ELSE 63

(* The digits below the last come first, by the recursion. *)
serial_write_hex_recursive[value \in Nat] ==
  [width \in Nat |->
     LET new_width == IF width # 0 THEN width - 1 ELSE 0
         new_value == value \div 16
     IN  (IF new_value > 0 \/ new_width > 0
          THEN serial_write_hex_recursive[new_value][new_width] ELSE <<>>)
         \o <<serial_write_hex_digit(value % 16)>>]

Hex(value, width) == serial_write_hex_recursive[value][width]

-----------------------------------------------------------------------------
Call(characters, meant) == /\ Idle
                           /\ text' = characters
                           /\ logged' = Append(logged, meant)
                           /\ UNCHANGED <<thr, wire>>

serial_write_string(s) == Call(s, [kind |-> "string", text |-> s])

serial_write_line(s) == Call(s \o Newline, [kind |-> "line", text |-> s])

serial_write_hex(value, width) ==
  Call(Hex(value, width), [kind |-> "hex", value |-> value, width |-> width])

(* LSR bit 5: nothing is left to transmit. *)
Empty == thr = <<>>

(* A character written to a full UART is lost. *)
Written(character) ==
  /\ thr' = IF Len(thr) < FifoDepth THEN Append(thr, character) ELSE thr
  /\ text' = Tail(text)
  /\ UNCHANGED <<wire, logged>>

(* Variant: the wait for the holding register is gone. *)
serial_write_unawaited == ~Idle /\ Written(Head(text))

serial_write == ~Idle /\ Empty /\ Written(Head(text))

(* The UART sends its oldest character. *)
Transmit == /\ thr # <<>>
            /\ wire' = Append(wire, Head(thr))
            /\ thr' = Tail(thr)
            /\ UNCHANGED <<text, logged>>

-----------------------------------------------------------------------------
(* What a reader of the wire should see for a call, told without the       *)
(* recursion: the digits of a number are its places in base 16, as many as *)
(* the number or the width needs.                                          *)
Power16[k \in Nat] == IF k = 0 THEN 1 ELSE 16 * Power16[k - 1]

Fits(value, width, n) == width <= n /\ value < Power16[n]

Digits(value, width) ==
  LET n == CHOOSE k \in 1..value+width+1 :
             /\ Fits(value, width, k)
             /\ \A j \in 1..k-1 : ~Fits(value, width, j)
  IN  [i \in 1..n |-> LET d == (value \div Power16[n - i]) % 16
                      IN  IF d < 10 THEN d + 48 ELSE d + 55]

Meaning(call) == CASE call.kind = "string" -> call.text
                   [] call.kind = "line" -> call.text \o <<13, 10>>
                   [] call.kind = "hex" -> Digits(call.value, call.width)

Told == FlattenSeq([i \in DOMAIN logged |-> Meaning(logged[i])])

(* Nothing that was logged is lost, repeated or out of order: what is on   *)
(* the wire, in the UART and still to be written is what the callers meant *)
(* (serial.cpp:110-112, 152-187).                                          *)
WireFollowsLog == wire \o thr \o text = Told
=============================================================================
