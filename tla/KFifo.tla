------------------------------- MODULE KFifo -------------------------------
(* kfifo_t<T, K> of kfifo.h: a ring of 1 << K cells between two indices    *)
(* that only grow, wrap at the width of size_t and are masked where they   *)
(* index the cells.  put(), get() and peek() are not here: they write      *)
(* "in & mask()" and "out & mask()", where in and out name the member      *)
(* functions, and cannot be instantiated.                                  *)
EXTENDS Integers, Sequences

CONSTANTS K,             \* the cells are 1 << K
          Width,         \* the bits of size_t
          Values,        \* T
          Unset,         \* what a cell holds that was never written
          Buffers,       \* what callers pass to in()
          Lengths        \* what callers ask of out() and out_peek()

ASSUME KAssumption == K \in Nat /\ Width \in Nat /\ K < Width
ASSUME BuffersAssumption == Buffers \subseteq Seq(Values)
ASSUME LengthsAssumption == Lengths \subseteq Nat

VARIABLES in_, out_,     \* the indices
          data,          \* the cells
          call,          \* the last call: the buffer given, the length
          answer         \* what it gave back

vars == <<in_, out_, data, call, answer>>

Power2[n \in Nat] == IF n = 0 THEN 1 ELSE 2 * Power2[n - 1]

Size == Power2[K]
Modulus == Power2[Width]

Smaller(a, b) == IF a < b THEN a ELSE b

len == (in_ - out_) % Modulus

(* Variant: the room there would be in an empty queue. *)
UnusedAll == Size

unused == (Size - len) % Modulus
is_empty == in_ = out_
is_full == len > Size - 1

-----------------------------------------------------------------------------
(* The cells once values[1..length] is written at off: up to the end of    *)
(* the ring, and the rest at its start.  A cell is named by its index, the *)
(* buffer's elements from 1.                                               *)
(* Variant: the second part is copied from the start of the source. *)
copy_in_restarted(buf, length, off) ==
  LET first == off % Size
      l == Smaller(length, Size - first)
  IN  [i \in 0..Size-1 |->
         IF i < length - l THEN buf[i + 1]
         ELSE IF i >= first /\ i < first + l THEN buf[i - first + 1]
         ELSE data[i]]

copy_in(buf, length, off) ==
  LET first == off % Size
      l == Smaller(length, Size - first)
  IN  [i \in 0..Size-1 |->
         IF i < length - l THEN buf[l + i + 1]
         ELSE IF i >= first /\ i < first + l THEN buf[i - first + 1]
         ELSE data[i]]

copy_out(length, off) ==
  LET first == off % Size
      l == Smaller(length, Size - first)
  IN  [i \in 1..length |-> IF i <= l THEN data[first + i - 1]
                                     ELSE data[i - l - 1]]

Nothing == [count |-> 0, values |-> <<>>]

Asked(given, length) == [given |-> given, length |-> length]

Init == /\ in_ = 0
        /\ out_ = 0
        /\ data = [i \in 0..Size-1 |-> Unset]
        /\ call = Asked(<<>>, 0)
        /\ answer = Nothing

reset == /\ in_' = 0
         /\ out_' = 0
         /\ call' = Asked(<<>>, 0)
         /\ answer' = Nothing
         /\ UNCHANGED data

reset_out == /\ out_' = in_
             /\ call' = Asked(<<>>, 0)
             /\ answer' = Nothing
             /\ UNCHANGED <<in_, data>>

in(buf) ==
  LET length == Smaller(Len(buf), unused)
  IN  /\ data' = copy_in(buf, length, in_)
      /\ in_' = (in_ + length) % Modulus
      /\ call' = Asked(buf, Len(buf))
      /\ answer' = [count |-> length, values |-> <<>>]
      /\ UNCHANGED out_

Peeked(length) ==
  LET n == Smaller(length, len)
  IN  [count |-> n, values |-> copy_out(n, out_)]

out_peek(length) == /\ call' = Asked(<<>>, length)
                    /\ answer' = Peeked(length)
                    /\ UNCHANGED <<in_, out_, data>>

out(length) == /\ call' = Asked(<<>>, length)
               /\ answer' = Peeked(length)
               /\ out_' = (out_ + Peeked(length).count) % Modulus
               /\ UNCHANGED <<in_, data>>

Next == \/ reset
        \/ reset_out
        \/ \E buf \in Buffers : in(buf)
        \/ \E length \in Lengths : out_peek(length)
        \/ \E length \in Lengths : out(length)

Spec == Init /\ [][Next]_vars

-----------------------------------------------------------------------------
(* Type invariant.  The indices never get further apart than the ring is   *)
(* long, whatever wraps (kfifo.h:52-66, 94-119).                           *)
TypeOK == /\ in_ \in 0..Modulus-1
          /\ out_ \in 0..Modulus-1
          /\ len <= Size
          /\ data \in [0..Size-1 -> Values \cup {Unset}]

Contents == [i \in 1..len |-> data[(out_ + i - 1) % Size]]

Fifo == INSTANCE BoundedFifo
          WITH Capacity <- Size,
               queue <- Contents,
               report <- [len |-> len, unused |-> unused,
                          empty |-> is_empty, full |-> is_full]

(* The ring is a bounded queue: no element is lost, repeated or reordered  *)
(* when a block wraps around the cells or an index around its width, and   *)
(* len(), unused(), is_empty() and is_full() answer from the elements held *)
(* (kfifo.h:44-66, 94-119, 138-152).                                       *)
ImplementsFifo == Fifo!Spec
=============================================================================
