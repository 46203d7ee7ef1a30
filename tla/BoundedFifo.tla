---------------------------- MODULE BoundedFifo ----------------------------
(* What a bounded queue promises to its callers: what goes in comes out,   *)
(* in order, once; a call moves what fits and says how much that was; and  *)
(* the questions one may ask of it are answered from what it holds.        *)
EXTENDS Naturals, Sequences

CONSTANTS Capacity,      \* how much the queue holds
          Buffers,       \* what a caller may offer
          Lengths        \* how much a caller may ask for

VARIABLES queue,         \* what the queue holds
          call,          \* the last call: what was given and asked for
          answer,        \* what it gave back
          report         \* what the questions about the queue answer

vars == <<queue, call, answer, report>>

Least(a, b) == IF a < b THEN a ELSE b

Report(q) == [len |-> Len(q), unused |-> Capacity - Len(q),
              empty |-> q = <<>>, full |-> Len(q) = Capacity]

Becomes(q) == queue' = q /\ report' = Report(q)

Nothing == [count |-> 0, values |-> <<>>]

Asked(given, length) == [given |-> given, length |-> length]

Init == /\ queue = <<>>
        /\ report = Report(<<>>)
        /\ call = Asked(<<>>, 0)
        /\ answer = Nothing

(* What fits of the caller's buffer joins the end of the queue. *)
In(buffer) ==
  LET n == Least(Len(buffer), Capacity - Len(queue))
  IN  /\ call' = Asked(buffer, Len(buffer))
      /\ Becomes(queue \o SubSeq(buffer, 1, n))
      /\ answer' = [count |-> n, values |-> <<>>]

Front(length) ==
  LET n == Least(length, Len(queue))
  IN  [count |-> n, values |-> SubSeq(queue, 1, n)]

(* The caller sees the front of the queue, which stays. *)
Peek(length) == /\ call' = Asked(<<>>, length)
                /\ answer' = Front(length)
                /\ Becomes(queue)

(* The caller takes the front of the queue. *)
Out(length) ==
  /\ call' = Asked(<<>>, length)
  /\ answer' = Front(length)
  /\ Becomes(SubSeq(queue, Front(length).count + 1, Len(queue)))

Clear == Becomes(<<>>) /\ call' = Asked(<<>>, 0) /\ answer' = Nothing

Next == \/ \E buffer \in Buffers : In(buffer)
        \/ \E length \in Lengths : Peek(length) \/ Out(length)
        \/ Clear

Spec == Init /\ [][Next]_vars
=============================================================================
