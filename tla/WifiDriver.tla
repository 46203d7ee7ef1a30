------------------------------ MODULE WifiDriver -----------------------------
(***************************************************************************)
(* What the CC3000 driver promises the program above it.                   *)
(*                                                                         *)
(* The program makes one call at a time or polls.  A call returns the      *)
(* result of that call and of no other.  The changes of the link are news  *)
(* that the driver learns one by one, in the order they happened, and only *)
(* while a call or a poll is in progress: between calls the flags that the *)
(* program reads do not change.  Calls and polls return.                   *)
(***************************************************************************)
EXTENDS Naturals, Sequences

VARIABLES
  phase,    \* "idle", "calling", "sending" (a call without a result), "polling"
  number,   \* how many calls were made
  answered, \* the call whose result the program holds; 0 if it holds none
  news,     \* changes of the link that were not learned yet
  seen      \* the link as the program sees it: its last change

vars == <<phase, number, answered, news, seen>>

Init ==
  /\ phase = "calling"
  /\ number = 1
  /\ answered = 0
  /\ news = <<>>
  /\ seen = "disconnect"

(* The chip is switched off and on: what it knew is lost.                  *)
Restart ==
  /\ phase = "idle"
  /\ phase' = "calling"
  /\ number' = number + 1
  /\ news' = <<>>
  /\ seen' = "disconnect"
  /\ answered' = 0

Call ==
  /\ phase = "idle"
  /\ phase' \in {"calling", "sending"}
  /\ number' = number + 1
  /\ answered' = 0
  /\ UNCHANGED <<news, seen>>

Return ==
  /\ phase = "calling"
  /\ phase' = "idle"
  /\ answered' = number
  /\ UNCHANGED <<number, news, seen>>

Sent ==
  /\ phase = "sending"
  /\ phase' = "idle"
  /\ UNCHANGED <<number, answered, news, seen>>

Poll ==
  /\ phase = "idle"
  /\ phase' = "polling"
  /\ UNCHANGED <<number, answered, news, seen>>

PollReturn ==
  /\ phase = "polling"
  /\ phase' = "idle"
  /\ UNCHANGED <<number, answered, news, seen>>

Change ==
  /\ \E kind \in {"connect", "dhcp", "disconnect"} : news' = Append(news, kind)
  /\ UNCHANGED <<phase, number, answered, seen>>

Learn ==
  /\ phase \in {"calling", "polling"}
  /\ news # <<>>
  /\ seen' = Head(news)
  /\ news' = Tail(news)
  /\ UNCHANGED <<phase, number, answered>>

Next ==
  \/ Restart
  \/ Call
  \/ Return
  \/ Sent
  \/ Poll
  \/ PollReturn
  \/ Change
  \/ Learn

Safety == Init /\ [][Next]_vars

Spec == Safety /\ WF_vars(Return) /\ WF_vars(Sent) /\ WF_vars(PollReturn)
=============================================================================
