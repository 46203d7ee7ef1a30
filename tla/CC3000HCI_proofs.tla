-------------------------- MODULE CC3000HCI_proofs --------------------------
(***************************************************************************)
(* The HCI layer, proved for every chip and program, every number of calls *)
(* and of unsolicited events: its transactions, the WLAN flags, the replies*)
(* of the calls, and with them that it keeps the promise of WifiDriver.    *)
(*                                                                         *)
(* TransactionsClosed holds under two conditions, and the runs show that   *)
(* each is needed: the chip sends no event the host has no case for, and   *)
(* read_buffer_size is not called.  It is not inductive: wait_for_data     *)
(* leaks when it is given a reply, so the invariant has to tell where the  *)
(* one reply that can exist is - still owed by the chip, queued, or in the *)
(* thread's hands - and that the thread then polls in wait_for.            *)
(***************************************************************************)
EXTENDS CC3000HCI, DataLemmas

NoReply == \A i \in 1 .. Len(out) : out[i].kind # "reply"

AtMostOneReply ==
  \A i, j \in 1 .. Len(out) :
    out[i].kind = "reply" /\ out[j].kind = "reply" => i = j

(* The frames that a chip without strays sends.                            *)
Kinds == KnownEvents \cup {"reply", "data", "short"}

QueueOK ==
  /\ out \in Seq(Frames)
  /\ \A i \in 1 .. Len(out) : out[i].kind \in Kinds
  /\ hdr.kind \in Kinds

OwedReply == todo \in RepliedCalls => NoReply /\ waiter = "event"

QueuedReply == AtMostOneReply /\ (NoReply \/ waiter = "event")

TakenReply ==
  pc = "dispatch" /\ hdr.kind = "reply"
    => NoReply /\ todo \notin RepliedCalls /\ waiter = "event"

WaiterOK ==
  pc \in {"boot", "idle", "call", "call_ready"} => waiter = "none"

CallOK ==
  call \in (Calls \cup {"simple_link_start"}) \ {"read_buffer_size"}

(* What Frame needs to make a frame.                                       *)
NumbersOK == todo_id \in Nat /\ calls \in Nat

TInv ==
  /\ NumbersOK
  /\ TransactionsClosed
  /\ QueueOK
  /\ OwedReply
  /\ QueuedReply
  /\ TakenReply
  /\ WaiterOK
  /\ CallOK
-----------------------------------------------------------------------------
(* The conditions on the environment and on the program.                   *)
Tame == Strays = {} /\ "read_buffer_size" \notin Calls

(* Queueing a frame that is no reply.                                      *)
LEMMA QueueOther ==
  ASSUME out \in Seq(Frames), AtMostOneReply,
         NEW f \in Frames, f.kind # "reply", Queue(f)
  PROVE  /\ AtMostOneReply'
         /\ NoReply => NoReply'
         /\ out' \in Seq(Frames)
         /\ \A i \in 1 .. Len(out') : out'[i].kind = f.kind
              \/ \E j \in 1 .. Len(out) : out'[i] = out[j]
<1>1. /\ Len(out') = Len(out) + 1
      /\ out' \in Seq(Frames)
      /\ \A i \in 1 .. Len(out) : out'[i] = out[i]
      /\ out'[Len(out) + 1] = f
  BY DEF Queue
<1>2. \A i \in 1 .. Len(out') : i \in 1 .. Len(out) \/ i = Len(out) + 1
  BY <1>1
<1> QED
  BY <1>1, <1>2 DEF AtMostOneReply, NoReply

(* Queueing the reply: it is the only one.                                 *)
LEMMA QueueReply ==
  ASSUME out \in Seq(Frames), NoReply, NEW f \in Frames, Queue(f)
  PROVE  /\ AtMostOneReply'
         /\ out' \in Seq(Frames)
         /\ \A i \in 1 .. Len(out') : out'[i].kind = f.kind
              \/ \E j \in 1 .. Len(out) : out'[i] = out[j]
<1>1. /\ Len(out') = Len(out) + 1
      /\ out' \in Seq(Frames)
      /\ \A i \in 1 .. Len(out) : out'[i] = out[i]
      /\ out'[Len(out) + 1] = f
  BY DEF Queue
<1>2. \A i \in 1 .. Len(out') : i \in 1 .. Len(out) \/ i = Len(out) + 1
  BY <1>1
<1> QED
  BY <1>1, <1>2 DEF AtMostOneReply, NoReply

(* Taking the first frame.  If it is the reply, no other is queued.        *)
LEMMA TakeFirst ==
  ASSUME out \in Seq(Frames), out # <<>>, AtMostOneReply, out' = Tail(out)
  PROVE  /\ Head(out) = out[1]
         /\ 1 \in 1 .. Len(out)
         /\ out' \in Seq(Frames)
         /\ AtMostOneReply'
         /\ NoReply => NoReply'
         /\ out[1].kind = "reply" => NoReply'
         /\ \A i \in 1 .. Len(out') : i + 1 \in 1 .. Len(out)
                                      /\ out'[i] = out[i + 1]
<1>1. /\ Head(out) = out[1]
      /\ Len(out) \in Nat /\ Len(out) # 0
      /\ out' \in Seq(Frames)
      /\ Len(out') = Len(out) - 1
      /\ \A i \in 1 .. Len(out') : out'[i] = out[i + 1]
  OBVIOUS
<1>2. \A i \in 1 .. Len(out') : i + 1 \in 1 .. Len(out) /\ i + 1 # 1
  BY <1>1
<1>3. 1 \in 1 .. Len(out)
  BY <1>1
<1> QED
  BY <1>1, <1>2, <1>3 DEF AtMostOneReply, NoReply
-----------------------------------------------------------------------------
LEMMA InitTInv == Init /\ Tame => TInv
<1> SUFFICES ASSUME Init, Tame PROVE TInv
  OBVIOUS
<1>1. TransactionsClosed
  BY DEF Init, TransactionsClosed, Transacting
<1>2. out \in Seq(Frames) /\ Len(out) = 0
  BY DEF Init
<1>3. hdr.kind = "short"
  BY DEF Init, Short, Event, Frame
<1> QED
  BY <1>1, <1>2, <1>3
     DEF Init, Tame, TInv, QueueOK, OwedReply, QueuedReply, TakenReply,
         WaiterOK, CallOK, NumbersOK, NoReply, AtMostOneReply, Kinds, RepliedCalls,
         SimpleCalls, WlanCalls, SocketCalls, NvramCalls, DataCalls

LEMMA StepTInv == TInv /\ Tame /\ [Next]_vars => TInv'
<1> SUFFICES ASSUME TInv, Tame, [Next]_vars PROVE TInv'
  OBVIOUS
<1> USE DEF TransactionsClosed, Transacting, OwedReply, TakenReply, WaiterOK,
            NumbersOK
<1>t. /\ NumbersOK /\ TransactionsClosed /\ QueueOK /\ OwedReply /\ QueuedReply
      /\ TakenReply /\ WaiterOK /\ CallOK
  BY DEF TInv
<1>s. Short.kind = "short" /\ (hdr' \in {hdr, Short} => hdr'.kind \in Kinds)
  BY <1>t DEF QueueOK, Kinds, Short, Event, Frame
<1>q. ASSUME UNCHANGED out PROVE /\ NoReply' <=> NoReply
                                 /\ AtMostOneReply' <=> AtMostOneReply
  BY <1>q DEF NoReply, AtMostOneReply
<1>u. ASSUME UNCHANGED out, hdr' \in {hdr, Short}
      PROVE  QueueOK' /\ AtMostOneReply'
  BY <1>t, <1>s, <1>q, <1>u DEF QueueOK, QueuedReply
<1>r. "boot" \notin RepliedCalls /\ "nothing" \notin RepliedCalls
        /\ "data" \notin RepliedCalls
  BY DEF RepliedCalls, SimpleCalls, WlanCalls, SocketCalls, NvramCalls,
         DataCalls
<1>1. CASE PowerCycle
  <2>1. out' = <<>> /\ Len(out') = 0 /\ hdr' = hdr
    BY <1>1 DEF PowerCycle
  <2>2. NoReply' /\ AtMostOneReply' /\ QueueOK'
    BY <1>t, <2>1 DEF NoReply, AtMostOneReply, QueueOK
  <2> QED
    BY <1>1, <1>t, <1>r, <2>2 DEF PowerCycle, TInv, QueuedReply, CallOK
<1>2. ASSUME NEW c \in Calls, Invoke(c) PROVE TInv'
  <2>1. CallOK'
    BY <1>2 DEF Invoke, CallOK, Tame
  <2> QED
    BY <1>2, <1>t, <1>q, <1>u, <2>1 DEF Invoke, chip, TInv, QueuedReply
<1>3. CASE Poll
  BY <1>3, <1>t, <1>q, <1>u DEF Poll, chip, TInv, QueuedReply, CallOK
<1>4. CASE Boot
  BY <1>4, <1>t, <1>q, <1>u DEF Boot, chip, TInv, QueuedReply, CallOK
<1>5. CASE StartCall \/ StartPatch \/ StartRead
  BY <1>5, <1>t, <1>q, <1>u
     DEF StartCall, StartPatch, StartRead, StartTransaction, chip, TInv,
         QueuedReply, CallOK
<1>6. CASE SendCall
  <2>1. UNCHANGED <<out, hdr>>
    BY <1>6 DEF SendCall
  <2>2. NoReply
    BY <1>6, <1>t DEF SendCall, QueuedReply
  <2> QED
    BY <1>6, <1>t, <1>q, <1>u, <2>1, <2>2
       DEF SendCall, TInv, QueuedReply, CallOK
<1>7. CASE SendPatch
  BY <1>7, <1>t, <1>q, <1>u DEF SendPatch, chip, TInv, QueuedReply, CallOK
<1>8. CASE PollEmpty
  BY <1>8, <1>t, <1>q, <1>u DEF PollEmpty, chip, TInv, QueuedReply, CallOK
<1>9. CASE ReadHeader
  <2>1. CASE out = <<>>
    BY <1>9, <1>t, <1>s, <1>q, <1>u, <2>1
       DEF ReadHeader, TInv, QueuedReply, CallOK
  <2>2. CASE out # <<>>
    <3>1. hdr' = Head(out) /\ out' = Tail(out)
      BY <1>9, <2>2 DEF ReadHeader
    <3>2. /\ hdr' = out[1] /\ 1 \in 1 .. Len(out)
          /\ out' \in Seq(Frames) /\ AtMostOneReply'
          /\ NoReply => NoReply'
          /\ out[1].kind = "reply" => NoReply'
          /\ \A i \in 1 .. Len(out') : i + 1 \in 1 .. Len(out)
                                       /\ out'[i] = out[i + 1]
      BY <1>t, <2>2, <3>1, TakeFirst DEF QueueOK, QueuedReply
    <3>3. QueueOK'
      BY <1>t, <3>2 DEF QueueOK
    <3>4. hdr'.kind = "reply" => ~NoReply
      BY <3>2 DEF NoReply
    <3> QED
      BY <1>9, <1>t, <3>2, <3>3, <3>4
         DEF ReadHeader, TInv, QueuedReply, CallOK
  <2> QED
    BY <2>1, <2>2
<1>10. CASE BadHeader \/ FreeBuffer \/ PatchesRequest \/ LinkEvent
  BY <1>10, <1>t, <1>s, <1>q, <1>u
     DEF BadHeader, FreeBuffer, PatchesRequest, LinkEvent, Dispatch, chip,
         TInv, QueuedReply, CallOK
<1>11. CASE PollDone
  BY <1>11, <1>t, <1>s, <1>q, <1>u
     DEF PollDone, Dispatch, chip, TInv, QueuedReply, CallOK
<1>12. CASE SkipEvent
  BY <1>12, <1>t, <1>s, <1>q, <1>u
     DEF SkipEvent, Dispatch, chip, TInv, QueuedReply, CallOK
<1>13. CASE TakeReply
  <2>1. pc = "dispatch" /\ hdr.kind = "reply" /\ call # "read_buffer_size"
    BY <1>13, <1>t DEF TakeReply, Dispatch, CallOK
  <2> QED
    BY <1>13, <1>t, <1>s, <1>q, <1>u, <2>1
       DEF TakeReply, Return, Dispatch, chip, TInv, QueuedReply, CallOK
<1>14. CASE AwaitData
  BY <1>14, <1>t, <1>s, <1>q, <1>u
     DEF AwaitData, Dispatch, chip, TInv, QueuedReply, CallOK
<1>15. CASE TakeData
  BY <1>15, <1>t, <1>s, <1>q, <1>u
     DEF TakeData, Dispatch, chip, TInv, QueuedReply, CallOK
<1>16. CASE SkipForData
  <2>1. hdr.kind = "reply" /\ pc = "dispatch" /\ waiter = "data"
    BY <1>16 DEF SkipForData, Dispatch, Returned, Tame
  <2> QED
    BY <1>t, <2>1
<1>17. CASE IrqAssert \/ IrqDeassert
  BY <1>17, <1>t, <1>q, <1>u
     DEF IrqAssert, IrqDeassert, host, chip, TInv, QueuedReply, CallOK
<1>18. ASSUME NEW ok \in BOOLEAN, NEW n \in ReceiveCounts \cup {0, -1},
              ChipAnswer(ok, n)
       PROVE  TInv'
  <2> DEFINE f == Frame("reply", todo, todo_id, n, ok)
  <2>1. /\ todo \in RepliedCalls /\ todo' \notin RepliedCalls
        /\ Queue(f) /\ UNCHANGED <<host, cs, todo_id>>
    BY <1>18, <1>r DEF ChipAnswer
  <2>2. f \in Frames /\ f.kind = "reply"
    BY <1>t, <2>1, CallAssumption
       DEF Frame, Frames, Returned, NumbersOK
  <2>3. NoReply /\ waiter = "event"
    BY <1>t, <2>1
  <2>4. /\ AtMostOneReply' /\ out' \in Seq(Frames)
        /\ \A i \in 1 .. Len(out') : out'[i].kind = f.kind
             \/ \E k \in 1 .. Len(out) : out'[i] = out[k]
    BY <1>t, <2>1, <2>2, <2>3, QueueReply DEF QueueOK
  <2>5. QueueOK'
    BY <1>t, <2>1, <2>2, <2>4 DEF QueueOK, Kinds, host
  <2> QED
    BY <1>t, <2>1, <2>3, <2>4, <2>5 DEF TInv, QueuedReply, CallOK, host
<1>e. ASSUME NEW f \in Frames, f.kind \in Kinds \ {"reply"}, Queue(f),
             UNCHANGED <<host, cs, todo_id>>,
             todo' = todo \/ todo' \notin RepliedCalls
      PROVE  TInv'
  <2>1. /\ AtMostOneReply' /\ out' \in Seq(Frames)
        /\ NoReply => NoReply'
        /\ \A i \in 1 .. Len(out') : out'[i].kind = f.kind
             \/ \E k \in 1 .. Len(out) : out'[i] = out[k]
    BY <1>t, <1>e, QueueOther DEF QueueOK, QueuedReply
  <2>2. QueueOK'
    BY <1>t, <1>e, <2>1 DEF QueueOK, host
  <2> QED
    BY <1>t, <1>e, <2>1, <2>2 DEF TInv, QueuedReply, CallOK, host
<1>v. ASSUME NEW kind \in KnownEvents, NEW n \in Int
      PROVE  Event(kind, n) \in Frames
               /\ Event(kind, n).kind \in Kinds \ {"reply"}
  BY DEF Event, Frame, Frames, Kinds, KnownEvents, LinkEvents
<1>19. CASE ChipData
  <2> DEFINE f == Frame("data", "none", todo_id, 0, TRUE)
  <2>1. /\ Queue(f) /\ UNCHANGED <<host, cs, todo_id>>
        /\ todo' \notin RepliedCalls
    BY <1>19, <1>r DEF ChipData
  <2>2. f \in Frames /\ f.kind \in Kinds \ {"reply"}
    BY <1>t DEF Frame, Frames, Returned, Kinds, NumbersOK
  <2> QED
    BY <1>e, <2>1, <2>2
<1>20. CASE ChipFreesBuffer
  <2>1. Queue(Event("free_buffer", 0)) /\ UNCHANGED <<host, cs, todo, todo_id>>
    BY <1>20 DEF ChipFreesBuffer
  <2> QED
    BY <1>e, <1>v, <2>1 DEF KnownEvents
<1>21. ASSUME NEW kind \in LinkEvents, ChipLink(kind) PROVE TInv'
  <2>1. Queue(Event(kind, 0)) /\ UNCHANGED <<host, cs, todo, todo_id>>
    BY <1>21 DEF ChipLink, Unsolicited
  <2> QED
    BY <1>e, <1>v, <2>1 DEF KnownEvents
<1>22. ASSUME NEW opcode \in PatchOpcodes, ChipAsksForPatches(opcode)
       PROVE  TInv'
  <2>1. /\ Queue(Event("patches_request", opcode))
        /\ UNCHANGED <<host, cs, todo, todo_id>>
    BY <1>22 DEF ChipAsksForPatches, Unsolicited
  <2>2. opcode \in Int
    BY CallAssumption
  <2> QED
    BY <1>e, <1>v, <2>1, <2>2 DEF KnownEvents
<1>23. CASE UNCHANGED vars
  BY <1>23, <1>t, <1>q, <1>u DEF vars, host, chip, TInv, QueuedReply, CallOK
<1> QED
  BY <1>1, <1>2, <1>3, <1>4, <1>5, <1>6, <1>7, <1>8, <1>9, <1>10, <1>11,
     <1>12, <1>13, <1>14, <1>15, <1>16, <1>17, <1>18, <1>19, <1>20, <1>21,
     <1>22, <1>23
     DEF Next, HostStep, ChipStep, Answer, Tame

(* Under the two conditions no reachable state leaves a transaction open:  *)
(* the poll, nested patch frames, receives and all, for every number of    *)
(* calls and events.                                                       *)
THEOREM TransactionsAreClosed ==
  ASSUME Tame PROVE Spec => []TransactionsClosed
<1>1. Init => TInv
  BY InitTInv
<1>2. TInv /\ [Next]_vars => TInv'
  BY StepTInv
<1>3. TInv => TransactionsClosed
  BY DEF TInv
<1> QED
  BY <1>1, <1>2, <1>3, PTL DEF Spec
-----------------------------------------------------------------------------
(* TypeOK for every chip and every program, in two parts.                  *)
LinesOK ==
  /\ cs \in BOOLEAN
  /\ irq \in BOOLEAN
  /\ wlan \in [initialized : BOOLEAN, connected : BOOLEAN, dhcp : BOOLEAN]

StateOK ==
  /\ pc \in {"boot", "idle", "call", "call_ready", "patch", "patch_ready",
             "poll", "read_ready", "dispatch", "hung"}
  /\ call \in AllCalls
  /\ calls \in Nat
  /\ waiter \in {"none", "poll", "event", "data"}
  /\ hdr \in Frames
  /\ result \in [id : Nat, value : Int]
  /\ out \in Seq(Frames)
  /\ todo \in {"boot", "nothing", "data"} \cup RepliedCalls
  /\ todo_id \in Nat
  /\ link \in {"down", "associated", "bound"}
  /\ buffers \in Nat
  /\ unsolicited \in Nat

LEMMA FlagsRecord ==
  ASSUME NEW a \in BOOLEAN, NEW b \in BOOLEAN, NEW c \in BOOLEAN
  PROVE  [initialized |-> a, connected |-> b, dhcp |-> c]
           \in [initialized : BOOLEAN, connected : BOOLEAN, dhcp : BOOLEAN]
  BY SMT

LEMMA InitLinesOK == Init => LinesOK
<1>1. WlanReset
        \in [initialized : BOOLEAN, connected : BOOLEAN, dhcp : BOOLEAN]
  BY FlagsRecord, Zenon DEF WlanReset
<1> QED
  BY <1>1, Zenon DEF Init, LinesOK

LEMMA ShortIsFrame == Short \in Frames
  BY DEF Short, Event, Frame, Frames

LEMMA SimpleLinkStart ==
  /\ "simple_link_start" \in AllCalls
  /\ "boot" \notin RepliedCalls
  /\ AllCalls = RepliedCalls \cup {"send"}
  BY DEF AllCalls, RepliedCalls, SimpleCalls, WlanCalls, SocketCalls,
         NvramCalls, DataCalls

LEMMA InitStateOK == Init => StateOK
  BY ShortIsFrame, SimpleLinkStart DEF Init, StateOK, NoResult

LEMMA StepLinesOK == LinesOK /\ [Next]_vars => LinesOK'
<1> SUFFICES ASSUME LinesOK, [Next]_vars PROVE LinesOK'
  OBVIOUS
<1> USE DEF LinesOK
<1>1. CASE PowerCycle
  <2>1. WlanReset
          \in [initialized : BOOLEAN, connected : BOOLEAN, dhcp : BOOLEAN]
    BY FlagsRecord, Zenon DEF WlanReset
  <2> QED
    BY <1>1, <2>1, Zenon DEF PowerCycle
<1>2. CASE LinkEvent
  <2>1. WlanAfter(hdr.kind)
          \in [initialized : BOOLEAN, connected : BOOLEAN, dhcp : BOOLEAN]
    BY SMT DEF WlanAfter
  <2> QED
    BY <1>2, <2>1, Zenon DEF LinkEvent, Dispatch
<1>3. CASE TakeReply
  BY <1>3, Zenon DEF TakeReply, Dispatch
<1> QED
  BY <1>1, <1>2, <1>3, ZenonT(60)
     DEF Next, HostStep, ChipStep, Invoke, Poll, Boot, StartCall, StartPatch,
         StartRead, StartTransaction, SendCall, SendPatch, PollEmpty,
         ReadHeader, BadHeader, FreeBuffer, PatchesRequest, PollDone,
         SkipEvent, AwaitData, TakeData, SkipForData, Dispatch, IrqAssert,
         IrqDeassert, Answer, ChipAnswer, ChipData, ChipFreesBuffer,
         ChipLink, ChipAsksForPatches, ChipStray, Unsolicited, vars, host

LEMMA StepStateOK == StateOK /\ [Next]_vars => StateOK'
<1> SUFFICES ASSUME StateOK, [Next]_vars PROVE StateOK'
  OBVIOUS
<1> USE DEF StateOK
<1>f. Short \in Frames
  BY ShortIsFrame
<1>1. CASE PowerCycle
  BY <1>1, SimpleLinkStart DEF PowerCycle
<1>2. ASSUME NEW c \in Calls, Invoke(c) PROVE StateOK'
  BY <1>2, CallAssumption DEF Invoke, chip
<1>3. CASE Poll \/ Boot \/ StartCall \/ StartPatch \/ StartRead
  BY <1>3 DEF Poll, Boot, StartCall, StartPatch, StartRead, StartTransaction,
     chip
<1>4. CASE SendCall
  BY <1>4, SimpleLinkStart DEF SendCall
<1>5. CASE SendPatch \/ PollEmpty
  BY <1>5 DEF SendPatch, PollEmpty, chip
<1>6. CASE ReadHeader
  <2>1. hdr' \in Frames /\ out' \in Seq(Frames)
    <3>1. CASE out = <<>>
      BY <1>6, <1>f, <3>1 DEF ReadHeader
    <3>2. CASE out # <<>>
      BY <1>6, <3>2 DEF ReadHeader
    <3> QED
      BY <3>1, <3>2
  <2> QED
    BY <1>6, <2>1 DEF ReadHeader
<1>7. CASE \/ BadHeader \/ FreeBuffer \/ PatchesRequest \/ LinkEvent
           \/ PollDone \/ SkipEvent \/ TakeData \/ SkipForData
  BY <1>7, <1>f
     DEF BadHeader, FreeBuffer, PatchesRequest, LinkEvent, PollDone,
         SkipEvent, TakeData, SkipForData, Dispatch, chip
<1>8. CASE TakeReply \/ AwaitData
  <2>1. hdr.id \in Nat /\ hdr.n \in Int
    BY DEF Frames
  <2>2. \/ result' = [id |-> hdr.id, value |-> hdr.n]
        \/ result' = [id |-> hdr.id, value |-> ErrorHCI]
    BY <1>8 DEF TakeReply, AwaitData, Return
  <2>3. result' \in [id : Nat, value : Int]
    BY <2>1, <2>2 DEF ErrorHCI
  <2>4. /\ pc' \in {"idle", "poll"} /\ waiter' \in {"none", "data"}
        /\ hdr' = Short /\ UNCHANGED <<call, calls, chip>>
    BY <1>8 DEF TakeReply, AwaitData, Return, Dispatch
  <2> QED
    BY <1>f, <2>3, <2>4 DEF chip
<1>9. CASE IrqAssert \/ IrqDeassert
  BY <1>9 DEF IrqAssert, IrqDeassert, host, chip
<1>q. ASSUME NEW f \in Frames, Queue(f) PROVE out' \in Seq(Frames)
  BY <1>q DEF Queue
<1>10. ASSUME NEW ok \in BOOLEAN, NEW n \in ReceiveCounts \cup {0, -1},
              ChipAnswer(ok, n)
       PROVE  StateOK'
  <2>1. Frame("reply", todo, todo_id, n, ok) \in Frames
    BY <1>10, CallAssumption DEF ChipAnswer, Frame, Frames, Returned
  <2> QED
    BY <1>10, <2>1 DEF ChipAnswer, Queue, host
<1>11. CASE ChipData
  <2>1. Frame("data", "none", todo_id, 0, TRUE) \in Frames
    BY DEF Frame, Frames, Returned
  <2>2. out' \in Seq(Frames)
    BY <1>q, <1>11, <2>1 DEF ChipData
  <2> QED
    BY <1>11, <2>2 DEF ChipData, host
<1>12. ASSUME NEW kind \in KnownEvents \cup Strays, NEW n \in Int
       PROVE  Event(kind, n) \in Frames
  BY DEF Event, Frame, Frames, Returned
<1>13. CASE ChipFreesBuffer
  <2>1. Event("free_buffer", 0) \in Frames
    <3>1. "free_buffer" \in KnownEvents \cup Strays
      BY Zenon DEF KnownEvents
    <3>2. 0 \in Int
      OBVIOUS
    <3> QED
      BY <1>12, <3>1, <3>2, Zenon
  <2>2. buffers' \in Nat
    BY <1>13 DEF ChipFreesBuffer
  <2>3. out' \in Seq(Frames)
    BY <1>q, <1>13, <2>1 DEF ChipFreesBuffer
  <2> QED
    BY <1>13, <2>2, <2>3 DEF ChipFreesBuffer, host
<1>14. ASSUME NEW kind \in LinkEvents, ChipLink(kind) PROVE StateOK'
  <2>1. LinkAfter(kind) \in {"down", "associated", "bound"}
    BY DEF LinkAfter, LinkEvents
  <2>2. Event(kind, 0) \in Frames
    BY <1>12 DEF KnownEvents
  <2> QED
    BY <1>14, <2>1, <2>2 DEF ChipLink, Unsolicited, Queue, host
<1>15. ASSUME NEW opcode \in PatchOpcodes, ChipAsksForPatches(opcode)
       PROVE  StateOK'
  <2>1. Event("patches_request", opcode) \in Frames
    BY <1>12, CallAssumption DEF KnownEvents
  <2> QED
    BY <1>15, <2>1 DEF ChipAsksForPatches, Unsolicited, Queue, host
<1>16. ASSUME NEW kind \in Strays, ChipStray(kind) PROVE StateOK'
  <2>1. Event(kind, 0) \in Frames
    BY <1>12
  <2> QED
    BY <1>16, <2>1 DEF ChipStray, Unsolicited, Queue, host
<1>17. CASE UNCHANGED vars
  BY <1>17 DEF vars, host, chip
<1> QED
  BY <1>1, <1>2, <1>3, <1>4, <1>5, <1>6, <1>7, <1>8, <1>9, <1>10, <1>11,
     <1>13, <1>14, <1>15, <1>16, <1>17
     DEF Next, HostStep, ChipStep, Answer

(* Type correctness, for every environment and program.                    *)
THEOREM TypeCorrect == Spec => []TypeOK
<1>1. LinesOK /\ StateOK => TypeOK
  BY DEF LinesOK, StateOK, TypeOK
<1> QED
  BY <1>1, InitLinesOK, InitStateOK, StepLinesOK, StepStateOK, PTL DEF Spec
-----------------------------------------------------------------------------
(* The steps that leave a transaction open.                                *)
Excused ==
  \/ waiter = "data" /\ waiter' = "data"
  \/ call = "read_buffer_size" /\ pc' = "idle"

(* Whatever the chip sends and the program calls, a transaction is left    *)
(* open only by wait_for_data passing over a response and by               *)
(* read_buffer_size.                                                       *)
THEOREM NoOtherLeaks == Spec => LeaksOnlyThere
<1>1. ASSUME [Next]_vars, Closed, ~Closed' PROVE Excused
  <2> USE <1>1 DEF Closed, Transacting
  <2>1. CASE \/ PowerCycle \/ Poll \/ Boot \/ SendCall \/ SendPatch \/ PollEmpty
             \/ ReadHeader \/ (\E c \in Calls : Invoke(c))
    BY <2>1 DEF PowerCycle, Poll, Boot, SendCall, SendPatch, PollEmpty,
                ReadHeader, Invoke, chip
  <2>2. CASE StartCall \/ StartPatch \/ StartRead
    BY <2>2 DEF StartCall, StartPatch, StartRead, StartTransaction
  <2>3. CASE \/ BadHeader \/ FreeBuffer \/ PatchesRequest \/ LinkEvent
             \/ PollDone \/ SkipEvent \/ AwaitData \/ TakeData
    BY <2>3 DEF BadHeader, FreeBuffer, PatchesRequest, LinkEvent, PollDone,
                SkipEvent, AwaitData, TakeData
  <2>4. CASE TakeReply
    BY <2>4 DEF TakeReply, Return, Excused
  <2>5. CASE SkipForData
    BY <2>5 DEF SkipForData, Excused
  <2>6. CASE ChipStep
    BY <2>6 DEF ChipStep, IrqAssert, IrqDeassert, Answer, ChipAnswer,
                ChipData, ChipFreesBuffer, ChipLink, ChipAsksForPatches,
                ChipStray, Unsolicited, host
  <2>7. CASE UNCHANGED vars
    BY <2>7 DEF vars, host
  <2> QED
    BY <2>1, <2>2, <2>3, <2>4, <2>5, <2>6, <2>7 DEF Next, HostStep
<1>2. [Next]_vars => [Closed /\ ~Closed' => Excused]_vars
  BY <1>1
<1> QED
  BY <1>2, PTL DEF Spec, LeaksOnlyThere, Excused
-----------------------------------------------------------------------------
(* Replies and flags.                                                      *)
(*                                                                         *)
(* Nothing in a frame tells which call it answers, so that RepliesArePaired*)
(* rests on where the reply and the data of a call can be: each owed by    *)
(* the chip, queued, or in the thread's hands, in one of these places, and *)
(* only while the call that asked for them waits.  A reply that no data    *)
(* follow is the last of its call.                                         *)
Queued(k) == \E i \in 1 .. Len(out) : out[i].kind = k
Held(k) == pc = "dispatch" /\ hdr.kind = k
OnItsWay(k) == Queued(k) \/ Held(k)

Single(k) ==
  /\ \A i, j \in 1 .. Len(out) :
       out[i].kind = k /\ out[j].kind = k => i = j
  /\ Held(k) => ~Queued(k)

(* The chip sends data after the reply f.                                  *)
Follows(f) == f.ok /\ (f.about = "nvram_read" \/ (f.about = "recv" /\ f.n > 0))

Own(f) ==
  /\ f.id = calls /\ f.about = call
  /\ ~Follows(f) => todo # "data" /\ ~OnItsWay("data")

Unanswered ==
  todo \in RepliedCalls =>
    /\ todo = call /\ todo_id = calls /\ waiter = "event"
    /\ ~OnItsWay("reply") /\ ~OnItsWay("data")

DataOwed == todo = "data" => ~OnItsWay("data") /\ waiter \in {"event", "data"}

ReplyComes == Single("reply") /\ (OnItsWay("reply") => waiter = "event")

DataComes ==
  Single("data") /\ (OnItsWay("data") => waiter \in {"event", "data"})

RepliesAreOwn ==
  /\ \A i \in 1 .. Len(out) : out[i].kind = "reply" => Own(out[i])
  /\ Held("reply") => Own(hdr)

Booting ==
  todo = "boot" =>
    pc \in {"boot", "call", "call_ready", "hung"} /\ call = "simple_link_start"

Resulted ==
  (pc = "idle" \/ waiter \in {"poll", "data"}) /\ call # "send"
    => result.id = calls

PInv ==
  /\ Unanswered /\ DataOwed /\ ReplyComes /\ DataComes /\ RepliesAreOwn
  /\ Booting /\ WaiterOK /\ Resulted

(* The flags: the last link event tells the chip's link, wherever it is,   *)
(* and with none on its way the flags tell it.                             *)
LinkQueued == \E i \in 1 .. Len(out) : out[i].kind \in LinkEvents
LinkHeld == pc = "dispatch" /\ hdr.kind \in LinkEvents
FlagsTell ==
  /\ wlan.connected <=> link # "down"
  /\ wlan.dhcp <=> link = "bound"

LastTells ==
  \A i \in 1 .. Len(out) :
    LastLinkEvent(out, i) => link = LinkAfter(out[i].kind)

FInv ==
  /\ LastTells
  /\ ~LinkQueued /\ LinkHeld => link = LinkAfter(hdr.kind)
  /\ ~LinkQueued /\ ~LinkHeld => FlagsTell
-----------------------------------------------------------------------------
(* Queueing and taking a frame, position by position.                      *)
LEMMA QueuePlaces ==
  ASSUME out \in Seq(Frames), NEW f \in Frames, Queue(f)
  PROVE  /\ Len(out') = Len(out) + 1
         /\ Len(out) \in Nat
         /\ \A i \in 1 .. Len(out) : out'[i] = out[i] /\ i \in 1 .. Len(out')
         /\ out'[Len(out) + 1] = f
         /\ Len(out) + 1 \in 1 .. Len(out')
         /\ \A i \in 1 .. Len(out') : i \in 1 .. Len(out) \/ i = Len(out) + 1
         /\ \A i \in 1 .. Len(out) : Len(out) + 1 > i
<1>1. /\ Len(out') = Len(out) + 1
      /\ Len(out) \in Nat
      /\ \A i \in 1 .. Len(out) : out'[i] = out[i]
      /\ out'[Len(out) + 1] = f
  BY DEF Queue
<1> QED
  BY <1>1

LEMMA TakePlaces ==
  ASSUME out \in Seq(Frames), out # <<>>, out' = Tail(out)
  PROVE  /\ Head(out) = out[1]
         /\ Len(out) \in Nat
         /\ 1 \in 1 .. Len(out)
         /\ Len(out') = Len(out) - 1
         /\ \A i \in 1 .. Len(out') : i + 1 \in 1 .. Len(out)
                                      /\ out'[i] = out[i + 1]
         /\ \A i \in 1 .. Len(out) :
              i # 1 => i - 1 \in 1 .. Len(out') /\ out'[i - 1] = out[i]
<1>1. /\ Head(out) = out[1]
      /\ Len(out) \in Nat /\ Len(out) # 0
      /\ Len(out') = Len(out) - 1
      /\ \A i \in 1 .. Len(out') : out'[i] = out[i + 1]
  OBVIOUS
<1> QED
  BY <1>1
-----------------------------------------------------------------------------
(* The flags.                                                              *)
LEMMA InitFInv == Init => FInv
<1> SUFFICES ASSUME Init PROVE FInv
  OBVIOUS
<1>1. Len(out) = 0 /\ ~LinkHeld /\ link = "down"
  BY DEF Init, LinkHeld
<1>2. ~wlan.connected /\ ~wlan.dhcp
  BY SMT DEF Init, WlanReset
<1>3. LastTells /\ ~LinkQueued
  BY <1>1 DEF LastTells, LinkQueued
<1> QED
  BY <1>1, <1>2, <1>3 DEF FInv, FlagsTell

(* A step that touches neither the frames nor what they tell.              *)
LEMMA StillTells ==
  ASSUME FInv, UNCHANGED <<out, link, wlan>>,
         \/ LinkHeld /\ LinkHeld' /\ UNCHANGED hdr
         \/ ~LinkHeld /\ ~LinkHeld'
  PROVE  FInv'
<1>1. LastTells' /\ (LinkQueued' <=> LinkQueued) /\ (FlagsTell' <=> FlagsTell)
  BY DEF FInv, LastTells, LastLinkEvent, LinkQueued, FlagsTell
<1> QED
  BY <1>1 DEF FInv

(* A frame that tells nothing of the link.                                 *)
LEMMA OtherTellsNothing ==
  ASSUME FInv, out \in Seq(Frames), NEW f \in Frames, f.kind \notin LinkEvents,
         Queue(f), UNCHANGED <<host, link>>
  PROVE  FInv'
<1>1. LastTells'
  <2> SUFFICES ASSUME NEW i \in 1 .. Len(out'), LastLinkEvent(out, i)'
               PROVE  link = LinkAfter(out'[i].kind)
    BY DEF LastTells
  <2>1. i \in 1 .. Len(out) /\ out'[i] = out[i]
    BY QueuePlaces DEF LastLinkEvent
  <2>2. LastLinkEvent(out, i)
    BY <2>1, QueuePlaces DEF LastLinkEvent
  <2> QED
    BY <2>1, <2>2 DEF FInv, LastTells
<1>2. LinkQueued' <=> LinkQueued
  BY QueuePlaces DEF LinkQueued
<1>3. (LinkHeld' <=> LinkHeld) /\ (FlagsTell' <=> FlagsTell) /\ hdr' = hdr
  BY DEF LinkHeld, FlagsTell, host
<1> QED
  BY <1>1, <1>2, <1>3 DEF FInv

LEMMA StepFInv == StateOK /\ FInv /\ [Next]_vars => FInv'
<1> SUFFICES ASSUME StateOK, FInv, [Next]_vars PROVE FInv'
  OBVIOUS
<1>t. out \in Seq(Frames) /\ hdr \in Frames
  BY DEF StateOK
<1>1. CASE PowerCycle
  <2>1. Len(out') = 0 /\ ~LinkHeld' /\ link' = "down"
    BY <1>1 DEF PowerCycle, LinkHeld
  <2>2. ~wlan'.connected /\ ~wlan'.dhcp
    BY <1>1, SMT DEF PowerCycle, WlanReset
  <2>3. LastTells' /\ ~LinkQueued'
    BY <2>1 DEF LastTells, LinkQueued
  <2> QED
    BY <2>1, <2>2, <2>3 DEF FInv, FlagsTell
<1>2. CASE \/ Poll \/ Boot \/ StartCall \/ StartPatch \/ StartRead \/ SendCall
           \/ SendPatch \/ PollEmpty \/ (\E c \in Calls : Invoke(c))
  <2>1. UNCHANGED <<out, link, wlan>> /\ pc # "dispatch" /\ pc' # "dispatch"
    BY <1>2 DEF Poll, Boot, StartCall, StartPatch, StartRead,
       StartTransaction, SendCall, SendPatch, PollEmpty, Invoke, chip
  <2> QED
    BY <2>1, StillTells DEF LinkHeld
<1>3. CASE \/ BadHeader \/ FreeBuffer \/ PatchesRequest \/ PollDone
           \/ SkipEvent \/ TakeReply \/ AwaitData \/ TakeData \/ SkipForData
  <2>1. hdr.kind \in {"short", "free_buffer", "patches_request"} \cup Returned
    BY <1>3 DEF BadHeader, FreeBuffer, PatchesRequest, PollDone, SkipEvent,
       TakeReply, AwaitData, TakeData, SkipForData, Dispatch, Returned
  <2>2. hdr.kind \notin LinkEvents
    BY <2>1, CallAssumption DEF Returned, KnownEvents, LinkEvents
  <2>3. UNCHANGED <<out, link, wlan>> /\ pc' # "dispatch"
    BY <1>3 DEF BadHeader, FreeBuffer, PatchesRequest, PollDone, SkipEvent,
       TakeReply, AwaitData, TakeData, SkipForData, Dispatch, Return, chip
  <2> QED
    BY <2>2, <2>3, StillTells DEF LinkHeld
<1>4. CASE LinkEvent
  <2>1. /\ hdr.kind \in LinkEvents /\ pc = "dispatch" /\ pc' # "dispatch"
        /\ UNCHANGED <<out, link>> /\ wlan' = WlanAfter(hdr.kind)
    BY <1>4 DEF LinkEvent, Dispatch, chip
  <2>2. LastTells' /\ (LinkQueued' <=> LinkQueued) /\ ~LinkHeld'
    BY <2>1 DEF FInv, LastTells, LastLinkEvent, LinkQueued, LinkHeld
  <2>3. ASSUME ~LinkQueued PROVE FlagsTell'
    <3>1. link = LinkAfter(hdr.kind)
      BY <2>1, <2>3 DEF FInv, LinkHeld
    <3>2. /\ wlan'.connected <=> hdr.kind \in {"connect", "dhcp"}
          /\ wlan'.dhcp <=> hdr.kind = "dhcp"
      <4>1. /\ WlanAfter(hdr.kind).connected = (hdr.kind \in {"connect", "dhcp"})
            /\ WlanAfter(hdr.kind).dhcp = (hdr.kind = "dhcp")
        BY Zenon DEF WlanAfter
      <4> QED
        BY <2>1, <4>1, Zenon
    <3>3. /\ link # "down" <=> hdr.kind \in {"connect", "dhcp"}
          /\ link = "bound" <=> hdr.kind = "dhcp"
      BY <2>1, <3>1, SMT DEF LinkAfter, LinkEvents
    <3> QED
      BY <2>1, <3>2, <3>3 DEF FlagsTell
  <2> QED
    BY <2>2, <2>3 DEF FInv
<1>5. CASE ReadHeader
  <2>h. pc = "read_ready" /\ pc' = "dispatch" /\ UNCHANGED <<link, wlan>>
    BY <1>5 DEF ReadHeader
  <2>1. CASE out = <<>>
    <3>1. hdr'.kind \notin LinkEvents /\ UNCHANGED out
      BY <1>5, <2>1 DEF ReadHeader, Short, Event, Frame, LinkEvents
    <3> QED
      BY <2>h, <3>1, StillTells DEF LinkHeld
  <2>2. CASE out # <<>>
    <3>1. hdr' = Head(out) /\ out' = Tail(out)
      BY <1>5, <2>2 DEF ReadHeader
    <3>2. LastTells'
      <4> SUFFICES ASSUME NEW i \in 1 .. Len(out'), LastLinkEvent(out, i)'
                   PROVE  link' = LinkAfter(out'[i].kind)
        BY DEF LastTells
      <4>1. i + 1 \in 1 .. Len(out) /\ out'[i] = out[i + 1]
        BY <1>t, <2>2, <3>1, TakePlaces
      <4>2. LastLinkEvent(out, i + 1)
        <5> SUFFICES ASSUME NEW j \in 1 .. Len(out), j > i + 1
                     PROVE  out[j].kind \notin LinkEvents
          BY <4>1 DEF LastLinkEvent
        <5>1. j - 1 \in 1 .. Len(out') /\ out'[j - 1] = out[j] /\ j - 1 > i
          BY <1>t, <2>2, <3>1, TakePlaces
        <5> QED
          BY <5>1 DEF LastLinkEvent
      <4> QED
        BY <2>h, <4>1, <4>2 DEF FInv, LastTells
    <3>3. ASSUME ~LinkQueued', LinkHeld' PROVE link' = LinkAfter(hdr'.kind)
      <4>1. LastLinkEvent(out, 1)
        <5> SUFFICES ASSUME NEW j \in 1 .. Len(out), j > 1
                     PROVE  out[j].kind \notin LinkEvents
          BY <1>t, <2>2, <3>1, <3>3, TakePlaces DEF LastLinkEvent, LinkHeld
        <5>1. j - 1 \in 1 .. Len(out') /\ out'[j - 1] = out[j]
          BY <1>t, <2>2, <3>1, TakePlaces
        <5> QED
          BY <3>3, <5>1 DEF LinkQueued
      <4> QED
        BY <1>t, <2>h, <2>2, <3>1, <4>1, TakePlaces DEF FInv, LastTells
    <3>4. ASSUME ~LinkQueued', ~LinkHeld' PROVE FlagsTell'
      <4>1. ~LinkQueued
        <5> SUFFICES ASSUME NEW j \in 1 .. Len(out)
                     PROVE  out[j].kind \notin LinkEvents
          BY DEF LinkQueued
        <5>1. CASE j = 1
          BY <1>t, <2>h, <2>2, <3>1, <3>4, <5>1, TakePlaces DEF LinkHeld
        <5>2. CASE j # 1
          <6>1. j - 1 \in 1 .. Len(out') /\ out'[j - 1] = out[j]
            BY <1>t, <2>2, <3>1, <5>2, TakePlaces
          <6> QED
            BY <3>4, <6>1 DEF LinkQueued
        <5> QED
          BY <5>1, <5>2
      <4> QED
        BY <2>h, <4>1 DEF FInv, LinkHeld, FlagsTell
    <3> QED
      BY <3>2, <3>3, <3>4 DEF FInv
  <2> QED
    BY <2>1, <2>2
<1>6. CASE IrqAssert \/ IrqDeassert \/ UNCHANGED vars
  <2>1. UNCHANGED <<out, link, wlan, pc, hdr>>
    BY <1>6 DEF IrqAssert, IrqDeassert, vars, host, chip
  <2> QED
    BY <2>1, StillTells DEF LinkHeld
<1>f. ASSUME NEW kind \in {"free_buffer", "patches_request"} \cup Strays,
             NEW n \in Int
      PROVE  Event(kind, n) \in Frames /\ Event(kind, n).kind \notin LinkEvents
  BY CallAssumption DEF Event, Frame, Frames, Returned, KnownEvents, LinkEvents
<1>7. ASSUME NEW ok \in BOOLEAN, NEW n \in ReceiveCounts \cup {0, -1},
             ChipAnswer(ok, n)
      PROVE  FInv'
  <2> DEFINE f == Frame("reply", todo, todo_id, n, ok)
  <2>1. f \in Frames /\ f.kind \notin LinkEvents
    BY <1>7, CallAssumption
       DEF StateOK, ChipAnswer, Frame, Frames, Returned, LinkEvents
  <2>2. Queue(f) /\ UNCHANGED <<host, link>>
    BY <1>7 DEF ChipAnswer
  <2> QED
    BY <1>t, <2>1, <2>2, OtherTellsNothing
<1>8. CASE ChipData
  <2> DEFINE f == Frame("data", "none", todo_id, 0, TRUE)
  <2>1. f \in Frames /\ f.kind \notin LinkEvents
    BY DEF StateOK, Frame, Frames, Returned, LinkEvents
  <2>2. Queue(f) /\ UNCHANGED <<host, link>>
    BY <1>8 DEF ChipData
  <2> QED
    BY <1>t, <2>1, <2>2, OtherTellsNothing
<1>9. CASE ChipFreesBuffer
  <2>1. Queue(Event("free_buffer", 0)) /\ UNCHANGED <<host, link>>
    BY <1>9 DEF ChipFreesBuffer
  <2> QED
    BY <1>t, <1>f, <2>1, OtherTellsNothing
<1>10. ASSUME NEW opcode \in PatchOpcodes, ChipAsksForPatches(opcode)
       PROVE  FInv'
  <2>1. Queue(Event("patches_request", opcode)) /\ UNCHANGED <<host, link>>
    BY <1>10 DEF ChipAsksForPatches, Unsolicited
  <2>2. opcode \in Int
    BY CallAssumption
  <2> QED
    BY <1>t, <1>f, <2>1, <2>2, OtherTellsNothing
<1>11. ASSUME NEW kind \in Strays, ChipStray(kind) PROVE FInv'
  <2> DEFINE f == Event(kind, 0)
  <2>1. Queue(f) /\ UNCHANGED <<host, link>>
    BY <1>11 DEF ChipStray, Unsolicited
  <2>2. f \in Frames /\ f.kind \notin LinkEvents
    <3>1. kind \in {"free_buffer", "patches_request"} \cup Strays /\ 0 \in Int
      BY SMT
    <3> QED
      BY <1>f, <3>1, Zenon
  <2> HIDE DEF f
  <2> QED
    BY <1>t, <2>1, <2>2, OtherTellsNothing, Zenon
<1>12. ASSUME NEW kind \in LinkEvents, ChipLink(kind) PROVE FInv'
  <2> DEFINE f == Event(kind, 0)
  <2>1. f \in Frames /\ f.kind = kind
    BY DEF Event, Frame, Frames, KnownEvents
  <2>2. Queue(f) /\ link' = LinkAfter(kind)
    BY <1>12 DEF ChipLink, Unsolicited
  <2>3. LinkQueued'
    BY <1>t, <2>1, <2>2, QueuePlaces DEF LinkQueued
  <2>4. LastTells'
    <3> SUFFICES ASSUME NEW i \in 1 .. Len(out'), LastLinkEvent(out, i)'
                 PROVE  link' = LinkAfter(out'[i].kind)
      BY DEF LastTells
    <3>1. out'[i] = f
      BY <1>t, <2>1, <2>2, QueuePlaces DEF LastLinkEvent
    <3> QED
      BY <2>1, <2>2, <3>1
  <2> QED
    BY <2>3, <2>4 DEF FInv
<1> QED
  BY <1>1, <1>2, <1>3, <1>4, <1>5, <1>6, <1>7, <1>8, <1>9, <1>10, <1>11,
     <1>12
     DEF Next, HostStep, ChipStep, Answer

(* What FInv says, frame by frame, of those pending.                       *)
LEMMA PendingTell ==
  ASSUME StateOK, FInv PROVE FlagsFollowLink
<1>t. out \in Seq(Frames) /\ hdr \in Frames
  BY DEF StateOK
<1>1. CASE pc # "dispatch"
  <2>1. Pending = out
    BY <1>t, <1>1 DEF Pending
  <2> QED
    BY <1>1, <2>1
       DEF FlagsFollowLink, FInv, LastTells, LinkQueued, LinkHeld, FlagsTell
<1>2. CASE pc = "dispatch"
  <2>1. /\ Len(Pending) = Len(out) + 1
        /\ Pending[1] = hdr
        /\ \A i \in 1 .. Len(out) : Pending[i + 1] = out[i]
        /\ Len(out) \in Nat
    BY <1>t, <1>2 DEF Pending
  <2>2. /\ 1 \in 1 .. Len(Pending)
        /\ \A i \in 1 .. Len(out) : i + 1 \in 1 .. Len(Pending)
        /\ \A i \in 1 .. Len(Pending) : i # 1 =>
             i - 1 \in 1 .. Len(out) /\ Pending[i] = out[i - 1]
    BY <2>1
  <2>3. ASSUME NEW i \in 1 .. Len(Pending), LastLinkEvent(Pending, i)
        PROVE  link = LinkAfter(Pending[i].kind)
    <3>1. CASE i = 1
      <4>1. ~LinkQueued
        <5> SUFFICES ASSUME NEW j \in 1 .. Len(out)
                     PROVE  out[j].kind \notin LinkEvents
          BY DEF LinkQueued
        <5>1. j + 1 \in 1 .. Len(Pending) /\ j + 1 > i
                /\ Pending[j + 1] = out[j]
          BY <2>1, <2>2, <3>1
        <5> QED
          BY <2>3, <5>1 DEF LastLinkEvent
      <4> QED
        BY <1>2, <2>1, <2>3, <3>1, <4>1 DEF FInv, LinkHeld, LastLinkEvent
    <3>2. CASE i # 1
      <4>1. i - 1 \in 1 .. Len(out) /\ Pending[i] = out[i - 1]
        BY <2>2, <3>2
      <4>2. LastLinkEvent(out, i - 1)
        <5> SUFFICES ASSUME NEW j \in 1 .. Len(out), j > i - 1
                     PROVE  out[j].kind \notin LinkEvents
          BY <2>3, <4>1 DEF LastLinkEvent
        <5>1. j + 1 \in 1 .. Len(Pending) /\ j + 1 > i
                /\ Pending[j + 1] = out[j]
          BY <2>1, <2>2
        <5> QED
          BY <2>3, <5>1 DEF LastLinkEvent
      <4> QED
        BY <4>1, <4>2 DEF FInv, LastTells
    <3> QED
      BY <3>1, <3>2
  <2>4. ASSUME \A i \in 1 .. Len(Pending) : Pending[i].kind \notin LinkEvents
        PROVE  FlagsTell
    <3>1. ~LinkHeld /\ ~LinkQueued
      BY <2>1, <2>2, <2>4 DEF LinkHeld, LinkQueued
    <3> QED
      BY <3>1 DEF FInv
  <2> QED
    BY <2>3, <2>4 DEF FlagsFollowLink, FlagsTell
<1> QED
  BY <1>1, <1>2

(* The flags lag behind the chip's link by the pending events and no more, *)
(* whichever function polls them and whatever else the chip sends.         *)
THEOREM FlagsAlwaysFollow == Spec => []FlagsFollowLink
<1>1. StateOK /\ FInv => FlagsFollowLink
  BY PendingTell
<1> QED
  BY <1>1, InitStateOK, StepStateOK, InitFInv, StepFInv, PTL DEF Spec
-----------------------------------------------------------------------------
(* The replies.  Frames of one kind, when one is queued and when one is    *)
(* read.                                                                   *)
LEMMA QueueKind ==
  ASSUME out \in Seq(Frames), NEW f \in Frames, Queue(f), UNCHANGED host, NEW k
  PROVE  /\ f.kind # k => (OnItsWay(k)' <=> OnItsWay(k))
         /\ f.kind # k /\ Single(k) => Single(k)'
         /\ f.kind = k /\ ~OnItsWay(k) => Single(k)'
<1>1. (Held(k)' <=> Held(k))
  BY DEF Held, host
<1>2. CASE f.kind # k
  <2>1. Queued(k)' <=> Queued(k)
    BY <1>2, QueuePlaces DEF Queued
  <2>2. Single(k) => Single(k)'
    BY <1>1, <1>2, <2>1, QueuePlaces DEF Single
  <2> QED
    BY <1>1, <1>2, <2>1, <2>2 DEF OnItsWay
<1>3. CASE f.kind = k /\ ~OnItsWay(k)
  <2>1. ~Queued(k) /\ ~Held(k)
    BY <1>3 DEF OnItsWay
  <2>2. ASSUME NEW i \in 1 .. Len(out'), out'[i].kind = k
        PROVE  i = Len(out) + 1
    BY <2>1, <2>2, QueuePlaces DEF Queued
  <2> QED
    BY <1>1, <1>3, <2>1, <2>2 DEF Single
<1> QED
  BY <1>2, <1>3

LEMMA TakeKind ==
  ASSUME out \in Seq(Frames), out # <<>>, out' = Tail(out), hdr' = Head(out),
         pc # "dispatch", pc' = "dispatch", NEW k, Single(k)
  PROVE  Single(k)' /\ (OnItsWay(k)' <=> OnItsWay(k))
<1>1. ~Held(k) /\ (Held(k)' <=> out[1].kind = k)
  BY TakePlaces DEF Held
<1>2. Held(k)' => ~Queued(k)'
  <2> SUFFICES ASSUME Held(k)', NEW i \in 1 .. Len(out'), out'[i].kind = k
               PROVE  FALSE
    BY DEF Queued
  <2>1. i + 1 \in 1 .. Len(out) /\ out[i + 1].kind = k /\ i + 1 # 1
    BY TakePlaces
  <2> QED
    BY <1>1, <2>1, TakePlaces DEF Single
<1>3. ASSUME NEW i \in 1 .. Len(out'), NEW j \in 1 .. Len(out'),
             out'[i].kind = k, out'[j].kind = k
      PROVE  i = j
  <2>1. i + 1 \in 1 .. Len(out) /\ j + 1 \in 1 .. Len(out)
          /\ out[i + 1].kind = k /\ out[j + 1].kind = k
    BY <1>3, TakePlaces
  <2>2. i + 1 = j + 1
    BY <2>1 DEF Single
  <2> QED
    BY <2>2
<1>4. Queued(k) <=> Queued(k)' \/ out[1].kind = k
  <2>1. Queued(k)' => Queued(k)
    BY TakePlaces DEF Queued
  <2>2. out[1].kind = k => Queued(k)
    BY TakePlaces DEF Queued
  <2>3. ASSUME Queued(k), out[1].kind # k PROVE Queued(k)'
    <3>1. PICK i \in 1 .. Len(out) : out[i].kind = k
      BY <2>3 DEF Queued
    <3>2. i - 1 \in 1 .. Len(out') /\ out'[i - 1] = out[i]
      BY <2>3, <3>1, TakePlaces
    <3> QED
      BY <3>1, <3>2 DEF Queued
  <2> QED
    BY <2>1, <2>2, <2>3
<1>5. Single(k)'
  BY <1>2, <1>3 DEF Single
<1> QED
  BY <1>1, <1>4, <1>5 DEF OnItsWay

(* A step of the thread that leaves the frames where they are, except that *)
(* it has done with the one in its hands.                                  *)
LEMMA Handled ==
  ASSUME PInv, UNCHANGED <<out, todo, todo_id, call, calls>>,
         pc' # "dispatch"
  PROVE  /\ OnItsWay("reply")' <=> Queued("reply")
         /\ OnItsWay("data")' <=> Queued("data")
         /\ Single("reply")' /\ Single("data")'
         /\ RepliesAreOwn'
<1>1. /\ Queued("reply")' <=> Queued("reply")
      /\ Queued("data")' <=> Queued("data")
      /\ ~Held("reply")' /\ ~Held("data")'
  BY DEF Queued, Held
<1>2. /\ OnItsWay("reply")' <=> Queued("reply")
      /\ OnItsWay("data")' <=> Queued("data")
  BY <1>1 DEF OnItsWay
<1>3. Single("reply")' /\ Single("data")'
  BY <1>1 DEF PInv, ReplyComes, DataComes, Single
<1>4. RepliesAreOwn'
  <2> SUFFICES ASSUME NEW i \in 1 .. Len(out'), out'[i].kind = "reply"
               PROVE  Own(out[i])'
    BY <1>1 DEF RepliesAreOwn
  <2>1. Own(out[i]) /\ out'[i] = out[i]
    BY DEF PInv, RepliesAreOwn
  <2> QED
    BY <1>2, <2>1 DEF Own, OnItsWay, Follows
<1> QED
  BY <1>2, <1>3, <1>4

(* ... and that goes on waiting as it did.                                 *)
LEMMA StillWaiting ==
  ASSUME PInv, UNCHANGED <<out, todo, todo_id, call, calls, waiter>>,
         pc' # "dispatch", Booting', WaiterOK', Resulted'
  PROVE  PInv'
<1>1. /\ OnItsWay("reply")' => OnItsWay("reply")
      /\ OnItsWay("data")' => OnItsWay("data")
      /\ Single("reply")' /\ Single("data")'
      /\ RepliesAreOwn'
  BY Handled DEF OnItsWay
<1>2. Unanswered' /\ DataOwed'
  BY <1>1 DEF PInv, Unanswered, DataOwed
<1>3. ReplyComes' /\ DataComes'
  BY <1>1 DEF PInv, ReplyComes, DataComes
<1> QED
  BY <1>1, <1>2, <1>3 DEF PInv

LEMMA Names ==
  /\ "boot" \notin RepliedCalls /\ "nothing" \notin RepliedCalls
  /\ "data" \notin RepliedCalls
  /\ "simple_link_start" \in RepliedCalls
  /\ AllCalls = RepliedCalls \cup {"send"}
  BY DEF AllCalls, RepliedCalls, SimpleCalls, WlanCalls, SocketCalls,
         NvramCalls, DataCalls

LEMMA InitPInv == Init => PInv
<1> SUFFICES ASSUME Init PROVE PInv
  OBVIOUS
<1>1. /\ Len(out) = 0 /\ pc = "boot" /\ todo = "boot" /\ waiter = "none"
      /\ call = "simple_link_start"
  BY DEF Init
<1>2. \A k : ~OnItsWay(k) /\ Single(k)
  BY <1>1 DEF OnItsWay, Queued, Held, Single
<1>3. RepliesAreOwn
  BY <1>1 DEF RepliesAreOwn, Held
<1> QED
  BY <1>1, <1>2, <1>3, Names
     DEF PInv, Unanswered, DataOwed, ReplyComes, DataComes, Booting, WaiterOK,
         Resulted

(* Where the thread does not wait for a call, nothing of one is about.     *)
LEMMA NothingAbout ==
  ASSUME PInv, waiter \notin {"event", "data"}
  PROVE  /\ todo \notin RepliedCalls /\ todo # "data"
         /\ ~OnItsWay("reply") /\ ~OnItsWay("data")
         /\ ~Queued("reply") /\ ~Queued("data")
  BY DEF PInv, Unanswered, DataOwed, ReplyComes, DataComes, OnItsWay

(* The chip queues a frame that is neither reply nor data.                 *)
LEMMA OtherQueued ==
  ASSUME StateOK, PInv, NEW f \in Frames, f.kind \notin {"reply", "data"},
         Queue(f), UNCHANGED <<host, todo, todo_id>>
  PROVE  PInv'
<1>t. out \in Seq(Frames)
  BY DEF StateOK
<1>1. /\ OnItsWay("reply")' <=> OnItsWay("reply")
      /\ OnItsWay("data")' <=> OnItsWay("data")
      /\ Single("reply")' /\ Single("data")'
  BY <1>t, QueueKind DEF PInv, ReplyComes, DataComes
<1>2. RepliesAreOwn'
  <2>1. ASSUME NEW i \in 1 .. Len(out'), out'[i].kind = "reply"
        PROVE  Own(out[i])'
    <3>1. i \in 1 .. Len(out) /\ out'[i] = out[i]
      BY <1>t, <2>1, QueuePlaces
    <3>2. Own(out[i])
      BY <2>1, <3>1 DEF PInv, RepliesAreOwn
    <3> QED
      BY <1>1, <3>1, <3>2 DEF Own, Follows, host
  <2>2. Held("reply")' => Own(hdr)'
    BY <1>1 DEF PInv, RepliesAreOwn, Own, Follows, Held, host
  <2> QED
    BY <2>1, <2>2 DEF RepliesAreOwn
<1> QED
  BY <1>1, <1>2
     DEF PInv, Unanswered, DataOwed, ReplyComes, DataComes, Booting, WaiterOK,
         Resulted, host

LEMMA StepPInv == StateOK /\ PInv /\ [Next]_vars => PInv'
<1> SUFFICES ASSUME StateOK, PInv, [Next]_vars PROVE PInv'
  OBVIOUS
<1>t. /\ out \in Seq(Frames) /\ hdr \in Frames /\ todo_id \in Nat
      /\ waiter \in {"none", "poll", "event", "data"}
  BY DEF StateOK
<1>p. /\ Unanswered /\ DataOwed /\ ReplyComes /\ DataComes /\ RepliesAreOwn
      /\ Booting /\ WaiterOK /\ Resulted
  BY DEF PInv
<1>n. pc \in {"boot", "idle", "call", "call_ready"} =>
        /\ waiter = "none"
        /\ todo \notin RepliedCalls /\ todo # "data"
        /\ ~OnItsWay("reply") /\ ~OnItsWay("data")
        /\ ~Queued("reply") /\ ~Queued("data")
  BY <1>p, NothingAbout DEF WaiterOK
<1>1. CASE PowerCycle
  <2>1. /\ Len(out') = 0 /\ pc' = "boot" /\ todo' = "boot"
        /\ waiter' = "none" /\ call' = "simple_link_start"
    BY <1>1, <1>n DEF PowerCycle
  <2>2. /\ ~OnItsWay("reply")' /\ Single("reply")'
        /\ ~OnItsWay("data")' /\ Single("data")'
    BY <2>1 DEF OnItsWay, Queued, Held, Single
  <2>3. RepliesAreOwn'
    BY <2>1 DEF RepliesAreOwn, Held
  <2> QED
    BY <2>1, <2>2, <2>3, Names
       DEF PInv, Unanswered, DataOwed, ReplyComes, DataComes, Booting,
           WaiterOK, Resulted
<1>2. ASSUME NEW c \in Calls, Invoke(c) PROVE PInv'
  <2>1. /\ pc = "idle" /\ pc' = "call" /\ UNCHANGED <<out, todo, waiter>>
    BY <1>2 DEF Invoke, chip
  <2>2. /\ ~OnItsWay("reply")' /\ Single("reply")'
        /\ ~OnItsWay("data")' /\ Single("data")'
    BY <1>n, <2>1 DEF OnItsWay, Queued, Held, Single
  <2>3. RepliesAreOwn'
    BY <2>2 DEF RepliesAreOwn, OnItsWay, Queued
  <2>4. todo # "boot"
    BY <1>p, <2>1 DEF Booting
  <2> QED
    BY <1>n, <2>1, <2>2, <2>3, <2>4
       DEF PInv, Unanswered, DataOwed, ReplyComes, DataComes, Booting,
           WaiterOK, Resulted
<1>3. CASE \/ Boot \/ StartCall \/ StartPatch \/ StartRead \/ SendPatch
           \/ BadHeader \/ FreeBuffer \/ PatchesRequest \/ LinkEvent
           \/ SkipEvent \/ SkipForData
  <2>1. UNCHANGED <<out, todo, todo_id, call, calls, waiter, result>>
    BY <1>3 DEF Boot, StartCall, StartPatch, StartRead, StartTransaction,
       SendPatch, BadHeader, FreeBuffer, PatchesRequest, LinkEvent, SkipEvent,
       SkipForData, Dispatch, chip
  <2>2. \/ pc = "boot" /\ pc' = "call"
        \/ pc = "call" /\ pc' \in {"call_ready", "hung"}
        \/ /\ pc \in {"poll", "patch", "patch_ready", "dispatch"}
           /\ pc' \in {"read_ready", "patch_ready", "hung", "poll", "patch"}
    BY <1>3 DEF Boot, StartCall, StartPatch, StartRead, StartTransaction,
       SendPatch, BadHeader, FreeBuffer, PatchesRequest, LinkEvent, SkipEvent,
       SkipForData, Dispatch
  <2> QED
    BY <1>p, <2>1, <2>2, StillWaiting DEF Booting, WaiterOK, Resulted
<1>4. CASE Poll \/ PollEmpty \/ PollDone
  <2>1. /\ waiter \in {"none", "poll"} /\ waiter' \in {"none", "poll"}
        /\ UNCHANGED <<out, todo, todo_id, call, calls, result>>
        /\ pc \in {"idle", "poll", "dispatch"} /\ pc' \in {"idle", "poll"}
        /\ pc = "idle" \/ waiter = "poll"
        /\ pc' = "idle" => waiter' = "none"
    BY <1>4, <1>n DEF Poll, PollEmpty, PollDone, Dispatch, chip
  <2>2. /\ todo \notin RepliedCalls /\ todo # "data" /\ todo # "boot"
        /\ ~Queued("reply") /\ ~Queued("data")
    BY <1>p, <2>1, NothingAbout DEF Booting
  <2>3. /\ ~OnItsWay("reply")' /\ Single("reply")'
        /\ ~OnItsWay("data")' /\ Single("data")' /\ RepliesAreOwn'
    BY <2>1, <2>2, Handled
  <2> QED
    BY <1>p, <2>1, <2>2, <2>3
       DEF PInv, Unanswered, DataOwed, ReplyComes, DataComes, Booting,
           WaiterOK, Resulted
<1>5. CASE SendCall
  <2>1. /\ pc = "call_ready" /\ pc' \in {"idle", "poll"}
        /\ UNCHANGED <<out, call, calls, result>>
    BY <1>5 DEF SendCall
  <2>2. /\ ~OnItsWay("reply")' /\ Single("reply")'
        /\ ~OnItsWay("data")' /\ Single("data")'
    BY <1>n, <2>1 DEF OnItsWay, Queued, Held, Single
  <2>3. RepliesAreOwn'
    BY <2>2 DEF RepliesAreOwn, OnItsWay, Queued
  <2>4. CASE call = "send"
    <3>1. /\ todo' = todo /\ waiter' = "none" /\ pc' = "idle"
          /\ todo \notin RepliedCalls /\ todo # "data" /\ todo # "boot"
      BY <1>5, <1>n, <1>p, <2>1, <2>4 DEF SendCall, Booting
    <3> QED
      BY <2>1, <2>2, <2>3, <2>4, <3>1
         DEF PInv, Unanswered, DataOwed, ReplyComes, DataComes, Booting,
             WaiterOK, Resulted
  <2>5. CASE call # "send"
    <3>1. /\ todo' = call /\ todo_id' = calls /\ waiter' = "event"
          /\ pc' = "poll" /\ call \in RepliedCalls
      BY <1>5, <2>5, Names DEF SendCall, StateOK
    <3> QED
      BY <2>1, <2>2, <2>3, <3>1, Names
         DEF PInv, Unanswered, DataOwed, ReplyComes, DataComes, Booting,
             WaiterOK, Resulted
  <2> QED
    BY <2>4, <2>5
<1>6. CASE ReadHeader
  <2>1. /\ pc = "read_ready" /\ pc' = "dispatch"
        /\ UNCHANGED <<call, calls, waiter, result, todo, todo_id>>
    BY <1>6 DEF ReadHeader
  <2>2. /\ OnItsWay("reply")' <=> OnItsWay("reply")
        /\ OnItsWay("data")' <=> OnItsWay("data")
        /\ Single("reply")' /\ Single("data")'
        /\ RepliesAreOwn'
    <3>1. CASE out = <<>>
      <4>1. hdr'.kind = "short" /\ UNCHANGED out
        BY <1>6, <3>1 DEF ReadHeader, Short, Event, Frame
      <4>2. Len(out) = 0
        BY <3>1
      <4>3. /\ OnItsWay("reply")' <=> OnItsWay("reply")
            /\ OnItsWay("data")' <=> OnItsWay("data")
        BY <2>1, <4>1 DEF OnItsWay, Queued, Held
      <4> QED
        BY <4>1, <4>2, <4>3 DEF Single, Held, RepliesAreOwn
    <3>2. CASE out # <<>>
      <4>1. hdr' = Head(out) /\ out' = Tail(out) /\ pc # "dispatch"
        BY <1>6, <2>1, <3>2 DEF ReadHeader
      <4>2. Single("reply") /\ Single("data")
        BY <1>p DEF ReplyComes, DataComes
      <4>3. /\ OnItsWay("reply")' <=> OnItsWay("reply")
            /\ OnItsWay("data")' <=> OnItsWay("data")
            /\ Single("reply")' /\ Single("data")'
        BY <1>t, <2>1, <3>2, <4>1, <4>2, TakeKind
      <4>4. ASSUME NEW i \in 1 .. Len(out'), out'[i].kind = "reply"
            PROVE  Own(out[i])'
        <5>1. Own(out[i + 1]) /\ out'[i] = out[i + 1]
          BY <1>p, <1>t, <3>2, <4>1, <4>4, TakePlaces DEF RepliesAreOwn
        <5> QED
          BY <2>1, <4>3, <5>1 DEF Own, Follows
      <4>5. ASSUME Held("reply")' PROVE Own(hdr)'
        <5>1. Own(out[1]) /\ hdr' = out[1]
          BY <1>p, <1>t, <3>2, <4>1, <4>5, TakePlaces DEF RepliesAreOwn, Held
        <5> QED
          BY <2>1, <4>3, <5>1 DEF Own, Follows
      <4> QED
        BY <4>3, <4>4, <4>5 DEF RepliesAreOwn
    <3> QED
      BY <3>1, <3>2
  <2> QED
    BY <1>p, <2>1, <2>2
       DEF PInv, Unanswered, DataOwed, ReplyComes, DataComes, Booting,
           WaiterOK, Resulted
<1>7. CASE TakeReply \/ AwaitData
  <2>1. /\ pc = "dispatch" /\ hdr.kind = "reply" /\ waiter = "event"
        /\ UNCHANGED <<out, todo, todo_id, call, calls>>
    BY <1>7 DEF TakeReply, AwaitData, Dispatch, chip
  <2>2. Own(hdr) /\ ~Queued("reply") /\ OnItsWay("reply")
    BY <1>p, <2>1 DEF RepliesAreOwn, ReplyComes, Single, Held, OnItsWay
  <2>3. todo \notin RepliedCalls /\ todo # "boot"
    BY <1>p, <2>1, <2>2 DEF Unanswered, Booting
  <2>4. CASE TakeReply
    <3>1. ~Follows(hdr)
      <4>1. ~DataExpected /\ hdr.about = call /\ hdr.n \in Int
        BY <1>t, <2>2, <2>4 DEF TakeReply, Own, Frames
      <4> QED
        BY <4>1 DEF DataExpected, Follows
    <3>2. todo # "data" /\ ~Queued("data")
      BY <2>2, <3>1 DEF Own, OnItsWay
    <3>3. /\ pc' = "idle" /\ waiter' = "none" /\ result'.id = calls
      BY <2>2, <2>4 DEF TakeReply, Return, Own
    <3>4. /\ ~OnItsWay("reply")' /\ Single("reply")'
          /\ ~OnItsWay("data")' /\ Single("data")' /\ RepliesAreOwn'
      BY <2>1, <2>2, <3>2, <3>3, Handled
    <3> QED
      BY <2>1, <2>3, <3>2, <3>3, <3>4
         DEF PInv, Unanswered, DataOwed, ReplyComes, DataComes, Booting,
             WaiterOK, Resulted
  <2>5. CASE AwaitData
    <3>1. /\ pc' = "poll" /\ waiter' = "data" /\ result'.id = calls
      BY <2>2, <2>5 DEF AwaitData, Own
    <3>2. /\ ~OnItsWay("reply")' /\ Single("reply")'
          /\ (OnItsWay("data")' <=> Queued("data"))
          /\ Single("data")' /\ RepliesAreOwn'
      BY <2>1, <2>2, <3>1, Handled
    <3>3. DataOwed'
      BY <1>p, <2>1, <3>1, <3>2 DEF DataOwed, OnItsWay
    <3> QED
      BY <2>1, <2>3, <3>1, <3>2, <3>3
         DEF PInv, Unanswered, ReplyComes, DataComes, Booting,
             WaiterOK, Resulted
  <2> QED
    BY <1>7, <2>4, <2>5
<1>8. CASE TakeData
  <2>1. /\ pc = "dispatch" /\ hdr.kind = "data" /\ waiter = "data"
        /\ UNCHANGED <<out, todo, todo_id, call, calls, result>>
        /\ pc' = "idle" /\ waiter' = "none"
    BY <1>8 DEF TakeData, Dispatch, chip
  <2>2. /\ ~Queued("data") /\ todo # "data" /\ ~Queued("reply")
        /\ todo \notin RepliedCalls /\ todo # "boot"
    BY <1>p, <2>1
       DEF DataComes, DataOwed, ReplyComes, Unanswered, Booting, Single, Held,
           OnItsWay
  <2>3. /\ ~OnItsWay("reply")' /\ Single("reply")'
        /\ ~OnItsWay("data")' /\ Single("data")' /\ RepliesAreOwn'
    BY <2>1, <2>2, Handled
  <2> QED
    BY <1>p, <2>1, <2>2, <2>3
       DEF PInv, Unanswered, DataOwed, ReplyComes, DataComes, Booting,
           WaiterOK, Resulted
<1>9. CASE IrqAssert \/ IrqDeassert \/ UNCHANGED vars
  <2>1. UNCHANGED <<pc, call, calls, waiter, hdr, result, out, todo, todo_id>>
    BY <1>9 DEF IrqAssert, IrqDeassert, vars, host, chip
  <2> QED
    BY <2>1
       DEF PInv, Unanswered, DataOwed, ReplyComes, DataComes, RepliesAreOwn,
           Booting, WaiterOK, Resulted, Own, Follows, Single, OnItsWay, Queued,
           Held
<1>10. ASSUME NEW ok \in BOOLEAN, NEW n \in ReceiveCounts \cup {0, -1},
              ChipAnswer(ok, n)
       PROVE  PInv'
  <2> DEFINE f == Frame("reply", todo, todo_id, n, ok)
  <2>1. /\ f.kind = "reply" /\ f.about = todo /\ f.id = todo_id /\ f.n = n
        /\ f.ok = ok
    BY Zenon DEF Frame
  <2>2. f \in Frames
    BY <1>10, CallAssumption DEF StateOK, ChipAnswer, Frame, Frames, Returned
  <2>3. /\ todo \in RepliedCalls /\ Queue(f)
        /\ UNCHANGED <<host, todo_id>>
        /\ todo' = IF ok /\ (todo = "nvram_read" \/ (todo = "recv" /\ n > 0))
                   THEN "data" ELSE "nothing"
    BY <1>10 DEF ChipAnswer
  <2>4. /\ todo = call /\ todo_id = calls /\ waiter = "event"
        /\ ~OnItsWay("reply") /\ ~OnItsWay("data")
    BY <1>p, <2>3 DEF Unanswered
  <2> HIDE DEF f
  <2>5. /\ Single("reply")' /\ Single("data")' /\ ~OnItsWay("data")'
    BY <1>p, <1>t, <2>1, <2>2, <2>3, <2>4, QueueKind DEF DataComes
  <2>6. todo' \in {"data", "nothing"} /\ (~Follows(f) => todo' = "nothing")
    BY <2>1, <2>3 DEF Follows
  <2>7. RepliesAreOwn'
    <3>1. ASSUME NEW i \in 1 .. Len(out'), out'[i].kind = "reply"
          PROVE  Own(out[i])'
      <4>1. out'[i] = f
        BY <1>t, <2>2, <2>3, <2>4, <3>1, QueuePlaces DEF OnItsWay, Queued
      <4> QED
        BY <2>1, <2>3, <2>4, <2>5, <2>6, <4>1 DEF Own, Follows, host
    <3>2. ~Held("reply")'
      BY <2>3, <2>4 DEF OnItsWay, Held, host
    <3> QED
      BY <3>1, <3>2 DEF RepliesAreOwn
  <2> QED
    BY <1>p, <2>3, <2>4, <2>5, <2>6, <2>7, Names
       DEF PInv, Unanswered, DataOwed, ReplyComes, DataComes, Booting,
           WaiterOK, Resulted, host
<1>11. CASE ChipData
  <2> DEFINE f == Frame("data", "none", todo_id, 0, TRUE)
  <2>1. f.kind = "data"
    BY Zenon DEF Frame
  <2>2. f \in Frames
    BY <1>t DEF Frame, Frames, Returned
  <2>3. /\ todo = "data" /\ todo' = "nothing" /\ Queue(f)
        /\ UNCHANGED <<host, todo_id>>
    BY <1>11 DEF ChipData
  <2>4. ~OnItsWay("data") /\ waiter \in {"event", "data"}
    BY <1>p, <2>3 DEF DataOwed
  <2> HIDE DEF f
  <2>5. /\ Single("reply")' /\ Single("data")'
        /\ OnItsWay("reply")' <=> OnItsWay("reply")
    BY <1>p, <1>t, <2>1, <2>2, <2>3, <2>4, QueueKind DEF ReplyComes
  <2>6. RepliesAreOwn'
    <3>1. ASSUME NEW i \in 1 .. Len(out'), out'[i].kind = "reply"
          PROVE  Own(out[i])'
      <4>1. i \in 1 .. Len(out) /\ out'[i] = out[i]
        BY <1>t, <2>1, <2>2, <2>3, <3>1, QueuePlaces
      <4>2. Own(out[i])
        BY <1>p, <3>1, <4>1 DEF RepliesAreOwn
      <4> QED
        BY <2>3, <4>1, <4>2 DEF Own, Follows, host
    <3>2. Held("reply")' => Own(hdr)'
      BY <1>p, <2>3 DEF RepliesAreOwn, Own, Follows, Held, host
    <3> QED
      BY <3>1, <3>2 DEF RepliesAreOwn
  <2> QED
    BY <1>p, <2>3, <2>4, <2>5, <2>6, Names
       DEF PInv, Unanswered, DataOwed, ReplyComes, DataComes, Booting,
           WaiterOK, Resulted, host
<1>f. ASSUME NEW kind \in KnownEvents \cup Strays, NEW n \in Int
      PROVE  /\ Event(kind, n) \in Frames
             /\ Event(kind, n).kind \notin {"reply", "data"}
  BY CallAssumption DEF Event, Frame, Frames, Returned, KnownEvents, LinkEvents
<1>12. CASE ChipFreesBuffer
  <2>1. Queue(Event("free_buffer", 0)) /\ UNCHANGED <<host, todo, todo_id>>
    BY <1>12 DEF ChipFreesBuffer
  <2>2. "free_buffer" \in KnownEvents \cup Strays /\ 0 \in Int
    BY SMT DEF KnownEvents
  <2>3. /\ Event("free_buffer", 0) \in Frames
        /\ Event("free_buffer", 0).kind \notin {"reply", "data"}
    BY <1>f, <2>2, Zenon
  <2> QED
    BY <2>1, <2>3, OtherQueued, Zenon
<1>13. ASSUME NEW opcode \in PatchOpcodes, ChipAsksForPatches(opcode)
       PROVE  PInv'
  <2>1. /\ Queue(Event("patches_request", opcode))
        /\ UNCHANGED <<host, todo, todo_id>>
    BY <1>13 DEF ChipAsksForPatches, Unsolicited
  <2>2. "patches_request" \in KnownEvents \cup Strays /\ opcode \in Int
    BY CallAssumption, SMT DEF KnownEvents
  <2>3. /\ Event("patches_request", opcode) \in Frames
        /\ Event("patches_request", opcode).kind \notin {"reply", "data"}
    BY <1>f, <2>2, Zenon
  <2> QED
    BY <2>1, <2>3, OtherQueued, Zenon
<1>14. ASSUME NEW kind \in LinkEvents \cup Strays,
              ChipStray(kind) \/ ChipLink(kind)
       PROVE  PInv'
  <2>1. Queue(Event(kind, 0)) /\ UNCHANGED <<host, todo, todo_id>>
    BY <1>14 DEF ChipStray, ChipLink, Unsolicited
  <2>2. kind \in KnownEvents \cup Strays /\ 0 \in Int
    BY SMT DEF KnownEvents
  <2>3. /\ Event(kind, 0) \in Frames
        /\ Event(kind, 0).kind \notin {"reply", "data"}
    BY <1>f, <2>2, Zenon
  <2> QED
    BY <2>1, <2>3, OtherQueued, Zenon
<1> QED
  BY <1>1, <1>2, <1>3, <1>4, <1>5, <1>6, <1>7, <1>8, <1>9, <1>10, <1>11,
     <1>12, <1>13, <1>14
     DEF Next, HostStep, ChipStep, Answer

(* A call that waits returns the result of its own command, and leaves no  *)
(* reply and no data behind for a later one to take, whatever the chip     *)
(* sends and the program calls.                                            *)
THEOREM RepliesAreAlwaysPaired == Spec => []RepliesArePaired
<1>1. StateOK /\ PInv => RepliesArePaired
  <2> SUFFICES ASSUME StateOK, PInv, pc = "idle" PROVE RepliesArePaired
    BY DEF RepliesArePaired
  <2>1. waiter = "none"
    BY DEF PInv, WaiterOK
  <2>2. /\ todo \notin RepliedCalls /\ todo # "data" /\ todo # "boot"
        /\ ~Queued("reply") /\ ~Queued("data")
    BY <2>1, NothingAbout DEF PInv, Booting
  <2>3. todo = "nothing" /\ out \in Seq(Frames)
    BY <2>2 DEF StateOK
  <2>4. call # "send" => result.id = calls
    BY DEF PInv, Resulted
  <2> QED
    BY <2>2, <2>3, <2>4 DEF RepliesArePaired, Queued, Solicited
<1> QED
  BY <1>1, InitStateOK, StepStateOK, InitPInv, StepPInv, PTL DEF Spec
-----------------------------------------------------------------------------
(* The promise of WifiDriver.  What the pending frames tell of the link is *)
(* its news: a frame that is queued adds to them at the end, one that is   *)
(* handled was the first of them, and reading a header changes nothing.    *)
TellsOf == [f \in Frames |-> Tells(f)]

LEMMA TellsIsSeq ==
  ASSUME NEW f
  PROVE  /\ Tells(f) \in Seq(LinkEvents)
         /\ f.kind \in LinkEvents => Tells(f) = <<f.kind>>
         /\ f.kind \notin LinkEvents => Tells(f) = <<>>
BY DEF Tells

LEMMA TellsOfIs ==
  /\ TellsOf \in [Frames -> Seq(LinkEvents)]
  /\ \A f \in Frames : TellsOf[f] = Tells(f)
<1>1. \A f \in Frames : Tells(f) \in Seq(LinkEvents)
  BY TellsIsSeq
<1> QED
  BY <1>1 DEF TellsOf

LEMMA ToldIsMapped ==
  ASSUME NEW frames \in Seq(Frames)
  PROVE  /\ Told(frames) = FlattenSeq(Mapped(TellsOf, frames))
         /\ Told(frames) \in Seq(LinkEvents)
<1> DEFINE t == [i \in DOMAIN frames |-> Tells(frames[i])]
           m == [i \in DOMAIN frames |-> TellsOf[frames[i]]]
<1>1. \A i \in DOMAIN frames : frames[i] \in Frames
  <2> QED
    OBVIOUS
<1>2. \A i \in DOMAIN frames : Tells(frames[i]) = TellsOf[frames[i]]
  BY <1>1, TellsOfIs
<1>3. t = m
  BY <1>2
<1>4. Mapped(TellsOf, frames) = m
  BY DEF Mapped
<1>5. Mapped(TellsOf, frames) \in Seq(Seq(LinkEvents))
  <2>1. IsImage(Mapped(TellsOf, frames), TellsOf, frames, LinkEvents)
    BY TellsOfIs, MappedIsSeq
  <2> QED
    BY <2>1 DEF IsImage
<1> HIDE DEF t, m
<1>6. FlattenSeq(Mapped(TellsOf, frames)) \in Seq(LinkEvents)
  BY <1>5, FlattenIsSeq
<1> QED
  BY <1>3, <1>4, <1>6 DEF Told, t

LEMMA ToldEmpty == Told(<<>>) = <<>>
<1>1. [i \in DOMAIN <<>> |-> Tells(<<>>[i])] = <<>>
  OBVIOUS
<1> QED
  BY <1>1, FlattenEmpty DEF Told

LEMMA ToldAppend ==
  ASSUME NEW frames \in Seq(Frames), NEW f \in Frames
  PROVE  Told(Append(frames, f)) = Told(frames) \o Tells(f)
<1>1. Append(frames, f) \in Seq(Frames)
  OBVIOUS
<1>2. FlattenSeq(Mapped(TellsOf, Append(frames, f)))
        = FlattenSeq(Mapped(TellsOf, frames)) \o TellsOf[f]
  <2>1. TellsOf \in [Frames -> Seq(LinkEvents)]
    BY TellsOfIs
  <2>2. AppendsImage(TellsOf, frames, f)
    BY <2>1, MappedAppend
  <2> QED
    BY <2>2 DEF AppendsImage
<1> QED
  BY <1>1, <1>2, ToldIsMapped, TellsOfIs

LEMMA ToldCons ==
  ASSUME NEW frames \in Seq(Frames), NEW f \in Frames
  PROVE  Told(<<f>> \o frames) = Tells(f) \o Told(frames)
<1>1. <<f>> \o frames \in Seq(Frames)
  OBVIOUS
<1>2. FlattenSeq(Mapped(TellsOf, <<f>> \o frames))
        = TellsOf[f] \o FlattenSeq(Mapped(TellsOf, frames))
  <2>1. TellsOf \in [Frames -> Seq(LinkEvents)]
    BY TellsOfIs
  <2>2. ConsesImage(TellsOf, frames, f)
    BY <2>1, MappedCons
  <2> QED
    BY <2>2 DEF ConsesImage
<1> QED
  BY <1>1, <1>2, ToldIsMapped, TellsOfIs

(* The news, when a frame is queued, read, and handled.                    *)
LEMMA NewsQueued ==
  ASSUME StateOK, NEW f \in Frames, Queue(f), UNCHANGED host
  PROVE  News' = News \o Tells(f)
<1>1. Pending' = Append(Pending, f) /\ Pending \in Seq(Frames)
  BY DEF Pending, Queue, host, StateOK
<1> QED
  BY <1>1, ToldAppend DEF News

LEMMA NewsRead ==
  ASSUME StateOK, ReadHeader
  PROVE  News' = News
<1>1. Pending = out /\ out \in Seq(Frames)
  BY DEF Pending, ReadHeader, StateOK
<1>2. CASE out = <<>>
  <2>1. Pending' = <<Short>> \o <<>> /\ Short \in Frames
    BY <1>2, ShortIsFrame DEF Pending, ReadHeader
  <2>2. Tells(Short) = <<>>
    BY DEF Tells, Short, Event, Frame, LinkEvents
  <2>3. Told(<<Short>> \o <<>>) = <<>> \o Told(<<>>)
    BY <2>1, <2>2, ToldCons, EmptySeq
  <2> QED
    BY <1>1, <1>2, <2>1, <2>3, ToldEmpty DEF News
<1>3. CASE out # <<>>
  <2>1. Pending' = <<Head(out)>> \o Tail(out)
    BY <1>3 DEF Pending, ReadHeader
  <2>2. <<Head(out)>> \o Tail(out) = out
    BY <1>1, <1>3
  <2> QED
    BY <1>1, <2>1, <2>2 DEF News
<1> QED
  BY <1>2, <1>3

LEMMA NewsHandled ==
  ASSUME StateOK, pc = "dispatch", pc' # "dispatch", UNCHANGED out
  PROVE  /\ News = Tells(hdr) \o News'
         /\ News' \in Seq(LinkEvents)
         /\ hdr.kind \notin LinkEvents => News' = News
<1>1. Pending = <<hdr>> \o out /\ Pending' = out
  BY DEF Pending, StateOK
<1>2. News = Tells(hdr) \o News'
  BY <1>1, ToldCons DEF News, StateOK
<1>3. News' \in Seq(LinkEvents)
  BY <1>1, ToldIsMapped DEF News, StateOK
<1>4. ASSUME hdr.kind \notin LinkEvents PROVE News' = News
  <2>1. Tells(hdr) = <<>>
    BY <1>4, TellsIsSeq
  <2> DEFINE after == News'
  <2>2. after \in Seq(LinkEvents) /\ News = <<>> \o after
    BY <1>2, <1>3, <2>1
  <2> HIDE DEF after
  <2>3. <<>> \o after = after
    BY <2>2, ConcatEmptySeq
  <2> QED
    BY <2>2, <2>3 DEF after
<1> QED
  BY <1>2, <1>3, <1>4

-----------------------------------------------------------------------------
(* Where the thread can be while a function polls, and for which calls.    *)
Polling ==
  /\ pc \in {"patch", "patch_ready", "poll", "read_ready", "dispatch"}
       => waiter # "none"
  /\ waiter \in {"event", "data"} => call # "send"
  /\ pc = "idle" => waiter = "none"
  /\ pc \in {"boot", "call", "call_ready"} => waiter = "none"

LEMMA InitPolling == Init => Polling
BY DEF Init, Polling

LEMMA StepPolling == Polling /\ [Next]_vars => Polling'
<1> SUFFICES ASSUME Polling, [Next]_vars PROVE Polling'
  OBVIOUS
<1> USE DEF Polling
<1>1. CASE PowerCycle \/ Poll \/ (\E c \in Calls : Invoke(c))
  BY <1>1 DEF PowerCycle, Invoke, Poll, chip
<1>2. CASE Boot \/ StartCall \/ StartPatch \/ StartRead \/ SendCall \/ SendPatch
  BY <1>2 DEF Boot, StartCall, StartPatch, StartRead, StartTransaction,
     SendCall, SendPatch
<1>3. CASE \/ PollEmpty \/ ReadHeader \/ BadHeader \/ FreeBuffer
           \/ PatchesRequest \/ LinkEvent \/ PollDone \/ SkipEvent
           \/ TakeReply \/ AwaitData \/ TakeData \/ SkipForData
  BY <1>3 DEF PollEmpty, ReadHeader, BadHeader, FreeBuffer, PatchesRequest,
     LinkEvent, PollDone, SkipEvent, TakeReply, AwaitData, TakeData,
     SkipForData, Dispatch, Return
<1>4. CASE ChipStep \/ UNCHANGED vars
  <2>1. UNCHANGED host
    BY <1>4 DEF ChipStep, IrqAssert, IrqDeassert, Answer, ChipAnswer,
       ChipData, ChipFreesBuffer, ChipLink, ChipAsksForPatches, ChipStray,
       Unsolicited, vars
  <2> QED
    BY <2>1 DEF host
<1> QED
  BY <1>1, <1>2, <1>3, <1>4 DEF Next, HostStep
-----------------------------------------------------------------------------
(* A step that shows the program nothing.                                  *)
LEMMA Silent ==
  ASSUME UNCHANGED <<call, calls, wlan>>, News' = News, Phase' = Phase,
         UNCHANGED result \/ Phase \notin {"idle", "polling"}
  PROVE  UNCHANGED Driver!vars
<1>1. UNCHANGED Answered /\ UNCHANGED Seen
  BY DEF Answered, Seen
<1> QED
  BY <1>1 DEF Driver!vars

(* The news stay when the frames do and none is taken into hands.          *)
LEMMA NewsStay ==
  ASSUME UNCHANGED <<out, hdr>>, (pc = "dispatch") <=> (pc' = "dispatch")
  PROVE  News' = News
<1>1. Pending' = Pending
  BY DEF Pending
<1> QED
  BY <1>1 DEF News

LEMMA NewsStayOutside ==
  ASSUME UNCHANGED out, pc # "dispatch", pc' # "dispatch"
  PROVE  News' = News
<1>1. Pending' = Pending
  BY DEF Pending
<1> QED
  BY <1>1 DEF News

Kept == StateOK /\ PInv /\ Polling

LEMMA CallsStep ==
  ASSUME Kept,
         PowerCycle \/ Poll \/ PollEmpty \/ (\E c \in Calls : Invoke(c))
  PROVE  Driver!Next
<1>w. pc = "idle" => waiter = "none"
  BY DEF Kept, Polling
<1>1. CASE PowerCycle
  <2>1. /\ pc = "idle" /\ pc' = "boot" /\ waiter' = "none"
        /\ call' # "send" /\ calls' = calls + 1
    BY <1>1, <1>w DEF PowerCycle
  <2>2. News' = <<>>
    <3>1. Pending' = <<>>
      BY <1>1 DEF PowerCycle, Pending
    <3> QED
      BY <3>1, ToldEmpty DEF News
  <2>3. Seen' = "disconnect"
    <3>1. ~wlan'.dhcp /\ ~wlan'.connected
      BY <1>1, SMT DEF PowerCycle, WlanReset
    <3> QED
      BY <3>1 DEF Seen
  <2>4. Phase = "idle" /\ Phase' = "calling"
    BY <2>1 DEF Phase
  <2>5. Answered' = 0
    BY <2>4 DEF Answered
  <2> QED
    BY <2>1, <2>2, <2>3, <2>4, <2>5 DEF Driver!Next, Driver!Restart
<1>2. ASSUME NEW c \in Calls, Invoke(c) PROVE Driver!Next
  <2>1. /\ pc = "idle" /\ pc' = "call" /\ waiter' = "none"
        /\ calls' = calls + 1 /\ UNCHANGED <<out, wlan>>
    BY <1>2, <1>w DEF Invoke, chip
  <2>2. News' = News
    BY <2>1, NewsStayOutside
  <2>3. Seen' = Seen
    BY <2>1 DEF Seen
  <2>4. Phase = "idle" /\ Phase' \in {"calling", "sending"}
    BY <2>1 DEF Phase
  <2>5. Answered' = 0
    BY <2>4 DEF Answered
  <2> QED
    BY <2>1, <2>2, <2>3, <2>4, <2>5 DEF Driver!Next, Driver!Call
<1>3. CASE Poll
  <2>1. /\ pc = "idle" /\ pc' = "poll" /\ waiter' = "poll"
        /\ UNCHANGED <<out, wlan, call, calls, result>>
    BY <1>3 DEF Poll, chip
  <2>2. News' = News
    BY <2>1, NewsStayOutside
  <2>3. Seen' = Seen
    BY <2>1 DEF Seen
  <2>4. Phase = "idle" /\ Phase' = "polling"
    BY <2>1 DEF Phase
  <2>5. Answered' = Answered
    BY <2>1, <2>4 DEF Answered
  <2> QED
    BY <2>1, <2>2, <2>3, <2>4, <2>5 DEF Driver!Next, Driver!Poll
<1>4. CASE PollEmpty
  <2>1. /\ pc = "poll" /\ pc' = "idle" /\ waiter = "poll"
        /\ UNCHANGED <<out, wlan, call, calls, result>>
    BY <1>4 DEF PollEmpty, chip
  <2>2. News' = News
    BY <2>1, NewsStayOutside
  <2>3. Seen' = Seen
    BY <2>1 DEF Seen
  <2>4. Phase = "polling" /\ Phase' = "idle"
    BY <2>1 DEF Phase
  <2>5. Answered' = Answered
    BY <2>1, <2>4 DEF Answered
  <2> QED
    BY <2>1, <2>2, <2>3, <2>4, <2>5 DEF Driver!Next, Driver!PollReturn
<1> QED
  BY <1>1, <1>2, <1>3, <1>4

(* The steps of a transaction, up to the header.                           *)
LEMMA TransactionStep ==
  ASSUME Kept,
         \/ Boot \/ StartCall \/ StartPatch \/ StartRead \/ SendCall
         \/ SendPatch \/ ReadHeader
  PROVE  Driver!Next \/ UNCHANGED Driver!vars
<1>1. CASE Boot \/ StartCall \/ StartPatch \/ StartRead \/ SendPatch
  <2>1. /\ pc # "idle" /\ pc' # "idle" /\ pc # "dispatch" /\ pc' # "dispatch"
        /\ UNCHANGED <<out, wlan, call, calls, result, waiter>>
    BY <1>1 DEF Boot, StartCall, StartPatch, StartRead, SendPatch,
       StartTransaction, chip
  <2>2. News' = News
    BY <2>1, NewsStayOutside
  <2>3. Phase' = Phase
    BY <2>1 DEF Phase
  <2> QED
    BY <2>1, <2>2, <2>3, Silent
<1>2. CASE SendCall /\ call # "send"
  <2>1. /\ pc = "call_ready" /\ pc' = "poll" /\ waiter' = "event"
        /\ UNCHANGED <<out, wlan, call, calls, result>>
    BY <1>2 DEF SendCall
  <2>2. waiter = "none"
    BY <2>1 DEF Kept, Polling
  <2>3. News' = News
    BY <2>1, NewsStayOutside
  <2>4. Phase' = Phase
    BY <1>2, <2>1, <2>2 DEF Phase
  <2> QED
    BY <2>1, <2>3, <2>4, Silent
<1>3. CASE SendCall /\ call = "send"
  <2>1. /\ pc = "call_ready" /\ pc' = "idle"
        /\ UNCHANGED <<out, wlan, call, calls, result, waiter>>
    BY <1>3 DEF SendCall
  <2>2. waiter = "none"
    BY <2>1 DEF Kept, Polling
  <2>3. News' = News
    BY <2>1, NewsStayOutside
  <2>4. Phase = "sending" /\ Phase' = "idle"
    BY <1>3, <2>1, <2>2 DEF Phase
  <2>5. Answered' = Answered /\ Seen' = Seen
    BY <1>3, <2>1 DEF Answered, Seen
  <2> QED
    BY <2>1, <2>3, <2>4, <2>5 DEF Driver!Next, Driver!Sent
<1>4. CASE ReadHeader
  <2>1. /\ pc = "read_ready" /\ pc' = "dispatch"
        /\ UNCHANGED <<wlan, call, calls, result, waiter>>
    BY <1>4 DEF ReadHeader
  <2>2. News' = News
    BY <1>4, NewsRead DEF Kept
  <2>3. Phase' = Phase
    BY <2>1 DEF Phase
  <2> QED
    BY <2>1, <2>2, <2>3, Silent
<1> QED
  BY <1>1, <1>2, <1>3, <1>4

(* A response that is no link event tells nothing.                         *)
LEMMA NotLink ==
  ASSUME hdr.kind \in {"short", "free_buffer", "patches_request"} \cup Returned
  PROVE  hdr.kind \notin LinkEvents
BY CallAssumption DEF Returned, KnownEvents, LinkEvents

(* What is done with a response.                                           *)
LEMMA SilentDispatch ==
  ASSUME Kept,
         \/ BadHeader \/ FreeBuffer \/ PatchesRequest \/ SkipEvent
         \/ AwaitData \/ SkipForData
  PROVE  UNCHANGED Driver!vars
<1>1. hdr.kind \in {"short", "free_buffer", "patches_request"} \cup Returned
  BY DEF BadHeader, FreeBuffer, PatchesRequest, SkipEvent, AwaitData,
     SkipForData, Dispatch, Returned
<1>2. /\ pc = "dispatch" /\ pc' \in {"poll", "patch"}
      /\ UNCHANGED <<out, call, calls, wlan>>
  BY DEF BadHeader, FreeBuffer, PatchesRequest, SkipEvent, AwaitData,
     SkipForData, Dispatch, chip
<1>3. News' = News
  BY <1>1, <1>2, NotLink, NewsHandled DEF Kept
<1>4. CASE AwaitData
  <2>1. waiter = "event" /\ waiter' = "data"
    BY <1>4 DEF AwaitData
  <2>2. call # "send"
    BY <2>1 DEF Kept, Polling
  <2>3. Phase = "calling" /\ Phase' = "calling"
    BY <1>2, <2>1, <2>2 DEF Phase
  <2> QED
    BY <1>2, <1>3, <2>3, Silent
<1>5. CASE ~AwaitData
  <2>1. UNCHANGED <<waiter, result>>
    BY <1>5 DEF BadHeader, FreeBuffer, PatchesRequest, SkipEvent, SkipForData
  <2>2. Phase' = Phase
    BY <1>2, <2>1 DEF Phase
  <2> QED
    BY <1>2, <1>3, <2>1, <2>2, Silent
<1> QED
  BY <1>4, <1>5

LEMMA ReturnStep ==
  ASSUME Kept, PollDone \/ TakeReply \/ TakeData
  PROVE  Driver!Next
<1>1. hdr.kind \in Returned
  BY DEF PollDone, TakeReply, TakeData, Dispatch, Returned
<1>2. /\ pc = "dispatch" /\ pc' = "idle"
      /\ UNCHANGED <<out, call, calls, wlan>>
  BY DEF PollDone, TakeReply, TakeData, Dispatch, Return, chip
<1>3. News' = News
  BY <1>1, <1>2, NotLink, NewsHandled DEF Kept
<1>4. Seen' = Seen
  BY <1>2 DEF Seen
<1>5. CASE PollDone
  <2>1. waiter = "poll" /\ UNCHANGED result
    BY <1>5 DEF PollDone
  <2>2. Phase = "polling" /\ Phase' = "idle"
    BY <1>2, <2>1 DEF Phase
  <2>3. Answered' = Answered
    BY <1>2, <2>1, <2>2 DEF Answered
  <2> QED
    BY <1>2, <1>3, <1>4, <2>2, <2>3 DEF Driver!Next, Driver!PollReturn
<1>6. ASSUME waiter \in {"event", "data"}, result'.id = calls PROVE Driver!Next
  <2>1. call # "send"
    BY <1>6 DEF Kept, Polling
  <2>2. Phase = "calling" /\ Phase' = "idle"
    BY <1>2, <1>6, <2>1 DEF Phase
  <2>3. Answered' = calls
    BY <1>2, <1>6, <2>1, <2>2 DEF Answered
  <2> QED
    BY <1>2, <1>3, <1>4, <2>2, <2>3 DEF Driver!Next, Driver!Return
<1>7. CASE TakeReply
  <2>1. Held("reply") /\ waiter = "event"
    BY <1>7 DEF TakeReply, Dispatch, Held
  <2>2. hdr.id = calls
    BY <2>1 DEF Kept, PInv, RepliesAreOwn, Own
  <2>3. result'.id = hdr.id
    BY <1>7 DEF TakeReply, Return
  <2> QED
    BY <1>6, <2>1, <2>2, <2>3
<1>8. CASE TakeData
  <2>1. waiter = "data" /\ UNCHANGED result
    BY <1>8 DEF TakeData
  <2>2. result.id = calls
    BY <2>1 DEF Kept, Polling, PInv, Resulted
  <2> QED
    BY <1>6, <2>1, <2>2
<1> QED
  BY <1>5, <1>7, <1>8

(* A link event that is handled is the first of the news.                  *)
LEMMA LearnStep ==
  ASSUME Kept, LinkEvent
  PROVE  Driver!Next
<1>1. /\ pc = "dispatch" /\ pc' = "poll" /\ hdr.kind \in LinkEvents
      /\ UNCHANGED <<out, call, calls, waiter, result>>
      /\ wlan' = WlanAfter(hdr.kind)
  BY DEF LinkEvent, Dispatch, chip
<1>2. waiter \in {"poll", "event", "data"}
        /\ (waiter \in {"event", "data"} => call # "send")
  BY <1>1 DEF Kept, Polling, StateOK
<1>3. Phase \in {"calling", "polling"} /\ Phase' = Phase
  BY <1>1, <1>2 DEF Phase
<1>4. Answered' = Answered
  BY <1>1, <1>3 DEF Answered
<1>5. News # <<>> /\ Head(News) = hdr.kind /\ Tail(News) = News'
  <2>1. News = Tells(hdr) \o News' /\ News' \in Seq(LinkEvents)
    BY <1>1, NewsHandled DEF Kept
  <2>2. Tells(hdr) = <<hdr.kind>>
    BY <1>1 DEF Tells
  <2> DEFINE after == News'
             now == News
             kind == hdr.kind
  <2>3. now = <<kind>> \o after /\ after \in Seq(LinkEvents) /\ kind \in LinkEvents
    BY <1>1, <2>1, <2>2
  <2> HIDE DEF after, now, kind
  <2>4. now # <<>> /\ Head(now) = kind /\ Tail(now) = after
    <3>1. /\ Len(now) = Len(after) + 1 /\ Len(after) \in Nat
          /\ now \in Seq(LinkEvents) /\ now[1] = kind
      BY <2>3
    <3>2. now # <<>> /\ Head(now) = kind
      BY <3>1
    <3>3. Tail(now) = after
      <4>1. /\ Tail(now) \in Seq(LinkEvents) /\ Len(Tail(now)) = Len(after)
            /\ \A i \in 1 .. Len(after) : Tail(now)[i] = now[i + 1]
        BY <3>1, <3>2
      <4>2. \A i \in 1 .. Len(after) : now[i + 1] = after[i]
        BY <2>3
      <4> QED
        BY <2>3, <4>1, <4>2, SeqEqual
    <3> QED
      BY <3>2, <3>3
  <2> QED
    BY <2>4 DEF after, now, kind
<1>6. Seen' = hdr.kind
  <2>1. /\ WlanAfter(hdr.kind).connected = (hdr.kind \in {"connect", "dhcp"})
        /\ WlanAfter(hdr.kind).dhcp = (hdr.kind = "dhcp")
    BY Zenon DEF WlanAfter
  <2>2. /\ wlan'.connected <=> hdr.kind \in {"connect", "dhcp"}
        /\ wlan'.dhcp <=> hdr.kind = "dhcp"
    BY <1>1, <2>1, Zenon
  <2>3. hdr.kind \in {"connect", "dhcp", "disconnect"}
    BY <1>1 DEF LinkEvents
  <2> QED
    BY <2>2, <2>3 DEF Seen
<1> QED
  BY <1>1, <1>3, <1>4, <1>5, <1>6 DEF Driver!Next, Driver!Learn

(* What the chip does.                                                     *)
LEMMA ChipTells ==
  ASSUME Kept, NEW f \in Frames, Queue(f), UNCHANGED host
  PROVE  Driver!Next \/ UNCHANGED Driver!vars
<1>1. News' = News \o Tells(f) /\ News \in Seq(LinkEvents)
  <2>1. Pending \in Seq(Frames)
    BY DEF Kept, StateOK, Pending
  <2> QED
    BY <2>1, NewsQueued, ToldIsMapped DEF Kept, News
<1>2. UNCHANGED <<pc, call, calls, waiter, hdr, result, wlan>>
  BY DEF host
<1>3. Phase' = Phase /\ Seen' = Seen
  BY <1>2 DEF Phase, Seen
<1>4. Answered' = Answered
  BY <1>2, <1>3 DEF Answered
<1>5. CASE f.kind \in LinkEvents
  <2>1. Tells(f) = <<f.kind>>
    BY <1>5 DEF Tells
  <2> DEFINE now == News
             after == News'
             kind == f.kind
  <2>2. after = now \o <<kind>> /\ now \in Seq(LinkEvents) /\ kind \in LinkEvents
    BY <1>1, <1>5, <2>1
  <2> HIDE DEF now, after, kind
  <2>3. after = Append(now, kind)
    BY <2>2, AppendIsConcat
  <2>4. kind \in {"connect", "dhcp", "disconnect"}
    BY <2>2 DEF LinkEvents
  <2>5. \E k \in {"connect", "dhcp", "disconnect"} : after = Append(now, k)
    BY <2>3, <2>4
  <2> QED
    BY <1>2, <1>3, <1>4, <2>5 DEF Driver!Next, Driver!Change, now, after
<1>6. CASE f.kind \notin LinkEvents
  <2>1. Tells(f) = <<>>
    BY <1>6 DEF Tells
  <2>2. News' = News
    BY <1>1, <2>1, ConcatEmptySeq
  <2> QED
    BY <1>2, <1>3, <1>4, <2>2 DEF Driver!vars
<1> QED
  BY <1>5, <1>6

LEMMA ChipSendsFrame ==
  ASSUME Kept, ChipStep, ~IrqAssert, ~IrqDeassert
  PROVE  \E f \in Frames : Queue(f) /\ UNCHANGED host
<1>f. ASSUME NEW kind \in KnownEvents \cup Strays, NEW n \in Int
      PROVE  Event(kind, n) \in Frames
  BY DEF Event, Frame, Frames, Returned
<1>1. ASSUME NEW ok \in BOOLEAN, NEW n \in ReceiveCounts \cup {0, -1},
             ChipAnswer(ok, n)
      PROVE  \E f \in Frames : Queue(f) /\ UNCHANGED host
  <2>1. Frame("reply", todo, todo_id, n, ok) \in Frames
    BY <1>1, CallAssumption
       DEF Kept, StateOK, ChipAnswer, Frame, Frames, Returned
  <2> QED
    BY <1>1, <2>1 DEF ChipAnswer
<1>2. CASE ChipData
  <2>1. Frame("data", "none", todo_id, 0, TRUE) \in Frames
    BY DEF Kept, StateOK, Frame, Frames, Returned
  <2> QED
    BY <1>2, <2>1 DEF ChipData
<1>3. CASE ChipFreesBuffer
  <2>1. Event("free_buffer", 0) \in Frames
    BY <1>f DEF KnownEvents
  <2> QED
    BY <1>3, <2>1 DEF ChipFreesBuffer
<1>4. ASSUME NEW opcode \in PatchOpcodes, ChipAsksForPatches(opcode)
      PROVE  \E f \in Frames : Queue(f) /\ UNCHANGED host
  <2>1. Event("patches_request", opcode) \in Frames
    BY <1>f, CallAssumption DEF KnownEvents
  <2> QED
    BY <1>4, <2>1 DEF ChipAsksForPatches, Unsolicited
<1>5. ASSUME NEW kind \in LinkEvents \cup Strays,
             ChipStray(kind) \/ ChipLink(kind)
      PROVE  \E f \in Frames : Queue(f) /\ UNCHANGED host
  <2>1. Event(kind, 0) \in Frames
    BY <1>f DEF KnownEvents
  <2> QED
    BY <1>5, <2>1 DEF ChipStray, ChipLink, Unsolicited
<1> QED
  BY <1>1, <1>2, <1>3, <1>4, <1>5 DEF ChipStep, Answer

LEMMA ChipTellsNothing ==
  ASSUME IrqAssert \/ IrqDeassert \/ UNCHANGED vars
  PROVE  UNCHANGED Driver!vars
<1>1. UNCHANGED <<pc, call, calls, waiter, hdr, result, wlan, out>>
  BY DEF IrqAssert, IrqDeassert, vars, host, chip
<1>2. News' = News
  BY <1>1, NewsStay
<1>3. Phase' = Phase
  BY <1>1 DEF Phase
<1> QED
  BY <1>1, <1>2, <1>3, Silent

LEMMA InitDriver == Init => Driver!Init
<1> SUFFICES ASSUME Init PROVE Driver!Init
  OBVIOUS
<1>1. Pending = <<>>
  BY DEF Init, Pending
<1>2. News = <<>>
  BY <1>1, ToldEmpty DEF News
<1>3. Phase = "calling"
  BY DEF Init, Phase
<1>4. Answered = 0
  BY <1>3 DEF Answered
<1>5. ~wlan.dhcp /\ ~wlan.connected
  BY SMT DEF Init, WlanReset
<1>6. Seen = "disconnect"
  BY <1>5 DEF Seen
<1>7. calls = 1
  BY DEF Init
<1> QED
  BY <1>2, <1>3, <1>4, <1>6, <1>7 DEF Driver!Init

LEMMA StepDriver == Kept /\ [Next]_vars => [Driver!Next]_(Driver!vars)
<1> SUFFICES ASSUME Kept, [Next]_vars
             PROVE  Driver!Next \/ UNCHANGED Driver!vars
  OBVIOUS
<1>1. CASE PowerCycle \/ Poll \/ PollEmpty \/ (\E c \in Calls : Invoke(c))
  BY <1>1, CallsStep
<1>2. CASE \/ Boot \/ StartCall \/ StartPatch \/ StartRead \/ SendCall
           \/ SendPatch \/ ReadHeader
  BY <1>2, TransactionStep
<1>3. CASE \/ BadHeader \/ FreeBuffer \/ PatchesRequest \/ SkipEvent
           \/ AwaitData \/ SkipForData
  BY <1>3, SilentDispatch
<1>4. CASE PollDone \/ TakeReply \/ TakeData
  BY <1>4, ReturnStep
<1>5. CASE LinkEvent
  BY <1>5, LearnStep
<1>6. CASE IrqAssert \/ IrqDeassert \/ UNCHANGED vars
  BY <1>6, ChipTellsNothing
<1>7. CASE ChipStep /\ ~IrqAssert /\ ~IrqDeassert
  BY <1>7, ChipSendsFrame, ChipTells
<1> QED
  BY <1>1, <1>2, <1>3, <1>4, <1>5, <1>6, <1>7 DEF Next, HostStep, ChipStep

(* The HCI layer keeps the promise of the driver, whatever the chip sends  *)
(* and the program calls: a call returns the result of its own command,    *)
(* and the flags learn the changes of the link one at a time, in order,    *)
(* each once, and only while a function that polls runs.                   *)
THEOREM PromiseIsKept == Spec => KeepsPromise
<1>1. Init => StateOK /\ PInv /\ Polling /\ Driver!Init
  BY InitStateOK, InitPInv, InitPolling, InitDriver
<1>2. StateOK /\ PInv /\ Polling /\ [Next]_vars
        => StateOK' /\ PInv' /\ Polling' /\ [Driver!Next]_(Driver!vars)
  BY StepStateOK, StepPInv, StepPolling, StepDriver DEF Kept
<1> QED
  BY <1>1, <1>2, PTL DEF Spec, KeepsPromise, Driver!Safety
=============================================================================
