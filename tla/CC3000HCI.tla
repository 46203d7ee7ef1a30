------------------------------ MODULE CC3000HCI ------------------------------
(***************************************************************************)
(* The HCI layer of the CC3000 driver (cc3000_hci.cpp) with the calls made *)
(* through it (cc3000_wlan.cpp, cc3000_socket.cpp, cc3000_nvram.cpp,       *)
(* cc3000.cpp), against the Wi-Fi chip.                                    *)
(*                                                                         *)
(* The firmware is one polled thread.  A call writes a command frame and   *)
(* polls the chip's IRQ line until its reply arrives; while it polls, the  *)
(* chip's unsolicited events come in between and are handled on the spot,  *)
(* a request for patches even by writing frames from inside the poll.      *)
(* pc is the place of the thread, waiter the function that polls:          *)
(*    "event"  wait_for         "data"  wait_for_data                      *)
(*    "poll"   handle_unsolicited_events                                   *)
(* A transaction of the SPI layer is the interval in which cs is asserted; *)
(* module CC3000SPI models its bytes.                                      *)
(*                                                                         *)
(* The chip is external.  It answers one command at a time and queues its  *)
(* frames for the host; links come and go, buffers are freed and patches   *)
(* are asked for whenever it likes.                                        *)
(*                                                                         *)
(* Definitions whose comment starts with "Variant" are faulty forms of the *)
(* definition that follows them; they are not part of the specification    *)
(* and show that the properties below can tell the difference.             *)
(***************************************************************************)
EXTENDS Integers, SequencesExt

CONSTANTS
  Calls,           \* the calls the program makes
  ReceiveCounts,   \* number_of_bytes the chip may report for a recv
  Strays,          \* unsolicited events the host has no case for
  PatchOpcodes,    \* opcodes of the chip's requests for patches
  MaxCalls,        \* bound on the calls made
  MaxUnsolicited   \* bound on the unsolicited events the chip raises

(* Calls of one shape: write a command, wait_for its event, read the       *)
(* result, end().                                                          *)
WlanCalls ==
  {"set_event_mask", "ioctl_set_connection_policy", "ioctl_del_profile",
   "wlan_connect", "smartconfig_set_prefix"}
SocketCalls ==
  {"socket", "close_socket", "gethostbyname", "socket_connect", "select"}
NvramCalls == {"read_sp_version", "nvram_write"}
SimpleCalls ==
  WlanCalls \cup SocketCalls \cup NvramCalls \cup {"simple_link_start"}

(* Calls whose event may be followed by a data frame.                      *)
DataCalls == {"recv", "nvram_read"}

RepliedCalls == SimpleCalls \cup DataCalls \cup {"read_buffer_size"}
AllCalls == RepliedCalls \cup {"send"}

LinkEvents == {"connect", "disconnect", "dhcp"}
KnownEvents == LinkEvents \cup {"free_buffer", "patches_request"}

ASSUME CallAssumption ==
  /\ Calls \subseteq AllCalls
  /\ ReceiveCounts \subseteq Int
  /\ PatchOpcodes \subseteq Int
  /\ Strays \cap (KnownEvents \cup {"reply", "data", "short"}) = {}
  /\ MaxCalls \in Nat
  /\ MaxUnsolicited \in Nat

VARIABLES
  pc,           \* where the thread is
  call,         \* the call in progress, or the last one
  calls,        \* how many calls were made; the number of the current one
  waiter,       \* which function polls for the next event, or "none"
  hdr,          \* the response whose header was read last
  result,       \* what the last call returned
  wlan,         \* CC3000WLAN's flags
  cs,           \* chip-select asserted
  irq,          \* the chip's IRQ line asserted
  out,          \* frames the chip holds for the host
  todo,         \* what the chip still has to answer
  todo_id,      \* the number of that call
  link,         \* the chip's link: "down", "associated" or "bound"
  buffers,      \* buffers of the chip that hold data to send
  unsolicited   \* how many unsolicited events the chip has raised

host == <<pc, call, calls, waiter, hdr, result, wlan>>
chip == <<out, todo, todo_id, link, buffers, unsolicited>>
vars == <<host, cs, irq, chip>>

Frame(kind, about, id, n, ok) ==
  [kind |-> kind, about |-> about, id |-> id, n |-> n, ok |-> ok]
Event(kind, n) == Frame(kind, "none", 0, n, TRUE)
Short == Event("short", 0)

WlanReset == [initialized |-> FALSE, connected |-> FALSE, dhcp |-> FALSE]
NoResult == [id |-> 0, value |-> 0]

(* SOCKET_ERROR_HCI and WLAN_ERROR_HCI: any negative number apart.         *)
ErrorHCI == -2
-----------------------------------------------------------------------------
(* cc3000.disable() followed by cc3000.enable(): the chip restarts, the    *)
(* flags are reset, and SIMPLE_LINK_START is the call in progress.         *)
Init ==
  /\ pc = "boot"
  /\ call = "simple_link_start"
  /\ calls = 1
  /\ waiter = "none"
  /\ hdr = Short
  /\ result = NoResult
  /\ wlan = WlanReset
  /\ cs = FALSE
  /\ irq = FALSE
  /\ out = <<>>
  /\ todo = "boot"
  /\ todo_id = 0
  /\ link = "down"
  /\ buffers = 0
  /\ unsolicited = 0

PowerCycle ==
  /\ pc = "idle"
  /\ calls < MaxCalls
  /\ pc' = "boot"
  /\ call' = "simple_link_start"
  /\ calls' = calls + 1
  /\ wlan' = WlanReset
  /\ cs' = FALSE
  /\ irq' = FALSE
  /\ out' = <<>>
  /\ todo' = "boot"
  /\ link' = "down"
  /\ buffers' = 0
  /\ UNCHANGED <<waiter, hdr, result, todo_id, unsolicited>>

(* CC3000SPI::init: wait for the chip to assert IRQ once it is ready.      *)
Boot ==
  /\ pc = "boot"
  /\ irq
  /\ pc' = "call"
  /\ UNCHANGED <<call, calls, waiter, hdr, result, wlan, cs, irq, chip>>

(* The program makes a call.                                               *)
Invoke(c) ==
  /\ pc = "idle"
  /\ calls < MaxCalls
  /\ pc' = "call"
  /\ call' = c
  /\ calls' = calls + 1
  /\ UNCHANGED <<waiter, hdr, result, wlan, cs, irq, chip>>

(* The program calls check_for_unsolicited_events().                       *)
Poll ==
  /\ pc = "idle"
  /\ pc' = "poll"
  /\ waiter' = "poll"
  /\ UNCHANGED <<call, calls, hdr, result, wlan, cs, irq, chip>>
-----------------------------------------------------------------------------
(* start_transaction(): with chip-select still asserted, while(true).      *)
StartTransaction(ready) ==
  /\ pc' = IF cs THEN "hung" ELSE ready
  /\ cs' = TRUE
  /\ UNCHANGED <<call, calls, waiter, hdr, result, wlan, irq, chip>>

StartCall == pc = "call" /\ StartTransaction("call_ready")
StartPatch == pc = "patch" /\ StartTransaction("patch_ready")
StartRead == pc = "poll" /\ irq /\ StartTransaction("read_ready")

(* Variant: send waits for an event as every other call does.              *)
SendCallAwaited ==
  /\ pc = "call_ready"
  /\ irq
  /\ cs' = FALSE
  /\ pc' = "poll"
  /\ waiter' = "event"
  /\ todo' = call
  /\ todo_id' = calls
  /\ UNCHANGED <<call, calls, hdr, result, wlan, irq, out, link, buffers,
                 unsolicited>>

(* The wait in start_transaction() ends; start(), the arguments and end(). *)
(* send returns at once, every other call waits for its event.             *)
SendCall ==
  /\ pc = "call_ready"
  /\ irq
  /\ cs' = FALSE
  /\ IF call = "send"
     THEN /\ pc' = "idle"
          /\ buffers' = buffers + 1
          /\ UNCHANGED <<waiter, todo, todo_id>>
     ELSE /\ pc' = "poll"
          /\ waiter' = "event"
          /\ todo' = call
          /\ todo_id' = calls
          /\ UNCHANGED buffers
  /\ UNCHANGED <<call, calls, hdr, result, wlan, irq, out, link, unsolicited>>

(* Variant: send_patch forgets end().                                      *)
SendPatchNoEnd ==
  /\ pc = "patch_ready"
  /\ irq
  /\ pc' = "poll"
  /\ UNCHANGED <<call, calls, waiter, hdr, result, wlan, cs, irq, chip>>

(* send_patch(opcode, nullptr, 0): one frame without patch data.           *)
SendPatch ==
  /\ pc = "patch_ready"
  /\ irq
  /\ cs' = FALSE
  /\ pc' = "poll"
  /\ UNCHANGED <<call, calls, waiter, hdr, result, wlan, irq, chip>>

(* Variant: handle_unsolicited_events uses wait_for_next_event().          *)
PollEmptyBlocks ==
  /\ pc = "poll"
  /\ waiter = "poll"
  /\ ~irq
  /\ UNCHANGED vars

(* get_next_event() finds IRQ low.  handle_unsolicited_events returns; the *)
(* other two poll again.                                                   *)
PollEmpty ==
  /\ pc = "poll"
  /\ waiter = "poll"
  /\ ~irq
  /\ pc' = "idle"
  /\ waiter' = "none"
  /\ UNCHANGED <<call, calls, hdr, result, wlan, cs, irq, chip>>

(* start_read() and read_header().  A chip without a frame announces none. *)
ReadHeader ==
  /\ pc = "read_ready"
  /\ irq
  /\ pc' = "dispatch"
  /\ IF out = <<>>
     THEN hdr' = Short /\ out' = out
     ELSE hdr' = Head(out) /\ out' = Tail(out)
  /\ UNCHANGED <<call, calls, waiter, result, wlan, cs, irq,
                 todo, todo_id, link, buffers, unsolicited>>
-----------------------------------------------------------------------------
(* What is done with the response, by its kind.  The response is a local   *)
(* of the function that polls and is dead once it was handled.             *)
Dispatch(kinds) ==
  /\ pc = "dispatch"
  /\ hdr.kind \in kinds
  /\ hdr' = Short
  /\ UNCHANGED <<call, calls, irq, chip>>

(* A header that is too short: end(), and poll on.                         *)
BadHeader ==
  /\ Dispatch({"short"})
  /\ cs' = FALSE
  /\ pc' = "poll"
  /\ UNCHANGED <<waiter, result, wlan>>

(* Variant: the FREE_BUFFER case forgets end().                            *)
FreeBufferNoEnd ==
  /\ Dispatch({"free_buffer"})
  /\ pc' = "poll"
  /\ UNCHANGED <<waiter, result, wlan, cs>>

FreeBuffer ==
  /\ Dispatch({"free_buffer"})
  /\ cs' = FALSE
  /\ pc' = "poll"
  /\ UNCHANGED <<waiter, result, wlan>>

(* The opcode is read before end(); handle_patches_request answers the     *)
(* opcodes it knows from inside the poll.                                  *)
PatchesRequest ==
  /\ Dispatch({"patches_request"})
  /\ cs' = FALSE
  /\ pc' = IF hdr.n \in 1 .. 3 THEN "patch" ELSE "poll"
  /\ UNCHANGED <<waiter, result, wlan>>

(* Variant: DISCONNECT leaves the dhcp flag as it was.                     *)
WlanAfterKeepsDhcp(kind) ==
  [initialized |-> TRUE,
   connected |-> kind \in {"connect", "dhcp"},
   dhcp |-> kind = "dhcp" \/ (kind = "disconnect" /\ wlan.dhcp)]

(* CC3000WLAN::handle_unsolicited_event.                                   *)
WlanAfter(kind) ==
  [initialized |-> TRUE,
   connected |-> kind \in {"connect", "dhcp"},
   dhcp |-> kind = "dhcp"]

(* Variant: link events are only handled while no data is waited for.      *)
LinkEventNotForData ==
  /\ Dispatch(LinkEvents)
  /\ cs' = FALSE
  /\ wlan' = IF waiter = "data" THEN wlan ELSE WlanAfter(hdr.kind)
  /\ pc' = "poll"
  /\ UNCHANGED <<waiter, result>>

LinkEvent ==
  /\ Dispatch(LinkEvents)
  /\ cs' = FALSE
  /\ wlan' = WlanAfter(hdr.kind)
  /\ pc' = "poll"
  /\ UNCHANGED <<waiter, result>>

(* handle_unsolicited_event() has no case for these: get_next_event()      *)
(* returns them to its caller.                                             *)
Returned == {"reply", "data"} \cup Strays

PollDone ==
  /\ Dispatch(Returned)
  /\ waiter = "poll"
  /\ cs' = FALSE
  /\ pc' = "idle"
  /\ waiter' = "none"
  /\ UNCHANGED <<result, wlan>>

(* wait_for: the match, and anything else.                                 *)
Matches(f) == f.kind = "reply" /\ f.about = call

(* Variant: wait_for forgets end(), as wait_for_data does.                 *)
SkipEventNoEnd ==
  /\ Dispatch(Returned)
  /\ waiter = "event"
  /\ ~Matches(hdr)
  /\ pc' = "poll"
  /\ UNCHANGED <<waiter, result, wlan, cs>>

SkipEvent ==
  /\ Dispatch(Returned)
  /\ waiter = "event"
  /\ ~Matches(hdr)
  /\ cs' = FALSE
  /\ pc' = "poll"
  /\ UNCHANGED <<waiter, result, wlan>>

(* Variant: recv does not wait for the data.                               *)
DataExpectedNever == FALSE

(* The caller expects a data frame: nvram_read after an OK status, recv    *)
(* after an OK status with number_of_bytes > 0, an unsigned comparison.    *)
DataExpected ==
  /\ hdr.ok
  /\ call = "nvram_read" \/ (call = "recv" /\ hdr.n # 0)

(* select reads its result whatever the status (an unsigned status >= 0).  *)
Return(f) ==
  /\ pc' = "idle"
  /\ waiter' = "none"
  /\ result' = [id |-> f.id,
                value |-> IF f.ok \/ call = "select" THEN f.n ELSE ErrorHCI]

(* wait_for returned and the call reads its result, end()s and returns.    *)
(* read_buffer_size does not end().                                        *)
TakeReply ==
  /\ Dispatch({"reply"})
  /\ waiter = "event"
  /\ Matches(hdr)
  /\ ~DataExpected
  /\ Return(hdr)
  /\ cs' = IF call = "read_buffer_size" THEN cs ELSE FALSE
  /\ UNCHANGED wlan

(* recv and nvram_read end() the event and wait for the data.              *)
AwaitData ==
  /\ Dispatch({"reply"})
  /\ waiter = "event"
  /\ Matches(hdr)
  /\ DataExpected
  /\ cs' = FALSE
  /\ waiter' = "data"
  /\ result' = [id |-> hdr.id, value |-> hdr.n]
  /\ pc' = "poll"
  /\ UNCHANGED wlan

(* Variant: wait_for_data takes whatever response comes first.             *)
TakeAnything ==
  /\ Dispatch(Returned)
  /\ waiter = "data"
  /\ cs' = FALSE
  /\ pc' = "idle"
  /\ waiter' = "none"
  /\ UNCHANGED <<result, wlan>>

(* wait_for_data: the data frame is read and the call returns.             *)
TakeData ==
  /\ Dispatch({"data"})
  /\ waiter = "data"
  /\ cs' = FALSE
  /\ pc' = "idle"
  /\ waiter' = "none"
  /\ UNCHANGED <<result, wlan>>

(* wait_for_data: any other response is passed over, without end().        *)
SkipForData ==
  /\ Dispatch(Returned \ {"data"})
  /\ waiter = "data"
  /\ pc' = "poll"
  /\ UNCHANGED <<waiter, result, wlan, cs>>
-----------------------------------------------------------------------------
(* The chip (external).  IRQ goes up for a queued frame, for a selected    *)
(* host, and after power-up; it goes down some time after the last frame.  *)
IrqAssert ==
  /\ ~irq
  /\ out # <<>> \/ cs \/ todo = "boot"
  /\ irq' = TRUE
  /\ UNCHANGED <<host, cs, chip>>

IrqDeassert ==
  /\ irq
  /\ out = <<>> /\ ~cs /\ todo # "boot"
  /\ irq' = FALSE
  /\ UNCHANGED <<host, cs, chip>>

Queue(f) == out' = Append(out, f)

ChipAnswer(ok, n) ==
  /\ todo \in RepliedCalls
  /\ n \in IF todo = "recv" THEN ReceiveCounts ELSE {0, -1}
  /\ Queue(Frame("reply", todo, todo_id, n, ok))
  /\ todo' = IF ok /\ (todo = "nvram_read" \/ (todo = "recv" /\ n > 0))
             THEN "data" ELSE "nothing"
  /\ UNCHANGED <<host, cs, irq, todo_id, link, buffers, unsolicited>>

ChipData ==
  /\ todo = "data"
  /\ Queue(Frame("data", "none", todo_id, 0, TRUE))
  /\ todo' = "nothing"
  /\ UNCHANGED <<host, cs, irq, todo_id, link, buffers, unsolicited>>

ChipFreesBuffer ==
  /\ buffers > 0
  /\ buffers' = buffers - 1
  /\ Queue(Event("free_buffer", 0))
  /\ UNCHANGED <<host, cs, irq, todo, todo_id, link, unsolicited>>

(* Unsolicited events, once SIMPLE_LINK_START was sent.                    *)
Unsolicited(f) ==
  /\ todo # "boot"
  /\ unsolicited < MaxUnsolicited
  /\ unsolicited' = unsolicited + 1
  /\ Queue(f)
  /\ UNCHANGED <<host, cs, irq, todo, todo_id, buffers>>

LinkAfter(kind) ==
  CASE kind = "connect" -> "associated"
    [] kind = "dhcp" -> "bound"
    [] kind = "disconnect" -> "down"

ChipLink(kind) ==
  /\ <<link, kind>> \in 
       {<<"down", "connect">>, <<"associated", "dhcp">>, <<"bound", "dhcp">>,
        <<"associated", "disconnect">>, <<"bound", "disconnect">>}
  /\ link' = LinkAfter(kind)
  /\ Unsolicited(Event(kind, 0))

ChipAsksForPatches(opcode) ==
  /\ Unsolicited(Event("patches_request", opcode))
  /\ UNCHANGED link

ChipStray(kind) ==
  /\ Unsolicited(Event(kind, 0))
  /\ UNCHANGED link
-----------------------------------------------------------------------------
HostStep ==
  \/ Boot
  \/ StartCall
  \/ StartPatch
  \/ StartRead
  \/ SendCall
  \/ SendPatch
  \/ PollEmpty
  \/ ReadHeader
  \/ BadHeader
  \/ FreeBuffer
  \/ PatchesRequest
  \/ LinkEvent
  \/ PollDone
  \/ SkipEvent
  \/ TakeReply
  \/ AwaitData
  \/ TakeData
  \/ SkipForData

Answer ==
  \E ok \in BOOLEAN, n \in ReceiveCounts \cup {0, -1} : ChipAnswer(ok, n)

ChipStep ==
  \/ IrqAssert
  \/ IrqDeassert
  \/ Answer
  \/ ChipData
  \/ ChipFreesBuffer
  \/ \E kind \in LinkEvents : ChipLink(kind)
  \/ \E opcode \in PatchOpcodes : ChipAsksForPatches(opcode)
  \/ \E kind \in Strays : ChipStray(kind)

Next ==
  \/ PowerCycle
  \/ \E c \in Calls : Invoke(c)
  \/ Poll
  \/ HostStep
  \/ ChipStep

(* The thread runs; the chip raises IRQ for what it has, answers commands, *)
(* delivers the data it announced, and lets IRQ go in the end although the *)
(* host keeps reading while it is up.                                      *)
Fairness ==
  /\ WF_vars(HostStep)
  /\ WF_vars(IrqAssert)
  /\ WF_vars(Answer)
  /\ WF_vars(ChipData)
  /\ SF_vars(IrqDeassert)

Spec == Init /\ [][Next]_vars /\ Fairness
-----------------------------------------------------------------------------
Frames ==
  [kind : Returned \cup KnownEvents \cup {"short"},
   about : RepliedCalls \cup {"none"},
   id : Nat, n : Int, ok : BOOLEAN]

TypeOK ==
  /\ pc \in {"boot", "idle", "call", "call_ready", "patch", "patch_ready",
             "poll", "read_ready", "dispatch", "hung"}
  /\ call \in AllCalls
  /\ calls \in Nat
  /\ waiter \in {"none", "poll", "event", "data"}
  /\ hdr \in Frames
  /\ result \in [id : Nat, value : Int]
  /\ wlan \in [initialized : BOOLEAN, connected : BOOLEAN, dhcp : BOOLEAN]
  /\ cs \in BOOLEAN
  /\ irq \in BOOLEAN
  /\ out \in Seq(Frames)
  /\ todo \in {"boot", "nothing", "data"} \cup RepliedCalls
  /\ todo_id \in Nat
  /\ link \in {"down", "associated", "bound"}
  /\ buffers \in Nat
  /\ unsolicited \in Nat

(* The places of the thread inside a transaction.                          *)
Transacting == {"call_ready", "patch_ready", "read_ready", "dispatch"}

Closed == pc \notin Transacting => ~cs

(* Every transaction the driver opens it also closes, on every path out of *)
(* the poll, nested patch frames included: chip-select is asserted exactly *)
(* inside a transaction, and start_transaction() never finds it asserted.  *)
TransactionsClosed == cs <=> pc \in Transacting

(* start_transaction() never reaches the while(true) its comment wants to  *)
(* be an assertion ("dangling transaction", cc3000_spi.cpp).               *)
NoDanglingTransaction == pc # "hung"

(* Whatever the chip sends, a transaction is left open only by             *)
(* wait_for_data passing over a response and by read_buffer_size.          *)
LeaksOnlyThere ==
  [][Closed /\ ~Closed' => \/ waiter = "data" /\ waiter' = "data"
                           \/ call = "read_buffer_size" /\ pc' = "idle"]_vars

(* When a call that waits has returned, its result is that of its own      *)
(* command, and nothing of it is left over for a later call to take: no    *)
(* reply and no data frame is queued or still owed by the chip.            *)
Solicited(f) == f.kind \in {"reply", "data"}

RepliesArePaired ==
  pc = "idle" =>
    /\ call # "send" => result.id = calls
    /\ \A i \in DOMAIN out : ~Solicited(out[i])
    /\ todo \in {"nothing"}

(* The frame in the thread's hands and those still queued.                 *)
Pending == (IF pc = "dispatch" THEN <<hdr>> ELSE <<>>) \o out

LastLinkEvent(frames, i) ==
  /\ frames[i].kind \in LinkEvents
  /\ \A j \in 1 .. Len(frames) : j > i => frames[j].kind \notin LinkEvents

(* The flags lag behind the chip's link by the pending events and no more: *)
(* the last link event pending tells the chip's link, and when none is     *)
(* pending the flags tell it.  No event is lost, doubled or reordered by   *)
(* any of the functions that poll.                                         *)
FlagsFollowLink ==
  /\ \A i \in 1 .. Len(Pending) :
       LastLinkEvent(Pending, i) => link = LinkAfter(Pending[i].kind)
  /\ (\A i \in 1 .. Len(Pending) : Pending[i].kind \notin LinkEvents)
       => /\ wlan.connected <=> link # "down"
          /\ wlan.dhcp <=> link = "bound"

(* A call returns, whatever unsolicited events arrive while it waits.      *)
CallReturns == pc \in {"boot", "call"} ~> pc = "idle"

(* check_for_unsolicited_events() returns.                                 *)
PollReturns == (waiter = "poll") ~> (pc = "idle")

(* A recv whose event reports an error returns that error to its caller    *)
(* (http.cpp tests the result for <= 0).                                   *)
ReceiveErrorReturns ==
  (pc = "dispatch" /\ waiter = "event" /\ Matches(hdr)
     /\ call = "recv" /\ hdr.n < 0) ~> pc = "idle"
-----------------------------------------------------------------------------
(* The HCI layer implements the driver's promise (module WifiDriver):      *)
(* every step of the thread and of the chip is a step of the promise or    *)
(* none.  The pending link events are its news, the WLAN flags what the    *)
(* program has seen, and the result is the program's after the call.     *)
Phase ==
  CASE pc = "idle" -> "idle"
    [] pc # "idle" /\ waiter = "poll" -> "polling"
    [] pc # "idle" /\ waiter # "poll" /\ call = "send" -> "sending"
    [] OTHER -> "calling"

Answered ==
  IF call # "send" /\ Phase \in {"idle", "polling"} THEN result.id ELSE 0

(* What frames tell of the link.                                           *)
Tells(f) == IF f.kind \in LinkEvents THEN <<f.kind>> ELSE <<>>
Told(frames) == FlattenSeq([i \in DOMAIN frames |-> Tells(frames[i])])

News == Told(Pending)

Seen ==
  CASE wlan.dhcp -> "dhcp"
    [] wlan.connected /\ ~wlan.dhcp -> "connect"
    [] OTHER -> "disconnect"

Driver ==
  INSTANCE WifiDriver WITH
    phase <- Phase,
    number <- calls,
    answered <- Answered,
    news <- News,
    seen <- Seen

(* A call returns the result of its own command and of no other, and the   *)
(* program's view of the link moves, one pending event at a time and in    *)
(* order, only while one of the functions that poll runs, whatever the     *)
(* chip sends in between.                                                  *)
KeepsPromise == Driver!Safety

(* So it does, and calls and polls return, when the chip sends no event    *)
(* that the host has no case for and no receive error.                     *)
KeepsPromiseAndReturns == Driver!Spec
=============================================================================
