------------------------------ MODULE Monulator ------------------------------
(***************************************************************************)
(* The program (main.cpp) and its HTTP client (http.cpp), above the driver *)
(* of the Wi-Fi chip.                                                      *)
(*                                                                         *)
(* main() starts the chip, joins a network, waits for an address, fetches  *)
(* one document, and then shows on an LED for ever whether the chip is     *)
(* connected.  All of it is one thread of blocking calls.  The events of   *)
(* the chip's link come in while a call waits, or while the program polls, *)
(* and set the flags that main() reads.                                    *)
(*                                                                         *)
(* Module CC3000HCI models how a call waits.  Here a call is three steps:  *)
(* it is issued, the chip (external) answers it, the thread takes the      *)
(* answer.  The chip's frames reach the host in the order they were queued *)
(* in, so that events queued before an answer are handled before it.       *)
(*                                                                         *)
(* pc names the call the thread is in, or the place between two calls.     *)
(*                                                                         *)
(* Definitions whose comment starts with "Variant" are faulty forms of the *)
(* definition that follows them; they are not part of the specification    *)
(* and show that the properties below can tell the difference.             *)
(***************************************************************************)
EXTENDS Integers, Sequences

CONSTANTS
  Sockets,     \* the chip's socket numbers
  MaxChunks,   \* bound on the chunks of the server's response
  MaxLink      \* bound on the changes of the chip's link

ASSUME ChipAssumption ==
  /\ Sockets \subseteq Nat
  /\ MaxChunks \in Nat
  /\ MaxLink \in Nat

VARIABLES
  pc,
  waiting,    \* the call at pc was issued
  connected,  \* CC3000WLAN's flags
  dhcp,
  led,
  socket,     \* http_connection_t's socket
  state,      \* http_connection_t's state, set by the parser's callbacks
  opened,     \* what open() returned
  out,        \* frames the chip holds for the host
  todo,       \* the call the chip still has to answer, or "nothing"
  link,       \* the chip's link: "down", "associated" or "bound"
  sockets,    \* the chip's open sockets
  stuck,      \* those of them whose close_socket failed
  chunks,     \* chunks of the response delivered so far
  changes     \* changes of the link so far

flags == <<connected, dhcp>>
connection == <<socket, state, opened>>
program == <<pc, waiting, flags, led, connection>>
network == <<link, changes>>
chip == <<out, todo, network, sockets, stuck, chunks>>
vars == <<program, chip>>

Invalid == -1   \* INVALID_SOCKET, WLAN_ERROR_HCI
ErrorHCI == -2  \* SOCKET_ERROR_HCI: any other negative number

(* init_cc3000() and the first call of main(): results are ignored.        *)
After ==
  [simple_link_start |-> "smartconfig_set_prefix",
   smartconfig_set_prefix |-> "ioctl_set_connection_policy",
   ioctl_set_connection_policy |-> "ioctl_del_profile",
   ioctl_del_profile |-> "set_event_mask",
   set_event_mask |-> "wlan_connect",
   wlan_connect |-> "test_dhcp"]

StartCalls == DOMAIN After
OpenCalls == {"socket", "gethostbyname", "socket_connect", "recv", "close"}
CallSites == StartCalls \cup OpenCalls \cup {"main_close"}

(* Where the thread runs get_next_event(): in a call, and in the two loops *)
(* that call check_for_unsolicited_events().                               *)
Polling == waiting \/ pc \in {"wait_dhcp", "check"}

LinkEvents == {"connect", "dhcp", "disconnect"}

(* The states in the order a response reaches them; header fields and      *)
(* values alternate.                                                       *)
Order ==
  [none |-> 0, message_begin |-> 1, status_complete |-> 2, header_field |-> 3,
   header_value |-> 3, headers_complete |-> 4, message_complete |-> 5]
States == DOMAIN Order
-----------------------------------------------------------------------------
Init ==
  /\ pc = "simple_link_start"
  /\ waiting = FALSE
  /\ connected = FALSE
  /\ dhcp = FALSE
  /\ led = FALSE
  /\ socket = Invalid
  /\ state = "none"
  /\ opened = FALSE
  /\ out = <<>>
  /\ todo = "nothing"
  /\ link = "down"
  /\ sockets = {}
  /\ stuck = {}
  /\ chunks = 0
  /\ changes = 0

(* A call writes its command and starts to wait.                           *)
Issue ==
  /\ pc \in CallSites
  /\ ~waiting
  /\ waiting' = TRUE
  /\ todo' = pc
  /\ UNCHANGED <<pc, flags, led, connection, out, network, sockets, stuck,
                 chunks>>

(* Variant: events that come in during a call are passed over.             *)
HandleEventPolled ==
  /\ Polling
  /\ out # <<>>
  /\ Head(out).kind \in LinkEvents
  /\ out' = Tail(out)
  /\ connected' = IF waiting THEN connected ELSE Head(out).kind # "disconnect"
  /\ dhcp' = IF waiting THEN dhcp ELSE Head(out).kind = "dhcp"
  /\ UNCHANGED <<pc, waiting, led, connection, todo, network, sockets, stuck,
                 chunks>>

(* get_next_event() handles an event of the link.                          *)
HandleEvent ==
  /\ Polling
  /\ out # <<>>
  /\ Head(out).kind \in LinkEvents
  /\ out' = Tail(out)
  /\ connected' = (Head(out).kind # "disconnect")
  /\ dhcp' = (Head(out).kind = "dhcp")
  /\ UNCHANGED <<pc, waiting, led, connection, todo, network, sockets, stuck,
                 chunks>>

(* The call at site returns n to its caller.                               *)
Returns(site, n) ==
  /\ pc = site
  /\ waiting
  /\ out # <<>>
  /\ Head(out) = [kind |-> "reply", n |-> n]
  /\ out' = Tail(out)
  /\ waiting' = FALSE
  /\ UNCHANGED <<flags, led, todo, network, sockets, stuck, chunks>>

Started ==
  /\ pc \in StartCalls
  /\ \E n \in {0, Invalid} : Returns(pc, n)
  /\ pc' = After[pc]
  /\ UNCHANGED connection

(* check_for_unsolicited_events() finds nothing more and returns.  More    *)
(* may come before the caller reads the flags.                             *)
PollEnds ==
  /\ pc \in {"wait_dhcp", "check"}
  /\ out = <<>>
  /\ pc' = IF pc = "check" THEN "show" ELSE "test_dhcp"
  /\ UNCHANGED <<waiting, flags, led, connection, chip>>

(* while( !is_dhcp() ); after it main() turns the LED on.                  *)
TestAddress ==
  /\ pc = "test_dhcp"
  /\ pc' = IF dhcp THEN "socket" ELSE "wait_dhcp"
  /\ led' = (led \/ dhcp)
  /\ UNCHANGED <<waiting, flags, connection, chip>>

(* open(): each step gives up on a negative result, after the first one    *)
(* by way of close().                                                      *)
Opened(n) ==
  /\ Returns("socket", n)
  /\ socket' = n
  /\ pc' = IF n < 0 THEN "main_close" ELSE "gethostbyname"
  /\ UNCHANGED <<state, opened>>

(* Variant: open() gives up without close().                               *)
ResolvedNoClose(n) ==
  /\ Returns("gethostbyname", n)
  /\ pc' = IF n < 0 THEN "main_close" ELSE "socket_connect"
  /\ UNCHANGED connection

Resolved(n) ==
  /\ Returns("gethostbyname", n)
  /\ pc' = IF n < 0 THEN "close" ELSE "socket_connect"
  /\ UNCHANGED connection

Connected(n) ==
  /\ Returns("socket_connect", n)
  /\ pc' = IF n < 0 THEN "close" ELSE "send"
  /\ UNCHANGED connection

(* write_request_header(): five sends, none of which waits for an answer.  *)
SendRequest ==
  /\ pc = "send"
  /\ pc' = "recv"
  /\ state' = "none"
  /\ UNCHANGED <<waiting, flags, led, socket, opened, chip>>

(* Variant: the end of the connection is not tested for.                   *)
ReceivedNoEnd(n) ==
  /\ Returns("recv", n)
  /\ pc' = IF n < 0 THEN "close" ELSE "parse"
  /\ UNCHANGED connection

(* Variant: the result is kept in the socket's variable.                   *)
ReceivedIntoSocket(n) ==
  /\ Returns("recv", n)
  /\ socket' = n
  /\ pc' = IF n <= 0 THEN "close" ELSE "parse"
  /\ UNCHANGED <<state, opened>>

Received(n) ==
  /\ Returns("recv", n)
  /\ pc' = IF n <= 0 THEN "close" ELSE "parse"
  /\ UNCHANGED connection

(* http_parser_execute() (external) calls back for as much of the response *)
(* as the chunk holds, nothing after a parse error; the last callback sets *)
(* the state.                                                              *)
Parse(last) ==
  /\ pc = "parse"
  /\ Order[last] >= Order[state]
  /\ state' = last
  /\ opened' = (last = "message_complete")
  /\ pc' = IF last = "message_complete" THEN "close" ELSE "recv"
  /\ UNCHANGED <<waiting, flags, led, socket, chip>>

(* Variant: close() keeps the socket's number.                             *)
ClosedKeepsSocket(n) ==
  /\ Returns("close", n)
  /\ pc' = "main_close"
  /\ UNCHANGED connection

(* http_connection_t::close(), called by open(): the result is ignored.    *)
Closed(n) ==
  /\ Returns("close", n)
  /\ socket' = Invalid
  /\ pc' = "main_close"
  /\ UNCHANGED <<state, opened>>

(* main() closes the connection again, whether open() did or not.          *)
ClosedAgain(n) ==
  /\ Returns("main_close", n)
  /\ socket' = Invalid
  /\ pc' = "check"
  /\ UNCHANGED <<state, opened>>

(* Variant: the LED is only ever turned on.                                *)
ShowConnectedOnly ==
  /\ pc = "show"
  /\ pc' = "check"
  /\ led' = (led \/ connected)
  /\ UNCHANGED <<waiting, flags, connection, chip>>

(* main()'s last loop sets the LED after each poll.                        *)
ShowConnected ==
  /\ pc = "show"
  /\ pc' = "check"
  /\ led' = connected
  /\ UNCHANGED <<waiting, flags, connection, chip>>
-----------------------------------------------------------------------------
(* The chip (external).                                                    *)
Reply(n) ==
  /\ out' = Append(out, [kind |-> "reply", n |-> n])
  /\ todo' = "nothing"

AnswerSocket ==
  /\ todo = "socket"
  /\ \/ \E s \in Sockets \ sockets :
          /\ sockets' = sockets \cup {s}
          /\ Reply(s)
     \/ \E n \in {Invalid, ErrorHCI} :
          /\ Reply(n)
          /\ UNCHANGED sockets
  /\ UNCHANGED <<program, network, stuck, chunks>>

(* A close fails for a number that is no open socket, and may fail for one *)
(* that is.                                                                *)
AnswerClose ==
  /\ todo \in {"close", "main_close"}
  /\ \/ /\ socket \in sockets
        /\ sockets' = sockets \ {socket}
        /\ Reply(0)
        /\ UNCHANGED stuck
     \/ \E n \in {Invalid, ErrorHCI} :
          /\ stuck' = stuck \cup (sockets \cap {socket})
          /\ Reply(n)
          /\ UNCHANGED sockets
  /\ UNCHANGED <<program, network, chunks>>

(* A chunk of the response, the end of the connection, or a failed event.  *)
(* (A negative count in an event that did not fail leaves recv waiting:    *)
(* ReceiveErrorReturns in CC3000HCI.)                                      *)
AnswerReceive ==
  /\ todo = "recv"
  /\ \/ /\ chunks < MaxChunks
        /\ chunks' = chunks + 1
        /\ Reply(1)
     \/ \E n \in {0, ErrorHCI} :
          /\ Reply(n)
          /\ UNCHANGED chunks
  /\ UNCHANGED <<program, network, sockets, stuck>>

AnswerOther ==
  /\ todo \in CallSites \ {"socket", "close", "main_close", "recv"}
  /\ \E n \in {0, Invalid} : Reply(n)
  /\ UNCHANGED <<program, network, sockets, stuck, chunks>>

Change(kind, from, to) ==
  /\ changes < MaxLink
  /\ changes' = changes + 1
  /\ link \in from
  /\ link' = to
  /\ out' = Append(out, [kind |-> kind, n |-> 0])
  /\ UNCHANGED <<program, todo, sockets, stuck, chunks>>

(* The chip joins the network it was told to; it may get its address anew. *)
LinkChanges ==
  \/ /\ pc \notin StartCalls \ {"wlan_connect"}
     /\ pc = "wlan_connect" => waiting
     /\ Change("connect", {"down"}, "associated")
  \/ Change("dhcp", {"associated", "bound"}, "bound")
  \/ Change("disconnect", {"associated", "bound"}, "down")

Answer == AnswerSocket \/ AnswerClose \/ AnswerReceive \/ AnswerOther

Thread ==
  \/ Issue
  \/ HandleEvent
  \/ Started
  \/ PollEnds
  \/ TestAddress
  \/ \E n \in Sockets \cup {Invalid, ErrorHCI} : Opened(n)
  \/ \E n \in {0, Invalid} : Resolved(n)
  \/ \E n \in {0, Invalid} : Connected(n)
  \/ SendRequest
  \/ \E n \in {0, 1, ErrorHCI} : Received(n)
  \/ \E last \in States : Parse(last)
  \/ \E n \in {0, Invalid, ErrorHCI} : Closed(n)
  \/ \E n \in {0, Invalid, ErrorHCI} : ClosedAgain(n)
  \/ ShowConnected

Next == Thread \/ Answer \/ LinkChanges

(* The thread runs and the chip answers.                                   *)
Fairness == WF_vars(Thread) /\ WF_vars(Answer)

Spec == Init /\ [][Next]_vars /\ Fairness
-----------------------------------------------------------------------------
TypeOK ==
  /\ pc \in CallSites \cup {"test_dhcp", "wait_dhcp", "send", "parse", "check",
                        "show"}
  /\ waiting \in BOOLEAN
  /\ connected \in BOOLEAN
  /\ dhcp \in BOOLEAN
  /\ led \in BOOLEAN
  /\ socket \in Sockets \cup {Invalid, ErrorHCI}
  /\ state \in States
  /\ opened \in BOOLEAN
  /\ out \in Seq([kind : LinkEvents \cup {"reply"},
                  n : Sockets \cup {0, 1, Invalid, ErrorHCI}])
  /\ todo \in CallSites \cup {"nothing"}
  /\ link \in {"down", "associated", "bound"}
  /\ sockets \subseteq Sockets
  /\ stuck \subseteq Sockets
  /\ chunks \in Nat
  /\ changes \in Nat

(* However open() ends, the chip holds no socket of it afterwards, unless  *)
(* the chip itself failed to close it.                                     *)
NothingLeaked ==
  pc \in {"main_close", "check", "show"} => sockets \subseteq stuck

(* open() closes the socket it opened, while it is open; the second close, *)
(* main()'s, never names a socket, so it cannot close one the chip has     *)
(* meanwhile given to somebody else.                                       *)
ClosedOnce ==
  /\ todo = "close" => socket \in sockets
  /\ todo = "main_close" => socket < 0

(* A fetch ends: once the program has an address, it comes to show the     *)
(* connection, whatever the calls return and the link does meanwhile.      *)
FetchEnds == pc = "socket" ~> pc = "check"

(* The program gets an address, and so to its fetch, if the link stays up. *)
FetchStarts == <>[](link = "bound") => <>(pc = "check")

(* The LED ends up telling the link, whenever the link settles: off when   *)
(* it is down, on when it is up and the program has come to its last loop. *)
LedSettles ==
  /\ <>[](link = "down") => <>[](~led)
  /\ <>[](link # "down" /\ pc \in {"check", "show"}) => <>[]led
=============================================================================
