--------------------------- MODULE Monulator_proofs ---------------------------
(***************************************************************************)
(* Sockets of the program, for every number of sockets and chunks and any  *)
(* behaviour of the link.                                                  *)
(*                                                                         *)
(* That open() leaks nothing and closes once is about what the chip holds, *)
(* which open() only learns from replies.  The invariant tells, for each   *)
(* place of the thread, which sockets are open: none before the reply to   *)
(* socket(), from there the one the reply names, and none that could be    *)
(* closed once close() is answered.                                        *)
(***************************************************************************)
EXTENDS Monulator, TLAPS

LinesOK ==
  /\ waiting \in BOOLEAN
  /\ connected \in BOOLEAN
  /\ dhcp \in BOOLEAN
  /\ led \in BOOLEAN
  /\ opened \in BOOLEAN

Messages ==
  [kind : LinkEvents \cup {"reply"}, n : Sockets \cup {0, 1, Invalid, ErrorHCI}]

StateOK ==
  /\ pc \in CallSites \cup {"test_dhcp", "wait_dhcp", "send", "parse", "check",
                        "show"}
  /\ socket \in Sockets \cup {Invalid, ErrorHCI}
  /\ state \in States
  /\ out \in Seq(Messages)
  /\ todo \in CallSites \cup {"nothing"}
  /\ link \in {"down", "associated", "bound"}
  /\ sockets \subseteq Sockets
  /\ stuck \subseteq Sockets
  /\ chunks \in Nat
  /\ changes \in Nat

(* A call is answered once.                                                *)
Replied == \E i \in 1 .. Len(out) : out[i].kind = "reply"

OneReply ==
  \A i, j \in 1 .. Len(out) :
    out[i].kind = "reply" /\ out[j].kind = "reply" => i = j

Asked ==
  /\ waiting => pc \in CallSites
  /\ todo # "nothing" => waiting /\ todo = pc /\ ~Replied
  /\ Replied => waiting
  /\ OneReply

(* The sockets open at each place.                                         *)
Before == {"test_dhcp", "wait_dhcp"} \cup StartCalls
Within == {"gethostbyname", "socket_connect", "send", "recv", "parse"}
Past == {"main_close", "check", "show"}

Unopened == pc \in Before => sockets = {}

Opening ==
  pc = "socket" =>
    /\ stuck = {}
    /\ ~Replied => sockets = {}
    /\ \A i \in 1 .. Len(out) : out[i].kind = "reply" =>
         sockets = {out[i].n} \cap Sockets

Open == pc \in Within => socket \in Sockets /\ sockets = {socket}

Closing ==
  pc = "close" =>
    /\ todo = "close" \/ ~waiting => socket \in Sockets /\ sockets = {socket}
    /\ waiting /\ todo = "nothing" => sockets \subseteq stuck

Shut == pc \in Past => sockets \subseteq stuck /\ socket < 0

Unstuck == pc \in Before \cup Within => stuck = {}

SInv ==
  /\ Asked /\ Unopened /\ Opening /\ Open /\ Closing /\ Shut /\ Unstuck
-----------------------------------------------------------------------------
(* The calls, as the names they are.                                       *)
LEMMA Starts ==
  /\ StartCalls = {"simple_link_start", "smartconfig_set_prefix",
                   "ioctl_set_connection_policy", "ioctl_del_profile",
                   "set_event_mask", "wlan_connect"}
  /\ \A p \in StartCalls : After[p] \in StartCalls \cup {"test_dhcp"}
  BY DEF StartCalls, After

LEMMA StateNames ==
  States = {"none", "message_begin", "status_complete", "header_field",
            "header_value", "headers_complete", "message_complete"}
  BY DEF States, Order

LEMMA Numbers ==
  /\ Invalid \in Int /\ Invalid < 0 /\ ErrorHCI \in Int /\ ErrorHCI < 0
  /\ Sockets \subseteq Nat /\ Invalid \notin Sockets /\ ErrorHCI \notin Sockets
  BY ChipAssumption DEF Invalid, ErrorHCI

LEMMA Appended ==
  ASSUME out \in Seq(Messages), NEW f \in Messages, out' = Append(out, f)
  PROVE  /\ out' \in Seq(Messages)
         /\ Len(out) \in Nat
         /\ \A i \in 1 .. Len(out) : out'[i] = out[i] /\ i \in 1 .. Len(out')
         /\ out'[Len(out) + 1] = f
         /\ Len(out) + 1 \in 1 .. Len(out')
         /\ \A i \in 1 .. Len(out') : i \in 1 .. Len(out) \/ i = Len(out) + 1
<1>1. /\ Len(out') = Len(out) + 1
      /\ Len(out) \in Nat
      /\ out' \in Seq(Messages)
      /\ \A i \in 1 .. Len(out) : out'[i] = out[i]
      /\ out'[Len(out) + 1] = f
  OBVIOUS
<1> QED
  BY <1>1

LEMMA Taken ==
  ASSUME out \in Seq(Messages), out # <<>>, out' = Tail(out)
  PROVE  /\ Head(out) = out[1]
         /\ out[1] \in Messages
         /\ out' \in Seq(Messages)
         /\ 1 \in 1 .. Len(out)
         /\ \A i \in 1 .. Len(out') : i + 1 \in 1 .. Len(out) /\ i + 1 # 1
                                      /\ out'[i] = out[i + 1]
         /\ \A i \in 1 .. Len(out) :
              i # 1 => i - 1 \in 1 .. Len(out') /\ out'[i - 1] = out[i]
<1>1. /\ Head(out) = out[1]
      /\ Len(out) \in Nat /\ Len(out) # 0
      /\ out' \in Seq(Messages)
      /\ Len(out') = Len(out) - 1
      /\ \A i \in 1 .. Len(out') : out'[i] = out[i + 1]
  OBVIOUS
<1> QED
  BY <1>1
-----------------------------------------------------------------------------
(* Type correctness.                                                       *)
LEMMA InitTypes == Init => LinesOK /\ StateOK
<1>1. Init => LinesOK
  BY Zenon DEF Init, LinesOK
<1>2. Init => StateOK
  BY Starts, StateNames DEF Init, StateOK, CallSites
<1> QED
  BY <1>1, <1>2

LEMMA StepLinesOK == LinesOK /\ [Next]_vars => LinesOK'
<1> SUFFICES ASSUME LinesOK, [Next]_vars PROVE LinesOK'
  OBVIOUS
<1> USE DEF LinesOK
<1>1. CASE Issue \/ HandleEvent \/ Started \/ PollEnds \/ TestAddress
  BY <1>1, Zenon
     DEF Issue, HandleEvent, Started, Returns, PollEnds, TestAddress, flags,
         connection, chip
<1>2. ASSUME NEW n, \/ Opened(n) \/ Resolved(n) \/ Connected(n)
                    \/ Received(n) \/ Closed(n) \/ ClosedAgain(n)
      PROVE  LinesOK'
  BY <1>2, Zenon
     DEF Opened, Resolved, Connected, Received, Closed, ClosedAgain, Returns,
         flags, connection
<1>3. CASE SendRequest \/ ShowConnected \/ (\E last \in States : Parse(last))
  BY <1>3, Zenon DEF SendRequest, ShowConnected, Parse, flags, connection
<1>4. CASE Answer \/ LinkChanges \/ UNCHANGED vars
  <2>1. UNCHANGED program
    BY <1>4, Zenon
       DEF Answer, AnswerSocket, AnswerClose, AnswerReceive, AnswerOther,
           LinkChanges, Change, vars
  <2> QED
    BY <2>1, Zenon DEF program, flags, connection
<1> QED
  BY <1>1, <1>2, <1>3, <1>4, Zenon DEF Next, Thread

LEMMA StepStateOK == StateOK /\ [Next]_vars => StateOK'
<1> SUFFICES ASSUME StateOK, [Next]_vars PROVE StateOK'
  OBVIOUS
<1> USE DEF StateOK, CallSites, OpenCalls
<1>t. out # <<>> => Tail(out) \in Seq(Messages)
  OBVIOUS
<1>1. CASE Issue
  BY <1>1 DEF Issue, connection, network
<1>2. CASE HandleEvent
  BY <1>2, <1>t DEF HandleEvent, connection, network
<1>3. CASE Started
  BY <1>3, <1>t, Starts DEF Started, Returns, connection, network
<1>4. CASE PollEnds \/ TestAddress \/ ShowConnected
  BY <1>4 DEF PollEnds, TestAddress, ShowConnected, connection, network, chip
<1>5. ASSUME NEW n \in Sockets \cup {Invalid, ErrorHCI}, Opened(n)
      PROVE  StateOK'
  BY <1>5, <1>t DEF Opened, Returns, network
<1>6. ASSUME NEW n, Resolved(n) \/ Connected(n) \/ Received(n)
      PROVE  StateOK'
  BY <1>6, <1>t DEF Resolved, Connected, Received, Returns, connection, network
<1>7. CASE SendRequest \/ (\E last \in States : Parse(last))
  BY <1>7, StateNames DEF SendRequest, Parse, connection, network, chip
<1>8. ASSUME NEW n, Closed(n) \/ ClosedAgain(n) PROVE StateOK'
  BY <1>8, <1>t DEF Closed, ClosedAgain, Returns, network
<1>9. ASSUME NEW n \in Sockets \cup {0, 1, Invalid, ErrorHCI}, Reply(n)
      PROVE  out' \in Seq(Messages) /\ todo' = "nothing"
  BY <1>9 DEF Reply, Messages
<1>10. CASE AnswerSocket
  BY <1>9, <1>10 DEF AnswerSocket, program, connection, network
<1>11. CASE AnswerClose
  BY <1>9, <1>11 DEF AnswerClose, program, connection, network
<1>12. CASE AnswerReceive
  <2>1. chunks' \in Nat /\ out' \in Seq(Messages) /\ todo' = "nothing"
    BY <1>9, <1>12 DEF AnswerReceive
  <2> QED
    BY <1>12, <2>1 DEF AnswerReceive, program, connection, network
<1>13. CASE AnswerOther
  BY <1>9, <1>13 DEF AnswerOther, program, connection, network
<1>14. CASE LinkChanges
  <2>1. PICK kind \in LinkEvents,
             to \in {"down", "associated", "bound"} :
               /\ link' = to /\ changes' = changes + 1
               /\ out' = Append(out, [kind |-> kind, n |-> 0])
               /\ UNCHANGED <<program, todo, sockets, stuck, chunks>>
    BY <1>14 DEF LinkChanges, Change, LinkEvents
  <2>2. [kind |-> kind, n |-> 0] \in Messages
    BY DEF Messages
  <2> QED
    BY <2>1, <2>2 DEF program, connection
<1>15. CASE UNCHANGED vars
  BY <1>15 DEF vars, program, connection, chip, network
<1> QED
  BY <1>1, <1>2, <1>3, <1>4, <1>5, <1>6, <1>7, <1>8, <1>10, <1>11, <1>12,
     <1>13, <1>14, <1>15
     DEF Next, Thread, Answer

(* Every variable keeps its type, whatever the network does.               *)
THEOREM TypeCorrect == Spec => []TypeOK
<1>1. LinesOK /\ StateOK => TypeOK
  BY DEF LinesOK, StateOK, TypeOK, Messages
<1> QED
  BY <1>1, InitTypes, StepLinesOK, StepStateOK, PTL DEF Spec
-----------------------------------------------------------------------------
(* A call is answered once: what the three kinds of step do to the reply.  *)
LEMMA Answered ==
  ASSUME StateOK, Asked, todo # "nothing",
         NEW n \in Sockets \cup {0, 1, Invalid, ErrorHCI}, Reply(n),
         UNCHANGED program
  PROVE  /\ Asked' /\ Replied' /\ todo' = "nothing"
         /\ \A i \in 1 .. Len(out') : out'[i].kind = "reply" => out'[i].n = n
<1> DEFINE f == [kind |-> "reply", n |-> n]
<1>1. f \in Messages /\ f.kind = "reply" /\ f.n = n
  BY DEF Messages
<1>2. out \in Seq(Messages) /\ out' = Append(out, f) /\ todo' = "nothing"
  BY DEF StateOK, Reply
<1>3. waiting /\ ~Replied
  BY DEF Asked
<1> HIDE DEF f
<1>4. Replied'
  BY <1>1, <1>2, Appended DEF Replied
<1>5. ASSUME NEW i \in 1 .. Len(out'), out'[i].kind = "reply"
      PROVE  i = Len(out) + 1 /\ out'[i] = f
  BY <1>1, <1>2, <1>3, <1>5, Appended DEF Replied
<1>6. OneReply'
  BY <1>5 DEF OneReply
<1> QED
  BY <1>1, <1>2, <1>3, <1>4, <1>5, <1>6 DEF Asked, program

LEMMA EventQueued ==
  ASSUME StateOK, Asked, NEW f \in Messages, f.kind # "reply",
         out' = Append(out, f), UNCHANGED <<program, todo>>
  PROVE  /\ Asked' /\ (Replied' <=> Replied)
         /\ \A i \in 1 .. Len(out') : out'[i].kind = "reply" =>
              i \in 1 .. Len(out) /\ out'[i] = out[i]
<1>1. out \in Seq(Messages)
  BY DEF StateOK
<1>2. ASSUME NEW i \in 1 .. Len(out'), out'[i].kind = "reply"
      PROVE  i \in 1 .. Len(out) /\ out'[i] = out[i]
  BY <1>1, <1>2, Appended
<1>3. Replied' <=> Replied
  BY <1>1, <1>2, Appended DEF Replied
<1>4. OneReply'
  BY <1>2 DEF OneReply, Asked
<1> QED
  BY <1>2, <1>3, <1>4 DEF Asked, program

LEMMA FrameTaken ==
  ASSUME StateOK, OneReply, out # <<>>, out' = Tail(out)
  PROVE  /\ OneReply'
         /\ Replied <=> Replied' \/ Head(out).kind = "reply"
         /\ Head(out).kind = "reply" => ~Replied'
         /\ \A i \in 1 .. Len(out') :
              i + 1 \in 1 .. Len(out) /\ out'[i] = out[i + 1]
         /\ Head(out) = out[1] /\ 1 \in 1 .. Len(out)
<1>1. out \in Seq(Messages)
  BY DEF StateOK
<1>2. OneReply'
  <2> SUFFICES ASSUME NEW i \in 1 .. Len(out'), NEW j \in 1 .. Len(out'),
                      out'[i].kind = "reply", out'[j].kind = "reply"
               PROVE  i = j
    BY DEF OneReply
  <2>1. i + 1 = j + 1
    BY <1>1, Taken DEF OneReply
  <2> QED
    BY <2>1
<1>3. Head(out).kind = "reply" => ~Replied'
  BY <1>1, Taken DEF OneReply, Replied
<1>4. Replied' => Replied
  BY <1>1, Taken DEF Replied
<1>5. Head(out).kind = "reply" => Replied
  BY <1>1, Taken DEF Replied
<1>6. ASSUME Replied, Head(out).kind # "reply" PROVE Replied'
  <2>1. PICK i \in 1 .. Len(out) : out[i].kind = "reply"
    BY <1>6 DEF Replied
  <2>2. i - 1 \in 1 .. Len(out') /\ out'[i - 1] = out[i]
    BY <1>1, <1>6, <2>1, Taken
  <2> QED
    BY <2>1, <2>2 DEF Replied
<1> QED
  BY <1>1, <1>2, <1>3, <1>4, <1>5, <1>6, Taken

(* A call that returns was answered, and is answered no more.              *)
LEMMA Returned ==
  ASSUME StateOK, Asked, NEW site, NEW n, Returns(site, n)
  PROVE  /\ Asked' /\ ~Replied' /\ pc = site /\ waiting /\ ~waiting'
         /\ todo = "nothing" /\ UNCHANGED <<todo, sockets, stuck>>
         /\ 1 \in 1 .. Len(out) /\ out[1].kind = "reply" /\ out[1].n = n
<1>1. /\ out # <<>> /\ Head(out) = [kind |-> "reply", n |-> n]
      /\ out' = Tail(out) /\ waiting /\ waiting' = FALSE /\ pc = site
      /\ UNCHANGED <<todo, sockets, stuck>>
  BY DEF Returns
<1>2. Head(out).kind = "reply" /\ Head(out).n = n
  BY <1>1
<1>3. /\ OneReply' /\ ~Replied' /\ Replied /\ Head(out) = out[1]
      /\ 1 \in 1 .. Len(out)
  BY <1>1, <1>2, FrameTaken DEF Asked
<1>4. todo = "nothing"
  BY <1>3 DEF Asked
<1> QED
  BY <1>1, <1>2, <1>3, <1>4 DEF Asked
-----------------------------------------------------------------------------
(* The sockets.                                                            *)
LEMMA InitSInv == Init => SInv
<1> SUFFICES ASSUME Init PROVE SInv
  OBVIOUS
<1>1. /\ Len(out) = 0 /\ pc \in Before /\ sockets = {} /\ stuck = {}
      /\ todo = "nothing" /\ ~waiting
  BY Starts DEF Init, Before
<1>2. ~Replied /\ OneReply
  BY <1>1 DEF Replied, OneReply
<1>3. pc \notin Within \cup Past \cup {"socket", "close"}
  BY Starts DEF Init, Within, Past
<1> QED
  BY <1>1, <1>2, <1>3
     DEF SInv, Asked, Unopened, Opening, Open, Closing, Shut, Unstuck

(* The places are apart.                                                   *)
LEMMA Places ==
  /\ \A p \in Before : p \notin Within \cup Past \cup {"socket", "close"}
  /\ \A p \in Within : p \notin Past \cup {"socket", "close"}
  /\ \A p \in Past : p \notin {"socket", "close"}
  BY Starts DEF Before, Within, Past

(* A step that changes no socket and stays where it is.                    *)
LEMMA StillOpen ==
  ASSUME SInv, UNCHANGED <<pc, socket, sockets, stuck>>, Asked',
         Replied' <=> Replied,
         \A i \in 1 .. Len(out') : out'[i].kind = "reply" =>
           \E j \in 1 .. Len(out) : out'[i] = out[j],
         UNCHANGED <<waiting, todo>>
  PROVE  SInv'
<1>1. Unopened' /\ Open' /\ Closing' /\ Shut' /\ Unstuck'
  BY DEF SInv, Unopened, Open, Closing, Shut, Unstuck
<1>2. Opening'
  BY DEF SInv, Opening
<1> QED
  BY <1>1, <1>2 DEF SInv

(* The chip takes no socket and closes none.                               *)
LEMMA OtherAnswer ==
  ASSUME StateOK, SInv, todo \in CallSites \ {"socket", "close"},
         NEW n \in Sockets \cup {0, 1, Invalid, ErrorHCI}, Reply(n),
         UNCHANGED <<program, sockets, stuck>>
  PROVE  SInv'
<1>1. todo # "nothing" /\ pc = todo
  BY Starts DEF SInv, Asked, CallSites, OpenCalls
<1>2. Asked'
  BY <1>1, Answered DEF SInv
<1> QED
  BY <1>1, <1>2
     DEF SInv, Unopened, Opening, Open, Closing, Shut, Unstuck, program,
         connection

LEMMA StepSInv == StateOK /\ SInv /\ [Next]_vars => SInv'
<1> SUFFICES ASSUME StateOK, SInv, [Next]_vars PROVE SInv'
  OBVIOUS
<1>s. /\ Asked /\ Unopened /\ Opening /\ Open /\ Closing /\ Shut /\ Unstuck
  BY DEF SInv
<1>1. CASE Issue
  <2>1. /\ ~waiting /\ waiting' /\ todo' = pc /\ todo = "nothing" /\ ~Replied
        /\ pc \in CallSites /\ UNCHANGED <<pc, socket, sockets, stuck, out>>
    BY <1>1, <1>s DEF Issue, Asked, connection
  <2>2. (Replied' <=> Replied) /\ (OneReply' <=> OneReply)
    BY <2>1 DEF Replied, OneReply
  <2>3. Asked'
    BY <1>s, <2>1, <2>2 DEF Asked
  <2>4. Opening'
    BY <1>s, <2>1, <2>2 DEF Opening
  <2>5. Closing'
    BY <1>s, <2>1 DEF Closing
  <2> QED
    BY <1>s, <2>1, <2>3, <2>4, <2>5
       DEF SInv, Unopened, Open, Shut, Unstuck
<1>2. CASE HandleEvent
  <2>1. /\ out # <<>> /\ out' = Tail(out) /\ Head(out).kind # "reply"
        /\ UNCHANGED <<pc, waiting, todo, socket, sockets, stuck>>
    BY <1>2 DEF HandleEvent, connection, LinkEvents
  <2>2. /\ OneReply' /\ (Replied' <=> Replied)
        /\ \A i \in 1 .. Len(out') :
              i + 1 \in 1 .. Len(out) /\ out'[i] = out[i + 1]
    BY <1>s, <2>1, FrameTaken DEF Asked
  <2>3. Asked'
    BY <1>s, <2>1, <2>2 DEF Asked
  <2> QED
    BY <2>1, <2>2, <2>3, StillOpen
<1>r. ASSUME NEW site, NEW n, Returns(site, n)
      PROVE  /\ Asked' /\ ~Replied' /\ pc = site /\ ~waiting' /\ waiting
             /\ todo = "nothing" /\ UNCHANGED <<todo, sockets, stuck>>
             /\ 1 \in 1 .. Len(out) /\ out[1].kind = "reply" /\ out[1].n = n
  BY <1>s, <1>r, Returned
<1>3. CASE Started
  <2>1. PICK n \in {0, Invalid} : Returns(pc, n)
    BY <1>3 DEF Started
  <2>2. /\ Asked' /\ UNCHANGED <<sockets, stuck>>
    BY <1>r, <2>1
  <2>3. pc \in Before /\ pc' \in Before
    BY <1>3, Starts DEF Started, Before
  <2> QED
    BY <1>s, <2>2, <2>3, Places
       DEF SInv, Unopened, Opening, Open, Closing, Shut, Unstuck
<1>4. CASE PollEnds \/ TestAddress \/ ShowConnected
  <2>1. /\ UNCHANGED <<waiting, todo, out, socket, sockets, stuck>>
        /\ \/ pc \in {"wait_dhcp", "test_dhcp"}
              /\ pc' \in {"wait_dhcp", "test_dhcp", "socket"}
           \/ pc \in {"check", "show"} /\ pc' \in {"check", "show"}
    BY <1>4 DEF PollEnds, TestAddress, ShowConnected, connection, chip
  <2>2. (Replied' <=> Replied) /\ (OneReply' <=> OneReply)
    BY <2>1 DEF Replied, OneReply
  <2>3. ~waiting /\ ~Replied /\ todo = "nothing"
    BY <1>s, <2>1, Starts DEF Asked, CallSites, OpenCalls
  <2>4. Asked' /\ ~Replied'
    BY <1>s, <2>1, <2>2, <2>3 DEF Asked
  <2>5. Opening'
    <3>1. pc' = "socket" => pc \in Before
      BY <2>1 DEF Before
    <3> QED
      BY <1>s, <2>1, <2>4, <3>1 DEF Opening, Unopened, Unstuck, Replied
  <2>6. Unopened' /\ Open' /\ Closing' /\ Shut' /\ Unstuck'
    <3>1. CASE pc \in {"wait_dhcp", "test_dhcp"}
      <4>1. pc \in Before /\ pc' \in Before \cup {"socket"}
        BY <2>1, <3>1 DEF Before
      <4> QED
        BY <1>s, <2>1, <4>1, Places
           DEF Unopened, Open, Closing, Shut, Unstuck, Past
    <3>2. CASE pc \in {"check", "show"}
      <4>1. pc \in Past /\ pc' \in Past
        BY <2>1, <3>2 DEF Past
      <4> QED
        BY <1>s, <2>1, <4>1, Places DEF Unopened, Open, Closing, Shut, Unstuck
    <3> QED
      BY <2>1, <3>1, <3>2
  <2> QED
    BY <2>4, <2>5, <2>6 DEF SInv
<1>5. ASSUME NEW n \in Sockets \cup {Invalid, ErrorHCI}, Opened(n)
      PROVE  SInv'
  <2>1. /\ Asked' /\ ~Replied' /\ pc = "socket" /\ ~waiting' /\ socket' = n
        /\ UNCHANGED <<todo, sockets, stuck>>
        /\ 1 \in 1 .. Len(out) /\ out[1].kind = "reply" /\ out[1].n = n
        /\ pc' = IF n < 0 THEN "main_close" ELSE "gethostbyname"
    BY <1>5, <1>r DEF Opened
  <2>2. sockets = {n} \cap Sockets /\ stuck = {}
    BY <1>s, <2>1 DEF Opening
  <2>3. CASE n < 0
    <3>1. pc' \in Past /\ sockets = {} /\ socket' < 0
      BY <2>1, <2>2, <2>3, Numbers DEF Past
    <3> QED
      BY <2>1, <3>1, Places
         DEF SInv, Unopened, Opening, Open, Closing, Shut, Unstuck
  <2>4. CASE ~(n < 0)
    <3>1. pc' \in Within /\ n \in Sockets /\ sockets = {n}
      BY <2>1, <2>2, <2>4, Numbers DEF Within
    <3> QED
      BY <2>1, <2>2, <3>1, Places
         DEF SInv, Unopened, Opening, Open, Closing, Shut, Unstuck
  <2> QED
    BY <2>3, <2>4
<1>6. ASSUME NEW n, Resolved(n) \/ Connected(n) \/ Received(n)
      PROVE  SInv'
  <2>1. /\ Asked' /\ ~Replied' /\ ~waiting' /\ todo = "nothing"
        /\ UNCHANGED <<todo, sockets, stuck, socket>>
        /\ pc \in Within /\ pc' \in Within \cup {"close"}
    BY <1>6, <1>r DEF Resolved, Connected, Received, connection, Within
  <2> QED
    BY <1>s, <2>1, Places
       DEF SInv, Unopened, Opening, Open, Closing, Shut, Unstuck
<1>7. CASE SendRequest \/ (\E last \in States : Parse(last))
  <2>1. /\ UNCHANGED <<waiting, todo, out, socket, sockets, stuck>>
        /\ pc \in {"send", "parse"} /\ pc' \in {"recv", "close"}
    BY <1>7 DEF SendRequest, Parse, chip
  <2>2. pc \in Within /\ pc' \in Within \cup {"close"} /\ pc \notin CallSites
    BY <2>1, Starts DEF Within, CallSites, OpenCalls
  <2>3. (Replied' <=> Replied) /\ (OneReply' <=> OneReply)
    BY <2>1 DEF Replied, OneReply
  <2>4. ~waiting /\ ~Replied /\ todo = "nothing" /\ Asked'
    BY <1>s, <2>1, <2>2, <2>3 DEF Asked
  <2> QED
    BY <1>s, <2>1, <2>2, <2>4, Places
       DEF SInv, Unopened, Opening, Open, Closing, Shut, Unstuck
<1>8. ASSUME NEW n, Closed(n) \/ ClosedAgain(n) PROVE SInv'
  <2>1. /\ Asked' /\ waiting /\ todo = "nothing" /\ socket' = Invalid
        /\ UNCHANGED <<sockets, stuck>>
        /\ pc \in {"close", "main_close"} /\ pc' \in {"main_close", "check"}
    BY <1>8, <1>r DEF Closed, ClosedAgain
  <2>2. sockets \subseteq stuck
    BY <1>s, <2>1 DEF Closing, Shut, Past
  <2>3. pc' \in Past /\ socket' < 0
    BY <2>1, Numbers DEF Past
  <2> QED
    BY <2>1, <2>2, <2>3, Places
       DEF SInv, Unopened, Opening, Open, Closing, Shut, Unstuck
<1>9. CASE AnswerSocket
  <2>1. /\ todo = "socket" /\ pc = "socket" /\ ~Replied /\ stuck = {}
        /\ sockets = {} /\ UNCHANGED <<program, stuck>>
    BY <1>s, <1>9 DEF AnswerSocket, Asked, Opening
  <2>2. PICK n \in Sockets \cup {Invalid, ErrorHCI} :
          Reply(n) /\ sockets' = {n} \cap Sockets
    <3>1. \/ \E s \in Sockets : sockets' = {s} /\ Reply(s)
          \/ \E n \in {Invalid, ErrorHCI} : Reply(n) /\ sockets' = {}
      BY <1>9, <2>1 DEF AnswerSocket
    <3> QED
      BY <3>1, Numbers
  <2>3. /\ Asked' /\ Replied' /\ todo' = "nothing"
        /\ \A i \in 1 .. Len(out') : out'[i].kind = "reply" => out'[i].n = n
    BY <1>s, <2>1, <2>2, Answered
  <2>4. Opening'
    BY <2>1, <2>2, <2>3 DEF Opening
  <2> QED
    BY <1>s, <2>1, <2>3, <2>4, Places
       DEF SInv, Unopened, Open, Closing, Shut, Unstuck, program
<1>10. CASE AnswerClose
  <2>1. /\ todo \in {"close", "main_close"} /\ pc = todo /\ waiting /\ ~Replied
        /\ UNCHANGED program
    BY <1>s, <1>10 DEF AnswerClose, Asked
  <2>2. PICK n \in {0, Invalid, ErrorHCI} :
          /\ Reply(n)
          /\ \/ /\ socket \in sockets /\ sockets' = sockets \ {socket}
                /\ stuck' = stuck
             \/ /\ stuck' = stuck \cup (sockets \cap {socket})
                /\ sockets' = sockets
    BY <1>10 DEF AnswerClose
  <2>3. Asked' /\ todo' = "nothing"
    BY <1>s, <2>1, <2>2, Answered
  <2>4. sockets' \subseteq stuck'
    <3>1. CASE todo = "close"
      BY <1>s, <2>1, <2>2, <3>1 DEF Closing
    <3>2. CASE todo = "main_close"
      BY <1>s, <2>1, <2>2, <3>2 DEF Shut, Past
    <3> QED
      BY <2>1, <3>1, <3>2
  <2>5. pc \notin Before \cup Within \cup {"socket"}
    BY <2>1, Places DEF Past
  <2>6. pc' = pc /\ waiting' = waiting /\ socket' = socket
    BY <2>1 DEF program, connection
  <2> QED
    BY <1>s, <2>1, <2>3, <2>4, <2>5, <2>6
       DEF SInv, Unopened, Opening, Open, Closing, Shut, Unstuck
<1>11. CASE AnswerReceive \/ AnswerOther
  <2>1. /\ todo \in CallSites \ {"socket", "close"}
        /\ UNCHANGED <<program, sockets, stuck>>
    BY <1>11 DEF AnswerReceive, AnswerOther, CallSites, OpenCalls
  <2>2. PICK n \in {0, 1, Invalid, ErrorHCI} : Reply(n)
    BY <1>11 DEF AnswerReceive, AnswerOther
  <2> QED
    BY <2>1, <2>2, OtherAnswer
<1>12. CASE LinkChanges
  <2>1. PICK kind \in LinkEvents :
          /\ out' = Append(out, [kind |-> kind, n |-> 0])
          /\ UNCHANGED <<program, todo, sockets, stuck>>
    BY <1>12 DEF LinkChanges, Change, LinkEvents
  <2> DEFINE f == [kind |-> kind, n |-> 0]
  <2>2. f \in Messages /\ f.kind # "reply"
    BY DEF Messages, LinkEvents
  <2> HIDE DEF f
  <2>3. /\ Asked' /\ (Replied' <=> Replied)
        /\ \A i \in 1 .. Len(out') : out'[i].kind = "reply" =>
             i \in 1 .. Len(out) /\ out'[i] = out[i]
    BY <1>s, <2>1, <2>2, EventQueued DEF f
  <2> QED
    BY <2>1, <2>3, StillOpen DEF program, connection
<1>13. CASE UNCHANGED vars
  <2>1. UNCHANGED <<pc, waiting, todo, out, socket, sockets, stuck>>
    BY <1>13 DEF vars, program, connection, chip
  <2>2. (Replied' <=> Replied) /\ (OneReply' <=> OneReply)
    BY <2>1 DEF Replied, OneReply
  <2>3. Asked'
    BY <1>s, <2>1, <2>2 DEF Asked
  <2> QED
    BY <2>1, <2>2, <2>3, StillOpen
<1> QED
  BY <1>1, <1>2, <1>3, <1>4, <1>5, <1>6, <1>7, <1>8, <1>9, <1>10, <1>11,
     <1>12, <1>13
     DEF Next, Thread, Answer

(* The invariant holds in every reachable state.                           *)
THEOREM SpecInv == Spec => [](StateOK /\ SInv)
  BY InitTypes, StepStateOK, InitSInv, StepSInv, PTL DEF Spec

(* However open() ends, the chip holds no socket of it that it could have  *)
(* closed (http.cpp, open() and close()).                                  *)
THEOREM NothingIsLeaked == Spec => []NothingLeaked
<1>1. SInv => NothingLeaked
  BY DEF SInv, Shut, Past, NothingLeaked
<1> QED
  BY SpecInv, <1>1, PTL

(* open() closes the socket it opened; main()'s close never names one.     *)
THEOREM SocketsAreClosedOnce == Spec => []ClosedOnce
<1>1. SInv => ClosedOnce
  BY DEF SInv, Asked, Closing, Shut, Past, ClosedOnce
<1> QED
  BY SpecInv, <1>1, PTL
===============================================================================
