--------------------------- MODULE CC3000Commands ---------------------------
(***************************************************************************)
(* What the calls of the CC3000 driver write, part by part, over the bytes *)
(* of CC3000SPI: cc3000_hci.cpp's start() and send_patch(), and the calls  *)
(* of cc3000_wlan.cpp, cc3000_socket.cpp, cc3000_nvram.cpp, cc3000.cpp.    *)
(*                                                                         *)
(* A call announces the length of its frame before it writes the frame's   *)
(* parts, and states it again, in fewer bits, in the HCI header; in each   *)
(* call the two are computed by hand.  CC3000SPI cuts or pads what does    *)
(* not fit without a word.  Offsets among the arguments tell the chip, from*)
(* the place where they stand, where a later part begins.                  *)
(*                                                                         *)
(* Three loops divide a length into pieces of a frame each: write_patch(), *)
(* main.cpp's dump_nvram_file(), and send_patch(), which the chip requests *)
(* in the middle of a call that waits for its reply.                       *)
(*                                                                         *)
(* Definitions whose comment starts with "Variant" are faulty forms of the *)
(* definition that follows them; they are not part of the specification    *)
(* and show that the properties below can tell the difference.             *)
(***************************************************************************)
EXTENDS Naturals, Sequences

CONSTANTS
  Texts,          \* lengths of network names, keys and host names
  Buffers,        \* lengths of the data of send() and nvram.write()
  Files,          \* lengths given to write_patch() and dump_nvram_file()
  PatchLengths,   \* lengths given to send_patch()
  PieceMaximum,   \* transfer_maximum_size, 512 in the code
  DumpMaximum     \* size of dump_nvram_file()'s buffer, 150 in the code

(* A length of a frame has 16 bits, in CC3000SPI and in the HCI header of  *)
(* data and patches; the parameter length of a command has 8.              *)
LengthLimit == 65536
ParameterLimit == 256

(* The longest frame of each kind keeps below the limit of CC3000SPI.      *)
ASSUME LengthAssumption ==
  /\ Texts \subseteq Nat /\ \A s, k \in Texts : 32 + s + k < LengthLimit
  /\ Buffers \subseteq Nat /\ \A n \in Buffers : 21 + n < LengthLimit
  /\ Files \subseteq Nat
  /\ PatchLengths \subseteq Nat
  /\ PieceMaximum \in Nat \ {0} /\ 21 + PieceMaximum < LengthLimit
  /\ DumpMaximum \in Nat \ {0}

VARIABLES pc, kind, length, cs, irq, payload_remaining, announced, clocked,
          complete, asked   \* CC3000SPI's

VARIABLES
  place,   \* where the thread is
  frame,   \* the frame being written, or the last one
  part,    \* how many parts of it were written
  loop,    \* write_patch or dump_nvram_file: in progress, or the last one
  patch    \* send_patch: in progress, or the last one

spi == <<pc, kind, length, cs, irq, payload_remaining, announced, clocked,
         complete, asked>>
calls == <<place, frame, part, loop, patch>>
vars == <<spi, calls>>

SPI == INSTANCE CC3000SPI
  WITH Lengths <- 0 .. LengthLimit - 1, Chunks <- Nat, FrameLengths <- {},
       MaxAsked <- LengthLimit
-----------------------------------------------------------------------------
U32 == 4
Smaller(m, n) == IF m < n THEN m ELSE n

(* The first argument block, then the strings and buffers that follow.     *)
Frame(name, header, size, told, limit, parts, offsets) ==
  [name |-> name, header |-> header, announced |-> size, told |-> told,
   limit |-> limit, parts |-> parts, offsets |-> offsets]

(* Variant: announces the payload without its header.                      *)
CommandNoHeader(name, payload, parts, offsets) ==
  Frame(name, 4, payload, payload % ParameterLimit, ParameterLimit,
        parts, offsets)

(* start(opcode, payload): type, opcode, one byte of parameter length.     *)
Command(name, payload, parts, offsets) ==
  Frame(name, 4, 4 + payload, payload % ParameterLimit, ParameterLimit,
        parts, offsets)

(* start(opcode, args, data): type, opcode, one byte that tells where the  *)
(* data begin and two bytes of length.                                     *)
Data(name, args, data, parts, offsets) ==
  Frame(name, 5, 5 + args + data, (args + data) % LengthLimit, LengthLimit,
        parts, offsets)

(* One frame of send_patch(): type, opcode and length, then the length of  *)
(* the patch data and the data.                                            *)
Patch(n) ==
  Frame("send_patch", 4, 4 + 2 + n, (2 + n) % LengthLimit, LengthLimit,
        <<2, n>>, {})

(* The argument at byte "at" says that what starts at byte "starts" is     *)
(* "value" bytes further.                                                  *)
Offset(at, value, starts) == [at |-> at, value |-> value, starts |-> starts]

ConnectArguments == 5 * U32 + 2 + 6

(* Variant: the offset of the key does not skip the network's name.        *)
ConnectShortOffset(ssid, key) ==
  Command("wlan_connect", 28 + ssid + key, <<ConnectArguments, ssid, key>>,
          {Offset(0, 28, ConnectArguments),
           Offset(3 * U32, 16, ConnectArguments + ssid)})

(* CC3000WLAN::connect(): offsets 0x1c and 0x10 + ssid_length.             *)
Connect(ssid, key) ==
  Command("wlan_connect", 28 + ssid + key, <<ConnectArguments, ssid, key>>,
          {Offset(0, 28, ConnectArguments),
           Offset(3 * U32, 16 + ssid, ConnectArguments + ssid)})

WlanFrames ==
  {Command("set_event_mask", 4, <<U32>>, {}),
   Command("ioctl_set_connection_policy", 12, <<3 * U32>>, {}),
   Command("ioctl_del_profile", 4, <<U32>>, {}),
   Command("smartconfig_set_prefix", 3, <<3>>, {})}
  \cup {Connect(ssid, key) : ssid \in Texts, key \in Texts}

(* select(): four offsets of 0x14, to the three sets and the timeout.      *)
Select ==
  Command("select", 44, <<11 * U32>>,
          {Offset(i * U32, 20, (i + 5) * U32) : i \in 1 .. 4})

GetHostByName(n) ==
  Command("gethostbyname", 8 + n, <<2 * U32, n>>,
          {Offset(0, 8, 2 * U32)})

Send(n) ==
  Data("send", 16, n, <<4 * U32, n>>, {Offset(U32, 16 - 4, 4 * U32)})

SocketFrames ==
  {Command("socket", 12, <<3 * U32>>, {}),
   Command("close_socket", 4, <<U32>>, {}),
   Command("socket_connect", 12 + 8, <<3 * U32, 2 + 2 + U32>>,
           {Offset(U32, 8, 3 * U32)}),
   Command("recv", 12, <<3 * U32>>, {}),
   Select}
  \cup {GetHostByName(n) : n \in Texts}
  \cup {Send(n) : n \in Buffers}

NvramRead == Command("nvram_read", 12, <<3 * U32>>, {})

NvramWrite(n) ==
  Data("nvram_write", 16, n, <<4 * U32, n>>, {Offset(U32, 12, 4 * U32)})

Frames ==
  WlanFrames \cup SocketFrames \cup {NvramWrite(n) : n \in Buffers}
  \cup {NvramRead, Command("read_sp_version", 0, <<>>, {}),
        Command("read_buffer_size", 0, <<>>, {})}

Loop(name, n) ==
  [name |-> name, length |-> n, offset |-> 0, remaining |-> n, pieces |-> <<>>,
   back |-> "idle"]

(* The loop writes one more piece.                                         *)
WithPiece(l, n) ==
  [l EXCEPT !.pieces = Append(@, [at |-> l.offset, size |-> n])]

(* Variant: counts every piece as a full one.                              *)
AdvancedByMaximum(l) ==
  [l EXCEPT !.offset = @ + l.pieces[Len(l.pieces)].size,
            !.remaining = @ - PieceMaximum]

(* Variant: does not move on in the buffer.                                *)
AdvancedStays(l) ==
  [l EXCEPT !.remaining = @ - l.pieces[Len(l.pieces)].size]

(* offset or data_ptr, and remaining, after the piece written last.        *)
Advanced(l) ==
  LET n == l.pieces[Len(l.pieces)].size
  IN  [l EXCEPT !.offset = @ + n, !.remaining = @ - n]
-----------------------------------------------------------------------------
Init ==
  /\ SPI!Init
  /\ place = "idle"
  /\ frame = NvramRead
  /\ part = 0
  /\ loop = Loop("none", 0)
  /\ patch = Loop("send_patch", 0)

Write(f) == place' = "start" /\ frame' = f

(* The program makes a call that is not a loop.                            *)
Call(f) ==
  /\ place = "idle"
  /\ Write(f)
  /\ loop' = Loop("none", 0)
  /\ UNCHANGED <<spi, part, patch>>

(* The program calls write_patch() or dump_nvram_file().                   *)
CallLoop(name, n) ==
  /\ place = "idle"
  /\ place' = "loop"
  /\ loop' = Loop(name, n)
  /\ UNCHANGED <<spi, frame, part, patch>>

(* The body of write_patch()'s loop, up to the reply.                      *)
WritePiece ==
  /\ place = "loop"
  /\ loop.name = "write_patch"
  /\ loop.remaining > 0
  /\ LET n == Smaller(loop.remaining, PieceMaximum)
     IN  Write(NvramWrite(n)) /\ loop' = WithPiece(loop, n)
  /\ UNCHANGED <<spi, part, patch>>

(* The body of dump_nvram_file()'s loop, up to the reply.                  *)
DumpPiece ==
  /\ place = "loop"
  /\ loop.name = "dump_nvram_file"
  /\ loop.offset < loop.length
  /\ Write(NvramRead)
  /\ loop' = WithPiece(loop, Smaller(loop.length - loop.offset, DumpMaximum))
  /\ UNCHANGED <<spi, part, patch>>

(* The loop's condition fails.                                             *)
LoopEnds ==
  /\ place = "loop"
  /\ \/ loop.name = "write_patch" /\ loop.remaining = 0
     \/ loop.name = "dump_nvram_file" /\ loop.offset >= loop.length
  /\ place' = "idle"
  /\ UNCHANGED <<spi, frame, part, loop, patch>>

(* The chip asks for patches while some function polls it; send_patch().   *)
PatchesRequest(n) ==
  /\ place \in {"idle", "reply"}
  /\ place' = "patch"
  /\ patch' = [Loop("send_patch", n) EXCEPT !.back = place]
  /\ UNCHANGED <<spi, frame, part, loop>>

(* The body of send_patch()'s loop, which runs once for no bytes as well.  *)
PatchPiece ==
  /\ place = "patch"
  /\ LET n == Smaller(patch.remaining, PieceMaximum)
     IN  Write(Patch(n)) /\ patch' = WithPiece(patch, n)
  /\ UNCHANGED <<spi, part, loop>>

(* start(): start_write() of the frame's length, then the HCI header.      *)
Start ==
  /\ place = "start"
  /\ SPI!StartTransaction("write", frame.announced)
  /\ place' = "select"
  /\ UNCHANGED <<frame, part, loop, patch>>

Selected ==
  /\ place = "select"
  /\ SPI!WriteHeader
  /\ place' = "header"
  /\ UNCHANGED <<frame, part, loop, patch>>

Header ==
  /\ place = "header"
  /\ SPI!Transfer(frame.header)
  /\ place' = "parts"
  /\ part' = 0
  /\ UNCHANGED <<frame, loop, patch>>

WritePart ==
  /\ place = "parts"
  /\ part < Len(frame.parts)
  /\ SPI!Transfer(frame.parts[part + 1])
  /\ part' = part + 1
  /\ UNCHANGED <<place, frame, loop, patch>>

(* Variant: the call forgets end().                                        *)
EndCallNoEnd ==
  /\ place = "parts"
  /\ part = Len(frame.parts)
  /\ frame.name # "send_patch"
  /\ place' = IF frame.name = "send" THEN "idle" ELSE "reply"
  /\ UNCHANGED <<spi, frame, part, loop, patch>>

(* The end() of a call; send() does not wait for a reply.                  *)
EndCall ==
  /\ place = "parts"
  /\ part = Len(frame.parts)
  /\ frame.name # "send_patch"
  /\ SPI!EndTransaction
  /\ place' = IF frame.name = "send" THEN "idle" ELSE "reply"
  /\ UNCHANGED <<frame, part, loop, patch>>

(* The end() of a piece of send_patch(), which counts it and goes on, or   *)
(* goes back to where the chip's request was polled.                       *)
EndPatchPiece ==
  /\ place = "parts"
  /\ part = Len(frame.parts)
  /\ frame.name = "send_patch"
  /\ SPI!EndTransaction
  /\ patch' = Advanced(patch)
  /\ place' = IF patch'.remaining = 0 THEN patch.back ELSE "patch"
  /\ UNCHANGED <<frame, part, loop>>

(* The wait for the reply ends and the call, or the body of its loop, with *)
(* it.  dump_nvram_file() counts 150 bytes for the last piece as well, and *)
(* both loops go on after a failure.                                       *)
Reply ==
  /\ place = "reply"
  /\ \/ loop.name = "none" /\ place' = "idle" /\ UNCHANGED loop
     \/ loop.name = "write_patch" /\ place' = "loop" /\ loop' = Advanced(loop)
     \/ /\ loop.name = "dump_nvram_file"
        /\ place' = "loop"
        /\ loop' = [loop EXCEPT !.offset = @ + DumpMaximum]
  /\ UNCHANGED <<spi, frame, part, patch>>

ChipIrq == (SPI!IrqAssert \/ SPI!IrqDeassert) /\ UNCHANGED calls

Continue ==
  \/ WritePiece \/ DumpPiece \/ LoopEnds \/ PatchPiece
  \/ Start \/ Selected \/ Header \/ WritePart \/ EndCall \/ EndPatchPiece

Next ==
  \/ \E f \in Frames : Call(f)
  \/ \E n \in Files, l \in {"write_patch", "dump_nvram_file"} : CallLoop(l, n)
  \/ \E n \in PatchLengths : PatchesRequest(n)
  \/ Continue
  \/ Reply
  \/ ChipIrq

(* The thread runs on, and the chip answers it: it raises IRQ for a host   *)
(* that waits for it, and replies however often it asks for patches first. *)
Fairness ==
  /\ WF_vars(Continue)
  /\ WF_vars(ChipIrq /\ pc = "wait_irq")
  /\ SF_vars(Reply)

Spec == Init /\ [][Next]_vars /\ Fairness
-----------------------------------------------------------------------------
Places ==
  {"idle", "loop", "patch", "start", "select", "header", "parts", "reply"}

Loops ==
  [name : {"none", "write_patch", "dump_nvram_file", "send_patch"},
   length : Nat, offset : Nat, remaining : Nat,
   pieces : Seq([at : Nat, size : Nat]), back : {"idle", "reply"}]

TypeOK ==
  /\ SPI!TypeOK
  /\ place \in Places
  /\ part \in 0 .. 3
  /\ loop \in Loops /\ patch \in Loops

(* All of the frame was written and end() is next.                         *)
Written == place = "parts" /\ part = Len(frame.parts)

(* Every call transfers exactly what it announced to start_write(): nothing*)
(* of it was cut off as an overrun, and end_transaction() has at most the  *)
(* pad byte to send (start() and the write_*() calls after it).            *)
FramesAreFilled ==
  Written => asked = length /\ payload_remaining = SPI!Padded(length) - length

(* The chip finds the parts the host wrote: the length in the HCI header   *)
(* is that of the bytes behind it, if these are no more than its width can *)
(* tell, and every offset leads to the beginning of a part or an argument  *)
(* inside the frame (start(), connect(), gethostbyname(), select(), send().*)
FramesAreUnderstood ==
  Written =>
    /\ asked - frame.header < frame.limit => frame.told = asked - frame.header
    /\ \A o \in frame.offsets :
         /\ o.at + o.value = o.starts
         /\ o.starts <= asked - frame.header

Covered(l) ==
  IF l.pieces = <<>> THEN 0
  ELSE l.pieces[Len(l.pieces)].at + l.pieces[Len(l.pieces)].size

Tiles(l, maximum) ==
  /\ \A i \in 1 .. Len(l.pieces) :
       /\ l.pieces[i].size <= maximum
       /\ l.pieces[i].at = IF i = 1 THEN 0
                           ELSE l.pieces[i - 1].at + l.pieces[i - 1].size
  /\ Covered(l) <= l.length

(* send_patch() runs.                                                      *)
Patching ==
  \/ place = "patch"
  \/ frame.name = "send_patch" /\ place \notin {"idle", "loop", "reply"}

(* The pieces of a loop follow each other without gap or overlap, none is  *)
(* longer than its buffer, and the loop ends when they cover the whole     *)
(* length, whatever patches the chip asked for in between (write_patch(),  *)
(* dump_nvram_file(), send_patch()).                                       *)
PiecesTile ==
  /\ Tiles(loop, IF loop.name = "dump_nvram_file" THEN DumpMaximum
                                                  ELSE PieceMaximum)
  /\ place = "idle" => Covered(loop) = loop.length
  /\ Tiles(patch, PieceMaximum)
  /\ ~Patching => Covered(patch) = patch.length

(* Every call and every loop comes to its end, however often the chip asks *)
(* for patches while it waits.                                             *)
CallsEnd == place # "idle" ~> place = "idle"
=============================================================================
