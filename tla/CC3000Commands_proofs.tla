------------------------ MODULE CC3000Commands_proofs ------------------------
(***************************************************************************)
(* Every call of the driver fills the frame it announces, for names, keys, *)
(* buffers and files of every length, and the loops cover what they were   *)
(* given.                                                                  *)
(*                                                                         *)
(* The invariant of the frames follows the bytes: before each part, the    *)
(* bytes asked for are those of the parts before it, and CC3000SPI owes    *)
(* the rest of the padded length.  It needs of the frames only what        *)
(* GoodFrame says, which is checked for each call's own arithmetic.        *)
(***************************************************************************)
EXTENDS CC3000Commands, TLAPS

(* The bytes of the header and of the first k parts.                       *)
Upto(f, k) ==
  f.header + (IF k >= 1 THEN f.parts[1] ELSE 0)
           + (IF k >= 2 THEN f.parts[2] ELSE 0)
           + (IF k >= 3 THEN f.parts[3] ELSE 0)

(* The bytes of up to three parts.                                         *)
Total(parts) ==
  (IF Len(parts) >= 1 THEN parts[1] ELSE 0)
  + (IF Len(parts) >= 2 THEN parts[2] ELSE 0)
  + (IF Len(parts) >= 3 THEN parts[3] ELSE 0)

Counted(f) ==
  /\ f.header \in Nat /\ f.announced \in Nat
  /\ f.parts \in Seq(Nat) /\ Len(f.parts) <= 3
  /\ f.announced < LengthLimit
  /\ f.announced = Upto(f, Len(f.parts))

Understood(f) ==
  /\ f.announced - f.header < f.limit => f.told = f.announced - f.header
  /\ \A o \in f.offsets : /\ o.at + o.value = o.starts
                          /\ o.starts <= f.announced - f.header

GoodFrame(f) == Counted(f) /\ Understood(f)
-----------------------------------------------------------------------------
LEMMA LimitFacts ==
  /\ LengthLimit \in Nat /\ LengthLimit > 1000
  /\ ParameterLimit \in Nat \ {0} /\ ParameterLimit < 1000
  /\ LengthLimit = SPI!HeaderLimit
  /\ LengthLimit % 2 = 0
  BY SMT DEF LengthLimit, ParameterLimit, SPI!HeaderLimit

LEMMA SmallRemainder ==
  /\ \A n \in Nat : n < ParameterLimit => n % ParameterLimit = n
  /\ \A n \in Nat : n < LengthLimit => n % LengthLimit = n
  BY SMT DEF ParameterLimit, LengthLimit

(* A command with its payload is good if its parts add up to the payload.  *)
LEMMA CommandGood ==
  ASSUME NEW name, NEW payload \in Nat, payload + 4 < LengthLimit,
         NEW parts \in Seq(Nat), Len(parts) <= 3,
         payload = Total(parts),
         NEW offsets,
         \A o \in offsets : o.at + o.value = o.starts /\ o.starts <= payload
  PROVE  GoodFrame(Command(name, payload, parts, offsets))
<1> DEFINE f == Command(name, payload, parts, offsets)
<1>1. payload < ParameterLimit => payload % ParameterLimit = payload
  BY SmallRemainder, Zenon
<1>0. /\ f.header = 4 /\ f.announced = 4 + payload /\ f.parts = parts
      /\ f.told = payload % ParameterLimit /\ f.limit = ParameterLimit
      /\ f.offsets = offsets
  BY Zenon DEF Command, Frame
<1> HIDE DEF f
<1>2. Counted(f)
  <2>1. Len(parts) \in Nat
    OBVIOUS
  <2>4. \A i \in 1 .. Len(parts) : parts[i] \in Nat
    OBVIOUS
  <2> DEFINE first == IF Len(parts) >= 1 THEN parts[1] ELSE 0
             second == IF Len(parts) >= 2 THEN parts[2] ELSE 0
             third == IF Len(parts) >= 3 THEN parts[3] ELSE 0
  <2>5. first \in Nat
    <3>1. CASE Len(parts) >= 1
      BY <2>1, <2>4, <3>1, 1 \in 1 .. Len(parts), SMT
    <3>2. CASE ~(Len(parts) >= 1)
      BY <3>2, Zenon
    <3> QED
      BY <3>1, <3>2, Zenon
  <2>6. second \in Nat
    <3>1. CASE Len(parts) >= 2
      BY <2>1, <2>4, <3>1, 2 \in 1 .. Len(parts), SMT
    <3>2. CASE ~(Len(parts) >= 2)
      BY <3>2, Zenon
    <3> QED
      BY <3>1, <3>2, Zenon
  <2>7. third \in Nat
    <3>1. CASE Len(parts) >= 3
      BY <2>1, <2>4, <3>1, 3 \in 1 .. Len(parts), SMT
    <3>2. CASE ~(Len(parts) >= 3)
      BY <3>2, Zenon
    <3> QED
      BY <3>1, <3>2, Zenon
  <2>8. payload = first + second + third
    BY Zenon DEF Total
  <2>9. Upto(f, Len(parts)) = 4 + first + second + third
    BY <1>0, Zenon DEF Upto
  <2> HIDE DEF first, second, third
  <2>2. Upto(f, Len(parts)) = 4 + payload
    BY <2>5, <2>6, <2>7, <2>8, <2>9, SMT
  <2>3. f.header \in Nat /\ f.announced \in Nat /\ f.announced < LengthLimit
    BY <1>0, LimitFacts, SMT
  <2> QED
    BY <1>0, <2>2, <2>3, Zenon DEF Counted
<1>3. Understood(f)
  BY <1>0, <1>1, LimitFacts, SMT DEF Understood
<1> QED
  BY <1>2, <1>3 DEF GoodFrame, f

(* Data and patch frames: two parts, and sixteen bits of length.           *)
LEMMA DataGood ==
  ASSUME NEW name, NEW args \in Nat, NEW data \in Nat,
         5 + args + data < LengthLimit, NEW offsets,
         \A o \in offsets : o.at + o.value = o.starts /\ o.starts <= args + data
  PROVE  GoodFrame(Data(name, args, data, <<args, data>>, offsets))
<1> DEFINE f == Data(name, args, data, <<args, data>>, offsets)
<1>1. (args + data) % LengthLimit = args + data
  BY SmallRemainder, LimitFacts, SMT
<1>2. /\ f.header = 5 /\ f.announced = 5 + args + data
      /\ f.parts = <<args, data>>
      /\ f.told = (args + data) % LengthLimit /\ f.offsets = offsets
  BY Zenon DEF Data, Frame
<1> HIDE DEF f
<1>3. Counted(f)
  <2>1. Len(<<args, data>>) = 2 /\ <<args, data>> \in Seq(Nat)
    OBVIOUS
  <2>2. Upto(f, 2) = 5 + args + data
    BY <1>2, SMT DEF Upto
  <2> QED
    BY <1>2, <2>1, <2>2, SMT DEF Counted
<1>4. Understood(f)
  BY <1>1, <1>2, SMT DEF Understood
<1> QED
  BY <1>3, <1>4 DEF GoodFrame, f

LEMMA PatchGood ==
  ASSUME NEW n \in Nat, n <= PieceMaximum
  PROVE  GoodFrame(Patch(n))
<1> DEFINE f == Patch(n)
<1>1. 6 + n < LengthLimit /\ (2 + n) % LengthLimit = 2 + n
  BY LengthAssumption, SmallRemainder, LimitFacts, SMT
<1>2. /\ f.header = 4 /\ f.announced = 4 + 2 + n /\ f.parts = <<2, n>>
      /\ f.told = (2 + n) % LengthLimit /\ f.offsets = {}
  BY Zenon DEF Patch, Frame
<1> HIDE DEF f
<1>3. Counted(f)
  <2>1. Len(<<2, n>>) = 2 /\ <<2, n>> \in Seq(Nat)
    OBVIOUS
  <2>2. Upto(f, 2) = 6 + n
    BY <1>2, SMT DEF Upto
  <2> QED
    BY <1>1, <1>2, <2>1, <2>2, SMT DEF Counted
<1>4. Understood(f)
  BY <1>1, <1>2, SMT DEF Understood
<1> QED
  BY <1>3, <1>4 DEF GoodFrame, f

LEMMA NvramWriteGood ==
  ASSUME NEW n \in Nat, 21 + n < LengthLimit
  PROVE  GoodFrame(NvramWrite(n))
<1> DEFINE os == {Offset(U32, 12, 4 * U32)}
<1>1. \A o \in os : o.at + o.value = o.starts /\ o.starts <= 16 + n
  BY SMT DEF Offset, U32
<1> HIDE DEF os
<1>2. GoodFrame(Data("nvram_write", 16, n, <<16, n>>, os))
  BY <1>1, DataGood, SMT
<1> QED
  BY <1>2, 4 * U32 = 16 DEF NvramWrite, os, U32

LEMMA SendGood ==
  ASSUME NEW n \in Nat, 21 + n < LengthLimit
  PROVE  GoodFrame(Send(n))
<1> DEFINE os == {Offset(U32, 16 - 4, 4 * U32)}
<1>1. \A o \in os : o.at + o.value = o.starts /\ o.starts <= 16 + n
  BY SMT DEF Offset, U32
<1> HIDE DEF os
<1>2. GoodFrame(Data("send", 16, n, <<16, n>>, os))
  BY <1>1, DataGood, SMT
<1> QED
  BY <1>2, 4 * U32 = 16 DEF Send, os, U32

(* Commands of one part, without offsets.                                  *)
LEMMA PlainGood ==
  ASSUME NEW name, NEW n \in 1 .. 100
  PROVE  GoodFrame(Command(name, n, <<n>>, {}))
<1>1. <<n>> \in Seq(Nat) /\ Len(<<n>>) = 1 /\ <<n>>[1] = n
  OBVIOUS
<1>2. n \in Nat /\ n + 4 < LengthLimit
  BY LimitFacts, SMT
<1> QED
  BY <1>1, <1>2, Total(<<n>>) = n, CommandGood, SMT DEF Total

LEMMA ConnectGood ==
  ASSUME NEW ssid \in Texts, NEW key \in Texts
  PROVE  GoodFrame(Connect(ssid, key))
<1> DEFINE os == {Offset(0, 28, ConnectArguments),
                  Offset(3 * U32, 16 + ssid, ConnectArguments + ssid)}
           parts == <<ConnectArguments, ssid, key>>
<1>1. ssid \in Nat /\ key \in Nat /\ 32 + ssid + key < LengthLimit
  BY LengthAssumption, Zenon
<1>2. \A o \in os : o.at + o.value = o.starts
                    /\ o.starts <= 28 + ssid + key
  BY <1>1, SMT DEF Offset, U32, ConnectArguments
<1>3. /\ parts \in Seq(Nat) /\ Len(parts) = 3
      /\ parts[1] = 28 /\ parts[2] = ssid /\ parts[3] = key
  BY <1>1, SMT DEF ConnectArguments, U32
<1> HIDE DEF os, parts
<1>4. /\ 28 + ssid + key \in Nat /\ 28 + ssid + key + 4 < LengthLimit
      /\ 28 + ssid + key = Total(parts)
  BY <1>1, <1>3, SMT DEF Total
<1>5. GoodFrame(Command("wlan_connect", 28 + ssid + key, parts, os))
  BY <1>2, <1>3, <1>4, 3 <= 3, 2 <= 3, CommandGood, Zenon
<1> QED
  BY <1>5 DEF Connect, os, parts

LEMMA GetHostByNameGood ==
  ASSUME NEW n \in Texts
  PROVE  GoodFrame(GetHostByName(n))
<1> DEFINE os == {Offset(0, 8, 2 * U32)}
           parts == <<2 * U32, n>>
<1>1. n \in Nat /\ 32 + n + n < LengthLimit
  BY LengthAssumption, Zenon
<1>2. \A o \in os : o.at + o.value = o.starts /\ o.starts <= 8 + n
  BY <1>1, SMT DEF Offset, U32
<1>3. parts \in Seq(Nat) /\ Len(parts) = 2 /\ parts[1] = 8 /\ parts[2] = n
  BY <1>1, SMT DEF U32
<1> HIDE DEF os, parts
<1>4. n \in Nat /\ n < LengthLimit - 24
  BY <1>1, LimitFacts, SMT
<1>6. /\ 8 + n \in Nat /\ 8 + n + 4 < LengthLimit
      /\ 8 + n = Total(parts)
  BY <1>3, <1>4, LimitFacts, SMT DEF Total
<1>5. GoodFrame(Command("gethostbyname", 8 + n, parts, os))
  BY <1>2, <1>3, <1>6, 3 <= 3, 2 <= 3, CommandGood, Zenon
<1> QED
  BY <1>5 DEF GetHostByName, os, parts

LEMMA SelectGood == GoodFrame(Select)
<1> DEFINE os == {Offset(i * U32, 20, (i + 5) * U32) : i \in 1 .. 4}
           parts == <<11 * U32>>
<1>1. ASSUME NEW o \in os
      PROVE  o.at + o.value = o.starts /\ o.starts <= 44
  <2>1. PICK i \in 1 .. 4 : o = Offset(i * U32, 20, (i + 5) * U32)
    OBVIOUS
  <2>2. o.at = i * 4 /\ o.value = 20 /\ o.starts = (i + 5) * 4
    BY <2>1 DEF Offset, U32
  <2> QED
    BY <2>2, SMT
<1>2. /\ parts \in Seq(Nat) /\ Len(parts) = 1 /\ Len(parts) <= 3
      /\ parts[1] = 44
  BY SMT DEF U32
<1> HIDE DEF os, parts
<1>3. /\ 44 \in Nat /\ 44 + 4 < LengthLimit
      /\ 44 = Total(parts)
  BY <1>2, LimitFacts, SMT DEF Total
<1>4. \A o \in os : o.at + o.value = o.starts /\ o.starts <= 44
  BY <1>1, SMT
<1>5. GoodFrame(Command("select", 44, parts, os))
  BY <1>2, <1>3, <1>4, CommandGood, Zenon
<1> QED
  BY <1>5 DEF Select, os, parts

LEMMA SocketConnectGood ==
  GoodFrame(Command("socket_connect", 12 + 8, <<3 * U32, 2 + 2 + U32>>,
                    {Offset(U32, 8, 3 * U32)}))
<1> DEFINE os == {Offset(U32, 8, 3 * U32)}
           parts == <<3 * U32, 2 + 2 + U32>>
<1>1. \A o \in os : o.at + o.value = o.starts /\ o.starts <= 20
  BY SMT DEF Offset, U32
<1>2. parts \in Seq(Nat) /\ Len(parts) = 2 /\ parts[1] = 12 /\ parts[2] = 8
  BY SMT DEF U32
<1> HIDE DEF os, parts
<1>3. /\ 12 + 8 \in Nat /\ 12 + 8 + 4 < LengthLimit
      /\ 12 + 8 = Total(parts)
  BY <1>2, LimitFacts, SMT DEF Total
<1>4. \A o \in os : o.at + o.value = o.starts /\ o.starts <= 12 + 8
  BY <1>1, SMT
<1>5. GoodFrame(Command("socket_connect", 12 + 8, parts, os))
  BY <1>2, <1>3, <1>4, 1 <= 3, 2 <= 3, CommandGood, Zenon
<1> QED
  BY <1>5 DEF os, parts

LEMMA EmptyGood ==
  ASSUME NEW name
  PROVE  GoodFrame(Command(name, 0, <<>>, {}))
<1> DEFINE parts == <<>>
<1>1. parts \in Seq(Nat) /\ Len(parts) = 0
  OBVIOUS
<1> HIDE DEF parts
<1>2. /\ 0 \in Nat /\ 0 + 4 < LengthLimit
      /\ 0 = Total(parts)
  BY <1>1, LimitFacts, SMT DEF Total
<1>3. Len(parts) <= 3
  BY <1>1
<1>4. GoodFrame(Command(name, 0, parts, {}))
  BY <1>1, <1>2, <1>3, CommandGood, Zenon
<1> QED
  BY <1>4 DEF parts

LEMMA NvramReadGood == GoodFrame(NvramRead)
<1>1. GoodFrame(Command("nvram_read", 12, <<12>>, {}))
  BY PlainGood, SMT
<1> QED
  BY <1>1, 3 * U32 = 12 DEF NvramRead, U32

(* The arithmetic of every call is right.                                  *)
LEMMA FramesGood == \A f \in Frames : GoodFrame(f)
<1>1. \A f \in WlanFrames : GoodFrame(f)
  <2>1. 3 * U32 = 12 /\ U32 = 4
    BY DEF U32
  <2>2. /\ GoodFrame(Command("set_event_mask", 4, <<4>>, {}))
        /\ GoodFrame(Command("ioctl_set_connection_policy", 12, <<12>>, {}))
        /\ GoodFrame(Command("ioctl_del_profile", 4, <<4>>, {}))
        /\ GoodFrame(Command("smartconfig_set_prefix", 3, <<3>>, {}))
    BY PlainGood, SMT
  <2>3. /\ GoodFrame(Command("set_event_mask", 4, <<U32>>, {}))
        /\ GoodFrame(Command("ioctl_set_connection_policy", 12, <<3 * U32>>,
                             {}))
        /\ GoodFrame(Command("ioctl_del_profile", 4, <<U32>>, {}))
        /\ GoodFrame(Command("smartconfig_set_prefix", 3, <<3>>, {}))
    BY <2>1, <2>2
  <2>4. ASSUME NEW f \in {Connect(s, k) : s \in Texts, k \in Texts}
        PROVE  GoodFrame(f)
    <3>1. PICK s \in Texts, k \in Texts : f = Connect(s, k)
      BY SMT
    <3>2. GoodFrame(Connect(s, k))
      BY ConnectGood, SMT
    <3> QED
      BY <3>1, <3>2, SMT
  <2> DEFINE C == {Connect(s, k) : s \in Texts, k \in Texts}
  <2> HIDE DEF C
  <2>5. \A f \in C : GoodFrame(f)
    BY <2>4 DEF C
  <2>6. WlanFrames =
          {Command("set_event_mask", 4, <<U32>>, {}),
           Command("ioctl_set_connection_policy", 12, <<3 * U32>>, {}),
           Command("ioctl_del_profile", 4, <<U32>>, {}),
           Command("smartconfig_set_prefix", 3, <<3>>, {})} \cup C
    BY DEF WlanFrames, C
  <2> QED
    BY <2>3, <2>5, <2>6, Zenon
<1>2. \A f \in SocketFrames : GoodFrame(f)
  <2>1. 3 * U32 = 12 /\ U32 = 4
    BY DEF U32
  <2>2. /\ GoodFrame(Command("socket", 12, <<12>>, {}))
        /\ GoodFrame(Command("close_socket", 4, <<4>>, {}))
        /\ GoodFrame(Command("recv", 12, <<12>>, {}))
    BY PlainGood, SMT
  <2>3. /\ GoodFrame(Command("socket", 12, <<3 * U32>>, {}))
        /\ GoodFrame(Command("close_socket", 4, <<U32>>, {}))
        /\ GoodFrame(Command("recv", 12, <<3 * U32>>, {}))
    BY <2>1, <2>2
  <2>4. \A n \in Buffers : GoodFrame(Send(n))
    BY SendGood, LengthAssumption
  <2> QED
    BY <2>3, <2>4, SocketConnectGood, SelectGood, GetHostByNameGood, Zenon
       DEF SocketFrames
<1>3. \A n \in Buffers : GoodFrame(NvramWrite(n))
  BY NvramWriteGood, LengthAssumption
<1> QED
  BY <1>1, <1>2, <1>3, NvramReadGood, EmptyGood, Zenon DEF Frames
-----------------------------------------------------------------------------
(* A loop of write_patch() or send_patch() between two pieces, and while   *)
(* it writes one; the same of dump_nvram_file(), which does not count what *)
(* remains.                                                                *)
Last(l) == l.pieces[Len(l.pieces)]

Between(l) == Covered(l) = l.offset /\ l.offset + l.remaining = l.length

During(l) ==
  /\ l.pieces # <<>>
  /\ Last(l).at = l.offset
  /\ Last(l).size <= l.remaining
  /\ l.offset + l.remaining = l.length

DumpBetween(l) == Covered(l) = Smaller(l.offset, l.length)

DumpDuring(l) ==
  /\ l.pieces # <<>>
  /\ Last(l).at = l.offset
  /\ l.offset < l.length
  /\ Last(l).size = Smaller(l.length - l.offset, DumpMaximum)

Piece == [at : Nat, size : Nat]

(* A further piece that starts where the last one ended keeps the tiling.  *)
LEMMA PieceTiles ==
  ASSUME NEW l \in Loops, NEW maximum \in Nat, Tiles(l, maximum),
         NEW n \in Nat, n <= maximum, l.offset + n <= l.length,
         Covered(l) = l.offset
  PROVE  LET m == WithPiece(l, n)
         IN  /\ m \in Loops /\ Tiles(m, maximum)
             /\ m.pieces # <<>> /\ Last(m).at = l.offset /\ Last(m).size = n
             /\ m.name = l.name /\ m.length = l.length /\ m.back = l.back
             /\ m.offset = l.offset /\ m.remaining = l.remaining
<1> DEFINE m == WithPiece(l, n)
           p == [at |-> l.offset, size |-> n]
           k == Len(l.pieces)
<1>1. l.pieces \in Seq(Piece) /\ p \in Piece /\ l.offset \in Nat
      /\ l.length \in Nat
  BY DEF Loops, Piece
<1>2. /\ m.pieces = Append(l.pieces, p)
      /\ m.name = l.name /\ m.length = l.length /\ m.back = l.back
      /\ m.offset = l.offset /\ m.remaining = l.remaining
  BY DEF WithPiece, Loops
<1>3. m \in Loops
  <2>1. Append(l.pieces, p) \in Seq(Piece)
    BY <1>1
  <2> QED
    BY <2>1 DEF WithPiece, Loops, Piece
<1> HIDE DEF m, p
<1>4. /\ Len(m.pieces) = k + 1 /\ k \in Nat
      /\ m.pieces[k + 1] = p
      /\ \A i \in 1 .. k : m.pieces[i] = l.pieces[i]
      /\ \A i \in 1 .. k : l.pieces[i] \in Piece
  BY <1>1, <1>2
<1>5. p.at = l.offset /\ p.size = n
  BY DEF p
<1>6. ASSUME NEW i \in 1 .. k + 1
      PROVE  /\ m.pieces[i].size <= maximum
             /\ m.pieces[i].at = IF i = 1 THEN 0
                   ELSE m.pieces[i - 1].at + m.pieces[i - 1].size
  <2>1. CASE i \in 1 .. k
    <3>1. /\ l.pieces[i].size <= maximum
          /\ l.pieces[i].at = IF i = 1 THEN 0
                ELSE l.pieces[i - 1].at + l.pieces[i - 1].size
      BY <2>1, Zenon DEF Tiles
    <3>2. m.pieces[i] = l.pieces[i]
      BY <2>1, <1>4
    <3>3. i # 1 => m.pieces[i - 1] = l.pieces[i - 1]
      BY <2>1, <1>4, SMT
    <3> QED
      BY <3>1, <3>2, <3>3, Zenon
  <2>2. CASE i = k + 1
    <3>1. CASE k = 0
      <4>1. l.pieces = <<>>
        BY <3>1, <1>1
      <4> QED
        BY <4>1, <3>1, <2>2, <1>4, <1>5 DEF Covered
    <3>2. CASE k # 0
      <4>1. l.pieces # <<>> /\ k \in 1 .. k
        BY <3>2, <1>1, <1>4, SMT
      <4>2. l.offset = l.pieces[k].at + l.pieces[k].size
        BY <4>1 DEF Covered
      <4>3. m.pieces[i] = p /\ m.pieces[i - 1] = l.pieces[k] /\ i # 1
        BY <2>2, <4>1, <1>4, <3>2, SMT
      <4> QED
        BY <4>2, <4>3, <1>5
    <3> QED
      BY <3>1, <3>2
  <2> QED
    BY <2>1, <2>2, <1>4
<1>7. m.pieces # <<>> /\ Last(m) = p
  <2>1. m.pieces \in Seq(Piece)
    BY <1>1, <1>2
  <2>2. Len(m.pieces) # 0
    BY <1>4, SMT
  <2> QED
    BY <2>1, <2>2, <1>4 DEF Last
<1>8. Tiles(m, maximum)
  <2>1. Covered(m) = l.offset + n
    BY <1>5, <1>7 DEF Covered, Last
  <2> QED
    BY <2>1, <1>2, <1>4, <1>6 DEF Tiles
<1> QED
  BY <1>2, <1>3, <1>5, <1>7, <1>8 DEF m

LEMMA LoopFields ==
  ASSUME NEW l \in Loops
  PROVE  /\ l.offset \in Nat /\ l.length \in Nat /\ l.remaining \in Nat
         /\ l.pieces \in Seq(Piece)
         /\ l.pieces # <<>> => /\ Last(l) \in Piece
                               /\ Last(l).at \in Nat /\ Last(l).size \in Nat
                               /\ Covered(l) = Last(l).at + Last(l).size
<1>1. /\ l.offset \in Nat /\ l.length \in Nat /\ l.remaining \in Nat
      /\ l.pieces \in Seq(Piece)
  BY DEF Loops, Piece
<1>2. ASSUME l.pieces # <<>> PROVE Last(l) \in Piece
  <2>1. Len(l.pieces) \in 1 .. Len(l.pieces)
    BY <1>1, <1>2
  <2> QED
    BY <1>1, <2>1 DEF Last
<1> QED
  BY <1>1, <1>2 DEF Covered, Last, Piece

LEMMA NewLoop ==
  ASSUME NEW n \in Nat,
         NEW name \in {"none", "write_patch", "dump_nvram_file", "send_patch"},
         NEW b \in {"idle", "reply"}
  PROVE  /\ Loop(name, n) \in Loops
         /\ [Loop(name, n) EXCEPT !.back = b] \in Loops
<1>1. <<>> \in Seq(Piece)
  OBVIOUS
<1> QED
  BY <1>1 DEF Loop, Loops, Piece

(* A loop without pieces.                                                  *)
LEMMA EmptyLoop ==
  ASSUME NEW l, l.pieces = <<>>, l.offset = 0, l.length \in Nat,
         l.remaining = l.length, NEW maximum
  PROVE  /\ Covered(l) = 0 /\ Tiles(l, maximum)
         /\ Between(l) /\ DumpBetween(l)
<1>1. Covered(l) = 0
  BY DEF Covered
<1>2. Tiles(l, maximum)
  BY <1>1 DEF Tiles
<1> QED
  BY <1>1, <1>2, SMT DEF Between, DumpBetween, Smaller

LEMMA BeginPiece ==
  ASSUME NEW l \in Loops, Tiles(l, PieceMaximum), Between(l)
  PROVE  LET n == Smaller(l.remaining, PieceMaximum)
             m == WithPiece(l, n)
         IN  /\ n \in Nat /\ n <= PieceMaximum
             /\ m \in Loops /\ Tiles(m, PieceMaximum) /\ During(m)
             /\ m.name = l.name /\ m.length = l.length /\ m.back = l.back
<1> DEFINE n == Smaller(l.remaining, PieceMaximum)
           m == WithPiece(l, n)
<1>1. /\ n \in Nat /\ n <= PieceMaximum /\ n <= l.remaining
      /\ l.offset + n <= l.length /\ Covered(l) = l.offset
  BY LoopFields, LengthAssumption, SMT DEF Smaller, Between
<1> HIDE DEF n
<1>2. /\ m \in Loops /\ Tiles(m, PieceMaximum)
      /\ m.pieces # <<>> /\ Last(m).at = l.offset /\ Last(m).size = n
      /\ m.name = l.name /\ m.length = l.length /\ m.back = l.back
      /\ m.offset = l.offset /\ m.remaining = l.remaining
  BY <1>1, PieceTiles, LengthAssumption
<1> HIDE DEF m
<1>3. During(m)
  BY <1>1, <1>2, SMT DEF During, Between
<1> QED
  BY <1>1, <1>2, <1>3 DEF m, n

LEMMA EndPiece ==
  ASSUME NEW l \in Loops, Tiles(l, PieceMaximum), During(l)
  PROVE  LET m == Advanced(l)
         IN  /\ m \in Loops /\ Tiles(m, PieceMaximum) /\ Between(m)
             /\ m.name = l.name /\ m.length = l.length /\ m.back = l.back
<1> DEFINE m == Advanced(l)
           n == Last(l).size
<1>1. /\ l.offset \in Nat /\ l.remaining \in Nat /\ n \in Nat
      /\ n <= l.remaining /\ l.offset + l.remaining = l.length
      /\ Covered(l) = l.offset + n
  BY LoopFields DEF During
<1>2. /\ m.pieces = l.pieces /\ m.offset = l.offset + n
      /\ m.remaining = l.remaining - n
      /\ m.name = l.name /\ m.length = l.length /\ m.back = l.back
  BY DEF Advanced, Last, Loops
<1>3. m \in Loops
  <2>1. l.offset + n \in Nat /\ l.remaining - n \in Nat
    BY <1>1, SMT
  <2> QED
    BY <2>1 DEF Advanced, Last, Loops
<1> HIDE DEF m, n
<1>4. Covered(m) = Covered(l)
  BY <1>2 DEF Covered
<1>5. Tiles(m, PieceMaximum)
  BY <1>2, <1>4, Zenon DEF Tiles
<1>6. Between(m)
  BY <1>1, <1>2, <1>4, SMT DEF Between
<1> QED
  BY <1>2, <1>3, <1>5, <1>6 DEF m

LEMMA BeginDump ==
  ASSUME NEW l \in Loops, Tiles(l, DumpMaximum), DumpBetween(l),
         l.offset < l.length
  PROVE  LET m == WithPiece(l, Smaller(l.length - l.offset, DumpMaximum))
         IN  /\ m \in Loops /\ Tiles(m, DumpMaximum) /\ DumpDuring(m)
             /\ m.name = l.name /\ m.length = l.length /\ m.back = l.back
<1> DEFINE n == Smaller(l.length - l.offset, DumpMaximum)
           m == WithPiece(l, n)
<1>1. /\ n \in Nat /\ n <= DumpMaximum
      /\ l.offset + n <= l.length /\ Covered(l) = l.offset
  BY LoopFields, LengthAssumption, SMT DEF Smaller, DumpBetween
<1>2. n = Smaller(l.length - l.offset, DumpMaximum)
  OBVIOUS
<1> HIDE DEF n
<1>3. /\ m \in Loops /\ Tiles(m, DumpMaximum)
      /\ m.pieces # <<>> /\ Last(m).at = l.offset /\ Last(m).size = n
      /\ m.name = l.name /\ m.length = l.length /\ m.back = l.back
      /\ m.offset = l.offset
  BY <1>1, PieceTiles, LengthAssumption
<1> HIDE DEF m
<1>4. DumpDuring(m)
  BY <1>2, <1>3 DEF DumpDuring
<1> QED
  BY <1>3, <1>4 DEF m, n

LEMMA EndDump ==
  ASSUME NEW l \in Loops, Tiles(l, DumpMaximum), DumpDuring(l)
  PROVE  LET m == [l EXCEPT !.offset = @ + DumpMaximum]
         IN  /\ m \in Loops /\ Tiles(m, DumpMaximum) /\ DumpBetween(m)
             /\ m.name = l.name /\ m.length = l.length /\ m.back = l.back
<1> DEFINE m == [l EXCEPT !.offset = @ + DumpMaximum]
<1>1. /\ l.offset \in Nat /\ l.length \in Nat /\ l.offset < l.length
      /\ Last(l).size = Smaller(l.length - l.offset, DumpMaximum)
      /\ Covered(l) = l.offset + Last(l).size
  BY LoopFields DEF DumpDuring
<1>2. /\ m.pieces = l.pieces /\ m.offset = l.offset + DumpMaximum
      /\ m.name = l.name /\ m.length = l.length /\ m.back = l.back
  BY DEF Loops
<1>3. m \in Loops
  <2>1. l.offset + DumpMaximum \in Nat
    BY <1>1, LengthAssumption, SMT
  <2> QED
    BY <2>1 DEF Loops
<1> HIDE DEF m
<1>4. Covered(m) = Covered(l)
  BY <1>2 DEF Covered
<1>5. Tiles(m, DumpMaximum)
  BY <1>2, <1>4, Zenon DEF Tiles
<1>6. DumpBetween(m)
  BY <1>1, <1>2, <1>4, LengthAssumption, SMT DEF DumpBetween, Smaller
<1> QED
  BY <1>2, <1>3, <1>5, <1>6 DEF m
-----------------------------------------------------------------------------
Busy == place \in {"start", "select", "header", "parts"}

(* No call is in progress, and a call is in the body of its loop.          *)
Resting == place = "idle" \/ (Patching /\ patch.back = "idle")
Pending == ~Resting /\ place # "loop"

(* SPI!TypeOK in two parts, one for each prover: lines and numbers.        *)
LinesOK == cs \in BOOLEAN /\ irq \in BOOLEAN /\ complete \in BOOLEAN

NumbersOK ==
  /\ pc \in {"caller", "wait_irq", "hung"}
  /\ kind \in {"none", "write", "read", "init"}
  /\ length \in Nat /\ length < LengthLimit
  /\ payload_remaining \in Nat
  /\ announced \in Nat
  /\ clocked \in Nat
  /\ asked \in Nat
  /\ place \in Places
  /\ part \in 0 .. 3

(* Where the frame is, in the call and in CC3000SPI's transaction.         *)
FrameInv ==
  /\ place \notin {"select", "header", "parts"} => pc = "caller" /\ ~cs
  /\ place = "select" =>
       /\ pc = "wait_irq" /\ cs /\ kind = "write"
       /\ length = frame.announced
       /\ asked = 0
  /\ place \in {"header", "parts"} =>
       /\ pc = "caller" /\ cs /\ kind = "write"
       /\ length = frame.announced
       /\ payload_remaining + asked = SPI!Padded(length)
  /\ place = "header" => asked = 0
  /\ place = "parts" => part <= Len(frame.parts) /\ asked = Upto(frame, part)

Maximum(l) == IF l.name = "dump_nvram_file" THEN DumpMaximum ELSE PieceMaximum

LoopInv ==
  /\ loop \in Loops
  /\ loop.name \in {"none", "write_patch", "dump_nvram_file"}
  /\ Tiles(loop, Maximum(loop))
  /\ loop.name = "none" => loop.pieces = <<>> /\ loop.length = 0
                           /\ place # "loop"
  /\ loop.name = "write_patch" =>
       IF Pending THEN During(loop) ELSE Between(loop)
  /\ loop.name = "dump_nvram_file" =>
       IF Pending THEN DumpDuring(loop) ELSE DumpBetween(loop)
  /\ Resting => Covered(loop) = loop.length
  /\ (Busy /\ frame.name = "send") => loop.name = "none"

PatchInv ==
  /\ patch \in Loops
  /\ Tiles(patch, PieceMaximum)
  /\ place = "patch" => Between(patch)
  /\ (Busy /\ frame.name = "send_patch") => During(patch)
  /\ ~Patching => Covered(patch) = patch.length

IInv ==
  /\ LinesOK
  /\ NumbersOK /\ GoodFrame(frame) /\ FrameInv
  /\ LoopInv
  /\ PatchInv
-----------------------------------------------------------------------------
LEMMA PaddedFacts ==
  ASSUME NEW n \in Nat
  PROVE  /\ SPI!Padded(n) \in Nat
         /\ SPI!Padded(n) = n \/ SPI!Padded(n) = n + 1
         /\ SPI!Padded(n) % SPI!HeaderLimit \in Nat
<1>1. SPI!Padded(n) \in Nat /\ (SPI!Padded(n) = n \/ SPI!Padded(n) = n + 1)
  BY SMT DEF SPI!Padded
<1>2. \A m \in Nat : m % SPI!HeaderLimit \in Nat
  BY SMT DEF SPI!HeaderLimit
<1> QED
  BY <1>1, <1>2

(* What is written before the next part, and after it.                     *)
LEMMA UptoFacts ==
  ASSUME NEW f, Counted(f)
  PROVE  /\ Upto(f, 0) = f.header /\ f.header \in Nat
         /\ f.header <= f.announced
         /\ \A k \in 0 .. 3 : k < Len(f.parts) =>
              /\ f.parts[k + 1] \in Nat
              /\ Upto(f, k) \in Nat
              /\ Upto(f, k + 1) = Upto(f, k) + f.parts[k + 1]
              /\ Upto(f, k + 1) <= f.announced
<1>1. /\ f.header \in Nat /\ Len(f.parts) \in 0 .. 3
      /\ \A i \in 1 .. Len(f.parts) : f.parts[i] \in Nat
      /\ f.announced = Upto(f, Len(f.parts))
  <2>1. f.parts \in Seq(Nat) /\ Len(f.parts) <= 3 /\ f.header \in Nat
        /\ f.announced = Upto(f, Len(f.parts))
    BY DEF Counted
  <2>2. Len(f.parts) \in Nat /\ \A i \in 1 .. Len(f.parts) : f.parts[i] \in Nat
    BY <2>1
  <2>3. \A n \in Nat : n <= 3 => n \in 0 .. 3
    BY SMT
  <2> QED
    BY <2>1, <2>2, <2>3, Zenon
<1>2. Upto(f, 0) = f.header
  BY <1>1 DEF Upto
<1>3. f.header <= f.announced
  <2>1. CASE Len(f.parts) = 0
    BY <1>1, <2>1, SMT DEF Upto
  <2>2. CASE Len(f.parts) = 1
    BY <1>1, <2>2, SMT DEF Upto
  <2>3. CASE Len(f.parts) = 2
    BY <1>1, <2>3, SMT DEF Upto
  <2>4. CASE Len(f.parts) = 3
    BY <1>1, <2>4, SMT DEF Upto
  <2> QED
    BY <1>1, <2>1, <2>2, <2>3, <2>4, SMT
<1>4. ASSUME NEW k \in 0 .. 3, k < Len(f.parts)
      PROVE  /\ f.parts[k + 1] \in Nat
             /\ Upto(f, k) \in Nat
             /\ Upto(f, k + 1) = Upto(f, k) + f.parts[k + 1]
             /\ Upto(f, k + 1) <= f.announced
  <2>1. k \in {0, 1, 2} /\ k + 1 \in 1 .. Len(f.parts)
    BY <1>1, <1>4, SMT
  <2>2. CASE k = 0
    BY <1>1, <1>4, <2>2, SMT DEF Upto
  <2>3. CASE k = 1
    BY <1>1, <1>4, <2>3, SMT DEF Upto
  <2>4. CASE k = 2
    BY <1>1, <1>4, <2>4, SMT DEF Upto
  <2> QED
    BY <2>1, <2>2, <2>3, <2>4
<1> QED
  BY <1>1, <1>2, <1>3, <1>4

(* The names by which the invariants tell frames apart.                    *)
LEMMA FrameNames ==
  /\ \A f \in Frames : f.name # "send_patch"
  /\ \A n : NvramWrite(n).name = "nvram_write" /\ Patch(n).name = "send_patch"
  /\ NvramRead.name = "nvram_read"
<1>1. \A a, b, c, d : Command(a, b, c, d).name = a
  BY DEF Command, Frame
<1>2. \A a, b, c, d, e : Data(a, b, c, d, e).name = a
  BY DEF Data, Frame
<1> HIDE DEF Command, Data
<1>3. ASSUME NEW f \in WlanFrames PROVE f.name # "send_patch"
  <2>1. \A s, k : Connect(s, k).name = "wlan_connect"
    BY <1>1 DEF Connect
  <2>2. \/ f \in {Connect(s, k) : s \in Texts, k \in Texts}
        \/ \E a, b, c, d : /\ f = Command(a, b, c, d)
                          /\ a # "send_patch"
    BY SMT DEF WlanFrames
  <2> QED
    BY <1>1, <2>1, <2>2, SMT
<1>4. ASSUME NEW f \in SocketFrames PROVE f.name # "send_patch"
  <2>1. /\ \A n : GetHostByName(n).name = "gethostbyname"
        /\ \A n : Send(n).name = "send"
        /\ Select.name = "select"
    BY <1>1, <1>2 DEF GetHostByName, Send, Select
  <2>2. \/ f \in {GetHostByName(n) : n \in Texts}
        \/ f \in {Send(n) : n \in Buffers}
        \/ f = Select
        \/ \E a, b, c, d : /\ f = Command(a, b, c, d)
                          /\ a # "send_patch"
    BY SMT DEF SocketFrames
  <2> QED
    BY <1>1, <2>1, <2>2, SMT
<1>5. \A n : NvramWrite(n).name = "nvram_write"
  BY <1>2 DEF NvramWrite
<1>6. \A n : Patch(n).name = "send_patch"
  BY DEF Patch, Frame
<1>7. NvramRead.name = "nvram_read"
  BY <1>1 DEF NvramRead
<1> QED
  BY <1>1, <1>3, <1>4, <1>5, <1>6, <1>7, SMT DEF Frames
-----------------------------------------------------------------------------
Away == {"idle", "loop", "patch", "start", "reply"}

(* Outside a transaction nothing of the frame is at stake.                 *)
LEMMA AwayStep ==
  ASSUME LinesOK, NumbersOK, FrameInv,
         place \in Away, place' \in Away, UNCHANGED <<spi, part>>
  PROVE  LinesOK' /\ NumbersOK' /\ FrameInv'
<1>1. LinesOK'
  BY Zenon DEF LinesOK, spi
<1>2. NumbersOK'
  BY SMT DEF NumbersOK, Away, Places, spi
<1>3. FrameInv'
  BY SMT DEF FrameInv, Away, spi
<1> QED
  BY <1>1, <1>2, <1>3

LEMMA FrameStep ==
  ASSUME LinesOK, NumbersOK, GoodFrame(frame), FrameInv, patch \in Loops,
         [Next]_vars
  PROVE  LinesOK' /\ NumbersOK' /\ FrameInv'
<1>0. patch.back \in Away
  BY DEF Loops, Away
<1>1. ASSUME NEW f \in Frames, Call(f)
      PROVE  LinesOK' /\ NumbersOK' /\ FrameInv'
  BY <1>1, AwayStep, Zenon DEF Call, Write, Away
<1>2. ASSUME NEW n, NEW l, CallLoop(l, n)
      PROVE  LinesOK' /\ NumbersOK' /\ FrameInv'
  BY <1>2, AwayStep, Zenon DEF CallLoop, Away
<1>3. ASSUME NEW n, PatchesRequest(n)
      PROVE  LinesOK' /\ NumbersOK' /\ FrameInv'
  BY <1>3, AwayStep, Zenon DEF PatchesRequest, Away
<1>4. CASE WritePiece \/ DumpPiece \/ LoopEnds \/ PatchPiece
  BY <1>4, AwayStep, Zenon
     DEF WritePiece, DumpPiece, LoopEnds, PatchPiece, Write, Away
<1>5. CASE Reply
  <2>1. place \in Away /\ place' \in Away /\ UNCHANGED <<spi, part>>
    BY <1>5, Zenon DEF Reply, Away
  <2> QED
    BY <2>1, AwayStep
<1>6. CASE Start
  <2>1. /\ place = "start" /\ place' = "select" /\ UNCHANGED <<frame, part>>
        /\ SPI!StartTransaction("write", frame.announced)
    BY <1>6, Zenon DEF Start
  <2>2. LinesOK'
    BY <2>1, Zenon DEF SPI!StartTransaction, LinesOK
  <2>3. frame.announced \in Nat /\ frame.announced < LengthLimit
    BY Zenon DEF GoodFrame, Counted
  <2>4. NumbersOK'
    BY <2>1, <2>3, SMT DEF SPI!StartTransaction, NumbersOK, Places
  <2>5. FrameInv'
    BY <2>1, SMT DEF SPI!StartTransaction, FrameInv
  <2> QED
    BY <2>2, <2>4, <2>5
<1>7. CASE Selected
  <2> DEFINE p == SPI!Padded(length)
             q == p % SPI!HeaderLimit
  <2>1. /\ place = "select" /\ place' = "header" /\ UNCHANGED <<frame, part>>
        /\ pc = "wait_irq" /\ pc' = "caller" /\ payload_remaining' = p
        /\ announced' = q /\ clocked' = SPI!HeaderSize
        /\ UNCHANGED <<kind, length, cs, irq, complete, asked>>
    BY <1>7, Zenon DEF Selected, SPI!WriteHeader, SPI!Header
  <2>2. p \in Nat /\ q \in Nat
    BY PaddedFacts DEF NumbersOK
  <2>3. LinesOK'
    BY <2>1, Zenon DEF LinesOK
  <2>4. NumbersOK'
    <3> HIDE DEF q, p
    <3> QED
      BY <2>1, <2>2, SMT DEF NumbersOK, Places, SPI!HeaderSize
  <2>5. FrameInv'
    <3>1. p + 0 = p
      BY <2>2
    <3>2. SPI!Padded(length)' = p
      BY <2>1 DEF SPI!Padded
    <3> HIDE DEF p, q
    <3> QED
      BY <2>1, <3>1, <3>2, SMT DEF FrameInv
  <2> QED
    BY <2>3, <2>4, <2>5
<1>8. ASSUME NEW n \in Nat, SPI!Transfer(n), UNCHANGED frame,
             place \in {"header", "parts"}, place' = "parts",
             part' \in 0 .. 3, part' <= Len(frame.parts),
             asked + n = Upto(frame, part'), asked + n <= frame.announced
      PROVE  LinesOK' /\ NumbersOK' /\ FrameInv'
  <2> DEFINE p == SPI!Padded(length)
             r == payload_remaining
  <2>1. /\ cs /\ pc = "caller" /\ kind = "write" /\ length = frame.announced
        /\ r + asked = p
        /\ p \in Nat /\ length <= p
    <3>1. p \in Nat /\ (p = length \/ p = length + 1) /\ length \in Nat
      BY PaddedFacts DEF NumbersOK
    <3> HIDE DEF p
    <3>2. length <= p
      BY <3>1, SMT
    <3> QED
      BY <1>8, <3>1, <3>2, Zenon DEF FrameInv, p
  <2>2. n <= r
    <3> HIDE DEF p
    <3> QED
      BY <2>1, <1>8, SMT DEF NumbersOK
  <2>3. /\ r' = r - n /\ clocked' = clocked + n /\ asked' = asked + n
        /\ UNCHANGED <<pc, kind, length, cs, irq, announced, complete>>
    BY <1>8, <2>2, Zenon DEF SPI!Transfer, SPI!Clocked
  <2>4. LinesOK'
    BY <2>3, Zenon DEF LinesOK
  <2>5. NumbersOK'
    <3> HIDE DEF p
    <3> QED
      BY <1>8, <2>2, <2>3, SMT DEF NumbersOK, Places
  <2>6. SPI!Padded(length)' = p
    BY <2>3 DEF SPI!Padded
  <2>7. r - n + (asked + n) = p
    <3> HIDE DEF p
    <3> QED
      BY <2>1, SMT DEF NumbersOK
  <2>8. frame' = frame /\ Upto(frame, part)' = asked'
    BY <1>8, <2>3, Zenon
  <2>9. FrameInv'
    <3> HIDE DEF p
    <3> QED
      BY <1>8, <2>1, <2>3, <2>6, <2>7, <2>8, SMT DEF FrameInv
  <2> QED
    BY <2>4, <2>5, <2>9
<1>9. CASE Header
  <2>1. /\ place = "header" /\ place' = "parts" /\ part' = 0
        /\ SPI!Transfer(frame.header) /\ UNCHANGED frame
    BY <1>9, Zenon DEF Header
  <2>2. /\ asked = 0 /\ frame.header \in Nat /\ frame.header <= frame.announced
        /\ Upto(frame, 0) = frame.header
    BY <2>1, UptoFacts DEF FrameInv, GoodFrame
  <2>3. 0 <= Len(frame.parts)
    BY DEF GoodFrame, Counted
  <2>4. asked + frame.header = frame.header
    BY <2>2
  <2> QED
    BY <1>8, <2>1, <2>2, <2>3, <2>4
<1>10. CASE WritePart
  <2> DEFINE n == frame.parts[part + 1]
  <2>1. /\ place = "parts" /\ place' = "parts" /\ part' = part + 1
        /\ part < Len(frame.parts)
        /\ SPI!Transfer(n) /\ UNCHANGED frame
    BY <1>10, Zenon DEF WritePart
  <2>2. /\ n \in Nat /\ asked = Upto(frame, part)
        /\ Upto(frame, part + 1) = asked + n
        /\ Upto(frame, part + 1) <= frame.announced
    BY <2>1, UptoFacts DEF FrameInv, GoodFrame, NumbersOK
  <2>3. part + 1 \in 0 .. 3 /\ part + 1 <= Len(frame.parts)
    <3>1. Len(frame.parts) \in Nat /\ Len(frame.parts) <= 3
      BY DEF GoodFrame, Counted
    <3> QED
      BY <2>1, <3>1, SMT DEF NumbersOK
  <2> HIDE DEF n
  <2> QED
    BY <1>8, <2>1, <2>2, <2>3
<1>11. CASE EndCall \/ EndPatchPiece
  <2>1. /\ place = "parts" /\ place' \in Away /\ UNCHANGED part
        /\ SPI!EndTransaction
    BY <1>0, <1>11, Zenon DEF EndCall, EndPatchPiece, Away
  <2>2. LinesOK'
    BY <2>1, Zenon DEF SPI!EndTransaction, LinesOK
  <2>3. NumbersOK'
    BY <2>1, SMT DEF SPI!EndTransaction, NumbersOK, Places, Away
  <2>4. FrameInv'
    BY <2>1, SMT DEF SPI!EndTransaction, SPI!InTransaction, FrameInv, Away
  <2> QED
    BY <2>2, <2>3, <2>4
<1>12. CASE ChipIrq
  <2>1. /\ UNCHANGED <<pc, cs, payload_remaining, kind, length, announced,
                       clocked, complete, asked, place, frame, part>>
        /\ irq' \in BOOLEAN
    BY <1>12, Zenon DEF ChipIrq, SPI!IrqAssert, SPI!IrqDeassert, SPI!frame, calls
  <2>2. LinesOK'
    BY <2>1, Zenon DEF LinesOK
  <2>3. NumbersOK'
    BY <2>1, SMT DEF NumbersOK
  <2>4. FrameInv'
    BY <2>1, SMT DEF FrameInv, Upto, SPI!Padded
  <2> QED
    BY <2>2, <2>3, <2>4
<1>13. CASE UNCHANGED vars
  <2>1. UNCHANGED <<pc, cs, irq, payload_remaining, kind, length, announced,
                    clocked, complete, asked, place, frame, part>>
    BY <1>13, Zenon DEF vars, spi, calls
  <2>2. LinesOK'
    BY <2>1, Zenon DEF LinesOK
  <2>3. NumbersOK'
    BY <2>1, SMT DEF NumbersOK
  <2>4. FrameInv'
    BY <2>1, SMT DEF FrameInv, Upto, SPI!Padded
  <2> QED
    BY <2>2, <2>3, <2>4
<1> QED
  BY <1>1, <1>2, <1>3, <1>4, <1>5, <1>6, <1>7, <1>9, <1>10, <1>11, <1>12, <1>13,
     Zenon DEF Next, Continue
-----------------------------------------------------------------------------
LEMMA LoopKept ==
  ASSUME LoopInv, UNCHANGED loop, Pending' <=> Pending, Resting' => Resting,
         (Busy /\ frame.name = "send")' => loop.name = "none",
         place' # "loop"
  PROVE  LoopInv'
  BY Zenon DEF LoopInv

LEMMA QuietStep ==
  ASSUME LoopInv, PatchInv, UNCHANGED <<frame, loop, patch>>,
         (Busy /\ Busy') \/ UNCHANGED place
  PROVE  LoopInv' /\ PatchInv'
<1>1. CASE UNCHANGED place
  <2>1. (Busy' <=> Busy) /\ (Patching' <=> Patching)
    BY <1>1, Zenon DEF Busy, Patching
  <2>2. (Resting' <=> Resting) /\ (Pending' <=> Pending)
    BY <1>1, <2>1, Zenon DEF Resting, Pending
  <2> QED
    BY <1>1, <2>1, <2>2, Zenon DEF LoopInv, PatchInv
<1>2. CASE Busy /\ Busy'
  <2>1. /\ place \notin {"idle", "loop", "reply", "patch"}
        /\ place' \notin {"idle", "loop", "reply", "patch"}
    BY <1>2, SMT DEF Busy
  <2>2. Patching' <=> Patching
    BY <2>1, Zenon DEF Patching
  <2>3. (Resting' <=> Resting) /\ (Pending' <=> Pending)
    BY <2>1, <2>2, Zenon DEF Resting, Pending
  <2> QED
    BY <1>2, <2>1, <2>2, <2>3, Zenon DEF LoopInv, PatchInv
<1> QED
  BY <1>1, <1>2

(* The steps that write, wait or answer leave both loops alone.            *)
LEMMA QuietActions ==
  ASSUME LoopInv, PatchInv,
         Start \/ Selected \/ Header \/ WritePart \/ ChipIrq \/ UNCHANGED vars
  PROVE  LoopInv' /\ PatchInv'
<1>1. UNCHANGED <<frame, loop, patch>>
  BY Zenon DEF Start, Selected, Header, WritePart, ChipIrq, vars, calls
<1>2. (Busy /\ Busy') \/ UNCHANGED place
  BY Zenon DEF Start, Selected, Header, WritePart, ChipIrq, vars, calls, Busy
<1> QED
  BY <1>1, <1>2, QuietStep

LEMMA LoopStep ==
  ASSUME LoopInv, PatchInv, place \in Places, [Next]_vars
  PROVE  LoopInv'
<1>1. ASSUME NEW f \in Frames, Call(f)
      PROVE  LoopInv'
  <2>1. /\ place' = "start" /\ frame'.name # "send_patch"
        /\ loop' = Loop("none", 0)
    BY <1>1, FrameNames, Zenon DEF Call, Write
  <2>2. ~Resting'
    BY <2>1, SMT DEF Resting, Patching
  <2>3. /\ loop'.name = "none" /\ loop'.pieces = <<>> /\ loop'.length = 0
        /\ loop'.offset = 0 /\ loop'.remaining = 0
    BY <2>1 DEF Loop
  <2>4. loop' \in Loops
    BY <2>1, NewLoop
  <2>5. Tiles(loop', Maximum(loop'))
    BY <2>3, EmptyLoop
  <2> QED
    BY <2>1, <2>2, <2>3, <2>4, <2>5, SMT DEF LoopInv, Maximum
<1>2. ASSUME NEW n \in Files, NEW l \in {"write_patch", "dump_nvram_file"},
             CallLoop(l, n)
      PROVE  LoopInv'
  <2>1. place' = "loop" /\ loop' = Loop(l, n)
    BY <1>2, Zenon DEF CallLoop
  <2>2. ~Resting' /\ ~Pending' /\ ~Busy'
    BY <2>1, SMT DEF Resting, Patching, Pending, Busy
  <2>3. /\ loop'.name = l /\ loop'.pieces = <<>> /\ loop'.length = n
        /\ loop'.offset = 0 /\ loop'.remaining = n /\ n \in Nat
    BY <2>1, LengthAssumption DEF Loop
  <2>4. loop' \in Loops
    BY <2>1, <2>3, NewLoop
  <2>6. /\ Tiles(loop', Maximum(loop'))
        /\ Between(loop') /\ DumpBetween(loop')
    BY <2>3, EmptyLoop
  <2>5. loop'.name # "none"
        /\ loop'.name \in {"none", "write_patch", "dump_nvram_file"}
    BY <2>3
  <2> QED
    BY <2>2, <2>4, <2>5, <2>6, Zenon DEF LoopInv
<1>3. CASE WritePiece
  <2> DEFINE n == Smaller(loop.remaining, PieceMaximum)
  <2>1. /\ place = "loop" /\ loop.name = "write_patch" /\ place' = "start"
        /\ frame' = NvramWrite(n) /\ loop' = WithPiece(loop, n)
    BY <1>3, Zenon DEF WritePiece, Write
  <2>2. ~Resting' /\ Pending' /\ ~Pending
    BY <2>1, FrameNames, SMT DEF Resting, Patching, Pending
  <2>3. Between(loop) /\ Tiles(loop, PieceMaximum) /\ loop \in Loops
    BY <2>1, <2>2, SMT DEF LoopInv, Maximum
  <2>4. /\ loop' \in Loops /\ Tiles(loop', PieceMaximum) /\ During(loop')
        /\ loop'.name = "write_patch"
    BY <2>1, <2>3, BeginPiece
  <2>5. frame'.name # "send"
    BY <2>1, FrameNames, SMT
  <2> QED
    BY <2>2, <2>4, <2>5, SMT DEF LoopInv, Maximum
<1>4. CASE DumpPiece
  <2>1. /\ place = "loop" /\ loop.name = "dump_nvram_file" /\ place' = "start"
        /\ loop.offset < loop.length /\ frame' = NvramRead
        /\ loop' = WithPiece(loop,
                             Smaller(loop.length - loop.offset, DumpMaximum))
    BY <1>4, Zenon DEF DumpPiece, Write
  <2>2. ~Resting' /\ Pending' /\ ~Pending
    BY <2>1, FrameNames, SMT DEF Resting, Patching, Pending
  <2>3. DumpBetween(loop) /\ Tiles(loop, DumpMaximum) /\ loop \in Loops
    BY <2>1, <2>2, SMT DEF LoopInv, Maximum
  <2>4. /\ loop' \in Loops /\ Tiles(loop', DumpMaximum) /\ DumpDuring(loop')
        /\ loop'.name = "dump_nvram_file"
    BY <2>1, <2>3, BeginDump
  <2>5. frame'.name # "send"
    BY <2>1, FrameNames, SMT
  <2> QED
    BY <2>2, <2>4, <2>5, SMT DEF LoopInv, Maximum
<1>5. CASE LoopEnds
  <2>1. /\ place = "loop" /\ place' = "idle" /\ UNCHANGED <<frame, loop, patch>>
        /\ \/ loop.name = "write_patch" /\ loop.remaining = 0
           \/ loop.name = "dump_nvram_file" /\ loop.offset >= loop.length
    BY <1>5, Zenon DEF LoopEnds
  <2>2. ~Pending /\ ~Pending' /\ ~Busy'
    BY <2>1, SMT DEF Pending, Resting, Busy
  <2>3. loop.offset \in Nat /\ loop.length \in Nat
    BY LoopFields DEF LoopInv
  <2>4. Covered(loop) = loop.length
    BY <2>1, <2>2, <2>3, SMT DEF LoopInv, Between, DumpBetween, Smaller
  <2>5. loop' = loop /\ loop.name # "none"
    BY <2>1
  <2> QED
    BY <2>2, <2>4, <2>5, Zenon DEF LoopInv
<1>6. ASSUME NEW n \in PatchLengths, PatchesRequest(n)
      PROVE  LoopInv'
  <2>1. /\ place \in {"idle", "reply"} /\ place' = "patch"
        /\ patch' = [Loop("send_patch", n) EXCEPT !.back = place]
        /\ UNCHANGED loop
    BY <1>6, Zenon DEF PatchesRequest
  <2>2. patch'.back = place
    BY <2>1 DEF Loop
  <2>3. /\ Resting <=> place = "idle"
        /\ Resting' <=> place = "idle"
        /\ ~Busy' /\ place # "loop" /\ place' # "loop"
    BY <2>1, <2>2, SMT DEF Resting, Patching, Busy
  <2> QED
    BY <2>1, <2>3, LoopKept, Zenon DEF Pending
<1>7. CASE PatchPiece
  <2> DEFINE n == Smaller(patch.remaining, PieceMaximum)
  <2>1. /\ place = "patch" /\ place' = "start" /\ frame' = Patch(n)
        /\ patch' = WithPiece(patch, n) /\ UNCHANGED loop
    BY <1>7, Zenon DEF PatchPiece, Write
  <2>2. patch'.back = patch.back
    BY <2>1 DEF WithPiece, PatchInv, Loops
  <2>3. frame'.name = "send_patch"
    BY <2>1, FrameNames
  <2>4. /\ Resting <=> patch.back = "idle"
        /\ Resting' <=> patch.back = "idle"
        /\ frame'.name # "send" /\ place # "loop" /\ place' # "loop"
    BY <2>1, <2>2, <2>3, SMT DEF Resting, Patching
  <2> QED
    BY <2>1, <2>4, LoopKept, Zenon DEF Pending
<1>8. CASE EndCall
  <2>1. /\ place = "parts" /\ frame.name # "send_patch" /\ UNCHANGED loop
        /\ place' = IF frame.name = "send" THEN "idle" ELSE "reply"
        /\ UNCHANGED <<frame, patch>>
    BY <1>8, Zenon DEF EndCall
  <2>2. ~Patching /\ ~Patching' /\ ~Resting /\ Pending /\ ~Busy'
    BY <2>1, SMT DEF Patching, Resting, Pending, Busy
  <2>3. CASE frame.name = "send"
    <3>1. loop.name = "none" /\ place' = "idle"
      BY <2>1, <2>3, SMT DEF LoopInv, Busy
    <3>2. Covered(loop) = loop.length
      BY <3>1 DEF LoopInv, Covered
    <3>3. loop' = loop /\ place' # "loop"
          /\ loop.name # "write_patch" /\ loop.name # "dump_nvram_file"
      BY <2>1, <3>1
    <3> QED
      BY <2>2, <3>1, <3>2, <3>3, Zenon DEF LoopInv
  <2>4. CASE frame.name # "send"
    <3>1. place' = "reply" /\ ~Resting' /\ Pending' /\ place' # "loop"
      BY <2>1, <2>2, <2>4, SMT DEF Resting, Pending
    <3> QED
      BY <2>1, <2>2, <3>1, LoopKept, Zenon
  <2> QED
    BY <2>3, <2>4
<1>9. CASE EndPatchPiece
  <2>1. /\ place = "parts" /\ frame.name = "send_patch" /\ UNCHANGED loop
        /\ place' \in {patch.back, "patch"}
        /\ patch' = Advanced(patch)
    BY <1>9, Zenon DEF EndPatchPiece
  <2>2. patch'.back = patch.back /\ patch.back \in {"idle", "reply"}
    BY <2>1 DEF Advanced, PatchInv, Loops
  <2>3. /\ Resting <=> patch.back = "idle"
        /\ Resting' <=> patch.back = "idle"
        /\ ~Busy' /\ place # "loop" /\ place' # "loop"
    BY <2>1, <2>2, SMT DEF Resting, Patching, Busy
  <2> QED
    BY <2>1, <2>3, LoopKept, Zenon DEF Pending
<1>10. CASE Reply
  <2>1. place = "reply" /\ UNCHANGED <<frame, patch>>
    BY <1>10, Zenon DEF Reply
  <2>2. ~Patching /\ ~Resting /\ Pending
    BY <2>1, SMT DEF Patching, Resting, Pending
  <2>3. CASE loop.name = "none"
    <3>1. place' = "idle" /\ loop' = loop
      BY <1>10, <2>3, SMT DEF Reply
    <3>2. Covered(loop) = loop.length
      BY <2>3 DEF LoopInv, Covered
    <3>3. loop.name # "write_patch" /\ loop.name # "dump_nvram_file"
          /\ place' # "loop" /\ ~Busy'
      BY <2>3, <3>1, SMT DEF Busy
    <3> QED
      BY <2>3, <3>1, <3>2, <3>3, Zenon DEF LoopInv
  <2>4. CASE loop.name = "write_patch"
    <3>1. place' = "loop" /\ loop' = Advanced(loop)
      BY <1>10, <2>4, SMT DEF Reply
    <3>2. During(loop) /\ Tiles(loop, PieceMaximum) /\ loop \in Loops
      BY <2>2, <2>4, SMT DEF LoopInv, Maximum
    <3>3. /\ loop' \in Loops /\ Tiles(loop', PieceMaximum) /\ Between(loop')
          /\ loop'.name = "write_patch"
      BY <2>4, <3>1, <3>2, EndPiece
    <3>4. ~Resting' /\ ~Pending' /\ ~Busy'
      BY <3>1, SMT DEF Resting, Pending, Patching, Busy
    <3> QED
      BY <3>3, <3>4, SMT DEF LoopInv, Maximum
  <2>5. CASE loop.name = "dump_nvram_file"
    <3>1. place' = "loop" /\ loop' = [loop EXCEPT !.offset = @ + DumpMaximum]
      BY <1>10, <2>5, SMT DEF Reply
    <3>2. DumpDuring(loop) /\ Tiles(loop, DumpMaximum) /\ loop \in Loops
      BY <2>2, <2>5, SMT DEF LoopInv, Maximum
    <3>3. /\ loop' \in Loops /\ Tiles(loop', DumpMaximum) /\ DumpBetween(loop')
          /\ loop'.name = "dump_nvram_file"
      BY <2>5, <3>1, <3>2, EndDump
    <3>4. ~Resting' /\ ~Pending' /\ ~Busy'
      BY <3>1, SMT DEF Resting, Pending, Patching, Busy
    <3> QED
      BY <3>3, <3>4, SMT DEF LoopInv, Maximum
  <2> QED
    BY <2>3, <2>4, <2>5 DEF LoopInv
<1> QED
  BY <1>1, <1>2, <1>3, <1>4, <1>5, <1>6, <1>7, <1>8, <1>9, <1>10, QuietActions,
     Zenon DEF Next, Continue

LEMMA PatchStep ==
  ASSUME LoopInv, PatchInv, place \in Places, [Next]_vars
  PROVE  PatchInv'
<1>1. CASE \/ \E f \in Frames : Call(f)
           \/ \E n \in Files, l \in {"write_patch", "dump_nvram_file"} :
                CallLoop(l, n)
           \/ WritePiece \/ DumpPiece \/ LoopEnds \/ Reply
  <2>1. /\ place \in {"idle", "loop", "reply"} /\ place' # "patch"
        /\ UNCHANGED patch
        /\ \/ place' = "start" /\ frame'.name # "send_patch"
           \/ place' \in {"idle", "loop"}
    BY <1>1, FrameNames, SMT
       DEF Call, CallLoop, WritePiece, DumpPiece, LoopEnds, Reply, Write
  <2>2. ~Patching /\ ~Patching'
    BY <2>1, SMT DEF Patching
  <2>3. ~(Busy /\ frame.name = "send_patch")'
    BY <2>1, SMT DEF Busy
  <2> QED
    BY <2>1, <2>2, <2>3, Zenon DEF PatchInv
<1>2. ASSUME NEW n \in PatchLengths, PatchesRequest(n)
      PROVE  PatchInv'
  <2>1. /\ place \in {"idle", "reply"} /\ place' = "patch"
        /\ patch' = [Loop("send_patch", n) EXCEPT !.back = place]
    BY <1>2, Zenon DEF PatchesRequest
  <2>2. /\ patch'.pieces = <<>> /\ patch'.length = n
        /\ patch'.offset = 0 /\ patch'.remaining = n /\ n \in Nat
    BY <2>1, LengthAssumption DEF Loop
  <2>3. patch' \in Loops
    BY <2>1, <2>2, NewLoop
  <2>4. Tiles(patch', PieceMaximum) /\ Between(patch')
    BY <2>2, EmptyLoop
  <2>5. Patching' /\ ~Busy'
    BY <2>1, SMT DEF Patching, Busy
  <2> QED
    BY <2>3, <2>4, <2>5, Zenon DEF PatchInv
<1>3. CASE PatchPiece
  <2> DEFINE n == Smaller(patch.remaining, PieceMaximum)
  <2>1. /\ place = "patch" /\ place' = "start" /\ frame' = Patch(n)
        /\ patch' = WithPiece(patch, n)
    BY <1>3, Zenon DEF PatchPiece, Write
  <2>2. /\ patch' \in Loops /\ Tiles(patch', PieceMaximum) /\ During(patch')
    BY <2>1, BeginPiece DEF PatchInv
  <2>3. Patching' /\ place' # "patch"
    BY <2>1, FrameNames, SMT DEF Patching
  <2> QED
    BY <2>2, <2>3, Zenon DEF PatchInv
<1>4. CASE EndCall
  <2>1. /\ place = "parts" /\ frame.name # "send_patch" /\ UNCHANGED patch
        /\ place' \in {"idle", "reply"}
    BY <1>4, SMT DEF EndCall
  <2>2. ~Patching /\ ~Patching' /\ ~Busy' /\ place' # "patch"
    BY <2>1, SMT DEF Patching, Busy
  <2> QED
    BY <2>1, <2>2, Zenon DEF PatchInv
<1>5. CASE EndPatchPiece
  <2>1. /\ place = "parts" /\ frame.name = "send_patch"
        /\ patch' = Advanced(patch)
        /\ place' = IF patch'.remaining = 0 THEN patch.back ELSE "patch"
    BY <1>5, Zenon DEF EndPatchPiece
  <2>2. During(patch) /\ Tiles(patch, PieceMaximum) /\ patch \in Loops
    BY <2>1, SMT DEF PatchInv, Busy
  <2>3. patch' \in Loops /\ Tiles(patch', PieceMaximum) /\ Between(patch')
    BY <2>1, <2>2, EndPiece
  <2>4. patch.back \in {"idle", "reply"}
    BY <2>2 DEF Loops
  <2>5. ~Busy' /\ (place' = "patch" => Patching')
    BY <2>1, <2>4, SMT DEF Busy, Patching
  <2>6. place' # "patch" => Covered(patch') = patch'.length
    <3>1. place' # "patch" => patch'.remaining = 0
      BY <2>1
    <3>2. patch'.offset \in Nat
      BY <2>3, LoopFields
    <3> QED
      BY <2>3, <3>1, <3>2, SMT DEF Between
  <2> QED
    BY <2>3, <2>5, <2>6, Zenon DEF PatchInv
<1> QED
  BY <1>1, <1>2, <1>3, <1>4, <1>5, QuietActions, Zenon DEF Next, Continue

LEMMA GoodFrameStep ==
  ASSUME GoodFrame(frame), loop \in Loops, patch \in Loops, [Next]_vars
  PROVE  GoodFrame(frame')
<1>1. ASSUME NEW f \in Frames, Call(f)
      PROVE  GoodFrame(frame')
  BY <1>1, FramesGood DEF Call, Write
<1>2. ASSUME NEW r \in Nat
      PROVE  /\ Smaller(r, PieceMaximum) \in Nat
             /\ Smaller(r, PieceMaximum) <= PieceMaximum
             /\ 21 + Smaller(r, PieceMaximum) < LengthLimit
  BY LengthAssumption, LimitFacts, SMT DEF Smaller
<1>3. CASE WritePiece
  <2>1. loop.remaining \in Nat
    BY LoopFields
  <2>2. frame' = NvramWrite(Smaller(loop.remaining, PieceMaximum))
    BY <1>3, Zenon DEF WritePiece, Write
  <2> QED
    BY <1>2, <2>1, <2>2, NvramWriteGood
<1>4. CASE DumpPiece
  BY <1>4, NvramReadGood DEF DumpPiece, Write
<1>5. CASE PatchPiece
  <2>1. patch.remaining \in Nat
    BY LoopFields
  <2>2. frame' = Patch(Smaller(patch.remaining, PieceMaximum))
    BY <1>5, Zenon DEF PatchPiece, Write
  <2> QED
    BY <1>2, <2>1, <2>2, PatchGood
<1>6. CASE UNCHANGED frame
  BY <1>6
<1>7. \/ \E f \in Frames : Call(f)
      \/ WritePiece \/ DumpPiece \/ PatchPiece \/ UNCHANGED frame
  BY Zenon DEF Next, Continue, CallLoop, PatchesRequest, LoopEnds, Start,
     Selected, Header, WritePart, EndCall, EndPatchPiece, Reply, ChipIrq,
     vars, calls
<1> QED
  BY <1>1, <1>3, <1>4, <1>5, <1>6, <1>7

LEMMA InitIInv == Init => IInv
<1> SUFFICES ASSUME Init PROVE IInv
  OBVIOUS
<1>1. LinesOK
  BY Zenon DEF Init, SPI!Init, LinesOK
<1>2. NumbersOK
  BY LimitFacts, SMT DEF Init, SPI!Init, NumbersOK, Places
<1>3. GoodFrame(frame)
  BY NvramReadGood DEF Init
<1>4. FrameInv
  BY SMT DEF Init, SPI!Init, FrameInv
<1>5. /\ loop \in Loops /\ loop.pieces = <<>> /\ loop.length = 0
      /\ loop.offset = 0 /\ loop.remaining = 0 /\ loop.name = "none"
      /\ patch \in Loops /\ patch.pieces = <<>> /\ patch.length = 0
      /\ patch.offset = 0 /\ patch.remaining = 0 /\ place = "idle"
  BY NewLoop DEF Init, Loop
<1>6. /\ Covered(loop) = 0 /\ Tiles(loop, Maximum(loop))
      /\ Covered(patch) = 0 /\ Tiles(patch, PieceMaximum)
  BY <1>5, EmptyLoop
<1>7. LoopInv
  BY <1>5, <1>6, SMT DEF LoopInv, Busy
<1>8. PatchInv
  BY <1>5, <1>6, SMT DEF PatchInv, Busy
<1> QED
  BY <1>1, <1>2, <1>3, <1>4, <1>7, <1>8 DEF IInv

LEMMA StepIInv == IInv /\ [Next]_vars => IInv'
<1> SUFFICES ASSUME IInv, [Next]_vars PROVE IInv'
  OBVIOUS
<1>1. loop \in Loops /\ patch \in Loops /\ place \in Places
  BY Zenon DEF IInv, LoopInv, PatchInv, NumbersOK
<1>2. LinesOK' /\ NumbersOK' /\ FrameInv'
  BY <1>1, FrameStep, Zenon DEF IInv
<1>3. GoodFrame(frame)'
  BY <1>1, GoodFrameStep, Zenon DEF IInv
<1>4. LoopInv' /\ PatchInv'
  BY <1>1, LoopStep, PatchStep, Zenon DEF IInv
<1> QED
  BY <1>2, <1>3, <1>4, Zenon DEF IInv

(* The strengthened invariant holds in every reachable state.              *)
THEOREM SpecIInv == Spec => []IInv
  BY InitIInv, StepIInv, PTL DEF Spec
-----------------------------------------------------------------------------
(* Type correctness of the commands and of the SPI layer under them.       *)
THEOREM TypeCorrect == Spec => []TypeOK
<1>1. IInv => TypeOK
  <2> SUFFICES ASSUME IInv PROVE TypeOK
    OBVIOUS
  <2>2. LinesOK /\ NumbersOK /\ loop \in Loops /\ patch \in Loops
    BY Zenon DEF IInv, LoopInv, PatchInv
  <2>3. place \in Places /\ part \in 0 .. 3
    BY <2>2, Zenon DEF NumbersOK
  <2>4. LengthLimit = SPI!HeaderLimit
    BY DEF LengthLimit, SPI!HeaderLimit
  <2>1. SPI!TypeOK
    BY <2>2, <2>4, Zenon DEF LinesOK, NumbersOK, SPI!TypeOK
  <2> QED
    BY <2>1, <2>2, <2>3, Zenon DEF TypeOK
<1> QED
  BY SpecIInv, <1>1, PTL

(* Every call transfers what it announced, and the pad byte is all that    *)
(* end_transaction() adds, for names, keys and buffers of every length.    *)
THEOREM FramesAreAlwaysFilled == Spec => []FramesAreFilled
<1>1. IInv => FramesAreFilled
  <2> SUFFICES ASSUME IInv, Written
               PROVE  asked = length
                      /\ payload_remaining = SPI!Padded(length) - length
    BY DEF FramesAreFilled
  <2>1. asked = length /\ payload_remaining + asked = SPI!Padded(length)
    BY SMT DEF IInv, Written, FrameInv, GoodFrame, Counted
  <2>2. payload_remaining \in Nat /\ asked \in Nat
    BY DEF IInv, NumbersOK
  <2>3. SPI!Padded(length) \in Nat
    BY <2>1, <2>2, PaddedFacts
  <2> QED
    BY <2>1, <2>2, <2>3, SMT
<1> QED
  BY SpecIInv, <1>1, PTL

(* The length in the HCI header is that of the bytes behind it whenever it *)
(* has the bits to tell it, and every offset leads to the part it is for.  *)
THEOREM FramesAreAlwaysUnderstood == Spec => []FramesAreUnderstood
<1>1. IInv => FramesAreUnderstood
  <2> SUFFICES ASSUME IInv, Written
               PROVE  /\ asked - frame.header < frame.limit
                           => frame.told = asked - frame.header
                      /\ \A o \in frame.offsets :
                           /\ o.at + o.value = o.starts
                           /\ o.starts <= asked - frame.header
    BY DEF FramesAreUnderstood
  <2>1. asked = frame.announced
    BY SMT DEF IInv, Written, FrameInv, GoodFrame, Counted
  <2> QED
    BY <2>1, Zenon DEF IInv, GoodFrame, Understood
<1> QED
  BY SpecIInv, <1>1, PTL

(* The pieces of every loop tile what the loop was given, for every length *)
(* and piece size, whatever the chip asks for in between.                  *)
THEOREM PiecesAlwaysTile == Spec => []PiecesTile
<1>1. IInv => PiecesTile
  <2> SUFFICES ASSUME IInv PROVE PiecesTile
    OBVIOUS
  <2>1. Tiles(loop, IF loop.name = "dump_nvram_file" THEN DumpMaximum
                                                      ELSE PieceMaximum)
    BY Zenon DEF IInv, LoopInv, Maximum
  <2>2. place = "idle" => Covered(loop) = loop.length
    BY Zenon DEF IInv, LoopInv, Resting
  <2> QED
    BY <2>1, <2>2, Zenon DEF IInv, PatchInv, PiecesTile
<1> QED
  BY SpecIInv, <1>1, PTL
=============================================================================
