# TLA+ models of the Monulator firmware

Monulator (`monulator-arm-lpc11u/firmware`) is the firmware of a small ARM
board with a TI CC3000 Wi-Fi chip. It joins a network, fetches one document
about the aurora from a web server, and shows on an LED whether it is
connected. It is one thread without an operating system and without
interrupts: whatever happens concurrently happens in the chip, and reaches the
program through an IRQ line that it polls and frames that it reads over SPI.

Paths below are relative to `monulator-arm-lpc11u/firmware`.

## Inventory

| component | source | state | operations | modelled in |
|---|---|---|---|---|
| SPI layer | `cc3000_spi.cpp` | chip-select, `payload_remaining` | start_read, start_write, read, write, end_transaction, init, reset | `CC3000SPI` |
| HCI layer | `cc3000_hci.cpp` | the open transaction, the response being read | start, end, wait_for, wait_for_data, handle_unsolicited_events, get_next_event, send_patch | `CC3000HCI`, `CC3000Commands` |
| chip power, buffers | `cc3000.cpp` | - | enable, disable, read_buffer_size, check_for_unsolicited_events | `CC3000HCI`, `CC3000SPI`, `StartUp` |
| WLAN | `cc3000_wlan.cpp` | initialized, connected, dhcp | six commands, handle_unsolicited_event | `CC3000HCI`, `CC3000Commands`, `Monulator` |
| sockets | `cc3000_socket.cpp` | - | socket, close_socket, gethostbyname, connect, select, send, recv | `CC3000HCI`, `CC3000Commands`, `Monulator` |
| NVRAM | `cc3000_nvram.cpp` | - | read_sp_version, read, write, write_patch | `CC3000HCI`, `CC3000Commands` |
| HTTP client | `http.cpp` | socket, state, parser | open, close, parser callbacks | `Monulator` |
| CSV parser, aurora sink | `csv_parser.cpp`, `stream_buffer.h`, `aurora_swpc.cpp` | state, cell buffer, row, column, level | feed | `CsvParser` |
| main program | `main.cpp` | LED | set up the board, start the chip, wait for address, fetch, loop | `StartUp`, `Monulator`, `CC3000Commands` (the NVRAM dump) |
| serial log | `serial.cpp` | none; the UART's registers | init, write string, line, hex | `Serial`, `StartUp` |
| microcontroller support | `lpc11u.*`, `startup_lpc11u.S`, `sections.ld` | the hardware's registers | clock sources, gates, resets, pins, UART | `StartUp` (the methods start-up calls) |
| kfifo | `kfifo.h` | two indices, data | in, out, out_peek, reset, reset_out, put, get, peek | `KFifo` (not put, get, peek) |
| hardware designs | `monulator-arm-lpc11u/hardware`, `monulator-usb-avr8` | - | - | no code |

How they interact. `main` calls the HTTP client, the client the socket calls,
those the HCI layer, that the SPI layer; all calls are synchronous. The body of
the HTTP response goes through the parser's callback into the CSV parser and
from there, cell by cell, into the aurora sink. In the other direction the
chip's unsolicited events are picked up by whatever function polls at the
moment (`get_next_event`), in the middle of any call, and set the WLAN flags
that `main` reads between calls; one of them, a request for patches, makes the
HCI layer write frames of its own from inside the poll.

What is hard, and what must hold:

* *Transactions.* Chip-select is released by `end()`, which is called, or
  forgotten, at every leaf of the poll; the next transaction spins for ever if
  it is still asserted. Every transaction opened must be closed, in every
  nesting and interleaving.
* *Framing.* The chip must clock exactly the frame that was announced, whether
  the caller transfers too little or too much, and after a reset. The announced
  length, the length in the HCI header and the offsets in the arguments are
  computed by hand in each call, and must agree with what the call then writes.
* *Pieces.* Patches and NVRAM files go in pieces, which must cover the whole
  without gap or overlap.
* *Pairing.* Events, replies and data come through one queue. A call must get
  its own reply, and must leave nothing behind for the next call.
* *Flags.* The WLAN flags lag behind the link; they must catch up whoever polls.
* *Termination.* Calls and polls return although events keep coming and IRQ
  goes down late.
* *Sockets.* Every way out of the fetch closes the socket, once.
* *Parsing.* No character is lost or moved between cells; the buffer is never
  overrun; malformed input stops the parser for good.
* *Start-up.* Nothing is used before its clock runs; the chip gets power after
  its pins are set and is selected after it is ready; waits for hardware end.
* *The log.* A character written to a full UART is lost; digits come from a
  recursion over two counters.
* *Wrapping.* kfifo never reduces its indices; their difference must stay the
  number of elements when they wrap.

## Modules

| module | what it is |
|---|---|
| `CC3000SPI` | the SPI layer byte for byte, with an arbitrary caller |
| `CC3000Commands` | what each call of the driver writes, over `CC3000SPI`, and the loops over pieces |
| `CC3000HCI` | the HCI layer and the calls through it, frame for frame, against the chip |
| `Monulator` | main program and HTTP client, call for call, against the chip and the network |
| `WifiDriver` | what the driver promises the program: the abstract specification `CC3000HCI` implements |
| `CsvParser` | CSV parser, cell buffer and aurora sink, character for character |
| `StartUp` | main() from reset to the first transaction, against clocks, UART and chip |
| `Serial` | the log, character for character; composed into `StartUp` |
| `BoundedFifo`, `KFifo` | a bounded queue, and the ring of `kfifo.h` that implements it |
| `CC3000SPI_proofs`, `CC3000Commands_proofs`, `CC3000HCI_proofs`, `Monulator_proofs`, `CsvParser_proofs`, `StartUp_proofs`, `KFifo_proofs` | theorems about them |
| `DataLemmas` | what the proofs need to know of data: induction, `FlattenSeq` of a sequence with one more at its end or in front, and powers |
| `MCCC3000SPI`, `MCCC3000Commands`, `MCCC3000HCI`, `MCMonulator`, `MCCsvParser`, `MCStartUp`, `MCKFifo` | instances for TLC |

The driver-side modules are layers. `CC3000SPI` shows what one transaction
does, for a caller that does anything; `CC3000Commands` replaces that caller by
the driver's calls and shows that none of them needs to be cut off or padded;
`CC3000HCI` then takes a transaction for one interval of chip-select and shows
what one call does; `Monulator` takes a call for three steps (issued, answered, taken) and shows what the program does. What a layer
assumes of the one below is a property checked there: `FrameIsExact` and
`HeaderIsSent` below `CC3000HCI`, `CallReturns`, `RepliesArePaired` and
`FlagsFollowLink` below `Monulator`.

Each module ends with its properties. Definitions whose comment starts with
"Variant" are faulty forms of the definition after them, one per property; they
are no part of the specification. Replacing the definition by its variant makes
TLC find the property violated, so every property can fail.

### CC3000SPI

`pc` is `"caller"` while the driver's caller runs, `"wait_irq"` in the loop at
the end of `start_transaction()`, `"hung"` in its `while(true)`. `cs`, `irq` and
`payload_remaining` are the code's. `announced`, `clocked`, `asked`, `length`
and `complete` record what has happened in the transaction and exist for the
properties. One action per function: `StartTransaction`/`StartDangling`,
`WriteHeader` and `ReadHeader` (the rest of `start_write`, `start_read`),
`InitFrame`, `Transfer` (`read`, `write`), `EndTransaction`, `Reset`. The bytes
of one call are one step: nothing else runs meanwhile, and the chip does not act
between the bytes of a frame.

### CC3000Commands

A call is a record: its header's bytes, the length it announces, the length it
states in the header (8 bits for commands, 16 for data and patches), the sizes
of the parts it writes after the header, and the offsets it writes among its
arguments with the places they are meant to lead to. `Command`, `Data` and
`Patch` are the three forms of `start()`; `Connect`, `Select`, `Send` and the
others are the calls. `place` is where the thread is:

    idle -> start -> select -> header -> parts -> reply -> idle
    idle -> loop -> start ... reply -> loop ... -> idle      (a loop of calls)
    idle, reply -> patch -> start ... parts -> patch ... -> back

`Start`, `Selected`, `Header`, `WritePart` and `EndCall` compose the actions of
`CC3000SPI` with the call's; `WritePiece`, `DumpPiece` and `PatchPiece` are the
bodies of the loops in `write_patch()`, `dump_nvram_file()` and `send_patch()`,
the last of which the chip requests while another call waits for its reply
(`PatchesRequest`). `Reply` counts a piece, whatever its status: the loops go
on after a failure, as the code does.

### CC3000HCI

`pc` is the place of the thread:

    idle -> call -> call_ready -> poll -> read_ready -> dispatch -> poll ...
                                  poll -> patch -> patch_ready -> poll

`call` is the code between two transactions where a call starts, `*_ready` the
wait inside `start_transaction()`, `dispatch` the code that looks at the header
just read, `hung` the `while(true)`. `waiter` tells which function polls:
`wait_for` (`"event"`), `wait_for_data` (`"data"`) or
`handle_unsolicited_events` (`"poll"`). There is an action for each leaf of the
poll: `BadHeader`, `FreeBuffer`, `PatchesRequest`, `LinkEvent` inside
`get_next_event`; `PollDone`, `SkipEvent`, `TakeReply`, `AwaitData`, `TakeData`,
`SkipForData` in the three waiters and the calls above them. Calls differ only
in shape: a command and its event; with a data frame after the event (`recv`,
`nvram.read`); without any event (`send`); without `end()`
(`read_buffer_size`).

The chip is external. It answers one command at a time, changes its link, asks
for patches, frees buffers, and may send events the host has no case for
(`Strays`; the HCI layer has no case for TX_COMPLETE, which `init_cc3000` does
not mask, nor for WLAN_INIT). Replies carry the number of the command they
answer, which the real ones do not, so that pairing can be stated.

### WifiDriver

The promise in terms of the program: it makes one call at a time or polls; a
call returns its own result; changes of the link are news, learned one by one,
in order, and only during a call that waits or a poll; calls and polls return.
The mapping at the end of `CC3000HCI`: `Phase` is read off `pc`, `waiter` and
`call`; `Answered` is the number the reply carried, once the call is over;
`News` are the link events queued or in the thread's hands; `Seen` are the WLAN
flags. `KeepsPromise` is the safety part, and holds whatever the chip sends: a
thread that hangs in `start_transaction()` breaks no promise but the one to
return. `KeepsPromiseAndReturns` is all of it, for a chip that sends only what
the host knows. `Monulator` uses the driver at this level.

### Monulator

`pc` names the call the thread is in or the place between two calls. `Issue`
starts any call; `Started`, `Opened`, `Resolved`, `Connected`, `Received`,
`Closed` and `ClosedAgain` take the answers; `HandleEvent` is `get_next_event`
meeting an event of the link, in any call and in both polling loops; `PollEnds`
separates the end of a poll from the reading of the flag (`TestAddress`,
`ShowConnected`), because events may come in between. The chip keeps the set of
its open sockets and remembers those it failed to close (`stuck`).

### CsvParser

One action per branch of `feed()`. `input` is the document so far, kept for the
properties; the reference definitions (`NothingMisplaced`, `LevelIsSecondField`)
are stated over it. `atoi` is a constant operator.

### StartUp and Serial

A function of `main.cpp` is the sequence of its effects (`configure_pins`,
`start_system_pll`, ...), `main` their concatenation in the order of the calls,
and `pc` the next effect: a power bit, a clock source, a gate, a divider, a
reset line, a latch, a direction, a pin's function, an access to a peripheral, a
wait. One action for each kind of effect; `Wait` is enabled when the loop in the
code would end. The delays are left out, because they promise nothing: what
happens meanwhile happens whenever it likes (`ClockStarts`, `ChipWakes`,
`ChipReady`, `UartTransmits`). The log's calls in `init_cc3000()` go through
`Serial`, and after the first transaction (`Started`) the program may call the
log in any order (`LogMore`), which stands for every later use of it.

In `Serial`, `text` is what the call in progress has yet to put out, `thr` the
UART's queue, `wire` what has left it. `serial_write_hex_recursive` is the
code's recursion as a function; `Digits` is what a number should look like, told
without it.

### KFifo and BoundedFifo

`in_`, `out_` and `data` are the code's; the indices count modulo
`2^Width`, the bits of `size_t`. `copy_in` and `copy_out` are the two `memcpy`
each, cell by cell. `call` and `answer` are the arguments and results of the
last call, so that the abstract queue can promise them too. `BoundedFifo` holds
a sequence; the mapping reads it off the cells from `out_` on (`Contents`).

## Runs

| run | configuration | shows |
|---|---|---|
| `spi` | `MCCC3000SPI.cfg` | framing, for any caller, with resets |
| `hci_normal` | `MCHCI_normal.cfg` | transactions are closed, calls and polls return; implements `WifiDriver` |
| `hci_any` | `MCHCI_any.cfg` | pairing, flags and the places of the leaks, whatever the chip sends; implements the safety of `WifiDriver` |
| `hci_dangling` | `MCHCI_dangling.cfg` | counterexample: a stray event inside recv |
| `hci_buffer_size` | `MCHCI_buffer_size.cfg` | counterexample: read_buffer_size |
| `hci_receive_error` | `MCHCI_receive_error.cfg` | counterexample: recv of a negative count |
| `monulator` | `MCMonulator.cfg` | sockets, fetch and LED |
| `csv` | `MCCsvParser.cfg` | the parser against its reference definitions |
| `commands` | `MCCC3000Commands.cfg` | each call fills its frame, lengths and offsets lead where they should, pieces tile, calls end |
| `startup` | `MCStartUp.cfg` | clocks, power, chip and log from reset on; start-up ends |
| `startup_irq` | `MCStartUp_irq.cfg` | counterexample: a chip whose IRQ# is low from power-up on |
| `kfifo` | `MCKFifo.cfg` | the ring implements the bounded queue |

To repeat one: `tlc -config MCHCI_any.cfg MCCC3000HCI.tla`.

### What was found

* `wait_for_data()` skips a response without `end()` (`cc3000_hci.cpp:172-180`;
  the other two waiters `end()` it). One stray event between the event and the
  data of a `recv` leaves the transaction open; the next `start_transaction()`
  never returns. Run `hci_dangling`.
* `read_buffer_size()` has no `end()` (`cc3000.cpp:52-65`), with the same
  effect. It is called only by a diagnostic function that `main` does not call.
  Run `hci_buffer_size`.
* `recv()` tests the count of its event as an unsigned number
  (`cc3000_socket.cpp:240-244`), so a negative count makes it wait for data for
  ever, where `http.cpp:188` expects an error. Run `hci_receive_error`.
* `init()` waits for IRQ# to be low and selects the chip (`cc3000_spi.cpp:44-48`).
  The comment above it says that IRQ# starts low and goes up first, but the wait
  for that is commented out (`:36-41`). With the chip of the comment the host
  selects it before it is ready. Run `startup_irq`. With a chip whose IRQ# starts
  high `ChipReadyFirst` holds (run `startup`).

`LeaksOnlyThere` (run `hci_any`, and a theorem) shows that the first two are the
only places that leave a transaction open.

Two facts that are no findings, because nothing in the repository says otherwise.
The CSV parser understands a single line. After a line end only further line
ends are accepted, so the `row` it counts is never used for a cell other than 0
(`OneLine`). For the aurora sink, which looks at row 0 only, that is enough.
The parameter length of a command is one byte: a name and a key of more than 227
bytes together, or a host name of more than 247, make it wrap. The driver does
not check; Wi-Fi names and keys are shorter. `FramesAreUnderstood` therefore
speaks of lengths the header can tell.

### Bounds

* SPI: payloads of no bytes, of both parities and at the limit of the 16 bit
  header (65534, 65535); transfers of 1, 2 and 7 bytes, so that a frame is left
  short, filled exactly and overrun; at most 14 bytes asked for in a
  transaction. Transactions do not remember each other except through
  `payload_remaining`, whose stale value a reset between them leaves.
* HCI: three calls, the start of the chip included (two more after it, which
  makes every ordered pair of shapes), two unsolicited events in `hci_normal`
  and three in `hci_any` - connect, address and disconnect, or a link event, a
  request for patches and a stray. Opcodes 1 and 4 are one the host answers and
  one it does not. Calls of one shape run the same code, so one of each stands
  for it.
* Monulator: two sockets, a response of at most three chunks, five changes of
  the link (up, address, down, and up again).
* Commands: names and keys of 0 and 1 bytes and those that make the parameter
  length of `connect()` and `gethostbyname()` 255, the most it can tell, and 256;
  buffers of both parities; pieces of at most 2 bytes (512 in the code) and dumps
  of 3 (150), files of none, less than one, several, and several with a rest;
  patches of no bytes, which is what `main` sends, and of two pieces. The
  theorems cover every size.
* StartUp: a UART of two places (16 in the chip) and texts of three characters, so
  that it fills up; numbers of one to three digits with all kinds of digit, in
  widths below, equal to and above their own; five calls of the log (three are
  made by `init_cc3000()`). Start-up itself is straight-line code without bounds.
* KFifo: four cells, three-bit indices, which wrap after two rounds, two values,
  blocks of up to five elements and requests for as many, so that every block
  from every offset is full, split, or refused. The state space is finite without
  a bound on the calls.
* CSV: every document of up to seven characters over five classes, in a buffer
  of three places: enough for a first field that fits or does not, a second
  field, a line end and two characters after it. A larger buffer makes fields
  longer and nothing else; the theorems cover every size.

### Fairness

The firmware is one thread, so the thread's steps are weakly fair together
(`HostStep`, `Thread`, and in `CC3000SPI` the end of the wait in
`start_transaction`). What the program does of its own accord is not: nothing
makes it call, poll or restart the chip in `CC3000HCI`. Of the chip it is
assumed that it raises IRQ for what it holds, answers a command, and delivers
data it announced; without that no call of this driver can return, because no
wait has a timeout. It is not assumed that it ever raises an unsolicited event.
IRQ goes down some time after the last frame was read. The host reads while it
is up, so "IRQ stays up and the queue is empty" is interrupted by each of the
host's own transactions; the chip lowers the line in the end although it is
interrupted again and again, which is strong fairness of `IrqDeassert`. Without
it a poll could read empty headers for ever.

In `CC3000Commands` the thread runs on (`Continue`), the chip raises IRQ while the
host waits for it, and a reply comes although the chip asks for patches again and
again before it: strong fairness of `Reply`. In `StartUp` the processor, a UART
with a clock, a powered oscillator, a powered PLL with a running source and a
powered chip make progress; nothing else is assumed, so that a PLL selected from
a source that does not run would keep `main()` for ever.

The number of unsolicited events is bounded. An endless stream of them would
keep `get_next_event()` from returning, by its loop; the liveness properties say
that finitely many events never do.

## Proofs

TLAPS checks every theorem for all values of the constants.

* `CC3000SPI_proofs`: type correctness, `FrameIsExact`, `WritesAreEven`,
  `NothingDropped`, `RemainingIsOwed`. The inductive invariant adds to the last
  (what was clocked and what is owed make up the frame) the parity of what was
  announced in a write, and that a transaction that has not ended is the one
  chip-select is asserted for. Assumption: lengths fit the two bytes of the
  header.
* `CC3000Commands_proofs`: type correctness, `FramesAreFilled`,
  `FramesAreUnderstood`, `PiecesTile`, for texts, files, patches and pieces of
  every length below the header's limit (`LengthAssumption`). `GoodFrame` says
  what a call's own arithmetic must give - what is announced is the sum of the
  parts - and is proved call by call; `FrameInv` then follows the bytes: before
  each part, what was asked for is the parts before it, and `CC3000SPI` owes the
  rest. `LoopInv` and `PatchInv` tell where the loop variables stand between two
  pieces and during one, which differ by the piece that is not yet counted.
* `CC3000HCI_proofs`: type correctness; `TransactionsClosed` under `Tame` (no
  strays, no `read_buffer_size`); and `LeaksOnlyThere` without conditions. The
  conditions of the first are those the counterexamples show to be needed. It is
  not inductive: `wait_for_data` would leak if it were given a reply. The
  invariant `TInv` therefore tells where the single reply can be - owed by the
  chip, queued, or in the thread's hands - and that the thread then waits in
  `wait_for`. `LeaksOnlyThere` is a property of steps and holds from any state.
  `RepliesArePaired` and `FlagsFollowLink` hold for every chip and program.
  Nothing in a real frame tells which call it answers, so the first rests on
  where the reply and the data of a call can be (`PInv`): never two of a kind,
  only while the call that asked for them waits, and no data after a reply that
  promises none. The second rests on the last event on its way telling the link,
  and the flags telling it when there is none (`FInv`). With these,
  `KeepsPromise` is proved: each step of the HCI layer is a step of `WifiDriver`
  under the mapping, or none. The news are the frames of the queue, each replaced
  by what it tells; a frame appended or taken changes them at one end
  (`MappedAppend`, `MappedCons`).
* `Monulator_proofs`: type correctness, `NothingLeaked`, `ClosedOnce`, for any
  number of sockets, chunks and changes of the link. The invariant (`SInv`) says
  for each place of the thread which sockets are open: none before the reply to
  `socket()`, then the one it names, and none that could be closed once `close()`
  is answered.
* `CsvParser_proofs`: type correctness, `CellsFit`, `OneLine`, `ErrorIsFinal`,
  `NothingMisplaced`, `LevelIsSecondField`, for documents of any length.
  `OneLine` needs the counters: as long as a cell can still be made, the next
  one is number `Len(cells)` of row 0. `NothingMisplaced` is made inductive by
  `Placed`, which also counts the line ends behind the line. `LevelIsSecondField`
  looks at a finished document, so its invariant (`FieldsOK`) tells where the
  parser is in an unfinished one: in the first field, which is then all of the
  input; in the second, whose beginning is known; behind it, with the level set;
  or where no second field can come any more, because a field was too long or a
  line ended.
* `StartUp_proofs`: type correctness, `NothingUnclocked`, `PoweredLast`,
  `ChipReadyFirst` for a chip whose IRQ# is not low at first (the run
  `startup_irq` shows that this is needed), and `LogIsWhole`, whatever the pace
  of the hardware, the depth of the UART, and the texts and numbers of the log.
  `main` is a concatenation of concatenations; `AllPlaces` finds the place of
  each of its 47 effects, and `SInv` says of each variable what it is behind
  the effects that matter to it. For the log, `HexWritesDigits` shows that the
  recursion of `serial_write_hex_recursive` gives the places of the number in
  base 16: they satisfy its equation, so it has a solution, and by induction on
  value plus width it has no other. `LogWhole` is the interleaving: a
  character goes into an empty UART, so none is lost. Assumption: texts are
  sequences of numbers, values and widths are natural (`LogAssumption`).
* `KFifo_proofs`: type correctness, and `ImplementsFifo`, the whole refinement,
  for every size, width, element and block. Type correctness is inductive as it
  stands: the distance of the indices grows and shrinks by what is moved, wherever
  they wrap. For the refinement the places of the queue are cells counted around
  the end of the ring (`Places`), because the indices wrap at a multiple of its
  size (`WrapsAtRounds`); a block copied in takes the places after the last and
  disturbs none before (`CellsIn`).

Induction over data. The provers cannot instantiate an induction rule that takes
a formula, so `Induction` (in `DataLemmas`) is stated of sets: a set of
numbers with zero and every successor is all of them. What a recursive function
is - `FlattenSeq`, the powers of 2 and 16, the log's recursion - is proved from it:
a function that satisfies the equation is given, and is the only one.

Model-checked only: the liveness properties (`HeaderIsSent`, `CallReturns`,
`PollReturns`, `CallsEnd`, `FetchEnds`, `FetchStarts`, `LedSettles`, `Starts`)
and, with them, `KeepsPromiseAndReturns`, the live half of the refinement.
Fairness and ENABLED are out of the prover's reach. Every safety property a run
checks is a theorem.

## Not modelled

* `kfifo`'s `put`, `get` and `peek`: they index with `in & mask()`, where `in` is
  the member function, and cannot be instantiated; there is no behaviour to model.
  Nothing that is built uses the template.
* In `main.cpp`, what `main()` does not call: `configure_usb`,
  `enable_clock_output`, the 16-bit PWM timer, the functions that only log what a
  chip answered.
* In `lpc11u.h`, register layouts and the methods nothing calls; the delay loop,
  the vector table and the memory layout.
* The values of parameters and of fields of results that nothing looks at.
* `http_parser`, a submodule that is not in the tree: external. It calls back in
  the order of a response and sets `state`.
* What the chip makes of a command that starts while IRQ is low for an event:
  the host cannot tell this from "ready" (`cc3000_spi.cpp:119`), and nothing in
  the repository says. The chip of `CC3000HCI` takes every command.
* The hardware designs.

## Plan

All components of the firmware that hold state are modelled, and their safety
properties proved. What could follow:

1. `Monulator` against `WifiDriver`: that the program's view of the driver is a
   behaviour of the abstract driver, as a refinement; today the two agree by
   construction of the modules.
2. The ends of the loops as theorems: a measure that every step of a loop over
   pieces, or of a poll with finitely many events, decreases. With fairness,
   which stays with TLC, this is why they end.
