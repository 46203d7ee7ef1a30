------------------------------ MODULE StartUp ------------------------------
(* main() of main.cpp from reset to the first transaction with the CC3000: *)
(* straight-line code whose order is all there is to get right, next to    *)
(* hardware that goes its own pace - an oscillator, two PLLs, a UART and   *)
(* the wireless chip.  A function of main.cpp is the sequence of its       *)
(* effects; register writes whose value nothing here depends on are one    *)
(* access to their peripheral.                                             *)
EXTENDS Integers, Sequences

CONSTANTS FifoDepth,     \* see Serial
          Texts,         \* what the firmware logs
          Values,        \* numbers it logs
          Widths,        \* widths it gives them
          CallLimit,     \* calls of the log
          IrqStartsAsserted  \* the chip powers up with IRQ# low

ASSUME FifoDepthAssumption == FifoDepth \in Nat \ {0}
ASSUME LogAssumption == /\ Texts \subseteq Seq(Nat)
                        /\ Values \cup Widths \subseteq Nat
ASSUME IrqAssumption == IrqStartsAsserted \in BOOLEAN

VARIABLES pc,            \* the next effect of main()
          powered,       \* analog blocks with power (PDRUNCFG)
          running,       \* clock sources that oscillate, or are locked
          source,        \* what feeds the PLLs and the main clock
          clocks,        \* peripherals with a clock (SYSAHBCLKCTRL)
          divided,       \* peripheral clocks with a divider, else stopped
          held,          \* peripherals held in reset (PRESETCTRL)
          configured,    \* peripherals whose registers were accessed
          latch,         \* output latches of the pins to the chip
          outputs,       \* pins that are driven
          muxed,         \* pins whose IOCON register was set
          chip,          \* the CC3000: "off", "waking" or "ready"
          irq,           \* IRQ# is low
          text, thr, wire, logged

Log == INSTANCE Serial

clockVars == <<powered, running, source>>
gateVars == <<clocks, divided, held, configured>>
pinVars == <<latch, outputs, muxed>>
chipVars == <<chip, irq>>
logVars == <<text, thr, wire, logged>>
vars == <<pc, clockVars, gateVars, pinVars, chipVars, logVars>>

Pins == {"EN", "CS", "IRQ", "SCLK", "MOSI", "MISO", "TXD", "RXD", "LED",
         "USB_VBUS", "USB_CONNECT"}
Peripherals == {"GPIO", "CT32B1", "USART", "SSP1", "USB", "IOCON", "USBRAM"}

-----------------------------------------------------------------------------
(* The effects. *)
Power(unit) == [do |-> "power", on |-> unit]
Select(clock, from) == [do |-> "select", on |-> clock, from |-> from]
AwaitLock(pll) == [do |-> "lock", on |-> pll]
Clocks(units) == [do |-> "clocks", on |-> units]
Divide(unit) == [do |-> "divide", on |-> unit]
Release(unit) == [do |-> "release", on |-> unit]
Access(unit) == [do |-> "access", on |-> unit]
Latch(pin, value) == [do |-> "latch", on |-> pin, value |-> value]
Output(pin) == [do |-> "output", on |-> pin]
Input(pin) == [do |-> "input", on |-> pin]
Mux(pin) == [do |-> "mux", on |-> pin]
AwaitIrq == [do |-> "irq", on |-> "IRQ"]
CheckUnselected == [do |-> "unselected", on |-> "CS"]
String == [do |-> "string", on |-> "USART"]
Line == [do |-> "line", on |-> "USART"]

(* The functions. *)
turn_on_crystal_oscillator == <<Access("SCB"), Power("SYSOSC")>>

(* Variant: the oscillator is selected, its PLL not powered. *)
start_system_pll_unpowered ==
  <<Access("SCB"), Select("SYSPLL", "SYSOSC"), AwaitLock("SYSPLL")>>

start_system_pll ==
  <<Access("SCB"), Select("SYSPLL", "SYSOSC"), Power("SYSPLL"),
    AwaitLock("SYSPLL")>>

start_usb_pll ==
  <<Access("SCB"), Select("USBPLL", "SYSOSC"), Power("USBPLL"),
    AwaitLock("USBPLL")>>

(* Variant: the other PLL. *)
set_main_clock_to_usb_pll == <<Select("MAIN", "USBPLL")>>

set_main_clock_to_system_pll == <<Select("MAIN", "SYSPLL")>>

enable_peripheral_clocks ==
  <<Divide("SYS"), Clocks({"GPIO", "CT32B1", "USART", "SSP1", "USB", "IOCON",
                           "USBRAM"})>>

serial_init == <<Divide("USART"), Access("USART")>>

(* CC3000::disable() and CC3000SPI::reset(): deselected, without power. *)
disable == <<Latch("CS", 1), Latch("EN", 0)>>

(* Variant: the latches are set once the pins are outputs. *)
configure_pins_late ==
  <<Output("EN"), Mux("EN"), Input("IRQ"), Mux("IRQ"),
    Output("CS"), Mux("CS"), Mux("SCLK"), Mux("MOSI"), Mux("MISO")>> \o disable

configure_pins ==
  <<Output("LED"), Mux("RXD"), Mux("TXD"), Mux("USB_VBUS"),
    Mux("USB_CONNECT"), Power("USBPAD")>>
  \o disable
  \o <<Output("EN"), Mux("EN"), Input("IRQ"), Mux("IRQ"),
       Output("CS"), Mux("CS"), Mux("SCLK"), Mux("MOSI"), Mux("MISO")>>

configure_led_pwm_timer_ct32b1 == <<Access("CT32B1")>>

configure_ssp1 == <<Divide("SSP1"), Release("SSP1"), Access("SSP1")>>

(* CC3000SPI::start_transaction(): a transaction left open stops here.     *)
start_transaction ==
  <<CheckUnselected, Access("SSP1"), Latch("CS", 0), AwaitIrq>>

(* CC3000::enable() and CC3000SPI::init(), up to the first byte.           *)
enable == <<Latch("EN", 1), AwaitIrq>> \o start_transaction

(* The delays are not here: they promise nothing about the hardware.       *)
init_cc3000 == <<Line>> \o disable \o <<String, Line>> \o enable

clock_setup == turn_on_crystal_oscillator \o start_system_pll \o start_usb_pll
               \o set_main_clock_to_system_pll

board_setup == configure_pins \o configure_led_pwm_timer_ct32b1

(* Variant: the chip is started before the SPI controller. *)
main_chip_first == clock_setup \o enable_peripheral_clocks \o serial_init
                   \o board_setup \o init_cc3000 \o configure_ssp1

(* Variant: the log is set up before its clock. *)
main_log_first == clock_setup \o serial_init \o enable_peripheral_clocks
                  \o board_setup \o configure_ssp1 \o init_cc3000

main == clock_setup \o enable_peripheral_clocks \o serial_init
        \o board_setup \o configure_ssp1 \o init_cc3000

-----------------------------------------------------------------------------
(* Out of reset the internal oscillator runs everything that runs.         *)
Init == /\ pc = 1
        /\ powered = {"IRC"}
        /\ running = {"IRC"}
        /\ source = [clock \in {"SYSPLL", "USBPLL", "MAIN"} |-> "IRC"]
        /\ clocks = {}
        /\ divided = {}
        /\ held = {"SSP1"}
        /\ configured = {}
        /\ latch = [pin \in {"EN", "CS"} |-> 0]
        /\ outputs = {}
        /\ muxed = {}
        /\ chip = "off"
        /\ irq = FALSE
        /\ Log!Init

Started == pc > Len(main)

(* The effect main() is at.  It is at none while it is inside the log.     *)
effect == main[pc]
At(kind) == ~Started /\ Log!Idle /\ effect.do = kind /\ pc' = pc + 1

Drives(pin, value) == pin \in outputs /\ latch[pin] = value

PowerUp == /\ At("power")
           /\ powered' = powered \cup {effect.on}
           /\ UNCHANGED <<running, source, gateVars, pinVars, chipVars,
                          logVars>>

(* The source, and the toggled update enable that makes it count.          *)
SelectSource == /\ At("select")
                /\ source' = [source EXCEPT ![effect.on] = effect.from]
                /\ UNCHANGED <<powered, running, gateVars, pinVars, chipVars,
                               logVars>>

(* The three loops that wait for the hardware.                             *)
Wait == /\ \/ At("lock") /\ effect.on \in running
           \/ At("irq") /\ irq
           \/ At("unselected") /\ ~Drives("CS", 0)
        /\ UNCHANGED <<clockVars, gateVars, pinVars, chipVars, logVars>>

Gate == /\ \/ /\ At("clocks")
              /\ clocks' = clocks \cup effect.on
              /\ UNCHANGED <<divided, held, configured>>
           \/ /\ At("divide")
              /\ divided' = divided \cup {effect.on}
              /\ UNCHANGED <<clocks, held, configured>>
           \/ /\ At("release")
              /\ held' = held \ {effect.on}
              /\ UNCHANGED <<clocks, divided, configured>>
           \/ /\ At("access")
              /\ configured' = configured \cup {effect.on}
              /\ UNCHANGED <<clocks, divided, held>>
        /\ UNCHANGED <<clockVars, pinVars, chipVars, logVars>>

Pin == /\ \/ /\ At("latch")
             /\ latch' = [latch EXCEPT ![effect.on] = effect.value]
             /\ UNCHANGED <<outputs, muxed>>
          \/ /\ At("output")
             /\ outputs' = outputs \cup {effect.on}
             /\ UNCHANGED <<latch, muxed>>
          \/ /\ At("input")
             /\ outputs' = outputs \ {effect.on}
             /\ UNCHANGED <<latch, muxed>>
          \/ /\ At("mux")
             /\ muxed' = muxed \cup {effect.on}
             /\ UNCHANGED <<latch, outputs>>
       /\ UNCHANGED <<clockVars, gateVars, chipVars, logVars>>

boardVars == <<clockVars, gateVars, pinVars, chipVars>>

LogText == /\ \E s \in Texts : \/ At("string") /\ Log!serial_write_string(s)
                               \/ At("line") /\ Log!serial_write_line(s)
           /\ UNCHANGED boardVars

(* What main() logs once it has the chip: its calls in any order.          *)
LogMore == /\ Started
           /\ Len(logged) < CallLimit
           /\ \/ \E s \in Texts : \/ Log!serial_write_string(s)
                                  \/ Log!serial_write_line(s)
              \/ \E value \in Values, width \in Widths :
                   Log!serial_write_hex(value, width)
           /\ UNCHANGED <<pc, boardVars>>

LogWrite == Log!serial_write /\ UNCHANGED <<pc, boardVars>>

(* main() polls the chip for ever; what that does is in CC3000HCI.         *)
Poll == Started /\ Log!Idle /\ UNCHANGED vars

-----------------------------------------------------------------------------
(* The hardware.  A UART without a clock sends nothing; a register of a    *)
(* peripheral without one cannot be used.                                  *)
Usable(unit) ==
  /\ unit \in clocks \cup {"SCB"}
  /\ unit \notin held
  /\ unit \in {"USART", "SSP1"} => unit \in divided

UartTransmits == Usable("USART") /\ Log!Transmit /\ UNCHANGED <<pc, boardVars>>

(* An oscillator starts; a PLL locks to a source that runs.                *)
ClockStarts(unit) ==
  /\ unit \in powered \ running
  /\ unit \in {"SYSPLL", "USBPLL"} => source[unit] \in running
  /\ running' = running \cup {unit}
  /\ UNCHANGED <<pc, powered, source, gateVars, pinVars, chipVars, logVars>>

ChipWakes == /\ chip = "off"
             /\ Drives("EN", 1)
             /\ chip' = "waking"
             /\ irq' = IrqStartsAsserted
             /\ UNCHANGED <<pc, clockVars, gateVars, pinVars, logVars>>

ChipReady == /\ chip = "waking"
             /\ chip' = "ready"
             /\ irq' = TRUE
             /\ UNCHANGED <<pc, clockVars, gateVars, pinVars, logVars>>

Main == PowerUp \/ SelectSource \/ Wait \/ Gate \/ Pin \/ LogText \/ LogWrite

Next == \/ Main
        \/ LogMore
        \/ Poll
        \/ UartTransmits
        \/ \E unit \in {"SYSOSC", "SYSPLL", "USBPLL"} : ClockStarts(unit)
        \/ ChipWakes
        \/ ChipReady

(* The processor runs, and so does hardware that has power and a clock.    *)
Fairness == /\ WF_vars(Main)
            /\ WF_vars(UartTransmits)
            /\ \A unit \in {"SYSOSC", "SYSPLL", "USBPLL"} :
                 WF_vars(ClockStarts(unit))
            /\ WF_vars(ChipWakes)
            /\ WF_vars(ChipReady)

Spec == Init /\ [][Next]_vars /\ Fairness

-----------------------------------------------------------------------------
(* Type invariant. *)
TypeOK == /\ pc \in 1..Len(main)+1
          /\ powered \subseteq {"IRC", "SYSOSC", "SYSPLL", "USBPLL", "USBPAD"}
          /\ running \subseteq powered
          /\ \A clock \in {"SYSPLL", "USBPLL", "MAIN"} :
               source[clock] \in {"IRC", "SYSOSC", "SYSPLL"}
          /\ clocks \subseteq Peripherals
          /\ divided \subseteq {"SYS", "USART", "SSP1"}
          /\ held \subseteq {"SSP1"}
          /\ configured \subseteq Peripherals \cup {"SCB"}
          /\ latch \in [{"EN", "CS"} -> {0, 1}]
          /\ outputs \cup muxed \subseteq Pins
          /\ chip \in {"off", "waking", "ready"}
          /\ irq \in BOOLEAN
          /\ Len(thr) <= FifoDepth

Touched(e) == CASE e.do \in {"latch", "output", "input", "irq", "unselected"}
                     -> {"GPIO"}
                [] e.do = "mux" -> {"IOCON"}
                [] e.do \in {"access", "string", "line"} -> {e.on}
                [] OTHER -> {}

(* The clock the processor runs on is running, and every peripheral main() *)
(* is about to touch has its clock, its divider and is out of reset        *)
(* (main.cpp:43-95, 314-378, serial.cpp:26-102).                           *)
NothingUnclocked ==
  /\ source["MAIN"] \in running
  /\ ~Started => \A unit \in Touched(effect) : Usable(unit)
  /\ thr \o text # <<>> => Usable("USART")

(* The chip gets power only once the board is ready for it: its pins are   *)
(* set up, the SPI controller too (main.cpp:103-152, 337-380).             *)
PoweredLast ==
  Drives("EN", 1) =>
    /\ {"EN", "CS"} \subseteq outputs
    /\ "IRQ" \notin outputs
    /\ {"EN", "CS", "IRQ", "SCLK", "MOSI", "MISO"} \subseteq muxed
    /\ "SSP1" \in configured /\ Usable("SSP1")

(* The chip is selected only when it is ready: "Wait for CC3000 IRQ to     *)
(* assert once it is ready" (cc3000_spi.cpp:43-48, main.cpp:133-146).      *)
ChipReadyFirst == Drives("CS", 0) => chip = "ready"

(* Nothing logged is lost, see Serial, with UART and program interleaved.  *)
LogIsWhole == Log!WireFollowsLog

(* main() gets to its first transaction, and out of every call of the log  *)
(* (main.cpp:314-380, lpc11u.h:141-143, 218-220, serial.cpp:111).          *)
Starts == <>Started /\ (~Log!Idle ~> Log!Idle)
=============================================================================
