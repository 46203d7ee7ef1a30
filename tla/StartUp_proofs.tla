--------------------------- MODULE StartUp_proofs ---------------------------
(***************************************************************************)
(* What main() promises of the board, the clocks, the chip and the log     *)
(* from reset on, whatever the firmware logs, however deep the UART is and *)
(* whenever the hardware is ready.                                         *)
(*                                                                         *)
(* The code is straight-line, so the argument is an order: main() is a     *)
(* sequence of 47 effects, and the invariant SInv says of each state       *)
(* variable what it is behind the effects that matter to it.  The first    *)
(* part finds the place of each effect in main, which is a concatenation   *)
(* of concatenations; the rest argues with those places only.              *)
(*                                                                         *)
(* The last part is the log: the recursion that writes a number has one    *)
(* solution, its digits (HexWritesDigits), and the UART passes on what it  *)
(* is given because it never holds a second character (LogWhole).          *)
(***************************************************************************)
EXTENDS StartUp, DataLemmas

IsCode(f, n) == \E S : f \in Seq(S) /\ Len(f) = n

JoinsTo(f, g, n, m) ==
  /\ IsCode(f \o g, n + m)
  /\ \A i \in 1 .. n : (f \o g)[i] = f[i]
  /\ \A i \in 1 .. m : (f \o g)[n + i] = g[i]

LEMMA Joined ==
  ASSUME NEW f, NEW g, NEW n \in Nat, NEW m \in Nat, IsCode(f, n), IsCode(g, m)
  PROVE  JoinsTo(f, g, n, m)
<1>1. PICK S : f \in Seq(S) /\ Len(f) = n
  BY DEF IsCode
<1>2. PICK T : g \in Seq(T) /\ Len(g) = m
  BY DEF IsCode
<1> DEFINE U == S \cup T
<1>3. f \in Seq(U) /\ g \in Seq(U)
  BY <1>1, <1>2
<1> HIDE DEF U
<1>4. /\ Len(f \o g) = n + m /\ f \o g \in Seq(U)
      /\ \A i \in 1 .. n + m : (f \o g)[i] = IF i <= n THEN f[i] ELSE g[i - n]
  BY <1>1, <1>2, <1>3, ConcatProperties
<1>5. \A i \in 1 .. n : i \in 1 .. n + m /\ i <= n
  OBVIOUS
<1>6. \A i \in 1 .. m :
        n + i \in 1 .. n + m /\ ~(n + i <= n) /\ (n + i) - n = i
  OBVIOUS
<1>7. IsCode(f \o g, n + m)
  BY <1>4 DEF IsCode
<1>8. \A i \in 1 .. n : (f \o g)[i] = f[i]
  BY <1>4, <1>5
<1>9. \A i \in 1 .. m : (f \o g)[n + i] = g[i]
  BY <1>4, <1>6
<1> QED
  BY <1>7, <1>8, <1>9 DEF JoinsTo

LEMMA Code1 == ASSUME NEW a PROVE IsCode(<<a>>, 1)
<1>1. <<a>> \in Seq({a})
  OBVIOUS
<1> QED
  BY <1>1 DEF IsCode

LEMMA Code2 == ASSUME NEW a, NEW b PROVE IsCode(<<a, b>>, 2)
<1>1. <<a, b>> \in Seq({a, b})
  OBVIOUS
<1> QED
  BY <1>1 DEF IsCode

LEMMA Code3 == ASSUME NEW a, NEW b, NEW c PROVE IsCode(<<a, b, c>>, 3)
<1>1. <<a, b, c>> \in Seq({a, b, c})
  OBVIOUS
<1> QED
  BY <1>1 DEF IsCode

LEMMA Code4 ==
  ASSUME NEW a, NEW b, NEW c, NEW d PROVE IsCode(<<a, b, c, d>>, 4)
<1>1. <<a, b, c, d>> \in Seq({a, b, c, d})
  OBVIOUS
<1> QED
  BY <1>1 DEF IsCode

LEMMA Code6 ==
  ASSUME NEW a, NEW b, NEW c, NEW d, NEW e, NEW f
  PROVE  IsCode(<<a, b, c, d, e, f>>, 6)
<1>1. <<a, b, c, d, e, f>> \in Seq({a, b, c, d, e, f})
  OBVIOUS
<1> QED
  BY <1>1 DEF IsCode

LEMMA Code9 ==
  ASSUME NEW a, NEW b, NEW c, NEW d, NEW e, NEW f, NEW g, NEW h, NEW i
  PROVE  IsCode(<<a, b, c, d, e, f, g, h, i>>, 9)
<1>1. <<a, b, c, d, e, f, g, h, i>> \in Seq({a, b, c, d, e, f, g, h, i})
  OBVIOUS
<1> QED
  BY <1>1 DEF IsCode

(* The function f stands in main behind its first k effects.               *)
StandsAt(k, f) == \A i \in DOMAIN f : main[k + i] = f[i]

BothStandAt(k, f, n, g) == StandsAt(k, f) /\ StandsAt(k + n, g)

LEMMA Split ==
  ASSUME NEW f, NEW g, NEW n \in Nat, NEW m \in Nat, IsCode(f, n), IsCode(g, m),
         NEW k \in Nat, StandsAt(k, f \o g)
  PROVE  BothStandAt(k, f, n, g)
<1>j. JoinsTo(f, g, n, m)
  BY Joined
<1>1. DOMAIN (f \o g) = 1 .. n + m
  BY <1>j DEF JoinsTo, IsCode
<1>2. DOMAIN f = 1 .. n /\ DOMAIN g = 1 .. m
  BY DEF IsCode
<1>3. ASSUME NEW i \in 1 .. n PROVE main[k + i] = f[i]
  <2>1. i \in 1 .. n + m
    OBVIOUS
  <2>2. (f \o g)[i] = f[i]
    BY <1>j DEF JoinsTo
  <2> QED
    BY <1>1, <2>1, <2>2 DEF StandsAt
<1>4. ASSUME NEW i \in 1 .. m PROVE main[(k + n) + i] = g[i]
  <2>1. n + i \in 1 .. n + m /\ k + (n + i) = (k + n) + i
    OBVIOUS
  <2>2. (f \o g)[n + i] = g[i]
    BY <1>j DEF JoinsTo
  <2> QED
    BY <1>1, <2>1, <2>2 DEF StandsAt
<1> QED
  BY <1>2, <1>3, <1>4 DEF StandsAt, BothStandAt

(* How many effects each function has.                                     *)
pins_before == <<Output("LED"), Mux("RXD"), Mux("TXD"), Mux("USB_VBUS"),
                 Mux("USB_CONNECT"), Power("USBPAD")>>

pins_after == <<Output("EN"), Mux("EN"), Input("IRQ"), Mux("IRQ"),
                Output("CS"), Mux("CS"), Mux("SCLK"), Mux("MOSI"), Mux("MISO")>>

LEMMA Leaves ==
  /\ IsCode(turn_on_crystal_oscillator, 2)
  /\ IsCode(start_system_pll, 4)
  /\ IsCode(start_usb_pll, 4)
  /\ IsCode(set_main_clock_to_system_pll, 1)
  /\ IsCode(enable_peripheral_clocks, 2)
  /\ IsCode(serial_init, 2)
  /\ IsCode(pins_before, 6)
  /\ IsCode(disable, 2)
  /\ IsCode(pins_after, 9)
  /\ IsCode(configure_led_pwm_timer_ct32b1, 1)
  /\ IsCode(configure_ssp1, 3)
  /\ IsCode(<<Line>>, 1)
  /\ IsCode(<<String, Line>>, 2)
  /\ IsCode(<<Latch("EN", 1), AwaitIrq>>, 2)
  /\ IsCode(start_transaction, 4)
<1>1. IsCode(turn_on_crystal_oscillator, 2)
  BY Code2 DEF turn_on_crystal_oscillator
<1>2. IsCode(start_system_pll, 4)
  BY Code4 DEF start_system_pll
<1>3. IsCode(start_usb_pll, 4)
  BY Code4 DEF start_usb_pll
<1>4. IsCode(set_main_clock_to_system_pll, 1)
  BY Code1 DEF set_main_clock_to_system_pll
<1>5. IsCode(enable_peripheral_clocks, 2)
  BY Code2 DEF enable_peripheral_clocks
<1>6. IsCode(serial_init, 2)
  BY Code2 DEF serial_init
<1>7. IsCode(pins_before, 6)
  BY Code6 DEF pins_before
<1>8. IsCode(disable, 2)
  BY Code2 DEF disable
<1>9. IsCode(pins_after, 9)
  BY Code9 DEF pins_after
<1>10. IsCode(configure_led_pwm_timer_ct32b1, 1)
  BY Code1 DEF configure_led_pwm_timer_ct32b1
<1>11. IsCode(configure_ssp1, 3)
  BY Code3 DEF configure_ssp1
<1>12. IsCode(<<Line>>, 1)
  BY Code1
<1>13. IsCode(<<String, Line>>, 2)
  BY Code2
<1>14. IsCode(<<Latch("EN", 1), AwaitIrq>>, 2)
  BY Code2
<1>15. IsCode(start_transaction, 4)
  BY Code4 DEF start_transaction
<1> QED
  BY <1>1, <1>2, <1>3, <1>4, <1>5, <1>6, <1>7, <1>8, <1>9, <1>10, <1>11,
     <1>12, <1>13, <1>14, <1>15

LEMMA Join ==
  ASSUME NEW f, NEW g, NEW n \in Nat, NEW m \in Nat, IsCode(f, n), IsCode(g, m)
  PROVE  IsCode(f \o g, n + m)
BY Joined DEF JoinsTo

oscillator_and_pll == turn_on_crystal_oscillator \o start_system_pll
both_plls == oscillator_and_pll \o start_usb_pll
pins_disabled == pins_before \o disable
until_gates == clock_setup \o enable_peripheral_clocks
until_serial == until_gates \o serial_init
until_board == until_serial \o board_setup
until_ssp1 == until_board \o configure_ssp1
line_disable == <<Line>> \o disable
until_enable == line_disable \o <<String, Line>>

LEMMA Composed ==
  /\ clock_setup = both_plls \o set_main_clock_to_system_pll
  /\ configure_pins = pins_disabled \o pins_after
  /\ board_setup = configure_pins \o configure_led_pwm_timer_ct32b1
  /\ enable = <<Latch("EN", 1), AwaitIrq>> \o start_transaction
  /\ init_cc3000 = until_enable \o enable
  /\ main = until_ssp1 \o init_cc3000
BY DEF clock_setup, both_plls, oscillator_and_pll, configure_pins,
       pins_disabled, pins_before, pins_after, board_setup, enable,
       init_cc3000, until_enable, line_disable, main, until_ssp1, until_board,
       until_serial, until_gates

LEMMA Branches ==
  /\ IsCode(oscillator_and_pll, 6)
  /\ IsCode(both_plls, 10)
  /\ IsCode(clock_setup, 11)
  /\ IsCode(pins_disabled, 8)
  /\ IsCode(configure_pins, 17)
  /\ IsCode(board_setup, 18)
  /\ IsCode(enable, 6)
  /\ IsCode(line_disable, 3)
  /\ IsCode(until_enable, 5)
  /\ IsCode(init_cc3000, 11)
  /\ IsCode(until_gates, 13)
  /\ IsCode(until_serial, 15)
  /\ IsCode(until_board, 33)
  /\ IsCode(until_ssp1, 36)
  /\ IsCode(main, 47)
<1>1. IsCode(oscillator_and_pll, 2 + 4)
  BY Leaves, Join DEF oscillator_and_pll
<1>2. IsCode(both_plls, 6 + 4)
  BY <1>1, Leaves, Join DEF both_plls
<1>3. IsCode(clock_setup, 10 + 1)
  BY <1>2, Leaves, Join, Composed
<1>4. IsCode(pins_disabled, 6 + 2)
  BY Leaves, Join DEF pins_disabled
<1>5. IsCode(configure_pins, 8 + 9)
  BY <1>4, Leaves, Join, Composed
<1>6. IsCode(board_setup, 17 + 1)
  BY <1>5, Leaves, Join, Composed
<1>7. IsCode(enable, 2 + 4)
  BY Leaves, Join, Composed
<1>8. IsCode(line_disable, 1 + 2)
  BY Leaves, Join DEF line_disable
<1>9. IsCode(until_enable, 3 + 2)
  BY <1>8, Leaves, Join DEF until_enable
<1>10. IsCode(init_cc3000, 5 + 6)
  BY <1>7, <1>9, Join, Composed
<1>11. IsCode(until_gates, 11 + 2)
  BY <1>3, Leaves, Join DEF until_gates
<1>12. IsCode(until_serial, 13 + 2)
  BY <1>11, Leaves, Join DEF until_serial
<1>13. IsCode(until_board, 15 + 18)
  BY <1>6, <1>12, Join DEF until_board
<1>14. IsCode(until_ssp1, 33 + 3)
  BY <1>13, Leaves, Join DEF until_ssp1
<1>15. IsCode(main, 36 + 11)
  BY <1>10, <1>14, Join, Composed
<1> QED
  BY <1>1, <1>2, <1>3, <1>4, <1>5, <1>6, <1>7, <1>8, <1>9, <1>10, <1>11,
     <1>12, <1>13, <1>14, <1>15

(* Where each function starts.                                             *)
LEMMA Places ==
  /\ StandsAt(0, turn_on_crystal_oscillator)
  /\ StandsAt(2, start_system_pll)
  /\ StandsAt(6, start_usb_pll)
  /\ StandsAt(10, set_main_clock_to_system_pll)
  /\ StandsAt(11, enable_peripheral_clocks)
  /\ StandsAt(13, serial_init)
  /\ StandsAt(15, pins_before)
  /\ StandsAt(21, disable)
  /\ StandsAt(23, pins_after)
  /\ StandsAt(32, configure_led_pwm_timer_ct32b1)
  /\ StandsAt(33, configure_ssp1)
  /\ StandsAt(36, <<Line>>)
  /\ StandsAt(37, disable)
  /\ StandsAt(39, <<String, Line>>)
  /\ StandsAt(41, <<Latch("EN", 1), AwaitIrq>>)
  /\ StandsAt(43, start_transaction)
<1>0. StandsAt(0, main)
  <2>1. DOMAIN main = 1 .. 47
    BY Branches DEF IsCode
  <2> QED
    BY <2>1 DEF StandsAt
<1>1. BothStandAt(0, until_ssp1, 36, init_cc3000)
  <2>1. StandsAt(0, until_ssp1 \o init_cc3000)
    BY <1>0, Composed
  <2> QED
    BY <2>1, Branches, Split
<1>2. BothStandAt(0, until_board, 33, configure_ssp1)
  BY <1>1, Branches, Leaves, Split DEF BothStandAt, until_ssp1
<1>3. BothStandAt(0, until_serial, 15, board_setup)
  BY <1>2, Branches, Split DEF BothStandAt, until_board
<1>4. BothStandAt(0, until_gates, 13, serial_init)
  BY <1>3, Branches, Leaves, Split DEF BothStandAt, until_serial
<1>5. BothStandAt(0, clock_setup, 11, enable_peripheral_clocks)
  BY <1>4, Branches, Leaves, Split DEF BothStandAt, until_gates
<1>6. BothStandAt(0, both_plls, 10, set_main_clock_to_system_pll)
  <2>1. StandsAt(0, both_plls \o set_main_clock_to_system_pll)
    BY <1>5, Composed DEF BothStandAt
  <2> QED
    BY <2>1, Branches, Leaves, Split
<1>7. BothStandAt(0, oscillator_and_pll, 6, start_usb_pll)
  BY <1>6, Branches, Leaves, Split DEF BothStandAt, both_plls
<1>8. BothStandAt(0, turn_on_crystal_oscillator, 2, start_system_pll)
  BY <1>7, Leaves, Split DEF BothStandAt, oscillator_and_pll
<1>9. StandsAt(15, board_setup) /\ StandsAt(36, init_cc3000)
  BY <1>1, <1>3 DEF BothStandAt
<1>10. BothStandAt(15, configure_pins, 17, configure_led_pwm_timer_ct32b1)
  <2>1. StandsAt(15, configure_pins \o configure_led_pwm_timer_ct32b1)
    BY <1>9, Composed
  <2> QED
    BY <2>1, Branches, Leaves, Split
<1>11. BothStandAt(15, pins_disabled, 8, pins_after)
  <2>1. StandsAt(15, pins_disabled \o pins_after)
    BY <1>10, Composed DEF BothStandAt
  <2> QED
    BY <2>1, Branches, Leaves, Split
<1>12. BothStandAt(15, pins_before, 6, disable)
  BY <1>11, Leaves, Split DEF BothStandAt, pins_disabled
<1>13. BothStandAt(36, until_enable, 5, enable)
  <2>1. StandsAt(36, until_enable \o enable)
    BY <1>9, Composed
  <2> QED
    BY <2>1, Branches, Split
<1>14. BothStandAt(36, line_disable, 3, <<String, Line>>)
  BY <1>13, Branches, Leaves, Split DEF BothStandAt, until_enable
<1>15. BothStandAt(36, <<Line>>, 1, disable)
  BY <1>14, Leaves, Split DEF BothStandAt, line_disable
<1>16. StandsAt(41, enable)
  BY <1>13 DEF BothStandAt
<1>17. BothStandAt(41, <<Latch("EN", 1), AwaitIrq>>, 2, start_transaction)
  <2>1. StandsAt(41, <<Latch("EN", 1), AwaitIrq>> \o start_transaction)
    BY <1>16, Composed
  <2> QED
    BY <2>1, Leaves, Split
<1>18. /\ 0 + 36 = 36 /\ 0 + 33 = 33 /\ 0 + 13 = 13 /\ 0 + 11 = 11
       /\ 0 + 10 = 10 /\ 0 + 6 = 6 /\ 0 + 2 = 2 /\ 15 + 17 = 32
       /\ 15 + 8 = 23 /\ 15 + 6 = 21 /\ 36 + 3 = 39 /\ 36 + 1 = 37
       /\ 41 + 2 = 43
  OBVIOUS
<1> QED
  BY <1>1, <1>2, <1>4, <1>5, <1>6, <1>7, <1>8, <1>10, <1>11, <1>12, <1>14,
     <1>15, <1>17, <1>18 DEF BothStandAt
-----------------------------------------------------------------------------
(* The same by kind: which effects are of a kind, and on what.             *)
ClockEffects(k, e) ==
  /\ e.do = "power" =>
       \/ k = 2 /\ e.on = "SYSOSC"
       \/ k = 5 /\ e.on = "SYSPLL"
       \/ k = 9 /\ e.on = "USBPLL"
       \/ k = 21 /\ e.on = "USBPAD"
  /\ e.do = "select" =>
       \/ k = 4 /\ e.on = "SYSPLL" /\ e.from = "SYSOSC"
       \/ k = 8 /\ e.on = "USBPLL" /\ e.from = "SYSOSC"
       \/ k = 11 /\ e.on = "MAIN" /\ e.from = "SYSPLL"
  /\ e.do = "lock" =>
       \/ k = 6 /\ e.on = "SYSPLL"
       \/ k = 10 /\ e.on = "USBPLL"

GateEffects(k, e) ==
  /\ e.do = "clocks" => k = 13 /\ e.on = Peripherals
  /\ e.do = "divide" =>
       \/ k = 12 /\ e.on = "SYS"
       \/ k = 14 /\ e.on = "USART"
       \/ k = 34 /\ e.on = "SSP1"
  /\ e.do = "release" => k = 35 /\ e.on = "SSP1"
  /\ e.do = "access" =>
       \/ k \in {1, 3, 7} /\ e.on = "SCB"
       \/ k = 15 /\ e.on = "USART"
       \/ k = 33 /\ e.on = "CT32B1"
       \/ k \in {36, 45} /\ e.on = "SSP1"

PinEffects(k, e) ==
  /\ e.do = "latch" =>
       \/ k \in {22, 38} /\ e.on = "CS" /\ e.value = 1
       \/ k \in {23, 39} /\ e.on = "EN" /\ e.value = 0
       \/ k = 42 /\ e.on = "EN" /\ e.value = 1
       \/ k = 46 /\ e.on = "CS" /\ e.value = 0
  /\ e.do = "output" =>
       \/ k = 16 /\ e.on = "LED"
       \/ k = 24 /\ e.on = "EN"
       \/ k = 28 /\ e.on = "CS"
  /\ e.do = "input" => k = 26 /\ e.on = "IRQ"
  /\ e.do = "mux" =>
       \/ k = 17 /\ e.on = "RXD"
       \/ k = 18 /\ e.on = "TXD"
       \/ k = 19 /\ e.on = "USB_VBUS"
       \/ k = 20 /\ e.on = "USB_CONNECT"
       \/ k = 25 /\ e.on = "EN"
       \/ k = 27 /\ e.on = "IRQ"
       \/ k = 29 /\ e.on = "CS"
       \/ k = 30 /\ e.on = "SCLK"
       \/ k = 31 /\ e.on = "MOSI"
       \/ k = 32 /\ e.on = "MISO"

OtherEffects(k, e) ==
  /\ e.do = "irq" => k \in {43, 47}
  /\ e.do = "unselected" => k = 44
  /\ e.do \in {"string", "line"} => k \in {37, 40, 41} /\ e.on = "USART"

Placed(k, e) == /\ ClockEffects(k, e)
                /\ GateEffects(k, e)
                /\ PinEffects(k, e)
                /\ OtherEffects(k, e)

LEMMA ClockPlaces == \A k \in 1 .. 11 : Placed(k, main[k])
<1>1. /\ main[1] = Access("SCB")
      /\ main[2] = Power("SYSOSC")
  BY Places DEF StandsAt, turn_on_crystal_oscillator
<1>2. /\ main[3] = Access("SCB")
      /\ main[4] = Select("SYSPLL", "SYSOSC")
      /\ main[5] = Power("SYSPLL")
      /\ main[6] = AwaitLock("SYSPLL")
  BY Places DEF StandsAt, start_system_pll
<1>3. /\ main[7] = Access("SCB")
      /\ main[8] = Select("USBPLL", "SYSOSC")
      /\ main[9] = Power("USBPLL")
      /\ main[10] = AwaitLock("USBPLL")
  BY Places DEF StandsAt, start_usb_pll
<1>4. main[11] = Select("MAIN", "SYSPLL")
  BY Places DEF StandsAt, set_main_clock_to_system_pll
<1>5. /\ Placed(1, Access("SCB")) /\ Placed(3, Access("SCB"))
      /\ Placed(7, Access("SCB"))
  BY DEF Access, Placed, ClockEffects, GateEffects, PinEffects, OtherEffects
<1>6. /\ Placed(2, Power("SYSOSC")) /\ Placed(5, Power("SYSPLL"))
      /\ Placed(9, Power("USBPLL"))
  BY DEF Power, Placed, ClockEffects, GateEffects, PinEffects, OtherEffects
<1>7. /\ Placed(4, Select("SYSPLL", "SYSOSC"))
      /\ Placed(8, Select("USBPLL", "SYSOSC"))
      /\ Placed(11, Select("MAIN", "SYSPLL"))
  BY DEF Select, Placed, ClockEffects, GateEffects, PinEffects, OtherEffects
<1>8. /\ Placed(6, AwaitLock("SYSPLL")) /\ Placed(10, AwaitLock("USBPLL"))
  BY DEF AwaitLock, Placed, ClockEffects, GateEffects, PinEffects,
         OtherEffects
<1>9. \A k \in 1 .. 11 : k \in {1, 2, 3, 4, 5, 6, 7, 8, 9, 10, 11}
  OBVIOUS
<1> QED
  BY <1>1, <1>2, <1>3, <1>4, <1>5, <1>6, <1>7, <1>8, <1>9

LEMMA BoardPlaces == \A k \in 12 .. 36 : Placed(k, main[k])
<1>1. /\ main[12] = Divide("SYS")
      /\ main[13] = Clocks(Peripherals)
  BY Places DEF StandsAt, enable_peripheral_clocks, Peripherals
<1>2. /\ main[14] = Divide("USART")
      /\ main[15] = Access("USART")
  BY Places DEF StandsAt, serial_init
<1>3. /\ main[16] = Output("LED")
      /\ main[17] = Mux("RXD")
      /\ main[18] = Mux("TXD")
      /\ main[19] = Mux("USB_VBUS")
      /\ main[20] = Mux("USB_CONNECT")
      /\ main[21] = Power("USBPAD")
  BY Places DEF StandsAt, pins_before
<1>4. /\ main[22] = Latch("CS", 1)
      /\ main[23] = Latch("EN", 0)
  BY Places DEF StandsAt, disable
<1>5. /\ main[24] = Output("EN")
      /\ main[25] = Mux("EN")
      /\ main[26] = Input("IRQ")
      /\ main[27] = Mux("IRQ")
      /\ main[28] = Output("CS")
      /\ main[29] = Mux("CS")
      /\ main[30] = Mux("SCLK")
      /\ main[31] = Mux("MOSI")
      /\ main[32] = Mux("MISO")
  BY Places DEF StandsAt, pins_after
<1>6. main[33] = Access("CT32B1")
  BY Places DEF StandsAt, configure_led_pwm_timer_ct32b1
<1>7. /\ main[34] = Divide("SSP1")
      /\ main[35] = Release("SSP1")
      /\ main[36] = Access("SSP1")
  BY Places DEF StandsAt, configure_ssp1
<1>8. /\ Placed(12, Divide("SYS")) /\ Placed(14, Divide("USART"))
      /\ Placed(34, Divide("SSP1"))
  BY DEF Divide, Placed, ClockEffects, GateEffects, PinEffects, OtherEffects
<1>9. Placed(13, Clocks(Peripherals))
  BY DEF Clocks, Placed, ClockEffects, GateEffects, PinEffects, OtherEffects
<1>10. /\ Placed(15, Access("USART")) /\ Placed(33, Access("CT32B1"))
       /\ Placed(36, Access("SSP1"))
  BY DEF Access, Placed, ClockEffects, GateEffects, PinEffects, OtherEffects
<1>11. /\ Placed(16, Output("LED")) /\ Placed(24, Output("EN"))
       /\ Placed(28, Output("CS"))
  BY DEF Output, Placed, ClockEffects, GateEffects, PinEffects, OtherEffects
<1>12. /\ Placed(17, Mux("RXD")) /\ Placed(18, Mux("TXD"))
       /\ Placed(19, Mux("USB_VBUS")) /\ Placed(20, Mux("USB_CONNECT"))
       /\ Placed(25, Mux("EN")) /\ Placed(27, Mux("IRQ"))
       /\ Placed(29, Mux("CS")) /\ Placed(30, Mux("SCLK"))
       /\ Placed(31, Mux("MOSI")) /\ Placed(32, Mux("MISO"))
  BY DEF Mux, Placed, ClockEffects, GateEffects, PinEffects, OtherEffects
<1>13. Placed(21, Power("USBPAD"))
  BY DEF Power, Placed, ClockEffects, GateEffects, PinEffects, OtherEffects
<1>14. Placed(22, Latch("CS", 1)) /\ Placed(23, Latch("EN", 0))
  BY DEF Latch, Placed, ClockEffects, GateEffects, PinEffects, OtherEffects
<1>15. Placed(26, Input("IRQ"))
  BY DEF Input, Placed, ClockEffects, GateEffects, PinEffects, OtherEffects
<1>16. Placed(35, Release("SSP1"))
  BY DEF Release, Placed, ClockEffects, GateEffects, PinEffects, OtherEffects
<1>17. \A k \in 12 .. 36 :
         k \in {12, 13, 14, 15, 16, 17, 18, 19, 20, 21, 22, 23, 24, 25, 26, 27,
                28, 29, 30, 31, 32, 33, 34, 35, 36}
  OBVIOUS
<1> QED
  BY <1>1, <1>2, <1>3, <1>4, <1>5, <1>6, <1>7, <1>8, <1>9, <1>10, <1>11,
     <1>12, <1>13, <1>14, <1>15, <1>16, <1>17

LEMMA ChipPlaces == \A k \in 37 .. 47 : Placed(k, main[k])
<1>1. main[37] = Line /\ main[40] = String /\ main[41] = Line
  BY Places DEF StandsAt
<1>2. /\ main[38] = Latch("CS", 1)
      /\ main[39] = Latch("EN", 0)
  BY Places DEF StandsAt, disable
<1>3. main[42] = Latch("EN", 1) /\ main[43] = AwaitIrq
  BY Places DEF StandsAt
<1>4. /\ main[44] = CheckUnselected
      /\ main[45] = Access("SSP1")
      /\ main[46] = Latch("CS", 0)
      /\ main[47] = AwaitIrq
  BY Places DEF StandsAt, start_transaction
<1>5. Placed(37, Line) /\ Placed(40, String) /\ Placed(41, Line)
  BY DEF Line, String, Placed, ClockEffects, GateEffects, PinEffects,
         OtherEffects
<1>6. /\ Placed(38, Latch("CS", 1)) /\ Placed(39, Latch("EN", 0))
      /\ Placed(42, Latch("EN", 1)) /\ Placed(46, Latch("CS", 0))
  BY DEF Latch, Placed, ClockEffects, GateEffects, PinEffects, OtherEffects
<1>7. /\ Placed(43, AwaitIrq) /\ Placed(44, CheckUnselected)
      /\ Placed(47, AwaitIrq)
  BY DEF AwaitIrq, CheckUnselected, Placed, ClockEffects, GateEffects,
         PinEffects, OtherEffects
<1>8. Placed(45, Access("SSP1"))
  BY DEF Access, Placed, ClockEffects, GateEffects, PinEffects, OtherEffects
<1>9. \A k \in 37 .. 47 : k \in {37, 38, 39, 40, 41, 42, 43, 44, 45, 46, 47}
  OBVIOUS
<1> QED
  BY <1>1, <1>2, <1>3, <1>4, <1>5, <1>6, <1>7, <1>8, <1>9

LEMMA AllPlaces ==
  /\ Len(main) = 47
  /\ \A k \in 1 .. 47 : Placed(k, main[k])
<1>1. Len(main) = 47
  BY Branches DEF IsCode
<1>2. \A k \in 1 .. 47 : k \in 1 .. 11 \/ k \in 12 .. 36 \/ k \in 37 .. 47
  OBVIOUS
<1> QED
  BY <1>1, <1>2, ClockPlaces, BoardPlaces, ChipPlaces
-----------------------------------------------------------------------------
(* What main() has done to the board by the effect it is at.               *)
BoardTypes ==
  /\ pc \in 1 .. 48
  /\ powered \subseteq {"IRC", "SYSOSC", "SYSPLL", "USBPLL", "USBPAD"}
  /\ running \subseteq powered
  /\ source \in [{"SYSPLL", "USBPLL", "MAIN"} -> {"IRC", "SYSOSC", "SYSPLL"}]
  /\ clocks \subseteq Peripherals
  /\ divided \subseteq {"SYS", "USART", "SSP1"}
  /\ held \subseteq {"SSP1"}
  /\ configured \subseteq Peripherals \cup {"SCB"}
  /\ latch \in [{"EN", "CS"} -> {0, 1}]
  /\ outputs \subseteq Pins
  /\ muxed \subseteq Pins
  /\ chip \in {"off", "waking", "ready"}
  /\ irq \in BOOLEAN

ClocksDone ==
  /\ "IRC" \in running
  /\ pc > 6 => "SYSPLL" \in running
  /\ source["MAIN"] = IF pc > 11 THEN "SYSPLL" ELSE "IRC"

GatesDone ==
  /\ pc > 13 => clocks = Peripherals
  /\ pc > 14 => "USART" \in divided
  /\ pc > 34 => "SSP1" \in divided
  /\ pc > 35 => held = {}
  /\ pc > 36 => "SSP1" \in configured

(* The chip is without power until all its pins are set up, and selected   *)
(* by the last latch only.                                                 *)
PinsDone ==
  /\ latch["EN"] = IF pc > 42 THEN 1 ELSE 0
  /\ latch["CS"] = IF pc > 22 /\ pc <= 46 THEN 1 ELSE 0
  /\ pc > 24 => "EN" \in outputs
  /\ "CS" \in outputs <=> pc > 28
  /\ "IRQ" \notin outputs
  /\ pc > 25 => "EN" \in muxed
  /\ pc > 27 => "IRQ" \in muxed
  /\ pc > 29 => "CS" \in muxed
  /\ pc > 30 => "SCLK" \in muxed
  /\ pc > 31 => "MOSI" \in muxed
  /\ pc > 32 => "MISO" \in muxed

ChipDone ==
  ~IrqStartsAsserted =>
    /\ irq => chip = "ready"
    /\ pc > 43 => chip = "ready"

(* The UART has at most one character, for each is awaited, and none of    *)
(* the log before main() calls it.                                         *)
LogDone ==
  /\ thr = <<>> \/ thr = <<Head(thr)>>
  /\ pc <= 37 => text = <<>> /\ thr = <<>>

SInv == /\ BoardTypes
        /\ ClocksDone
        /\ GatesDone
        /\ PinsDone
        /\ ChipDone
        /\ LogDone

LEMMA InitSInv == Init => SInv
<1> SUFFICES ASSUME Init PROVE SInv
  OBVIOUS
<1>1. BoardTypes
  <2>1. /\ source \in [{"SYSPLL", "USBPLL", "MAIN"} ->
                         {"IRC", "SYSOSC", "SYSPLL"}]
        /\ latch \in [{"EN", "CS"} -> {0, 1}]
    BY DEF Init
  <2>2. pc \in 1 .. 48 /\ chip \in {"off", "waking", "ready"}
    BY DEF Init
  <2>4. irq \in BOOLEAN
    BY Zenon DEF Init
  <2>3. /\ powered \subseteq {"IRC", "SYSOSC", "SYSPLL", "USBPLL", "USBPAD"}
        /\ running \subseteq powered /\ clocks \subseteq Peripherals
        /\ divided \subseteq {"SYS", "USART", "SSP1"}
        /\ held \subseteq {"SSP1"}
        /\ configured \subseteq Peripherals \cup {"SCB"}
        /\ outputs \subseteq Pins /\ muxed \subseteq Pins
    BY DEF Init
  <2> QED
    BY <2>1, <2>2, <2>3, <2>4 DEF BoardTypes
<1>2. ClocksDone /\ GatesDone
  BY DEF Init, ClocksDone, GatesDone
<1>3. PinsDone /\ ChipDone /\ LogDone
  BY DEF Init, PinsDone, ChipDone, LogDone, Log!Init
<1> QED
  BY <1>1, <1>2, <1>3 DEF SInv

(* An effect of main() is where it stands.                                 *)
LEMMA AtPlace ==
  ASSUME BoardTypes, NEW kind, At(kind)
  PROVE  /\ pc \in 1 .. 47 /\ pc' = pc + 1 /\ pc' \in 1 .. 48
         /\ effect.do = kind
         /\ Placed(pc, effect)
<1>1. pc \in 1 .. 47
  BY AllPlaces DEF BoardTypes, At, Started
<1>2. pc' = pc + 1 /\ effect.do = kind
  BY DEF At
<1>3. Placed(pc, effect)
  BY <1>1, AllPlaces DEF effect
<1> QED
  BY <1>1, <1>2, <1>3

LEMMA StepPowerUp == SInv /\ PowerUp => SInv'
<1> SUFFICES ASSUME SInv, PowerUp PROVE SInv'
  OBVIOUS
<1>1. /\ pc \in 1 .. 47 /\ pc' = pc + 1 /\ pc' \in 1 .. 48
      /\ \/ pc = 2 /\ effect.on = "SYSOSC"
         \/ pc = 5 /\ effect.on = "SYSPLL"
         \/ pc = 9 /\ effect.on = "USBPLL"
         \/ pc = 21 /\ effect.on = "USBPAD"
  BY AtPlace DEF SInv, PowerUp, Placed, ClockEffects
<1>2. /\ powered' = powered \cup {effect.on}
      /\ UNCHANGED <<running, source, gateVars, pinVars, chipVars, logVars>>
  BY DEF PowerUp
<1> USE DEF SInv, gateVars, pinVars, chipVars, logVars
<1>3. BoardTypes'
  BY <1>1, <1>2 DEF BoardTypes
<1>4. ClocksDone' /\ GatesDone'
  BY <1>1, <1>2 DEF ClocksDone, GatesDone
<1>5. PinsDone' /\ ChipDone' /\ LogDone'
  BY <1>1, <1>2 DEF PinsDone, ChipDone, LogDone
<1> QED
  BY <1>3, <1>4, <1>5

LEMMA StepSelectSource == SInv /\ SelectSource => SInv'
<1> SUFFICES ASSUME SInv, SelectSource PROVE SInv'
  OBVIOUS
<1>1. /\ pc \in 1 .. 47 /\ pc' = pc + 1 /\ pc' \in 1 .. 48
      /\ \/ pc = 4 /\ effect.on = "SYSPLL" /\ effect.from = "SYSOSC"
         \/ pc = 8 /\ effect.on = "USBPLL" /\ effect.from = "SYSOSC"
         \/ pc = 11 /\ effect.on = "MAIN" /\ effect.from = "SYSPLL"
  BY AtPlace DEF SInv, SelectSource, Placed, ClockEffects
<1>2. /\ source' = [source EXCEPT ![effect.on] = effect.from]
      /\ UNCHANGED <<powered, running, gateVars, pinVars, chipVars, logVars>>
  BY DEF SelectSource
<1> USE DEF SInv, gateVars, pinVars, chipVars, logVars
<1>3. BoardTypes'
  BY <1>1, <1>2 DEF BoardTypes
<1>4. ClocksDone' /\ GatesDone'
  BY <1>1, <1>2 DEF ClocksDone, GatesDone, BoardTypes
<1>5. PinsDone' /\ ChipDone' /\ LogDone'
  BY <1>1, <1>2 DEF PinsDone, ChipDone, LogDone
<1> QED
  BY <1>3, <1>4, <1>5

LEMMA StepWait == SInv /\ Wait => SInv'
<1> SUFFICES ASSUME SInv, Wait PROVE SInv'
  OBVIOUS
<1>1. /\ pc \in 1 .. 47 /\ pc' = pc + 1 /\ pc' \in 1 .. 48
      /\ \/ pc = 6 /\ "SYSPLL" \in running
         \/ pc = 10
         \/ pc \in {43, 47} /\ irq
         \/ pc = 44
  BY AtPlace DEF SInv, Wait, Placed, ClockEffects, OtherEffects
<1>2. UNCHANGED <<clockVars, gateVars, pinVars, chipVars, logVars>>
  BY DEF Wait
<1> USE DEF SInv, clockVars, gateVars, pinVars, chipVars, logVars
<1>3. BoardTypes'
  BY <1>1, <1>2 DEF BoardTypes
<1>4. ClocksDone' /\ GatesDone'
  BY <1>1, <1>2 DEF ClocksDone, GatesDone
<1>5. PinsDone' /\ ChipDone' /\ LogDone'
  BY <1>1, <1>2 DEF PinsDone, ChipDone, LogDone
<1> QED
  BY <1>3, <1>4, <1>5

LEMMA StepGate == SInv /\ Gate => SInv'
<1> SUFFICES ASSUME SInv, Gate PROVE SInv'
  OBVIOUS
<1>1. UNCHANGED <<clockVars, pinVars, chipVars, logVars>>
  BY DEF Gate
<1>2. ASSUME NEW kind \in {"clocks", "divide", "release", "access"}, At(kind)
      PROVE  /\ pc \in 1 .. 47 /\ pc' = pc + 1 /\ pc' \in 1 .. 48
             /\ pc \in {1, 3, 7, 12, 13, 14, 15, 33, 34, 35, 36, 45}
             /\ effect.do = kind
             /\ GateEffects(pc, effect)
  BY <1>2, AtPlace DEF SInv, Placed, GateEffects
<1>3. /\ pc \in 1 .. 47 /\ pc' = pc + 1 /\ pc' \in 1 .. 48
      /\ pc \in {1, 3, 7, 12, 13, 14, 15, 33, 34, 35, 36, 45}
  BY <1>2 DEF Gate
<1>4. \/ /\ pc = 13 /\ clocks' = Peripherals
         /\ UNCHANGED <<divided, held, configured>>
      \/ /\ \/ pc = 12 /\ effect.on = "SYS"
            \/ pc = 14 /\ effect.on = "USART"
            \/ pc = 34 /\ effect.on = "SSP1"
         /\ divided' = divided \cup {effect.on}
         /\ UNCHANGED <<clocks, held, configured>>
      \/ /\ pc = 35 /\ held' = held \ {"SSP1"}
         /\ UNCHANGED <<clocks, divided, configured>>
      \/ /\ \/ pc \in {1, 3, 7} /\ effect.on = "SCB"
            \/ pc = 15 /\ effect.on = "USART"
            \/ pc = 33 /\ effect.on = "CT32B1"
            \/ pc \in {36, 45} /\ effect.on = "SSP1"
         /\ configured' = configured \cup {effect.on}
         /\ UNCHANGED <<clocks, divided, held>>
  <2>1. CASE At("clocks") /\ clocks' = clocks \cup effect.on
             /\ UNCHANGED <<divided, held, configured>>
    <3>1. pc = 13 /\ effect.on = Peripherals
      BY <1>2, <2>1 DEF GateEffects
    <3>2. clocks' = Peripherals
      BY <2>1, <3>1 DEF SInv, BoardTypes
    <3> QED
      BY <2>1, <3>1, <3>2
  <2>2. CASE At("divide") /\ divided' = divided \cup {effect.on}
             /\ UNCHANGED <<clocks, held, configured>>
    BY <1>2, <2>2 DEF GateEffects
  <2>3. CASE At("release") /\ held' = held \ {effect.on}
             /\ UNCHANGED <<clocks, divided, configured>>
    BY <1>2, <2>3 DEF GateEffects
  <2>4. CASE At("access") /\ configured' = configured \cup {effect.on}
             /\ UNCHANGED <<clocks, divided, held>>
    BY <1>2, <2>4 DEF GateEffects
  <2> QED
    BY <2>1, <2>2, <2>3, <2>4 DEF Gate
<1> USE DEF SInv, clockVars, pinVars, chipVars, logVars
<1>5. BoardTypes'
  BY <1>1, <1>3, <1>4 DEF BoardTypes, Peripherals
<1>6. GatesDone'
  <2>1. pc' > 13 => clocks' = Peripherals
    BY <1>3, <1>4 DEF GatesDone
  <2>2. /\ pc' > 14 => "USART" \in divided'
        /\ pc' > 34 => "SSP1" \in divided'
    BY <1>3, <1>4 DEF GatesDone
  <2>3. pc' > 35 => held' = {}
    <3>1. held \ {"SSP1"} = {}
      BY DEF BoardTypes
    <3>2. CASE pc = 35
      BY <1>4, <3>1, <3>2
    <3>3. CASE pc # 35
      BY <1>3, <1>4, <3>3 DEF GatesDone
    <3> QED
      BY <3>2, <3>3
  <2>4. pc' > 36 => "SSP1" \in configured'
    BY <1>3, <1>4 DEF GatesDone
  <2> QED
    BY <2>1, <2>2, <2>3, <2>4 DEF GatesDone
<1>7. ClocksDone' /\ PinsDone' /\ ChipDone' /\ LogDone'
  BY <1>1, <1>3 DEF ClocksDone, PinsDone, ChipDone, LogDone
<1> QED
  BY <1>5, <1>6, <1>7

LEMMA StepPin == SInv /\ Pin => SInv'
<1> SUFFICES ASSUME SInv, Pin PROVE SInv'
  OBVIOUS
<1>1. UNCHANGED <<clockVars, gateVars, chipVars, logVars>>
  BY DEF Pin
<1>2. ASSUME NEW kind \in {"latch", "output", "input", "mux"}, At(kind)
      PROVE  /\ pc \in 1 .. 47 /\ pc' = pc + 1 /\ pc' \in 1 .. 48
             /\ pc \in 16 .. 20 \/ pc \in 22 .. 32 \/ pc \in {38, 39, 42, 46}
             /\ effect.do = kind
             /\ PinEffects(pc, effect)
  BY <1>2, AtPlace DEF SInv, Placed, PinEffects
<1>3. /\ pc \in 1 .. 47 /\ pc' = pc + 1 /\ pc' \in 1 .. 48
      /\ pc \in 16 .. 20 \/ pc \in 22 .. 32 \/ pc \in {38, 39, 42, 46}
  BY <1>2 DEF Pin
<1> USE DEF SInv, clockVars, gateVars, chipVars, logVars
<1>4. ClocksDone' /\ GatesDone' /\ ChipDone' /\ LogDone'
  BY <1>1, <1>3 DEF ClocksDone, GatesDone, ChipDone, LogDone
<1>5. ASSUME At("latch"), UNCHANGED <<outputs, muxed>>,
             latch' = [latch EXCEPT ![effect.on] = effect.value]
      PROVE  BoardTypes' /\ PinsDone'
  <2>1. \/ pc \in {22, 38} /\ effect.on = "CS" /\ effect.value = 1
        \/ pc \in {23, 39} /\ effect.on = "EN" /\ effect.value = 0
        \/ pc = 42 /\ effect.on = "EN" /\ effect.value = 1
        \/ pc = 46 /\ effect.on = "CS" /\ effect.value = 0
    BY <1>2, <1>5 DEF PinEffects
  <2>2. BoardTypes'
    BY <1>1, <1>3, <1>5, <2>1 DEF BoardTypes
  <2>3. PinsDone'
    BY <1>1, <1>3, <1>5, <2>1 DEF PinsDone, BoardTypes
  <2> QED
    BY <2>2, <2>3
<1>6. ASSUME At("output"), UNCHANGED <<latch, muxed>>,
             outputs' = outputs \cup {effect.on}
      PROVE  BoardTypes' /\ PinsDone'
  <2>1. \/ pc = 16 /\ effect.on = "LED"
        \/ pc = 24 /\ effect.on = "EN"
        \/ pc = 28 /\ effect.on = "CS"
    BY <1>2, <1>6 DEF PinEffects
  <2>2. BoardTypes'
    BY <1>1, <1>3, <1>6, <2>1 DEF BoardTypes, Pins
  <2>3. PinsDone'
    BY <1>1, <1>3, <1>6, <2>1 DEF PinsDone
  <2> QED
    BY <2>2, <2>3
<1>7. ASSUME At("input"), UNCHANGED <<latch, muxed>>,
             outputs' = outputs \ {effect.on}
      PROVE  BoardTypes' /\ PinsDone'
  <2>1. pc = 26 /\ effect.on = "IRQ"
    BY <1>2, <1>7 DEF PinEffects
  <2>2. BoardTypes'
    BY <1>1, <1>3, <1>7, <2>1 DEF BoardTypes
  <2>3. PinsDone'
    BY <1>1, <1>3, <1>7, <2>1 DEF PinsDone
  <2> QED
    BY <2>2, <2>3
<1>8. ASSUME At("mux"), UNCHANGED <<latch, outputs>>,
             muxed' = muxed \cup {effect.on}
      PROVE  BoardTypes' /\ PinsDone'
  <2>1. \/ pc = 17 /\ effect.on = "RXD"
        \/ pc = 18 /\ effect.on = "TXD"
        \/ pc = 19 /\ effect.on = "USB_VBUS"
        \/ pc = 20 /\ effect.on = "USB_CONNECT"
        \/ pc = 25 /\ effect.on = "EN"
        \/ pc = 27 /\ effect.on = "IRQ"
        \/ pc = 29 /\ effect.on = "CS"
        \/ pc = 30 /\ effect.on = "SCLK"
        \/ pc = 31 /\ effect.on = "MOSI"
        \/ pc = 32 /\ effect.on = "MISO"
    BY <1>2, <1>8 DEF PinEffects
  <2>2. BoardTypes'
    BY <1>1, <1>3, <1>8, <2>1 DEF BoardTypes, Pins
  <2>3. PinsDone'
    BY <1>1, <1>3, <1>8, <2>1 DEF PinsDone
  <2> QED
    BY <2>2, <2>3
<1> QED
  BY <1>4, <1>5, <1>6, <1>7, <1>8 DEF Pin

(* The log: a call, a character written, a character sent.                 *)
LEMMA StepLogText == SInv /\ LogText => SInv'
<1> SUFFICES ASSUME SInv, LogText PROVE SInv'
  OBVIOUS
<1>1. UNCHANGED boardVars /\ thr' = thr
  BY DEF LogText, Log!serial_write_string, Log!serial_write_line, Log!Call
<1>2. ASSUME NEW kind \in {"string", "line"}, At(kind)
      PROVE  /\ pc \in 1 .. 47 /\ pc' = pc + 1 /\ pc' \in 1 .. 48
             /\ pc \in {37, 40, 41}
  BY <1>2, AtPlace DEF SInv, Placed, OtherEffects
<1>3. /\ pc \in 1 .. 47 /\ pc' = pc + 1 /\ pc' \in 1 .. 48
      /\ pc \in {37, 40, 41}
  BY <1>2 DEF LogText
<1> USE DEF SInv, boardVars, clockVars, gateVars, pinVars, chipVars
<1>4. BoardTypes' /\ ClocksDone' /\ GatesDone'
  BY <1>1, <1>3 DEF BoardTypes, ClocksDone, GatesDone
<1>5. PinsDone' /\ ChipDone' /\ LogDone'
  BY <1>1, <1>3 DEF PinsDone, ChipDone, LogDone
<1> QED
  BY <1>4, <1>5

LEMMA BoardStays ==
  SInv /\ UNCHANGED <<pc, boardVars>>
    => /\ BoardTypes' /\ ClocksDone' /\ GatesDone' /\ PinsDone' /\ ChipDone'
BY DEF SInv, boardVars, clockVars, gateVars, pinVars, chipVars, BoardTypes,
       ClocksDone, GatesDone, PinsDone, ChipDone

LEMMA StepLogMore == SInv /\ LogMore => SInv'
<1> SUFFICES ASSUME SInv, LogMore PROVE SInv'
  OBVIOUS
<1>1. UNCHANGED <<pc, boardVars>> /\ thr' = thr
  BY DEF LogMore, Log!serial_write_string, Log!serial_write_line,
         Log!serial_write_hex, Log!Call
<1>2. pc > 47 /\ pc \in 1 .. 48
  BY AllPlaces DEF LogMore, Started, SInv, BoardTypes
<1>3. LogDone'
  BY <1>1, <1>2 DEF SInv, LogDone
<1> QED
  BY <1>1, <1>3, BoardStays DEF SInv

LEMMA StepLogWrite == SInv /\ LogWrite => SInv'
<1> SUFFICES ASSUME SInv, LogWrite PROVE SInv'
  OBVIOUS
<1>1. UNCHANGED <<pc, boardVars>>
  BY DEF LogWrite
<1>2. ~(pc <= 37)
  BY DEF LogWrite, Log!serial_write, Log!Idle, SInv, LogDone
<1>3. thr = <<>> /\ Len(thr) = 0
  BY DEF LogWrite, Log!serial_write, Log!Empty
<1>4. thr' = <<Head(thr')>>
  <2>1. 0 < FifoDepth
    BY FifoDepthAssumption
  <2>2. thr' = Append(thr, Head(text))
    BY <1>3, <2>1 DEF LogWrite, Log!serial_write, Log!Written
  <2> QED
    BY <1>3, <2>2
<1>5. LogDone'
  BY <1>1, <1>2, <1>4 DEF LogDone
<1> QED
  BY <1>1, <1>5, BoardStays DEF SInv

LEMMA StepTransmit == SInv /\ UartTransmits => SInv'
<1> SUFFICES ASSUME SInv, UartTransmits PROVE SInv'
  OBVIOUS
<1>1. UNCHANGED <<pc, boardVars>> /\ text' = text
  BY DEF UartTransmits, Log!Transmit
<1>2. thr # <<>> /\ thr' = Tail(thr)
  BY DEF UartTransmits, Log!Transmit
<1>3. thr = <<Head(thr)>>
  BY <1>2 DEF SInv, LogDone
<1>4. thr' = <<>>
  <2>1. PICK c : thr = <<c>>
    BY <1>3
  <2> QED
    BY <1>2, <2>1
<1>5. LogDone'
  BY <1>1, <1>4 DEF SInv, LogDone
<1> QED
  BY <1>1, <1>5, BoardStays DEF SInv

(* The hardware.                                                           *)
LEMMA StepHardware ==
  /\ SInv
  /\ \/ \E unit \in {"SYSOSC", "SYSPLL", "USBPLL"} : ClockStarts(unit)
     \/ ChipWakes
     \/ ChipReady
  => SInv'
<1>1. ASSUME SInv, NEW unit \in {"SYSOSC", "SYSPLL", "USBPLL"},
             ClockStarts(unit)
      PROVE  SInv'
  <2>1. /\ running' = running \cup {unit} /\ unit \in powered
        /\ UNCHANGED <<pc, powered, source, gateVars, pinVars, chipVars,
                       logVars>>
    BY <1>1 DEF ClockStarts
  <2> QED
    BY <1>1, <2>1
       DEF SInv, gateVars, pinVars, chipVars, logVars, BoardTypes, ClocksDone,
           GatesDone, PinsDone, ChipDone, LogDone
<1>2. ASSUME SInv, ChipWakes PROVE SInv'
  <2>1. /\ chip = "off" /\ chip' = "waking" /\ irq' = IrqStartsAsserted
        /\ UNCHANGED <<pc, clockVars, gateVars, pinVars, logVars>>
    BY <1>2 DEF ChipWakes
  <2>2. ChipDone'
    BY <1>2, <2>1 DEF SInv, ChipDone
  <2>3. BoardTypes'
    BY <1>2, <2>1, IrqAssumption
       DEF SInv, clockVars, gateVars, pinVars, BoardTypes
  <2>4. ClocksDone' /\ GatesDone' /\ PinsDone' /\ LogDone'
    BY <1>2, <2>1
       DEF SInv, clockVars, gateVars, pinVars, logVars, ClocksDone, GatesDone,
           PinsDone, LogDone
  <2> QED
    BY <2>2, <2>3, <2>4 DEF SInv
<1>3. ASSUME SInv, ChipReady PROVE SInv'
  <2>1. /\ chip' = "ready" /\ irq' = TRUE
        /\ UNCHANGED <<pc, clockVars, gateVars, pinVars, logVars>>
    BY <1>3 DEF ChipReady
  <2>2. ChipDone'
    BY <2>1 DEF ChipDone
  <2>3. BoardTypes'
    BY <1>3, <2>1 DEF SInv, clockVars, gateVars, pinVars, BoardTypes
  <2>4. ClocksDone' /\ GatesDone' /\ PinsDone' /\ LogDone'
    BY <1>3, <2>1
       DEF SInv, clockVars, gateVars, pinVars, logVars, ClocksDone, GatesDone,
           PinsDone, LogDone
  <2> QED
    BY <2>2, <2>3, <2>4 DEF SInv
<1> QED
  BY <1>1, <1>2, <1>3

LEMMA StepSInv == SInv /\ [Next]_vars => SInv'
<1> SUFFICES ASSUME SInv, [Next]_vars PROVE SInv'
  OBVIOUS
<1>1. CASE UNCHANGED vars
  BY <1>1
     DEF vars, clockVars, gateVars, pinVars, chipVars, logVars, SInv,
         BoardTypes, ClocksDone, GatesDone, PinsDone, ChipDone, LogDone
<1>2. CASE Main
  BY <1>2, StepPowerUp, StepSelectSource, StepWait, StepGate, StepPin,
     StepLogText, StepLogWrite DEF Main
<1>3. CASE Poll
  BY <1>1, <1>3 DEF Poll
<1> QED
  BY <1>1, <1>2, <1>3, StepLogMore, StepTransmit, StepHardware DEF Next

LEMMA AlwaysSInv == Spec => []SInv
BY InitSInv, StepSInv, PTL DEF Spec

(* The log's text and what is in the UART, of whatever type.               *)
LEMMA NoneLogged == <<>> \o <<>> = <<>>
OBVIOUS

LEMMA GatesOpen ==
  ASSUME SInv
  PROVE  /\ Usable("SCB")
         /\ pc > 13 => /\ Usable("GPIO") /\ Usable("IOCON")
                       /\ Usable("CT32B1")
         /\ pc > 14 => Usable("USART")
         /\ pc > 35 => Usable("SSP1")
<1>1. held \subseteq {"SSP1"} /\ pc \in 1 .. 48
  BY DEF SInv, BoardTypes
<1>2. /\ "GPIO" \in Peripherals /\ "IOCON" \in Peripherals
      /\ "CT32B1" \in Peripherals /\ "USART" \in Peripherals
      /\ "SSP1" \in Peripherals
  BY DEF Peripherals
<1>3. Usable("SCB")
  BY <1>1 DEF Usable
<1>4. pc > 13 => Usable("GPIO") /\ Usable("IOCON") /\ Usable("CT32B1")
  BY <1>1, <1>2 DEF SInv, GatesDone, Usable
<1>5. pc > 14 => Usable("USART")
  BY <1>1, <1>2 DEF SInv, GatesDone, Usable
<1>6. pc > 35 => Usable("SSP1")
  BY <1>1, <1>2 DEF SInv, GatesDone, Usable
<1> QED
  BY <1>3, <1>4, <1>5, <1>6

LEMMA TouchesUsable ==
  ASSUME SInv, ~Started, NEW unit \in Touched(effect)
  PROVE  Usable(unit)
<1>1. pc \in 1 .. 47 /\ Placed(pc, effect)
  BY AllPlaces DEF Started, SInv, BoardTypes, effect
<1>2. CASE effect.do \in {"latch", "output", "input", "irq", "unselected"}
  <2>1. pc > 13
    BY <1>1, <1>2 DEF Placed, PinEffects, OtherEffects
  <2>2. unit = "GPIO"
    BY <1>2 DEF Touched
  <2> QED
    BY <2>1, <2>2, GatesOpen
<1>3. CASE effect.do = "mux"
  <2>1. pc > 13
    BY <1>1, <1>3 DEF Placed, PinEffects
  <2>2. unit = "IOCON"
    BY <1>3 DEF Touched
  <2> QED
    BY <2>1, <2>2, GatesOpen
<1>4. CASE effect.do = "access"
  <2>1. \/ effect.on = "SCB"
        \/ pc > 14 /\ effect.on = "USART"
        \/ pc > 13 /\ effect.on = "CT32B1"
        \/ pc > 35 /\ effect.on = "SSP1"
    BY <1>1, <1>4 DEF Placed, GateEffects
  <2>2. unit = effect.on
    BY <1>4 DEF Touched
  <2> QED
    BY <2>1, <2>2, GatesOpen
<1>5. CASE effect.do \in {"string", "line"}
  <2>1. pc > 14 /\ effect.on = "USART"
    BY <1>1, <1>5 DEF Placed, OtherEffects
  <2>2. unit = effect.on
    BY <1>5 DEF Touched
  <2> QED
    BY <2>1, <2>2, GatesOpen
<1>6. \/ effect.do \in {"latch", "output", "input", "irq", "unselected"}
      \/ effect.do = "mux"
      \/ effect.do = "access"
      \/ effect.do \in {"string", "line"}
  BY DEF Touched
<1> QED
  BY <1>2, <1>3, <1>4, <1>5, <1>6

(* Type correctness, however deep the UART is.                             *)
THEOREM TypeCorrect == Spec => []TypeOK
<1>1. SInv => TypeOK
  <2> SUFFICES ASSUME SInv PROVE TypeOK
    OBVIOUS
  <2>1. pc \in 1 .. Len(main) + 1
    BY AllPlaces DEF SInv, BoardTypes
  <2>2. Len(thr) <= FifoDepth
    <3>1. CASE thr = <<>>
      BY <3>1, FifoDepthAssumption
    <3>2. CASE thr # <<>>
      <4>1. PICK c : thr = <<c>>
        BY <3>2 DEF SInv, LogDone
      <4>2. Len(thr) = 1
        BY <4>1
      <4> QED
        BY <4>2, FifoDepthAssumption
    <3> QED
      BY <3>1, <3>2
  <2>3. outputs \cup muxed \subseteq Pins
    BY DEF SInv, BoardTypes
  <2>4. \A clock \in {"SYSPLL", "USBPLL", "MAIN"} :
          source[clock] \in {"IRC", "SYSOSC", "SYSPLL"}
    BY DEF SInv, BoardTypes
  <2> QED
    BY <2>1, <2>2, <2>3, <2>4 DEF SInv, BoardTypes, TypeOK
<1> QED
  BY <1>1, AlwaysSInv, PTL

(* No access to a peripheral without its clock, no write to the UART       *)
(* before it has one, and the processor's own clock always runs.           *)
THEOREM NothingIsUnclocked == Spec => []NothingUnclocked
<1>1. SInv => NothingUnclocked
  <2> SUFFICES ASSUME SInv PROVE NothingUnclocked
    OBVIOUS
  <2>1. source["MAIN"] \in running
    BY DEF SInv, ClocksDone, BoardTypes
  <2>2. ~Started => \A unit \in Touched(effect) : Usable(unit)
    BY TouchesUsable
  <2>3. thr \o text # <<>> => Usable("USART")
    <3>1. pc <= 37 => thr \o text = <<>>
      BY NoneLogged DEF SInv, LogDone
    <3>2. pc \in 1 .. 48 /\ (~(pc <= 37) => pc > 14)
      BY DEF SInv, BoardTypes
    <3> QED
      BY <3>1, <3>2, GatesOpen
  <2> QED
    BY <2>1, <2>2, <2>3 DEF NothingUnclocked
<1> QED
  BY <1>1, AlwaysSInv, PTL

(* The chip has no power before its pins and the SPI controller are set    *)
(* up, and they stay so.                                                   *)
THEOREM PowerComesLast == Spec => []PoweredLast
<1>1. SInv => PoweredLast
  <2> SUFFICES ASSUME SInv, Drives("EN", 1) PROVE PoweredLast
    BY DEF PoweredLast
  <2>1. pc > 42 /\ pc \in 1 .. 48
    BY DEF Drives, SInv, PinsDone, BoardTypes
  <2>2. Usable("SSP1")
    BY <2>1, GatesOpen
  <2>3. "SSP1" \in configured
    BY <2>1 DEF SInv, GatesDone
  <2>4. /\ {"EN", "CS"} \subseteq outputs /\ "IRQ" \notin outputs
        /\ {"EN", "CS", "IRQ", "SCLK", "MOSI", "MISO"} \subseteq muxed
    BY <2>1 DEF SInv, PinsDone
  <2> QED
    BY <2>2, <2>3, <2>4 DEF PoweredLast
<1> QED
  BY <1>1, AlwaysSInv, PTL

(* The chip is selected only when it is ready, if it powers up with IRQ#   *)
(* high; if it does not, it may be selected while it wakes.                *)
THEOREM ChipIsReadyFirst == ~IrqStartsAsserted => (Spec => []ChipReadyFirst)
<1> SUFFICES ASSUME ~IrqStartsAsserted PROVE Spec => []ChipReadyFirst
  OBVIOUS
<1>1. SInv => ChipReadyFirst
  <2> SUFFICES ASSUME SInv, Drives("CS", 0) PROVE chip = "ready"
    BY DEF ChipReadyFirst
  <2>1. pc > 43 /\ pc \in 1 .. 48
    BY DEF Drives, SInv, PinsDone, BoardTypes
  <2> QED
    BY <2>1 DEF SInv, ChipDone
<1> QED
  BY <1>1, AlwaysSInv, PTL
-----------------------------------------------------------------------------
(* Powers of 16, and the number of digits of a number.                     *)
LEMMA Powers ==
  /\ Log!Power16[0] = 1
  /\ \A k \in Nat : /\ Log!Power16[k] \in Nat
                    /\ k < Log!Power16[k]
                    /\ Log!Power16[k + 1] = 16 * Log!Power16[k]
<1> DEFINE f == Log!Power16
<1>1. f = CHOOSE g : IsPower(g, 16)
  BY DEF Log!Power16, IsPower
<1> HIDE DEF f
<1>2. ArePowers(f, 16) /\ 16 > 1
  BY <1>1, PowersAre
<1>3. Exceeds(f)
  BY <1>2, PowersExceed
<1> QED
  BY <1>2, <1>3 DEF ArePowers, Exceeds, f

(* n is how many digits a number of that value and width has.              *)
IsCount(n, value, width) ==
  /\ n \in Nat \ {0}
  /\ Log!Fits(value, width, n)
  /\ \A j \in 1 .. n - 1 : ~Log!Fits(value, width, j)

Place(value, k) == LET d == (value \div Log!Power16[k]) % 16
                   IN  IF d < 10 THEN d + 48 ELSE d + 55

LEMMA CountExists ==
  ASSUME NEW value \in Nat, NEW width \in Nat
  PROVE  \E n \in 1 .. value + width + 1 : IsCount(n, value, width)
<1> DEFINE F(k) == Log!Fits(value, width, k)
           T == {k \in Nat : \A j \in 1 .. k : ~F(j)}
           m == value + width + 1
<1>1. m \in Nat /\ m \in 1 .. m
  OBVIOUS
<1>2. F(m)
  <2>1. m < Log!Power16[m] /\ Log!Power16[m] \in Nat
    BY <1>1, Powers
  <2> QED
    BY <2>1 DEF Log!Fits
<1> HIDE DEF m
<1>3. SUFFICES ASSUME \A n \in 1 .. m : ~IsCount(n, value, width)
               PROVE  FALSE
  BY DEF m
<1>4. ASSUME NEW k \in T, k + 1 <= m PROVE ~F(k + 1)
  <2>1. k + 1 \in 1 .. m /\ k + 1 \in Nat \ {0} /\ (k + 1) - 1 = k
    BY <1>1, <1>4
  <2> QED
    BY <1>3, <1>4, <2>1 DEF IsCount
<1> DEFINE U == {k \in Nat : k <= m => k \in T}
<1>5. U = Nat
  <2>1. 0 \in U
    OBVIOUS
  <2>2. ASSUME NEW k \in U, k + 1 <= m PROVE k + 1 \in T
    <3>1. k \in T /\ k \in Nat
      BY <1>1, <2>2
    <3>2. ~F(k + 1)
      BY <1>4, <2>2, <3>1
    <3>3. \A j \in 1 .. k + 1 : j \in 1 .. k \/ j = k + 1
      BY <3>1
    <3> HIDE DEF F
    <3> QED
      BY <3>1, <3>2, <3>3
  <2>3. \A k \in U : k + 1 \in U
    BY <2>2
  <2> HIDE DEF T
  <2>4. U \subseteq Nat
    OBVIOUS
  <2> HIDE DEF U
  <2> QED
    BY <2>1, <2>3, <2>4, Induction
<1>6. m \in T
  BY <1>1, <1>5
<1> QED
  BY <1>1, <1>2, <1>6

LEMMA CountIsOne ==
  ASSUME NEW value \in Nat, NEW width \in Nat,
         NEW n, IsCount(n, value, width), NEW m, IsCount(m, value, width)
  PROVE  n = m
<1>1. n \in Nat \ {0} /\ m \in Nat \ {0}
  BY DEF IsCount
<1>2. ~(n < m)
  <2>1. n < m => n \in 1 .. m - 1
    BY <1>1
  <2> QED
    BY <2>1 DEF IsCount
<1>3. ~(m < n)
  <2>1. m < n => m \in 1 .. n - 1
    BY <1>1
  <2> QED
    BY <2>1 DEF IsCount
<1> QED
  BY <1>1, <1>2, <1>3

IsDigits(value, width, n) ==
  Log!Digits(value, width) = [i \in 1 .. n |-> Place(value, n - i)]

LEMMA DigitsAre ==
  ASSUME NEW value \in Nat, NEW width \in Nat, NEW n, IsCount(n, value, width)
  PROVE  IsDigits(value, width, n)
<1> DEFINE C(k) == /\ Log!Fits(value, width, k)
                   /\ \A j \in 1 .. k - 1 : ~Log!Fits(value, width, j)
           m == CHOOSE k \in 1 .. value + width + 1 : C(k)
<1>1. \E k \in 1 .. value + width + 1 : C(k)
  BY CountExists DEF IsCount
<1>2. m \in 1 .. value + width + 1 /\ C(m)
  <2> HIDE DEF C
  <2> QED
    BY <1>1, Zenon
<1>3. m \in Nat \ {0}
  BY <1>2
<1>4. IsCount(m, value, width)
  <2> HIDE DEF m
  <2> QED
    BY <1>2, <1>3 DEF IsCount
<1>5. m = n
  <2> HIDE DEF m
  <2> QED
    BY <1>4, CountIsOne
<1>6. Log!Digits(value, width) = [i \in 1 .. m |-> Place(value, m - i)]
  BY DEF Log!Digits, Place
<1> HIDE DEF m
<1> QED
  BY <1>5, <1>6 DEF IsDigits

(* What the digits are made of.                                            *)
DigitsTyped(value, width) == Log!Digits(value, width) \in Seq(Nat)

LEMMA PlaceIsNat ==
  ASSUME NEW value \in Nat, NEW k \in Nat PROVE Place(value, k) \in Nat
<1>1. Log!Power16[k] \in Nat /\ Log!Power16[k] > 0
  BY Powers
<1> DEFINE p == Log!Power16[k]
           d == (value \div p) % 16
<1>2. p \in Nat /\ p > 0
  BY <1>1
<1> HIDE DEF p
<1>3. d \in Nat
  BY <1>2
<1>4. Place(value, k) = IF d < 10 THEN d + 48 ELSE d + 55
  BY DEF Place, p
<1> QED
  BY <1>3, <1>4

LEMMA DigitsAreNats ==
  ASSUME NEW value \in Nat, NEW width \in Nat
  PROVE  DigitsTyped(value, width)
<1>1. PICK n \in 1 .. value + width + 1 : IsCount(n, value, width)
  BY CountExists
<1>2. IsDigits(value, width, n) /\ n \in Nat
  BY <1>1, DigitsAre
<1>3. \A i \in 1 .. n : Place(value, n - i) \in Nat
  <2>1. \A i \in 1 .. n : n - i \in Nat
    BY <1>2
  <2> QED
    BY <2>1, PlaceIsNat
<1>4. [i \in 1 .. n |-> Place(value, n - i)] \in [1 .. n -> Nat]
  BY <1>3
<1> QED
  BY <1>2, <1>4, FunctionIsSeq DEF IsDigits, DigitsTyped

(* The recursion of serial_write_hex_recursive, for any function.          *)
Below(width) == IF width # 0 THEN width - 1 ELSE 0

LastDigit(value) == <<Log!serial_write_hex_digit(value % 16)>>

Ends(value, width) == value \div 16 = 0 /\ Below(width) = 0

LEMMA OneDigit ==
  ASSUME NEW value \in Nat, NEW width \in Nat, Ends(value, width)
  PROVE  Log!Digits(value, width) = LastDigit(value)
<1>1. value < 16 /\ width <= 1 /\ 1 \in Nat /\ 0 \in Nat
  BY DEF Ends, Below
<1>2. Log!Power16[0] = 1 /\ Log!Power16[1] = 16
  <2>1. Log!Power16[0 + 1] = 16 * Log!Power16[0]
    BY Powers
  <2>2. Log!Power16[0] = 1 /\ 0 + 1 = 1 /\ 16 * 1 = 16
    BY Powers
  <2> QED
    BY <2>1, <2>2
<1>3. IsCount(1, value, width)
  BY <1>1, <1>2 DEF IsCount, Log!Fits
<1>4. IsDigits(value, width, 1)
  BY <1>3, DigitsAre
<1>5. Place(value, 0) = Log!serial_write_hex_digit(value % 16)
  BY <1>1, <1>2 DEF Place, Log!serial_write_hex_digit
<1>6. [i \in 1 .. 1 |-> Place(value, 1 - i)] = <<Place(value, 0)>>
  <2> DEFINE f == [i \in 1 .. 1 |-> Place(value, 1 - i)]
             x == Place(value, 0)
  <2>1. f[1] = x /\ f \in [1 .. 1 -> {x}]
    <3>1. \A i \in 1 .. 1 : i = 1 /\ 1 - i = 0
      OBVIOUS
    <3> QED
      BY <3>1
  <2> HIDE DEF f, x
  <2>2. f \in Seq({x}) /\ Len(f) = 1
    BY <2>1, FunctionIsSeq
  <2>3. f = <<x>>
    BY <2>1, <2>2
  <2> QED
    BY <2>3 DEF f, x
<1> QED
  BY <1>4, <1>5, <1>6 DEF IsDigits, LastDigit

(* A place above the last is the place below it of the number without its  *)
(* last digit.                                                             *)
LEMMA HigherPlace ==
  ASSUME NEW value \in Nat, NEW k \in Nat
  PROVE  Place(value, k + 1) = Place(value \div 16, k)
<1> DEFINE p == Log!Power16[k]
           q == Log!Power16[k + 1]
<1>1. p \in Nat /\ p > 0 /\ q = 16 * p
  BY Powers
<1> HIDE DEF p, q
<1>2. (value \div 16) \div p = value \div (16 * p)
  BY <1>1
<1>3. (value \div 16) \div p = value \div q
  BY <1>1, <1>2
<1> QED
  BY <1>3 DEF Place, p, q

LEMMA LastPlace ==
  ASSUME NEW value \in Nat
  PROVE  <<Place(value, 0)>> = LastDigit(value)
<1>1. Log!Power16[0] = 1 /\ value \div 1 = value
  BY Powers
<1>2. value % 16 \in 0 .. 15
  OBVIOUS
<1>3. Place(value, 0) = Log!serial_write_hex_digit(value % 16)
  BY <1>1, <1>2 DEF Place, Log!serial_write_hex_digit
<1> QED
  BY <1>3 DEF LastDigit

Rest(value, width) == Log!Digits(value \div 16, Below(width))

LEMMA MoreDigits ==
  ASSUME NEW value \in Nat, NEW width \in Nat, ~Ends(value, width)
  PROVE  Log!Digits(value, width) = Rest(value, width) \o LastDigit(value)
<1> DEFINE v == value \div 16
           w == Below(width)
<1>1. v \in Nat /\ w \in Nat
  BY DEF Below
<1>2. PICK n \in 1 .. v + w + 1 : IsCount(n, v, w)
  <2> HIDE DEF v, w
  <2> QED
    BY <1>1, CountExists
<1>3. n \in Nat \ {0} /\ n + 1 \in Nat \ {0}
  BY <1>2 DEF IsCount
<1>4. ASSUME NEW k \in Nat
      PROVE  Log!Fits(value, width, k + 1) <=> Log!Fits(v, w, k)
  <2> DEFINE p == Log!Power16[k]
             q == Log!Power16[k + 1]
  <2>1. p \in Nat /\ q = 16 * p
    BY Powers
  <2> HIDE DEF p, q
  <2>2. value < 16 * p <=> value \div 16 < p
    BY <2>1
  <2>3. width <= k + 1 <=> Below(width) <= k
    BY DEF Below
  <2> QED
    BY <2>1, <2>2, <2>3 DEF Log!Fits, p, q
<1>5. ~Log!Fits(value, width, 1)
  <2>1. value >= 16 \/ width > 1
    BY DEF Ends, Below
  <2>2. Log!Power16[1] = 16
    <3>1. 0 \in Nat /\ 0 + 1 = 1
      OBVIOUS
    <3> QED
      BY <3>1, Powers
  <2> QED
    BY <2>1, <2>2 DEF Log!Fits
<1> HIDE DEF v, w
<1>6. IsCount(n + 1, value, width)
  <2>1. Log!Fits(value, width, n + 1)
    BY <1>2, <1>3, <1>4 DEF IsCount
  <2>2. ASSUME NEW j \in 1 .. (n + 1) - 1 PROVE ~Log!Fits(value, width, j)
    <3>1. CASE j = 1
      BY <1>5, <3>1
    <3>2. CASE j # 1
      <4>1. j - 1 \in 1 .. n - 1 /\ j - 1 \in Nat /\ (j - 1) + 1 = j
        BY <1>3, <3>2
      <4>2. ~Log!Fits(v, w, j - 1)
        BY <1>2, <4>1 DEF IsCount
      <4>3. Log!Fits(value, width, (j - 1) + 1) <=> Log!Fits(v, w, j - 1)
        BY <1>4, <4>1
      <4> QED
        BY <4>1, <4>2, <4>3
    <3> QED
      BY <3>1, <3>2
  <2> QED
    BY <1>3, <2>1, <2>2 DEF IsCount
<1> DEFINE s == [i \in 1 .. n |-> Place(v, n - i)]
           t == [i \in 1 .. n + 1 |-> Place(value, (n + 1) - i)]
           e == Place(value, 0)
<1>7. Log!Digits(v, w) = s /\ Log!Digits(value, width) = t
  <2>1. IsDigits(v, w, n)
    BY <1>1, <1>2, DigitsAre
  <2>2. IsDigits(value, width, n + 1)
    BY <1>6, DigitsAre
  <2> QED
    BY <2>1, <2>2 DEF IsDigits
<1>8. s \in [1 .. n -> Nat] /\ t \in [1 .. n + 1 -> Nat] /\ e \in Nat
  <2>1. \A i \in 1 .. n : n - i \in Nat
    BY <1>3
  <2>2. \A i \in 1 .. n + 1 : (n + 1) - i \in Nat
    BY <1>3
  <2>3. \A i \in 1 .. n : Place(v, n - i) \in Nat
    BY <1>1, <2>1, PlaceIsNat
  <2>4. \A i \in 1 .. n + 1 : Place(value, (n + 1) - i) \in Nat
    BY <2>2, PlaceIsNat
  <2> QED
    BY <2>3, <2>4, PlaceIsNat
<1>9. \A i \in 1 .. n : t[i] = s[i]
  <2> SUFFICES ASSUME NEW i \in 1 .. n PROVE t[i] = s[i]
    OBVIOUS
  <2>1. n - i \in Nat /\ (n + 1) - i = (n - i) + 1 /\ i \in 1 .. n + 1
    BY <1>3
  <2>2. Place(value, (n - i) + 1) = Place(v, n - i)
    BY <2>1, HigherPlace DEF v
  <2> QED
    BY <2>1, <2>2
<1>10. t[n + 1] = e
  <2>1. n + 1 \in 1 .. n + 1 /\ (n + 1) - (n + 1) = 0
    BY <1>3
  <2> QED
    BY <2>1
<1>11. s \in Seq(Nat) /\ Len(s) = n
  <2> HIDE DEF s
  <2> QED
    BY <1>3, <1>8, FunctionIsSeq
<1> HIDE DEF s, t, e
<1>12. t = Append(s, e)
  BY <1>8, <1>9, <1>10, <1>11, IsAppend
<1>13. Append(s, e) = s \o <<e>>
  BY <1>8, <1>11
<1>14. <<e>> = LastDigit(value)
  BY LastPlace DEF e
<1> QED
  BY <1>7, <1>12, <1>13, <1>14 DEF Rest, v, w

Step16(f, value, width) ==
  (IF value \div 16 > 0 \/ Below(width) > 0
   THEN f[value \div 16][Below(width)] ELSE <<>>) \o LastDigit(value)

IsHex(f) == f = [value \in Nat |-> [width \in Nat |-> Step16(f, value, width)]]

LEMMA DigitsStep ==
  ASSUME NEW value \in Nat, NEW width \in Nat, NEW f,
         ~Ends(value, width)
           => f[value \div 16][Below(width)] = Rest(value, width)
  PROVE  Log!Digits(value, width) = Step16(f, value, width)
<1>1. value \div 16 \in Nat /\ Below(width) \in Nat
  BY DEF Below
<1>2. Ends(value, width) <=> ~(value \div 16 > 0 \/ Below(width) > 0)
  BY <1>1 DEF Ends
<1>3. CASE Ends(value, width)
  <2>1. Log!Digits(value, width) = LastDigit(value)
    BY <1>3, OneDigit
  <2>2. Step16(f, value, width) = <<>> \o LastDigit(value)
    BY <1>2, <1>3 DEF Step16
  <2>3. <<>> \o LastDigit(value) = LastDigit(value)
    BY DEF LastDigit
  <2> QED
    BY <2>1, <2>2, <2>3
<1>4. CASE ~Ends(value, width)
  <2>1. Log!Digits(value, width) = Rest(value, width) \o LastDigit(value)
    BY <1>4, MoreDigits
  <2>2. Step16(f, value, width)
          = f[value \div 16][Below(width)] \o LastDigit(value)
    BY <1>2, <1>4, Zenon DEF Step16
  <2> QED
    BY <1>4, <2>1, <2>2
<1> QED
  BY <1>3, <1>4

LEMMA HexExists == \E f : IsHex(f)
<1> DEFINE f == [value \in Nat |-> [width \in Nat |-> Log!Digits(value, width)]]
<1>1. ASSUME NEW value \in Nat, NEW width \in Nat
      PROVE  Log!Digits(value, width) = Step16(f, value, width)
  <2>1. value \div 16 \in Nat /\ Below(width) \in Nat
    BY DEF Below
  <2>2. f[value \div 16][Below(width)] = Rest(value, width)
    BY <2>1 DEF Rest
  <2> HIDE DEF f
  <2> QED
    BY <2>2, DigitsStep
<1>2. f = [value \in Nat |-> [width \in Nat |-> Step16(f, value, width)]]
  <2> DEFINE g == f
  <2>1. \A value \in Nat, width \in Nat :
          Log!Digits(value, width) = Step16(g, value, width)
    BY <1>1
  <2> HIDE DEF g
  <2>2. f = [value \in Nat |-> [width \in Nat |-> Step16(g, value, width)]]
    BY <2>1
  <2> QED
    BY <2>2 DEF g
<1> QED
  BY <1>2 DEF IsHex

HexIsDigits(value, width) == Log!Hex(value, width) = Log!Digits(value, width)

(* What serial_write_hex writes are the digits it should (serial.cpp:      *)
(* 166-187), for every value and width.                                    *)
LEMMA HexWritesDigits ==
  \A value \in Nat, width \in Nat : HexIsDigits(value, width)
<1> DEFINE f == Log!serial_write_hex_recursive
           Right(value, width) == f[value][width] = Log!Digits(value, width)
           T == {n \in Nat : \A value \in Nat, width \in Nat :
                               value + width <= n => Right(value, width)}
<1>1. IsHex(f)
  <2>1. f = CHOOSE g : IsHex(g)
    BY DEF Log!serial_write_hex_recursive, IsHex, Step16, Below, LastDigit
  <2> HIDE DEF f
  <2> QED
    BY <2>1, HexExists, Zenon
<1> HIDE DEF f
<1>2. ASSUME NEW value \in Nat, NEW width \in Nat
      PROVE  f[value][width] = Step16(f, value, width)
  <2> DEFINE g(v) == [w \in Nat |-> Step16(f, v, w)]
  <2>1. f = [v \in Nat |-> g(v)]
    BY <1>1 DEF IsHex
  <2> HIDE DEF g
  <2>2. f[value] = g(value)
    BY <2>1
  <2> QED
    BY <2>2 DEF g
<1>3. ASSUME NEW value \in Nat, NEW width \in Nat,
             ~Ends(value, width)
               => Right(value \div 16, Below(width))
      PROVE  Right(value, width)
  <2>1. ~Ends(value, width)
          => f[value \div 16][Below(width)] = Rest(value, width)
    BY <1>3 DEF Rest
  <2>2. Log!Digits(value, width) = Step16(f, value, width)
    BY <2>1, DigitsStep
  <2> QED
    BY <1>2, <2>2
<1> HIDE DEF Right
<1>4. 0 \in T
  <2> SUFFICES ASSUME NEW value \in Nat, NEW width \in Nat, value + width <= 0
               PROVE  Right(value, width)
    OBVIOUS
  <2>1. Ends(value, width)
    BY DEF Ends, Below
  <2> QED
    BY <1>3, <2>1
<1>5. ASSUME NEW n \in T PROVE n + 1 \in T
  <2> SUFFICES ASSUME NEW value \in Nat, NEW width \in Nat,
                      value + width <= n + 1
               PROVE  Right(value, width)
    OBVIOUS
  <2>1. value \div 16 \in Nat /\ Below(width) \in Nat
    BY DEF Below
  <2>2. ~Ends(value, width) => (value \div 16) + Below(width) <= n
    BY <2>1 DEF Ends, Below
  <2> QED
    BY <1>3, <2>1, <2>2
<1>6. T = Nat
  <2>1. T \subseteq Nat /\ \A n \in T : n + 1 \in T
    BY <1>5
  <2> HIDE DEF T
  <2> QED
    BY <1>4, <2>1, Induction
<1> SUFFICES ASSUME NEW value \in Nat, NEW width \in Nat
             PROVE  HexIsDigits(value, width)
  OBVIOUS
<1>7. PICK n \in Nat : n = value + width
  OBVIOUS
<1>8. Right(value, width)
  <2>1. n \in T
    BY <1>6
  <2> QED
    BY <1>7, <2>1
<1> QED
  BY <1>8 DEF HexIsDigits, Right, Log!Hex, f
-----------------------------------------------------------------------------
(* The log.  A call is what its caller meant.                              *)
Meant == [kind : {"string", "line"}, text : Texts]
         \cup [kind : {"hex"}, value : Values, width : Widths]

Meanings == [call \in Meant |-> Log!Meaning(call)]

Said(calls) == FlattenSeq(Mapped(Meanings, calls))

LEMMA NewlineIs == Log!Newline \in Seq(Nat) /\ Log!Newline = <<13, 10>>
BY DEF Log!Newline

LEMMA StringMeans ==
  ASSUME NEW s
  PROVE  Log!Meaning([kind |-> "string", text |-> s]) = s
BY DEF Log!Meaning

LEMMA LineMeans ==
  ASSUME NEW s
  PROVE  Log!Meaning([kind |-> "line", text |-> s]) = s \o Log!Newline
BY NewlineIs DEF Log!Meaning

LEMMA HexMeans ==
  ASSUME NEW value, NEW width
  PROVE  Log!Meaning([kind |-> "hex", value |-> value, width |-> width])
           = Log!Digits(value, width)
BY DEF Log!Meaning

LEMMA MeantIs ==
  /\ \A s \in Texts : /\ [kind |-> "string", text |-> s] \in Meant
                      /\ [kind |-> "line", text |-> s] \in Meant
  /\ \A value \in Values, width \in Widths :
       [kind |-> "hex", value |-> value, width |-> width] \in Meant
BY DEF Meant

LEMMA MeaningsAreSeqs == Meanings \in [Meant -> Seq(Nat)]
<1> SUFFICES ASSUME NEW call \in Meant PROVE Log!Meaning(call) \in Seq(Nat)
  BY DEF Meanings
<1>1. ASSUME NEW s \in Texts, call = [kind |-> "string", text |-> s]
      PROVE  Log!Meaning(call) \in Seq(Nat)
  BY <1>1, StringMeans, LogAssumption
<1>2. ASSUME NEW s \in Texts, call = [kind |-> "line", text |-> s]
      PROVE  Log!Meaning(call) \in Seq(Nat)
  <2>1. s \in Seq(Nat)
    BY LogAssumption
  <2>2. Log!Meaning(call) = s \o Log!Newline
    BY <1>2, LineMeans
  <2> QED
    BY <2>1, <2>2, NewlineIs
<1>3. ASSUME NEW value \in Values, NEW width \in Widths,
             call = [kind |-> "hex", value |-> value, width |-> width]
      PROVE  Log!Meaning(call) \in Seq(Nat)
  <2>1. value \in Nat /\ width \in Nat
    BY LogAssumption
  <2>2. DigitsTyped(value, width)
    BY <2>1, DigitsAreNats
  <2>3. Log!Meaning(call) = Log!Digits(value, width)
    BY <1>3, HexMeans
  <2> QED
    BY <2>2, <2>3 DEF DigitsTyped
<1>4. \/ \E s \in Texts : \/ call = [kind |-> "string", text |-> s]
                          \/ call = [kind |-> "line", text |-> s]
      \/ \E value \in Values, width \in Widths :
           call = [kind |-> "hex", value |-> value, width |-> width]
  BY DEF Meant
<1> QED
  BY <1>1, <1>2, <1>3, <1>4

(* Serial's sum is the one the lemmas are about.                           *)
LEMMA SameFlatten == ASSUME NEW ss PROVE Log!FlattenSeq(ss) = FlattenSeq(ss)
BY DEF Log!FlattenSeq, FlattenSeq

LEMMA ToldIs ==
  ASSUME NEW calls \in Seq(Meant)
  PROVE  Log!FlattenSeq([i \in DOMAIN calls |-> Log!Meaning(calls[i])])
           = Said(calls)
<1>1. \A i \in DOMAIN calls : Meanings[calls[i]] = Log!Meaning(calls[i])
  BY DEF Meanings
<1>2. [i \in DOMAIN calls |-> Log!Meaning(calls[i])] = Mapped(Meanings, calls)
  BY <1>1 DEF Mapped
<1> QED
  BY <1>2, SameFlatten DEF Said

SaysMore(calls, call) ==
  /\ Append(calls, call) \in Seq(Meant)
  /\ Said(Append(calls, call)) = Said(calls) \o Log!Meaning(call)

LEMMA OneMoreSaid ==
  ASSUME NEW calls \in Seq(Meant), NEW call \in Meant
  PROVE  SaysMore(calls, call)
<1> DEFINE M == Meanings
<1>1. M \in [Meant -> Seq(Nat)]
  BY MeaningsAreSeqs
<1>2. M[call] = Log!Meaning(call)
  BY DEF Meanings
<1> HIDE DEF M
<1>3. AppendsImage(M, calls, call)
  BY <1>1, MappedAppend
<1>4. Append(calls, call) \in Seq(Meant)
  OBVIOUS
<1> QED
  BY <1>2, <1>3, <1>4 DEF AppendsImage, SaysMore, Said, M

LEMMA NoneSaid == Said(<<>>) = <<>>
<1>1. Mapped(Meanings, <<>>) = <<>>
  BY DEF Mapped
<1> QED
  BY <1>1, FlattenEmpty DEF Said

(* Characters pass through the UART in order, and none is left behind.     *)
LogWhole ==
  /\ wire \in Seq(Nat) /\ thr \in Seq(Nat) /\ text \in Seq(Nat)
  /\ logged \in Seq(Meant)
  /\ wire \o thr \o text = Said(logged)

LEMMA InitLogWhole == Init => LogWhole
<1> SUFFICES ASSUME Init PROVE LogWhole
  OBVIOUS
<1>1. wire = <<>> /\ thr = <<>> /\ text = <<>> /\ logged = <<>>
  BY DEF Init, Log!Init
<1>2. <<>> \o <<>> \o <<>> = <<>>
  OBVIOUS
<1> QED
  BY <1>1, <1>2, NoneSaid DEF LogWhole

LEMMA CallKeepsLog ==
  ASSUME LogWhole, NEW meant \in Meant, NEW characters,
         characters = Log!Meaning(meant), Log!Call(characters, meant)
  PROVE  LogWhole'
<1>1. /\ text = <<>> /\ text' = characters /\ logged' = Append(logged, meant)
      /\ thr' = thr /\ wire' = wire
  BY DEF Log!Call, Log!Idle
<1>2. SaysMore(logged, meant)
  BY OneMoreSaid DEF LogWhole
<1>3. characters \in Seq(Nat)
  BY MeaningsAreSeqs DEF Meanings
<1>4. /\ wire \in Seq(Nat) /\ thr \in Seq(Nat)
      /\ wire \o thr \o <<>> = Said(logged)
  BY <1>1 DEF LogWhole
<1>5. (wire \o thr) \o <<>> = wire \o thr
  BY <1>4
<1>6. wire' \o thr' \o text' = Said(logged')
  BY <1>1, <1>2, <1>4, <1>5 DEF SaysMore
<1>7. logged' \in Seq(Meant)
  BY <1>1, <1>2 DEF SaysMore
<1> QED
  BY <1>1, <1>3, <1>4, <1>6, <1>7 DEF LogWhole

LEMMA CallsKeepLog ==
  /\ LogWhole
  /\ \/ \E s \in Texts : \/ Log!serial_write_string(s)
                         \/ Log!serial_write_line(s)
     \/ \E value \in Values, width \in Widths :
          Log!serial_write_hex(value, width)
  => LogWhole'
<1>1. ASSUME LogWhole, NEW s \in Texts, Log!serial_write_string(s)
      PROVE  LogWhole'
  <2> DEFINE m == [kind |-> "string", text |-> s]
  <2>1. m \in Meant /\ s = Log!Meaning(m)
    BY MeantIs, StringMeans
  <2>2. Log!Call(s, m)
    BY <1>1 DEF Log!serial_write_string
  <2> HIDE DEF m
  <2> QED
    BY <1>1, <2>1, <2>2, CallKeepsLog
<1>2. ASSUME LogWhole, NEW s \in Texts, Log!serial_write_line(s)
      PROVE  LogWhole'
  <2> DEFINE m == [kind |-> "line", text |-> s]
             c == s \o Log!Newline
  <2>1. m \in Meant /\ c = Log!Meaning(m)
    BY MeantIs, LineMeans
  <2>2. Log!Call(c, m)
    BY <1>2 DEF Log!serial_write_line
  <2> HIDE DEF m, c
  <2> QED
    BY <1>2, <2>1, <2>2, CallKeepsLog
<1>3. ASSUME LogWhole, NEW value \in Values, NEW width \in Widths,
             Log!serial_write_hex(value, width)
      PROVE  LogWhole'
  <2> DEFINE m == [kind |-> "hex", value |-> value, width |-> width]
             c == Log!Hex(value, width)
  <2>1. HexIsDigits(value, width)
    <3>1. value \in Nat /\ width \in Nat
      BY LogAssumption
    <3> QED
      BY <3>1, HexWritesDigits
  <2>2. m \in Meant /\ c = Log!Meaning(m)
    BY <2>1, MeantIs, HexMeans DEF HexIsDigits
  <2>3. Log!Call(c, m)
    BY <1>3 DEF Log!serial_write_hex
  <2> HIDE DEF m, c
  <2> QED
    BY <1>3, <2>2, <2>3, CallKeepsLog
<1> QED
  BY <1>1, <1>2, <1>3

LEMMA WriteKeepsLog == SInv /\ LogWhole /\ LogWrite => LogWhole'
<1> SUFFICES ASSUME LogWhole, LogWrite PROVE LogWhole'
  OBVIOUS
<1>1. thr = <<>> /\ text # <<>> /\ wire' = wire /\ logged' = logged
  BY DEF LogWrite, Log!serial_write, Log!Written, Log!Idle, Log!Empty
<1>2. thr' = <<Head(text)>> /\ text' = Tail(text)
  <2>1. Len(thr) < FifoDepth
    BY <1>1, FifoDepthAssumption
  <2> QED
    BY <1>1, <2>1 DEF LogWrite, Log!serial_write, Log!Written
<1>3. wire \in Seq(Nat) /\ text \in Seq(Nat)
  BY DEF LogWhole
<1>4. (wire \o <<>>) \o text = (wire \o <<Head(text)>>) \o Tail(text)
  <2> DEFINE h == <<Head(text)>>
             t == Tail(text)
  <2>1. text = h \o t /\ h \in Seq(Nat) /\ t \in Seq(Nat)
    BY <1>1, <1>3
  <2>2. wire \o <<>> = wire
    BY <1>3
  <2> HIDE DEF h, t
  <2>3. (wire \o h) \o t = wire \o (h \o t)
    BY <1>3, <2>1, ConcatAssociative
  <2> QED
    BY <2>1, <2>2, <2>3 DEF h, t
<1>5. thr' \in Seq(Nat) /\ text' \in Seq(Nat)
  BY <1>1, <1>2, <1>3
<1>6. wire' \o thr' \o text' = Said(logged')
  BY <1>1, <1>2, <1>4 DEF LogWhole
<1> QED
  BY <1>1, <1>5, <1>6 DEF LogWhole

LEMMA TransmitKeepsLog == SInv /\ LogWhole /\ UartTransmits => LogWhole'
<1> SUFFICES ASSUME SInv, LogWhole, UartTransmits PROVE LogWhole'
  OBVIOUS
<1>1. /\ thr # <<>> /\ wire' = Append(wire, Head(thr)) /\ thr' = Tail(thr)
      /\ text' = text /\ logged' = logged
  BY DEF UartTransmits, Log!Transmit
<1>2. PICK c : thr = <<c>>
  BY <1>1 DEF SInv, LogDone
<1>3. wire' = wire \o thr /\ thr' = <<>>
  <2>1. c \in Nat /\ Head(thr) = c /\ Tail(thr) = <<>>
    BY <1>2 DEF LogWhole
  <2>2. Append(wire, c) = wire \o <<c>>
    BY <2>1 DEF LogWhole
  <2> QED
    BY <1>1, <1>2, <2>1, <2>2
<1>4. wire \in Seq(Nat) /\ thr \in Seq(Nat)
  BY DEF LogWhole
<1>5. wire' \in Seq(Nat) /\ wire' \o <<>> = wire \o thr
  BY <1>3, <1>4
<1>6. wire' \o thr' \o text' = Said(logged')
  BY <1>1, <1>3, <1>5 DEF LogWhole
<1>7. thr' \in Seq(Nat)
  BY <1>3
<1> QED
  BY <1>1, <1>5, <1>6, <1>7 DEF LogWhole

LEMMA OthersKeepLog == LogWhole /\ UNCHANGED logVars => LogWhole'
BY DEF LogWhole, logVars

LEMMA StepLogWhole == SInv /\ LogWhole /\ [Next]_vars => LogWhole'
<1> SUFFICES ASSUME SInv, LogWhole, [Next]_vars PROVE LogWhole'
  OBVIOUS
<1>1. CASE LogText
  BY <1>1, CallsKeepLog DEF LogText
<1>2. CASE LogMore
  BY <1>2, CallsKeepLog DEF LogMore
<1>3. CASE LogWrite
  BY <1>3, WriteKeepsLog
<1>4. CASE UartTransmits
  BY <1>4, TransmitKeepsLog
<1>5. PowerUp \/ SelectSource \/ Wait \/ Gate \/ Pin => UNCHANGED logVars
  <2>1. PowerUp => UNCHANGED logVars
    BY DEF PowerUp
  <2>2. SelectSource => UNCHANGED logVars
    BY DEF SelectSource
  <2>3. Wait => UNCHANGED logVars
    BY DEF Wait
  <2>4. Gate => UNCHANGED logVars
    BY DEF Gate
  <2>5. Pin => UNCHANGED logVars
    BY DEF Pin
  <2> QED
    BY <2>1, <2>2, <2>3, <2>4, <2>5
<1>6. Poll \/ ChipWakes \/ ChipReady \/ UNCHANGED vars => UNCHANGED logVars
  BY DEF Poll, ChipWakes, ChipReady, vars
<1>7. ASSUME NEW unit, ClockStarts(unit) PROVE UNCHANGED logVars
  BY <1>7 DEF ClockStarts
<1> QED
  BY <1>1, <1>2, <1>3, <1>4, <1>5, <1>6, <1>7, OthersKeepLog DEF Next, Main

LEMMA WholeIs == LogWhole => LogIsWhole
BY ToldIs DEF LogWhole, LogIsWhole, Log!WireFollowsLog, Log!Told

(* Nothing logged is lost, repeated or reordered on its way to the wire,   *)
(* and numbers come out as their digits, however long the text, however    *)
(* deep the UART and however late it gets its clock (serial.cpp:110-112,   *)
(* 152-187).                                                               *)
THEOREM LogArrivesWhole == Spec => []LogIsWhole
<1>1. SInv /\ LogWhole /\ [Next]_vars => LogWhole'
  BY StepLogWhole
<1> QED
  BY <1>1, AlwaysSInv, InitLogWhole, WholeIs, PTL DEF Spec
=============================================================================
