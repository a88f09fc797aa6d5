--------------------------- MODULE InterruptPath ---------------------------
(***************************************************************************)
(* How an expiry of TIMER_0 and a change of a button become calls of       *)
(* handle_timer_interrupt and ISR2_minmax: the registers of the AXI timer, *)
(* the AXI GPIO and the interrupt controller, hw_init and the timer calls  *)
(* of the scheduler, and handle_trap, one step per register access.        *)
(*                                                                         *)
(* handle_trap runs with interrupts off (TrapEntry), so its steps never    *)
(* interleave with those of main(), but the peripherals go on meanwhile.   *)
(* What it does to the LEDs is part of the step it belongs to.  IRQ_1 and  *)
(* IRQ_3 have no source in this design: of their branches, and of TIMER_1, *)
(* only the LEDs turned off are left.                                      *)
(***************************************************************************)
EXTENDS Integers

CONSTANT MaxEvents  \* bound on expiries, and on changes of the buttons

ASSUME PathAssumption == MaxEvents \in Nat

VARIABLES
  main,          \* where main() is in its use of the peripherals
  handler,       \* where handle_trap is, "off" when it does not run
  local,         \* what main() has read of a register it goes on to write
  seen,          \* the same of handle_trap
  mie,           \* mstatus.MIE, outside handle_trap
  intc,          \* MER and IER are set
  isr,           \* the interrupt controller's ISR: IRQ_0 and IRQ_2
  tcsr,          \* TIMER_0's tcsr0: on (ENT0 and ENIT0) and t0int
  gpio,          \* the GPIO's ipisr and its enable (gier and ipier)
  leds,          \* the pins 0 to 3 and 6 to 7 of two bytes of gpio_data that are lit
  toggle,        \* the led_toggle under way in main() and the byte it has read
  count          \* history: expiries, ticks, changes, presses, late ticks

ledVars == <<leds, toggle>>
vars == <<main, handler, local, seen, mie, intc, isr, tcsr, gpio, ledVars, count>>

Irqs == {"IRQ_0", "IRQ_2"}

\* The lines into the interrupt controller, and its output (IPR).
Line(irq) == IF irq = "IRQ_0" THEN tcsr.on /\ tcsr.t0int ELSE gpio.on /\ gpio.ipisr
Pending(irq) == isr[irq]

NoToggle == [led |-> "none", status |-> {}, read |-> {}]
MainGoto(from, to) == handler = "off" /\ toggle = NoToggle /\ main = from /\ main' = to
Goto(from, to) == handler = from /\ handler' = to
-----------------------------------------------------------------------------
(***************************************************************************)
(* The peripherals.                                                        *)
(***************************************************************************)
\* The counter rolls over: it reloads itself and sets T0INT.
Expire ==
  /\ tcsr.on /\ count.expiries < MaxEvents
  /\ tcsr' = [tcsr EXCEPT !.t0int = TRUE]
  /\ count' = [count EXCEPT !.expiries = @ + 1]
  /\ UNCHANGED <<main, handler, local, seen, mie, intc, isr, gpio, ledVars>>

\* An input pin changes: IP_ISR is set, whether or not its interrupt is enabled.
Change ==
  /\ count.changes < MaxEvents
  /\ gpio' = [gpio EXCEPT !.ipisr = TRUE]
  /\ count' = [count EXCEPT !.changes = @ + 1]
  /\ UNCHANGED <<main, handler, local, seen, mie, intc, isr, tcsr, ledVars>>

\* The controller latches a line that is high.
Latch(irq) ==
  /\ intc /\ Line(irq)
  /\ isr' = [isr EXCEPT ![irq] = TRUE]
  /\ UNCHANGED <<main, handler, local, seen, mie, intc, tcsr, gpio, ledVars, count>>
-----------------------------------------------------------------------------
(***************************************************************************)
(* led_toggle: a byte of gpio_data is read, and written with the pins of   *)
(* the mask as the status says and the others as they were read.           *)
(***************************************************************************)
ON == 0 .. 7
OFF == {}
Mask == [LED_0 |-> {0}, LED_1 |-> {1}, LED_2 |-> {2}, LED_3 |-> {3}, LED_BLOCK_0 |-> {6, 7},
         LED_BLOCK_1 |-> 0 .. 3, LED_UF_1 |-> {6}, LED_UF_2 |-> {7}]
UserLeds == {"LED_UF_1", "LED_UF_2"}

\* Mutant of the next definition: the whole register is read and written.
ByteOfRegister(led) == ON
Byte(led) == IF led \in UserLeds \cup {"LED_BLOCK_0"} THEN 6 .. 7 ELSE 0 .. 3
Toggled(led, status, read) ==
  (leds \ Byte(led)) \cup (read \ Mask[led]) \cup (status \cap Mask[led])

\* In the handler nothing comes between the two accesses.
Lit(led, status) == Toggled(led, status, leds \cap Byte(led))

\* What main() calls it with: task_5ms turns on one of two LEDs and off again,
\* task_1000ms the block of four, and blinkenlights any part of the block of two.
Calls(led, status) ==
  \/ main = "run" /\ led \in UserLeds /\ status = ON /\ leds \cap 6 .. 7 = {}
  \/ main = "run" /\ led \in UserLeds /\ status = OFF /\ Mask[led] \subseteq leds
  \/ main = "blockOn" /\ led = "LED_BLOCK_1" /\ status = ON
  \/ main = "blockOff" /\ led = "LED_BLOCK_1" /\ status = OFF
  \/ main = "blink" /\ led = "LED_BLOCK_0" /\ status \subseteq 6 .. 7 /\ status # {}

ToggleRead ==
  /\ handler = "off" /\ toggle = NoToggle
  /\ \E led \in DOMAIN Mask, status \in {ON, OFF} \cup SUBSET (6 .. 7) :
       /\ Calls(led, status)
       /\ toggle' = [led |-> led, status |-> status, read |-> leds \cap Byte(led)]
  /\ UNCHANGED <<main, handler, local, seen, mie, intc, isr, tcsr, gpio, leds, count>>

ToggleWrite ==
  /\ handler = "off" /\ toggle # NoToggle
  /\ leds' = Toggled(toggle.led, toggle.status, toggle.read)
  /\ toggle' = NoToggle
  /\ \/ main = "blockOn" /\ main' = "blockOff"
     \/ main = "blockOff" /\ main' = "blink"
     \/ main \in {"run", "blink"} /\ main' = main
  /\ UNCHANGED <<handler, local, seen, mie, intc, isr, tcsr, gpio, count>>
-----------------------------------------------------------------------------
(***************************************************************************)
(* main(): hw_init, core_enable_interrupts, and TIMER_0 in scheduler_init  *)
(* and scheduler_disable.                                                  *)
(***************************************************************************)
\* Mutant of the next definition: IER is not written.
IrqInitDropped ==
  /\ MainGoto("irqInit", "gpioRead")
  /\ UNCHANGED <<handler, local, seen, mie, intc, isr, tcsr, gpio, ledVars, count>>

IrqInit ==
  /\ MainGoto("irqInit", "gpioRead")
  /\ intc' = TRUE
  /\ UNCHANGED <<handler, local, seen, mie, isr, tcsr, gpio, ledVars, count>>

\* gpio_acknowledge_interrupt reads IP_ISR, and writes it, which toggles the bit,
\* if it was set.
Acknowledged(was) == [gpio EXCEPT !.ipisr = IF was THEN ~@ ELSE @]

\* gpio_init, which clears the data first, up to the acknowledgement and its write;
\* then the rest of it and led_init.
GpioInitRead ==
  /\ MainGoto("gpioRead", "gpioWrite")
  /\ leds' = {} /\ local' = gpio.ipisr
  /\ UNCHANGED <<handler, seen, mie, intc, isr, tcsr, gpio, toggle, count>>

\* Mutant of the next definition: the bit is toggled whether it was set or not.
GpioInitToggles ==
  /\ MainGoto("gpioWrite", "gpioEnable")
  /\ gpio' = [gpio EXCEPT !.ipisr = ~@]
  /\ UNCHANGED <<handler, local, seen, mie, intc, isr, tcsr, ledVars, count>>

GpioInitWrite ==
  /\ MainGoto("gpioWrite", "gpioEnable")
  /\ gpio' = Acknowledged(local)
  /\ UNCHANGED <<handler, local, seen, mie, intc, isr, tcsr, ledVars, count>>

GpioEnable ==
  /\ MainGoto("gpioEnable", "enable")
  /\ gpio' = [gpio EXCEPT !.on = TRUE]
  /\ leds' = leds \ (Mask.LED_BLOCK_0 \cup Mask.LED_BLOCK_1)
  /\ UNCHANGED <<handler, local, seen, mie, intc, isr, tcsr, toggle, count>>

\* timer_init, and core_enable_interrupts.
CoreEnable ==
  /\ MainGoto("enable", "configure")
  /\ tcsr' = [on |-> FALSE, t0int |-> FALSE]
  /\ mie' = TRUE
  /\ UNCHANGED <<handler, local, seen, intc, isr, gpio, ledVars, count>>

\* timer_configure_periodic_timer stops the timer and clears T0INT; its last
\* write starts it.
ConfigureReset ==
  /\ MainGoto("configure", "start")
  /\ tcsr' = [on |-> FALSE, t0int |-> FALSE]
  /\ UNCHANGED <<handler, local, seen, mie, intc, isr, gpio, ledVars, count>>

ConfigureStart ==
  /\ MainGoto("start", "run")
  /\ tcsr' = [tcsr EXCEPT !.on = TRUE]
  /\ UNCHANGED <<handler, local, seen, mie, intc, isr, gpio, ledVars, count>>

\* timer_disable_timer, after task_5ms has returned, reads tcsr0 and writes it back
\* without ENT0 and ENIT0.  A T0INT that was read as one is written as one, which
\* clears it.
DisableRead ==
  /\ MainGoto("run", "disableWrite") /\ leds \cap 6 .. 7 = {}
  /\ local' = tcsr.t0int
  /\ UNCHANGED <<handler, seen, mie, intc, isr, tcsr, gpio, ledVars, count>>

\* Mutant of the next definition: the interrupt is turned off, the timer is not.
DisableNothing ==
  /\ MainGoto("disableWrite", "blockOn")
  /\ tcsr' = [tcsr EXCEPT !.t0int = @ /\ ~local]
  /\ UNCHANGED <<handler, local, seen, mie, intc, isr, gpio, ledVars, count>>

DisableWrite ==
  /\ MainGoto("disableWrite", "blockOn")
  /\ tcsr' = [on |-> FALSE, t0int |-> tcsr.t0int /\ ~local]
  /\ UNCHANGED <<handler, local, seen, mie, intc, isr, gpio, ledVars, count>>
Stopped == main \in {"blockOn", "blockOff", "blink"}

MainStep ==
  \/ IrqInit \/ GpioInitRead \/ GpioInitWrite \/ GpioEnable \/ CoreEnable
  \/ ConfigureReset \/ ConfigureStart \/ DisableRead \/ DisableWrite
  \/ ToggleRead \/ ToggleWrite
-----------------------------------------------------------------------------
(***************************************************************************)
(* handle_trap, for an interrupt.                                          *)
(***************************************************************************)
TakeInterrupt ==
  /\ mie /\ \E irq \in Irqs : Pending(irq)
  /\ Goto("off", "irq0")
  /\ UNCHANGED <<main, local, seen, mie, intc, isr, tcsr, gpio, ledVars, count>>

CheckTimer ==
  /\ IF Pending("IRQ_0") THEN Goto("irq0", "ackTimer") /\ UNCHANGED leds
                         ELSE Goto("irq0", "irq2") /\ leds' = Lit("LED_0", OFF)
  /\ UNCHANGED <<main, local, seen, mie, intc, isr, tcsr, gpio, toggle, count>>

\* Mutant of the next definition: T0INT is not cleared.
AckTimerDropped ==
  /\ Goto("ackTimer", "iar0")
  /\ UNCHANGED <<main, local, seen, mie, intc, isr, tcsr, gpio, ledVars, count>>

\* timer_acknowledge_timer: whatever the read returned, T0INT is written as one.
AckTimer ==
  /\ Goto("ackTimer", "iar0")
  /\ tcsr' = [tcsr EXCEPT !.t0int = FALSE]
  /\ UNCHANGED <<main, local, seen, mie, intc, isr, gpio, ledVars, count>>

\* Mutant of the next definition: IAR is not written.
AckIrqDropped(irq, led, from, to) ==
  /\ Goto(from, to)
  /\ leds' = Lit(led, ON)
  /\ UNCHANGED <<main, local, seen, mie, intc, isr, tcsr, gpio, toggle, count>>

\* irq_acknowledge_interrupt.
AckIrq(irq, led, from, to) ==
  /\ Goto(from, to)
  /\ isr' = [isr EXCEPT ![irq] = FALSE]
  /\ leds' = Lit(led, ON)
  /\ UNCHANGED <<main, local, seen, mie, intc, tcsr, gpio, toggle, count>>

\* handle_timer_interrupt.
Tick ==
  /\ Goto("tick", "irq2")
  /\ count' = [count EXCEPT !.ticks = @ + 1, !.late = IF Stopped THEN @ + 1 ELSE @]
  /\ UNCHANGED <<main, local, seen, mie, intc, isr, tcsr, gpio, ledVars>>

\* The branches of IRQ_1 before it and of IRQ_3 behind it turn their LEDs off.
CheckGpio ==
  /\ IF Pending("IRQ_2")
     THEN Goto("irq2", "ackRead") /\ leds' = Lit("LED_1", OFF)
     ELSE Goto("irq2", "off") /\ leds' = leds \ UNION {Mask[l] : l \in {"LED_1", "LED_2", "LED_3"}}
  /\ UNCHANGED <<main, local, seen, mie, intc, isr, tcsr, gpio, toggle, count>>

AckGpioRead ==
  /\ Goto("ackRead", "ackWrite")
  /\ seen' = gpio.ipisr
  /\ UNCHANGED <<main, local, mie, intc, isr, tcsr, gpio, ledVars, count>>

AckGpioWrite ==
  /\ Goto("ackWrite", "iar2")
  /\ gpio' = Acknowledged(seen)
  /\ UNCHANGED <<main, local, seen, mie, intc, isr, tcsr, ledVars, count>>

\* handle_gpio_interrupt.
Press ==
  /\ Goto("press", "off")
  /\ count' = [count EXCEPT !.presses = @ + 1]
  /\ leds' = Lit("LED_3", OFF)
  /\ UNCHANGED <<main, local, seen, mie, intc, isr, tcsr, gpio, toggle>>

HandlerStep ==
  \/ CheckTimer \/ AckTimer \/ AckIrq("IRQ_0", "LED_0", "iar0", "tick") \/ Tick
  \/ CheckGpio \/ AckGpioRead \/ AckGpioWrite
  \/ AckIrq("IRQ_2", "LED_2", "iar2", "press") \/ Press
-----------------------------------------------------------------------------
\* After a reset of the programmable logic.
Init ==
  /\ main = "irqInit" /\ handler = "off" /\ local = FALSE /\ seen = FALSE
  /\ mie = FALSE /\ intc = FALSE /\ isr = [irq \in Irqs |-> FALSE]
  /\ tcsr = [on |-> FALSE, t0int |-> FALSE]
  /\ gpio = [on |-> FALSE, ipisr |-> FALSE]
  /\ leds = {} /\ toggle = NoToggle
  /\ count = [expiries |-> 0, ticks |-> 0, changes |-> 0, presses |-> 0, late |-> 0]

LatchStep == \E irq \in Irqs : Latch(irq)

Next == Expire \/ Change \/ LatchStep \/ MainStep \/ TakeInterrupt \/ HandlerStep

Spec == Init /\ [][Next]_vars

\* The hardware does its part and the CPU goes on; main() may stay anywhere.
FairSpec ==
  /\ Spec
  /\ \A irq \in Irqs : WF_vars(Latch(irq))
  /\ WF_vars(TakeInterrupt) /\ WF_vars(HandlerStep)
-----------------------------------------------------------------------------
(***************************************************************************)
(* Properties.                                                             *)
(***************************************************************************)
\* The registers and the places of the two programs; the handler does not run
\* before hw_init is done and interrupts are on.
TypeOK ==
  /\ main \in {"irqInit", "gpioRead", "gpioWrite", "gpioEnable", "enable", "configure",
              "start", "run", "disableWrite", "blockOn", "blockOff", "blink"}
  /\ handler \in {"off", "irq0", "ackTimer", "iar0", "tick", "irq2", "ackRead",
                 "ackWrite", "iar2", "press"}
  /\ handler # "off" => mie
  /\ local \in BOOLEAN /\ seen \in BOOLEAN /\ mie \in BOOLEAN /\ intc \in BOOLEAN
  /\ isr \in [Irqs -> BOOLEAN]
  /\ tcsr \in [on : BOOLEAN, t0int : BOOLEAN]
  /\ gpio \in [on : BOOLEAN, ipisr : BOOLEAN]
  /\ leds \subseteq ON
  /\ toggle \in [led : DOMAIN Mask \cup {"none"}, status : SUBSET ON, read : SUBSET ON]
  /\ count \in [expiries : Nat, ticks : Nat, changes : Nat, presses : Nat, late : Nat]

\* scheduler_next is never called for an expiry that did not happen: the source is
\* cleared before the controller, which would otherwise latch it again.
NoPhantomTick == count.ticks <= count.expiries

\* The same for ISR2_minmax and the changes of the buttons: the acknowledgement,
\* which toggles, must not set the bit it means to clear.
NoPhantomPress == count.presses <= count.changes

\* After timer_disable_timer at most one more tick is counted, one that the
\* controller had latched already.
OneTickAfterStop == count.late <= 1

\* A led_toggle of a task that the interrupt has come between leaves the LEDs as if
\* it had come before or after: what the handler lit in the meantime is not put out
\* with the byte that was read earlier.
LedsSerialise ==
  [][toggle # NoToggle /\ toggle' = NoToggle =>
       leds' = Lit(toggle.led, toggle.status)]_vars

\* An expiry of the running timer is followed by a tick, however it falls between
\* the steps of a handler that is under way.
TickServed == (tcsr.on /\ tcsr.t0int) ~> (handler = "tick" \/ ~tcsr.on)

\* A change of a button, even one during hw_init, is followed by ISR2_minmax.
PressServed == (mie /\ gpio.ipisr) ~> (handler = "press")

\* What the scheduler is built on: the tick counts from the acknowledgement on.
Latched == INSTANCE TickLatch WITH
  on <- tcsr.on,
  waiting <- (tcsr.on /\ tcsr.t0int) \/ (isr["IRQ_0"] /\ handler # "iar0")
ImplementsTickLatch == Latched!Spec
=============================================================================
