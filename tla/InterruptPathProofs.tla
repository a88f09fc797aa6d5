------------------------ MODULE InterruptPathProofs ------------------------
(***************************************************************************)
(* Theorems about InterruptPath, for any number of expiries and changes.   *)
(***************************************************************************)
EXTENDS InterruptPath, TLAPS

\* hw_init and what comes before the timer's first start.
Early == main \in {"irqInit", "gpioRead", "gpioWrite", "gpioEnable", "enable"}

\* Before core_enable_interrupts no handler runs and no LED is being toggled; the
\* GPIO's line is low until gpio_enable_interrupt.
EarlyInv ==
  /\ mie = ~Early
  /\ Early => handler = "off" /\ toggle = NoToggle
  /\ main \in {"irqInit", "gpioRead", "gpioWrite", "gpioEnable"} => ~gpio.on /\ ~isr["IRQ_2"]
  /\ main = "gpioWrite" /\ local => gpio.ipisr
  /\ main = "start" => ~tcsr.on /\ ~tcsr.t0int

\* What the handler has seen of the controller is still so when it acknowledges.
HandlerInv ==
  /\ handler \in {"ackTimer", "iar0"} => isr["IRQ_0"]
  /\ handler \in {"ackRead", "ackWrite", "iar2"} => isr["IRQ_2"]
  /\ handler = "ackWrite" => seen
  /\ isr["IRQ_2"] /\ handler # "iar2" => gpio.ipisr

One(p) == IF p THEN 1 ELSE 0

\* Ticks and presses that are still to come for the expiries and changes so far.
TicksDue == One(handler \in {"iar0", "tick"})
            + One(tcsr.t0int \/ (isr["IRQ_0"] /\ handler # "iar0"))
PressesDue == One(handler \in {"iar2", "press"})
              + One(gpio.ipisr \/ (isr["IRQ_2"] /\ handler # "iar2"))
DueInv ==
  /\ count.ticks + TicksDue <= count.expiries
  /\ count.presses + PressesDue <= count.changes

\* Once the timer is stopped its line stays low: one tick may still be latched.
StopInv ==
  /\ ~Stopped => count.late = 0
  /\ Stopped =>
       /\ ~tcsr.on
       /\ count.late + One(isr["IRQ_0"] \/ handler = "tick") <= 1
       /\ handler = "tick" => ~isr["IRQ_0"]

\* The tasks toggle pins of their own, or all the pins of a byte.
LedInv ==
  toggle # NoToggle =>
    /\ toggle.led \in {"LED_BLOCK_0", "LED_BLOCK_1", "LED_UF_1", "LED_UF_2"}
    /\ toggle.read \ Mask[toggle.led] = (leds \cap Byte(toggle.led)) \ Mask[toggle.led]

IInv == TypeOK /\ EarlyInv /\ HandlerInv /\ DueInv /\ StopInv /\ LedInv
-----------------------------------------------------------------------------
\* Every mask lies in its byte, and that of the block of four is all of it.
LEMMA Masks ==
  /\ DOMAIN Mask = {"LED_0", "LED_1", "LED_2", "LED_3", "LED_BLOCK_0", "LED_BLOCK_1",
                    "LED_UF_1", "LED_UF_2"}
  /\ \A led \in DOMAIN Mask : Mask[led] \subseteq Byte(led) /\ Byte(led) \subseteq ON
  /\ \A led \in {"LED_0", "LED_1", "LED_2", "LED_3", "LED_BLOCK_1"} : Byte(led) = 0 .. 3
  /\ \A led \in {"LED_BLOCK_0", "LED_UF_1", "LED_UF_2"} : Byte(led) = 6 .. 7
  /\ Mask["LED_BLOCK_1"] = 0 .. 3 /\ Mask["LED_1"] \cup Mask["LED_2"] \cup Mask["LED_3"] \subseteq 0 .. 3
<1>1. DOMAIN Mask = {"LED_0", "LED_1", "LED_2", "LED_3", "LED_BLOCK_0", "LED_BLOCK_1",
                     "LED_UF_1", "LED_UF_2"}
  BY DEF Mask
<1>2. /\ Mask["LED_0"] = {0} /\ Mask["LED_1"] = {1} /\ Mask["LED_2"] = {2} /\ Mask["LED_3"] = {3}
      /\ Mask["LED_BLOCK_0"] = {6, 7} /\ Mask["LED_BLOCK_1"] = 0 .. 3
      /\ Mask["LED_UF_1"] = {6} /\ Mask["LED_UF_2"] = {7}
  BY DEF Mask
<1>. QED
  BY <1>1, <1>2 DEF Byte, ON, UserLeds

\* A led_toggle changes pins of its byte only.
LEMMA LitInByte ==
  ASSUME NEW led \in DOMAIN Mask, NEW status \in SUBSET ON, leds \subseteq ON
  PROVE  Lit(led, status) \subseteq ON /\ Lit(led, status) \ Byte(led) = leds \ Byte(led)
<1>1. Mask[led] \subseteq Byte(led) /\ Byte(led) \subseteq ON
  BY Masks
<1>. QED
  BY <1>1 DEF Lit, Toggled

\* What the handler does to the LEDs of its own does not touch what a task has read.
LEMMA LedsKept ==
  ASSUME LedInv, toggle' = toggle, leds' \ 0 .. 3 = leds \ 0 .. 3
  PROVE  LedInv'
<1>. SUFFICES ASSUME toggle # NoToggle PROVE LedInv'
  BY DEF LedInv
<1>1. CASE toggle.led = "LED_BLOCK_1"
  BY <1>1, Masks DEF LedInv
<1>2. CASE toggle.led \in {"LED_BLOCK_0", "LED_UF_1", "LED_UF_2"}
  <2>1. Byte(toggle.led) = 6 .. 7
    BY <1>2, Masks
  <2>2. leds' \cap 6 .. 7 = leds \cap 6 .. 7
    OBVIOUS
  <2>. QED
    BY <1>2, <2>1, <2>2 DEF LedInv, Byte
<1>. QED
  BY <1>1, <1>2 DEF LedInv

\* After a reset nothing has happened yet.
LEMMA InitIInv == Init => IInv
<1>. SUFFICES ASSUME Init PROVE IInv
  OBVIOUS
<1>. USE PathAssumption DEF Init, Irqs
<1>1. TypeOK
  BY DEF TypeOK, NoToggle
<1>2. EarlyInv /\ HandlerInv /\ DueInv /\ StopInv /\ LedInv
  <2>1. isr["IRQ_0"] = FALSE /\ isr["IRQ_2"] = FALSE
    OBVIOUS
  <2>2. tcsr.t0int = FALSE /\ gpio.on = FALSE /\ gpio.ipisr = FALSE
    OBVIOUS
  <2>3. EarlyInv /\ HandlerInv /\ LedInv
    BY <2>1, <2>2 DEF EarlyInv, HandlerInv, LedInv, Early
  <2>4. DueInv /\ StopInv
    BY <2>1, <2>2 DEF DueInv, StopInv, Stopped, One, TicksDue, PressesDue
  <2>. QED
    BY <2>3, <2>4
<1>. QED
  BY <1>1, <1>2 DEF IInv

\* Every step of the hardware, of main() and of the handler keeps the invariant.
LEMMA StepIInv == IInv /\ [Next]_vars => IInv'
<1>. SUFFICES ASSUME IInv, [Next]_vars PROVE IInv'
  OBVIOUS
<1>. USE DEF IInv, Irqs, ledVars, MainGoto, Goto
<1>1. CASE Expire
  <2>1. TypeOK'
    <3>1. count' \in [expiries : Nat, ticks : Nat, changes : Nat, presses : Nat, late : Nat]
      <4>1. count \in [expiries : Nat, ticks : Nat, changes : Nat, presses : Nat, late : Nat]
        BY DEF TypeOK
      <4>. QED
        BY <1>1, <4>1 DEF Expire
    <3>2. tcsr' \in [on : BOOLEAN, t0int : BOOLEAN] /\ gpio' \in [on : BOOLEAN, ipisr : BOOLEAN]
      BY <1>1 DEF Expire, TypeOK
    <3>. QED
      BY <1>1, <3>1, <3>2 DEF Expire, TypeOK
  <2>2. EarlyInv' /\ HandlerInv' /\ DueInv' /\ StopInv'
    BY <1>1 DEF Expire, TypeOK, EarlyInv, HandlerInv, DueInv, StopInv, Early, Stopped, One, TicksDue, PressesDue
  <2>3. LedInv'
    BY <1>1, LedsKept DEF Expire
  <2>. QED
    BY <2>1, <2>2, <2>3
<1>2. CASE Change
  <2>1. TypeOK'
    <3>1. count' \in [expiries : Nat, ticks : Nat, changes : Nat, presses : Nat, late : Nat]
      <4>1. count \in [expiries : Nat, ticks : Nat, changes : Nat, presses : Nat, late : Nat]
        BY DEF TypeOK
      <4>. QED
        BY <1>2, <4>1 DEF Change
    <3>2. tcsr' \in [on : BOOLEAN, t0int : BOOLEAN] /\ gpio' \in [on : BOOLEAN, ipisr : BOOLEAN]
      BY <1>2 DEF Change, TypeOK
    <3>. QED
      BY <1>2, <3>1, <3>2 DEF Change, TypeOK
  <2>2. EarlyInv' /\ HandlerInv' /\ DueInv' /\ StopInv'
    BY <1>2 DEF Change, TypeOK, EarlyInv, HandlerInv, DueInv, StopInv, Early, Stopped, One, TicksDue, PressesDue
  <2>3. LedInv'
    BY <1>2, LedsKept DEF Change
  <2>. QED
    BY <2>1, <2>2, <2>3
<1>3. ASSUME NEW irq \in Irqs, Latch(irq) PROVE IInv'
  <2>1. TypeOK'
    BY <1>3 DEF Latch, Line, TypeOK
  <2>2. EarlyInv' /\ HandlerInv' /\ DueInv' /\ StopInv'
    BY <1>3 DEF Latch, Line, TypeOK, EarlyInv, HandlerInv, DueInv, StopInv, Early, Stopped, One, TicksDue, PressesDue
  <2>3. LedInv'
    BY <1>3, LedsKept DEF Latch, Line
  <2>. QED
    BY <2>1, <2>2, <2>3
<1>4. CASE IrqInit
  <2>1. TypeOK'
    BY <1>4 DEF IrqInit, TypeOK
  <2>2. EarlyInv' /\ HandlerInv' /\ DueInv' /\ StopInv'
    BY <1>4 DEF IrqInit, TypeOK, EarlyInv, HandlerInv, DueInv, StopInv, Early, Stopped, One, TicksDue, PressesDue
  <2>3. LedInv'
    BY <1>4, LedsKept DEF IrqInit
  <2>. QED
    BY <2>1, <2>2, <2>3
<1>5. CASE GpioInitRead
  <2>1. TypeOK'
    BY <1>5 DEF GpioInitRead, TypeOK
  <2>2. EarlyInv' /\ HandlerInv' /\ DueInv' /\ StopInv'
    BY <1>5 DEF GpioInitRead, TypeOK, EarlyInv, HandlerInv, DueInv, StopInv, Early, Stopped, One, TicksDue, PressesDue
  <2>3. LedInv'
    BY <1>5 DEF GpioInitRead, LedInv
  <2>. QED
    BY <2>1, <2>2, <2>3
<1>6. CASE GpioInitWrite
  <2>1. TypeOK'
    BY <1>6 DEF GpioInitWrite, Acknowledged, TypeOK
  <2>2. EarlyInv' /\ HandlerInv' /\ DueInv' /\ StopInv'
    BY <1>6 DEF GpioInitWrite, Acknowledged, TypeOK, EarlyInv, HandlerInv, DueInv, StopInv, Early, Stopped, One, TicksDue, PressesDue
  <2>3. LedInv'
    BY <1>6, LedsKept DEF GpioInitWrite, Acknowledged
  <2>. QED
    BY <2>1, <2>2, <2>3
<1>7. CASE GpioEnable
  <2>1. TypeOK'
    BY <1>7 DEF GpioEnable, TypeOK
  <2>2. EarlyInv' /\ HandlerInv' /\ DueInv' /\ StopInv'
    BY <1>7 DEF GpioEnable, TypeOK, EarlyInv, HandlerInv, DueInv, StopInv, Early, Stopped, One, TicksDue, PressesDue
  <2>3. LedInv'
    BY <1>7 DEF GpioEnable, LedInv
  <2>. QED
    BY <2>1, <2>2, <2>3
<1>8. CASE CoreEnable
  <2>1. TypeOK'
    BY <1>8 DEF CoreEnable, TypeOK
  <2>2. EarlyInv' /\ HandlerInv' /\ DueInv' /\ StopInv'
    <3>1. tcsr'.on = FALSE /\ tcsr'.t0int = FALSE /\ mie' = TRUE /\ ~Early'
      BY <1>8 DEF CoreEnable, TypeOK, HandlerInv, Early
    <3>2. EarlyInv' /\ HandlerInv'
      BY <1>8, <3>1 DEF CoreEnable, TypeOK, EarlyInv, HandlerInv, Early
    <3>3. DueInv'
      BY <1>8, <3>1 DEF CoreEnable, TypeOK, DueInv, HandlerInv, One, TicksDue, PressesDue
    <3>4. StopInv'
      BY <1>8, <3>1 DEF CoreEnable, TypeOK, StopInv, Stopped, EarlyInv, Early, One
    <3>. QED
      BY <3>2, <3>3, <3>4
  <2>3. LedInv'
    BY <1>8, LedsKept DEF CoreEnable
  <2>. QED
    BY <2>1, <2>2, <2>3
<1>9. CASE ConfigureReset
  <2>1. TypeOK'
    BY <1>9 DEF ConfigureReset, TypeOK
  <2>2. EarlyInv' /\ HandlerInv' /\ DueInv' /\ StopInv'
    BY <1>9 DEF ConfigureReset, TypeOK, EarlyInv, HandlerInv, DueInv, StopInv, Early, Stopped, One, TicksDue, PressesDue
  <2>3. LedInv'
    BY <1>9, LedsKept DEF ConfigureReset
  <2>. QED
    BY <2>1, <2>2, <2>3
<1>10. CASE ConfigureStart
  <2>1. TypeOK'
    BY <1>10 DEF ConfigureStart, TypeOK
  <2>2. EarlyInv' /\ HandlerInv' /\ DueInv' /\ StopInv'
    BY <1>10 DEF ConfigureStart, TypeOK, EarlyInv, HandlerInv, DueInv, StopInv, Early, Stopped, One, TicksDue, PressesDue
  <2>3. LedInv'
    BY <1>10, LedsKept DEF ConfigureStart
  <2>. QED
    BY <2>1, <2>2, <2>3
<1>11. CASE DisableRead
  <2>1. TypeOK'
    BY <1>11 DEF DisableRead, TypeOK
  <2>2. EarlyInv' /\ HandlerInv' /\ DueInv' /\ StopInv'
    BY <1>11 DEF DisableRead, TypeOK, EarlyInv, HandlerInv, DueInv, StopInv, Early, Stopped, One, TicksDue, PressesDue
  <2>3. LedInv'
    BY <1>11, LedsKept DEF DisableRead
  <2>. QED
    BY <2>1, <2>2, <2>3
<1>12. CASE DisableWrite
  <2>1. TypeOK'
    BY <1>12 DEF DisableWrite, TypeOK
  <2>2. EarlyInv' /\ HandlerInv' /\ DueInv' /\ StopInv'
    BY <1>12 DEF DisableWrite, TypeOK, EarlyInv, HandlerInv, DueInv, StopInv, Early, Stopped, One, TicksDue, PressesDue
  <2>3. LedInv'
    BY <1>12, LedsKept DEF DisableWrite
  <2>. QED
    BY <2>1, <2>2, <2>3
<1>13. CASE ToggleRead
  <2>. PICK led \in DOMAIN Mask, status \in {ON, OFF} \cup SUBSET (6 .. 7) :
         /\ Calls(led, status)
         /\ toggle' = [led |-> led, status |-> status, read |-> leds \cap Byte(led)]
    BY <1>13 DEF ToggleRead
  <2>1. led \in {"LED_BLOCK_0", "LED_BLOCK_1", "LED_UF_1", "LED_UF_2"} /\ ~Early
    BY DEF Calls, UserLeds, Early
  <2>2. TypeOK'
    <3>1. status \subseteq ON
      BY DEF ON, OFF
    <3>2. leds \cap Byte(led) \subseteq ON
      BY DEF TypeOK
    <3>. QED
      BY <1>13, <3>1, <3>2 DEF ToggleRead, TypeOK
  <2>3. EarlyInv' /\ HandlerInv' /\ DueInv' /\ StopInv'
    BY <1>13, <2>1 DEF ToggleRead, TypeOK, EarlyInv, HandlerInv, DueInv, StopInv, Early, Stopped, One, TicksDue, PressesDue
  <2>4. LedInv'
    BY <1>13, <2>1 DEF ToggleRead, LedInv, Byte
  <2>. QED
    BY <2>2, <2>3, <2>4
<1>14. CASE ToggleWrite
  <2>1. leds' \subseteq ON
    BY <1>14, Masks DEF ToggleWrite, Toggled, TypeOK, NoToggle
  <2>2. TypeOK'
    BY <1>14, <2>1 DEF ToggleWrite, TypeOK, NoToggle
  <2>3. EarlyInv' /\ HandlerInv' /\ DueInv' /\ StopInv'
    BY <1>14 DEF ToggleWrite, TypeOK, EarlyInv, HandlerInv, DueInv, StopInv, Early, Stopped, One, TicksDue, PressesDue
  <2>4. LedInv'
    BY <1>14 DEF ToggleWrite, LedInv
  <2>. QED
    BY <2>2, <2>3, <2>4
<1>15. CASE TakeInterrupt
  <2>1. TypeOK'
    BY <1>15 DEF TakeInterrupt, Pending, TypeOK
  <2>2. EarlyInv' /\ HandlerInv' /\ DueInv' /\ StopInv'
    BY <1>15 DEF TakeInterrupt, Pending, TypeOK, EarlyInv, HandlerInv, DueInv, StopInv, Early, Stopped, One, TicksDue, PressesDue
  <2>3. LedInv'
    BY <1>15, LedsKept DEF TakeInterrupt, Pending
  <2>. QED
    BY <2>1, <2>2, <2>3
<1>16. CASE CheckTimer
  <2>1. leds' \subseteq ON /\ leds' \ 0 .. 3 = leds \ 0 .. 3
    BY <1>16, Masks, LitInByte DEF CheckTimer, Pending, OFF, TypeOK
  <2>2. TypeOK'
    BY <1>16, <2>1 DEF CheckTimer, Pending, TypeOK
  <2>3. EarlyInv' /\ HandlerInv' /\ DueInv' /\ StopInv'
    BY <1>16 DEF CheckTimer, Pending, TypeOK, EarlyInv, HandlerInv, DueInv, StopInv, Early, Stopped, One, TicksDue, PressesDue
  <2>4. LedInv'
    BY <1>16, <2>1, LedsKept DEF CheckTimer, Pending
  <2>. QED
    BY <2>2, <2>3, <2>4
<1>17. CASE AckTimer
  <2>1. TypeOK'
    BY <1>17 DEF AckTimer, TypeOK
  <2>2. EarlyInv' /\ HandlerInv' /\ DueInv' /\ StopInv'
    BY <1>17 DEF AckTimer, TypeOK, EarlyInv, HandlerInv, DueInv, StopInv, Early, Stopped, One, TicksDue, PressesDue
  <2>3. LedInv'
    BY <1>17, LedsKept DEF AckTimer
  <2>. QED
    BY <2>1, <2>2, <2>3
<1>18. CASE AckIrq("IRQ_0", "LED_0", "iar0", "tick")
  <2>1. leds' \subseteq ON /\ leds' \ 0 .. 3 = leds \ 0 .. 3
    BY <1>18, Masks, LitInByte DEF AckIrq, OFF, TypeOK
  <2>2. TypeOK'
    BY <1>18, <2>1 DEF AckIrq, TypeOK
  <2>3. EarlyInv' /\ HandlerInv' /\ DueInv' /\ StopInv'
    BY <1>18 DEF AckIrq, TypeOK, EarlyInv, HandlerInv, DueInv, StopInv, Early, Stopped, One, TicksDue, PressesDue
  <2>4. LedInv'
    BY <1>18, <2>1, LedsKept DEF AckIrq
  <2>. QED
    BY <2>2, <2>3, <2>4
<1>19. CASE Tick
  <2>1. TypeOK'
    <3>1. count' \in [expiries : Nat, ticks : Nat, changes : Nat, presses : Nat, late : Nat]
      <4>1. count \in [expiries : Nat, ticks : Nat, changes : Nat, presses : Nat, late : Nat]
        BY DEF TypeOK
      <4>2. count.ticks + 1 \in Nat /\ (IF Stopped THEN count.late + 1 ELSE count.late) \in Nat
        BY <4>1
      <4>3. count' = [count EXCEPT !.ticks = count.ticks + 1,
                                   !.late = IF Stopped THEN count.late + 1 ELSE count.late]
        BY <1>19 DEF Tick
      <4>. QED
        BY <4>1, <4>2, <4>3
    <3>2. tcsr' \in [on : BOOLEAN, t0int : BOOLEAN] /\ gpio' \in [on : BOOLEAN, ipisr : BOOLEAN]
      BY <1>19 DEF Tick, TypeOK
    <3>. QED
      BY <1>19, <3>1, <3>2 DEF Tick, TypeOK
  <2>2. EarlyInv' /\ HandlerInv' /\ DueInv' /\ StopInv'
    BY <1>19 DEF Tick, TypeOK, EarlyInv, HandlerInv, DueInv, StopInv, Early, Stopped, One, TicksDue, PressesDue
  <2>3. LedInv'
    BY <1>19, LedsKept DEF Tick
  <2>. QED
    BY <2>1, <2>2, <2>3
<1>20. CASE CheckGpio
  <2>1. leds' \subseteq ON /\ leds' \ 0 .. 3 = leds \ 0 .. 3
    <3>1. Lit("LED_1", OFF) \subseteq ON /\ Lit("LED_1", OFF) \ 0 .. 3 = leds \ 0 .. 3
      BY Masks, LitInByte DEF OFF, TypeOK
    <3>2. UNION {Mask[l] : l \in {"LED_1", "LED_2", "LED_3"}} \subseteq 0 .. 3
      BY Masks
    <3>. QED
      BY <1>20, <3>1, <3>2 DEF CheckGpio, TypeOK
  <2>2. TypeOK'
    BY <1>20, <2>1 DEF CheckGpio, Pending, TypeOK
  <2>3. EarlyInv' /\ HandlerInv' /\ DueInv' /\ StopInv'
    BY <1>20 DEF CheckGpio, Pending, TypeOK, EarlyInv, HandlerInv, DueInv, StopInv, Early, Stopped, One, TicksDue, PressesDue
  <2>4. LedInv'
    BY <1>20, <2>1, LedsKept DEF CheckGpio, Pending
  <2>. QED
    BY <2>2, <2>3, <2>4
<1>21. CASE AckGpioRead
  <2>1. TypeOK'
    BY <1>21 DEF AckGpioRead, TypeOK
  <2>2. EarlyInv' /\ HandlerInv' /\ DueInv' /\ StopInv'
    BY <1>21 DEF AckGpioRead, TypeOK, EarlyInv, HandlerInv, DueInv, StopInv, Early, Stopped, One, TicksDue, PressesDue
  <2>3. LedInv'
    BY <1>21, LedsKept DEF AckGpioRead
  <2>. QED
    BY <2>1, <2>2, <2>3
<1>22. CASE AckGpioWrite
  <2>1. TypeOK'
    BY <1>22 DEF AckGpioWrite, Acknowledged, TypeOK
  <2>2. EarlyInv' /\ HandlerInv' /\ DueInv' /\ StopInv'
    <3>1. gpio'.ipisr = FALSE /\ gpio'.on = gpio.on
      BY <1>22 DEF AckGpioWrite, Acknowledged, TypeOK, HandlerInv, Early
    <3>2. EarlyInv' /\ HandlerInv'
      BY <1>22, <3>1 DEF AckGpioWrite, Acknowledged, TypeOK, EarlyInv, HandlerInv, Early
    <3>3. DueInv'
      BY <1>22, <3>1 DEF AckGpioWrite, Acknowledged, TypeOK, DueInv, HandlerInv, One, TicksDue, PressesDue
    <3>4. StopInv'
      BY <1>22, <3>1 DEF AckGpioWrite, Acknowledged, TypeOK, StopInv, Stopped, EarlyInv, Early, One
    <3>. QED
      BY <3>2, <3>3, <3>4
  <2>3. LedInv'
    BY <1>22, LedsKept DEF AckGpioWrite, Acknowledged
  <2>. QED
    BY <2>1, <2>2, <2>3
<1>23. CASE AckIrq("IRQ_2", "LED_2", "iar2", "press")
  <2>1. leds' \subseteq ON /\ leds' \ 0 .. 3 = leds \ 0 .. 3
    BY <1>23, Masks, LitInByte DEF AckIrq, OFF, TypeOK
  <2>2. TypeOK'
    BY <1>23, <2>1 DEF AckIrq, TypeOK
  <2>3. EarlyInv' /\ HandlerInv' /\ DueInv' /\ StopInv'
    BY <1>23 DEF AckIrq, TypeOK, EarlyInv, HandlerInv, DueInv, StopInv, Early, Stopped, One, TicksDue, PressesDue
  <2>4. LedInv'
    BY <1>23, <2>1, LedsKept DEF AckIrq
  <2>. QED
    BY <2>2, <2>3, <2>4
<1>24. CASE Press
  <2>1. leds' \subseteq ON /\ leds' \ 0 .. 3 = leds \ 0 .. 3
    BY <1>24, Masks, LitInByte DEF Press, OFF, TypeOK
  <2>2. TypeOK'
    BY <1>24, <2>1 DEF Press, TypeOK
  <2>3. EarlyInv' /\ HandlerInv' /\ DueInv' /\ StopInv'
    BY <1>24 DEF Press, TypeOK, EarlyInv, HandlerInv, DueInv, StopInv, Early, Stopped, One, TicksDue, PressesDue
  <2>4. LedInv'
    BY <1>24, <2>1, LedsKept DEF Press
  <2>. QED
    BY <2>2, <2>3, <2>4
<1>25. CASE UNCHANGED vars
  BY <1>25, LedsKept DEF vars, ledVars, TypeOK, EarlyInv, HandlerInv, DueInv, StopInv, Early, Stopped, One, TicksDue, PressesDue
<1>. QED
  BY <1>1, <1>2, <1>3, <1>4, <1>5, <1>6, <1>7, <1>8, <1>9, <1>10, <1>11, <1>12, <1>13, <1>14, <1>15, <1>16, <1>17, <1>18, <1>19, <1>20, <1>21, <1>22, <1>23, <1>24, <1>25 DEF Next, LatchStep, MainStep, HandlerStep

\* Everything proved below follows from the inductive invariant.
THEOREM Invariance == Spec => []IInv
  BY InitIInv, StepIInv, PTL DEF Spec

\* TypeOK, for any number of events.
THEOREM TypeCorrect == Spec => []TypeOK
<1>1. IInv => TypeOK
  BY DEF IInv
<1>. QED
  BY <1>1, Invariance, PTL

\* No tick without an expiry of its own.
THEOREM TicksAreReal == Spec => []NoPhantomTick
<1>1. IInv => NoPhantomTick
  BY DEF IInv, TypeOK, DueInv, TicksDue, One, NoPhantomTick
<1>. QED
  BY <1>1, Invariance, PTL

\* No press without a change of its own.
THEOREM PressesAreReal == Spec => []NoPhantomPress
<1>1. IInv => NoPhantomPress
  BY DEF IInv, TypeOK, DueInv, PressesDue, One, NoPhantomPress
<1>. QED
  BY <1>1, Invariance, PTL

\* One tick at most after the timer is stopped.
THEOREM StopIsShort == Spec => []OneTickAfterStop
<1>1. IInv => OneTickAfterStop
  BY DEF IInv, TypeOK, StopInv, One, OneTickAfterStop
<1>. QED
  BY <1>1, Invariance, PTL

\* The toggles of the tasks and those of the interrupt do not undo each other.
THEOREM TogglesSerialise == Spec => LedsSerialise
<1>1. IInv /\ [Next]_vars =>
        [toggle # NoToggle /\ toggle' = NoToggle => leds' = Lit(toggle.led, toggle.status)]_vars
  <2>. SUFFICES ASSUME IInv, Next, toggle # NoToggle, toggle' = NoToggle
                PROVE  leds' = Lit(toggle.led, toggle.status)
    BY DEF vars
  <2>1. ToggleWrite
    BY DEF Next, Expire, Change, LatchStep, Latch, MainStep, IrqInit, GpioInitRead, GpioInitWrite,
           GpioEnable, CoreEnable, ConfigureReset, ConfigureStart, DisableRead, DisableWrite,
           ToggleRead, TakeInterrupt, HandlerStep, CheckTimer, AckTimer, AckIrq, Tick, CheckGpio,
           AckGpioRead, AckGpioWrite, Press, ledVars
  <2>2. leds' = Toggled(toggle.led, toggle.status, toggle.read)
    BY <2>1 DEF ToggleWrite
  <2>. QED
    BY <2>2 DEF IInv, LedInv, Toggled, Lit
<1>. QED
  BY <1>1, Invariance, PTL DEF Spec, LedsSerialise

\* The registers and the handler are the latch that the scheduler relies on.
THEOREM ImplementsLatch == Spec => ImplementsTickLatch
<1>1. Init => Latched!Init
  <2>. SUFFICES ASSUME Init PROVE Latched!Init
    OBVIOUS
  <2>1. tcsr.on = FALSE /\ isr["IRQ_0"] = FALSE
    BY DEF Init, Irqs
  <2>. QED
    BY <2>1 DEF Latched!Init
<1>2. IInv /\ [Next]_vars => [Latched!Next]_(Latched!tlVars)
  <2>. SUFFICES ASSUME IInv, [Next]_vars PROVE [Latched!Next]_(Latched!tlVars)
    OBVIOUS
  <2>. USE DEF IInv, TypeOK, Irqs, ledVars, Latched!Next, Latched!tlVars, MainGoto, Goto
  <2>1. CASE Expire
    BY <2>1 DEF Expire, Latched!Expire
  <2>2. CASE LatchStep
    BY <2>2 DEF LatchStep, Latch, Line
  <2>3. CASE CoreEnable \/ ConfigureReset \/ DisableWrite
    BY <2>3 DEF CoreEnable, ConfigureReset, DisableWrite, Latched!Stop
  <2>4. CASE ConfigureStart
    BY <2>4 DEF ConfigureStart, EarlyInv, Latched!Start
  <2>5. CASE AckTimer \/ AckIrq("IRQ_0", "LED_0", "iar0", "tick")
    BY <2>5 DEF AckTimer, AckIrq, HandlerInv, Latched!Deliver
  <2>6. CASE UNCHANGED <<tcsr, isr, handler>>
    BY <2>6
  <2>7. CASE handler' # handler /\ UNCHANGED <<tcsr, isr>> /\ "iar0" \notin {handler, handler'}
    BY <2>7
  <2>8. CASE AckIrq("IRQ_2", "LED_2", "iar2", "press")
    BY <2>8 DEF AckIrq
  <2>. QED
    BY <2>1, <2>2, <2>3, <2>4, <2>5, <2>6, <2>7, <2>8
    DEF Next, vars, ledVars, Change, MainStep, IrqInit, GpioInitRead, GpioInitWrite, GpioEnable,
        DisableRead, ToggleRead, ToggleWrite, TakeInterrupt, HandlerStep, CheckTimer, Tick,
        CheckGpio, AckGpioRead, AckGpioWrite, Press
<1>. QED
  BY <1>1, <1>2, Invariance, PTL DEF Spec, ImplementsTickLatch, Latched!Spec
=============================================================================
