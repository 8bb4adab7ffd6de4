------------------------------- MODULE Gamepad -------------------------------
(***************************************************************************)
(* The gamepad's own microcontroller (AT328p/arduino.c, ATmega328p): five  *)
(* buttons read by a pin-change interrupt, a main loop that turns the last *)
(* snapshot of the pins into one byte on the serial line, and a receive    *)
(* interrupt that drives the LED.                                          *)
(*                                                                         *)
(* The main loop is a thread whose accesses to the volatile `state' are    *)
(* separate steps (gpc); the two interrupt handlers are atomic, because    *)
(* the AVR runs a handler with interrupts disabled, and may run between    *)
(* any two of those steps.  A byte on the way to the host is a record of   *)
(* its code and of the rank at which it was sent; the rank is a history    *)
(* variable and no guard reads it.                                         *)
(***************************************************************************)
EXTENDS Integers, Sequences

CONSTANTS
  Buttons,     \* the buttons the user handles
  MaxEdges     \* bound: button edges (press, release, bounce) in a behaviour

VARIABLES
  pressed,     \* the buttons held down: the complement of PIND's bits 2..6
  pcint,       \* the pin-change interrupt flag (PCIF2)
  state,       \* volatile int state
  gpc,         \* where main's loop is
  msg,         \* main's local msg
  txd,         \* bytes from UDR0 to the ATmega16u2, oldest first
  line,        \* bytes from the ATmega16u2's UDR1, oldest first
  rxd,         \* the USART's two-byte receive FIFO
  slots,       \* the last two bytes the FIFO held, read or not
  led,         \* PORTB bit 5
  nsent,       \* history: bytes sent so far
  edges        \* history: button edges so far

gvars == <<pressed, pcint, state, gpc, msg, txd, line, rxd, slots, led, nsent, edges>>

LED_ON == 49
LED_OFF == 48

\* The UART holds one byte in its shift register and one in its buffer.
UartDepth == 2

Bit(S, b, w) == IF b \in S THEN w ELSE 0

\* ((~PIND & 0x7C) >> 2): joystick on PD2, then right, up, down, left.
Mask(S) == Bit(S, "joy", 1) + Bit(S, "right", 2) + Bit(S, "up", 4)
             + Bit(S, "down", 8) + Bit(S, "left", 16)

Byte == [code : 0..63, id : Nat]

Init ==
  /\ pressed = {} /\ pcint = FALSE /\ state = 0
  /\ gpc = "test" /\ msg = 0
  /\ txd = <<>> /\ line = <<>> /\ rxd = <<>>
  /\ slots = <<0, 0>> /\ led = FALSE
  /\ nsent = 0 /\ edges = 0

-----------------------------------------------------------------------------
(* The user.  A press or a release raises the pin-change flag.             *)

Edge(S) ==
  /\ edges < MaxEdges
  /\ pressed' = S
  /\ pcint' = TRUE
  /\ edges' = edges + 1
  /\ UNCHANGED <<state, gpc, msg, txd, line, rxd, slots, led, nsent>>

Press(b) == b \notin pressed /\ Edge(pressed \cup {b})

Release(b) == b \in pressed /\ Edge(pressed \ {b})

-----------------------------------------------------------------------------
(* The interrupt handlers.                                                 *)

\* Mutant: the snapshot is not shifted down by two bits.
PCINT2_vect_NoShift ==
  /\ pcint
  /\ pcint' = FALSE
  /\ state' = 4 * Mask(pressed)
  /\ UNCHANGED <<pressed, gpc, msg, txd, line, rxd, slots, led, nsent, edges>>

\* The handler reads the pins when it runs, not when the edge came.
PCINT2_vect ==
  /\ pcint
  /\ pcint' = FALSE
  /\ state' = Mask(pressed)
  /\ UNCHANGED <<pressed, gpc, msg, txd, line, rxd, slots, led, nsent, edges>>

\* The hardware moves a byte of the serial line into the receive FIFO.
SerialIn ==
  /\ line # <<>> /\ Len(rxd) < UartDepth
  /\ line' = Tail(line)
  /\ rxd' = Append(rxd, Head(line))
  /\ slots' = <<slots[2], Head(line)>>
  /\ UNCHANGED <<pressed, pcint, state, gpc, msg, txd, led, nsent, edges>>

\* What a read of UDR0 can return: the oldest byte of the FIFO or, when the
\* FIFO is empty, whichever byte one of its two slots still holds.
UDR0(fifo) == IF fifo # <<>> THEN {Head(fifo)} ELSE {slots[1], slots[2]}

Popped(fifo) == IF fifo # <<>> THEN Tail(fifo) ELSE fifo

\* The handler reads UDR0 once per comparison, so it pops twice.
USART_RX_vect ==
  /\ rxd # <<>>
  /\ \E a \in UDR0(rxd), b \in UDR0(Popped(rxd)) :
       led' = ((led \/ a = LED_ON) /\ b # LED_OFF)
  /\ rxd' = Popped(Popped(rxd))
  /\ UNCHANGED <<pressed, pcint, state, gpc, msg, txd, line, slots, nsent, edges>>

-----------------------------------------------------------------------------
(* The main loop.                                                          *)

Test ==
  /\ gpc = "test" /\ state # 0
  /\ gpc' = "load"
  /\ UNCHANGED <<pressed, pcint, state, msg, txd, line, rxd, slots, led, nsent, edges>>

\* Mutant: the second test, msg != 0x20, is missing.
Load_NoRecheck ==
  /\ gpc = "load"
  /\ msg' = state + 32
  /\ gpc' = "send"
  /\ UNCHANGED <<pressed, pcint, state, txd, line, rxd, slots, led, nsent, edges>>

\* `state' is read again here: PCINT2_vect may have cleared it since Test.
Load ==
  /\ gpc = "load"
  /\ msg' = state + 32
  /\ gpc' = IF msg' # 32 THEN "send" ELSE "test"
  /\ UNCHANGED <<pressed, pcint, state, txd, line, rxd, slots, led, nsent, edges>>

send_serial ==
  /\ gpc = "send" /\ Len(txd) < UartDepth
  /\ txd' = Append(txd, [code |-> msg, id |-> nsent + 1])
  /\ nsent' = nsent + 1
  /\ gpc' = "delay"
  /\ UNCHANGED <<pressed, pcint, state, msg, line, rxd, slots, led, edges>>

\* Mutant: `state' is not cleared.
EndDelay_NoClear ==
  /\ gpc = "delay"
  /\ gpc' = "test"
  /\ UNCHANGED <<pressed, pcint, state, msg, txd, line, rxd, slots, led, nsent, edges>>

\* After the delay `state' is cleared, with whatever PCINT2_vect put there.
EndDelay ==
  /\ gpc = "delay"
  /\ state' = 0
  /\ gpc' = "test"
  /\ UNCHANGED <<pressed, pcint, msg, txd, line, rxd, slots, led, nsent, edges>>

Main == Test \/ Load \/ send_serial \/ EndDelay

User == \E b \in Buttons : Press(b) \/ Release(b)

Next == User \/ PCINT2_vect \/ SerialIn \/ USART_RX_vect \/ Main

Spec == Init /\ [][Next]_gvars

TypeOK ==
  /\ pressed \subseteq Buttons /\ pcint \in BOOLEAN /\ state \in 0..31
  /\ gpc \in {"test", "load", "send", "delay"} /\ msg \in 0..63
  /\ txd \in Seq(Byte) /\ line \in Seq(0..255) /\ rxd \in Seq(0..255)
  /\ slots \in (0..255) \X (0..255) /\ led \in BOOLEAN
  /\ nsent \in Nat /\ edges \in Nat
==============================================================================
