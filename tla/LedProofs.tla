------------------------------ MODULE LedProofs ------------------------------
(***************************************************************************)
(* The LED of module Joystick: once its commands have arrived it tells     *)
(* whether the pause menu is open, for any number of pauses, of players    *)
(* and of commands given up.                                               *)
(***************************************************************************)
EXTENDS KeyPathProofs

Cmds == {48, 49}

\* The command the program last sent, or should have.
Want == IF pc = "pause" THEN 49 ELSE 48

\* The bytes on their way to the LED, behind the two that came last.
Ahead  == line \o (out_bank \o tosend)
Stream == <<slots[1], slots[2]>> \o Ahead

\* The last byte is the command v and so is the one before it, if any.
EndsIn(q, v) == Len(q) >= 2 /\ q[Len(q)] = v /\ q[Len(q) - 1] \in {v, 0}

LedType == line \in Seq(Cmds) /\ out_bank \in Seq(Cmds) /\ tosend \in Seq(Cmds)

\* Before the game no command is sent, and no other configuration is set
\* than init_usb's, the one after the kernel's.
Boot ==
  /\ setup => pc \in {"init", "wait"}
  /\ pc \in {"init", "wait", "menu", "menu2"} =>
       /\ tosend = <<>> /\ out_bank = <<>> /\ line = <<>> /\ rxd = <<>>
       /\ slots = <<0, 0>> /\ ~led

\* While the endpoints are being configured, which empties the OUT bank, the
\* byte of the bank is not the last one.
Configuring ==
  ppc = "config" =>
    /\ slots = <<0, 0>> /\ line = <<>> /\ rxd = <<>>
    /\ timeouts = 0 => /\ Len(tosend) = 1 => out_bank # <<>>
                       /\ tosend = <<>> => out_bank = <<>>

\* The receive FIFO and its slots.
Receiver ==
  /\ slots[1] \in Cmds \cup {0} /\ slots[2] \in Cmds \cup {0}
  /\ slots[2] = 0 => slots[1] = 0 /\ rxd = <<>> /\ ~led
  /\ rxd \in {<<>>, <<slots[2]>>, <<slots[1], slots[2]>>}
  /\ rxd = <<slots[1], slots[2]>> => slots[1] # 0
  /\ slots[1] = 0 /\ rxd # <<>> => ~led
  /\ rxd = <<>> /\ slots[2] # 0 /\ slots[1] \in {0, slots[2]} => led = (slots[2] = 49)

\* Unless the last pair lost a byte, the stream ends in the wanted command.
Commanded == timeouts = 0 => EndsIn(Stream, Want) \/ (Stream = <<0, 0>> /\ pc # "pause")

LedInv == LedType /\ Boot /\ Configuring /\ Receiver /\ Commanded

-----------------------------------------------------------------------------
(* The stream.                                                               *)

Elems == Cmds \cup {0}

\* A byte that moves from the line into the slots pushes the oldest one out.
LEMMA ShiftEnd ==
  ASSUME NEW T, NEW a \in T, NEW b \in T, NEW h \in T, NEW r \in Seq(T), NEW v,
         EndsIn(<<a, b>> \o (<<h>> \o r), v)
  PROVE  EndsIn(<<b, h>> \o r, v)
<1> DEFINE q == <<a, b>> \o (<<h>> \o r)
           p == <<b, h>> \o r
<1>1. Len(r) \in Nat /\ Len(q) = Len(r) + 3 /\ Len(p) = Len(r) + 2
  OBVIOUS
<1>2. ASSUME NEW i \in 1..(Len(r) + 2) PROVE p[i] = q[i + 1]
  OBVIOUS
<1> HIDE DEF p, q
<1>3. /\ Len(p) + 1 = Len(q) /\ (Len(p) - 1) + 1 = Len(q) - 1 /\ Len(p) >= 2
      /\ Len(p) \in 1..(Len(r) + 2) /\ Len(p) - 1 \in 1..(Len(r) + 2)
  BY <1>1
<1>4. p[Len(p)] = q[Len(q)] /\ p[Len(p) - 1] = q[Len(q) - 1]
  BY <1>2, <1>3
<1>5. EndsIn(q, v)
  BY DEF q
<1> QED
  BY <1>3, <1>4, <1>5 DEF EndsIn, p

\* A pair of commands sent behind the others ends the stream.
LEMMA PairEnd ==
  ASSUME NEW T, NEW s \in Seq(T), NEW v \in T
  PROVE  EndsIn(s \o <<v, v>>, v)
<1>1. /\ Len(s \o <<v, v>>) = Len(s) + 2 /\ Len(s) \in Nat
      /\ (s \o <<v, v>>)[Len(s) + 2] = v /\ (s \o <<v, v>>)[Len(s) + 1] = v
  OBVIOUS
<1>2. (Len(s) + 2) - 1 = Len(s) + 1 /\ Len(s) + 2 >= 2
  BY <1>1
<1> QED
  BY <1>1, <1>2 DEF EndsIn

\* What the stream is made of.
LEMMA StreamType ==
  ASSUME LedType, Receiver
  PROVE  /\ line \in Seq(Elems) /\ out_bank \in Seq(Elems) /\ tosend \in Seq(Elems)
         /\ slots[1] \in Elems /\ slots[2] \in Elems
         /\ Ahead \in Seq(Elems) /\ Stream \in Seq(Elems)
<1>1. \A q \in Seq(Cmds) : q \in Seq(Elems)
  BY DEF Elems
<1>2. line \in Seq(Elems) /\ out_bank \in Seq(Elems) /\ tosend \in Seq(Elems)
  BY <1>1 DEF LedType
<1>3. slots[1] \in Elems /\ slots[2] \in Elems
  BY DEF Receiver, Elems
<1>4. Ahead \in Seq(Elems)
  BY <1>2 DEF Ahead
<1> QED
  BY <1>2, <1>3, <1>4 DEF Stream

\* Steps that leave the LED's path alone.
LEMMA FrameLed ==
  ASSUME LedInv, UNCHANGED <<line, out_bank, tosend, rxd, slots, led, timeouts>>,
         ppc' = "config" => ppc = "config", setup' => setup,
         UNCHANGED pc
  PROVE  LedInv'
<1>1. Want' = Want /\ Stream' = Stream
  BY DEF Want, Stream, Ahead
<1> QED
  BY <1>1 DEF LedInv, LedType, Boot, Configuring, Receiver, Commanded

-----------------------------------------------------------------------------
(* The steps.                                                                *)

\* At the start nothing is on its way and the LED is dark.
LEMMA InitLed == Init => LedInv
<1> SUFFICES ASSUME Init PROVE LedInv
  OBVIOUS
<1>1. /\ line = <<>> /\ rxd = <<>> /\ slots = <<0, 0>> /\ led = FALSE
      /\ out_bank = <<>> /\ tosend = <<>> /\ pc = "init" /\ ppc = "usbtask"
  BY DEF Init, G!Init, P!Init, S!Init
<1>2. Stream = <<0, 0>>
  BY <1>1 DEF Stream, Ahead
<1> QED
  BY <1>1, <1>2 DEF LedInv, LedType, Boot, Configuring, Receiver, Commanded

\* A byte enters the receive FIFO.
LEMMA SerialLed ==
  ASSUME LedInv, GamepadStep(G!SerialIn)
  PROVE  LedInv'
<1> DEFINE h == Head(line)
<1>1. /\ line # <<>> /\ Len(rxd) < 2 /\ line' = Tail(line) /\ rxd' = Append(rxd, h)
      /\ slots' = <<slots[2], h>> /\ led' = led
      /\ UNCHANGED <<out_bank, tosend, timeouts, pc, ppc, setup>>
  BY DEF GamepadStep, G!SerialIn, G!UartDepth, padVars, usbVars, shellVars, historyVars
<1>2. h \in Cmds /\ Tail(line) \in Seq(Cmds) /\ line = <<h>> \o Tail(line)
  BY <1>1 DEF LedInv, LedType
<1> HIDE DEF h
<1>3. LedType'
  BY <1>1, <1>2 DEF LedInv, LedType
<1>4. Boot' /\ Configuring'
  BY <1>1 DEF LedInv, Boot, Configuring
<1>5. slots'[1] = slots[2] /\ slots'[2] = h /\ h # 0
  BY <1>1, <1>2 DEF Cmds
<1>6. Receiver'
  <2>1. CASE rxd = <<>>
    <3>1. rxd' = <<h>> /\ <<h>> # <<>> /\ <<h>> # <<slots[2], h>>
      BY <1>1, <2>1
    <3> QED
      BY <1>1, <1>2, <1>5, <2>1, <3>1 DEF LedInv, Receiver
  <2>2. CASE rxd # <<>>
    <3>1. rxd = <<slots[2]>> /\ slots[2] # 0
      BY <1>1, <2>2 DEF LedInv, Receiver
    <3>2. rxd' = <<slots[2], h>> /\ <<slots[2], h>> # <<>>
      <4>1. ASSUME NEW x \in Elems, NEW y \in Elems PROVE Append(<<x>>, y) = <<x, y>>
        <5>1. <<x>> \in Seq(Elems) /\ Len(<<x>>) = 1 /\ <<x>>[1] = x
          OBVIOUS
        <5>2. /\ Append(<<x>>, y) \in Seq(Elems) /\ Len(Append(<<x>>, y)) = 2
              /\ Append(<<x>>, y)[1] = x /\ Append(<<x>>, y)[2] = y
          BY <5>1
        <5>3. ASSUME NEW s \in Seq(Elems), Len(s) = 2 PROVE s = <<s[1], s[2]>>
          BY <5>3
        <5> QED
          BY <5>2, <5>3
      <4>2. slots[2] \in Elems /\ h \in Elems
        BY <1>2, StreamType DEF LedInv, Elems
      <4>3. Append(<<slots[2]>>, h) = <<slots[2], h>>
        BY <4>1, <4>2
      <4>4. <<slots[2], h>> # <<>>
        OBVIOUS
      <4> QED
        BY <1>1, <3>1, <4>3, <4>4
    <3> QED
      BY <1>1, <1>2, <1>5, <3>1, <3>2 DEF LedInv, Receiver
  <2> QED
    BY <2>1, <2>2
<1>7. Commanded'
  <2> DEFINE U == out_bank \o tosend
             r == Tail(line) \o U
  <2>0. /\ U \in Seq(Elems) /\ Tail(line) \in Seq(Elems) /\ h \in Elems
        /\ slots[1] \in Elems /\ slots[2] \in Elems
    <3>1. Tail(line) \in Seq(Elems) /\ h \in Elems
      BY <1>2 DEF Elems
    <3> QED
      BY <3>1, StreamType DEF LedInv
  <2>1. r \in Seq(Elems)
    BY <2>0
  <2>2. Ahead = <<h>> \o r /\ Ahead' = r
    <3> HIDE DEF U
    <3>1. ASSUME NEW t \in Seq(Elems) PROVE (<<h>> \o t) \o U = <<h>> \o (t \o U)
      BY <2>0
    <3>2. Ahead = line \o U /\ Ahead' = Tail(line) \o U
      BY <1>1 DEF Ahead, U
    <3> QED
      BY <1>2, <2>0, <3>1, <3>2
  <2> HIDE DEF r
  <2>3. Stream = <<slots[1], slots[2]>> \o (<<h>> \o r) /\ Stream' = <<slots[2], h>> \o r
    BY <1>5, <2>2 DEF Stream
  <2>4. Stream # <<0, 0>>
    <3>1. Len(Stream) >= 3
      BY <2>0, <2>1, <2>3
    <3> QED
      BY <3>1
  <2>5. ASSUME NEW v, EndsIn(Stream, v) PROVE EndsIn(Stream', v)
    BY <2>0, <2>1, <2>3, <2>5, ShiftEnd
  <2>6. Want' = Want /\ timeouts' = timeouts
    BY <1>1 DEF Want
  <2>7. timeouts = 0 => EndsIn(Stream, Want)
    BY <2>4 DEF LedInv, Commanded
  <2> QED
    BY <2>5, <2>6, <2>7 DEF Commanded
<1> QED
  BY <1>3, <1>4, <1>6, <1>7 DEF LedInv

\* The receive handler, whatever its second read of UDR0 returns.
LEMMA HandlerLed ==
  ASSUME LedInv, GamepadStep(G!USART_RX_vect)
  PROVE  LedInv'
<1>1. /\ rxd # <<>> /\ UNCHANGED <<line, slots, out_bank, tosend, timeouts, pc, ppc, setup>>
      /\ rxd' = G!Popped(G!Popped(rxd))
  BY DEF GamepadStep, G!USART_RX_vect, padVars, usbVars, shellVars, historyVars
<1>2. PICK a \in G!UDR0(rxd), b \in G!UDR0(G!Popped(rxd)) : led' = ((led \/ a = 49) /\ b # 48)
  BY DEF GamepadStep, G!USART_RX_vect, G!LED_ON, G!LED_OFF
<1>3. slots[2] # 0 /\ slots[2] \in Cmds
  BY <1>1 DEF LedInv, Receiver, Cmds
<1>4. Receiver'
  <2>1. CASE rxd = <<slots[2]>>
    <3>1. G!Popped(rxd) = <<>> /\ G!Popped(<<>>) = <<>> /\ G!UDR0(rxd) = {slots[2]}
      BY <2>1 DEF G!Popped, G!UDR0
    <3>2. rxd' = <<>> /\ a = slots[2] /\ b \in {slots[1], slots[2]}
      BY <1>1, <1>2, <3>1 DEF G!UDR0
    <3>3. slots[1] \in {0, slots[2]} => led' = (slots[2] = 49)
      <4>1. CASE slots[1] = 0
        <5>1. ~led
          BY <1>1, <4>1 DEF LedInv, Receiver
        <5> QED
          BY <1>2, <1>3, <3>2, <4>1, <5>1 DEF Cmds
      <4>2. CASE slots[1] = slots[2]
        BY <1>2, <1>3, <3>2, <4>2 DEF Cmds
      <4> QED
        BY <4>1, <4>2
    <3> QED
      BY <1>1, <1>3, <3>2, <3>3 DEF LedInv, Receiver
  <2>2. CASE rxd = <<slots[1], slots[2]>>
    <3>1. /\ G!Popped(rxd) = <<slots[2]>> /\ G!Popped(<<slots[2]>>) = <<>>
          /\ G!UDR0(rxd) = {slots[1]} /\ G!UDR0(<<slots[2]>>) = {slots[2]}
      BY <2>2 DEF G!Popped, G!UDR0
    <3>2. rxd' = <<>> /\ a = slots[1] /\ b = slots[2] /\ slots[1] # 0
      BY <1>1, <1>2, <2>2, <3>1 DEF LedInv, Receiver
    <3>3. slots[1] \in {0, slots[2]} => led' = (slots[2] = 49)
      BY <1>2, <1>3, <3>2 DEF Cmds
    <3> QED
      BY <1>1, <1>3, <3>2, <3>3 DEF LedInv, Receiver
  <2> QED
    BY <1>1, <2>1, <2>2 DEF LedInv, Receiver
<1>5. LedType' /\ Commanded'
  BY <1>1 DEF LedInv, LedType, Commanded, Want, Stream, Ahead
<1>6. slots # <<0, 0>>
  BY <1>3
<1>7. Boot' /\ Configuring'
  BY <1>1, <1>6 DEF LedInv, Boot, Configuring
<1> QED
  BY <1>4, <1>5, <1>7 DEF LedInv

\* A byte goes from the OUT bank to the serial line.
LEMMA CopyLed ==
  ASSUME RestType, LedInv, PadStep(P!ReceiveNextReport)
  PROVE  LedInv'
<1>1. /\ ppc = "recv" /\ ppc' = "usbtask"
      /\ UNCHANGED <<tosend, rxd, slots, led, timeouts, pc, setup>>
      /\ \/ UNCHANGED <<line, out_bank>>
         \/ out_bank # <<>> /\ line' = Append(line, Head(out_bank)) /\ out_bank' = <<>>
  BY DEF PadStep, P!ReceiveNextReport, gamepadVars, shellVars, historyVars
<1>2. CASE UNCHANGED <<line, out_bank>>
  BY <1>1, <1>2, FrameLed
<1>3. CASE out_bank # <<>> /\ line' = Append(line, Head(out_bank)) /\ out_bank' = <<>>
  <2> DEFINE o == Head(out_bank)
  <2>1. out_bank = <<o>> /\ o \in Cmds
    <3>1. Len(out_bank) = 1
      <4>1. Len(out_bank) \in Nat /\ Len(out_bank) # 0
        BY <1>3 DEF LedInv, LedType
      <4>2. Len(out_bank) <= 1
        BY DEF RestType, UsbType
      <4>3. \A n \in Nat : n # 0 /\ n <= 1 => n = 1
        OBVIOUS
      <4> QED
        BY <4>1, <4>2, <4>3
    <3> QED
      BY <1>3, <3>1 DEF LedInv, LedType
  <2> HIDE DEF o
  <2>2. LedType'
    BY <1>1, <1>3, <2>1 DEF LedInv, LedType, o
  <2>3. Boot' /\ Configuring' /\ Receiver'
    BY <1>1, <1>3 DEF LedInv, Boot, Configuring, Receiver
  <2>4. Stream' = Stream /\ Want' = Want
    <3>1. ASSUME NEW l \in Seq(Cmds), NEW t \in Seq(Cmds)
          PROVE  Append(l, o) \o (<<>> \o t) = l \o (<<o>> \o t)
      BY <2>1
    <3>2. Ahead' = Ahead
      BY <1>1, <1>3, <2>1, <3>1 DEF Ahead, LedInv, LedType, o
    <3> QED
      BY <1>1, <3>2 DEF Stream, Want
  <2> QED
    BY <1>1, <2>2, <2>3, <2>4 DEF LedInv, Commanded
<1> QED
  BY <1>1, <1>2, <1>3

\* The byte of the OUT bank that ConfigureEndpoint drops is not missed.
LEMMA ConfigureLed ==
  ASSUME LedInv, PadStep(P!ConfigurationChanged)
  PROVE  LedInv'
<1>1. /\ ppc = "config" /\ ppc' = "task" /\ out_bank' = <<>>
      /\ UNCHANGED <<line, tosend, rxd, slots, led, timeouts, pc, setup>>
  BY DEF PadStep, P!ConfigurationChanged, gamepadVars, shellVars, historyVars
<1>2. /\ slots = <<0, 0>> /\ line = <<>>
      /\ timeouts = 0 => /\ Len(tosend) = 1 => out_bank # <<>>
                         /\ tosend = <<>> => out_bank = <<>>
  BY <1>1 DEF LedInv, Configuring
<1>3. LedType' /\ Boot' /\ Configuring' /\ Receiver'
  BY <1>1 DEF LedInv, LedType, Boot, Configuring, Receiver
<1>4. Commanded'
  <2> SUFFICES ASSUME timeouts = 0
               PROVE  EndsIn(Stream', Want) \/ (Stream' = <<0, 0>> /\ pc # "pause")
    BY <1>1 DEF Commanded, Want
  <2>1. CASE out_bank = <<>>
    <3>1. Stream' = Stream
      BY <1>1, <2>1 DEF Stream, Ahead
    <3> QED
      BY <3>1 DEF LedInv, Commanded
  <2>2. CASE out_bank # <<>>
    <3>1. Len(out_bank) \in Nat /\ Len(tosend) \in Nat /\ Len(out_bank) # 0 /\ Len(tosend) # 0
      BY <1>2, <2>2 DEF LedInv, LedType
    <3>2. Stream = <<0, 0>> \o (out_bank \o tosend) /\ Stream' = <<0, 0>> \o tosend
      <4>1. ASSUME NEW t \in Seq(Cmds) PROVE <<>> \o t = t
        OBVIOUS
      <4>2. out_bank \o tosend \in Seq(Cmds) /\ tosend \in Seq(Cmds)
        BY DEF LedInv, LedType
      <4>3. slots'[1] = 0 /\ slots'[2] = 0 /\ slots[1] = 0 /\ slots[2] = 0
        BY <1>1, <1>2
      <4>4. Ahead = out_bank \o tosend /\ Ahead' = tosend
        BY <1>1, <1>2, <4>1, <4>2 DEF Ahead
      <4> QED
        BY <4>3, <4>4 DEF Stream
    <3>3. ASSUME NEW o \in Seq(Elems), NEW t \in Seq(Elems), Len(o) # 0, Len(t) # 0, NEW v,
                 EndsIn(<<0, 0>> \o (o \o t), v)
          PROVE  EndsIn(<<0, 0>> \o t, v)
      <4> DEFINE q == <<0, 0>> \o (o \o t)
                 p == <<0, 0>> \o t
                 m == Len(t)
                 k == Len(o)
      <4>a. m \in Nat /\ k \in Nat /\ m # 0
        BY <3>3
      <4>b. 0 \in Elems
        BY DEF Elems
      <4>c. Len(q) = k + m + 2 /\ Len(p) = m + 2
        BY <3>3, <4>b
      <4>d. ASSUME NEW j \in 1..m PROVE p[j + 2] = t[j] /\ q[k + j + 2] = t[j]
        <5>1. (o \o t) \in Seq(Elems) /\ Len(o \o t) = k + m
          BY <3>3
        <5>2. j \in Nat /\ j >= 1 /\ j <= m
          BY <4>a
        <5>3. (o \o t)[k + j] = t[j]
          BY <3>3, <4>a, <5>2
        <5>4. p[j + 2] = t[j]
          BY <3>3, <4>a, <5>2, <4>b
        <5>5. ASSUME NEW u \in Seq(Elems), NEW i \in 1..Len(u) PROVE (<<0, 0>> \o u)[i + 2] = u[i]
          BY <4>b
        <5>6. k + j \in 1..(k + m)
          BY <4>a, <5>2
        <5>7. q[(k + j) + 2] = (o \o t)[k + j]
          BY <5>1, <5>5, <5>6
        <5> QED
          BY <5>3, <5>4, <5>7
      <4>e. p[2] = 0
        BY <3>3, <4>b
      <4>2. EndsIn(q, v)
        BY <3>3
      <4> HIDE DEF q, p, k, m
      <4>3. /\ (k + m + 2) - 1 = k + m + 1 /\ (m + 2) - 1 = m + 1 /\ m + 2 >= 2
            /\ (m > 1 \/ m = 1) /\ m \in 1..m /\ (m > 1 => m - 1 \in 1..m)
            /\ (m - 1) + 2 = m + 1 /\ k + (m - 1) + 2 = k + m + 1 /\ (m = 1 => m + 1 = 2)
        BY <4>a
      <4>1. /\ m \in Nat /\ k \in Nat /\ Len(q) = k + m + 2 /\ Len(p) = m + 2
            /\ p[m + 2] = t[m] /\ q[k + m + 2] = t[m]
            /\ m > 1 => p[m + 1] = t[m - 1] /\ q[k + m + 1] = t[m - 1]
            /\ m = 1 => p[m + 1] = 0
        <5>1. p[m + 2] = t[m] /\ q[k + m + 2] = t[m]
          BY <4>3, <4>d
        <5>2. m > 1 => p[(m - 1) + 2] = t[m - 1] /\ q[k + (m - 1) + 2] = t[m - 1]
          BY <4>3, <4>d
        <5> QED
          BY <4>a, <4>c, <4>e, <4>3, <5>1, <5>2
      <4>4. p[m + 2] = v /\ p[m + 1] \in {v, 0}
        BY <4>1, <4>2, <4>3 DEF EndsIn
      <4> QED
        BY <4>1, <4>3, <4>4 DEF EndsIn, p
    <3>4. out_bank \in Seq(Elems) /\ tosend \in Seq(Elems)
      BY StreamType DEF LedInv
    <3>5. Stream # <<0, 0>>
      <4>1. Len(Stream) = 2 + (Len(out_bank) + Len(tosend))
        BY <3>2, <3>4
      <4>2. Len(Stream) # 2
        BY <3>1, <4>1
      <4>3. Len(<<0, 0>>) = 2
        OBVIOUS
      <4> QED
        BY <4>2, <4>3
    <3>6. EndsIn(Stream, Want)
      BY <3>5 DEF LedInv, Commanded
    <3> QED
      BY <3>1, <3>2, <3>3, <3>4, <3>6
  <2> QED
    BY <2>1, <2>2
<1> QED
  BY <1>3, <1>4 DEF LedInv

\* The other steps of pad.c's loop.
LEMMA PadLed ==
  ASSUME RestType, LedInv, PadStep(P!Main)
  PROVE  LedInv'
<1>1. CASE P!StatusStage
  <2>1. /\ ppc = "usbtask" /\ setup /\ ~setup' /\ ppc' = "config"
        /\ UNCHANGED <<line, out_bank, tosend, rxd, slots, led, timeouts, pc>>
    BY <1>1 DEF PadStep, P!StatusStage, gamepadVars, shellVars, historyVars
  <2>2. /\ slots = <<0, 0>> /\ line = <<>> /\ rxd = <<>> /\ out_bank = <<>> /\ tosend = <<>>
    BY <2>1 DEF LedInv, Boot
  <2>3. Configuring'
    BY <2>1, <2>2 DEF Configuring
  <2>4. LedType' /\ Boot' /\ Receiver' /\ Commanded'
    BY <2>1 DEF LedInv, LedType, Boot, Receiver, Commanded, Want, Stream, Ahead
  <2> QED
    BY <2>3, <2>4 DEF LedInv
<1>2. CASE \/ P!USB_USBTask \/ P!PAD_Task \/ P!SendNextReport \/ P!IsReadWriteAllowed
           \/ P!WriteReport \/ P!ClearState
  <2>1. /\ UNCHANGED <<line, out_bank, tosend, rxd, slots, led, timeouts, pc, setup>>
        /\ ppc' # "config"
    BY <1>2 DEF PadStep, P!USB_USBTask, P!PAD_Task, P!SendNextReport, P!IsReadWriteAllowed,
                P!WriteReport, P!ClearState, gamepadVars, shellVars, historyVars
  <2> QED
    BY <2>1, FrameLed
<1> QED
  BY <1>1, <1>2, CopyLed, ConfigureLed DEF PadStep, P!Main

-----------------------------------------------------------------------------
(* The host.                                                                 *)

\* The program's steps: a new pair of commands, or no change of the wish.
LEMMA ProgramLed ==
  ASSUME RestType, LedInv, HostStep(LedProgram)
  PROVE  LedInv'
<1>1. /\ UNCHANGED <<line, out_bank, rxd, slots, led, ppc, setup>>
      /\ timeouts' = IF tosend' = <<>> THEN timeouts ELSE 0
  BY DEF HostStep, LedProgram, gamepadVars, serialVars, padVars, usbVars
<1>2. /\ tosend = <<>> /\ pc \in {"menu", "poll", "pause", "turn"}
      /\ pc' \notin {"init", "wait"} /\ (pc' \in {"menu", "menu2"} => pc = "menu")
      /\ \/ tosend' = <<>> /\ (pc' = "pause" <=> pc = "pause")
         \/ tosend' = <<Want', Want'>> /\ pc' \notin {"menu", "menu2"}
  <2>1. ASSUME NEW k, S!menu_disp(k)
        PROVE  tosend' = tosend /\ pc = "menu" /\ pc' \in {"menu", "menu2"}
    BY <2>1 DEF S!menu_disp
  <2>2. ASSUME NEW k, S!quit_disp(k)
        PROVE  /\ tosend = <<>> /\ pc = "pause"
               /\ \/ tosend' = <<>> /\ pc' = "pause"
                  \/ tosend' = <<48, 48>> /\ pc' \in {"turn", "halt"}
    BY <2>2 DEF S!quit_disp
  <2>3. ASSUME NEW k, NEW k2, S!Poll(k, k2)
        PROVE  /\ tosend = <<>> /\ pc = "poll"
               /\ \/ tosend' = <<>> /\ pc' = "turn"
                  \/ tosend' = <<49, 49>> /\ pc' = "pause"
    BY <2>3 DEF S!Poll
  <2>4. ASSUME NEW out, S!Turn(out)
        PROVE  /\ tosend = <<>> /\ pc = "turn"
               /\ \/ tosend' = <<>> /\ pc' = "poll"
                  \/ tosend' = <<48, 48>> /\ pc' = "halt"
    BY <2>4 DEF S!Turn
  <2>5. ASSUME S!Killed
        PROVE  tosend = <<>> /\ tosend' = <<>> /\ pc = "turn" /\ pc' = "sigfpe"
    BY <2>5 DEF S!Killed
  <2>6. pc = "menu" => tosend = <<>>
    BY DEF LedInv, Boot
  <2> QED
    BY <2>1, <2>2, <2>3, <2>4, <2>5, <2>6 DEF HostStep, LedProgram, Want
<1>3. LedType'
  <2>1. <<Want', Want'>> \in Seq(Cmds) /\ <<>> \in Seq(Cmds)
    BY DEF Want, Cmds
  <2> QED
    BY <1>1, <1>2, <2>1 DEF LedInv, LedType
<1>4. Boot' /\ Receiver'
  BY <1>1, <1>2 DEF LedInv, Boot, Receiver
<1>5. CASE tosend' = <<>> /\ (pc' = "pause" <=> pc = "pause")
  <2>1. Want' = Want /\ Stream' = Stream /\ timeouts' = timeouts /\ tosend' = tosend
    BY <1>1, <1>2, <1>5 DEF Want, Stream, Ahead
  <2>2. Configuring' /\ Commanded'
    BY <1>1, <1>5, <2>1 DEF LedInv, Configuring, Commanded
  <2> QED
    BY <1>3, <1>4, <2>2 DEF LedInv
<1>6. CASE tosend' = <<Want', Want'>>
  <2>1. Want' \in Elems /\ Len(<<Want', Want'>>) = 2 /\ <<Want', Want'>> # <<>>
    BY DEF Want, Elems, Cmds
  <2>2. Configuring'
    BY <1>1, <1>6, <2>1 DEF LedInv, Configuring
  <2>3. EndsIn(Stream', Want')
    <3> DEFINE s == <<slots[1], slots[2]>> \o (line \o out_bank)
    <3>0. /\ line \in Seq(Elems) /\ out_bank \in Seq(Elems)
          /\ slots[1] \in Elems /\ slots[2] \in Elems
      BY StreamType DEF LedInv
    <3>1. s \in Seq(Elems)
      BY <3>0
    <3>2. ASSUME NEW a \in Elems, NEW b \in Elems, NEW l \in Seq(Elems), NEW o \in Seq(Elems),
                 NEW t \in Seq(Elems)
          PROVE  <<a, b>> \o (l \o (o \o t)) = (<<a, b>> \o (l \o o)) \o t
      OBVIOUS
    <3>3. Stream' = s \o <<Want', Want'>>
      <4>1. <<Want', Want'>> \in Seq(Elems)
        BY <2>1
      <4>2. Stream' = <<slots[1], slots[2]>> \o (line \o (out_bank \o <<Want', Want'>>))
        BY <1>1, <1>6 DEF Stream, Ahead
      <4>3. PICK w : w = <<Want', Want'>>
        OBVIOUS
      <4>4. <<slots[1], slots[2]>> \o (line \o (out_bank \o w)) = s \o w
        BY <3>0, <3>2, <4>1, <4>3
      <4> QED
        BY <4>2, <4>3, <4>4
    <3> HIDE DEF s
    <3> QED
      BY <2>1, <3>1, <3>3, PairEnd
  <2> QED
    BY <1>3, <1>4, <2>2, <2>3 DEF LedInv, Commanded
<1> QED
  BY <1>2, <1>5, <1>6

\* One command goes into the OUT bank.
LEMMA SendLed ==
  ASSUME LedInv, RestType, HostStep(usb_send)
  PROVE  LedInv'
<1> DEFINE c == Head(tosend)
<1>1. /\ out_bank = <<>> /\ tosend # <<>> /\ tosend' = Tail(tosend) /\ out_bank' = <<c>>
      /\ UNCHANGED <<line, rxd, slots, led, ppc, setup, pc, timeouts>>
  BY DEF HostStep, usb_send, S!usb_send, gamepadVars, serialVars, padVars
<1>2. /\ c \in Cmds /\ Tail(tosend) \in Seq(Cmds) /\ tosend = <<c>> \o Tail(tosend)
      /\ Len(Tail(tosend)) = Len(tosend) - 1 /\ Len(tosend) \in Nat
  BY <1>1 DEF LedInv, LedType
<1> HIDE DEF c
<1>3. LedType'
  BY <1>1, <1>2 DEF LedInv, LedType
<1>4. Boot' /\ Receiver'
  BY <1>1 DEF LedInv, Boot, Receiver
<1>5. Configuring'
  <2>1. <<c>> # <<>>
    OBVIOUS
  <2>2. ASSUME ppc = "config", timeouts = 0 PROVE Tail(tosend) # <<>>
    <3>1. Len(tosend) # 1 /\ Len(tosend) # 0
      BY <1>1, <1>2, <2>2 DEF LedInv, Configuring, LedType
    <3>2. Len(Tail(tosend)) # 0
      BY <1>2, <3>1
    <3>3. Len(<<>>) = 0
      OBVIOUS
    <3> QED
      BY <3>2, <3>3
  <2> QED
    BY <1>1, <2>1, <2>2 DEF LedInv, Configuring
<1>6. Stream' = Stream /\ Want' = Want
  <2>1. ASSUME NEW t \in Seq(Cmds) PROVE <<>> \o (<<c>> \o t) = <<c>> \o t
    BY <1>2
  <2>2. Ahead' = Ahead
    BY <1>1, <1>2, <2>1 DEF Ahead
  <2> QED
    BY <1>1, <2>2 DEF Stream, Want
<1>7. Commanded'
  BY <1>1, <1>6 DEF LedInv, Commanded
<1> QED
  BY <1>3, <1>4, <1>5, <1>7 DEF LedInv

\* A command given up, after which nothing is said of the LED until the next
\* pair.
LEMMA GiveUpLed ==
  ASSUME LedInv, RestType, HostStep(usb_send_timeout)
  PROVE  LedInv'
<1>1. /\ tosend # <<>> /\ tosend' = Tail(tosend) /\ timeouts' = timeouts + 1
      /\ UNCHANGED <<line, out_bank, rxd, slots, led, ppc, setup, pc>>
  BY DEF HostStep, usb_send_timeout, S!usb_send, gamepadVars, serialVars, padVars, usbVars
<1>2. Tail(tosend) \in Seq(Cmds) /\ timeouts' # 0
  BY <1>1 DEF LedInv, LedType, RestType
<1> QED
  BY <1>1, <1>2 DEF LedInv, LedType, Boot, Configuring, Receiver, Commanded

\* The start of the program.
LEMMA BootLed ==
  ASSUME LedInv, HostStep(InitUsb) \/ HostStep(InitUsbDone) \/ HostStep(Menu2)
  PROVE  LedInv'
<1>1. /\ UNCHANGED <<line, out_bank, tosend, rxd, slots, led, ppc, timeouts>>
      /\ pc \in {"init", "wait", "menu2"} /\ pc' \in {"wait", "menu", "poll"}
      /\ setup' => pc' = "wait"
  <2>1. UNCHANGED <<line, rxd, slots, led, ppc>>
    BY DEF HostStep, gamepadVars, serialVars, padVars
  <2>2. CASE HostStep(InitUsb)
    BY <2>1, <2>2 DEF HostStep, InitUsb, S!init_usb
  <2>3. CASE HostStep(InitUsbDone)
    BY <2>1, <2>3 DEF HostStep, InitUsbDone, S!init_usb_done, usbVars
  <2>4. CASE HostStep(Menu2)
    <3>1. ~setup
      BY <2>4 DEF HostStep, Menu2, S!menu2_disp, LedInv, Boot
    <3> QED
      BY <2>1, <2>4, <3>1 DEF HostStep, Menu2, S!menu2_disp, usbVars
  <2> QED
    BY <2>2, <2>3, <2>4
<1>2. Stream' = Stream /\ Want' = Want
  BY <1>1 DEF Stream, Ahead, Want
<1> QED
  BY <1>1, <1>2 DEF LedInv, LedType, Boot, Configuring, Receiver, Commanded

\* LedInv is inductive relative to the types.
LEMMA NextLed == RestType /\ LedInv /\ [LedNext]_vars => LedInv'
<1> SUFFICES ASSUME RestType, LedInv, [LedNext]_vars PROVE LedInv'
  OBVIOUS
<1>1. CASE UNCHANGED vars
  <2>1. UNCHANGED <<line, out_bank, tosend, rxd, slots, led, timeouts, ppc, setup, pc>>
    BY <1>1 DEF vars, gamepadVars, serialVars, padVars, usbVars, shellVars, historyVars
  <2> QED
    BY <2>1, FrameLed
<1>2. CASE HostStep(LedHost)
  BY <1>2, ProgramLed, SendLed, GiveUpLed, BootLed DEF HostStep, LedHost
<1> QED
  BY <1>1, <1>2, SerialLed, HandlerLed, PadLed DEF LedNext

\* With nothing on its way the slots hold the end of the stream.
LEMMA LedAtRest == RestType /\ LedInv => LedSettled
<1> SUFFICES ASSUME LedInv, tosend = <<>>, timeouts = 0, out_bank = <<>>, line = <<>>, rxd = <<>>,
                    led \in BOOLEAN
             PROVE  led <=> pc = "pause"
  BY DEF LedSettled, RestType, LineType
<1>1. Stream = <<slots[1], slots[2]>>
  BY DEF Stream, Ahead
<1>2. CASE EndsIn(Stream, Want)
  <2>1. slots[2] = Want /\ slots[1] \in {Want, 0}
    <3>1. /\ Len(<<slots[1], slots[2]>>) = 2 /\ <<slots[1], slots[2]>>[2] = slots[2]
          /\ <<slots[1], slots[2]>>[2 - 1] = slots[1]
      OBVIOUS
    <3> QED
      BY <1>1, <1>2, <3>1 DEF EndsIn
  <2>2. Want # 0 /\ (Want = 49 <=> pc = "pause")
    BY DEF Want
  <2>3. led = (slots[2] = 49)
    BY <2>1, <2>2 DEF LedInv, Receiver
  <2> QED
    BY <2>1, <2>2, <2>3
<1>3. CASE Stream = <<0, 0>> /\ pc # "pause"
  <2>1. slots[2] = 0
    BY <1>1, <1>3
  <2> QED
    BY <1>3, <2>1 DEF LedInv, Receiver
<1> QED
  BY <1>2, <1>3 DEF LedInv, Commanded

\* Once the commands have arrived and the last pair was not given up, the LED
\* is lit exactly while the pause menu is open: for any number of pauses, of
\* commands given up before, and whatever the second read of UDR0 returns.
THEOREM LedTellsPause == LedSpec => []LedSettled
<1>1. RestType /\ [LedNext]_vars => RestType'
  BY NextRest
<1> QED
  BY <1>1, InitRest, InitLed, NextLed, LedAtRest, PTL DEF LedSpec
==============================================================================
