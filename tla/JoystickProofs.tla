---------------------------- MODULE JoystickProofs ----------------------------
(***************************************************************************)
(* Theorems about the key path of module Joystick, for any buttons and any *)
(* number of edges.                                                        *)
(***************************************************************************)
EXTENDS Joystick, TLAPS

Byte == [code : 0..63, id : Nat]

\* The types the key path needs.
KeyType ==
  /\ state \in 0..31 /\ msg \in 0..63 /\ nsent \in Nat /\ edges \in Nat
  /\ pcint \in BOOLEAN /\ gpc \in {"test", "load", "send", "delay"}
  /\ txd \in Seq(Byte) /\ in_bank \in Seq(Byte) /\ Len(in_bank) <= 1
  /\ data_send \in Byte /\ state_send \in 0..1 /\ got \in Byte

\* SendNextReport is past its test only with a byte to send, and writes only
\* to a free bank.
Loop ==
  /\ ppc \in {"rw", "write", "clear"} => state_send = 1
  /\ ppc = "write" => in_bank = <<>>

HasPending == state_send = 1 /\ ppc # "clear"

\* InOrder, place by place.
Order ==
  /\ \A i \in 1..Len(in_bank) : got.id < in_bank[i].id /\ in_bank[i].id <= nsent
  /\ HasPending =>
       /\ got.id < data_send.id /\ data_send.id <= nsent
       /\ \A i \in 1..Len(in_bank) : in_bank[i].id < data_send.id
  /\ \A j \in 1..Len(txd) :
       /\ got.id < txd[j].id /\ txd[j].id <= nsent
       /\ \A i \in 1..Len(in_bank) : in_bank[i].id < txd[j].id
       /\ HasPending => data_send.id < txd[j].id
  /\ \A i, j \in 1..Len(txd) : i < j => txd[i].id < txd[j].id

\* The last byte taken was sent.
Got == got.id <= nsent

KeyInv == KeyType /\ Loop /\ Order /\ Got

-----------------------------------------------------------------------------

\* The ranks of the bytes are numbers.
LEMMA Ranks ==
  ASSUME KeyInv
  PROVE  /\ \A i \in 1..Len(in_bank) : in_bank[i] \in Byte /\ in_bank[i].id \in Nat
         /\ \A i \in 1..Len(txd) : txd[i] \in Byte /\ txd[i].id \in Nat
         /\ data_send.id \in Nat /\ got.id \in Nat /\ nsent \in Nat
         /\ Len(in_bank) \in Nat /\ Len(in_bank) <= 1 /\ Len(txd) \in Nat
<1>1. /\ \A i \in 1..Len(in_bank) : in_bank[i] \in Byte
      /\ \A i \in 1..Len(txd) : txd[i] \in Byte
      /\ Len(in_bank) \in Nat /\ Len(txd) \in Nat
  BY DEF KeyInv, KeyType
<1>2. \A b \in Byte : b.id \in Nat
  BY DEF Byte
<1>3. data_send \in Byte /\ got \in Byte /\ nsent \in Nat /\ Len(in_bank) <= 1
  BY DEF KeyInv, KeyType
<1> QED
  BY <1>1, <1>2, <1>3

\* The initial state: nothing is on its way.
LEMMA InitKey == Init => KeyInv
<1> SUFFICES ASSUME Init PROVE KeyInv
  OBVIOUS
<1>1. /\ state = 0 /\ msg = 0 /\ nsent = 0 /\ edges = 0 /\ pcint = FALSE /\ gpc = "test"
      /\ txd = <<>> /\ in_bank = <<>> /\ state_send = 0 /\ ppc = "usbtask"
      /\ data_send = P!NoByte /\ got = P!NoByte
  BY DEF Init, G!Init, P!Init
<1>2. P!NoByte \in Byte
  BY DEF P!NoByte, Byte
<1>3. KeyType
  <2>1. txd \in Seq(Byte) /\ in_bank \in Seq(Byte) /\ Len(in_bank) <= 1
    BY <1>1
  <2>2. data_send \in Byte /\ got \in Byte
    BY <1>1, <1>2
  <2>3. /\ state \in 0..31 /\ msg \in 0..63 /\ nsent \in Nat /\ edges \in Nat
        /\ state_send \in 0..1
    BY <1>1
  <2>4. pcint \in BOOLEAN /\ gpc \in {"test", "load", "send", "delay"}
    BY <1>1
  <2> QED
    BY <2>1, <2>2, <2>3, <2>4 DEF KeyType
<1>4. Loop /\ Order
  BY <1>1 DEF Loop, Order, HasPending
<1>5. Got
  BY <1>1 DEF Got, P!NoByte
<1> QED
  BY <1>3, <1>4, <1>5 DEF KeyInv

\* Steps that move no byte: the IN bank may be emptied, and a pending byte
\* given up.
LEMMA FrameOrder ==
  ASSUME KeyInv, KeyType', Loop',
         UNCHANGED <<txd, data_send, got, nsent>>,
         in_bank' \in {in_bank, <<>>}, HasPending' => HasPending
  PROVE  KeyInv'
<1>1. CASE in_bank' = in_bank
  BY <1>1 DEF KeyInv, Order, Got
<1>2. CASE in_bank' = <<>>
  BY <1>2 DEF KeyInv, Order, Got
<1> QED
  BY <1>1, <1>2

\* Steps that do not touch the key path at all.
LEMMA FrameKey ==
  ASSUME KeyInv, KeyType',
         UNCHANGED <<txd, in_bank, data_send, state_send, got, nsent, ppc>>
  PROVE  KeyInv'
<1>1. Loop' /\ (HasPending' => HasPending)
  BY DEF KeyInv, Loop, HasPending
<1> QED
  BY <1>1, FrameOrder

\* A snapshot of the pins fits in five bits.
LEMMA MaskType == \A T : G!Mask(T) \in 0..31
BY DEF G!Mask, G!Bit

-----------------------------------------------------------------------------
(* The gamepad.                                                            *)

\* The user's hands do not touch the key path.
LEMMA UserKey ==
  ASSUME KeyInv, User
  PROVE  KeyInv'
<1>1. /\ UNCHANGED <<state, gpc, msg, txd, nsent, padVars, usbVars, got>>
      /\ edges' = edges + 1 /\ pcint' = TRUE
  BY DEF User, G!User, G!Press, G!Release, G!Edge
<1> QED
  BY <1>1, FrameKey DEF KeyInv, KeyType, padVars, usbVars

\* Nor do the interrupt handlers of the ATmega328p.
LEMMA GamepadKey ==
  ASSUME KeyInv, GamepadStep(G!PCINT2_vect) \/ GamepadStep(G!SerialIn)
                   \/ GamepadStep(G!USART_RX_vect)
  PROVE  KeyInv'
<1>1. /\ UNCHANGED <<gpc, msg, txd, nsent, edges, padVars, usbVars, historyVars>>
      /\ pcint' \in {pcint, FALSE} /\ state' \in {state, G!Mask(pressed)}
  BY DEF GamepadStep, G!PCINT2_vect, G!SerialIn, G!USART_RX_vect
<1> QED
  BY <1>1, FrameKey, MaskType DEF KeyInv, KeyType, padVars, usbVars, historyVars

\* send_serial appends a byte with a rank above all others.
LEMMA MainKey ==
  ASSUME KeyInv, GamepadStep(G!Main)
  PROVE  KeyInv'
<1>1. UNCHANGED <<padVars, usbVars, historyVars>>
  BY DEF GamepadStep
<1>2. CASE G!Test \/ G!Load \/ G!EndDelay
  <2>1. /\ UNCHANGED <<txd, nsent, edges, pcint>>
        /\ state' \in {state, 0} /\ msg' \in {msg, state + 32}
        /\ gpc' \in {"test", "load", "send"}
    BY <1>2 DEF G!Test, G!Load, G!EndDelay
  <2>2. state' \in 0..31 /\ msg' \in 0..63
    BY <2>1 DEF KeyInv, KeyType
  <2> QED
    BY <1>1, <2>1, <2>2, FrameKey DEF KeyInv, KeyType, padVars, usbVars, historyVars
<1>3. CASE G!send_serial
  <2> DEFINE b == [code |-> msg, id |-> nsent + 1]
  <2>1. /\ txd' = Append(txd, b) /\ nsent' = nsent + 1 /\ gpc' = "delay"
        /\ UNCHANGED <<pcint, state, msg, edges>>
    BY <1>3 DEF G!send_serial
  <2>2. b \in Byte /\ b.id = nsent + 1
    BY DEF KeyInv, KeyType, Byte
  <2> HIDE DEF b
  <2>3. /\ Len(txd') = Len(txd) + 1 /\ txd'[Len(txd) + 1] = b /\ txd' \in Seq(Byte)
        /\ \A i \in 1..Len(txd) : txd'[i] = txd[i]
    BY <2>1, <2>2 DEF KeyInv, KeyType
  <2>4. KeyType'
    BY <1>1, <2>1, <2>3 DEF KeyInv, KeyType, padVars, usbVars, historyVars
  <2>5. Loop'
    BY <1>1 DEF KeyInv, Loop, padVars, usbVars
  <2>6. Order'
    <3>1. /\ UNCHANGED <<in_bank, data_send, state_send, ppc, got>>
          /\ HasPending' = HasPending
      BY <1>1 DEF padVars, usbVars, historyVars, HasPending
    <3> HIDE DEF HasPending
    <3>2. \A i \in 1..Len(in_bank) : got.id < in_bank[i].id /\ in_bank[i].id <= nsent + 1
      BY Ranks DEF KeyInv, Order
    <3>3. HasPending =>
            /\ got.id < data_send.id /\ data_send.id <= nsent + 1
            /\ \A i \in 1..Len(in_bank) : in_bank[i].id < data_send.id
      BY Ranks DEF KeyInv, Order
    <3>4. got.id <= nsent
      BY DEF KeyInv, Got
    <3>5. ASSUME NEW j \in 1..Len(txd')
          PROVE  /\ got.id < txd'[j].id /\ txd'[j].id <= nsent + 1
                 /\ \A i \in 1..Len(in_bank) : in_bank[i].id < txd'[j].id
                 /\ HasPending => data_send.id < txd'[j].id
      <4>1. CASE j \in 1..Len(txd)
        BY <4>1, <2>3, Ranks DEF KeyInv, Order
      <4>2. CASE j = Len(txd) + 1
        BY <4>2, <2>2, <2>3, <3>4, Ranks DEF KeyInv, Order
      <4> QED
        BY <4>1, <4>2, <2>3, Ranks
    <3>6. ASSUME NEW i \in 1..Len(txd'), NEW j \in 1..Len(txd'), i < j
          PROVE  txd'[i].id < txd'[j].id
      <4>1. i \in 1..Len(txd)
        BY <3>6, <2>3, Ranks
      <4>2. CASE j \in 1..Len(txd)
        BY <4>1, <4>2, <3>6, <2>3 DEF KeyInv, Order
      <4>3. CASE j = Len(txd) + 1
        BY <4>1, <4>3, <2>2, <2>3, Ranks DEF KeyInv, Order
      <4> QED
        BY <4>2, <4>3, <2>3, Ranks
    <3> QED
      BY <2>1, <3>1, <3>2, <3>3, <3>5, <3>6 DEF Order
  <2>7. Got'
    BY <1>1, <2>1, Ranks DEF KeyInv, Got, historyVars
  <2> QED
    BY <2>4, <2>5, <2>6, <2>7 DEF KeyInv
<1> QED
  BY <1>2, <1>3 DEF GamepadStep, G!Main

-----------------------------------------------------------------------------
(* The USB side.                                                           *)

\* The receive interrupt overwrites data_send, whatever the loop is doing.
LEMMA ReceiveKey ==
  ASSUME KeyInv, PadStep(P!USART1_RX_vect)
  PROVE  KeyInv'
<1>1. /\ txd # <<>> /\ data_send' = Head(txd) /\ state_send' = 1 /\ txd' = Tail(txd)
      /\ UNCHANGED <<ppc, in_bank, gamepadVars, historyVars>>
  BY DEF PadStep, P!USART1_RX_vect
<1>2. /\ Len(txd) >= 1 /\ Head(txd) = txd[1] /\ Head(txd) \in Byte
      /\ Tail(txd) \in Seq(Byte) /\ Len(Tail(txd)) = Len(txd) - 1
      /\ \A j \in 1..Len(Tail(txd)) : Tail(txd)[j] = txd[j + 1]
  BY <1>1 DEF KeyInv, KeyType
<1>3. UNCHANGED <<state, msg, nsent, edges, pcint, gpc, got>>
  BY <1>1 DEF gamepadVars, historyVars
<1>4. KeyType'
  BY <1>1, <1>2, <1>3 DEF KeyInv, KeyType
<1>5. Loop' /\ Got'
  BY <1>1, <1>3 DEF KeyInv, Loop, Got
<1>6. Order'
  <2>1. 1 \in 1..Len(txd)
    BY <1>2, Ranks
  <2>2. ASSUME NEW j \in 1..Len(txd')
        PROVE  /\ j + 1 \in 1..Len(txd) /\ txd'[j] = txd[j + 1]
    BY <1>1, <1>2, Ranks
  <2>3. /\ got.id < data_send'.id /\ data_send'.id <= nsent
        /\ \A i \in 1..Len(in_bank) : in_bank[i].id < data_send'.id
    BY <1>1, <1>2, <2>1 DEF KeyInv, Order
  <2>4. ASSUME NEW j \in 1..Len(txd')
        PROVE  /\ got.id < txd'[j].id /\ txd'[j].id <= nsent
               /\ \A i \in 1..Len(in_bank) : in_bank[i].id < txd'[j].id
               /\ data_send'.id < txd'[j].id
    <3>1. 1 < j + 1
      BY <1>1, <1>2, Ranks
    <3> QED
      BY <1>1, <1>2, <2>1, <2>2, <3>1 DEF KeyInv, Order
  <2>5. ASSUME NEW i \in 1..Len(txd'), NEW j \in 1..Len(txd'), i < j
        PROVE  txd'[i].id < txd'[j].id
    <3>1. i + 1 < j + 1
      BY <2>5
    <3> QED
      BY <2>2, <3>1 DEF KeyInv, Order
  <2>6. \A i \in 1..Len(in_bank) : got.id < in_bank[i].id /\ in_bank[i].id <= nsent
    BY DEF KeyInv, Order
  <2> QED
    BY <1>1, <1>3, <2>3, <2>4, <2>5, <2>6 DEF Order
<1> QED
  BY <1>4, <1>5, <1>6 DEF KeyInv

\* WriteReport: the pending byte becomes the byte of the free bank.
LEMMA WriteKey ==
  ASSUME KeyInv, PadStep(P!WriteReport)
  PROVE  KeyInv'
<1>1. /\ ppc = "write" /\ in_bank' = <<data_send>> /\ ppc' = "clear"
      /\ UNCHANGED <<data_send, state_send, txd, gamepadVars, historyVars>>
  BY DEF PadStep, P!WriteReport
<1>2. UNCHANGED <<state, msg, nsent, edges, pcint, gpc, got>>
  BY <1>1 DEF gamepadVars, historyVars
<1>3. state_send = 1 /\ HasPending /\ ~HasPending' /\ data_send \in Byte
  BY <1>1 DEF KeyInv, KeyType, Loop, HasPending
<1>4. in_bank' \in Seq(Byte) /\ Len(in_bank') = 1 /\ in_bank'[1] = data_send
  BY <1>1, <1>3
<1>5. KeyType'
  BY <1>1, <1>2, <1>4 DEF KeyInv, KeyType
<1>6. Loop' /\ Got'
  BY <1>1, <1>2, <1>3 DEF KeyInv, Loop, Got
<1>7. Order'
  BY <1>1, <1>2, <1>3, <1>4 DEF KeyInv, Order
<1> QED
  BY <1>5, <1>6, <1>7 DEF KeyInv

\* The other steps of the loop only empty the bank or give the byte up.
LEMMA PadKey ==
  ASSUME KeyInv, PadStep(P!Main)
  PROVE  KeyInv'
<1>1. UNCHANGED <<gamepadVars, historyVars>>
  BY DEF PadStep
<1>2. UNCHANGED <<state, msg, nsent, edges, pcint, gpc, got>>
  BY <1>1 DEF gamepadVars, historyVars
<1>3. ASSUME UNCHANGED <<txd, data_send>>, in_bank' \in {in_bank, <<>>},
             state_send' \in {state_send, 0}, Loop', HasPending' => HasPending
      PROVE  KeyInv'
  <2>1. in_bank' \in Seq(Byte) /\ Len(in_bank') <= 1
    <3>1. CASE in_bank' = in_bank
      BY <3>1 DEF KeyInv, KeyType
    <3>2. CASE in_bank' = <<>>
      BY <3>2
    <3> QED
      BY <1>3, <3>1, <3>2
  <2>2. KeyType'
    BY <1>2, <1>3, <2>1 DEF KeyInv, KeyType
  <2> QED
    BY <1>2, <1>3, <2>2, FrameOrder
<1>4. CASE P!USB_USBTask \/ P!StatusStage \/ P!PAD_Task
  <2>1. /\ UNCHANGED <<txd, data_send, in_bank, state_send>>
        /\ ppc # "clear" /\ ppc' \in {"task", "config", "send", "usbtask"}
    BY <1>4 DEF P!USB_USBTask, P!StatusStage, P!PAD_Task
  <2> QED
    BY <2>1, <1>3 DEF Loop, HasPending
<1>5. CASE P!ConfigurationChanged
  <2>1. /\ UNCHANGED <<txd, data_send, state_send>> /\ in_bank' = <<>>
        /\ ppc = "config" /\ ppc' = "task"
    BY <1>5 DEF P!ConfigurationChanged
  <2> QED
    BY <2>1, <1>3 DEF Loop, HasPending
<1>6. CASE P!SendNextReport
  <2>1. /\ UNCHANGED <<txd, data_send, in_bank, state_send>>
        /\ ppc = "send" /\ ppc' = IF state_send = 1 THEN "rw" ELSE "recv"
    BY <1>6 DEF P!SendNextReport
  <2> QED
    BY <2>1, <1>3 DEF Loop, HasPending
<1>7. CASE P!IsReadWriteAllowed
  <2>1. /\ UNCHANGED <<txd, data_send, in_bank, state_send>>
        /\ ppc = "rw" /\ ppc' = IF in_bank = <<>> THEN "write" ELSE "clear"
    BY <1>7 DEF P!IsReadWriteAllowed
  <2> QED
    BY <2>1, <1>3 DEF KeyInv, Loop, HasPending
<1>8. CASE P!WriteReport
  BY <1>8, WriteKey DEF PadStep
<1>9. CASE P!ClearState
  <2>1. /\ UNCHANGED <<txd, data_send, in_bank>> /\ state_send' = 0
        /\ ppc = "clear" /\ ppc' = "recv"
    BY <1>9 DEF P!ClearState
  <2> QED
    BY <2>1, <1>3 DEF Loop, HasPending
<1>10. CASE P!ReceiveNextReport
  <2>1. /\ UNCHANGED <<txd, data_send, in_bank, state_send>>
        /\ ppc = "recv" /\ ppc' = "usbtask"
    BY <1>10 DEF P!ReceiveNextReport
  <2> QED
    BY <2>1, <1>3 DEF Loop, HasPending
<1> QED
  BY <1>4, <1>5, <1>6, <1>7, <1>8, <1>9, <1>10 DEF PadStep, P!Main

-----------------------------------------------------------------------------
(* The host.                                                               *)

\* key_pressed takes the byte of the IN bank.
LEMMA TakeKey ==
  ASSUME KeyInv, HostStep(key_pressed)
  PROVE  KeyInv'
<1>1. /\ in_bank' = <<>> /\ got' = IF in_bank = <<>> THEN got ELSE Head(in_bank)
      /\ UNCHANGED <<state, msg, nsent, edges, pcint, gpc, txd, data_send, state_send, ppc>>
  BY DEF HostStep, key_pressed, gamepadVars, serialVars, padVars
<1>2. CASE in_bank = <<>>
  <2>1. KeyType' /\ Loop' /\ (HasPending' => HasPending) /\ got' = got
    BY <1>1, <1>2 DEF KeyInv, KeyType, Loop, HasPending
  <2> QED
    BY <1>1, <2>1, FrameOrder
<1>3. CASE in_bank # <<>>
  <2>1. got' = in_bank[1] /\ got' \in Byte /\ 1 \in 1..Len(in_bank)
    BY <1>1, <1>3 DEF KeyInv, KeyType
  <2>2. in_bank' \in Seq(Byte) /\ Len(in_bank') = 0
    BY <1>1
  <2>3. KeyType'
    BY <1>1, <2>1, <2>2 DEF KeyInv, KeyType
  <2>4. Loop'
    BY <1>1 DEF KeyInv, Loop
  <2>5. Got'
    BY <1>1, <2>1 DEF KeyInv, Order, Got
  <2>6. Order'
    BY <1>1, <2>1, <2>2 DEF KeyInv, Order, HasPending
  <2> QED
    BY <2>3, <2>4, <2>5, <2>6 DEF KeyInv
<1> QED
  BY <1>2, <1>3

\* Every other call of the host leaves the key path alone.
LEMMA HostKey ==
  ASSUME KeyInv,
         \/ HostStep(InitUsb) \/ HostStep(Refused) \/ HostStep(Menu2)
         \/ HostStep(usb_send_timeout) \/ HostStep(Host)
  PROVE  KeyInv'
<1>1. ASSUME UNCHANGED <<gamepadVars, serialVars, padVars, in_bank, got>>
      PROVE  KeyInv'
  BY <1>1, FrameKey DEF KeyInv, KeyType, gamepadVars, serialVars, padVars
<1>2. CASE HostStep(InitUsb) \/ HostStep(Refused) \/ HostStep(Menu2)
  BY <1>1, <1>2 DEF HostStep, InitUsb, Refused, Menu2, usbVars
<1>3. CASE HostStep(usb_send_timeout)
  BY <1>1, <1>3 DEF HostStep, usb_send_timeout, usbVars
<1>4. CASE HostStep(InitUsbDone) \/ HostStep(Turn) \/ HostStep(usb_send)
  BY <1>1, <1>4 DEF HostStep, InitUsbDone, Turn, usb_send, usbVars
<1>5. CASE HostStep(Menu) \/ HostStep(Poll) \/ HostStep(Pause)
  <2>1. HostStep(key_pressed)
    BY <1>5 DEF HostStep, Menu, Poll, Pause
  <2> QED
    BY <2>1, TakeKey
<1> QED
  BY <1>2, <1>3, <1>4, <1>5 DEF HostStep, Host

\* KeyInv is inductive.
LEMMA NextKey == KeyInv /\ [Next]_vars => KeyInv'
<1> SUFFICES ASSUME KeyInv, [Next]_vars PROVE KeyInv'
  OBVIOUS
<1>1. CASE User
  BY <1>1, UserKey
<1>2. CASE \/ GamepadStep(G!PCINT2_vect) \/ GamepadStep(G!SerialIn)
           \/ GamepadStep(G!USART_RX_vect)
  BY <1>2, GamepadKey
<1>3. CASE GamepadStep(G!Main)
  BY <1>3, MainKey
<1>4. CASE PadStep(P!USART1_RX_vect)
  BY <1>4, ReceiveKey
<1>5. CASE PadStep(P!Main)
  BY <1>5, PadKey
<1>6. CASE \/ HostStep(InitUsb) \/ HostStep(Refused) \/ HostStep(Menu2)
           \/ HostStep(usb_send_timeout) \/ HostStep(Host)
  BY <1>6, HostKey
<1>7. CASE UNCHANGED vars
  <2>1. UNCHANGED <<gamepadVars, serialVars, padVars, in_bank, got>>
    BY <1>7 DEF vars, usbVars, historyVars
  <2> QED
    BY <2>1, FrameKey DEF KeyInv, KeyType, gamepadVars, serialVars, padVars
<1> QED
  BY <1>1, <1>2, <1>3, <1>4, <1>5, <1>6, <1>7 DEF Next

\* Where the elements of a concatenation come from.
LEMMA Concat ==
  ASSUME NEW T, NEW s \in Seq(T), NEW t \in Seq(T)
  PROVE  /\ s \o t \in Seq(T) /\ Len(s \o t) = Len(s) + Len(t)
         /\ \A i \in 1..Len(s) : (s \o t)[i] = s[i]
         /\ \A j \in 1..Len(t) : (s \o t)[Len(s) + j] = t[j]
OBVIOUS

\* Place by place or along the concatenation, it is the same order.
LEMMA OrderIsInOrder == KeyInv => InOrder
<1> SUFFICES ASSUME KeyInv PROVE InOrder
  OBVIOUS
<1> DEFINE a == Len(in_bank)
           p == Len(Pending)
           n == Len(txd)
<1>1. /\ in_bank \in Seq(Byte) /\ txd \in Seq(Byte) /\ Pending \in Seq(Byte)
      /\ a \in Nat /\ n \in Nat
      /\ p = (IF HasPending THEN 1 ELSE 0)
      /\ HasPending => Pending[1] = data_send
  BY DEF KeyInv, KeyType, Pending, HasPending
<1> HIDE DEF a, p, n
<1> DEFINE q == in_bank \o Pending
<1>2. /\ q \in Seq(Byte) /\ Len(q) = a + p
      /\ \A i \in 1..a : q[i] = in_bank[i]
      /\ HasPending => q[a + 1] = data_send
  <2>1. /\ q \in Seq(Byte) /\ Len(q) = a + p
        /\ \A i \in 1..a : q[i] = in_bank[i]
        /\ \A j \in 1..p : q[a + j] = Pending[j]
    BY <1>1, Concat DEF a, p
  <2> HIDE DEF q
  <2>2. ASSUME HasPending PROVE q[a + 1] = data_send
    <3>1. 1 \in 1..p /\ Pending[1] = data_send
      BY <1>1, <2>2
    <3> QED
      BY <2>1, <3>1
  <2> QED
    BY <2>1, <2>2
<1>3. /\ Pipeline = q \o txd /\ Len(Pipeline) = a + p + n
  BY <1>1, <1>2 DEF Pipeline, n, p
<1> HIDE DEF q
<1>4. /\ \A i \in 1..(a + p) : Pipeline[i] = q[i]
      /\ \A j \in 1..n : Pipeline[a + p + j] = txd[j]
  BY <1>1, <1>2, <1>3 DEF n
<1>5. \A k \in 1..Len(Pipeline) :
        \/ k \in 1..a /\ Pipeline[k] = in_bank[k]
        \/ HasPending /\ k = a + 1 /\ Pipeline[k] = data_send
        \/ k - (a + p) \in 1..n /\ Pipeline[k] = txd[k - (a + p)]
  <2> SUFFICES ASSUME NEW k \in 1..Len(Pipeline)
               PROVE  \/ k \in 1..a /\ Pipeline[k] = in_bank[k]
                      \/ HasPending /\ k = a + 1 /\ Pipeline[k] = data_send
                      \/ k - (a + p) \in 1..n /\ Pipeline[k] = txd[k - (a + p)]
    OBVIOUS
  <2>0. k \in 1..(a + p + n) /\ p \in Nat
    BY <1>1, <1>3
  <2>1. CASE k <= a
    BY <2>0, <2>1, <1>1, <1>2, <1>4
  <2>2. CASE k > a /\ k <= a + p
    <3>1. HasPending /\ k = a + 1 /\ k \in 1..(a + p)
      BY <2>0, <2>2, <1>1
    <3> QED
      BY <3>1, <1>2, <1>4
  <2>3. CASE k > a + p
    <3>1. k - (a + p) \in 1..n /\ a + p + (k - (a + p)) = k
      BY <2>0, <2>3, <1>1
    <3> QED
      BY <3>1, <1>4
  <2> QED
    BY <2>0, <2>1, <2>2, <2>3, <1>1
<1>6. /\ \A i \in 1..a : got.id < in_bank[i].id /\ in_bank[i].id <= nsent
      /\ HasPending =>
           /\ got.id < data_send.id /\ data_send.id <= nsent
           /\ \A i \in 1..a : in_bank[i].id < data_send.id
      /\ \A j \in 1..n :
           /\ got.id < txd[j].id /\ txd[j].id <= nsent
           /\ \A i \in 1..a : in_bank[i].id < txd[j].id
           /\ HasPending => data_send.id < txd[j].id
      /\ \A i, j \in 1..n : i < j => txd[i].id < txd[j].id
      /\ a <= 1
  BY DEF KeyInv, KeyType, Order, a, n
<1>7. \A k \in 1..Len(Pipeline) : got.id < Pipeline[k].id /\ Pipeline[k].id <= nsent
  BY <1>5, <1>6
<1>8. ASSUME NEW i \in 1..Len(Pipeline), NEW j \in 1..Len(Pipeline), i < j
      PROVE  Pipeline[i].id < Pipeline[j].id
  <2>0. /\ i \in 1..(a + p + n) /\ j \in 1..(a + p + n) /\ p \in Nat
        /\ HasPending => p = 1
    BY <1>1, <1>3
  <2>1. CASE i \in 1..a /\ Pipeline[i] = in_bank[i]
    <3>1. ~(j \in 1..a)
      BY <2>0, <2>1, <1>8, <1>6, <1>1
    <3> QED
      BY <3>1, <2>1, <1>5, <1>6
  <2>2. CASE HasPending /\ i = a + 1 /\ Pipeline[i] = data_send
    <3>1. ~(j \in 1..a) /\ j # a + 1
      BY <2>0, <2>2, <1>8, <1>1
    <3> QED
      BY <3>1, <2>2, <1>5, <1>6
  <2>3. CASE i - (a + p) \in 1..n /\ Pipeline[i] = txd[i - (a + p)]
    <3>1. ~(j \in 1..a) /\ ~(HasPending /\ j = a + 1)
      BY <2>0, <2>3, <1>8, <1>1
    <3>2. i - (a + p) < j - (a + p)
      BY <2>0, <1>8, <1>1
    <3> QED
      BY <3>1, <3>2, <2>3, <1>5, <1>6
  <2> QED
    BY <2>1, <2>2, <2>3, <1>5
<1> QED
  BY <1>7, <1>8 DEF InOrder

\* The bytes of the key path reach the game in the order in which the gamepad
\* sent them, each at most once, for any number of edges, although the main
\* loop of pad.c and its receive interrupt share data_send without a lock.
THEOREM KeysInOrder == Spec => []InOrder
BY InitKey, NextKey, OrderIsInOrder, PTL DEF Spec

-----------------------------------------------------------------------------
(* One byte per edge.                                                      *)

\* The bytes the gamepad may still send without a new edge: one for a pending
\* interrupt, one for a snapshot that is not going to be cleared.
Owed1 == IF pcint THEN 1 ELSE 0
Owed2 == IF gpc = "send" \/ (gpc \in {"test", "load"} /\ state # 0) THEN 1 ELSE 0

EdgeInv == nsent + Owed1 + Owed2 <= edges

\* The debt is a number whatever the state.
LEMMA OwedType == Owed1 \in 0..1 /\ Owed2 \in 0..1
BY DEF Owed1, Owed2

\* No debt at the start.
LEMMA InitEdge == Init => EdgeInv
<1> SUFFICES ASSUME Init PROVE EdgeInv
  OBVIOUS
<1>1. nsent = 0 /\ edges = 0 /\ pcint = FALSE /\ gpc = "test" /\ state = 0
  BY DEF Init, G!Init
<1>2. Owed1 = 0 /\ Owed2 = 0
  BY <1>1 DEF Owed1, Owed2
<1> QED
  BY <1>1, <1>2 DEF EdgeInv

\* The gamepad pays one unit of the debt per byte; only an edge adds to it.
LEMMA GamepadEdge ==
  ASSUME KeyInv, EdgeInv,
         \/ G!User \/ G!PCINT2_vect \/ G!Main \/ G!SerialIn \/ G!USART_RX_vect
  PROVE  EdgeInv'
<1>0. /\ nsent \in Nat /\ edges \in Nat /\ state \in 0..31
      /\ (Owed1 = 0 \/ Owed1 = 1) /\ (Owed2 = 0 \/ Owed2 = 1)
  BY OwedType DEF KeyInv, KeyType
<1>p. (Owed1' = 0 \/ Owed1' = 1) /\ (Owed2' = 0 \/ Owed2' = 1)
  BY DEF Owed1, Owed2
<1>1. CASE G!User
  <2>1. edges' = edges + 1 /\ UNCHANGED <<nsent, gpc, state>>
    BY <1>1 DEF G!User, G!Press, G!Release, G!Edge
  <2>2. Owed2' = Owed2
    BY <2>1 DEF Owed2
  <2> QED
    BY <1>0, <1>p, <2>1, <2>2 DEF EdgeInv
<1>2. CASE G!PCINT2_vect
  <2>1. pcint /\ ~pcint' /\ UNCHANGED <<nsent, edges>>
    BY <1>2 DEF G!PCINT2_vect
  <2>2. Owed1 = 1 /\ Owed1' = 0
    BY <2>1 DEF Owed1
  <2> QED
    BY <1>0, <1>p, <2>1, <2>2 DEF EdgeInv
<1>3. CASE G!SerialIn \/ G!USART_RX_vect
  <2>1. UNCHANGED <<nsent, edges, pcint, gpc, state>>
    BY <1>3 DEF G!SerialIn, G!USART_RX_vect
  <2>2. Owed1' = Owed1 /\ Owed2' = Owed2
    BY <2>1 DEF Owed1, Owed2
  <2> QED
    BY <2>1, <2>2 DEF EdgeInv
<1>4. CASE G!Test
  <2>1. UNCHANGED <<nsent, edges, pcint, state>> /\ gpc = "test" /\ gpc' = "load"
    BY <1>4 DEF G!Test
  <2>2. Owed1' = Owed1 /\ Owed2' = Owed2
    BY <2>1 DEF Owed1, Owed2
  <2> QED
    BY <2>1, <2>2 DEF EdgeInv
<1>5. CASE G!Load
  <2>1. /\ UNCHANGED <<nsent, edges, pcint, state>> /\ gpc = "load"
        /\ gpc' = IF state + 32 # 32 THEN "send" ELSE "test"
    BY <1>5 DEF G!Load
  <2>2. Owed1' = Owed1 /\ Owed2' = Owed2
    BY <1>0, <2>1 DEF Owed1, Owed2
  <2> QED
    BY <2>1, <2>2 DEF EdgeInv
<1>6. CASE G!send_serial
  <2>1. /\ UNCHANGED <<edges, pcint>> /\ nsent' = nsent + 1
        /\ gpc = "send" /\ gpc' = "delay"
    BY <1>6 DEF G!send_serial
  <2>2. Owed1' = Owed1 /\ Owed2 = 1 /\ Owed2' = 0
    BY <2>1 DEF Owed1, Owed2
  <2> QED
    BY <1>0, <2>1, <2>2 DEF EdgeInv
<1>7. CASE G!EndDelay
  <2>1. /\ UNCHANGED <<nsent, edges, pcint>> /\ state' = 0
        /\ gpc = "delay" /\ gpc' = "test"
    BY <1>7 DEF G!EndDelay
  <2>2. Owed1' = Owed1 /\ Owed2 = 0 /\ Owed2' = 0
    BY <2>1 DEF Owed1, Owed2
  <2> QED
    BY <2>1, <2>2 DEF EdgeInv
<1> QED
  BY <1>1, <1>2, <1>3, <1>4, <1>5, <1>6, <1>7 DEF G!Main

\* EdgeInv is inductive relative to KeyInv.
LEMMA NextEdge == KeyInv /\ EdgeInv /\ [Next]_vars => EdgeInv'
<1> SUFFICES ASSUME KeyInv, EdgeInv, [Next]_vars PROVE EdgeInv'
  OBVIOUS
<1>1. \/ G!User \/ G!PCINT2_vect \/ G!Main \/ G!SerialIn \/ G!USART_RX_vect
      \/ UNCHANGED gamepadVars
  BY DEF Next, User, GamepadStep, PadStep, HostStep, vars
<1>2. CASE UNCHANGED gamepadVars
  BY <1>2 DEF gamepadVars, EdgeInv, Owed1, Owed2
<1> QED
  BY <1>1, <1>2, GamepadEdge

\* The debt is not negative.
LEMMA EdgeBound == KeyInv /\ EdgeInv => OneSendPerEdge
<1> SUFFICES ASSUME KeyInv, EdgeInv PROVE OneSendPerEdge
  OBVIOUS
<1>1. nsent \in Nat /\ edges \in Nat
  BY DEF KeyInv, KeyType
<1> QED
  BY <1>1, OwedType DEF EdgeInv, OneSendPerEdge

\* The gamepad never sends more bytes than its buttons had edges, however the
\* pin-change interrupt falls between the reads of `state' in arduino.c's loop.
THEOREM OneBytePerEdge == Spec => []OneSendPerEdge
BY InitKey, NextKey, InitEdge, NextEdge, EdgeBound, PTL DEF Spec
==============================================================================
