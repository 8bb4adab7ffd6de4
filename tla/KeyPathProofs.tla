---------------------------- MODULE KeyPathProofs ----------------------------
(***************************************************************************)
(* Theorems about the whole machine of module Joystick: its types, the     *)
(* start flag of the game, and the key path as an implementation of the    *)
(* channel of module KeyChannel.  For any buttons, any number of edges and *)
(* of timeouts.                                                            *)
(***************************************************************************)
EXTENDS JoystickProofs

-----------------------------------------------------------------------------
(* Types.  KeyInv has those of the key path; these are the others.         *)

Bytes == 0..255

\* The serial line to the gamepad, its receiver and the LED.
LineType ==
  /\ line \in Seq(Bytes) /\ rxd \in Seq(Bytes)
  /\ slots \in Bytes \X Bytes /\ led \in BOOLEAN

UsbType ==
  /\ ppc \in {"usbtask", "config", "task", "send", "rw", "write", "clear", "recv"}
  /\ configured \in BOOLEAN /\ setup \in BOOLEAN
  /\ out_bank \in Seq(Bytes) /\ Len(out_bank) <= 1

\* The pause menu has two lines.
ShellTypes == S!TypeOK /\ (pc = "pause" => highlight \in 0..1)

RestType ==
  /\ LineType /\ UsbType /\ ShellTypes
  /\ pressed \subseteq Buttons /\ timeouts \in Nat /\ joyFresh \in BOOLEAN

\* The two sets of invariants have every type of TypeOK.
LEMMA AllTypes == KeyInv /\ RestType => TypeOK
<1> SUFFICES ASSUME KeyInv, RestType PROVE TypeOK
  OBVIOUS
<1>1. G!TypeOK
  BY DEF KeyInv, KeyType, RestType, LineType, G!TypeOK, G!Byte, Byte, Bytes
<1>2. P!TypeOK
  BY DEF KeyInv, KeyType, RestType, LineType, UsbType, P!TypeOK, P!Byte, Byte, Bytes
<1> QED
  BY <1>1, <1>2 DEF KeyInv, KeyType, RestType, ShellTypes, TypeOK, P!Byte, Byte

\* The initial state has its types.
LEMMA InitRest == Init => RestType
<1> SUFFICES ASSUME Init PROVE RestType
  OBVIOUS
<1>0. 0 \in Bytes /\ <<>> \in Seq(Bytes)
  BY DEF Bytes
<1>1. LineType
  <2>1. line = <<>> /\ rxd = <<>> /\ slots = <<0, 0>> /\ led = FALSE
    BY DEF Init, G!Init
  <2> QED
    BY <1>0, <2>1 DEF LineType
<1>2. UsbType
  <2>1. /\ ppc = "usbtask" /\ configured = FALSE /\ setup = TRUE /\ out_bank = <<>>
        /\ Len(<<>>) <= 1
    BY DEF Init, P!Init
  <2> QED
    BY <1>0, <2>1 DEF UsbType
<1>3. ShellTypes
  BY ShellAssumption DEF Init, S!Init, ShellTypes, S!TypeOK, S!nb_player
<1> QED
  BY <1>1, <1>2, <1>3 DEF Init, G!Init, RestType

\* The receiver of the gamepad keeps its types.
LEMMA ReceiverType ==
  ASSUME LineType, G!SerialIn \/ G!USART_RX_vect
  PROVE  LineType'
<1>1. CASE G!SerialIn
  <2>1. line # <<>> /\ line' = Tail(line) /\ rxd' = Append(rxd, Head(line))
        /\ slots' = <<slots[2], Head(line)>> /\ led' = led
    BY <1>1 DEF G!SerialIn
  <2>2. Head(line) \in Bytes /\ Tail(line) \in Seq(Bytes) /\ slots[2] \in Bytes
    BY <2>1 DEF LineType
  <2> QED
    BY <2>1, <2>2 DEF LineType
<1>2. CASE G!USART_RX_vect
  <2>1. /\ rxd' \in {<<>>, Tail(rxd), Tail(Tail(rxd))} /\ rxd # <<>>
        /\ rxd' = Tail(Tail(rxd)) => Tail(rxd) # <<>> \/ rxd' = <<>>
        /\ led' \in BOOLEAN /\ UNCHANGED <<line, slots>>
    BY <1>2 DEF G!USART_RX_vect, G!Popped
  <2>2. rxd' \in Seq(Bytes)
    <3>1. Tail(rxd) \in Seq(Bytes)
      BY <2>1 DEF LineType
    <3>2. Tail(rxd) # <<>> => Tail(Tail(rxd)) \in Seq(Bytes)
      BY <3>1
    <3>3. <<>> \in Seq(Bytes)
      OBVIOUS
    <3> QED
      BY <2>1, <3>1, <3>2, <3>3
  <2> QED
    BY <2>1, <2>2 DEF LineType
<1> QED
  BY <1>1, <1>2

\* The loop of the USB side keeps its types.
LEMMA LoopType ==
  ASSUME LineType, UsbType, P!Main, UNCHANGED <<rxd, slots, led>>
  PROVE  LineType' /\ UsbType'
<1>1. CASE P!ReceiveNextReport
  <2>1. /\ ppc' = "usbtask" /\ UNCHANGED <<configured, setup>>
        /\ \/ UNCHANGED <<line, out_bank>>
           \/ out_bank # <<>> /\ line' = Append(line, Head(out_bank)) /\ out_bank' = <<>>
    BY <1>1 DEF P!ReceiveNextReport
  <2>2. CASE UNCHANGED <<line, out_bank>>
    BY <2>1, <2>2 DEF LineType, UsbType
  <2>3. CASE out_bank # <<>> /\ line' = Append(line, Head(out_bank)) /\ out_bank' = <<>>
    <3>1. Head(out_bank) \in Bytes
      BY <2>3 DEF UsbType
    <3>2. line' \in Seq(Bytes) /\ out_bank' \in Seq(Bytes) /\ Len(out_bank') <= 1
      BY <2>3, <3>1 DEF LineType
    <3> QED
      BY <2>1, <3>2 DEF LineType, UsbType
  <2> QED
    BY <2>1, <2>2, <2>3
<1>2. CASE ~P!ReceiveNextReport
  <2>1. /\ line' = line /\ out_bank' \in {out_bank, <<>>}
        /\ configured' \in {configured, TRUE} /\ setup' \in {setup, FALSE}
        /\ ppc' \in {"usbtask", "config", "task", "send", "rw", "write", "clear", "recv"}
    BY <1>2 DEF P!Main, P!USB_USBTask, P!StatusStage, P!ConfigurationChanged, P!PAD_Task,
                P!SendNextReport, P!IsReadWriteAllowed, P!WriteReport, P!ClearState
  <2>2. out_bank' \in Seq(Bytes) /\ Len(out_bank') <= 1
    <3>1. CASE out_bank' = out_bank
      BY <3>1 DEF UsbType
    <3>2. CASE out_bank' = <<>>
      BY <3>2
    <3> QED
      BY <2>1, <3>1, <3>2
  <2> QED
    BY <2>1, <2>2 DEF LineType, UsbType
<1> QED
  BY <1>1, <1>2

Commands == {q \in Seq({48, 49}) : Len(q) <= 2}

\* What the program can do, whatever the key.
Program ==
  \/ S!Refused \/ S!init_usb \/ S!init_usb_done \/ S!menu2_disp \/ S!Killed \/ S!usb_send
  \/ \E k : S!menu_disp(k) \/ S!quit_disp(k) \/ \E k2 \in Keyboard : S!Poll(k, k2)
  \/ \E out \in 0..S!nb_player : S!Turn(out)

\* The program keeps its types.
LEMMA ProgramType ==
  ASSUME ShellTypes, Program
  PROVE  ShellTypes'
<1>0. tosend \in Commands /\ <<48, 48>> \in Commands /\ <<49, 49>> \in Commands
  BY DEF ShellTypes, S!TypeOK, Commands
<1>1. CASE S!Refused \/ S!init_usb \/ S!init_usb_done \/ S!menu2_disp \/ S!Killed
  BY <1>1 DEF ShellTypes, S!TypeOK, S!Refused, S!init_usb, S!init_usb_done, S!menu2_disp, S!Killed
<1>2. CASE S!usb_send
  BY <1>2 DEF ShellTypes, S!TypeOK, S!usb_send
<1>3. ASSUME NEW k, S!menu_disp(k) PROVE ShellTypes'
  <2>1. highlight \in 0..3 /\ S!Rate[highlight] \in {0, 120, 80, 50, 5}
    BY DEF ShellTypes, S!TypeOK, S!Rate
  <2>2. S!Highlight(k, 4) \in 0..3
    BY <2>1 DEF S!Highlight
  <2> QED
    BY <1>3, <2>1, <2>2 DEF ShellTypes, S!TypeOK, S!menu_disp
<1>4. ASSUME NEW k, S!quit_disp(k) PROVE ShellTypes'
  <2>1. highlight \in 0..1
    BY <1>4 DEF ShellTypes, S!quit_disp
  <2>2. S!Highlight(k, 2) \in 0..1
    BY <2>1 DEF S!Highlight
  <2>3. highlight' \in 0..1 /\ pc' \in {"turn", "halt", "pause"}
    BY <1>4, <2>1, <2>2 DEF S!quit_disp
  <2>4. tosend' \in {tosend, <<48, 48>>} /\ UNCHANGED <<spawning_rate, start, ch2, loose>>
    BY <1>4 DEF S!quit_disp
  <2>5. tosend' \in Commands
    BY <1>0, <2>4
  <2> QED
    BY <2>3, <2>4, <2>5 DEF ShellTypes, S!TypeOK, Commands
<1>5. ASSUME NEW k, NEW k2 \in Keyboard, S!Poll(k, k2) PROVE ShellTypes'
  <2>1. ch2' \in Keyboard \cup Garbage
    BY <1>5 DEF ShellTypes, S!TypeOK, S!Poll
  <2>2. /\ highlight' \in 0..3 /\ pc' \in {"turn", "pause"}
        /\ pc' = "pause" => highlight' \in 0..1
    BY <1>5 DEF ShellTypes, S!TypeOK, S!Poll
  <2>3. tosend' \in {tosend, <<49, 49>>} /\ start' = FALSE /\ UNCHANGED <<spawning_rate, loose>>
    BY <1>5 DEF S!Poll
  <2>4. tosend' \in Commands
    BY <1>0, <2>3
  <2> QED
    BY <2>1, <2>2, <2>3, <2>4 DEF ShellTypes, S!TypeOK, Commands
<1>6. ASSUME NEW out \in 0..S!nb_player, S!Turn(out) PROVE ShellTypes'
  <2>1. tosend' \in {tosend, <<48, 48>>} /\ loose' = out /\ pc' \in {"poll", "halt"}
        /\ UNCHANGED <<highlight, spawning_rate, start, ch2>>
    BY <1>6 DEF S!Turn
  <2>2. tosend' \in Commands
    BY <1>0, <2>1
  <2> QED
    BY <2>1, <2>2 DEF ShellTypes, S!TypeOK, Commands
<1> QED
  BY <1>1, <1>2, <1>3, <1>4, <1>5, <1>6 DEF Program

\* Every step of the machine, and of the LED path alone, keeps the types.
LEMMA NextRest == RestType /\ [Next \/ LedNext]_vars => RestType'
<1> SUFFICES ASSUME RestType, [Next \/ LedNext]_vars PROVE RestType'
  OBVIOUS
<1>1. ASSUME UNCHANGED <<line, rxd, slots, led, ppc, configured, setup, out_bank>>
      PROVE  LineType' /\ UsbType'
  BY <1>1 DEF RestType, LineType, UsbType
<1>2. ASSUME UNCHANGED shellVars PROVE ShellTypes'
  BY <1>2 DEF RestType, ShellTypes, S!TypeOK, shellVars
<1>3. ASSUME UNCHANGED <<pressed, timeouts, joyFresh>>, LineType', UsbType', ShellTypes'
      PROVE  RestType'
  BY <1>3 DEF RestType
<1>4. CASE User
  <2>1. /\ UNCHANGED <<line, rxd, slots, led, ppc, configured, setup, out_bank, shellVars, timeouts>>
        /\ joyFresh' \in BOOLEAN /\ pressed' \subseteq Buttons
    BY <1>4 DEF User, G!User, G!Press, G!Release, G!Edge, padVars, usbVars, RestType
  <2> QED
    BY <1>1, <1>2, <2>1 DEF RestType
<1>5. CASE GamepadStep(G!PCINT2_vect) \/ GamepadStep(G!Main)
  <2>1. UNCHANGED <<line, rxd, slots, led, ppc, configured, setup, out_bank, shellVars, pressed,
                    timeouts, joyFresh>>
    BY <1>5 DEF GamepadStep, G!PCINT2_vect, G!Main, G!Test, G!Load, G!send_serial, G!EndDelay,
                padVars, usbVars, historyVars
  <2> QED
    BY <1>1, <1>2, <1>3, <2>1
<1>6. CASE GamepadStep(G!SerialIn) \/ GamepadStep(G!USART_RX_vect)
  <2>1. /\ G!SerialIn \/ G!USART_RX_vect
        /\ UNCHANGED <<ppc, configured, setup, out_bank, shellVars, pressed, timeouts, joyFresh>>
    BY <1>6 DEF GamepadStep, G!SerialIn, G!USART_RX_vect, padVars, usbVars, historyVars
  <2>2. LineType'
    BY <2>1, ReceiverType DEF RestType
  <2>3. UsbType'
    BY <2>1 DEF RestType, UsbType
  <2> QED
    BY <1>2, <1>3, <2>1, <2>2, <2>3
<1>7. CASE PadStep(P!USART1_RX_vect)
  <2>1. UNCHANGED <<line, rxd, slots, led, ppc, configured, setup, out_bank, shellVars, pressed,
                    timeouts, joyFresh>>
    BY <1>7 DEF PadStep, P!USART1_RX_vect, gamepadVars, historyVars
  <2> QED
    BY <1>1, <1>2, <1>3, <2>1
<1>8. CASE PadStep(P!Main)
  <2>1. P!Main /\ UNCHANGED <<rxd, slots, led, shellVars, pressed, timeouts, joyFresh>>
    BY <1>8 DEF PadStep, gamepadVars, historyVars
  <2>2. LineType' /\ UsbType'
    BY <2>1, LoopType DEF RestType
  <2> QED
    BY <1>2, <1>3, <2>1, <2>2
<1>9. ASSUME NEW A, HostStep(A), UNCHANGED out_bank, setup' \in {setup, TRUE},
              timeouts' \in Nat, joyFresh' \in BOOLEAN, Program
       PROVE  RestType'
  <2>1. UNCHANGED <<line, rxd, slots, led, ppc, configured, pressed>>
    BY <1>9 DEF HostStep, gamepadVars, serialVars, padVars
  <2>2. ShellTypes'
    BY <1>9, ProgramType DEF RestType
  <2>3. LineType' /\ UsbType'
    BY <1>9, <2>1 DEF RestType, LineType, UsbType
  <2> QED
    BY <1>9, <2>1, <2>2, <2>3 DEF RestType
<1>10. CASE HostStep(InitUsb) \/ HostStep(Refused) \/ HostStep(InitUsbDone) \/ HostStep(Turn)
  <2>1. /\ Program /\ UNCHANGED <<out_bank, timeouts, joyFresh>> /\ setup' \in {setup, TRUE}
    BY <1>10 DEF HostStep, InitUsb, Refused, InitUsbDone, Turn, usbVars, Program
  <2> QED
    BY <1>9, <1>10, <2>1 DEF RestType
<1>11. CASE HostStep(Menu2)
  <2>1. Program /\ UNCHANGED <<setup, out_bank, timeouts>> /\ joyFresh' \in BOOLEAN
    BY <1>11 DEF HostStep, Menu2, usbVars, Program
  <2> QED
    BY <1>9, <1>11, <2>1 DEF RestType
<1>12. CASE HostStep(usb_send_timeout)
  <2>1. Program /\ UNCHANGED <<setup, out_bank, joyFresh>> /\ timeouts' = timeouts + 1
    BY <1>12 DEF HostStep, usb_send_timeout, usbVars, Program
  <2> QED
    BY <1>9, <1>12, <2>1 DEF RestType
<1>13. CASE HostStep(Menu) \/ HostStep(Poll) \/ HostStep(Pause)
  <2>1. Program /\ UNCHANGED <<setup, out_bank, timeouts, joyFresh>>
    BY <1>13 DEF HostStep, Menu, Poll, Pause, key_pressed, Program
  <2> QED
    BY <1>9, <1>13, <2>1 DEF RestType
<1>14. CASE HostStep(usb_send)
  <2>1. /\ tosend # <<>> /\ out_bank' = <<Head(tosend)>> /\ Program
        /\ UNCHANGED <<line, rxd, slots, led, ppc, configured, setup, pressed, timeouts, joyFresh>>
    BY <1>14 DEF HostStep, usb_send, S!usb_send, Program, gamepadVars, serialVars, padVars
  <2>2. ShellTypes'
    BY <2>1, ProgramType DEF RestType
  <2>3. Head(tosend) \in Bytes
    <3>1. Head(tosend) \in {48, 49}
      BY <2>1 DEF RestType, ShellTypes, S!TypeOK
    <3> QED
      BY <3>1 DEF Bytes
  <2>4. out_bank' \in Seq(Bytes) /\ Len(out_bank') <= 1
    BY <2>1, <2>3
  <2> QED
    BY <2>1, <2>2, <2>4 DEF RestType, LineType, UsbType
<1>15. CASE HostStep(LedProgram)
  <2>1. Program /\ UNCHANGED <<setup, out_bank, joyFresh>> /\ timeouts' \in {timeouts, 0}
    BY <1>15 DEF HostStep, LedProgram, usbVars, Program
  <2> QED
    BY <1>9, <1>15, <2>1 DEF RestType
<1>16. CASE UNCHANGED vars
  <2>1. UNCHANGED <<line, rxd, slots, led, ppc, configured, setup, out_bank, shellVars, pressed,
                    timeouts, joyFresh>>
    BY <1>16 DEF vars, gamepadVars, serialVars, padVars, usbVars, historyVars
  <2> QED
    BY <1>1, <1>2, <1>3, <2>1
<1>17. CASE HostStep(Host)
  BY <1>10, <1>13, <1>14, <1>17 DEF Host, HostStep
<1>18. CASE HostStep(LedHost)
  BY <1>10, <1>11, <1>12, <1>14, <1>15, <1>18 DEF LedHost, HostStep
<1> QED
  BY <1>4, <1>5, <1>6, <1>7, <1>8, <1>10, <1>11, <1>12, <1>16, <1>17, <1>18 DEF Next, LedNext

\* The machine keeps its types: the banks hold at most one byte, `state' fits in
\* five bits and data_send in six, and every menu highlights a line it has.
THEOREM MachineTypes == Spec => []TypeOK
<1>1. RestType /\ [Next]_vars => RestType'
  BY NextRest
<1> QED
  BY <1>1, InitKey, NextKey, InitRest, AllTypes, PTL DEF Spec

-----------------------------------------------------------------------------
(* The start flag.  A press of the joystick is followed from the button to   *)
(* the game: unless a fresh one is under way, no place on the key path holds *)
(* the joystick's code alone, the IN bank excepted while the flag is set.    *)

FCT == S!USBKEY_FCT

NoJoy ==
  /\ "joy" \notin pressed /\ state # 1
  /\ gpc = "send" => msg # FCT
  /\ \A j \in 1..Len(txd) : txd[j].code # FCT
  /\ state_send = 1 => data_send.code # FCT
  /\ ~start => \A i \in 1..Len(in_bank) : in_bank[i].code # FCT

FreshInv ==
  /\ ch2 \in Garbage
  /\ pc \in {"init", "exit", "wait", "menu", "menu2"} => start /\ joyFresh
  /\ StartFlag
  /\ ~joyFresh => NoJoy

\* Without the joystick a snapshot of the pins is not the joystick's.
LEMMA MaskNoJoy == \A T : "joy" \notin T => G!Mask(T) # 1
BY DEF G!Mask, G!Bit

\* The press made before the start is the only one to begin with.
LEMMA InitFresh == Init => FreshInv
BY DEF Init, S!Init, FreshInv, StartFlag

\* The gamepad passes on only presses it was given.
LEMMA GamepadFresh ==
  ASSUME KeyInv, FreshInv,
         \/ User \/ GamepadStep(G!PCINT2_vect) \/ GamepadStep(G!Main)
         \/ GamepadStep(G!SerialIn) \/ GamepadStep(G!USART_RX_vect)
  PROVE  FreshInv'
<1>1. UNCHANGED <<pc, start, ch2, in_bank, data_send, state_send>>
  BY DEF User, GamepadStep, padVars, usbVars, shellVars
<1>2. joyFresh => joyFresh'
  BY DEF User, GamepadStep, historyVars
<1>3. ASSUME ~joyFresh' PROVE NoJoy'
  <2>1. ~joyFresh /\ NoJoy
    BY <1>2, <1>3 DEF FreshInv
  <2>2. CASE User
    <3>1. "joy" \notin pressed' /\ UNCHANGED <<state, gpc, msg, txd>>
      BY <1>3, <2>1, <2>2 DEF User, G!User, G!Press, G!Release, G!Edge, NoJoy
    <3> QED
      BY <1>1, <2>1, <3>1 DEF NoJoy
  <2>3. CASE GamepadStep(G!PCINT2_vect)
    <3>1. state' = G!Mask(pressed) /\ UNCHANGED <<pressed, gpc, msg, txd>>
      BY <2>3 DEF GamepadStep, G!PCINT2_vect
    <3>2. state' # 1
      BY <2>1, <3>1, MaskNoJoy DEF NoJoy
    <3> QED
      BY <1>1, <2>1, <3>1, <3>2 DEF NoJoy
  <2>4. CASE GamepadStep(G!SerialIn) \/ GamepadStep(G!USART_RX_vect)
    <3>1. UNCHANGED <<pressed, state, gpc, msg, txd>>
      BY <2>4 DEF GamepadStep, G!SerialIn, G!USART_RX_vect
    <3> QED
      BY <1>1, <2>1, <3>1 DEF NoJoy
  <2>5. CASE G!Test \/ G!EndDelay
    <3>1. UNCHANGED <<pressed, msg, txd>> /\ state' \in {state, 0} /\ gpc' \in {"load", "test"}
      BY <2>5 DEF G!Test, G!EndDelay
    <3> QED
      BY <1>1, <2>1, <3>1 DEF NoJoy
  <2>6. CASE G!Load
    <3>1. UNCHANGED <<pressed, state, txd>> /\ msg' = state + 32
      BY <2>6 DEF G!Load
    <3>2. msg' # FCT
      BY <2>1, <3>1 DEF NoJoy, FCT, S!USBKEY_FCT, KeyInv, KeyType
    <3> QED
      BY <1>1, <2>1, <3>1, <3>2 DEF NoJoy
  <2>7. CASE G!send_serial
    <3> DEFINE b == [code |-> msg, id |-> nsent + 1]
    <3>1. /\ gpc = "send" /\ txd' = Append(txd, b) /\ gpc' = "delay"
          /\ UNCHANGED <<pressed, state, msg>>
      BY <2>7 DEF G!send_serial
    <3>2. b \in Byte /\ b.code = msg /\ msg # FCT
      BY <2>1, <3>1 DEF NoJoy, KeyInv, KeyType, Byte
    <3> HIDE DEF b
    <3>3. \A j \in 1..Len(txd') : txd'[j].code # FCT
      <4>1. /\ Len(txd') = Len(txd) + 1 /\ txd'[Len(txd) + 1] = b /\ Len(txd) \in Nat
            /\ \A i \in 1..Len(txd) : txd'[i] = txd[i]
        BY <3>1, <3>2 DEF KeyInv, KeyType
      <4> QED
        BY <2>1, <3>2, <4>1 DEF NoJoy
    <3> QED
      BY <1>1, <2>1, <3>1, <3>3 DEF NoJoy
  <2> QED
    BY <2>2, <2>3, <2>4, <2>5, <2>6, <2>7 DEF GamepadStep, G!Main
<1> QED
  BY <1>1, <1>2, <1>3 DEF FreshInv, StartFlag

\* So does the USB side.
LEMMA PadFresh ==
  ASSUME KeyInv, FreshInv, PadStep(P!USART1_RX_vect) \/ PadStep(P!Main)
  PROVE  FreshInv'
<1>1. UNCHANGED <<pc, start, ch2, joyFresh, pressed, state, gpc, msg>>
  BY DEF PadStep, gamepadVars, shellVars, historyVars
<1>2. ASSUME ~joyFresh' PROVE NoJoy'
  <2>1. ~joyFresh /\ NoJoy
    BY <1>1, <1>2 DEF FreshInv
  <2>2. CASE PadStep(P!USART1_RX_vect)
    <3>1. /\ txd # <<>> /\ data_send' = Head(txd) /\ state_send' = 1 /\ txd' = Tail(txd)
          /\ in_bank' = in_bank
      BY <2>2 DEF PadStep, P!USART1_RX_vect
    <3>2. /\ Len(txd) \in Nat /\ Len(txd) >= 1 /\ Head(txd) = txd[1]
          /\ Len(Tail(txd)) = Len(txd) - 1
          /\ \A j \in 1..Len(Tail(txd)) : Tail(txd)[j] = txd[j + 1]
      BY <3>1 DEF KeyInv, KeyType
    <3>3. data_send'.code # FCT
      BY <2>1, <3>1, <3>2 DEF NoJoy
    <3>4. ASSUME NEW j \in 1..Len(txd') PROVE txd'[j].code # FCT
      <4>1. j + 1 \in 1..Len(txd) /\ txd'[j] = txd[j + 1]
        BY <3>1, <3>2
      <4> QED
        BY <2>1, <4>1 DEF NoJoy
    <3> QED
      BY <1>1, <2>1, <3>1, <3>3, <3>4 DEF NoJoy
  <2>3. CASE P!WriteReport
    <3>1. ppc = "write" /\ in_bank' = <<data_send>> /\ UNCHANGED <<txd, data_send, state_send>>
      BY <2>3 DEF P!WriteReport
    <3>2. data_send.code # FCT
      BY <2>1, <3>1 DEF NoJoy, KeyInv, Loop
    <3>3. Len(in_bank') = 1 /\ in_bank'[1] = data_send
      BY <3>1
    <3>4. \A i \in 1..Len(in_bank') : in_bank'[i].code # FCT
      BY <3>2, <3>3
    <3> QED
      BY <1>1, <2>1, <3>1, <3>4 DEF NoJoy
  <2>4. CASE P!Main /\ ~P!WriteReport
    <3>1. /\ in_bank' \in {in_bank, <<>>} /\ state_send' \in {state_send, 0}
          /\ UNCHANGED <<txd, data_send>>
      BY <2>4 DEF P!Main, P!USB_USBTask, P!StatusStage, P!ConfigurationChanged, P!PAD_Task,
                  P!SendNextReport, P!IsReadWriteAllowed, P!ClearState, P!ReceiveNextReport
    <3>2. ~start => \A i \in 1..Len(in_bank') : in_bank'[i].code # FCT
      BY <2>1, <3>1 DEF NoJoy
    <3> QED
      BY <1>1, <2>1, <3>1, <3>2 DEF NoJoy
  <2> QED
    BY <2>2, <2>3, <2>4 DEF PadStep
<1> QED
  BY <1>1, <1>2 DEF FreshInv, StartFlag

\* The pause menu opens for the joystick only: one player, and a ch2 that does
\* not happen to be ESC.
LEMMA HostFresh ==
  ASSUME S!nb_player = 1, S!ESC \notin Garbage, KeyInv, FreshInv,
         \/ HostStep(InitUsb) \/ HostStep(Refused) \/ HostStep(Menu2)
         \/ HostStep(usb_send_timeout) \/ HostStep(Host)
  PROVE  FreshInv'
<1>1. UNCHANGED <<pressed, state, gpc, msg, txd, data_send, state_send>>
  BY DEF HostStep, gamepadVars, serialVars, padVars
<1>2. CASE HostStep(InitUsb) \/ HostStep(Refused) \/ HostStep(InitUsbDone)
  <2>1. /\ pc \in {"init", "wait"} /\ pc' \in {"exit", "wait", "menu"}
        /\ UNCHANGED <<start, ch2, in_bank, joyFresh>>
    BY <1>2 DEF HostStep, InitUsb, Refused, InitUsbDone, usbVars,
                S!init_usb, S!Refused, S!init_usb_done
  <2> QED
    BY <1>1, <2>1 DEF FreshInv, StartFlag, NoJoy
<1>3. CASE HostStep(Menu2)
  <2>1. /\ pc = "menu2" /\ pc' = "poll" /\ UNCHANGED <<start, ch2, in_bank>>
        /\ joyFresh' = ~Settled
    BY <1>3 DEF HostStep, Menu2, usbVars, S!menu2_disp
  <2>2. start
    BY <2>1 DEF FreshInv
  <2>3. ASSUME Settled PROVE NoJoy'
    <3>1. pressed = {} /\ state = 0 /\ gpc = "test" /\ txd = <<>> /\ state_send = 0
      BY <2>3 DEF Settled
    <3> QED
      BY <1>1, <2>1, <2>2, <3>1 DEF NoJoy
  <2> QED
    BY <2>1, <2>3 DEF FreshInv, StartFlag
<1>4. CASE HostStep(usb_send_timeout) \/ HostStep(usb_send)
  <2>1. UNCHANGED <<pc, start, ch2, in_bank, joyFresh>>
    BY <1>4 DEF HostStep, usb_send_timeout, usb_send, usbVars, S!usb_send
  <2> QED
    BY <1>1, <2>1 DEF FreshInv, StartFlag, NoJoy
<1>5. CASE HostStep(Menu)
  <2>1. /\ pc = "menu" /\ pc' \in {"menu", "menu2"} /\ UNCHANGED <<start, ch2, joyFresh>>
    BY <1>5 DEF HostStep, Menu, key_pressed, S!menu_disp
  <2> QED
    BY <2>1 DEF FreshInv, StartFlag
<1>6. CASE HostStep(Poll)
  <2>1. /\ pc = "poll" /\ start' = FALSE /\ ch2' = ch2 /\ joyFresh' = joyFresh /\ in_bank' = <<>>
        /\ pc' \in {"turn", "pause"}
        /\ pc' = "pause" => (key = FCT \/ ch2' = S!ESC) /\ ~start
    BY <1>6 DEF HostStep, Poll, key_pressed, S!Poll, FCT
  <2>2. ASSUME pc' = "pause" PROVE joyFresh
    <3>1. key = FCT /\ ~start
      BY <2>1, <2>2 DEF FreshInv
    <3>2. 1 \in 1..Len(in_bank) /\ in_bank[1].code = FCT
      BY <3>1 DEF key, KeyInv, KeyType, FCT, S!USBKEY_FCT
    <3> QED
      BY <3>1, <3>2 DEF FreshInv, NoJoy
  <2>3. ~joyFresh => NoJoy'
    BY <1>1, <2>1 DEF FreshInv, NoJoy
  <2> QED
    BY <2>1, <2>2, <2>3 DEF FreshInv, StartFlag
<1>7. CASE HostStep(Pause)
  <2>1. /\ pc = "pause" /\ pc' \in {"turn", "halt", "pause"} /\ in_bank' = <<>>
        /\ UNCHANGED <<start, ch2, joyFresh>>
    BY <1>7 DEF HostStep, Pause, key_pressed, S!quit_disp
  <2> QED
    BY <2>1 DEF FreshInv, StartFlag
<1>8. CASE HostStep(Turn)
  <2>1. /\ pc = "turn" /\ pc' \in {"poll", "halt", "sigfpe"}
        /\ UNCHANGED <<start, ch2, joyFresh, in_bank>>
    BY <1>8 DEF HostStep, Turn, usbVars, S!Turn, S!Killed
  <2> QED
    BY <1>1, <2>1 DEF FreshInv, StartFlag, NoJoy
<1> QED
  BY <1>2, <1>3, <1>4, <1>5, <1>6, <1>7, <1>8 DEF HostStep, Host

\* FreshInv is inductive relative to KeyInv.
LEMMA NextFresh ==
  ASSUME S!nb_player = 1, S!ESC \notin Garbage
  PROVE  KeyInv /\ FreshInv /\ [Next]_vars => FreshInv'
<1> SUFFICES ASSUME KeyInv, FreshInv, [Next]_vars PROVE FreshInv'
  OBVIOUS
<1>1. CASE UNCHANGED vars
  BY <1>1 DEF vars, gamepadVars, serialVars, padVars, usbVars, shellVars, historyVars,
              FreshInv, StartFlag, NoJoy
<1> QED
  BY <1>1, GamepadFresh, PadFresh, HostFresh DEF Next

\* In a one-player game the joystick press that chose the rate in the start
\* menu, or was made in menu 2, never opens the pause menu: that takes a press
\* made since.  The uninitialised ch2 is assumed not to be ESC; with ESC the
\* pause menu opens by itself (PauseByJoystick).
THEOREM StartFlagWorks ==
  ASSUME S!nb_player = 1, S!ESC \notin Garbage
  PROVE  Spec => []StartFlag
<1>1. KeyInv /\ FreshInv /\ [Next]_vars => FreshInv'
  BY NextFresh
<1>2. FreshInv => StartFlag
  BY DEF FreshInv
<1> QED
  BY <1>1, <1>2, InitKey, NextKey, InitFresh, PTL DEF Spec

-----------------------------------------------------------------------------
(* The refinement.                                                           *)

\* What a send needs: a code that is not 32, and edges within their bound.
SendInv ==
  /\ gpc = "send" => msg \in 33..63
  /\ edges <= MaxEdges

\* Nothing is sent at the start.
LEMMA InitSend == Init => SendInv
BY BoundsAssumption DEF Init, G!Init, SendInv

\* SendInv is inductive relative to KeyInv: Load tests msg again.
LEMMA NextSend == KeyInv /\ SendInv /\ [Next]_vars => SendInv'
<1> SUFFICES ASSUME KeyInv, SendInv, [Next]_vars PROVE SendInv'
  OBVIOUS
<1>1. CASE G!User
  <2>1. edges < MaxEdges /\ edges' = edges + 1 /\ UNCHANGED <<gpc, msg>>
    BY <1>1 DEF G!User, G!Press, G!Release, G!Edge
  <2> QED
    BY <2>1, BoundsAssumption DEF SendInv, KeyInv, KeyType
<1>2. CASE G!Load
  <2>1. edges' = edges /\ msg' = state + 32 /\ (gpc' = "send" => msg' # 32)
    BY <1>2 DEF G!Load
  <2>2. state \in 0..31
    BY DEF KeyInv, KeyType
  <2> QED
    BY <2>1, <2>2 DEF SendInv
<1>3. CASE G!Test \/ G!send_serial \/ G!EndDelay
  <2>1. UNCHANGED edges /\ gpc' # "send"
    BY <1>3 DEF G!Test, G!send_serial, G!EndDelay
  <2> QED
    BY <2>1 DEF SendInv
<1>4. CASE UNCHANGED <<edges, gpc, msg>>
  BY <1>4 DEF SendInv
<1>5. \/ G!User \/ G!Load \/ G!Test \/ G!send_serial \/ G!EndDelay \/ UNCHANGED <<edges, gpc, msg>>
  BY DEF Next, User, GamepadStep, PadStep, HostStep, vars, gamepadVars, G!Main, G!PCINT2_vect,
         G!SerialIn, G!USART_RX_vect
<1> QED
  BY <1>1, <1>2, <1>3, <1>4, <1>5

\* Taking out the byte after the first n.
LEMMA RemoveMiddle ==
  ASSUME NEW T, NEW s \in Seq(T), NEW t \in Seq(T), NEW e \in T
  PROVE  /\ Len(s) + 1 \in DOMAIN (s \o <<e>> \o t)
         /\ KC!RemoveAt(s \o <<e>> \o t, Len(s) + 1) = s \o t
<1> DEFINE q == s \o <<e>> \o t
<1>1. /\ q \in Seq(T) /\ Len(q) = Len(s) + 1 + Len(t)
      /\ \A i \in 1..Len(s) : q[i] = s[i]
      /\ \A j \in 1..Len(t) : q[Len(s) + 1 + j] = t[j]
  OBVIOUS
<1>2. Len(s) \in Nat /\ Len(t) \in Nat /\ DOMAIN q = 1..Len(q)
  BY <1>1
<1> HIDE DEF q
<1>3. SubSeq(q, 1, (Len(s) + 1) - 1) = s
  BY <1>1, <1>2
<1>4. SubSeq(q, (Len(s) + 1) + 1, Len(q)) = t
  BY <1>1, <1>2
<1>5. KC!RemoveAt(q, Len(s) + 1) = s \o t
  BY <1>3, <1>4 DEF KC!RemoveAt
<1>6. Len(s) + 1 \in DOMAIN q
  BY <1>1, <1>2
<1> QED
  BY <1>5, <1>6 DEF q

\* Losing the pending byte, or the first byte of the serial line.
LEMMA LosePending ==
  ASSUME KeyInv, NEW b \in Byte, NEW t \in Seq(Byte), Pipeline = in_bank \o <<b>> \o t,
         Pipeline' = in_bank \o t, UNCHANGED <<nsent, got>>
  PROVE  KC!Lose
<1>1. in_bank \in Seq(Byte)
  BY DEF KeyInv, KeyType
<1>2. /\ Len(in_bank) + 1 \in DOMAIN Pipeline
      /\ KC!RemoveAt(Pipeline, Len(in_bank) + 1) = in_bank \o t
  BY <1>1, RemoveMiddle
<1> QED
  BY <1>2 DEF KC!Lose

\* A bank that is not free holds one byte; and Pending holds bytes.
LEMMA OneByte ==
  ASSUME KeyInv
  PROVE  /\ Pending \in Seq(Byte)
         /\ in_bank # <<>> => /\ in_bank = <<in_bank[1]>> /\ in_bank[1] \in Byte
                              /\ Head(in_bank) = in_bank[1]
<1>1. in_bank \in Seq(Byte) /\ Len(in_bank) <= 1 /\ data_send \in Byte
  BY DEF KeyInv, KeyType
<1>2. Pending \in Seq(Byte)
  BY <1>1 DEF Pending
<1>3. ASSUME in_bank # <<>>
      PROVE  in_bank = <<in_bank[1]>> /\ in_bank[1] \in Byte /\ Head(in_bank) = in_bank[1]
  <2>1. Len(in_bank) = 1
    <3>1. Len(in_bank) \in Nat /\ Len(in_bank) # 0
      BY <1>1, <1>3
    <3>2. \A n \in Nat : n # 0 /\ n <= 1 => n = 1
      OBVIOUS
    <3> QED
      BY <1>1, <3>1, <3>2
  <2> QED
    BY <1>1, <2>1
<1> QED
  BY <1>2, <1>3

\* Steps that leave every place of the key path alone, Pending included.
LEMMA SameQueue ==
  ASSUME UNCHANGED <<in_bank, Pending, txd, nsent, got>>
  PROVE  UNCHANGED KC!kvars
BY DEF Pipeline, KC!kvars

\* The gamepad sends, or leaves the channel alone.
LEMMA GamepadRefines ==
  ASSUME KeyInv, EdgeInv, SendInv,
         \/ User \/ GamepadStep(G!PCINT2_vect) \/ GamepadStep(G!Main)
         \/ GamepadStep(G!SerialIn) \/ GamepadStep(G!USART_RX_vect)
  PROVE  KC!Send \/ UNCHANGED KC!kvars
<1>1. UNCHANGED <<in_bank, data_send, state_send, ppc, got>> /\ Pending' = Pending
  BY DEF User, GamepadStep, padVars, usbVars, historyVars, Pending
<1>2. CASE G!send_serial
  <2> DEFINE b == [code |-> msg, id |-> nsent + 1]
             q == in_bank \o Pending
  <2>1. gpc = "send" /\ txd' = Append(txd, b) /\ nsent' = nsent + 1
    BY <1>2 DEF G!send_serial
  <2>2. msg \in 33..63 /\ b \in Byte
    BY <2>1 DEF SendInv, KeyInv, KeyType, Byte
  <2>3. nsent < MaxEdges
    <3>1. Owed2 = 1 /\ Owed1 \in 0..1
      BY <2>1, OwedType DEF Owed2
    <3> QED
      BY <3>1, BoundsAssumption DEF EdgeInv, SendInv, KeyInv, KeyType
  <2>4. Pipeline' = Append(Pipeline, b)
    <3>1. q \in Seq(Byte) /\ txd \in Seq(Byte)
      BY DEF KeyInv, KeyType, Pending
    <3>2. Pipeline = q \o txd /\ Pipeline' = q \o Append(txd, b)
      BY <1>1, <2>1 DEF Pipeline
    <3> HIDE DEF q, b
    <3>3. q \o Append(txd, b) = Append(q \o txd, b)
      BY <2>2, <3>1
    <3> QED
      BY <3>2, <3>3
  <2> QED
    BY <1>1, <2>1, <2>2, <2>3, <2>4 DEF KC!Send
<1>3. CASE ~G!send_serial
  <2>1. UNCHANGED <<txd, nsent>>
    BY <1>3 DEF User, GamepadStep, G!User, G!Press, G!Release, G!Edge, G!Main, G!Test, G!Load,
                G!EndDelay, G!PCINT2_vect, G!SerialIn, G!USART_RX_vect
  <2> QED
    BY <1>1, <2>1, SameQueue
<1> QED
  BY <1>2, <1>3

\* The receive interrupt loses the byte it overwrites, or the one that comes
\* when the loop has stopped looking; otherwise nothing changes.
LEMMA ReceiveRefines ==
  ASSUME KeyInv, PadStep(P!USART1_RX_vect)
  PROVE  KC!Lose \/ UNCHANGED KC!kvars
<1>1. /\ txd # <<>> /\ data_send' = Head(txd) /\ state_send' = 1 /\ txd' = Tail(txd)
      /\ UNCHANGED <<ppc, in_bank, nsent, got>>
  BY DEF PadStep, P!USART1_RX_vect, gamepadVars, historyVars
<1>2. /\ in_bank \in Seq(Byte) /\ txd \in Seq(Byte) /\ data_send \in Byte
      /\ Head(txd) \in Byte /\ Tail(txd) \in Seq(Byte) /\ txd = <<Head(txd)>> \o Tail(txd)
  BY <1>1 DEF KeyInv, KeyType
<1>3. ASSUME NEW s \in Seq(Byte) PROVE s \o <<Head(txd)>> \o Tail(txd) = s \o txd
  <2>1. ASSUME NEW h \in Byte, NEW t \in Seq(Byte) PROVE (s \o <<h>>) \o t = s \o (<<h>> \o t)
    OBVIOUS
  <2> QED
    BY <1>2, <2>1
<1>4. CASE ppc = "clear"
  <2>1. Pending = <<>> /\ Pending' = <<>>
    BY <1>1, <1>4 DEF Pending
  <2>2. /\ Pipeline = in_bank \o <<Head(txd)>> \o Tail(txd)
        /\ Pipeline' = in_bank \o Tail(txd)
    <3>1. in_bank \o <<>> = in_bank
      BY <1>2
    <3> QED
      BY <1>1, <1>2, <1>3, <2>1, <3>1 DEF Pipeline
  <2> QED
    BY <1>1, <1>2, <2>2, LosePending
<1>5. CASE ppc # "clear" /\ state_send = 1
  <2>1. Pending = <<data_send>> /\ Pending' = <<Head(txd)>>
    BY <1>1, <1>5 DEF Pending
  <2>2. /\ Pipeline = in_bank \o <<data_send>> \o txd
        /\ Pipeline' = in_bank \o txd
    BY <1>1, <1>2, <1>3, <2>1 DEF Pipeline
  <2> QED
    BY <1>1, <1>2, <2>2, LosePending
<1>6. CASE ppc # "clear" /\ state_send # 1
  <2>1. Pending = <<>> /\ Pending' = <<Head(txd)>>
    BY <1>1, <1>6 DEF Pending
  <2>2. in_bank \o <<>> = in_bank
    BY <1>2
  <2>3. Pipeline' = Pipeline
    BY <1>1, <1>2, <1>3, <2>1, <2>2 DEF Pipeline
  <2> QED
    BY <1>1, <2>3 DEF KC!kvars
<1> QED
  BY <1>4, <1>5, <1>6

\* The loop of pad.c loses a byte that finds the bank full, and the bank's byte
\* when the endpoints are configured; its other steps change nothing.
LEMMA PadRefines ==
  ASSUME KeyInv, PadStep(P!Main)
  PROVE  KC!Lose \/ UNCHANGED KC!kvars
<1>1. UNCHANGED <<nsent, got>>
  BY DEF PadStep, gamepadVars, historyVars
<1>2. in_bank \in Seq(Byte) /\ txd \in Seq(Byte) /\ data_send \in Byte /\ Len(in_bank) <= 1
  BY DEF KeyInv, KeyType
<1>3. CASE \/ P!USB_USBTask \/ P!StatusStage \/ P!PAD_Task \/ P!SendNextReport
           \/ P!ClearState \/ P!ReceiveNextReport
  <2>1. UNCHANGED <<in_bank, txd>> /\ Pending' = Pending
    BY <1>3 DEF P!USB_USBTask, P!StatusStage, P!PAD_Task, P!SendNextReport, P!ClearState,
                P!ReceiveNextReport, Pending
  <2> QED
    BY <1>1, <2>1, SameQueue
<1>4. CASE P!ConfigurationChanged
  <2>1. in_bank' = <<>> /\ UNCHANGED txd /\ Pending' = Pending
    BY <1>4 DEF P!ConfigurationChanged, Pending
  <2>2. CASE in_bank = <<>>
    BY <1>1, <2>1, <2>2, SameQueue
  <2>3. CASE in_bank # <<>>
    <3> DEFINE t == Pending \o txd
    <3>1. in_bank = <<in_bank[1]>> /\ in_bank[1] \in Byte /\ t \in Seq(Byte) /\ Pending \in Seq(Byte)
      BY <1>2, <2>3, OneByte
    <3>2. Pipeline = <<>> \o <<in_bank[1]>> \o t /\ Pipeline' = <<>> \o t
      <4>1. ASSUME NEW b \in Byte, NEW p \in Seq(Byte), NEW u \in Seq(Byte)
            PROVE  /\ (<<b>> \o p) \o u = <<>> \o <<b>> \o (p \o u)
                   /\ (<<>> \o p) \o u = <<>> \o (p \o u)
        OBVIOUS
      <4>2. Pipeline = (<<in_bank[1]>> \o Pending) \o txd /\ Pipeline' = (<<>> \o Pending) \o txd
        BY <2>1, <3>1 DEF Pipeline
      <4> QED
        BY <1>2, <3>1, <4>1, <4>2
    <3> HIDE DEF t
    <3>3. <<>> \in Seq(Byte) /\ Len(<<>>) + 1 = 1
      OBVIOUS
    <3>4. 1 \in DOMAIN Pipeline /\ KC!RemoveAt(Pipeline, 1) = Pipeline'
      <4>1. /\ Len(<<>>) + 1 \in DOMAIN (<<>> \o <<in_bank[1]>> \o t)
            /\ KC!RemoveAt(<<>> \o <<in_bank[1]>> \o t, Len(<<>>) + 1) = <<>> \o t
        BY <3>1, <3>3, RemoveMiddle
      <4> QED
        BY <3>2, <3>3, <4>1
    <3> QED
      BY <1>1, <3>4 DEF KC!Lose
  <2> QED
    BY <2>2, <2>3
<1>5. CASE P!IsReadWriteAllowed
  <2>1. /\ UNCHANGED <<in_bank, data_send, state_send, txd>> /\ ppc = "rw" /\ state_send = 1
        /\ ppc' = IF in_bank = <<>> THEN "write" ELSE "clear"
    BY <1>5 DEF P!IsReadWriteAllowed, KeyInv, Loop
  <2>2. CASE in_bank = <<>>
    <3>1. Pending' = Pending
      BY <2>1, <2>2 DEF Pending
    <3> QED
      BY <1>1, <2>1, <3>1, SameQueue
  <2>3. CASE in_bank # <<>>
    <3>1. Pending = <<data_send>> /\ Pending' = <<>> /\ in_bank \o <<>> = in_bank
      BY <1>2, <2>1, <2>3 DEF Pending
    <3>2. Pipeline = in_bank \o <<data_send>> \o txd /\ Pipeline' = in_bank \o txd
      BY <2>1, <3>1 DEF Pipeline
    <3> QED
      BY <1>1, <1>2, <3>2, LosePending
  <2> QED
    BY <2>2, <2>3
<1>6. CASE P!WriteReport
  <2>1. /\ in_bank = <<>> /\ in_bank' = <<data_send>> /\ UNCHANGED txd
        /\ Pending = <<data_send>> /\ Pending' = <<>>
    BY <1>6 DEF P!WriteReport, KeyInv, Loop, Pending
  <2>2. <<>> \o <<data_send>> = <<data_send>> /\ <<data_send>> \o <<>> = <<data_send>>
    OBVIOUS
  <2>3. Pipeline' = Pipeline
    BY <2>1, <2>2 DEF Pipeline
  <2> QED
    BY <1>1, <2>3 DEF KC!kvars
<1> QED
  BY <1>3, <1>4, <1>5, <1>6 DEF PadStep, P!Main

\* key_pressed takes the oldest byte; the other calls change nothing.
LEMMA HostRefines ==
  ASSUME KeyInv,
         \/ HostStep(InitUsb) \/ HostStep(Refused) \/ HostStep(Menu2)
         \/ HostStep(usb_send_timeout) \/ HostStep(Host)
  PROVE  KC!Deliver \/ UNCHANGED KC!kvars
<1>1. UNCHANGED <<txd, nsent, data_send, state_send, ppc>> /\ Pending' = Pending
  BY DEF HostStep, gamepadVars, serialVars, padVars, Pending
<1>2. CASE \/ HostStep(InitUsb) \/ HostStep(Refused) \/ HostStep(Menu2)
           \/ HostStep(usb_send_timeout) \/ HostStep(InitUsbDone) \/ HostStep(Turn)
           \/ HostStep(usb_send)
  <2>1. UNCHANGED <<in_bank, got>>
    BY <1>2 DEF HostStep, InitUsb, Refused, Menu2, usb_send_timeout, InitUsbDone, Turn, usb_send,
                usbVars
  <2> QED
    BY <1>1, <2>1, SameQueue
<1>3. CASE HostStep(Menu) \/ HostStep(Poll) \/ HostStep(Pause)
  <2>1. in_bank' = <<>> /\ got' = IF in_bank = <<>> THEN got ELSE Head(in_bank)
    BY <1>3 DEF HostStep, Menu, Poll, Pause, key_pressed
  <2>2. CASE in_bank = <<>>
    BY <1>1, <2>1, <2>2, SameQueue
  <2>3. CASE in_bank # <<>>
    <3>1. /\ in_bank = <<Head(in_bank)>> /\ Head(in_bank) \in Byte /\ Pending \in Seq(Byte)
          /\ txd \in Seq(Byte)
      BY <2>3, OneByte DEF KeyInv, KeyType
    <3>2. ASSUME NEW b \in Byte, NEW p \in Seq(Byte), NEW u \in Seq(Byte)
          PROVE  /\ (<<b>> \o p) \o u # <<>> /\ Head((<<b>> \o p) \o u) = b
                 /\ Tail((<<b>> \o p) \o u) = (<<>> \o p) \o u
      OBVIOUS
    <3>3. Pipeline = (<<Head(in_bank)>> \o Pending) \o txd /\ Pipeline' = (<<>> \o Pending) \o txd
      BY <1>1, <2>1, <3>1 DEF Pipeline
    <3>4. Pipeline # <<>> /\ Head(Pipeline) = Head(in_bank) /\ Pipeline' = Tail(Pipeline)
      BY <3>1, <3>2, <3>3
    <3> QED
      BY <1>1, <2>1, <2>3, <3>4 DEF KC!Deliver
  <2> QED
    BY <2>2, <2>3
<1> QED
  BY <1>2, <1>3 DEF HostStep, Host

\* Every step of the machine is a step of the channel or leaves it alone.
LEMMA StepRefines == KeyInv /\ EdgeInv /\ SendInv /\ [Next]_vars => [KC!Next]_(KC!kvars)
<1> SUFFICES ASSUME KeyInv, EdgeInv, SendInv, [Next]_vars PROVE KC!Next \/ UNCHANGED KC!kvars
  OBVIOUS
<1>1. CASE UNCHANGED vars
  <2>1. UNCHANGED <<in_bank, Pending, txd, nsent, got>>
    BY <1>1 DEF vars, gamepadVars, serialVars, padVars, usbVars, historyVars, Pending
  <2> QED
    BY <2>1, SameQueue
<1> QED
  BY <1>1, GamepadRefines, ReceiveRefines, PadRefines, HostRefines DEF Next, KC!Next

\* The channel starts empty.
LEMMA InitRefines == Init => KC!Init
<1> SUFFICES ASSUME Init PROVE KC!Init
  OBVIOUS
<1>1. in_bank = <<>> /\ txd = <<>> /\ state_send = 0 /\ nsent = 0 /\ got = P!NoByte
  BY DEF Init, G!Init, P!Init
<1>2. Pipeline = <<>>
  BY <1>1 DEF Pipeline, Pending
<1> QED
  BY <1>1, <1>2 DEF KC!Init, P!NoByte

\* The key path, two microcontrollers, a serial line, the USB endpoint and the
\* game's polls together, implements the channel of module KeyChannel: bytes
\* get lost, but never reordered, duplicated, altered or invented.
THEOREM KeyPathRefines == Spec => KeyPath
BY InitKey, NextKey, InitEdge, NextEdge, InitSend, NextSend, InitRefines, StepRefines, PTL
   DEF Spec, KeyPath, KC!Spec
==============================================================================
