------------------------------- MODULE Joystick -------------------------------
(***************************************************************************)
(* The whole machine: the gamepad (Gamepad), its USB side (Pad) and the    *)
(* game program's control flow (Shell) with the libusb calls of            *)
(* libusb/usb_host.c between them.  The two serial lines txd and line are  *)
(* shared by Gamepad and Pad, the endpoint banks and the control request   *)
(* by Pad and the host.                                                    *)
(***************************************************************************)
EXTENDS Integers, Sequences

CONSTANTS
  Buttons, MaxEdges, Argv1, Keyboard, Garbage,
  MaxTimeouts   \* bound: usb_send calls that give up after their 50 ms

ASSUME ButtonsAssumption == Buttons \subseteq {"joy", "right", "up", "down", "left"}
ASSUME ShellAssumption == Argv1 \in Int /\ Keyboard \subseteq Int /\ Garbage \subseteq Int
ASSUME BoundsAssumption == MaxEdges \in Nat /\ MaxTimeouts \in Nat

VARIABLES
  pressed, pcint, state, gpc, msg, rxd, slots, led, nsent, edges,
  txd, line,
  data_send, state_send, ppc, configured,
  setup, in_bank, out_bank,
  pc, highlight, spawning_rate, start, ch2, loose, tosend,
  got,          \* history: the last byte key_pressed returned
  timeouts,     \* history: usb_send calls given up
  joyFresh      \* history: a pause may be due to a press of the joystick made
                \* since menu 2, or not settled or not released when it closed

G == INSTANCE Gamepad
P == INSTANCE Pad
S == INSTANCE Shell

gamepadVars == <<pressed, pcint, state, gpc, msg, rxd, slots, led, nsent, edges>>
serialVars  == <<txd, line>>
padVars     == <<data_send, state_send, ppc, configured>>
usbVars     == <<setup, in_bank, out_bank>>
shellVars   == <<pc, highlight, spawning_rate, start, ch2, loose, tosend>>
historyVars == <<got, timeouts, joyFresh>>

vars == <<gamepadVars, serialVars, padVars, usbVars, shellVars, historyVars>>

Init ==
  /\ G!Init /\ P!Init /\ S!Init
  /\ got = P!NoByte /\ timeouts = 0 /\ joyFresh = TRUE

-----------------------------------------------------------------------------
\* A byte waits in data_send until the loop has written it or, at "clear",
\* can no longer write it.
Pending == IF state_send = 1 /\ ppc # "clear" THEN <<data_send>> ELSE <<>>

\* The bytes between the gamepad and the game, oldest first.
Pipeline == in_bank \o Pending \o txd

-----------------------------------------------------------------------------
(* The user's hands, and the two firmwares.                                *)

User ==
  /\ G!User
  /\ joyFresh' = (joyFresh \/ "joy" \in pressed' \ pressed)
  /\ UNCHANGED <<padVars, usbVars, shellVars, got, timeouts>>

GamepadStep(A) == A /\ UNCHANGED <<padVars, usbVars, shellVars, historyVars>>

PadStep(A) == A /\ UNCHANGED <<gamepadVars, shellVars, historyVars>>

-----------------------------------------------------------------------------
(* The host.                                                               *)

HostStep(A) == A /\ UNCHANGED <<gamepadVars, serialVars, padVars>>

\* libusb_set_configuration: the request, then the return after its status
\* stage.
InitUsb ==
  /\ ~setup /\ S!init_usb
  /\ setup' = TRUE
  /\ UNCHANGED <<in_bank, out_bank, got, timeouts, joyFresh>>

InitUsbDone ==
  /\ ~setup /\ S!init_usb_done
  /\ UNCHANGED <<usbVars, got, timeouts, joyFresh>>

\* key_pressed returns the byte of the IN bank, or 0 when none comes in time.
key == IF in_bank = <<>> THEN 0 ELSE Head(in_bank).code

key_pressed ==
  /\ in_bank' = <<>>
  /\ got' = IF in_bank = <<>> THEN got ELSE Head(in_bank)
  /\ UNCHANGED <<setup, out_bank, timeouts, joyFresh>>

Menu  == S!menu_disp(key) /\ key_pressed
Poll  == (\E k2 \in Keyboard : S!Poll(key, k2)) /\ key_pressed
Pause == S!quit_disp(key) /\ key_pressed

\* The buttons are up and every byte but the one in the IN bank has arrived.
Settled ==
  /\ pressed = {} /\ ~pcint /\ gpc = "test" /\ state = 0
  /\ txd = <<>> /\ state_send = 0

Menu2   == S!menu2_disp /\ joyFresh' = ~Settled /\ UNCHANGED <<usbVars, got, timeouts>>
Turn    == /\ (\E out \in 0..S!nb_player : S!Turn(out)) \/ S!Killed
           /\ UNCHANGED <<usbVars, got, timeouts, joyFresh>>
Refused == S!Refused /\ UNCHANGED <<usbVars, got, timeouts, joyFresh>>

\* The device takes the byte as soon as the bank of the OUT endpoint is free.
usb_send ==
  /\ out_bank = <<>> /\ S!usb_send
  /\ out_bank' = <<Head(tosend)>>
  /\ UNCHANGED <<setup, in_bank, got, timeouts, joyFresh>>

\* libusb gives up after 50 ms; usb_send ignores the error.
usb_send_timeout ==
  /\ timeouts < MaxTimeouts /\ S!usb_send
  /\ timeouts' = timeouts + 1
  /\ UNCHANGED <<usbVars, got, joyFresh>>

Host ==
  InitUsbDone \/ Menu \/ Poll \/ Pause \/ Turn \/ usb_send

Next ==
  \/ User
  \/ GamepadStep(G!PCINT2_vect)
  \/ GamepadStep(G!Main)
  \/ GamepadStep(G!SerialIn)
  \/ GamepadStep(G!USART_RX_vect)
  \/ PadStep(P!USART1_RX_vect)
  \/ PadStep(P!Main)
  \/ HostStep(InitUsb)
  \/ HostStep(Refused)
  \/ HostStep(Menu2)
  \/ HostStep(usb_send_timeout)
  \/ HostStep(Host)

Spec == Init /\ [][Next]_vars

\* The firmwares run, the hardware delivers and raises its interrupts, and
\* the program polls and sends; nothing is assumed of the user.
Fairness ==
  /\ WF_vars(GamepadStep(G!PCINT2_vect))
  /\ WF_vars(GamepadStep(G!Main))
  /\ WF_vars(GamepadStep(G!SerialIn))
  /\ WF_vars(GamepadStep(G!USART_RX_vect))
  /\ WF_vars(PadStep(P!USART1_RX_vect))
  /\ WF_vars(PadStep(P!Main))
  /\ WF_vars(HostStep(Host))

FairSpec == Spec /\ Fairness

(* The LED path alone, with the key path replaced by the most liberal one:   *)
(* any key at any poll.  No bound on the presses is needed.  The bytes that  *)
(* no menu reacts to act as 0.  Here timeouts counts the commands given up   *)
(* of the last pair only.                                                    *)

FreeKeys == {0, S!USBKEY_FCT, S!USBKEY_UP, S!USBKEY_DOWN}

LedProgram ==
  /\ \/ \E k \in FreeKeys : \/ S!menu_disp(k) \/ S!quit_disp(k)
                            \/ \E k2 \in Keyboard : S!Poll(k, k2)
     \/ \E out \in 0..S!nb_player : S!Turn(out)
     \/ S!Killed
  /\ timeouts' = IF tosend' = <<>> THEN timeouts ELSE 0
  /\ UNCHANGED <<usbVars, got, joyFresh>>

LedHost ==
  LedProgram \/ InitUsb \/ InitUsbDone \/ Menu2 \/ usb_send \/ usb_send_timeout

LedNext ==
  \/ GamepadStep(G!SerialIn)
  \/ GamepadStep(G!USART_RX_vect)
  \/ PadStep(P!Main)
  \/ HostStep(LedHost)

LedSpec ==
  /\ Init /\ [][LedNext]_vars
  /\ WF_vars(GamepadStep(G!SerialIn)) /\ WF_vars(GamepadStep(G!USART_RX_vect))
  /\ WF_vars(PadStep(P!Main)) /\ WF_vars(HostStep(usb_send))

-----------------------------------------------------------------------------

TypeOK ==
  /\ G!TypeOK /\ P!TypeOK /\ S!TypeOK
  /\ got \in P!Byte /\ timeouts \in Nat /\ joyFresh \in BOOLEAN

\* The key path is in order, without duplicates: the ranks of the bytes on
\* their way increase, and all of them come after the last byte the game
\* took.  The main loop of the ATmega16u2 and its receive interrupt share
\* data_send and state_send without a lock (pad.c:10-32).
InOrder ==
  /\ \A i, j \in 1..Len(Pipeline) : i < j => Pipeline[i].id < Pipeline[j].id
  /\ \A i \in 1..Len(Pipeline) : got.id < Pipeline[i].id /\ Pipeline[i].id <= nsent

\* A button edge causes at most one byte: holding a button does not repeat it
\* and the release of the last button sends nothing (arduino.c:72-79).
OneSendPerEdge == nsent <= edges

\* The start flag absorbs the joystick press made in menu 2 (game.c:725): in a
\* one-player game the byte left in the IN bank does not open the pause menu;
\* that takes a press made since.
StartFlag == pc = "pause" => joyFresh

\* The key path implements the lossy ordered channel.
KC == INSTANCE KeyChannel WITH
        Codes <- 33..63, MaxSent <- MaxEdges,
        sent <- nsent, queue <- Pipeline

KeyPath == KC!Spec

\* Once no LED command is on its way, and neither command of the last pair
\* was given up (usb_host.c:153), the LED is lit exactly while the pause menu
\* is open: in spite of the receive handler that reads UDR0 twice, and of
\* any commands lost before.
LedSettled ==
  (tosend = <<>> /\ timeouts = 0 /\ out_bank = <<>> /\ line = <<>> /\ rxd = <<>>)
    => (led <=> pc = "pause")

\* A pause that lasts ends with the LED lit for good, and the end of the
\* program with the LED dark for good, unless the last command was given up.
LedFollows ==
  /\ <>[](pc = "pause" /\ timeouts = 0) => <>[]led
  /\ <>[](pc \in {"halt", "sigfpe"} /\ timeouts = 0) => <>[]~led

\* With everything idle, a press that no other edge follows reaches the
\* program, unless the program stops reading the gamepad first.
Idle ==
  /\ gpc = "test" /\ state = 0
  /\ Pipeline = <<>> /\ state_send = 0
  /\ configured /\ ~setup /\ ppc # "config"

LonePressDelivered ==
  \A n \in 0..MaxEdges :
    (/\ edges = MaxEdges /\ pcint /\ pressed # {} /\ Idle /\ nsent = n
     /\ pc \in {"menu", "poll", "turn", "pause"})
      ~> (got.id = n + 1 \/ pc \in {"menu2", "halt", "sigfpe"})

\* Documented: LED off is one byte (README.md, "Eteignage LED : 48",
\* arduino.c:54).  When the last byte the receive handler took is 48, the LED
\* is dark.
OffIsOff == (rxd = <<>> /\ slots[2] = 48) => ~led

\* Documented: "Joystick button to pause" (play.sh).  A one-player game is
\* paused only by the joystick's byte.
PauseByJoystick == [][(pc = "poll" /\ pc' = "pause") => key = S!USBKEY_FCT]_vars

\* No byte is stuck on the key path while the program reads the gamepad.
Drained == <>[](Pipeline = <<>> \/ pc \in {"init", "menu2", "halt", "exit", "sigfpe"})
==============================================================================
