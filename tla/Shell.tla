-------------------------------- MODULE Shell --------------------------------
(***************************************************************************)
(* The control flow of the game program around the rules of the game       *)
(* (SimpleSnake/game.c: main, menu_disp, menu2_disp, quit_disp): the start *)
(* menu, the amount menu, the game loop with its pause menu, and the LED   *)
(* commands sent around the pause and at the end.                          *)
(*                                                                         *)
(* A key is the byte key_pressed returned, 0 when its 10 ms passed with no *)
(* byte.  usb_send blocks: the bytes still to be sent stand in tosend and  *)
(* the program goes on when it is empty.  What a turn does to the snakes   *)
(* is the parameter of Turn (module Snake says which outcomes happen).     *)
(***************************************************************************)
EXTENDS Integers, Sequences

CONSTANTS
  Argv1,       \* atoi(argv[1])
  Keyboard,    \* what getch can return to player 2, ERR and resizes included
  Garbage      \* what the uninitialised ch2 can hold

VARIABLES
  pc,             \* where main is
  highlight,      \* the highlighted line of the open menu
  spawning_rate,  \* 0 until menu_disp sets it
  start,          \* no iteration of the game loop has been completed
  ch2,            \* the last key of player 2
  loose,          \* who lost, 0 for nobody
  tosend          \* bytes of the pending usb_send calls

svars == <<pc, highlight, spawning_rate, start, ch2, loose, tosend>>

nb_player == IF Argv1 \in {1, 2} THEN Argv1 ELSE 1

USBKEY_LEFT == 48
USBKEY_RIGHT == 34
USBKEY_UP == 36
USBKEY_DOWN == 40
USBKEY_FCT == 33
ESC == 27

\* LOW, NORMAL, FAST, INSANE
Rate == [n \in 0..3 |-> IF n = 0 THEN 120 ELSE IF n = 1 THEN 80 ELSE IF n = 2 THEN 50 ELSE 5]

Init ==
  /\ pc = "init"
  /\ highlight = 0 /\ spawning_rate = 0
  /\ start = TRUE /\ ch2 \in Garbage
  /\ loose = 0 /\ tosend = <<>>

\* The highlighted line after a key in a menu of n lines.
Highlight(k, n) ==
  IF k = USBKEY_UP THEN (IF highlight = 0 THEN n - 1 ELSE highlight - 1)
  ELSE IF k = USBKEY_DOWN THEN (IF highlight = n - 1 THEN 0 ELSE highlight + 1)
  ELSE highlight

-----------------------------------------------------------------------------

\* Too many arguments, or init_usb fails, before the configuration or at and
\* after it: the program exits.
Refused ==
  /\ pc \in {"init", "wait"}
  /\ pc' = "exit"
  /\ UNCHANGED <<highlight, spawning_rate, start, ch2, loose, tosend>>

\* libusb_set_configuration is issued; it returns after the status stage.
init_usb ==
  /\ pc = "init"
  /\ pc' = "wait"
  /\ UNCHANGED <<highlight, spawning_rate, start, ch2, loose, tosend>>

init_usb_done ==
  /\ pc = "wait"
  /\ pc' = "menu"
  /\ UNCHANGED <<highlight, spawning_rate, start, ch2, loose, tosend>>

menu_disp(k) ==
  /\ pc = "menu"
  /\ IF k = USBKEY_FCT
       THEN /\ spawning_rate' = Rate[highlight]
            /\ pc' = "menu2"
            /\ UNCHANGED highlight
       ELSE /\ highlight' = Highlight(k, 4)
            /\ UNCHANGED <<pc, spawning_rate>>
  /\ UNCHANGED <<start, ch2, loose, tosend>>

\* The amount is typed on the keyboard; the gamepad is not read.
menu2_disp ==
  /\ pc = "menu2"
  /\ pc' = "poll"
  /\ UNCHANGED <<highlight, spawning_rate, start, ch2, loose, tosend>>

\* Mutant: the start flag is not tested.
Poll_NoStart(k, k2) ==
  /\ pc = "poll" /\ tosend = <<>>
  /\ ch2' = IF nb_player = 2 THEN k2 ELSE ch2
  /\ start' = FALSE
  /\ IF k = USBKEY_FCT \/ ch2' = ESC
       THEN pc' = "pause" /\ highlight' = 0 /\ tosend' = <<49, 49>>
       ELSE pc' = "turn" /\ UNCHANGED <<highlight, tosend>>
  /\ UNCHANGED <<spawning_rate, loose>>

\* Mutant: the LED is switched on by one byte only.
Poll_OneSend(k, k2) ==
  /\ pc = "poll" /\ tosend = <<>>
  /\ ch2' = IF nb_player = 2 THEN k2 ELSE ch2
  /\ start' = FALSE
  /\ IF (k = USBKEY_FCT \/ ch2' = ESC) /\ ~start
       THEN pc' = "pause" /\ highlight' = 0 /\ tosend' = <<49>>
       ELSE pc' = "turn" /\ UNCHANGED <<highlight, tosend>>
  /\ UNCHANGED <<spawning_rate, loose>>

\* The top of the game loop: k is player 1's byte, k2 what getch returned.
\* ch2 is assigned in a two-player game only.
Poll(k, k2) ==
  /\ pc = "poll" /\ tosend = <<>>
  /\ ch2' = IF nb_player = 2 THEN k2 ELSE ch2
  /\ start' = FALSE
  /\ IF (k = USBKEY_FCT \/ ch2' = ESC) /\ ~start
       THEN pc' = "pause" /\ highlight' = 0 /\ tosend' = <<49, 49>>
       ELSE pc' = "turn" /\ UNCHANGED <<highlight, tosend>>
  /\ UNCHANGED <<spawning_rate, loose>>

\* Mutant: the LED is switched off by one byte only.
quit_disp_OneSend(k) ==
  /\ pc = "pause" /\ tosend = <<>>
  /\ IF k = USBKEY_FCT
       THEN /\ pc' = IF highlight = 0 THEN "turn" ELSE "halt"
            /\ tosend' = <<48>>
            /\ UNCHANGED highlight
       ELSE /\ highlight' = Highlight(k, 2)
            /\ UNCHANGED <<pc, tosend>>
  /\ UNCHANGED <<spawning_rate, start, ch2, loose>>

\* Leaving the pause menu, by RESUME or by QUIT, sends the LED off twice.
quit_disp(k) ==
  /\ pc = "pause" /\ tosend = <<>>
  /\ IF k = USBKEY_FCT
       THEN /\ pc' = IF highlight = 0 THEN "turn" ELSE "halt"
            /\ tosend' = <<48, 48>>
            /\ UNCHANGED highlight
       ELSE /\ highlight' = Highlight(k, 2)
            /\ UNCHANGED <<pc, tosend>>
  /\ UNCHANGED <<spawning_rate, start, ch2, loose>>

\* The end of an iteration: nobody lost, or player `out' did.
Turn(out) ==
  /\ pc = "turn" /\ tosend = <<>>
  /\ loose' = out
  /\ IF out = 0
       THEN pc' = "poll" /\ UNCHANGED tosend
       ELSE pc' = "halt" /\ tosend' = <<48, 48>>
  /\ UNCHANGED <<highlight, spawning_rate, start, ch2>>

\* A division by zero in the turn: the signal ends the program at once.
Killed ==
  /\ pc = "turn" /\ tosend = <<>>
  /\ pc' = "sigfpe"
  /\ UNCHANGED <<highlight, spawning_rate, start, ch2, loose, tosend>>

\* One usb_send call returns, its byte taken by the device or given up.
usb_send ==
  /\ tosend # <<>>
  /\ tosend' = Tail(tosend)
  /\ UNCHANGED <<pc, highlight, spawning_rate, start, ch2, loose>>

TypeOK ==
  /\ pc \in {"init", "exit", "wait", "menu", "menu2", "poll", "turn", "pause", "halt", "sigfpe"}
  /\ highlight \in 0..3 /\ spawning_rate \in {0, 120, 80, 50, 5}
  /\ start \in BOOLEAN /\ ch2 \in Keyboard \cup Garbage
  /\ loose \in 0..nb_player
  /\ tosend \in Seq({48, 49}) /\ Len(tosend) <= 2
==============================================================================
