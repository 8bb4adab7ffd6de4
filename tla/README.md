# Usb_joystick: a TLA+ model of the gamepad and its game

The repository is a home-made gamepad and the snake game played with it. Three
programs run at once:

    buttons, LED                 USB                        terminal
        |                         |                             |
    ATmega328p  --- serial ---  ATmega16u2  --- interrupt ---  snake
    arduino.c    9600 baud      pad.c, LUFA    IN / OUT        game.c, usb_host.c

A button press travels left to right as one byte (33 joystick, 34, 36, 40, 48
directions). The LED commands (49 on, 48 off) travel right to left. All line
numbers below are of `src/`.

## Inventory

| Part | State | Operations | Talks to |
|---|---|---|---|
| gamepad firmware, `AT328p/arduino.c` | `state`, `msg`, the USART's FIFO, the LED | `PCINT2_vect`, `USART_RX_vect`, the main loop | serial lines |
| USB firmware, `AT16u2/PolytechLille/PAD/pad.c` | `data_send`, `state_send` | `USART1_RX_vect`, `SendNextReport`, `ReceiveNextReport`, the configuration event | serial lines, endpoints |
| LUFA device stack, `AT16u2/LUFA/Drivers/USB/Core` | device state, endpoint banks, selected endpoint | `USB_USBTask`, control requests, bus interrupts | `pad.c`, the host |
| host USB layer, `libusb/usb_host.c` | `handle`, `endp_list` | `init_usb`, `key_pressed`, `usb_send` | libusb, `game.c` |
| control flow of the game, `SimpleSnake/game.c` | menus, `start`, `ch2`, `loose` | `main`, `menu_disp`, `menu2_disp`, `quit_disp` | `key_pressed`, `usb_send` |
| rules of the game, `SimpleSnake/game.c` | snakes, `snake_end`, directions, scores, `bonus_list`, sizes | `set_dir`, `bonus_create`, `snake_move`, the checks | control flow |
| screen output, descriptors, scripts, vendored LUFA demos | none of their own | | |

What is hard here:

* two interrupt handlers and two main loops share variables without locks
  (`arduino.c:72-78`, `pad.c:10-32`);
* every buffer on the way holds one or two bytes, and a byte that finds its
  buffer full is dropped;
* the LED handler reads its data register twice (`arduino.c:51,54`);
* the status stage of SET_CONFIGURATION ends before the endpoints exist, and
  configuring an endpoint empties it;
* the bus interrupt of the USB firmware may reset the device in the middle of a
  request and leaves another endpoint selected (`USBInterrupt_AVR8.c:162-181`),
  and several waits of the stack end only through what the bus does next;
* `init_usb` is a chain of libusb calls, each of which may fail, some without a
  test, and the device may be unplugged at any time;
* the game caches a copy of each head, keeps a counter of bonuses beside the
  array, and compares the snakes only by their heads;
* the terminal may be resized at any time.

What makes each part correct: the gamepad sends at most one byte per edge and
never a byte without a button; the USB side neither reorders nor duplicates;
nothing gets stuck; a configured device has its endpoints and always comes
back after a reset or a suspend; `init_usb` succeeds only with a usable device; the LED is lit exactly while the pause menu is open; the
game's snakes are chains of the right length, lose only when a head hits
something, and stay inside the walls; the bonus counter stays meaningful.
`PROJECT.json` lists the hazards one by one with the property that covers each.

## Modules

**Gamepad** models `arduino.c`. `gpc` is the place of the main loop: `Test`
(line 72), `Load` (73-74), `send_serial` (76), `EndDelay` (77-78). `state` is
read by `Test` and again by `Load`, so `PCINT2_vect` can run between the two.
Handlers are atomic because the AVR runs them with interrupts off; the accesses
of the loop are atomic because only the low byte of the 16-bit `state` is ever
non-zero. `pressed` stands for the pins, `Press` and `Release` for the user and
the bouncing of contacts: each edge raises the flag `pcint`. `line`, `rxd` and
`slots` are the serial line, the two-byte receive FIFO and what its two cells
still hold. A read of `UDR0` pops the FIFO, and on an empty FIFO may return
either cell. The rank in a byte is a history variable.

**Pad** models `pad.c` with the part of LUFA it runs on. `ppc` is the place of
the main loop. `in_bank` and `out_bank` are the one-byte banks of the two
endpoints. `StatusStage` lets the host's request return, `ConfigurationChanged`
sets the endpoints up. `SendNextReport`, `IsReadWriteAllowed`, `WriteReport`
and `ClearState` are the steps of the C function `SendNextReport`;
`USART1_RX_vect` may run between any two. The receiving USART is emptied faster
than 9600 baud fills it, so it needs no FIFO of its own here.

**Shell** models the control flow of `game.c`: initialisation, menus, game loop
top, pause, end. `tosend` holds the bytes of the `usb_send` calls that have not
returned yet; the program goes on when it is empty. A `CONSTANT`, `Garbage`, is
what the uninitialised `ch2` may hold; with two players it is overwritten
before it is read. The typed amount is assumed to fit its seven characters.

**Joystick** composes the three and adds the libusb calls: `key_pressed` takes
the byte of the IN bank or returns 0, `usb_send` waits for the OUT bank or gives
up. `LedSpec` is the same machine with the key path replaced by "any key at any
poll", so that no bound on presses is needed for the LED. In it `timeouts` counts
only the commands given up of the last pair, so any number of `usb_send` calls
may be lost over time.

**KeyChannel** is the abstract specification of the key path: a queue that may
lose bytes anywhere but never reorders, duplicates or alters them. `Joystick`
implements it with `queue <- Pipeline`, the concatenation of the IN bank, the
byte pending in `data_send` and the serial line.

**Snake** models the rules inside the shell. One iteration is `Steer`, a spawn
(`NoSpawn`, `bonus_create` or `SpawnKilled`), `Move`, `CheckOne`, `CheckTwo`,
`CheckCross`, in the order of `game.c:727-757`. A snake is the sequence of its
cells, tail first like the C list. `rand()` is a free choice. A resize is seen by
`getch` and used from the next `getmaxyx` on. **MCSnake** holds terminal sizes
for TLC.

**UsbDevice** models the LUFA device stack in the configuration the firmware is
built with (`PAD/Config/LUFAConfig.h`: device only, series 2 AVR, no interrupt on
the control endpoint, endpoints configured in any order), down to single
accesses of the endpoint registers. `d` holds the device state, the configuration
number and the registers `ADDEN`, `UENUM` and the interrupt bits; `e` the
endpoints; `m` the place (`m.pc`) and locals of the main loop; `h` the host.
`USB_GEN_vect` runs its three branches (suspend, wake-up, reset) in one step
between any two steps of the loop. Every access of the loop goes to the endpoint
that `UENUM` selects at that moment, so after a reset in the wrong place a report or
an endpoint's configuration lands on endpoint 0: the model has the stray packet
(`e.in = "junk"` or `"zlp"`) and the control endpoint turned into an interrupt
endpoint (`~e.control`). The standard requests are actions named as the functions;
GET_CONFIGURATION is the same exchange as GET_STATUS. The address is default or assigned,
as the host has one number for the device, and endpoint 1 stands for both in the
feature requests. `Unknown` stands for what no
handler takes, such as the serial number string that `Descriptors.c:63` announces
and `CALLBACK_USB_GetDescriptor` does not serve.

The other side of the bus is external: a host that resets, assigns an address,
reads a descriptor, sets the configuration and then may issue the requests of
`Extra`; a controller whose address filter is `Reach` and whose `RWAL` bit reads 0 on
a control endpoint. When an exchange does not end, the host disables the port,
which the device sees as an idle bus, and starts again.

Pad and UsbDevice overlap on purpose: Pad keeps the bytes and abstracts the
bus, UsbDevice keeps the bus and abstracts the bytes.

**UsbHost** models `usb_host.c` from `libusb_init` to the claimed interfaces, one
action per libusb call or turn of a loop. A device list is a parameter; each device
has its product number, the endpoints of each interface and the interfaces for
which the kernel has drivers. A call fails either for a reason the model has (no
active configuration at `usb_host.c:69`, a driver that holds the interface at
`usb_host.c:126` or blocks the configuration) or by chance (`Fail`: no memory, no
rights, an error on the bus). Only the second, and unplugging, set the history
variable `fault`. `PAD` is the configuration descriptor of the firmware. The loop over
a descriptor pointer that was never set (`usb_host.c:69`) crashes, exits or goes on
(`StrayEnds`). `endp_list` has ten cells (`ENDP_MAX`) and is written unchecked: an
eleventh endpoint crashes the program or is lost in memory that nothing here reads
(`Overrun`). `libusb_get_config_descriptor` is answered from libusb's cache and taken
to succeed.
`key_unset` is `key_pressed` when the transfer is not submitted. **MCUsbHost** holds
device lists for TLC: the pad alone, behind others, behind devices that share
its product number, absent, and a device with twelve interrupt endpoints.

**SnakeProofs** and **SnakeBodyProofs**, **JoystickProofs**, **KeyPathProofs** and
**LedProofs**, **UsbHostProofs**, **UsbDeviceProofs** hold the theorems of Snake,
Joystick, UsbHost and UsbDevice.

## Runs

| Run | What it shows |
|---|---|
| `keypath` | bytes arrive in order and at most once (`InOrder`), at most one per edge (`OneSendPerEdge`), the path implements `KeyChannel` (`KeyPath`: no byte without a button, none altered), and the press made in menu 2 does not open the pause menu (`StartFlag`) |
| `led` | when no command is under way and the last pair was not given up, the LED is lit exactly while the pause menu is open (`LedSettled`), whatever was lost before; a lasting pause ends with the LED lit, the end of the program with the LED dark (`LedFollows`) |
| `arrival` | the key path drains while the program reads it (`Drained`), and a press that nothing follows reaches the program (`LonePressDelivered`) |
| `snake_one` | `LengthIsScore`, `Chain`, `ShortIsSafe`, `BodyInside`, `OnlyHeadCrashes`, `BonusAccounting` for one player |
| `snake_two` | `EndIsHead`, `BodyInside`, `SnakesApart`, `BonusAccounting` for two players and a resized terminal |
| `bus` | a device in `DEVICE_STATE_Configured` has both endpoints set up (`ReadyWhenConfigured`); once host and device are quiet they agree and endpoint 0 is a control endpoint (`HostAndDeviceAgree`); after the last fault the device ends up configured and the loop keeps running (`Recovers`) |
| `init` | `init_usb` returns 0 only with the product opened (the first one, if no call failed), configured and wholly claimed (`SuccessMeansUsable`); the endpoint of an interface is the entry of the interface's rank among those that have one, up to the tenth (`EndpointsInPlace`); without a chance failure 1 is returned only for a list without the product, and an exit or a crash has one of three reasons (`RefusalsExplained`) |
| `configured` | violated: a reset between the test of the configuration number and the assignment of the state leaves `DEVICE_STATE_Configured` behind, without address or configuration |
| `unplug` | violated: after an unplug `key_pressed` may return a byte no button sent |
| `off` | violated: one byte 48 is not enough to put the LED off |
| `garbage` | violated: the uninitialised `ch2` pauses a one-player game |
| `resize` | violated: six rows make `bonus_create` divide by zero |

`off` explains why the game sends each LED command twice. The first of two equal
commands may be misread, the second puts the LED right, and `led` shows that
this is enough when neither `usb_send` of the pair times out, also right after a
pair of which one command was lost. After such a loss itself the code promises
nothing about the LED until the next pair.

The crash that `RefusalsExplained` allows on a device without a configuration is one
the pad itself can meet: `unclaim_active_config`, of which `usb_host.c:23` says that it
is useless for this device, runs before `init_usb` sets the configuration and does not
test whether there is an active one. The crash on an eleventh interrupt endpoint, and the
exit on a driver that is back, need another device with the product number 0x1234.

`configured` is harmless in the end: `bus` shows that the premature state does not
last, because the host's next SET_ADDRESS corrects it and the endpoints are set up
in between. The same line of the code also answers SET_CONFIGURATION 0 with
`DEVICE_STATE_Configured` instead of the addressed state, and configures the
endpoints; `bus` includes that request (`Unconfigure`).

Bounds. `keypath`: two buttons and four edges make the interrupt fall
everywhere in both loops, fill every buffer on the path (one byte in the bank,
one pending, two on the serial line) and allow a press in menu 2 followed by a
release; one `usb_send` may give up. `arrival`: three edges, so that a last press
can meet every leftover of an earlier one. `snake_one`: an 8 by 6 terminal has a
playing area of four rows by four columns, and a snake is followed until
its third point, so the five-cell snake that can bite itself plays on;
two slots of three asked for use the cap.
`led`: both commands of every pair may be given up. `bus`: two faults
out of resets, suspends and requests sent early, at any of the loop's places, and
one request of any kind after the enumeration; one fault brings the loop to the
wrong endpoint or into a wait, the second falls into the recovery. A descriptor is
one packet; with two packets, and with three faults (safety only), nothing
changes. `init`: nine lists of up to three devices; one device has two interrupt
endpoints in an interface, one lacks one in its first interface, and one has twelve
in thirteen interfaces, so that the array overruns twice after a gap.
`snake_two`: one slot and score up to 2, with both a normal terminal and one
of six rows. The runs of Snake switch deadlock checking off: the program ends,
and `MaxScore` stops a behaviour. The programs of Joystick never stop as a
whole (the firmwares loop), so deadlock is checked there, and in `bus` too. The runs
of UsbHost switch it off: a refused device ends the program.

Fairness. Weak fairness of each firmware's main loop, of each interrupt handler
(a pending interrupt is served), of the serial hardware, and of the program's
polling and sending. The loops of both firmwares and of the game have no wait
that another party could block forever: `usb_send` and `key_pressed` have timeouts,
the USART always empties. Nothing is assumed of the user, nor of the keyboard
entry in menu 2; properties that need the program to poll except `menu2`.

`bus` assumes weak fairness of the firmware's loop, of the bus interrupt, of bus
traffic and of each step of the host's enumeration: the host retries for ever
and a kernel time-out falls only when nothing of the request can go on (`GiveUp`).
Two assumptions on the host carry the result, and the code depends on them: a
failed attempt disables the port for long enough that the device sees an idle bus
(`Retry`), because the wait of `Endpoint_AVR8.c:133` ends in no other way when a
reset has dropped the status packet; and faults end. A reset that falls between the
two halves of SET_ADDRESS leaves the address enabled after the reset, so that the
next attempt fails too and enumeration takes two resets.

## Proofs

For every value of the constants, under the assumptions named in the modules.
They are what the code and its surroundings give: arguments, keys and amounts are
integers and there is a slot for a bonus (`ShellConstants`, `ShellAssumption`,
`BonusConstants`), the buttons are the five wired ones (`ButtonsAssumption`), terminal
sizes fit the unsigned shorts of `struct winsize` and leave five rows and columns
(`SizesFit`), bounds are numbers (`MaxScoreAssumption`, `BoundsAssumption`,
`DeviceBounds`), drivers are of the interfaces of their device and interfaces are
counted in a byte (`ListsAssumption`), keys are bytes (`KeysAssumption`), and the host assigns an address only while it enumerates
(`ExtraRequests`).

Rules of the game (SnakeProofs, SnakeBodyProofs):

* `TypeCorrect`, `SnakeWellFormed` (`LengthIsScore`, `EndIsHead`, `Chain`).
  `Chain` alone is not inductive: the new head is computed from the cached
  `snake_end`, not from the list, and growth needs a non-empty list. `Inv` adds
  both, the lengths, and that the cells carry directions; `Control` adds that the
  line highlighted in the pause menu is one of its two.
* `ShortSnakesAreSafe`: in a chain without reversals cells at distance 1, 2 or
  3 differ, so a crash needs five cells.
* `BonusesCounted`: `nb_bonus < max_bonus` and `nb_bonus <= |Active|` give either a
  free slot or a counter that stays below the full array. Cardinalities come from
  the library's finite-set theorems.
* `LengthFromScore` and `CachedHead` are parts of `SnakeWellFormed`, stated alone.
* `BodyStaysInside`, `CrashIsTheHeads`, `SnakesStayApart`, for every set of sizes,
  resizes included, and any score. All three follow from one invariant, `BodyInv`,
  over the `Trail` of a snake: its cells with the tail it has just left, which is
  the cell `snake_grow` puts back. Growth therefore adds nothing new to a trail, and
  only the head, which the checks look at, does. `SnakesApart` fails to be inductive
  in a terminal of five rows, where both snakes start on the same row and overlap;
  `Twins` says that the first iteration then always ends the game, so that the
  overlap is never seen between iterations. The largest terminal of `BodyInside` is
  a greatest element, for which the sizes have to be bounded.

Key path and LED (JoystickProofs, KeyPathProofs, LedProofs):

* `KeysInOrder`: `KeyInv` states the order place by place (`Order`), that the loop
  is past its test only with a byte and writes only to a free bank (`Loop`), and
  that the last byte taken was sent (`Got`). The interrupt may overwrite
  `data_send` at any place of the loop, and at "clear" the byte there is no
  longer pending. A last lemma turns places into indices of `Pipeline`.
* `OneBytePerEdge`: each edge buys one unit of a debt (`Owed1` for a pending
  interrupt, `Owed2` for a snapshot not yet sent); only `send_serial` spends it.
* `MachineTypes`: the types of both firmwares, the banks and the program together.
* `StartFlagWorks`: `FreshInv` follows a press of the joystick from the button to the
  program. Unless one was made since menu 2, no place on the path holds its code
  (`NoJoy`), the IN bank excepted while `start` is set. The theorem is about one
  player and a `ch2` that does not happen to hold the escape key: run `garbage`
  shows what happens otherwise, and with two players `ch2` is a keyboard key.
* `KeyPathRefines`: every step of the machine is a step of `KeyChannel` or a stutter.
  `send_serial` is a put, `key_pressed` a get; an overwritten `data_send`, a byte
  found while another is pending and a bank emptied by the configuration are losses.
  The simulation rests on `KeyInv`, on the debt of `OneBytePerEdge` (the channel may
  still put) and on `SendInv` (what is sent is a code).
* `LedTellsPause`, of `LedSpec`: `LedInv` reads the two cells of the receive FIFO, the
  line, the OUT bank and the commands not yet sent as one `Stream`. Unless the last
  pair lost a byte the stream ends in the wanted command, twice (`Commanded`);
  `Receiver` says what the LED shows of a FIFO read twice; `Configuring`, that the
  bank which the configuration empties never held the second byte of a pair.

Host layer (UsbHostProofs):

* `InitUsbSound`, `EndpointsMatchInterfaces`, `RefusalsHaveReasons`, `HostTypes`: for
  every device list (`ListsAssumption`), devices with more interrupt endpoints than
  `endp_list` has cells included. `HostInv` says what holds in the middle of the loops:
  `ClaimedSoFar` (the claims are the interfaces before `i`), `SavedSoFar` (`endp_list`
  is as long as the rank of the last interface seen, or full, which is what puts the
  next endpoint in its place and what makes an overrun imply an eleventh endpoint),
  `Blameless` (without a fault the devices skipped are others, the drivers before
  `i` are detached, and a device without a configuration has none). `RankStep` is the
  one fact about cardinalities this needs. That `save_interrupt_endpoints` takes the first interrupt endpoint
  needs the least element of a set of indices, from the library's theorem on
  well-founded orders.

Device stack (UsbDeviceProofs), for any number of packets, faults and requests:

* `DeviceTypes`: with the locals of the loop and the host's fields, which `TypeOK`
  leaves open and a step needs.
* `ConfiguredIsReady`: `ReadyInv` says how far `Endpoint_ConfigureEndpoint_Prv` has come
  (`Configured`) at each of its places, with a reset or a suspend at any of them. It has to
  cover a device that is not configured but has a configuration number, because a
  wake-up makes it configured (`Live`).
* `EnumerationAgrees`: `AgreeInv` has two halves. `Enumeration` holds at any time: what
  the host waits for at each stage, that it asks for nothing while a reset is
  unseen, that endpoint 0 holds nothing but SET_ADDRESS before the address is enabled,
  and that a stray configuration of endpoint 0 happens only before SET_ADDRESS
  is answered. `InStep` holds once the addresses are the same (`Synced`): the request
  in the device is the one the host waits for (`SameRequest`), a positive answer to
  SET_CONFIGURATION means a configuration number (`Answer`), and a report that went
  to endpoint 0 after a reset is over before it can answer the next request
  (`StrayReport`). The invariant was checked by TLC with three faults, two packets and
  two requests before it was proved.

Only model-checked: liveness (`LedFollows`, `Drained`, `LonePressDelivered`,
`Recovers`), which is out of the prover's reach, and the runs that show a violation.
Every invariant that a passing run checks is also a theorem.

## Not modelled

Screen output, which keeps no state of its own; the texts and numbers in the
descriptors that nothing here reads; the scripts. A serial byte is never corrupted
on the wire. Of LUFA only what the gamepad links and runs is part of this system,
about a thousand lines. The rest of `src/AT16u2` is the LUFA distribution as
downloaded: demos, projects and bootloaders for other devices, drivers for boards
this one is not, the host mode, and the UC3 and XMEGA ports. It is never compiled
into either firmware, has no behaviour in this system, and makes up nearly all the
lines of the repository; the share of all lines that these modules cover is
therefore small and stays small. Inside the linked files, the remote wake-up
flag, the PLL and clock control and the start-of-frame event (which pad.c enables
and does not handle) are left out.

## Plan

Done: Gamepad, Pad, Shell, their composition with KeyChannel, Snake, UsbDevice,
UsbHost, and the theorems above. What is left, in this order:

1. `LedSettled` under `Spec`, where the keys come from the buttons: a simulation of
   the LED's half of `Spec` by `LedSpec`.
2. Action properties worth proving from the invariants at hand: a score never
   decreases during a game, an address is never given up without a reset.
3. A refinement that relates Pad's three bus actions to UsbDevice.
