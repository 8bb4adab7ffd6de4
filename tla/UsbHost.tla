------------------------------- MODULE UsbHost -------------------------------
(***************************************************************************)
(* The host's USB layer (libusb/usb_host.c): init_usb finds the device by  *)
(* its product number, detaches the kernel's drivers, sets the             *)
(* configuration and claims the interfaces; key_pressed and usb_send then  *)
(* use the endpoints it has saved.  libusb is external: any call may fail, *)
(* and the device may be unplugged at any time.  Only the configuration    *)
(* descriptor of index 0 always comes, from libusb's cache.                *)
(*                                                                         *)
(* A device is a record of its product number, its interfaces and those of *)
(* them that the kernel has a driver for; an interface is the sequence of  *)
(* its endpoints, an endpoint its address and transfer type.               *)
(***************************************************************************)
EXTENDS Integers, Sequences, FiniteSets

CONSTANTS
  Lists,      \* the device lists libusb may return
  KeyCodes,   \* the bytes the gamepad sends
  Garbage     \* what an uninitialised byte may hold

VARIABLES
  pc,         \* where init_usb is; "ready" once it has returned 0
  i,          \* the loop index, from 1
  list,       \* the device list
  listed,     \* the list is allocated
  handle,     \* index of the opened device, 0 before
  configured, \* the device has a configuration
  kernel,     \* interfaces a kernel driver is attached to
  claimed,    \* interfaces the program has claimed
  endp_list,  \* the endpoints saved, cpt of them
  plugged,    \* the opened device is there
  fault,      \* history: the device was unplugged, or a call failed for a reason
              \* outside this model (no memory, no rights, an error on the bus)
  key         \* what key_pressed last returned

deviceVars == <<configured, kernel, claimed, plugged>>

vars == <<pc, i, list, listed, handle, deviceVars, endp_list, fault, key>>

ID_PRODUCT == 4660   \* 0x1234

INTERRUPT == 3

ENDP_MAX == 10   \* the cells of endp_list

\* PAD_ConfigurationDescriptor: "Boutons" with one IN endpoint, "LED" with
\* one OUT endpoint.  Both are vendor specific: no driver takes them.
PAD == [product    |-> ID_PRODUCT,
        interfaces |-> << <<[address |-> 129, type |-> INTERRUPT]>>,
                          <<[address |-> 2, type |-> INTERRUPT]>> >>,
        drivers    |-> {}]

Endpoints == [address : Int, type : 0..3]

Devices == [product : Int, interfaces : Seq(Seq(Endpoints)), drivers : SUBSET Int]

ASSUME ListsAssumption ==
  \A l \in Lists :
    /\ l \in Seq(Devices)
    /\ \A n \in DOMAIN l : /\ l[n].drivers \subseteq DOMAIN l[n].interfaces
                          /\ Len(l[n].interfaces) <= 255   \* bNumInterfaces is a byte
ASSUME KeysAssumption == KeyCodes \subseteq 0..255 /\ Garbage \subseteq 0..255

Interfaces == list[handle].interfaces

Interrupt(endps) == {k \in DOMAIN endps : endps[k].type = INTERRUPT}

Init ==
  /\ pc = "init" /\ i = 1 /\ list \in Lists /\ listed = FALSE /\ handle = 0
  /\ configured = FALSE /\ kernel = {} /\ claimed = {} /\ plugged = TRUE
  /\ endp_list = <<>> /\ fault = FALSE /\ key = 0

-----------------------------------------------------------------------------
(* init_usb and get_usb_device.  "failed" is a return of 1, on which main  *)
(* ends the program, "exit" an exit(-1) inside, "crash" what the use of a  *)
(* pointer that was never set, or a write past endp_list, may end in.      *)

\* A call fails for a reason outside this model.
Fail(end) == pc' = end /\ fault' = TRUE

libusb_init ==
  /\ pc = "init"
  /\ (pc' = "list" /\ UNCHANGED fault) \/ Fail("failed")
  /\ UNCHANGED <<i, list, listed, handle, deviceVars, endp_list, key>>

get_device_list ==
  /\ pc = "list"
  /\ \/ pc' = "device" /\ listed' = TRUE /\ UNCHANGED fault
     \/ Fail("exit") /\ UNCHANGED listed
  /\ UNCHANGED <<i, list, handle, deviceVars, endp_list, key>>

\* The device is another product, or its descriptor cannot be read.
SkipDevice ==
  /\ pc = "device" /\ i <= Len(list)
  /\ i' = i + 1
  /\ fault' = (fault \/ list[i].product = ID_PRODUCT)
  /\ UNCHANGED <<pc, list, listed, handle, deviceVars, endp_list, key>>

\* Mutant: the index has moved on when the device is opened.
Opened_Late == i + 1

Opened == i

\* The first device of the product is opened; nothing else is compared.
OpenDevice ==
  /\ pc = "device" /\ i <= Len(list) /\ list[i].product = ID_PRODUCT
  /\ \/ /\ plugged
        /\ pc' = "active" /\ handle' = Opened /\ listed' = FALSE
        /\ configured' \in BOOLEAN
        /\ kernel' \in SUBSET list[i].drivers /\ (~configured' => kernel' = {})
        /\ UNCHANGED fault
     \/ Fail("exit") /\ UNCHANGED <<handle, listed, configured, kernel>>
  /\ UNCHANGED <<i, list, claimed, plugged, endp_list, key>>

NotFound ==
  /\ pc = "device" /\ i > Len(list)
  /\ pc' = "failed" /\ listed' = FALSE
  /\ UNCHANGED <<i, list, handle, deviceVars, endp_list, fault, key>>

-----------------------------------------------------------------------------
(* unclaim_active_config and the configuration.                            *)

\* What the loop may end in when config was never set: it runs on whatever
\* the pointer shows, and may detach some of the drivers on its way.
StrayEnds == {"crash", "exit", "config"}

\* A device without a configuration has no active descriptor to give; the
\* result of the call is not tested.
active_config ==
  /\ pc = "active"
  /\ \/ configured /\ pc' = "detach" /\ UNCHANGED <<kernel, fault>>
     \/ ~configured /\ pc' \in StrayEnds /\ UNCHANGED <<kernel, fault>>
     \/ \E end \in StrayEnds : Fail(end) /\ kernel' \in SUBSET kernel
  /\ i' = 1
  /\ UNCHANGED <<list, listed, handle, configured, claimed, plugged, endp_list, key>>

\* Mutant: the loop stops one interface early.
DetachEnd_Early == i >= Len(Interfaces)

DetachEnd == i > Len(Interfaces)

\* A failing libusb_kernel_driver_active counts as yes.
detach ==
  /\ pc = "detach" /\ ~DetachEnd
  /\ \/ /\ plugged /\ kernel' = kernel \ {i}
        /\ i' = i + 1 /\ UNCHANGED <<pc, fault>>
     \/ Fail("exit") /\ UNCHANGED <<i, kernel>>
  /\ UNCHANGED <<list, listed, handle, configured, claimed, plugged, endp_list, key>>

detached ==
  /\ pc = "detach" /\ DetachEnd
  /\ pc' = "config"
  /\ UNCHANGED <<i, list, listed, handle, deviceVars, endp_list, fault, key>>

\* Refused while a driver is attached; the kernel may attach its drivers
\* again afterwards.
set_configuration ==
  /\ pc = "config"
  /\ \/ /\ plugged /\ kernel = {}
        /\ pc' = "save" /\ i' = 1 /\ configured' = TRUE
        /\ kernel' \in SUBSET list[handle].drivers
        /\ UNCHANGED fault
     \/ /\ kernel # {} /\ pc' = "failed"
        /\ UNCHANGED <<i, configured, kernel, fault>>
     \/ Fail("failed") /\ UNCHANGED <<i, configured, kernel>>
  /\ UNCHANGED <<list, listed, handle, claimed, plugged, endp_list, key>>

-----------------------------------------------------------------------------
(* save_interrupt_endpoints.                                               *)

\* Mutant: without the break, every interrupt endpoint is saved.
Saved_All(endps) == SelectSeq(endps, LAMBDA endp : endp.type = INTERRUPT)

\* The first interrupt endpoint of an interface, or none.
Saved(endps) ==
  IF Interrupt(endps) = {} THEN <<>>
  ELSE << endps[CHOOSE k \in Interrupt(endps) : \A l \in Interrupt(endps) : k <= l] >>

\* Mutant: an interface without an interrupt endpoint is not claimed.
Claimed_Interrupt == IF Interrupt(Interfaces[i]) = {} THEN claimed ELSE claimed \cup {i}

Claimed == claimed \cup {i}

\* endp_list[cpt] is written without a look at cpt.
Overrun == Interrupt(Interfaces[i]) # {} /\ Len(endp_list) = ENDP_MAX

\* A write past the array destroys what lies behind it: the program crashes,
\* or goes on with the ten entries it has.
save_endpoint ==
  endp_list' = IF Overrun THEN endp_list ELSE endp_list \o Saved(Interfaces[i])

\* A claim is refused for an interface that a kernel driver holds.
save_interface ==
  /\ pc = "save" /\ i <= Len(Interfaces)
  /\ save_endpoint
  /\ \/ Overrun /\ pc' = "crash" /\ UNCHANGED <<claimed, i, fault>>
     \/ /\ plugged /\ i \notin kernel
        /\ claimed' = Claimed /\ i' = i + 1 /\ UNCHANGED <<pc, fault>>
     \/ i \in kernel /\ pc' = "exit" /\ UNCHANGED <<claimed, i, fault>>
     \/ Fail("exit") /\ UNCHANGED <<claimed, i>>
  /\ UNCHANGED <<list, listed, handle, configured, kernel, plugged, key>>

saved ==
  /\ pc = "save" /\ i > Len(Interfaces)
  /\ pc' = "ready"
  /\ UNCHANGED <<i, list, listed, handle, deviceVars, endp_list, fault, key>>

-----------------------------------------------------------------------------
(* key_pressed.  An entry of endp_list that was never written is zero,     *)
(* which is not the address of an IN endpoint.  (usb_send changes nothing  *)
(* on this side; Joystick models what it sends.)                           *)

HasIN == endp_list # <<>> /\ endp_list[1].address >= 128

\* A byte, or a time-out with bytes_in = 0.
key_received ==
  /\ pc = "ready" /\ plugged /\ HasIN
  /\ key' \in KeyCodes \cup {0}
  /\ UNCHANGED <<pc, i, list, listed, handle, deviceVars, endp_list, fault>>

\* The transfer is not submitted, and bytes_in and data are what the stack
\* held; or the entry is an OUT endpoint and the stack's byte is sent.
key_unset ==
  /\ pc = "ready" /\ ~(plugged /\ HasIN)
  /\ key' \in Garbage \cup {0}
  /\ UNCHANGED <<pc, i, list, listed, handle, deviceVars, endp_list, fault>>

Unplug ==
  /\ plugged /\ plugged' = FALSE /\ fault' = TRUE
  /\ configured' = FALSE /\ kernel' = {} /\ claimed' = {}
  /\ UNCHANGED <<pc, i, list, listed, handle, endp_list, key>>

Next ==
  \/ libusb_init \/ get_device_list \/ SkipDevice \/ OpenDevice \/ NotFound
  \/ active_config \/ detach \/ detached \/ set_configuration
  \/ save_interface \/ saved \/ key_received \/ key_unset \/ Unplug

Spec == Init /\ [][Next]_vars

-----------------------------------------------------------------------------
\* Types of the program's globals and of the state libusb keeps for it.
TypeOK ==
  /\ pc \in {"init", "list", "device", "active", "detach", "config", "save", "ready",
             "failed", "exit", "crash"}
  /\ list \in Lists /\ i \in Nat \ {0} /\ handle \in {0} \cup DOMAIN list
  /\ listed \in BOOLEAN /\ configured \in BOOLEAN /\ plugged \in BOOLEAN /\ fault \in BOOLEAN
  /\ kernel \subseteq Int /\ claimed \subseteq Int
  /\ endp_list \in Seq(Endpoints) /\ Len(endp_list) <= ENDP_MAX /\ key \in 0..255

\* init_usb returns 0 (usb_host.c:36) only with a usable device: one of the
\* product, the first unless an earlier one could not be read, every
\* interface claimed and none left to the kernel, as long as it is plugged,
\* and the device list freed.
SuccessMeansUsable ==
  pc = "ready" =>
    /\ ~listed /\ handle \in DOMAIN list /\ list[handle].product = ID_PRODUCT
    /\ ~fault => \A n \in 1..(handle - 1) : list[n].product # ID_PRODUCT
    /\ plugged => /\ configured /\ claimed = DOMAIN Interfaces
                  /\ claimed \cap kernel = {}

\* How many of the interfaces up to n have an interrupt endpoint.
Rank(n) == Cardinality({l \in 1..n : Interrupt(Interfaces[l]) # {}})

\* save_interrupt_endpoints appends what it meets (usb_host.c:118), and
\* key_pressed and usb_send take entries 0 and 1 without looking
\* (usb_host.c:136,149): the endpoint of interface n is the entry of n's rank,
\* which is n only when no interface up to n lacks one, and every interface
\* whose rank is within the array keeps its entry, even after an overrun.
EndpointsInPlace ==
  pc = "ready" =>
    \A n \in DOMAIN Interfaces :
      (Interrupt(Interfaces[n]) # {} /\ Rank(n) <= ENDP_MAX)
        => /\ Rank(n) \in DOMAIN endp_list
           /\ \E k \in Interrupt(Interfaces[n]) : endp_list[Rank(n)] = Interfaces[n][k]

\* When no call fails by chance and nobody unplugs, init_usb returns 1 only
\* for a list without the product: the detaching (usb_host.c:77-88) leaves no
\* driver that would refuse the configuration.  It exits only on a device
\* without a configuration (usb_host.c:69) or at an interface that the kernel
\* has taken back (usb_host.c:126), and crashes only on a device without a
\* configuration or with an eleventh interrupt endpoint (usb_host.c:118).
RefusalsExplained ==
  ~fault =>
    /\ pc = "failed" => \A n \in DOMAIN list : list[n].product # ID_PRODUCT
    /\ pc = "exit" => handle # 0 /\ (~configured \/ i \in kernel)
    /\ pc = "crash" => handle # 0 /\ (~configured \/ Rank(i) > ENDP_MAX)

\* Documented (README.md, "Protocole USB"): what comes from the IN endpoint
\* is the code of a button, so key_pressed returns one of them or 0.
KeyFromPad == key \in KeyCodes \cup {0}
=============================================================================
