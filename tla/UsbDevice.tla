------------------------------ MODULE UsbDevice ------------------------------
(***************************************************************************)
(* The LUFA device stack under the USB firmware, as built for the          *)
(* ATmega16u2 (AT16u2/LUFA/Drivers/USB/Core with PAD/Config/LUFAConfig.h), *)
(* with the main loop of pad.c and the bus on the other side.              *)
(*                                                                         *)
(* The interrupt handler USB_GEN_vect may run between any two steps of the *)
(* loop (m.pc).  The register UENUM selects the endpoint that every access *)
(* goes to; loop and handler share it.  Endpoint 0 is the control          *)
(* endpoint, 1 the IN endpoint of the buttons, 2 the OUT endpoint of the   *)
(* LED.  Host, bus and controller are external: the host enumerates        *)
(* (reset, SET_ADDRESS, GET_DESCRIPTOR, SET_CONFIGURATION) and, when an    *)
(* answer does not come, disables the port and starts again.               *)
(***************************************************************************)
EXTENDS Integers

CONSTANTS
  Extra,        \* requests the host may issue once the device is configured
  MaxRequests,  \* bound: how many of them
  MaxFaults,    \* bound: resets, suspends and early requests out of order
  Packets       \* packets of a descriptor

ASSUME DeviceBounds == MaxRequests \in Nat /\ MaxFaults \in Nat /\ Packets \in Nat \ {0}

VARIABLES
  d,           \* USB_DeviceState, USB_Device_ConfigurationNumber, the address
               \* and endpoint registers, interrupt enables and flags
  e,           \* the endpoints
  m,           \* the main loop and its locals
  state_send,  \* a byte from the ATmega328p waits (pad.c)
  h            \* the host and the bus

vars == <<d, e, m, state_send, h>>

Requests == {"SetAddress", "GetDescriptor", "SetConfiguration", "Unconfigure",
             "GetStatus", "SetFeature", "ClearFeature", "Unknown"}

ASSUME ExtraRequests == Extra \subseteq Requests \ {"SetAddress"}

IsGet(r) == r \in {"GetDescriptor", "GetStatus"}

\* After SetupHardware: USB_Init_Device has configured endpoint 0, enabled
\* SUSPI and EORSTI and attached; the host is about to reset the bus.
Init ==
  /\ d = [DeviceState |-> "Unattached", ConfigurationNumber |-> 0, ADDEN |-> FALSE,
          UENUM |-> 0, SUSPE |-> TRUE, WAKEUPE |-> FALSE, WAKEUPI |-> FALSE,
          EORSTI |-> FALSE]
  /\ e = [setup |-> "none", in |-> "free", out |-> FALSE, control |-> TRUE,
          bank |-> [n \in 1..2 |-> "off"]]
  /\ m = [pc |-> "usbtask", PrevEndpoint |-> 0, nested |-> FALSE, req |-> "Unknown",
          next |-> "Powered", Number |-> 1, EPNum |-> 1, config |-> "none", left |-> 0]
  /\ state_send = FALSE
  /\ h = [st |-> "reset", x |-> "none", req |-> "Unknown", left |-> 0, addr |-> FALSE,
          bus |-> "active", faults |-> 0, requests |-> 0]

-----------------------------------------------------------------------------
(* The endpoints.  e.setup is the request received on endpoint 0; e.in its *)
(* IN side: "fifo" holds a byte not yet handed over, "zlp", "data" and     *)
(* "junk" wait for the host; e.control tells whether endpoint 0 still has  *)
(* the control type.  A bank is "off", "held" (allocated, but disabled by  *)
(* a bus reset), "empty", "full" or "stalled".                             *)

INReady == e.in \in {"free", "fifo", "stall"}

Sent(in, kind) == IF in = "stall" THEN in ELSE IF in = "fifo" THEN "junk" ELSE kind

SendControl(kind) == [e EXCEPT !.in = Sent(@, kind)]

\* RWAL always reads 0 on a control endpoint.
IsReadWriteAllowed ==
  \/ d.UENUM = 1 /\ e.bank[1] = "empty"
  \/ d.UENUM = 2 /\ e.bank[2] = "full"

IsOUTReceived == IF d.UENUM = 0 THEN e.out ELSE d.UENUM = 2 /\ e.bank[2] = "full"

ClearIN ==
  IF d.UENUM = 0
  THEN IF INReady THEN SendControl("zlp") ELSE e
  ELSE IF d.UENUM = 1 /\ e.bank[1] = "empty" THEN [e EXCEPT !.bank[1] = "full"] ELSE e

ClearOUT ==
  IF d.UENUM = 0 THEN [e EXCEPT !.out = FALSE]
  ELSE IF IsOUTReceived THEN [e EXCEPT !.bank[2] = "empty"] ELSE e

Flushed(ep) == [ep EXCEPT !.setup = "none", !.in = "free", !.out = FALSE]

\* Endpoint_ConfigureEndpoint_Prv(0), which also sets up again every later
\* endpoint that is allocated.
ConfigureControl(ep) ==
  [Flushed(ep) EXCEPT !.control = TRUE,
                      !.bank = [n \in 1..2 |-> IF @[n] = "off" THEN "off" ELSE "empty"]]

-----------------------------------------------------------------------------
(* USB_GEN_vect: the three branches in the order of the handler.           *)

SuspendBranch(s) ==
  IF h.bus = "idle" /\ s.SUSPE
  THEN [s EXCEPT !.SUSPE = FALSE, !.WAKEUPE = TRUE, !.DeviceState = "Unattached"]
  ELSE s

\* Mutant: a wake-up does not look at the configuration number.
WakeUpBranch_Address(s) ==
  IF s.WAKEUPI /\ s.WAKEUPE
  THEN [s EXCEPT !.WAKEUPI = FALSE, !.WAKEUPE = FALSE, !.SUSPE = TRUE,
                 !.DeviceState = IF s.ADDEN THEN "Addressed" ELSE "Powered"]
  ELSE s

WakeUpBranch(s) ==
  IF s.WAKEUPI /\ s.WAKEUPE
  THEN [s EXCEPT !.WAKEUPI = FALSE, !.WAKEUPE = FALSE, !.SUSPE = TRUE,
                 !.DeviceState = IF s.ConfigurationNumber # 0 THEN "Configured"
                                 ELSE IF s.ADDEN THEN "Addressed" ELSE "Powered"]
  ELSE s

\* Mutant: the reset does not change the state.
ResetBranch_KeepState(s) ==
  IF s.EORSTI
  THEN [s EXCEPT !.EORSTI = FALSE, !.ConfigurationNumber = 0,
                 !.SUSPE = FALSE, !.WAKEUPE = TRUE, !.UENUM = 0]
  ELSE s

\* Leaves endpoint 0 selected, whatever the loop had selected.
ResetBranch(s) ==
  IF s.EORSTI
  THEN [s EXCEPT !.EORSTI = FALSE, !.DeviceState = "Default", !.ConfigurationNumber = 0,
                 !.SUSPE = FALSE, !.WAKEUPE = TRUE, !.UENUM = 0]
  ELSE s

InterruptPending ==
  (h.bus = "idle" /\ d.SUSPE) \/ (d.WAKEUPI /\ d.WAKEUPE) \/ d.EORSTI

USB_GEN_vect ==
  /\ InterruptPending
  /\ d' = ResetBranch(WakeUpBranch(SuspendBranch(d)))
  /\ e' = IF d.EORSTI THEN ConfigureControl(e) ELSE e
  /\ UNCHANGED <<m, state_send, h>>

USART1_RX_vect == state_send' = TRUE /\ UNCHANGED <<d, e, m, h>>

-----------------------------------------------------------------------------
(* The main loop.  At(p) and Go(p) read and set its program counter.       *)

At(p) == m.pc = p
Go(p) == m' = [m EXCEPT !.pc = p]

Unattached == d.DeviceState = "Unattached"

\* USB_DeviceTask, called by the loop or by Endpoint_Write_Stream_LE.
Return == [m EXCEPT !.pc = IF m.nested THEN "wait" ELSE "pad", !.nested = FALSE]

USB_DeviceTask ==
  /\ At("usbtask")
  /\ IF Unattached
     THEN m' = Return /\ UNCHANGED d
     ELSE /\ m' = [m EXCEPT !.PrevEndpoint = d.UENUM, !.pc = "setup"]
          /\ d' = [d EXCEPT !.UENUM = 0]
  /\ UNCHANGED <<e, state_send>>

IsSETUPReceived ==
  /\ At("setup")
  /\ IF e.setup = "none" THEN Go("restore")
     ELSE m' = [m EXCEPT !.req = e.setup, !.pc = "dispatch"]
  /\ UNCHANGED <<d, e, state_send>>

RestoreEndpoint ==
  /\ At("restore")
  /\ d' = [d EXCEPT !.UENUM = m.PrevEndpoint]
  /\ m' = Return
  /\ UNCHANGED <<e, state_send>>

\* USB_Device_ProcessControlRequest tests for the SETUP again: a reset may
\* have dropped it.
ProcessControlRequest ==
  /\ At("dispatch")
  /\ Go(IF e.setup = "none" \/ m.req = "Unknown" THEN "leftover" ELSE m.req)
  /\ UNCHANGED <<d, e, state_send>>

\* What no handler has taken is stalled: unknown requests, descriptors that
\* do not exist, configuration numbers above 1.
Leftover ==
  /\ At("leftover")
  /\ e' = IF d.UENUM = 0 /\ e.setup # "none"
          THEN [e EXCEPT !.setup = "none", !.in = "stall"] ELSE e
  /\ Go("restore")
  /\ UNCHANGED <<d, state_send>>

-----------------------------------------------------------------------------
(* Endpoint_ClearStatusStage.                                              *)

StatusReady == IF IsGet(m.req) THEN e.out ELSE INReady

AfterStatus ==
  IF m.req = "SetAddress" THEN "address"
  ELSE IF m.req \in {"SetConfiguration", "Unconfigure"} THEN "number" ELSE "leftover"

\* Mutant: the wait for the status stage ignores a disconnection.
ClearStatusStage_NoExit ==
  /\ At("status") /\ StatusReady
  /\ e' = IF IsGet(m.req) THEN [e EXCEPT !.out = FALSE] ELSE SendControl("zlp")
  /\ Go(AfterStatus)
  /\ UNCHANGED <<d, state_send>>

ClearStatusStage ==
  /\ At("status")
  /\ \/ /\ StatusReady
        /\ e' = IF IsGet(m.req) THEN [e EXCEPT !.out = FALSE] ELSE SendControl("zlp")
     \/ ~StatusReady /\ Unattached /\ UNCHANGED e
  /\ Go(AfterStatus)
  /\ UNCHANGED <<d, state_send>>

(* USB_Device_SetAddress.  The second wait has no way out but INReady.     *)

SetAddress ==
  /\ At("SetAddress")
  /\ e' = [e EXCEPT !.setup = "none"]
  /\ Go("status")
  /\ UNCHANGED <<d, state_send>>

EnableDeviceAddress ==
  /\ At("address") /\ INReady
  /\ d' = [d EXCEPT !.ADDEN = TRUE]
  /\ Go("addressed")
  /\ UNCHANGED <<e, state_send>>

Addressed ==
  /\ At("addressed")
  /\ d' = [d EXCEPT !.DeviceState = "Addressed"]
  /\ Go("leftover")
  /\ UNCHANGED <<e, state_send>>

(* USB_Device_SetConfiguration: the new state is computed from what the    *)
(* reset handler may have changed, then stored.                            *)

SetConfiguration ==
  /\ m.pc \in {"SetConfiguration", "Unconfigure"}
  /\ e' = [e EXCEPT !.setup = "none"]
  /\ d' = [d EXCEPT !.ConfigurationNumber = IF At("SetConfiguration") THEN 1 ELSE 0]
  /\ Go("status")
  /\ UNCHANGED state_send

ReadNumber ==
  /\ At("number")
  /\ m' = [m EXCEPT !.pc = "store",
                    !.next = IF d.ConfigurationNumber # 0 \/ d.ADDEN THEN "Configured" ELSE "Powered"]
  /\ UNCHANGED <<d, e, state_send>>

StoreState ==
  /\ At("store")
  /\ d' = [d EXCEPT !.DeviceState = m.next]
  /\ m' = [m EXCEPT !.pc = "select", !.Number = 1, !.EPNum = 1]
  /\ UNCHANGED <<e, state_send>>

-----------------------------------------------------------------------------
(* EVENT_USB_Device_ConfigurationChanged: Endpoint_ConfigureEndpoint_Prv   *)
(* for endpoint 1, then 2.  The loop of each goes on to the later          *)
(* endpoints; 3 and 4 are never allocated.                                 *)

SelectEPNum ==
  /\ At("select")
  /\ d' = [d EXCEPT !.UENUM = m.EPNum]
  /\ Go("read")
  /\ UNCHANGED <<e, state_send>>

Config ==
  IF m.EPNum = m.Number THEN "interrupt"
  ELSE IF d.UENUM = 0 THEN "control"
  ELSE IF e.bank[d.UENUM] = "off" THEN "none" ELSE "interrupt"

\* Mutant: the loop goes one endpoint too far.
NextEPNum_Over == IF m.EPNum < 3 THEN [m EXCEPT !.EPNum = @ + 1, !.pc = "select"]
                  ELSE [m EXCEPT !.pc = "selected"]

NextEPNum == IF m.EPNum < 2 THEN [m EXCEPT !.EPNum = @ + 1, !.pc = "select"]
             ELSE [m EXCEPT !.pc = "selected"]

ReadConfig ==
  /\ At("read")
  /\ m' = IF Config = "none" THEN NextEPNum ELSE [m EXCEPT !.config = Config, !.pc = "write"]
  /\ UNCHANGED <<d, e, state_send>>

\* The configuration goes to whatever endpoint is selected by now.
WriteConfig ==
  /\ At("write")
  /\ e' = IF d.UENUM = 0 THEN [Flushed(e) EXCEPT !.control = (m.config = "control")]
          ELSE [e EXCEPT !.bank[d.UENUM] = "empty"]
  /\ m' = NextEPNum
  /\ UNCHANGED <<d, state_send>>

Selected ==
  /\ At("selected")
  /\ d' = [d EXCEPT !.UENUM = m.Number]
  /\ m' = IF m.Number = 1 THEN [m EXCEPT !.Number = 2, !.EPNum = 2, !.pc = "select"]
          ELSE [m EXCEPT !.pc = "leftover"]
  /\ UNCHANGED <<e, state_send>>

-----------------------------------------------------------------------------
(* The requests that return data, and the endpoint halt feature.           *)

GetDescriptor ==
  /\ At("GetDescriptor")
  /\ e' = [e EXCEPT !.setup = "none"]
  /\ m' = [m EXCEPT !.pc = "stream", !.left = Packets]
  /\ UNCHANGED <<d, state_send>>

\* Endpoint_Write_Control_PStream_LE; with nothing left, its second loop.
ControlStream ==
  /\ At("stream")
  /\ \/ (Unattached \/ e.setup # "none" \/ e.out) /\ Go("clearout") /\ UNCHANGED e
     \/ /\ ~Unattached /\ e.setup = "none" /\ ~e.out
        /\ m.left > 0 /\ INReady
        /\ e' = SendControl("data")
        /\ m' = [m EXCEPT !.left = @ - 1]
  /\ UNCHANGED <<d, state_send>>

ControlStreamEnd ==
  /\ At("clearout")
  /\ e' = [e EXCEPT !.out = FALSE]
  /\ Go("leftover")
  /\ UNCHANGED <<d, state_send>>

\* Also USB_Device_GetConfiguration: one packet, sent without a wait.
GetStatus ==
  /\ At("GetStatus")
  /\ e' = [SendControl("data") EXCEPT !.setup = "none"]
  /\ Go("status")
  /\ UNCHANGED <<d, state_send>>

ClearSetFeature ==
  /\ m.pc \in {"SetFeature", "ClearFeature"}
  /\ d' = [d EXCEPT !.UENUM = 1]
  /\ Go("halt")
  /\ UNCHANGED <<e, state_send>>

EndpointHalt ==
  /\ At("halt")
  /\ e' = LET up == [e EXCEPT !.setup = "none"] IN
          IF m.req = "SetFeature" /\ d.UENUM = 0 THEN [up EXCEPT !.in = "stall"]
          ELSE IF e.bank[1] \in {"off", "held"} THEN up
          ELSE [up EXCEPT !.bank[1] = IF m.req = "SetFeature" THEN "stalled" ELSE "empty"]
  /\ d' = [d EXCEPT !.UENUM = 0]
  /\ Go("status")
  /\ UNCHANGED state_send

-----------------------------------------------------------------------------
(* PAD_Task.                                                               *)

PAD_Task ==
  /\ At("pad")
  /\ Go(IF d.DeviceState = "Configured" THEN "send" ELSE "usbtask")
  /\ UNCHANGED <<d, e, state_send>>

SendNextReport ==
  /\ At("send")
  /\ IF state_send THEN d' = [d EXCEPT !.UENUM = 1] /\ Go("rw")
     ELSE Go("recv") /\ UNCHANGED d
  /\ UNCHANGED <<e, state_send>>

TestReadWrite ==
  /\ At("rw")
  /\ Go(IF IsReadWriteAllowed THEN "wait" ELSE "clear")
  /\ UNCHANGED <<d, e, state_send>>

\* Endpoint_WaitUntilReady; frames pass while the bus is active, so that the
\* wait ends with a time-out at the latest.  An endpoint of type CONTROL has
\* direction OUT.
WaitUntilReady ==
  /\ At("wait")
  /\ LET ready == IF d.UENUM = 0 THEN e.out ELSE e.bank[1] = "empty" IN
     \/ ready /\ Go("loop")
     \/ ~ready /\ (Unattached \/ h.bus = "active") /\ Go("clearin")
  /\ UNCHANGED <<d, e, state_send>>

\* Endpoint_Write_Stream_LE: when the bank may not be written it is handed
\* over, USB_USBTask is called and the wait starts again.
WriteStream ==
  /\ At("loop")
  /\ IF IsReadWriteAllowed THEN Go("byte") /\ UNCHANGED e
     ELSE /\ e' = ClearIN
          /\ m' = [m EXCEPT !.nested = TRUE, !.pc = "usbtask"]
  /\ UNCHANGED <<d, state_send>>

WriteByte ==
  /\ At("byte")
  /\ e' = IF d.UENUM = 0 /\ e.in = "free" THEN [e EXCEPT !.in = "fifo"] ELSE e
  /\ Go("clearin")
  /\ UNCHANGED <<d, state_send>>

SendReport ==
  /\ At("clearin")
  /\ e' = ClearIN
  /\ Go("clear")
  /\ UNCHANGED <<d, state_send>>

ClearState ==
  /\ At("clear")
  /\ state_send' = FALSE
  /\ Go("recv")
  /\ UNCHANGED <<d, e>>

ReceiveNextReport ==
  /\ At("recv")
  /\ d' = [d EXCEPT !.UENUM = 2]
  /\ Go("out")
  /\ UNCHANGED <<e, state_send>>

TestOUT ==
  /\ At("out")
  /\ Go(IF IsOUTReceived THEN "taken" ELSE "usbtask")
  /\ UNCHANGED <<d, e, state_send>>

TakeReport ==
  /\ At("taken")
  /\ e' = ClearOUT
  /\ Go("usbtask")
  /\ UNCHANGED <<d, state_send>>

Main ==
  /\ \/ USB_DeviceTask \/ IsSETUPReceived \/ RestoreEndpoint
     \/ ProcessControlRequest \/ Leftover \/ ClearStatusStage
     \/ SetAddress \/ EnableDeviceAddress \/ Addressed
     \/ SetConfiguration \/ ReadNumber \/ StoreState
     \/ SelectEPNum \/ ReadConfig \/ WriteConfig \/ Selected
     \/ GetDescriptor \/ ControlStream \/ ControlStreamEnd \/ GetStatus
     \/ ClearSetFeature \/ EndpointHalt
     \/ PAD_Task \/ SendNextReport \/ TestReadWrite \/ WaitUntilReady
     \/ WriteStream \/ WriteByte \/ SendReport \/ ClearState
     \/ ReceiveNextReport \/ TestOUT \/ TakeReport
  /\ UNCHANGED h

-----------------------------------------------------------------------------
(* The host and the bus (external).                                        *)

Reach == h.bus = "active" /\ e.control /\ d.ADDEN = h.addr

InRequest == m.pc \notin {"usbtask", "setup", "restore", "pad", "send", "rw", "wait",
                          "loop", "byte", "clearin", "clear", "recv", "out", "taken"}

\* The loop waits for something only the host can do.
Blocked ==
  \/ At("status") /\ ~StatusReady
  \/ At("address") /\ ~INReady
  \/ At("stream") /\ ~e.out /\ e.setup = "none" /\ (m.left = 0 \/ ~INReady)

Host(A) == A /\ UNCHANGED <<m, state_send>>

Fault(cost) == h.faults + (IF cost THEN 1 ELSE 0)

BusReset ==
  /\ h.st = "reset"
  /\ d' = [d EXCEPT !.ADDEN = FALSE, !.EORSTI = TRUE]
  /\ \E keep \in BOOLEAN :
       e' = [Flushed(e) EXCEPT !.bank =
               [n \in 1..2 |-> IF keep /\ @[n] # "off" THEN "held" ELSE "off"]]
  /\ h' = [h EXCEPT !.st = "addr", !.x = "none", !.addr = FALSE, !.bus = "active"]

\* A reset out of order, and a suspended and resumed bus.
SpontaneousReset ==
  /\ h.st \notin {"off", "reset"} /\ h.faults < MaxFaults
  /\ h' = [h EXCEPT !.st = "reset", !.x = "none", !.faults = @ + 1]
  /\ UNCHANGED <<d, e>>

SuspendBus ==
  /\ h.st \notin {"off", "reset"} /\ h.bus = "active" /\ h.faults < MaxFaults
  /\ h' = [h EXCEPT !.bus = "idle", !.faults = @ + 1]
  /\ UNCHANGED <<d, e>>

ResumeBus ==
  /\ h.st \notin {"off", "reset"} /\ h.bus = "idle"
  /\ d' = [d EXCEPT !.WAKEUPI = TRUE]
  /\ h' = [h EXCEPT !.bus = "active"]
  /\ UNCHANGED e

\* WAKEUPI is raised by traffic, whether or not it is enabled.
Traffic ==
  /\ h.bus = "active" /\ h.st # "reset" /\ ~d.EORSTI /\ ~d.WAKEUPI
  /\ d' = [d EXCEPT !.WAKEUPI = TRUE]
  /\ UNCHANGED <<e, h>>

Next_Request ==
  IF h.st = "addr" THEN {"SetAddress"}
  ELSE IF h.st = "desc" THEN {"GetDescriptor"}
  ELSE IF h.st = "conf" THEN {"SetConfiguration"}
  ELSE IF h.st = "ready" /\ h.requests < MaxRequests THEN Extra ELSE {}

\* A SETUP packet overwrites what endpoint 0 holds.  The host leaves the
\* device time to finish the last request; not to do so is a fault.
Setup ==
  /\ h.x = "none" /\ h.bus = "active" /\ ~d.EORSTI
  /\ \E r \in Next_Request, out \in {FALSE, e.out} :
       LET early == InRequest /\ ~Blocked IN
       /\ early => h.faults < MaxFaults
       /\ e' = IF Reach THEN [e EXCEPT !.setup = r, !.in = "free", !.out = out] ELSE e
       /\ h' = [h EXCEPT !.x = IF IsGet(r) THEN "data" ELSE "status", !.req = r,
                         !.left = IF r = "GetDescriptor" THEN Packets ELSE 1,
                         !.faults = Fault(early),
                         !.requests = IF h.st = "ready" THEN @ + 1 ELSE @]
  /\ UNCHANGED d

Done == [h EXCEPT !.x = "none",
                  !.addr = (@ \/ h.st = "addr"),
                  !.st = IF @ = "addr" THEN "desc"
                         ELSE IF @ = "desc" \/ h.req = "Unconfigure" THEN "conf" ELSE "ready"]

\* A failed attempt: the port is disabled and the bus falls idle.
Failed == [h EXCEPT !.x = "none", !.st = "off", !.bus = "idle"]

TakeIn ==
  /\ h.x \in {"data", "status"} /\ Reach /\ e.in \in {"zlp", "data", "junk"}
  /\ e' = [e EXCEPT !.in = "free"]
  /\ h' = IF h.x = "status" /\ e.in = "zlp" THEN Done
          ELSE IF h.x = "data" /\ e.in = "data"
          THEN [h EXCEPT !.left = @ - 1, !.x = IF h.left = 1 THEN "out" ELSE @]
          ELSE Failed
  /\ UNCHANGED d

SendStatus ==
  /\ h.x = "out" /\ Reach /\ ~e.out
  /\ e' = [e EXCEPT !.out = TRUE]
  /\ h' = Done
  /\ UNCHANGED d

SeeStall ==
  /\ h.x # "none" /\ Reach /\ e.in = "stall"
  /\ h' = IF h.st = "ready" THEN [h EXCEPT !.x = "none"] ELSE Failed
  /\ UNCHANGED <<d, e>>

Answered == Reach /\ (e.in \in {"zlp", "data", "junk", "stall"} \/ (h.x = "out" /\ ~e.out))

\* The kernel's five seconds are over: nothing of the request can go on.
GiveUp ==
  /\ h.x # "none" /\ h.bus = "active" /\ ~InterruptPending /\ ~d.WAKEUPE
  /\ ~Answered
  /\ ~Reach \/ Blocked \/ (~InRequest /\ e.setup = "none")
  /\ h' = Failed
  /\ UNCHANGED <<d, e>>

\* The port stays disabled for long enough that the device notices.
Retry ==
  /\ h.st = "off" /\ ~InterruptPending
  /\ Unattached => m.pc \notin {"status", "stream"}
  /\ h' = [h EXCEPT !.st = "reset"]
  /\ UNCHANGED <<d, e>>

TakeReportIN ==
  /\ h.st = "ready" /\ Reach /\ e.bank[1] = "full"
  /\ e' = [e EXCEPT !.bank[1] = "empty"]
  /\ UNCHANGED <<d, h>>

SendReportOUT ==
  /\ h.st = "ready" /\ Reach /\ e.bank[2] = "empty"
  /\ e' = [e EXCEPT !.bank[2] = "full"]
  /\ UNCHANGED <<d, h>>

Bus ==
  \/ BusReset \/ ResumeBus \/ Traffic \/ Setup \/ TakeIn \/ SendStatus
  \/ SeeStall \/ GiveUp \/ Retry

Next ==
  \/ USB_GEN_vect \/ USART1_RX_vect \/ Main
  \/ Host(SpontaneousReset) \/ Host(SuspendBus) \/ Host(Bus)
  \/ Host(TakeReportIN) \/ Host(SendReportOUT)

Spec == Init /\ [][Next]_vars

\* The loop and the handler run, and the host goes on with what it has begun.
\* Faults, extra requests and transfers of data are free.
FairSpec ==
  /\ Spec
  /\ WF_vars(USB_GEN_vect) /\ WF_vars(Main)
  /\ WF_vars(Host(BusReset)) /\ WF_vars(Host(ResumeBus)) /\ WF_vars(Host(Traffic))
  /\ WF_vars(Host(Setup)) /\ WF_vars(Host(TakeIn)) /\ WF_vars(Host(SendStatus))
  /\ WF_vars(Host(SeeStall)) /\ WF_vars(Host(GiveUp)) /\ WF_vars(Host(Retry))

-----------------------------------------------------------------------------

\* Types of the registers, of the endpoints and of the loop's locals.
TypeOK ==
  /\ d \in [DeviceState : {"Unattached", "Powered", "Default", "Addressed", "Configured"},
           ConfigurationNumber : 0..1, UENUM : 0..2,
           ADDEN : BOOLEAN, SUSPE : BOOLEAN, WAKEUPE : BOOLEAN, WAKEUPI : BOOLEAN,
           EORSTI : BOOLEAN]
  /\ e \in [setup : Requests \cup {"none"},
           in : {"free", "fifo", "zlp", "data", "junk", "stall"},
           out : BOOLEAN, control : BOOLEAN,
           bank : [1..2 -> {"off", "held", "empty", "full", "stalled"}]]
  /\ m.PrevEndpoint \in 0..2 /\ m.Number \in 1..2 /\ m.EPNum \in 1..2
  /\ m.left \in 0..Packets /\ m.req \in Requests /\ m.nested \in BOOLEAN
  /\ state_send \in BOOLEAN
  /\ h.faults \in 0..MaxFaults /\ h.requests \in 0..MaxRequests

\* From the new number to the last configured endpoint.
Configuring ==
  \/ m.pc \in {"number", "store", "select", "read", "write", "selected"}
  \/ At("status") /\ m.req \in {"SetConfiguration", "Unconfigure"}

\* Outside SET_CONFIGURATION, and with no reset left to handle, a device in
\* DEVICE_STATE_Configured has both of pad.c's endpoints set up: PAD_Task
\* (pad.c:59) tests nothing else.  Resets, suspends and wake-ups may hit the
\* request anywhere (USBInterrupt_AVR8.c:150-173).
ReadyWhenConfigured ==
  (d.DeviceState = "Configured" /\ ~d.EORSTI /\ ~Configuring)
    => \A n \in 1..2 : e.bank[n] \notin {"off", "held"}

\* When the host has nothing outstanding and believes the device configured,
\* and the device has handled its interrupts and requests, the device is in
\* DEVICE_STATE_Configured at the host's address and endpoint 0 is still a
\* control endpoint, although a reset in the middle of an endpoint access
\* makes the loop work on endpoint 0 (USBInterrupt_AVR8.c:173).
HostAndDeviceAgree ==
  (/\ h.st = "ready" /\ h.x = "none" /\ h.bus = "active"
   /\ ~InterruptPending /\ ~InRequest /\ e.setup = "none")
    => d.DeviceState = "Configured" /\ Reach

\* Once the bus is left in peace the device is configured for good and the
\* loop comes back to PAD_Task for ever: no wait of the stack
\* (Endpoint_AVR8.c:133,143, DeviceStandardReq.c:135) holds it for good.
Recovers ==
  /\ <>[](h.st = "ready" /\ d.DeviceState = "Configured" /\ Reach)
  /\ []<>At("pad")

\* Documented (Device.h:95-97): DEVICE_STATE_Configured "indicates that the
\* device has been enumerated by the host".  The number of the configuration
\* is not 0 then.
ConfiguredMeansEnumerated ==
  (d.DeviceState = "Configured" /\ ~d.EORSTI) => d.ConfigurationNumber # 0
=============================================================================
