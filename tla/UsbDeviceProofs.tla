--------------------------- MODULE UsbDeviceProofs ---------------------------
(***************************************************************************)
(* Proofs about the device stack: its types, that a device in              *)
(* DEVICE_STATE_Configured has its endpoints set up, and that host and     *)
(* device agree after the enumeration.  For any number of resets,          *)
(* suspends, requests and packets of a descriptor.                         *)
(***************************************************************************)
EXTENDS UsbDevice, TLAPS

-----------------------------------------------------------------------------
(* Types.  TypeOK leaves the loop's and the host's other fields open; a    *)
(* step needs them.                                                        *)

Places == Requests \cup
  {"usbtask", "setup", "restore", "dispatch", "leftover", "status", "address",
   "addressed", "number", "store", "select", "read", "write", "selected", "stream",
   "clearout", "halt", "pad", "send", "rw", "wait", "loop", "byte", "clearin",
   "clear", "recv", "out", "taken"}

DType == d \in [DeviceState : {"Unattached", "Powered", "Default", "Addressed", "Configured"},
                ConfigurationNumber : 0..1, UENUM : 0..2,
                ADDEN : BOOLEAN, SUSPE : BOOLEAN, WAKEUPE : BOOLEAN, WAKEUPI : BOOLEAN,
                EORSTI : BOOLEAN]

EType == e \in [setup : Requests \cup {"none"},
                in : {"free", "fifo", "zlp", "data", "junk", "stall"},
                out : BOOLEAN, control : BOOLEAN,
                bank : [1..2 -> {"off", "held", "empty", "full", "stalled"}]]

MSet == [pc : Places, PrevEndpoint : 0..2, nested : BOOLEAN, req : Requests,
         next : {"Powered", "Configured"}, Number : 1..2, EPNum : 1..2,
         config : {"none", "control", "interrupt"}, left : 0..Packets]

MType == m \in MSet

HSet == [st : {"off", "reset", "addr", "desc", "conf", "ready"},
         x : {"none", "data", "status", "out"}, req : Requests, left : Int,
         addr : BOOLEAN, bus : {"active", "idle"},
         faults : 0..MaxFaults, requests : 0..MaxRequests]

HType == h \in HSet

Types == DType /\ EType /\ MType /\ HType /\ state_send \in BOOLEAN

\* The strings that are places.
LEMMA PlacesHold ==
  /\ Requests \subseteq Places
  /\ {"usbtask", "setup", "restore", "dispatch", "leftover", "status", "address",
      "addressed", "number", "store", "select", "read", "write", "selected", "stream",
      "clearout", "halt", "pad", "send", "rw", "wait", "loop", "byte", "clearin",
      "clear", "recv", "out", "taken"} \subseteq Places
  /\ "Unknown" \in Requests
BY DEF Places, Requests

\* The types hold at the start.
LEMMA InitTypes == Init => Types
<1> SUFFICES ASSUME Init PROVE Types
  OBVIOUS
<1>1. DType
  BY DEF Init, DType
<1>2. EType
  BY DEF Init, EType
<1>3. MType
  BY PlacesHold, DeviceBounds DEF Init, MType, MSet
<1>4. HType
  BY PlacesHold, DeviceBounds DEF Init, HType, HSet
<1> QED
  BY <1>1, <1>2, <1>3, <1>4 DEF Types, Init

\* The interrupt handlers keep the types.
LEMMA HandlerTypes ==
  ASSUME Types, USB_GEN_vect \/ USART1_RX_vect
  PROVE  Types'
<1>1. CASE USB_GEN_vect
  <2> DEFINE D == [DeviceState : {"Unattached", "Powered", "Default", "Addressed", "Configured"},
                   ConfigurationNumber : 0..1, UENUM : 0..2,
                   ADDEN : BOOLEAN, SUSPE : BOOLEAN, WAKEUPE : BOOLEAN, WAKEUPI : BOOLEAN,
                   EORSTI : BOOLEAN]
  <2>1. ASSUME NEW s \in D PROVE SuspendBranch(s) \in D
    BY DEF SuspendBranch
  <2>2. ASSUME NEW s \in D PROVE WakeUpBranch(s) \in D
    BY DEF WakeUpBranch
  <2>a. ASSUME NEW r \in D PROVE [r EXCEPT !.EORSTI = FALSE, !.DeviceState = "Default"] \in D
    OBVIOUS
  <2>b. ASSUME NEW r \in D PROVE [r EXCEPT !.ConfigurationNumber = 0] \in D
    OBVIOUS
  <2>c. ASSUME NEW r \in D PROVE [r EXCEPT !.SUSPE = FALSE, !.WAKEUPE = TRUE] \in D
    OBVIOUS
  <2>d. ASSUME NEW r \in D PROVE [r EXCEPT !.UENUM = 0] \in D
    OBVIOUS
  <2>3. ASSUME NEW s \in D PROVE ResetBranch(s) \in D
    <3>1. [s EXCEPT !.EORSTI = FALSE, !.DeviceState = "Default", !.ConfigurationNumber = 0,
                    !.SUSPE = FALSE, !.WAKEUPE = TRUE, !.UENUM = 0]
          = [[[[s EXCEPT !.EORSTI = FALSE, !.DeviceState = "Default"]
                 EXCEPT !.ConfigurationNumber = 0]
                EXCEPT !.SUSPE = FALSE, !.WAKEUPE = TRUE] EXCEPT !.UENUM = 0]
      OBVIOUS
    <3> HIDE DEF D
    <3> QED
      BY <2>a, <2>b, <2>c, <2>d, <3>1 DEF ResetBranch
  <2>4. d \in D
    BY DEF Types, DType
  <2> HIDE DEF D
  <2>5. d' \in D
    BY <1>1, <2>1, <2>2, <2>3, <2>4 DEF USB_GEN_vect
  <2>6. DType'
    BY <2>5 DEF D, DType
  <2>7. EType'
    BY <1>1 DEF Types, EType, USB_GEN_vect, ConfigureControl, Flushed
  <2> QED
    BY <1>1, <2>6, <2>7 DEF Types, USB_GEN_vect, MType, MSet, HType, HSet
<1>2. CASE USART1_RX_vect
  BY <1>2 DEF USART1_RX_vect, Types, DType, EType, MType, MSet, HType, HSet
<1> QED
  BY <1>1, <1>2

\* The main loop keeps the types of the registers.
LEMMA MainD ==
  ASSUME Types, Main
  PROVE  DType'
<1>0. d \in [DeviceState : {"Unattached", "Powered", "Default", "Addressed", "Configured"},
             ConfigurationNumber : 0..1, UENUM : 0..2,
             ADDEN : BOOLEAN, SUSPE : BOOLEAN, WAKEUPE : BOOLEAN, WAKEUPI : BOOLEAN,
             EORSTI : BOOLEAN]
      /\ m.PrevEndpoint \in 0..2 /\ m.Number \in 0..2 /\ m.EPNum \in 0..2
      /\ m.next \in {"Powered", "Configured"}
  BY DEF Types, DType, MType, MSet
<1>1. \/ UNCHANGED d
      \/ \E n \in 0..2 : d' = [d EXCEPT !.UENUM = n]
      \/ d' = [d EXCEPT !.ADDEN = TRUE]
      \/ \E s \in {"Addressed", "Powered", "Configured"} : d' = [d EXCEPT !.DeviceState = s]
      \/ \E n \in 0..1 : d' = [d EXCEPT !.ConfigurationNumber = n]
  <2>1. CASE USB_DeviceTask \/ RestoreEndpoint \/ SelectEPNum \/ Selected
             \/ ClearSetFeature \/ EndpointHalt \/ SendNextReport \/ ReceiveNextReport
    BY <1>0, <2>1 DEF USB_DeviceTask, RestoreEndpoint, SelectEPNum, Selected,
                      ClearSetFeature, EndpointHalt, SendNextReport, ReceiveNextReport
  <2>2. CASE EnableDeviceAddress \/ Addressed \/ SetConfiguration \/ StoreState
    BY <1>0, <2>2 DEF EnableDeviceAddress, Addressed, SetConfiguration, StoreState
  <2> QED
    BY <2>1, <2>2
       DEF Main, IsSETUPReceived, ProcessControlRequest, Leftover, ClearStatusStage,
           SetAddress, ReadNumber, ReadConfig, WriteConfig, GetDescriptor, ControlStream,
           ControlStreamEnd, GetStatus, PAD_Task, TestReadWrite, WaitUntilReady,
           WriteStream, WriteByte, SendReport, ClearState, TestOUT, TakeReport
<1> QED
  BY <1>0, <1>1 DEF DType

\* The main loop keeps the types of the endpoints.
LEMMA MainE ==
  ASSUME Types, Main
  PROVE  EType'
<1>0. EType /\ d.UENUM \in 0..2
  BY DEF Types, DType
<1>1. UNCHANGED e \/ e' = [e EXCEPT !.setup = "none"] \/ e' = [e EXCEPT !.out = FALSE]
        => EType'
  BY <1>0 DEF EType
<1>2. CASE Leftover \/ ClearStatusStage
  BY <1>0, <1>2 DEF Leftover, ClearStatusStage, SendControl, Sent, EType
<1>3. CASE WriteConfig
  BY <1>0, <1>3 DEF WriteConfig, Flushed, EType
<1>4. CASE ControlStream \/ GetStatus
  BY <1>0, <1>4 DEF ControlStream, GetStatus, SendControl, Sent, EType
<1>5. CASE EndpointHalt
  BY <1>0, <1>5 DEF EndpointHalt, EType
<1>6. CASE WriteStream \/ SendReport
  <2>1. ClearIN = e \/ e' = [e EXCEPT !.bank[1] = "full"] \/ ClearIN = SendControl("zlp")
        \/ ClearIN = [e EXCEPT !.bank[1] = "full"]
    BY DEF ClearIN
  <2> QED
    BY <1>0, <1>6, <2>1 DEF WriteStream, SendReport, SendControl, Sent, EType
<1>7. CASE WriteByte
  BY <1>0, <1>7 DEF WriteByte, EType
<1>8. CASE TakeReport
  BY <1>0, <1>8 DEF TakeReport, ClearOUT, EType
<1> QED
  BY <1>1, <1>2, <1>3, <1>4, <1>5, <1>6, <1>7, <1>8
     DEF Main, USB_DeviceTask, IsSETUPReceived, RestoreEndpoint, ProcessControlRequest,
         SetAddress, EnableDeviceAddress, Addressed, SetConfiguration, ReadNumber,
         StoreState, SelectEPNum, ReadConfig, Selected, GetDescriptor, ControlStreamEnd,
         ClearSetFeature, PAD_Task, SendNextReport, TestReadWrite, WaitUntilReady,
         ClearState, ReceiveNextReport, TestOUT

\* The main loop keeps the types of its locals.
LEMMA MainM ==
  ASSUME Types, Main
  PROVE  MType'
<1>0. MType
  BY DEF Types
<1>1. ASSUME NEW p \in Places, m' = [m EXCEPT !.pc = p] PROVE MType'
  BY <1>0, <1>1 DEF MType, MSet
<1>a. ASSUME NEW n \in 1..2, NEW k \in 1..2, NEW p \in Places
      PROVE  [m EXCEPT !.pc = p, !.Number = n, !.EPNum = k] \in MSet
  <2>1. [m EXCEPT !.pc = p] \in MSet
    BY <1>0 DEF MType, MSet
  <2>2. ASSUME NEW r \in MSet PROVE [r EXCEPT !.Number = n, !.EPNum = k] \in MSet
    BY DEF MSet
  <2>3. [m EXCEPT !.pc = p, !.Number = n, !.EPNum = k]
        = [[m EXCEPT !.pc = p] EXCEPT !.Number = n, !.EPNum = k]
    BY <1>0 DEF MType, MSet
  <2> QED
    BY <2>1, <2>2, <2>3
<1>b. Return \in MSet
  BY <1>0, PlacesHold DEF Return, MType, MSet
<1>2. CASE USB_DeviceTask
  <2>1. d.UENUM \in 0..2
    BY DEF Types, DType
  <2> QED
    BY <1>0, <1>2, <1>b, <2>1, PlacesHold DEF USB_DeviceTask, MType, MSet
<1>3. CASE RestoreEndpoint
  BY <1>3, <1>b DEF RestoreEndpoint, MType
<1>4. CASE IsSETUPReceived
  <2>1. e.setup \in Requests \cup {"none"}
    BY DEF Types, EType
  <2> QED
    BY <1>0, <1>4, <2>1, PlacesHold DEF IsSETUPReceived, Go, MType, MSet
<1>5. CASE ProcessControlRequest
  <2>1. m.req \in Places
    BY <1>0, PlacesHold DEF MType, MSet
  <2> QED
    BY <1>1, <1>5, <2>1, PlacesHold DEF ProcessControlRequest, Go
<1>6. CASE ReadNumber \/ StoreState
  <2>1. ASSUME NEW n \in {"Powered", "Configured"},
               m' = [m EXCEPT !.pc = "store", !.next = n]
        PROVE  MType'
    BY <1>0, <2>1, PlacesHold DEF MType, MSet
  <2>2. ASSUME m' = [m EXCEPT !.pc = "select", !.Number = 1, !.EPNum = 1] PROVE MType'
    <3>1. 1 \in 1..2 /\ "select" \in Places
      BY PlacesHold
    <3> QED
      BY <1>a, <2>2, <3>1 DEF MType
  <2> QED
    BY <1>6, <2>1, <2>2 DEF ReadNumber, StoreState
<1>7. CASE ReadConfig \/ WriteConfig
  <2>0. m.EPNum < 2 => m.EPNum + 1 \in 1..2
    BY <1>0 DEF MType, MSet
  <2>a. ASSUME NEW n \in 1..2, m' = [m EXCEPT !.EPNum = n, !.pc = "select"] PROVE MType'
    BY <1>0, <2>a, PlacesHold DEF MType, MSet
  <2>1. m' = NextEPNum => MType'
    BY <1>1, <2>0, <2>a, PlacesHold DEF NextEPNum
  <2>2. Config \in {"none", "control", "interrupt"}
    BY DEF Config
  <2>3. ASSUME NEW c \in {"none", "control", "interrupt"},
               m' = [m EXCEPT !.config = c, !.pc = "write"]
        PROVE  MType'
    BY <1>0, <2>3, PlacesHold DEF MType, MSet
  <2> QED
    BY <1>7, <2>1, <2>2, <2>3 DEF ReadConfig, WriteConfig
<1>8. CASE Selected
  <2>1. ASSUME m' = [m EXCEPT !.Number = 2, !.EPNum = 2, !.pc = "select"] PROVE MType'
    <3>1. m' = [m EXCEPT !.pc = "select", !.Number = 2, !.EPNum = 2]
      BY <1>0, <2>1 DEF MType, MSet
    <3>2. 2 \in 1..2 /\ "select" \in Places
      BY PlacesHold
    <3> QED
      BY <1>a, <3>1, <3>2 DEF MType
  <2> QED
    BY <1>1, <1>8, <2>1, PlacesHold DEF Selected
<1>9. CASE GetDescriptor
  <2>1. Packets \in 0..Packets
    BY DeviceBounds
  <2>2. ASSUME NEW n \in 0..Packets, m' = [m EXCEPT !.pc = "stream", !.left = n] PROVE MType'
    BY <1>0, <2>2, PlacesHold DEF MType, MSet
  <2> QED
    BY <1>9, <2>1, <2>2 DEF GetDescriptor
<1>10. CASE ControlStream
  <2>1. m.left > 0 => m.left - 1 \in 0..Packets
    BY <1>0, DeviceBounds DEF MType, MSet
  <2>2. ASSUME m.left > 0, m' = [m EXCEPT !.left = @ - 1] PROVE MType'
    BY <1>0, <2>1, <2>2 DEF MType, MSet
  <2> QED
    BY <1>1, <1>10, <2>2, PlacesHold DEF ControlStream, Go
<1>11. CASE WriteStream
  BY <1>0, <1>1, <1>11, PlacesHold DEF WriteStream, Go, MType, MSet
<1>12. CASE ClearStatusStage
  <2>1. AfterStatus \in Places
    BY PlacesHold DEF AfterStatus
  <2> QED
    BY <1>1, <1>12, <2>1 DEF ClearStatusStage, Go
<1>13. CASE Leftover \/ SetAddress \/ EnableDeviceAddress \/ Addressed \/ SetConfiguration
            \/ SelectEPNum \/ ControlStreamEnd \/ GetStatus \/ ClearSetFeature \/ EndpointHalt
  BY <1>1, <1>13, PlacesHold
     DEF Leftover, SetAddress, EnableDeviceAddress, Addressed, SetConfiguration,
         SelectEPNum, ControlStreamEnd, GetStatus, ClearSetFeature, EndpointHalt, Go
<1>14. CASE PAD_Task \/ SendNextReport \/ TestReadWrite \/ WaitUntilReady \/ WriteByte
            \/ SendReport \/ ClearState \/ ReceiveNextReport \/ TestOUT \/ TakeReport
  BY <1>1, <1>14, PlacesHold
     DEF PAD_Task, SendNextReport, TestReadWrite, WaitUntilReady, WriteByte, SendReport,
         ClearState, ReceiveNextReport, TestOUT, TakeReport, Go
<1> QED
  BY <1>2, <1>3, <1>4, <1>5, <1>6, <1>7, <1>8, <1>9, <1>10, <1>11, <1>12, <1>13, <1>14
     DEF Main

\* The main loop keeps the types.
LEMMA MainTypes ==
  ASSUME Types, Main
  PROVE  Types'
<1>1. HType'
  BY DEF Types, Main, HType, HSet
<1>2. state_send' \in BOOLEAN
  BY DEF Types, Main, USB_DeviceTask, IsSETUPReceived, RestoreEndpoint,
         ProcessControlRequest, Leftover, ClearStatusStage, SetAddress,
         EnableDeviceAddress, Addressed, SetConfiguration, ReadNumber, StoreState,
         SelectEPNum, ReadConfig, WriteConfig, Selected, GetDescriptor, ControlStream,
         ControlStreamEnd, GetStatus, ClearSetFeature, EndpointHalt, PAD_Task,
         SendNextReport, TestReadWrite, WaitUntilReady, WriteStream, WriteByte,
         SendReport, ClearState, ReceiveNextReport, TestOUT, TakeReport
<1> QED
  BY <1>1, <1>2, MainD, MainE, MainM DEF Types

\* The steps of the host and of the bus.
HostStep == \/ BusReset \/ SpontaneousReset \/ SuspendBus \/ ResumeBus \/ Traffic \/ Setup
            \/ TakeIn \/ SendStatus \/ SeeStall \/ GiveUp \/ Retry
            \/ TakeReportIN \/ SendReportOUT

\* The host and the bus keep the types; the bounds on faults and requests are
\* the guards of the steps that count.
LEMMA HostTypes ==
  ASSUME Types, Host(HostStep)
  PROVE  Types'
<1> USE DEF Types
<1>0. MType' /\ state_send' \in BOOLEAN
  BY DEF Host, MType, MSet
<1>a. /\ h.faults \in Nat /\ h.faults <= MaxFaults /\ h.requests \in Nat
      /\ h.requests <= MaxRequests
      /\ h.faults < MaxFaults => h.faults + 1 \in 0..MaxFaults
      /\ h.requests < MaxRequests => h.requests + 1 \in 0..MaxRequests
  BY DeviceBounds DEF HType, HSet
<1>b. ASSUME NEW s \in {"off", "reset", "addr", "desc", "conf", "ready"},
             NEW x \in {"none", "data", "status", "out"}, NEW a \in BOOLEAN
      PROVE  [h EXCEPT !.x = x, !.addr = a, !.st = s] \in HSet
  BY DEF HType, HSet
<1>c. ASSUME NEW s \in {"off", "reset", "addr", "desc", "conf", "ready"},
             NEW x \in {"none", "data", "status", "out"}, NEW b \in {"active", "idle"}
      PROVE  [h EXCEPT !.x = x, !.st = s, !.bus = b] \in HSet
  BY DEF HType, HSet
<1>1. CASE BusReset
  <2>1. DType'
    BY <1>1 DEF BusReset, DType
  <2>2. EType'
    <3>1. ASSUME NEW b \in [1..2 -> {"off", "held", "empty", "full", "stalled"}],
                 e' = [Flushed(e) EXCEPT !.bank = b]
          PROVE  EType'
      BY <3>1 DEF Flushed, EType
    <3>2. ASSUME NEW keep \in BOOLEAN
          PROVE  [n \in 1..2 |-> IF keep /\ Flushed(e).bank[n] # "off" THEN "held" ELSE "off"]
                   \in [1..2 -> {"off", "held", "empty", "full", "stalled"}]
      OBVIOUS
    <3> QED
      BY <1>1, <3>1, <3>2 DEF BusReset
  <2>3. HType'
    <3>1. h' = [[h EXCEPT !.st = "addr", !.x = "none", !.bus = "active"] EXCEPT !.addr = FALSE]
      BY <1>1 DEF BusReset, HType, HSet
    <3> QED
      BY <3>1 DEF HType, HSet
  <2> QED
    BY <1>0, <2>1, <2>2, <2>3
<1>2. CASE SpontaneousReset \/ SuspendBus \/ ResumeBus \/ Traffic
  <2>1. DType'
    BY <1>2 DEF SpontaneousReset, SuspendBus, ResumeBus, Traffic, DType
  <2>2. HType'
    BY <1>a, <1>2 DEF SpontaneousReset, SuspendBus, ResumeBus, Traffic, HType, HSet
  <2> QED
    BY <1>0, <1>2, <2>1, <2>2
       DEF SpontaneousReset, SuspendBus, ResumeBus, Traffic, EType
<1>3. CASE Setup
  <2>1. PICK r \in Next_Request, out \in {FALSE, e.out} :
          LET early == InRequest /\ ~Blocked IN
          /\ early => h.faults < MaxFaults
          /\ e' = IF Reach THEN [e EXCEPT !.setup = r, !.in = "free", !.out = out] ELSE e
          /\ h' = [h EXCEPT !.x = IF IsGet(r) THEN "data" ELSE "status", !.req = r,
                            !.left = IF r = "GetDescriptor" THEN Packets ELSE 1,
                            !.faults = Fault(early),
                            !.requests = IF h.st = "ready" THEN @ + 1 ELSE @]
    BY <1>3 DEF Setup
  <2>2. r \in Requests /\ (h.st = "ready" => h.requests < MaxRequests)
    BY ExtraRequests DEF Next_Request, Requests
  <2>3. EType' /\ d' = d
    BY <1>3, <2>1, <2>2 DEF EType, Setup
  <2>4. Fault(InRequest /\ ~Blocked) \in 0..MaxFaults
    BY <1>a, <2>1 DEF Fault
  <2>5. (IF h.st = "ready" THEN h.requests + 1 ELSE h.requests) \in 0..MaxRequests
    BY <1>a, <2>2 DEF HType, HSet
  <2>6. HType'
    <3>1. ASSUME NEW x \in {"data", "status"}, NEW l \in Int, NEW f \in 0..MaxFaults,
                 NEW q \in 0..MaxRequests
          PROVE  [h EXCEPT !.x = x, !.req = r, !.left = l, !.faults = f, !.requests = q] \in HSet
      <4>1. ASSUME NEW g \in HSet PROVE [g EXCEPT !.faults = f, !.requests = q] \in HSet
        BY DEF HSet
      <4>2. [h EXCEPT !.x = x, !.req = r, !.left = l] \in HSet
        BY <2>2 DEF HType, HSet
      <4>3. [h EXCEPT !.x = x, !.req = r, !.left = l, !.faults = f, !.requests = q]
            = [[h EXCEPT !.x = x, !.req = r, !.left = l] EXCEPT !.faults = f, !.requests = q]
        BY DEF HType, HSet
      <4> QED
        BY <4>1, <4>2, <4>3
    <3>2. Packets \in Int
      BY DeviceBounds
    <3>3. (IF IsGet(r) THEN "data" ELSE "status") \in {"data", "status"}
      OBVIOUS
    <3>4. (IF r = "GetDescriptor" THEN Packets ELSE 1) \in Int
      BY <3>2
    <3>5. h' \in HSet
      BY <2>1, <2>4, <2>5, <3>1, <3>3, <3>4
    <3> QED
      BY <3>5 DEF HType
  <2> QED
    BY <1>0, <2>3, <2>6 DEF DType
<1>d. Done \in HSet
  <2>1. (h.addr \/ h.st = "addr") \in BOOLEAN
    OBVIOUS
  <2> QED
    BY <1>b, <2>1 DEF Done
<1>e. Failed \in HSet
  BY <1>c DEF Failed
<1>4. CASE TakeIn
  <2>1. h.x = "data" => [h EXCEPT !.left = @ - 1, !.x = IF h.left = 1 THEN "out" ELSE @] \in HSet
    <3>1. ASSUME NEW l \in Int, NEW x \in {"out", "data"}
          PROVE  [h EXCEPT !.left = l, !.x = x] \in HSet
      BY DEF HType, HSet
    <3>2. h.left - 1 \in Int
      BY DEF HType, HSet
    <3> QED
      BY <3>1, <3>2
  <2>2. h' \in HSet
    BY <1>4, <1>d, <1>e, <2>1 DEF TakeIn
  <2> QED
    BY <1>0, <1>4, <2>2 DEF TakeIn, DType, EType, HType, HSet
<1>5. CASE SendStatus
  <2>1. DType' /\ EType'
    BY <1>5 DEF SendStatus, DType, EType
  <2> QED
    BY <1>0, <1>5, <1>d, <2>1 DEF SendStatus, HType
<1>6. CASE SeeStall \/ GiveUp \/ Retry
  <2>1. [h EXCEPT !.x = "none"] \in HSet /\ [h EXCEPT !.st = "reset"] \in HSet
    BY DEF HType, HSet
  <2>2. h' \in HSet
    BY <1>6, <1>e, <2>1 DEF SeeStall, GiveUp, Retry
  <2> QED
    BY <1>0, <1>6, <2>2 DEF SeeStall, GiveUp, Retry, DType, EType, HType, HSet
<1>7. CASE TakeReportIN \/ SendReportOUT
  BY <1>0, <1>7 DEF TakeReportIN, SendReportOUT, DType, EType, HType, HSet
<1> QED
  BY <1>1, <1>2, <1>3, <1>4, <1>5, <1>6, <1>7 DEF Host, HostStep

\* Every step is one of the handlers, of the loop or of the host.
LEMMA NextCases ==
  Next => USB_GEN_vect \/ USART1_RX_vect \/ Main \/ Host(HostStep)
BY DEF Next, Host, HostStep, Bus

\* Every step keeps the types.
LEMMA NextTypes == Types /\ [Next]_vars => Types'
<1>1. CASE UNCHANGED vars
  BY <1>1 DEF vars, Types, DType, EType, MType, MSet, HType, HSet
<1> QED
  BY <1>1, HandlerTypes, MainTypes, HostTypes, NextCases

\* Registers, endpoints, locals of the loop and counters of the host keep
\* their types: among them the endpoint numbers 1 and 2 of the loop in
\* Endpoint_ConfigureEndpoint_Prv and the packets left of a descriptor.
THEOREM DeviceTypes == Spec => []TypeOK
<1>1. Types => TypeOK
  BY DEF Types, DType, EType, MType, MSet, HType, HSet, TypeOK
<1> QED
  BY <1>1, InitTypes, NextTypes, PTL DEF Spec

-----------------------------------------------------------------------------
(* Both endpoints are set up.  The inductive invariant says how far        *)
(* ConfigureEndpoint has come, for a device that is configured or that a   *)
(* wake-up may make configured.                                            *)

Live == (d.DeviceState = "Configured" \/ d.ConfigurationNumber # 0) /\ ~d.EORSTI

Ready(n) == e.bank[n] \notin {"off", "held"}

\* A handler runs for the request that was dispatched.
Dispatched ==
  /\ m.pc \in Requests => m.req = m.pc
  /\ m.pc = "halt" => m.req \in {"SetFeature", "ClearFeature"}

\* Endpoint EPNum is being set up, for endpoint Number; those before are ready.
Configured ==
  Live => /\ ~Configuring => Ready(1) /\ Ready(2)
          /\ m.pc \in {"select", "read", "write"} =>
               /\ m.Number <= m.EPNum
               /\ m.EPNum = 2 => Ready(1)
               /\ m.pc # "select" => d.UENUM = m.EPNum
          /\ m.pc = "selected" => Ready(1) /\ (m.Number = 2 => Ready(2))

ReadyInv == Dispatched /\ Configured

-----------------------------------------------------------------------------
(* Host and device agree.                                                  *)

\* What the host waits for, by the stage of the enumeration.
HostStage ==
  /\ h.st \in {"desc", "conf", "ready"} => h.addr
  /\ h.st \in {"conf", "ready"} => d.ADDEN
  /\ h.st = "addr" => ~h.addr /\ h.x \in {"none", "status"}
  /\ h.st = "desc" /\ h.x # "none" => h.req = "GetDescriptor" /\ h.x # "status"
  /\ h.st = "conf" /\ h.x # "none" => h.req = "SetConfiguration" /\ h.x = "status"
  /\ h.st = "ready" /\ h.x # "none" => h.req # "SetAddress"
  /\ h.st \in {"off", "reset"} => h.x = "none"
  /\ h.x # "none" => (h.x = "status" <=> ~IsGet(h.req))

\* Until the handler has seen a reset the host asks for nothing.
ResetSeen == d.EORSTI => h.st \in {"addr", "reset"} /\ h.x = "none"

\* Before the address is enabled, endpoint 0 has held nothing but SET_ADDRESS.
BeforeAddress ==
  (h.st = "addr" \/ (h.st = "desc" /\ ~d.ADDEN))
    => ~e.out /\ h.x # "out" /\ e.setup \in {"none", "SetAddress"}

\* A configuration that went to endpoint 0 did so before SET_ADDRESS was answered.
StrayConfig ==
  /\ m.pc \in {"read", "write"} /\ d.UENUM = 0 /\ h.st \notin {"reset", "off"}
       => h.st = "addr" /\ e.in = "free"
  /\ ~e.control => h.st \in {"addr", "reset", "off"}

\* A suspended device is woken up or reset.
Woken ==
  Unattached /\ h.st # "reset" => d.EORSTI \/ (d.WAKEUPE /\ (h.bus = "idle" \/ d.WAKEUPI))

InTask == m.pc \in {"setup", "restore"} \/ InRequest

\* SET_ADDRESS is handled with endpoint 0 selected.
ControlSelected ==
  (\/ m.pc \in {"setup", "dispatch", "SetAddress", "address", "addressed"}
   \/ m.pc = "status" /\ m.req = "SetAddress")
    => d.UENUM = 0

\* The call of USB_USBTask from Endpoint_Write_Stream_LE ends before anything else runs.
Nested == m.nested => m.pc = "usbtask" \/ InTask

\* The host and the device have the same address.
Synced == h.st \in {"desc", "conf", "ready"} /\ d.ADDEN

\* The loop writes, or will write, its report to endpoint 0.
Stray ==
  \/ m.pc \in {"rw", "wait", "loop", "byte", "clearin"} /\ d.UENUM = 0
  \/ m.nested /\ m.pc = "usbtask" /\ d.UENUM = 0
  \/ m.nested /\ InTask /\ m.PrevEndpoint = 0

\* It is over before the host sends or expects anything it could spoil.
StrayReport ==
  Stray => /\ h.st = "desc" /\ ~e.out /\ h.x # "out" /\ e.in # "data"
           /\ m.pc \in {"addressed", "leftover", "restore", "wait", "clearin"}

\* The address is behind.
Behind ==
  /\ m.pc \notin {"SetAddress", "address"}
  /\ m.pc = "addressed" => h.st = "desc" /\ h.x # "out" /\ e.in # "data"

\* After the descriptor, endpoint 0 is empty when a request comes.
Fresh == h.st \in {"conf", "ready"} => e.in = "free"

\* The request the device has taken is the one the host waits for.
SameRequest ==
  /\ m.pc \in Requests \cup {"dispatch", "halt"} =>
       h.x \in {"data", "status"} /\ m.req = h.req /\ e.setup = h.req /\ e.in # "data" /\ Fresh
  /\ m.pc = "status" /\ ~IsGet(m.req) =>
       h.x = "status" /\ m.req = h.req /\ e.setup = "none" /\ Fresh
  /\ e.setup \notin {"none", "SetAddress"} =>
       h.x \in {"data", "status"} /\ e.setup = h.req /\ e.in # "data" /\ Fresh
  /\ e.setup = "SetAddress" =>
       /\ m.pc \in {"addressed", "leftover"} /\ d.UENUM = 0
       /\ h.st = "desc" /\ h.x # "out" /\ e.in # "data"

\* What the handlers keep in variables of their own while they wait.
Locals ==
  /\ m.pc = "halt" => d.UENUM = 1
  /\ m.pc = "status" /\ m.req = "SetConfiguration" => d.ConfigurationNumber = 1
  /\ m.pc = "store" => m.next = "Configured"

\* Configured, about to be, or asleep and configured on waking up.
Good ==
  /\ d.ConfigurationNumber = 1
  /\ d.DeviceState \in {"Configured", "Unattached"} \/ m.pc \in {"number", "store"}

\* An answer to SET_CONFIGURATION is sent, and taken, only by a configured device.
Answer ==
  /\ h.st = "conf" /\ h.x = "status" /\ e.in = "zlp" => Good
  /\ h.st = "ready" =>
       Good \/ (h.x = "status" /\ h.req = "Unconfigure" /\ e.setup = "none" /\ e.in # "stall")

\* What holds at any time, and what holds once the addresses are the same.
Enumeration ==
  HostStage /\ ResetSeen /\ BeforeAddress /\ StrayConfig /\ Woken /\ Nested /\ ControlSelected

InStep == StrayReport /\ Behind /\ SameRequest /\ Locals /\ Answer

AgreeInv == Enumeration /\ (Synced => InStep)

\* What the main loop leaves alone: the interrupt flags, the host's state and,
\* outside SET_ADDRESS, the address.
LEMMA MainFrame ==
  ASSUME Types, Main
  PROVE  /\ h' = h /\ d'.EORSTI = d.EORSTI /\ d'.WAKEUPE = d.WAKEUPE /\ d'.WAKEUPI = d.WAKEUPI
         /\ Unattached' => Unattached
         /\ d'.ADDEN = d.ADDEN \/ EnableDeviceAddress
<1>0. DType /\ m.next \in {"Powered", "Configured"}
  BY DEF Types, MType, MSet
<1>1. h' = h
  BY DEF Main
<1>2. CASE UNCHANGED d
  BY <1>1, <1>2 DEF Unattached
<1>3. CASE USB_DeviceTask \/ RestoreEndpoint \/ SelectEPNum \/ Selected
           \/ ClearSetFeature \/ EndpointHalt \/ SendNextReport \/ ReceiveNextReport
  BY <1>0, <1>1, <1>3
     DEF USB_DeviceTask, RestoreEndpoint, SelectEPNum, Selected, ClearSetFeature,
         EndpointHalt, SendNextReport, ReceiveNextReport, DType, Unattached
<1>4. CASE EnableDeviceAddress \/ Addressed \/ SetConfiguration \/ StoreState
  BY <1>0, <1>1, <1>4
     DEF EnableDeviceAddress, Addressed, SetConfiguration, StoreState, DType, Unattached
<1> QED
  BY <1>2, <1>3, <1>4
     DEF Main, IsSETUPReceived, ProcessControlRequest, Leftover, ClearStatusStage,
         SetAddress, ReadNumber, ReadConfig, WriteConfig, GetDescriptor, ControlStream,
         ControlStreamEnd, GetStatus, PAD_Task, TestReadWrite, WaitUntilReady, WriteStream,
         WriteByte, SendReport, ClearState, TestOUT, TakeReport

\* What a step of the loop keeps.
Kept == (BeforeAddress /\ StrayConfig /\ Nested /\ ControlSelected)' /\ (Synced => InStep')

\* The steps of PAD_Task that leave the endpoints alone.
LEMMA PadSteps ==
  ASSUME Types, AgreeInv, Main, PAD_Task \/ SendNextReport \/ TestReadWrite \/ WaitUntilReady
                                \/ ClearState \/ ReceiveNextReport \/ TestOUT
  PROVE  Kept
<1>1. h' = h /\ e' = e
  BY DEF Main, PAD_Task, SendNextReport, TestReadWrite, WaitUntilReady, ClearState,
         ReceiveNextReport, TestOUT
<1>2. /\ d'.ADDEN = d.ADDEN /\ d'.DeviceState = d.DeviceState
      /\ d'.ConfigurationNumber = d.ConfigurationNumber
      /\ d'.UENUM = d.UENUM \/ (m.pc = "send" /\ d'.UENUM = 1) \/ (m.pc = "recv" /\ d'.UENUM = 2)
  BY DEF Types, DType, PAD_Task, SendNextReport, TestReadWrite, WaitUntilReady, ClearState,
         ReceiveNextReport, TestOUT, At
<1>3. /\ m'.nested = m.nested /\ m'.PrevEndpoint = m.PrevEndpoint /\ m'.req = m.req
      /\ m'.next = m.next
      /\ \/ m.pc = "pad" /\ m'.pc \in {"send", "usbtask"}
         \/ m.pc = "send" /\ (m'.pc = "recv" \/ (m'.pc = "rw" /\ d'.UENUM = 1))
         \/ m.pc = "rw" /\ m'.pc \in {"wait", "clear"}
         \/ m.pc = "wait" /\ ((m'.pc = "loop" /\ (d.UENUM = 0 => e.out)) \/ m'.pc = "clearin")
         \/ m.pc = "clear" /\ m'.pc = "recv"
         \/ m.pc = "recv" /\ m'.pc = "out"
         \/ m.pc = "out" /\ m'.pc \in {"taken", "usbtask"}
  BY DEF Types, DType, MType, MSet, PAD_Task, SendNextReport, TestReadWrite, WaitUntilReady,
         ClearState, ReceiveNextReport, TestOUT, At, Go
<1>4. (BeforeAddress /\ StrayConfig /\ Nested /\ ControlSelected)'
  BY <1>1, <1>2, <1>3
     DEF AgreeInv, Enumeration, BeforeAddress, StrayConfig, Nested, InTask, InRequest,
         ControlSelected
<1>5. ASSUME Synced PROVE StrayReport'
  BY <1>1, <1>2, <1>3, <1>5
     DEF AgreeInv, Enumeration, Nested, InStep, StrayReport, Stray, InTask, InRequest
<1>6. ASSUME Synced PROVE (Behind /\ SameRequest /\ Locals /\ Answer)'
  BY <1>1, <1>2, <1>3, <1>6
     DEF AgreeInv, InStep, Behind, SameRequest, Fresh, Locals, Answer, Good, Requests
<1> QED
  BY <1>4, <1>5, <1>6 DEF Kept, InStep

\* The steps of PAD_Task that write to the selected endpoint.
LEMMA WriteSteps ==
  ASSUME Types, Dispatched, AgreeInv, Main, WriteStream \/ WriteByte \/ SendReport
  PROVE  Kept
<1>1. h' = h /\ m.req \in Requests
  BY DEF Main, Types, MType, MSet
<1>2. d' = d
  BY DEF WriteStream, WriteByte, SendReport
<1>3. /\ e'.setup = e.setup /\ e'.out = e.out /\ e'.control = e.control
      /\ e'.in = e.in \/ (d.UENUM = 0 /\ e'.in \in {"fifo", "zlp", "junk"} /\ e.in \in {"free", "fifo"})
  BY DEF Types, EType, WriteStream, WriteByte, SendReport, ClearIN, SendControl, Sent,
         INReady
<1>4. /\ m'.PrevEndpoint = m.PrevEndpoint /\ m'.req = m.req /\ m'.next = m.next
      /\ \/ m.pc = "loop" /\ m'.nested = m.nested /\ m'.pc = "byte"
         \/ m.pc = "loop" /\ m'.nested = TRUE /\ m'.pc = "usbtask"
         \/ m.pc = "byte" /\ m'.nested = m.nested /\ m'.pc = "clearin"
         \/ m.pc = "clearin" /\ m'.nested = m.nested /\ m'.pc = "clear"
  BY DEF Types, MType, MSet, WriteStream, WriteByte, SendReport, At, Go
<1>5. (BeforeAddress /\ StrayConfig /\ Nested /\ ControlSelected)'
  BY <1>1, <1>2, <1>3, <1>4
     DEF AgreeInv, Enumeration, BeforeAddress, StrayConfig, Nested, InTask, InRequest,
         ControlSelected
<1>6. ASSUME Synced PROVE StrayReport'
  BY <1>2, <1>4, <1>6 DEF AgreeInv, InStep, StrayReport, Stray, InTask, InRequest
<1>7. ASSUME Synced PROVE (Behind /\ SameRequest)'
  BY <1>1, <1>3, <1>4, <1>7
     DEF AgreeInv, InStep, StrayReport, Stray, Behind, SameRequest, Fresh, Requests
<1>8. ASSUME Synced PROVE (Locals /\ Answer)'
  BY <1>1, <1>2, <1>3, <1>4, <1>8
     DEF AgreeInv, InStep, StrayReport, Stray, Locals, Answer, Good
<1> QED
  BY <1>5, <1>6, <1>7, <1>8 DEF Kept, InStep

\* A report of the host is taken; with endpoint 0 selected this drops its OUT packet.
LEMMA TakeSteps ==
  ASSUME Types, Dispatched, AgreeInv, Main, TakeReport
  PROVE  Kept
<1>1. h' = h /\ m.req \in Requests
  BY DEF Main, Types, MType, MSet
<1>2. d' = d
  BY DEF TakeReport
<1>3. /\ e'.setup = e.setup /\ e'.out \in {e.out, FALSE} /\ e'.control = e.control
      /\ e'.in = e.in
  BY DEF TakeReport, ClearOUT
<1>4. /\ m'.nested = m.nested /\ m'.PrevEndpoint = m.PrevEndpoint /\ m'.req = m.req
      /\ m'.next = m.next
      /\ m.pc = "taken" /\ m'.pc = "usbtask"
  BY DEF TakeReport, At, Go
<1>5. (BeforeAddress /\ StrayConfig /\ Nested /\ ControlSelected)'
  BY <1>1, <1>2, <1>3, <1>4
     DEF AgreeInv, Enumeration, BeforeAddress, StrayConfig, Nested, ControlSelected
<1>6. ASSUME Synced PROVE StrayReport'
  BY <1>4 DEF AgreeInv, Enumeration, Nested, StrayReport, Stray, InTask, InRequest
<1>7. ASSUME Synced PROVE (Behind /\ SameRequest)'
  BY <1>1, <1>3, <1>4, <1>7 DEF AgreeInv, InStep, Behind, SameRequest, Fresh, Requests
<1>8. ASSUME Synced PROVE (Locals /\ Answer)'
  BY <1>1, <1>2, <1>3, <1>4, <1>8 DEF AgreeInv, InStep, Locals, Answer, Good
<1> QED
  BY <1>5, <1>6, <1>7, <1>8 DEF Kept, InStep

\* USB_DeviceTask saves and restores the selected endpoint.
LEMMA TaskSteps ==
  ASSUME Types, Dispatched, AgreeInv, Main, USB_DeviceTask \/ RestoreEndpoint
  PROVE  Kept
<1>1. h' = h /\ m.req \in Requests
  BY DEF Main, Types, MType, MSet
<1>2. /\ d'.ADDEN = d.ADDEN /\ d'.DeviceState = d.DeviceState
      /\ d'.ConfigurationNumber = d.ConfigurationNumber
  BY DEF Types, DType, USB_DeviceTask, RestoreEndpoint
<1>3. e' = e
  BY DEF USB_DeviceTask, RestoreEndpoint
<1>4. /\ m'.req = m.req /\ m'.next = m.next
      /\ \/ /\ m.pc = "usbtask" /\ m'.pc = "setup" /\ m'.nested = m.nested
            /\ m'.PrevEndpoint = d.UENUM /\ d'.UENUM = 0
         \/ /\ \/ m.pc = "usbtask" /\ d'.UENUM = d.UENUM
               \/ m.pc = "restore" /\ d'.UENUM = m.PrevEndpoint
            /\ m'.pc = (IF m.nested THEN "wait" ELSE "pad") /\ m'.nested = FALSE
  BY DEF Types, DType, MType, MSet, USB_DeviceTask, RestoreEndpoint, At, Return
<1>5. (BeforeAddress /\ StrayConfig /\ Nested /\ ControlSelected)'
  BY <1>1, <1>2, <1>3, <1>4
     DEF AgreeInv, Enumeration, BeforeAddress, StrayConfig, Nested, InTask, ControlSelected
<1>6. ASSUME Synced PROVE StrayReport'
  BY <1>1, <1>3, <1>4, <1>6 DEF AgreeInv, InStep, StrayReport, Stray, InTask
<1>7. ASSUME Synced PROVE (Behind /\ SameRequest)'
  BY <1>1, <1>3, <1>4, <1>7 DEF AgreeInv, InStep, Behind, SameRequest, Fresh, Requests
<1>8. ASSUME Synced PROVE (Locals /\ Answer)'
  BY <1>1, <1>2, <1>3, <1>4, <1>8 DEF AgreeInv, InStep, Locals, Answer, Good
<1> QED
  BY <1>5, <1>6, <1>7, <1>8 DEF Kept, InStep

\* A SETUP packet is found, dispatched, or stalled.
LEMMA SetupSteps ==
  ASSUME Types, Dispatched, AgreeInv, Main, IsSETUPReceived \/ ProcessControlRequest \/ Leftover
  PROVE  Kept
<1>1. h' = h /\ m.req \in Requests
  BY DEF Main, Types, MType, MSet
<1>2. d' = d
  BY DEF IsSETUPReceived, ProcessControlRequest, Leftover
<1>3. /\ e'.out = e.out /\ e'.control = e.control
      /\ \/ e' = e /\ (m.pc = "leftover" => e.setup = "none" \/ d.UENUM # 0)
         \/ m.pc = "leftover" /\ e.setup # "none" /\ e'.setup = "none" /\ e'.in = "stall"
  BY DEF Types, EType, IsSETUPReceived, ProcessControlRequest, Leftover, At
<1>4. /\ m'.nested = m.nested /\ m'.PrevEndpoint = m.PrevEndpoint /\ m'.next = m.next
      /\ \/ m.pc = "setup" /\ m'.req = m.req /\ m'.pc = "restore"
         \/ m.pc = "setup" /\ e.setup # "none" /\ m'.req = e.setup /\ m'.pc = "dispatch"
         \/ m.pc = "dispatch" /\ m'.req = m.req /\ m'.pc \in {"leftover", m.req}
         \/ m.pc = "leftover" /\ m'.req = m.req /\ m'.pc = "restore"
  BY DEF Types, MType, MSet, IsSETUPReceived, ProcessControlRequest, Leftover, At, Go
<1>5. (BeforeAddress /\ StrayConfig /\ Nested /\ ControlSelected)'
  BY <1>1, <1>2, <1>3, <1>4
     DEF AgreeInv, Enumeration, BeforeAddress, StrayConfig, Nested, InTask, InRequest,
         ControlSelected, Requests
<1>6. ASSUME Synced PROVE StrayReport'
  BY <1>1, <1>3, <1>4, <1>6
     DEF AgreeInv, InStep, StrayReport, Stray, InTask, InRequest, Requests
<1>7. ASSUME Synced PROVE (Behind /\ SameRequest)'
  <2>1. HostStage /\ Behind /\ SameRequest
    BY <1>7 DEF AgreeInv, Enumeration, InStep
  <2>2. CASE m.pc = "setup"
    BY <1>1, <1>3, <1>4, <2>1 DEF Behind, SameRequest, Fresh, Requests
  <2>3. CASE m.pc = "dispatch"
    <3>1. m.req # "SetAddress" /\ e' = e
      BY <1>3, <1>7, <2>1, <2>3 DEF HostStage, SameRequest, Synced
    <3>2. m.req \notin {"address", "addressed", "status", "leftover"}
      BY <1>1 DEF Requests
    <3>3. /\ h.x \in {"data", "status"} /\ m.req = h.req /\ e.setup = h.req /\ e.in # "data"
          /\ Fresh
      BY <2>1, <2>3 DEF SameRequest
    <3>4. m'.pc \in {"leftover", m.req} /\ m'.req = m.req
      BY <1>4, <2>3
    <3>5. Behind'
      BY <3>1, <3>2, <3>4 DEF Behind
    <3>6. SameRequest'
      BY <1>1, <3>1, <3>2, <3>3, <3>4 DEF SameRequest, Fresh
    <3> QED
      BY <3>5, <3>6
  <2>4. CASE m.pc = "leftover"
    BY <1>1, <1>3, <1>4, <2>1 DEF Behind, SameRequest, Fresh, Requests
  <2> QED
    BY <1>4, <2>2, <2>3, <2>4
<1>8. ASSUME Synced PROVE (Locals /\ Answer)'
  BY <1>1, <1>2, <1>3, <1>4, <1>8 DEF AgreeInv, InStep, Locals, Answer, Good, Requests
<1> QED
  BY <1>5, <1>6, <1>7, <1>8 DEF Kept, InStep

\* The two ends of USB_Device_SetAddress.
LEMMA AddressSteps ==
  ASSUME Types, Dispatched, AgreeInv, Main, SetAddress \/ Addressed
  PROVE  Kept
<1>1. h' = h /\ m.req \in Requests
  BY DEF Main, Types, MType, MSet
<1>2. /\ d'.ADDEN = d.ADDEN /\ d'.ConfigurationNumber = d.ConfigurationNumber
      /\ d'.UENUM = d.UENUM
  BY DEF Types, DType, SetAddress, Addressed
<1>3. /\ e'.out = e.out /\ e'.control = e.control /\ e'.in = e.in
      /\ e'.setup \in {e.setup, "none"}
  BY DEF Types, EType, SetAddress, Addressed
<1>4. /\ m'.nested = m.nested /\ m'.PrevEndpoint = m.PrevEndpoint /\ m'.req = m.req
      /\ m'.next = m.next
      /\ \/ m.pc = "SetAddress" /\ m'.pc = "status"
         \/ m.pc = "addressed" /\ m'.pc = "leftover"
  BY DEF Types, MType, MSet, SetAddress, Addressed, At, Go
<1>5. (BeforeAddress /\ StrayConfig /\ Nested /\ ControlSelected)'
  BY <1>1, <1>2, <1>3, <1>4
     DEF AgreeInv, Enumeration, BeforeAddress, StrayConfig, Nested, InTask, InRequest,
         ControlSelected
<1>6. ASSUME Synced PROVE StrayReport'
  BY <1>1, <1>3, <1>4, <1>6 DEF AgreeInv, InStep, StrayReport, Stray, InTask, InRequest
<1>7. ASSUME Synced PROVE (Behind /\ SameRequest)'
  BY <1>1, <1>2, <1>3, <1>4, <1>7 DEF AgreeInv, InStep, Behind, SameRequest, Fresh, Requests
<1>8. ASSUME Synced PROVE (Locals /\ Answer)'
  BY <1>1, <1>4, <1>8 DEF AgreeInv, InStep, Behind, Locals, Answer
<1> QED
  BY <1>5, <1>6, <1>7, <1>8 DEF Kept, InStep

\* USB_Device_SetConfiguration up to the new state.
LEMMA ConfigurationSteps ==
  ASSUME Types, Dispatched, AgreeInv, Main, SetConfiguration \/ ReadNumber \/ StoreState
  PROVE  Kept
<1>1. h' = h /\ m.req \in Requests
  BY DEF Main, Types, MType, MSet
<1>2. /\ d'.ADDEN = d.ADDEN /\ d'.UENUM = d.UENUM
      /\ \/ /\ d'.DeviceState = d.DeviceState
            /\ \/ m.pc = "number" /\ d'.ConfigurationNumber = d.ConfigurationNumber
               \/ m.pc = "SetConfiguration" /\ d'.ConfigurationNumber = 1
               \/ m.pc = "Unconfigure" /\ d'.ConfigurationNumber = 0
         \/ /\ m.pc = "store" /\ d'.DeviceState = m.next
            /\ d'.ConfigurationNumber = d.ConfigurationNumber
  BY DEF Types, DType, SetConfiguration, ReadNumber, StoreState, At
<1>3. /\ e'.out = e.out /\ e'.control = e.control /\ e'.in = e.in
      /\ e'.setup = (IF m.pc \in {"SetConfiguration", "Unconfigure"} THEN "none" ELSE e.setup)
  BY DEF Types, EType, SetConfiguration, ReadNumber, StoreState, At
<1>4. /\ m'.nested = m.nested /\ m'.PrevEndpoint = m.PrevEndpoint /\ m'.req = m.req
      /\ \/ m.pc \in {"SetConfiguration", "Unconfigure"} /\ m'.pc = "status" /\ m'.next = m.next
         \/ m.pc = "number" /\ m'.pc = "store" /\ (d.ADDEN => m'.next = "Configured")
         \/ m.pc = "store" /\ m'.pc = "select" /\ m'.next = m.next
  BY DEF Types, MType, MSet, SetConfiguration, ReadNumber, StoreState, At, Go
<1>5. (BeforeAddress /\ StrayConfig /\ Nested /\ ControlSelected)'
  BY <1>1, <1>2, <1>3, <1>4
     DEF AgreeInv, Enumeration, BeforeAddress, StrayConfig, Nested, InTask, InRequest,
         ControlSelected, Dispatched, Requests
<1>6. ASSUME Synced PROVE StrayReport'
  BY <1>4, <1>6 DEF AgreeInv, InStep, StrayReport, Stray, InTask, InRequest
<1>7. ASSUME Synced PROVE (Behind /\ SameRequest)'
  BY <1>1, <1>3, <1>4, <1>7
     DEF AgreeInv, Enumeration, HostStage, InStep, Behind, SameRequest, Fresh, Requests
<1>8. ASSUME Synced PROVE (Locals /\ Answer)'
  BY <1>1, <1>2, <1>3, <1>4, <1>8
     DEF AgreeInv, Enumeration, HostStage, InStep, SameRequest, Fresh, Locals, Answer, Good,
         Requests, IsGet, Dispatched, Synced
<1> QED
  BY <1>5, <1>6, <1>7, <1>8 DEF Kept, InStep

\* Endpoint_ConfigureEndpoint_Prv for the endpoints 1 and 2.
LEMMA EndpointSteps ==
  ASSUME Types, Dispatched, AgreeInv, Main, SelectEPNum \/ ReadConfig \/ WriteConfig \/ Selected
  PROVE  Kept
<1>1. h' = h /\ m.req \in Requests
  BY DEF Main, Types, MType, MSet
<1>2. /\ d'.ADDEN = d.ADDEN /\ d'.DeviceState = d.DeviceState
      /\ d'.ConfigurationNumber = d.ConfigurationNumber
      /\ d'.UENUM = d.UENUM \/ d'.UENUM # 0
  BY DEF Types, DType, MType, MSet, SelectEPNum, ReadConfig, WriteConfig, Selected
<1>3. \/ /\ e'.setup = e.setup /\ e'.in = e.in /\ e'.out = e.out /\ e'.control = e.control
      \/ m.pc = "write" /\ d.UENUM = 0 /\ e'.setup = "none" /\ e'.in = "free" /\ e'.out = FALSE
  BY DEF Types, EType, SelectEPNum, ReadConfig, WriteConfig, Selected, At, Flushed
<1>4. /\ m'.nested = m.nested /\ m'.PrevEndpoint = m.PrevEndpoint /\ m'.req = m.req
      /\ m'.next = m.next
      /\ \/ m.pc = "select" /\ m'.pc = "read" /\ d'.UENUM # 0
         \/ m.pc = "read" /\ m'.pc \in {"write", "select", "selected"}
         \/ m.pc = "write" /\ m'.pc \in {"select", "selected"}
         \/ m.pc = "selected" /\ m'.pc \in {"select", "leftover"}
  <2>0. MType
    BY DEF Types
  <2>1. CASE SelectEPNum
    BY <2>0, <2>1 DEF MType, MSet, SelectEPNum, At, Go
  <2>2. CASE ReadConfig
    BY <2>2 DEF ReadConfig, NextEPNum, At
  <2>3. CASE WriteConfig
    BY <2>3 DEF WriteConfig, NextEPNum, At
  <2>4. CASE Selected
    BY <2>4 DEF Selected, At
  <2> QED
    BY <2>1, <2>2, <2>3, <2>4
<1>5. (BeforeAddress /\ StrayConfig /\ Nested /\ ControlSelected)'
  BY <1>1, <1>2, <1>3, <1>4
     DEF AgreeInv, Enumeration, BeforeAddress, StrayConfig, Nested, InTask, InRequest,
         ControlSelected
<1>6. ASSUME Synced PROVE StrayReport'
  BY <1>4, <1>6 DEF AgreeInv, InStep, StrayReport, Stray, InTask, InRequest
<1>7. ASSUME Synced PROVE (Behind /\ SameRequest)'
  BY <1>1, <1>3, <1>4, <1>7 DEF AgreeInv, InStep, Behind, SameRequest, Fresh, Requests
<1>8. ASSUME Synced PROVE (Locals /\ Answer)'
  BY <1>1, <1>2, <1>3, <1>4, <1>8 DEF AgreeInv, InStep, Locals, Answer, Good
<1> QED
  BY <1>5, <1>6, <1>7, <1>8 DEF Kept, InStep

\* What sending a packet on endpoint 0 changes.
LEMMA PacketSent ==
  ASSUME EType, NEW k
  PROVE  /\ SendControl(k).setup = e.setup /\ SendControl(k).out = e.out
         /\ SendControl(k).control = e.control /\ SendControl(k).in \in {k, "junk", "stall"}
         /\ SendControl(k).in = "stall" => e.in = "stall" \/ k = "stall"
         /\ e.in = "free" => SendControl(k).in = k
         /\ [SendControl(k) EXCEPT !.setup = "none"].setup = "none"
         /\ [SendControl(k) EXCEPT !.setup = "none"].in = SendControl(k).in
         /\ [SendControl(k) EXCEPT !.setup = "none"].out = e.out
         /\ [SendControl(k) EXCEPT !.setup = "none"].control = e.control
<1>1. SendControl(k) = [e EXCEPT !.in = Sent(e.in, k)]
  BY DEF SendControl
<1>2. /\ SendControl(k).in = Sent(e.in, k) /\ SendControl(k).setup = e.setup
      /\ SendControl(k).out = e.out /\ SendControl(k).control = e.control
  BY <1>1 DEF EType
<1>3. /\ [SendControl(k) EXCEPT !.setup = "none"].setup = "none"
      /\ [SendControl(k) EXCEPT !.setup = "none"].in = SendControl(k).in
      /\ [SendControl(k) EXCEPT !.setup = "none"].out = e.out
      /\ [SendControl(k) EXCEPT !.setup = "none"].control = e.control
  BY <1>1, <1>2 DEF EType
<1> QED
  BY <1>2, <1>3 DEF Sent

\* The requests that return data.
LEMMA DataSteps ==
  ASSUME Types, Dispatched, AgreeInv, Main,
         GetDescriptor \/ ControlStream \/ ControlStreamEnd \/ GetStatus
  PROVE  Kept
<1>1. h' = h /\ m.req \in Requests
  BY DEF Main, Types, MType, MSet
<1>2. d' = d
  BY DEF GetDescriptor, ControlStream, ControlStreamEnd, GetStatus
<1>3. /\ e'.control = e.control
      /\ \/ m.pc = "GetDescriptor" /\ e'.setup = "none" /\ e'.in = e.in /\ e'.out = e.out
         \/ m.pc = "stream" /\ m'.pc = "clearout" /\ e' = e
         \/ m.pc = "stream" /\ m'.pc = "stream" /\ e.setup = "none" /\ e'.setup = e.setup
            /\ e'.in \in {"data", "junk", "stall"} /\ (e.in = "free" => e'.in = "data")
            /\ e'.out = e.out /\ (e'.in = "stall" => e.in = "stall")
         \/ m.pc = "clearout" /\ e'.setup = e.setup /\ e'.in = e.in /\ e'.out = FALSE
         \/ m.pc = "GetStatus" /\ e'.setup = "none" /\ e'.out = e.out
            /\ e'.in \in {"data", "junk", "stall"}
  <2>0. EType /\ MType
    BY DEF Types
  <2>1. CASE GetDescriptor
    BY <2>0, <2>1 DEF GetDescriptor, At, EType
  <2>2. CASE ControlStream
    <3>1. CASE e' = e
      BY <2>0, <2>2, <3>1, PacketSent DEF ControlStream, At, Go, MType, MSet
    <3>2. CASE e' # e
      BY <2>0, <2>2, <3>2, PacketSent DEF ControlStream, At, Go, MType, MSet
    <3> QED
      BY <3>1, <3>2
  <2>3. CASE ControlStreamEnd
    BY <2>0, <2>3 DEF ControlStreamEnd, At, EType
  <2>4. CASE GetStatus
    BY <2>0, <2>4, PacketSent DEF GetStatus, At
  <2> QED
    BY <2>1, <2>2, <2>3, <2>4
<1>4. /\ m'.nested = m.nested /\ m'.PrevEndpoint = m.PrevEndpoint /\ m'.req = m.req
      /\ m'.next = m.next
      /\ \/ m.pc = "GetDescriptor" /\ m'.pc = "stream"
         \/ m.pc = "stream" /\ m'.pc \in {"stream", "clearout"}
         \/ m.pc = "clearout" /\ m'.pc = "leftover"
         \/ m.pc = "GetStatus" /\ m'.pc = "status"
  BY DEF Types, MType, MSet, GetDescriptor, ControlStream, ControlStreamEnd, GetStatus, At,
         Go
<1>5. (BeforeAddress /\ StrayConfig /\ Nested /\ ControlSelected)'
  BY <1>1, <1>2, <1>3, <1>4
     DEF AgreeInv, Enumeration, BeforeAddress, StrayConfig, Nested, InTask, InRequest,
         ControlSelected, Dispatched, Requests
<1>6. ASSUME Synced PROVE StrayReport'
  BY <1>4, <1>6 DEF AgreeInv, InStep, StrayReport, Stray, InTask, InRequest
<1>7. ASSUME Synced PROVE (Behind /\ SameRequest)'
  BY <1>1, <1>3, <1>4, <1>7
     DEF AgreeInv, InStep, Behind, SameRequest, Fresh, Requests, IsGet, Dispatched
<1>8. ASSUME Synced PROVE (Locals /\ Answer)'
  BY <1>1, <1>2, <1>3, <1>4, <1>8
     DEF AgreeInv, InStep, SameRequest, Locals, Answer, Good, Requests, Dispatched
<1> QED
  BY <1>5, <1>6, <1>7, <1>8 DEF Kept, InStep

\* The endpoint halt feature.
LEMMA HaltSteps ==
  ASSUME Types, Dispatched, AgreeInv, Main, ClearSetFeature \/ EndpointHalt
  PROVE  Kept
<1>1. h' = h /\ m.req \in Requests
  BY DEF Main, Types, MType, MSet
<1>2. /\ d'.ADDEN = d.ADDEN /\ d'.DeviceState = d.DeviceState
      /\ d'.ConfigurationNumber = d.ConfigurationNumber
      /\ d'.UENUM = (IF m.pc = "halt" THEN 0 ELSE 1)
  BY DEF Types, DType, ClearSetFeature, EndpointHalt, At
<1>3. /\ e'.out = e.out /\ e'.control = e.control
      /\ \/ m.pc # "halt" /\ e'.in = e.in /\ e'.setup = e.setup
         \/ m.pc = "halt" /\ e'.setup = "none" /\ (d.UENUM # 0 => e'.in = e.in)
  BY DEF Types, EType, ClearSetFeature, EndpointHalt, At
<1>4. /\ m'.nested = m.nested /\ m'.PrevEndpoint = m.PrevEndpoint /\ m'.req = m.req
      /\ m'.next = m.next
      /\ \/ m.pc \in {"SetFeature", "ClearFeature"} /\ m'.pc = "halt"
         \/ m.pc = "halt" /\ m'.pc = "status"
  BY DEF Types, MType, MSet, ClearSetFeature, EndpointHalt, At, Go
<1>5. (BeforeAddress /\ StrayConfig /\ Nested /\ ControlSelected)'
  BY <1>1, <1>2, <1>3, <1>4
     DEF AgreeInv, Enumeration, BeforeAddress, StrayConfig, Nested, InTask, InRequest,
         ControlSelected
<1>6. ASSUME Synced PROVE StrayReport'
  BY <1>4, <1>6 DEF AgreeInv, InStep, StrayReport, Stray, InTask, InRequest
<1>7. ASSUME Synced PROVE (Behind /\ SameRequest)'
  BY <1>1, <1>3, <1>4, <1>7
     DEF AgreeInv, Enumeration, HostStage, InStep, Behind, SameRequest, Fresh, Locals,
         Requests
<1>8. ASSUME Synced PROVE (Locals /\ Answer)'
  BY <1>1, <1>2, <1>3, <1>4, <1>8 DEF AgreeInv, InStep, Locals, Answer, Good, Dispatched
<1> QED
  BY <1>5, <1>6, <1>7, <1>8 DEF Kept, InStep

\* Endpoint_ClearStatusStage.
LEMMA StatusSteps ==
  ASSUME Types, Dispatched, AgreeInv, Main, ClearStatusStage
  PROVE  Kept
<1>1. h' = h /\ m.req \in Requests
  BY DEF Main, Types, MType, MSet
<1>2. d' = d
  BY DEF ClearStatusStage
<1>3. /\ e'.setup = e.setup /\ e'.control = e.control
      /\ \/ IsGet(m.req) /\ e'.in = e.in /\ e'.out \in {e.out, FALSE}
         \/ ~IsGet(m.req) /\ e'.out = e.out /\ (e.in = "free" => e'.in = "zlp")
  <2>0. EType
    BY DEF Types
  <2>1. CASE StatusReady
    <3>1. CASE IsGet(m.req)
      <4>1. e' = [e EXCEPT !.out = FALSE]
        BY <2>1, <3>1 DEF ClearStatusStage
      <4> QED
        BY <2>0, <3>1, <4>1 DEF EType
    <3>2. CASE ~IsGet(m.req)
      <4>1. e' = SendControl("zlp")
        BY <2>1, <3>2 DEF ClearStatusStage
      <4> QED
        BY <2>0, <3>2, <4>1, PacketSent
    <3> QED
      BY <3>1, <3>2
  <2>2. CASE ~StatusReady
    BY <2>2 DEF ClearStatusStage, StatusReady, INReady
  <2> QED
    BY <2>1, <2>2
<1>4. /\ m'.nested = m.nested /\ m'.PrevEndpoint = m.PrevEndpoint /\ m'.req = m.req
      /\ m'.next = m.next
      /\ m.pc = "status" /\ m'.pc = AfterStatus
  BY DEF ClearStatusStage, At, Go
<1>5. (BeforeAddress /\ StrayConfig /\ Nested /\ ControlSelected)'
  BY <1>1, <1>2, <1>3, <1>4
     DEF AgreeInv, Enumeration, BeforeAddress, StrayConfig, Nested, InTask, InRequest,
         ControlSelected, AfterStatus
<1>6. ASSUME Synced PROVE StrayReport'
  BY <1>4, <1>6 DEF AgreeInv, InStep, StrayReport, Stray, InTask, InRequest, AfterStatus
<1>7. ASSUME Synced PROVE (Behind /\ SameRequest)'
  BY <1>1, <1>3, <1>4, <1>7
     DEF AgreeInv, Enumeration, HostStage, StrayConfig, InStep, Behind, SameRequest, Fresh,
         Requests, IsGet, Synced, AfterStatus
<1>8. ASSUME Synced PROVE (Locals /\ Answer)'
  BY <1>1, <1>2, <1>3, <1>4, <1>8
     DEF AgreeInv, Enumeration, HostStage, InStep, SameRequest, Fresh, Locals, Answer, Good,
         Requests, AfterStatus
<1> QED
  BY <1>5, <1>6, <1>7, <1>8 DEF Kept, InStep

\* The address is enabled: from here on host and device are in step.
LEMMA EnableStep ==
  ASSUME Types, AgreeInv, Main, EnableDeviceAddress
  PROVE  AgreeInv'
<1>1. h' = h /\ e' = e /\ m.pc = "address" /\ e.in # "data"
  BY DEF Main, EnableDeviceAddress, At, INReady
<1>2. /\ d'.ADDEN = TRUE /\ d'.DeviceState = d.DeviceState /\ d'.UENUM = d.UENUM
      /\ d'.ConfigurationNumber = d.ConfigurationNumber /\ d'.EORSTI = d.EORSTI
      /\ d'.WAKEUPE = d.WAKEUPE /\ d'.WAKEUPI = d.WAKEUPI
  BY DEF Types, DType, EnableDeviceAddress
<1>3. m'.pc = "addressed" /\ m'.nested = m.nested /\ m'.PrevEndpoint = m.PrevEndpoint
  BY DEF EnableDeviceAddress, Go
<1>4. Enumeration'
  BY <1>1, <1>2, <1>3
     DEF AgreeInv, Enumeration, HostStage, ResetSeen, BeforeAddress, StrayConfig, Woken,
         Unattached, Nested, InTask, InRequest, ControlSelected
<1>5. ASSUME Synced' PROVE InStep'
  <2>1. h.st = "desc" /\ ~d.ADDEN
    BY <1>1, <1>5 DEF Synced, AgreeInv, Enumeration, HostStage, InStep, Behind
  <2>2. ~e.out /\ h.x # "out" /\ e.setup \in {"none", "SetAddress"} /\ d.UENUM = 0
    BY <1>1, <2>1 DEF AgreeInv, Enumeration, BeforeAddress, ControlSelected
  <2> QED
    BY <1>1, <1>2, <1>3, <2>1, <2>2
       DEF InStep, StrayReport, Behind, SameRequest, Locals, Answer, Requests
<1> QED
  BY <1>4, <1>5 DEF AgreeInv

\* The main loop keeps the invariant.
LEMMA MainAgree ==
  ASSUME Types, Dispatched, AgreeInv, Main
  PROVE  AgreeInv'
<1>1. CASE EnableDeviceAddress
  BY <1>1, EnableStep
<1>2. CASE ~EnableDeviceAddress
  <2>1. Kept
    BY <1>2, PadSteps, WriteSteps, TakeSteps, TaskSteps, SetupSteps, AddressSteps,
       ConfigurationSteps, EndpointSteps, DataSteps, HaltSteps, StatusSteps DEF Main
  <2>2. HostStage' /\ ResetSeen' /\ Woken' /\ (Synced' <=> Synced)
    BY <1>2, MainFrame DEF AgreeInv, Enumeration, HostStage, ResetSeen, Woken, Synced
  <2> QED
    BY <2>1, <2>2 DEF Kept, AgreeInv, Enumeration
<1> QED
  BY <1>1, <1>2

\* The handler keeps the invariant: a reset is handled before the host asks for
\* anything, and a wake-up restores the state from the configuration number.
LEMMA HandlerAgree ==
  ASSUME Types, AgreeInv, USB_GEN_vect
  PROVE  AgreeInv'
<1>1. h' = h /\ m' = m /\ d' = ResetBranch(WakeUpBranch(SuspendBranch(d)))
  BY DEF USB_GEN_vect
<1>2. CASE d.EORSTI
  <2> DEFINE s == WakeUpBranch(SuspendBranch(d))
  <2>1. s \in [DeviceState : {"Unattached", "Powered", "Default", "Addressed", "Configured"},
               ConfigurationNumber : 0..1, UENUM : 0..2,
               ADDEN : BOOLEAN, SUSPE : BOOLEAN, WAKEUPE : BOOLEAN, WAKEUPI : BOOLEAN,
               EORSTI : BOOLEAN] /\ s.EORSTI /\ s.ADDEN = d.ADDEN
    BY <1>2 DEF Types, DType, WakeUpBranch, SuspendBranch
  <2> HIDE DEF s
  <2>2. /\ d'.DeviceState = "Default" /\ d'.UENUM = 0 /\ d'.EORSTI = FALSE
        /\ d'.ADDEN = d.ADDEN
    BY <1>1, <2>1 DEF ResetBranch, s
  <2>3. e'.setup = "none" /\ e'.in = "free" /\ e'.out = FALSE /\ e'.control = TRUE
    BY <1>2 DEF USB_GEN_vect, ConfigureControl, Flushed
  <2> QED
    BY <1>1, <1>2, <2>2, <2>3
       DEF AgreeInv, Enumeration, HostStage, ResetSeen, BeforeAddress, StrayConfig, Woken,
           Unattached, Nested, InTask, InRequest, ControlSelected, Synced
<1>3. CASE ~d.EORSTI
  <2>1. e' = e
    BY <1>3 DEF USB_GEN_vect
  <2>2. /\ d'.ADDEN = d.ADDEN /\ d'.UENUM = d.UENUM /\ d'.EORSTI = d.EORSTI
        /\ d'.ConfigurationNumber = d.ConfigurationNumber
    BY <1>1, <1>3 DEF Types, DType, ResetBranch, WakeUpBranch, SuspendBranch
  <2>3. \/ d' = d
        \/ d'.DeviceState = "Unattached" /\ d'.WAKEUPE /\ h.bus = "idle"
        \/ d'.DeviceState # "Unattached" /\ (d.ConfigurationNumber = 1 => d'.DeviceState = "Configured")
    BY <1>1, <1>3 DEF ResetBranch, WakeUpBranch, SuspendBranch
  <2>4. Enumeration' /\ (Synced' <=> Synced)
    BY <1>1, <2>1, <2>2, <2>3
       DEF AgreeInv, Enumeration, HostStage, ResetSeen, BeforeAddress, StrayConfig, Woken,
           Unattached, Nested, InTask, InRequest, ControlSelected, Synced
  <2>5. ASSUME Synced PROVE InStep'
    BY <1>1, <2>1, <2>2, <2>3, <2>5
       DEF AgreeInv, InStep, StrayReport, Stray, InTask, InRequest, Behind, SameRequest,
           Fresh, Locals, Answer, Good
  <2> QED
    BY <2>4, <2>5 DEF AgreeInv
<1> QED
  BY <1>2, <1>3

\* Resets, suspends, traffic and failed attempts.
LEMMA BusAgree ==
  ASSUME Types, AgreeInv, UNCHANGED m,
         BusReset \/ SpontaneousReset \/ SuspendBus \/ ResumeBus \/ Traffic \/ GiveUp \/ Retry
  PROVE  AgreeInv'
<1>0. m' = m
  OBVIOUS
<1>1. CASE BusReset
  <2>1. /\ d'.ADDEN = FALSE /\ d'.EORSTI = TRUE /\ d'.UENUM = d.UENUM
        /\ e'.setup = "none" /\ e'.in = "free" /\ e'.out = FALSE
    BY <1>1 DEF Types, DType, EType, BusReset, Flushed
  <2>2. h'.st = "addr" /\ h'.x = "none" /\ h'.addr = FALSE
    BY <1>1 DEF BusReset
  <2> QED
    BY <1>0, <2>1, <2>2
       DEF AgreeInv, Enumeration, HostStage, ResetSeen, BeforeAddress, StrayConfig, Woken,
           Unattached, Nested, InTask, InRequest, ControlSelected, Synced
<1>2. CASE SpontaneousReset \/ Retry \/ GiveUp
  <2>1. d' = d /\ e' = e
    BY <1>2 DEF SpontaneousReset, Retry, GiveUp
  <2>2. \/ h'.st = "reset" /\ h'.x \in {"none", h.x} /\ (h'.x = "none" \/ h.st = "off")
        \/ /\ h'.st = "off" /\ h'.x = "none" /\ h'.bus = "idle" /\ h.x # "none"
           /\ ~d.EORSTI /\ ~d.WAKEUPE
    BY <1>2 DEF Types, HType, HSet, SpontaneousReset, Retry, GiveUp, Failed, InterruptPending
  <2> QED
    BY <1>0, <2>1, <2>2
       DEF AgreeInv, Enumeration, HostStage, ResetSeen, BeforeAddress, StrayConfig, Woken,
           Unattached, Nested, InTask, InRequest, ControlSelected, Synced
<1>3. CASE SuspendBus \/ ResumeBus \/ Traffic
  <2>1. /\ e' = e /\ d'.ADDEN = d.ADDEN /\ d'.EORSTI = d.EORSTI /\ d'.UENUM = d.UENUM
        /\ d'.DeviceState = d.DeviceState /\ d'.ConfigurationNumber = d.ConfigurationNumber
        /\ d'.WAKEUPE = d.WAKEUPE /\ (d.WAKEUPI => d'.WAKEUPI)
    BY <1>3 DEF Types, DType, SuspendBus, ResumeBus, Traffic
  <2>2. /\ h'.st = h.st /\ h'.x = h.x /\ h'.addr = h.addr /\ h'.req = h.req
        /\ h'.bus = h.bus \/ h'.bus = "idle" \/ d'.WAKEUPI
    <3>1. CASE SuspendBus
      BY <3>1 DEF Types, HType, HSet, SuspendBus
    <3>2. CASE ResumeBus
      BY <3>2 DEF Types, DType, HType, HSet, ResumeBus
    <3>3. CASE Traffic
      BY <3>3 DEF Traffic
    <3> QED
      BY <1>3, <3>1, <3>2, <3>3
  <2>3. Enumeration' /\ (Synced' <=> Synced)
    BY <1>0, <2>1, <2>2
       DEF AgreeInv, Enumeration, HostStage, ResetSeen, BeforeAddress, StrayConfig, Woken,
           Unattached, Nested, InTask, InRequest, ControlSelected, Synced
  <2>4. ASSUME Synced PROVE InStep'
    BY <1>0, <2>1, <2>2, <2>4
       DEF AgreeInv, InStep, StrayReport, Stray, InTask, InRequest, Behind, SameRequest,
           Fresh, Locals, Answer, Good
  <2> QED
    BY <2>3, <2>4 DEF AgreeInv
<1> QED
  BY <1>1, <1>2, <1>3

\* A request of the host: the device has nothing else to answer.
LEMMA SetupAgree ==
  ASSUME Types, AgreeInv, UNCHANGED m, Setup
  PROVE  AgreeInv'
<1>0. m' = m /\ d' = d /\ h.x = "none" /\ h.bus = "active" /\ ~d.EORSTI
  BY DEF Setup
<1>1. PICK r \in Next_Request, out \in {FALSE, e.out} :
        /\ e' = IF Reach THEN [e EXCEPT !.setup = r, !.in = "free", !.out = out] ELSE e
        /\ h' = [h EXCEPT !.x = IF IsGet(r) THEN "data" ELSE "status", !.req = r,
                          !.left = IF r = "GetDescriptor" THEN Packets ELSE 1,
                          !.faults = Fault(InRequest /\ ~Blocked),
                          !.requests = IF h.st = "ready" THEN @ + 1 ELSE @]
  BY DEF Setup
<1>2. /\ h'.x = (IF IsGet(r) THEN "data" ELSE "status") /\ h'.req = r /\ h'.st = h.st
      /\ h'.addr = h.addr /\ h'.bus = h.bus
  BY <1>1 DEF Types, HType, HSet
<1>3. \/ h.st = "addr" /\ r = "SetAddress"
      \/ h.st = "desc" /\ r = "GetDescriptor"
      \/ h.st = "conf" /\ r = "SetConfiguration"
      \/ h.st = "ready" /\ r \in Requests /\ r # "SetAddress"
  BY ExtraRequests DEF Next_Request
<1>4. /\ Reach => e'.setup = r /\ e'.in = "free" /\ e'.out \in {FALSE, e.out}
                  /\ e'.control = e.control
      /\ ~Reach => e' = e
  BY <1>1 DEF Types, EType
<1>5. Reach <=> e.control /\ d.ADDEN = h.addr
  BY <1>0 DEF Reach
<1>6. Enumeration'
  <2>1. HostStage'
    BY <1>0, <1>2, <1>3 DEF AgreeInv, Enumeration, HostStage, IsGet
  <2>2. BeforeAddress'
    BY <1>0, <1>2, <1>3, <1>4, <1>5 DEF AgreeInv, Enumeration, HostStage, BeforeAddress, IsGet
  <2>3. StrayConfig'
    BY <1>0, <1>2, <1>4 DEF AgreeInv, Enumeration, StrayConfig
  <2>4. (ResetSeen /\ Woken /\ Nested /\ ControlSelected)'
    BY <1>0, <1>2 DEF AgreeInv, Enumeration, ResetSeen, Woken, Unattached, Nested, InTask,
                      InRequest, ControlSelected
  <2> QED
    BY <2>1, <2>2, <2>3, <2>4 DEF Enumeration
<1>7. ASSUME Synced' PROVE InStep'
  <2>1. Synced /\ Reach /\ h.st # "addr"
    BY <1>0, <1>2, <1>5, <1>7 DEF Synced, AgreeInv, Enumeration, HostStage, StrayConfig
  <2>2. /\ m.pc \notin Requests \cup {"dispatch", "halt"}
        /\ m.pc = "status" => IsGet(m.req)
    BY <1>0, <2>1 DEF AgreeInv, InStep, SameRequest
  <2>3. StrayReport' /\ Behind'
    BY <1>0, <1>2, <1>4, <2>1
       DEF AgreeInv, InStep, StrayReport, Stray, InTask, InRequest, Behind
  <2>4. SameRequest' /\ Locals'
    BY <1>0, <1>2, <1>3, <1>4, <2>1 DEF AgreeInv, InStep, SameRequest, Fresh, Locals
  <2>5. Answer'
    BY <1>0, <1>2, <1>4, <2>1 DEF AgreeInv, InStep, Answer, Good
  <2> QED
    BY <2>3, <2>4, <2>5 DEF InStep
<1> QED
  BY <1>6, <1>7 DEF AgreeInv

\* The host gives the attempt up.
LEMMA FailedAgree ==
  ASSUME Types, AgreeInv, UNCHANGED <<m, d>>, h.x # "none", h' = Failed,
         e'.control = e.control
  PROVE  AgreeInv'
<1>1. h'.st = "off" /\ h'.x = "none" /\ h'.bus = "idle"
  BY DEF Failed
<1> QED
  BY <1>1
     DEF AgreeInv, Enumeration, HostStage, ResetSeen, BeforeAddress, StrayConfig, Woken,
         Unattached, Nested, InTask, InRequest, ControlSelected, Synced

\* The host takes the answer to its request.
LEMMA TakeInAgree ==
  ASSUME Types, AgreeInv, UNCHANGED m, TakeIn
  PROVE  AgreeInv'
<1>0. /\ m' = m /\ d' = d /\ h.x \in {"data", "status"} /\ e.in \in {"zlp", "data", "junk"}
      /\ h.bus = "active" /\ e.control /\ d.ADDEN = h.addr
  BY DEF TakeIn, Reach
<1>1. e'.in = "free" /\ e'.setup = e.setup /\ e'.out = e.out /\ e'.control = e.control
  BY DEF Types, EType, TakeIn
<1>2. /\ h.st \in {"addr", "desc", "conf", "ready"} /\ ~d.EORSTI
      /\ h.st # "addr" => Synced
      /\ h.st = "addr" => ~d.ADDEN
  BY <1>0 DEF Types, HType, HSet, AgreeInv, Enumeration, HostStage, ResetSeen, Synced
<1>3. ~(m.pc \in {"read", "write"} /\ d.UENUM = 0)
  BY <1>0, <1>2 DEF AgreeInv, Enumeration, StrayConfig
<1>4. CASE h' = Failed
  BY <1>0, <1>1, <1>4, FailedAgree
<1>5. CASE h.x = "status" /\ e.in = "zlp" /\ h' = Done
  <2>1. /\ h'.x = "none" /\ h'.addr = (h.addr \/ h.st = "addr") /\ h'.bus = h.bus /\ h'.req = h.req
        /\ h'.st = IF h.st = "addr" THEN "desc"
                   ELSE IF h.st = "desc" \/ h.req = "Unconfigure" THEN "conf" ELSE "ready"
    BY <1>5 DEF Done
  <2>2. h.st # "desc"
    BY <1>5 DEF AgreeInv, Enumeration, HostStage
  <2>3. Enumeration'
    BY <1>0, <1>1, <1>2, <2>1
       DEF AgreeInv, Enumeration, HostStage, ResetSeen, BeforeAddress, StrayConfig, Woken,
           Unattached, Nested, InTask, InRequest, ControlSelected
  <2>4. ASSUME Synced' PROVE InStep'
    <3>1. h.st \in {"conf", "ready"} /\ Synced
      BY <1>0, <1>2, <2>1, <2>2, <2>4 DEF Synced
    <3>2. /\ ~Stray /\ e.setup = "none"
          /\ m.pc \notin Requests \cup {"dispatch", "halt", "addressed", "SetAddress", "address"}
          /\ m.pc = "status" => IsGet(m.req)
      BY <1>0, <3>1 DEF AgreeInv, InStep, StrayReport, Behind, SameRequest, Fresh
    <3>3. StrayReport' /\ Behind' /\ SameRequest' /\ Locals'
      BY <1>0, <1>1, <3>1, <3>2
         DEF AgreeInv, InStep, StrayReport, Stray, InTask, InRequest, Behind, SameRequest,
             Locals
    <3>4. Answer'
      BY <1>0, <1>5, <2>1, <3>1 DEF AgreeInv, InStep, Answer, Good
    <3> QED
      BY <3>3, <3>4 DEF InStep
  <2> QED
    BY <2>3, <2>4 DEF AgreeInv
<1>6. CASE /\ h.x = "data" /\ e.in = "data"
           /\ h' = [h EXCEPT !.left = @ - 1, !.x = IF h.left = 1 THEN "out" ELSE @]
  <2>1. /\ h'.x \in {"data", "out"} /\ h'.st = h.st /\ h'.addr = h.addr /\ h'.bus = h.bus
        /\ h'.req = h.req
    BY <1>6 DEF Types, HType, HSet
  <2>2. h.st \in {"desc", "ready"}
    BY <1>2, <1>6 DEF AgreeInv, Enumeration, HostStage
  <2>3. Enumeration'
    BY <1>0, <1>1, <1>6
       DEF AgreeInv, Enumeration, HostStage, ResetSeen, BeforeAddress, StrayConfig, Woken,
           Unattached, Nested, InTask, InRequest, ControlSelected
  <2>4. InStep'
    <3>1. Synced
      BY <1>2, <2>2
    <3>2. /\ ~Stray /\ e.setup = "none"
          /\ m.pc \notin Requests \cup {"dispatch", "halt", "addressed", "SetAddress", "address"}
          /\ m.pc = "status" => IsGet(m.req)
      BY <1>6, <3>1 DEF AgreeInv, InStep, StrayReport, Behind, SameRequest
    <3>3. StrayReport' /\ Behind' /\ SameRequest' /\ Locals'
      BY <1>0, <1>1, <3>1, <3>2
         DEF AgreeInv, InStep, StrayReport, Stray, InTask, InRequest, Behind, SameRequest,
             Locals
    <3>4. Answer'
      BY <1>0, <1>6, <3>1 DEF AgreeInv, InStep, Answer, Good
    <3> QED
      BY <3>3, <3>4 DEF InStep
  <2> QED
    BY <2>3, <2>4 DEF AgreeInv
<1> QED
  BY <1>0, <1>4, <1>5, <1>6 DEF TakeIn

\* The host ends a request that returned data.
LEMMA SendStatusAgree ==
  ASSUME Types, AgreeInv, UNCHANGED m, SendStatus
  PROVE  AgreeInv'
<1>0. m' = m /\ d' = d /\ h.x = "out" /\ h.bus = "active" /\ e.control /\ d.ADDEN = h.addr
  BY DEF SendStatus, Reach
<1>1. e'.in = e.in /\ e'.setup = e.setup /\ e'.out = TRUE /\ e'.control = e.control
  BY DEF Types, EType, SendStatus
<1>2. h.st \in {"desc", "ready"} /\ Synced /\ ~d.EORSTI
  BY <1>0 DEF Types, HType, HSet, AgreeInv, Enumeration, HostStage, ResetSeen, Synced
<1>3. /\ h'.x = "none" /\ h'.addr = h.addr /\ h'.bus = h.bus /\ h'.req = h.req
      /\ h'.st \in {"conf", "ready"} /\ (h.st = "desc" => h'.st = "conf")
  BY <1>2 DEF Types, HType, HSet, SendStatus, Done
<1>4. Enumeration'
  BY <1>0, <1>1, <1>2, <1>3
     DEF AgreeInv, Enumeration, HostStage, ResetSeen, BeforeAddress, StrayConfig, Woken,
         Unattached, Nested, InTask, InRequest, ControlSelected
<1>5. InStep'
  <2>1. /\ ~Stray /\ e.setup = "none"
        /\ m.pc \notin Requests \cup {"dispatch", "halt", "addressed", "SetAddress", "address"}
        /\ m.pc = "status" => IsGet(m.req)
    BY <1>0, <1>2 DEF AgreeInv, InStep, StrayReport, Behind, SameRequest
  <2>2. StrayReport' /\ Behind' /\ SameRequest' /\ Locals'
    BY <1>0, <1>1, <1>2
       DEF AgreeInv, InStep, StrayReport, Stray, InTask, InRequest, Behind, SameRequest,
           Locals
  <2>3. Answer'
    BY <1>0, <1>2, <1>3 DEF AgreeInv, InStep, Answer, Good
  <2> QED
    BY <2>2, <2>3 DEF InStep
<1> QED
  BY <1>4, <1>5 DEF AgreeInv

\* The host sees a stall: the request has not been carried out.
LEMMA SeeStallAgree ==
  ASSUME Types, AgreeInv, UNCHANGED m, SeeStall
  PROVE  AgreeInv'
<1>0. m' = m /\ d' = d /\ e' = e /\ h.x # "none" /\ e.in = "stall"
  BY DEF SeeStall
<1>1. CASE h.st # "ready"
  BY <1>0, <1>1, FailedAgree DEF SeeStall
<1>2. CASE h.st = "ready"
  <2>1. h'.x = "none" /\ h'.st = h.st /\ h'.addr = h.addr /\ h'.bus = h.bus /\ h'.req = h.req
    BY <1>2 DEF SeeStall
  <2>2. Enumeration' /\ Synced
    BY <1>0, <1>2, <2>1
       DEF AgreeInv, Enumeration, HostStage, ResetSeen, BeforeAddress, StrayConfig, Woken,
           Unattached, Nested, InTask, InRequest, ControlSelected, Synced
  <2>3. InStep'
    BY <1>0, <1>2, <2>2
       DEF AgreeInv, InStep, StrayReport, Stray, InTask, InRequest, Behind, SameRequest,
           Fresh, Locals, Answer, Good
  <2> QED
    BY <2>2, <2>3 DEF AgreeInv
<1> QED
  BY <1>1, <1>2

\* Reports on the endpoints 1 and 2 do not touch endpoint 0.
LEMMA ReportAgree ==
  ASSUME Types, AgreeInv, UNCHANGED m, TakeReportIN \/ SendReportOUT
  PROVE  AgreeInv'
<1>1. m' = m /\ d' = d /\ h' = h
  BY DEF TakeReportIN, SendReportOUT
<1>2. e'.in = e.in /\ e'.setup = e.setup /\ e'.out = e.out /\ e'.control = e.control
  BY DEF Types, EType, TakeReportIN, SendReportOUT
<1>3. Enumeration' /\ (Synced' <=> Synced)
  BY <1>1, <1>2
     DEF AgreeInv, Enumeration, HostStage, ResetSeen, BeforeAddress, StrayConfig, Woken,
         Unattached, Nested, InTask, InRequest, ControlSelected, Synced
<1>4. ASSUME Synced PROVE InStep'
  BY <1>1, <1>2, <1>4
     DEF AgreeInv, InStep, StrayReport, Stray, InTask, InRequest, Behind, SameRequest,
         Fresh, Locals, Answer, Good
<1> QED
  BY <1>3, <1>4 DEF AgreeInv

\* The invariant holds at the start.
LEMMA InitAgree == Init => ReadyInv /\ AgreeInv
<1> SUFFICES ASSUME Init PROVE ReadyInv /\ AgreeInv
  OBVIOUS
<1>1. /\ d.DeviceState = "Unattached" /\ d.ConfigurationNumber = 0 /\ d.EORSTI = FALSE
      /\ d.UENUM = 0 /\ e.control = TRUE /\ e.out = FALSE /\ e.setup = "none"
      /\ m.pc = "usbtask" /\ m.nested = FALSE /\ h.st = "reset" /\ h.x = "none"
  BY DEF Init
<1> QED
  BY <1>1
     DEF ReadyInv, Dispatched, Configured, Live, Requests, AgreeInv, Enumeration, HostStage,
         ResetSeen, BeforeAddress, StrayConfig, Woken, Nested, ControlSelected, Synced

-----------------------------------------------------------------------------
(* The steps keep ReadyInv.                                                *)

Configures == {"number", "store", "select", "read", "write", "selected"}

\* A step that has nothing to do with the configuration.
LEMMA OtherStep ==
  ASSUME ReadyInv, m.pc \notin Configures, m'.pc \notin Configures,
         ~Configuring, ~Configuring', Dispatched',
         d'.DeviceState # d.DeviceState => d'.DeviceState # "Configured",
         d'.ConfigurationNumber = d.ConfigurationNumber, d'.EORSTI = d.EORSTI,
         Ready(1) => Ready(1)', Ready(2) => Ready(2)'
  PROVE  ReadyInv'
BY DEF ReadyInv, Configured, Live, Configures

\* The steps of the loop outside the requests.
LEMMA PadReady ==
  ASSUME Types, ReadyInv,
         \/ PAD_Task \/ SendNextReport \/ TestReadWrite \/ WaitUntilReady \/ WriteStream
         \/ WriteByte \/ SendReport \/ ClearState \/ ReceiveNextReport \/ TestOUT \/ TakeReport
         \/ USB_DeviceTask \/ RestoreEndpoint
  PROVE  ReadyInv'
<1>1. /\ m.pc \in {"pad", "send", "rw", "wait", "loop", "byte", "clearin", "clear", "recv",
                   "out", "taken", "usbtask", "restore"}
      /\ m'.pc \in {"pad", "send", "rw", "wait", "loop", "byte", "clearin", "clear", "recv",
                    "out", "taken", "usbtask", "setup"}
  BY DEF Types, MType, MSet, PAD_Task, SendNextReport, TestReadWrite, WaitUntilReady,
         WriteStream, WriteByte, SendReport, ClearState, ReceiveNextReport, TestOUT,
         TakeReport, USB_DeviceTask, RestoreEndpoint, Return, At, Go
<1>2. /\ d'.DeviceState = d.DeviceState /\ d'.ConfigurationNumber = d.ConfigurationNumber
      /\ d'.EORSTI = d.EORSTI
  BY DEF Types, DType, PAD_Task, SendNextReport, TestReadWrite, WaitUntilReady, WriteStream,
         WriteByte, SendReport, ClearState, ReceiveNextReport, TestOUT, TakeReport,
         USB_DeviceTask, RestoreEndpoint
<1>3. (Ready(1) => Ready(1)') /\ (Ready(2) => Ready(2)')
  <2>1. CASE UNCHANGED e
    BY <2>1 DEF Ready
  <2>2. CASE WriteStream \/ SendReport \/ WriteByte
    BY <2>2
       DEF Types, EType, WriteStream, SendReport, WriteByte, ClearIN, SendControl, Ready
  <2>3. CASE TakeReport
    BY <2>3 DEF TakeReport, ClearOUT, Ready
  <2> QED
    BY <2>1, <2>2, <2>3
       DEF PAD_Task, SendNextReport, TestReadWrite, WaitUntilReady, ClearState,
           ReceiveNextReport, TestOUT, USB_DeviceTask, RestoreEndpoint
<1>4. /\ ~Configuring /\ ~Configuring' /\ Dispatched'
      /\ m.pc \notin Configures /\ m'.pc \notin Configures
  BY <1>1 DEF Configuring, Configures, At, Dispatched, Requests
<1> QED
  BY <1>2, <1>3, <1>4, OtherStep

\* The requests that do not configure.
LEMMA RequestReady ==
  ASSUME Types, ReadyInv,
         \/ IsSETUPReceived \/ Leftover \/ SetAddress \/ EnableDeviceAddress \/ Addressed
         \/ GetDescriptor \/ ControlStream \/ ControlStreamEnd \/ GetStatus
         \/ ClearSetFeature \/ EndpointHalt
  PROVE  ReadyInv'
<1>1. \/ m.pc = "setup" /\ m'.pc \in {"restore", "dispatch"}
      \/ m'.req = m.req /\ \/ m.pc = "leftover" /\ m'.pc = "restore"
                           \/ m.pc = "SetAddress" /\ m'.pc = "status"
                           \/ m.pc = "address" /\ m'.pc = "addressed"
                           \/ m.pc = "addressed" /\ m'.pc = "leftover"
                           \/ m.pc = "GetDescriptor" /\ m'.pc = "stream"
                           \/ m.pc = "stream" /\ m'.pc \in {"stream", "clearout"}
                           \/ m.pc = "clearout" /\ m'.pc = "leftover"
                           \/ m.pc = "GetStatus" /\ m'.pc = "status"
                           \/ m.pc \in {"SetFeature", "ClearFeature"} /\ m'.pc = "halt"
                           \/ m.pc = "halt" /\ m'.pc = "status"
  BY DEF Types, MType, MSet, IsSETUPReceived, Leftover, SetAddress, EnableDeviceAddress,
         Addressed, GetDescriptor, ControlStream, ControlStreamEnd, GetStatus,
         ClearSetFeature, EndpointHalt, At, Go
<1>2. /\ d'.DeviceState \in {d.DeviceState, "Addressed"} /\ d'.EORSTI = d.EORSTI
      /\ d'.ConfigurationNumber = d.ConfigurationNumber
  BY DEF Types, DType, IsSETUPReceived, Leftover, SetAddress, EnableDeviceAddress,
         Addressed, GetDescriptor, ControlStream, ControlStreamEnd, GetStatus,
         ClearSetFeature, EndpointHalt
<1>3. (Ready(1) => Ready(1)') /\ (Ready(2) => Ready(2)')
  <2>1. CASE EndpointHalt
    BY <2>1 DEF EndpointHalt, Ready
  <2>2. CASE ~EndpointHalt
    <3>1. e'.bank = e.bank
      BY <2>2
         DEF Types, EType, IsSETUPReceived, Leftover, SetAddress, EnableDeviceAddress,
             Addressed, GetDescriptor, ControlStream, ControlStreamEnd, GetStatus,
             ClearSetFeature, SendControl
    <3> QED
      BY <3>1 DEF Ready
  <2> QED
    BY <2>1, <2>2
<1>4. /\ ~Configuring /\ ~Configuring' /\ Dispatched'
      /\ m.pc \notin Configures /\ m'.pc \notin Configures
  BY <1>1 DEF ReadyInv, Configuring, Configures, At, Dispatched, Requests
<1> QED
  BY <1>2, <1>3, <1>4, OtherStep

\* A request is dispatched, and its status stage ends.
LEMMA DispatchReady ==
  ASSUME Types, ReadyInv, ProcessControlRequest \/ ClearStatusStage
  PROVE  ReadyInv'
<1>1. d' = d /\ e'.bank = e.bank /\ m'.req = m.req /\ m.req \in Requests
  BY DEF Types, EType, MType, MSet, ProcessControlRequest, ClearStatusStage, SendControl, Go
<1>2. \/ m.pc = "dispatch" /\ m'.pc \in {"leftover", m.req}
      \/ m.pc = "status" /\ m'.pc = AfterStatus
  BY DEF Types, MType, MSet, ProcessControlRequest, ClearStatusStage, At, Go
<1> QED
  BY <1>1, <1>2
     DEF ReadyInv, Dispatched, Configured, Live, Ready, Configuring, At, AfterStatus,
         Requests

\* The request that configures, endpoint by endpoint.
LEMMA ConfigureReady ==
  ASSUME Types, ReadyInv,
         \/ SetConfiguration \/ ReadNumber \/ StoreState \/ SelectEPNum \/ ReadConfig
         \/ WriteConfig \/ Selected
  PROVE  ReadyInv'
<1> USE DEF ReadyInv, Dispatched, Configured, Live, Ready, Configuring, At
<1>0. m.Number \in 1..2 /\ m.EPNum \in 1..2 /\ d.UENUM \in 0..2
  BY DEF Types, DType, MType, MSet
<1>1. CASE SetConfiguration
  <2>1. /\ m.pc \in {"SetConfiguration", "Unconfigure"} /\ m'.pc = "status" /\ m'.req = m.req
        /\ m.pc \in Requests
    BY <1>1 DEF SetConfiguration, Go, Requests
  <2> QED
    BY <2>1 DEF Requests
<1>2. CASE ReadNumber \/ StoreState
  <2>1. \/ m'.pc = "store"
        \/ m'.pc = "select" /\ m'.Number = 1 /\ m'.EPNum = 1
    BY <1>2 DEF Types, MType, MSet, ReadNumber, StoreState
  <2> QED
    BY <2>1 DEF Requests
<1>3. CASE SelectEPNum
  <2>1. /\ m.pc = "select" /\ m'.pc = "read" /\ m'.Number = m.Number /\ m'.EPNum = m.EPNum
        /\ e' = e
    BY <1>3 DEF SelectEPNum, Go
  <2>2. /\ d'.UENUM = m.EPNum /\ d'.DeviceState = d.DeviceState /\ d'.EORSTI = d.EORSTI
        /\ d'.ConfigurationNumber = d.ConfigurationNumber
    BY <1>3 DEF Types, DType, SelectEPNum
  <2> QED
    BY <2>1, <2>2 DEF Requests
<1>4. CASE ReadConfig
  <2>1. /\ d' = d /\ e' = e /\ m.pc = "read" /\ m'.Number = m.Number
        /\ \/ m'.pc = "write" /\ m'.EPNum = m.EPNum
           \/ m'.pc = "select" /\ m.EPNum < 2 /\ m'.EPNum = m.EPNum + 1 /\ m.EPNum # m.Number
           \/ m'.pc = "selected" /\ ~(m.EPNum < 2) /\ m.EPNum # m.Number
    BY <1>4 DEF ReadConfig, NextEPNum, Config
  <2> QED
    BY <1>0, <2>1 DEF Requests
<1>5. CASE WriteConfig
  <2>1. /\ d' = d /\ m.pc = "write" /\ m'.Number = m.Number
        /\ \/ m'.pc = "select" /\ m.EPNum < 2 /\ m'.EPNum = m.EPNum + 1
           \/ m'.pc = "selected" /\ ~(m.EPNum < 2)
    BY <1>5 DEF WriteConfig, NextEPNum
  <2>2. /\ d.UENUM = 0 => e'.bank = e.bank
        /\ d.UENUM # 0 => e'.bank[d.UENUM] = "empty"
        /\ d.UENUM = 1 => e'.bank[2] = e.bank[2]
        /\ d.UENUM = 2 => e'.bank[1] = e.bank[1]
    BY <1>0, <1>5 DEF Types, EType, WriteConfig, Flushed
  <2> QED
    BY <1>0, <2>1, <2>2 DEF Requests
<1>6. CASE Selected
  <2>1. /\ e' = e /\ m.pc = "selected"
        /\ \/ m.Number = 1 /\ m'.pc = "select" /\ m'.Number = 2 /\ m'.EPNum = 2
           \/ m.Number = 2 /\ m'.pc = "leftover"
    BY <1>0, <1>6 DEF Selected
  <2>2. /\ d'.DeviceState = d.DeviceState /\ d'.EORSTI = d.EORSTI
        /\ d'.ConfigurationNumber = d.ConfigurationNumber
    BY <1>6 DEF Types, DType, Selected
  <2> QED
    BY <2>1, <2>2 DEF Requests
<1> QED
  BY <1>1, <1>2, <1>3, <1>4, <1>5, <1>6

\* The handler: a reset unconfigures the device before the banks that are not
\* set up matter; a wake-up only restores what was configured.
LEMMA HandlerReady ==
  ASSUME Types, ReadyInv, USB_GEN_vect
  PROVE  ReadyInv'
<1>1. m' = m /\ d' = ResetBranch(WakeUpBranch(SuspendBranch(d)))
  BY DEF USB_GEN_vect
<1>2. CASE d.EORSTI
  <2> DEFINE s == WakeUpBranch(SuspendBranch(d))
  <2>1. s \in [DeviceState : {"Unattached", "Powered", "Default", "Addressed", "Configured"},
               ConfigurationNumber : 0..1, UENUM : 0..2,
               ADDEN : BOOLEAN, SUSPE : BOOLEAN, WAKEUPE : BOOLEAN, WAKEUPI : BOOLEAN,
               EORSTI : BOOLEAN] /\ s.EORSTI
    BY <1>2 DEF Types, DType, WakeUpBranch, SuspendBranch
  <2> HIDE DEF s
  <2>2. d'.DeviceState = "Default" /\ d'.ConfigurationNumber = 0
    BY <1>1, <2>1 DEF ResetBranch, s
  <2> QED
    BY <1>1, <2>2 DEF ReadyInv, Dispatched, Configured, Live
<1>3. CASE ~d.EORSTI
  <2>1. e' = e
    BY <1>3 DEF USB_GEN_vect
  <2>2. /\ d'.UENUM = d.UENUM /\ d'.ConfigurationNumber = d.ConfigurationNumber
        /\ d'.EORSTI = d.EORSTI
        /\ d'.DeviceState = "Configured" =>
             d.DeviceState = "Configured" \/ d.ConfigurationNumber # 0
    BY <1>1, <1>3 DEF Types, DType, ResetBranch, WakeUpBranch, SuspendBranch
  <2> QED
    BY <1>1, <2>1, <2>2 DEF ReadyInv, Dispatched, Configured, Live, Ready, Configuring, At
<1> QED
  BY <1>2, <1>3

\* The host and the bus: only a reset takes an endpoint away.
LEMMA HostReady ==
  ASSUME Types, ReadyInv, Host(HostStep)
  PROVE  ReadyInv'
<1>1. m' = m
  BY DEF Host
<1>2. CASE BusReset
  <2>1. d'.EORSTI = TRUE
    BY <1>2 DEF Types, DType, BusReset
  <2> QED
    BY <1>1, <2>1 DEF ReadyInv, Dispatched, Configured, Live
<1>3. CASE ~BusReset
  <2>1. /\ d'.UENUM = d.UENUM /\ d'.ConfigurationNumber = d.ConfigurationNumber
        /\ d'.EORSTI = d.EORSTI /\ d'.DeviceState = d.DeviceState
    BY <1>3
       DEF Types, DType, Host, HostStep, SpontaneousReset, SuspendBus, ResumeBus, Traffic,
           Setup, TakeIn, SendStatus, SeeStall, GiveUp, Retry, TakeReportIN, SendReportOUT
  <2>2. (Ready(1) => Ready(1)') /\ (Ready(2) => Ready(2)')
    <3>1. CASE TakeReportIN \/ SendReportOUT
      BY <3>1 DEF Types, EType, TakeReportIN, SendReportOUT, Ready
    <3>2. CASE ~(TakeReportIN \/ SendReportOUT)
      <4>1. e'.bank = e.bank
        BY <1>3, <3>2
           DEF Types, EType, Host, HostStep, SpontaneousReset, SuspendBus, ResumeBus,
               Traffic, Setup, TakeIn, SendStatus, SeeStall, GiveUp, Retry
      <4> QED
        BY <4>1 DEF Ready
    <3> QED
      BY <3>1, <3>2
  <2> QED
    BY <1>1, <2>1, <2>2 DEF ReadyInv, Dispatched, Configured, Live, Configuring, At
<1> QED
  BY <1>2, <1>3

-----------------------------------------------------------------------------

DeviceInv == Types /\ ReadyInv /\ AgreeInv

\* Every step keeps the invariant.
LEMMA NextDevice == DeviceInv /\ [Next]_vars => DeviceInv'
<1> SUFFICES ASSUME DeviceInv, [Next]_vars PROVE DeviceInv'
  OBVIOUS
<1>0. Types /\ ReadyInv /\ Dispatched /\ AgreeInv /\ Types'
  BY NextTypes DEF DeviceInv, ReadyInv
<1>1. CASE UNCHANGED vars
  <2>1. d' = d /\ e' = e /\ m' = m /\ h' = h
    BY <1>1 DEF vars
  <2>2. ReadyInv'
    BY <1>0, <2>1 DEF ReadyInv, Dispatched, Configured, Live, Ready, Configuring, At
  <2>3. Enumeration' /\ (Synced' <=> Synced)
    BY <1>0, <2>1
       DEF AgreeInv, Enumeration, HostStage, ResetSeen, BeforeAddress, StrayConfig, Woken,
           Unattached, Nested, InTask, InRequest, ControlSelected, Synced
  <2>4. Synced => InStep'
    BY <1>0, <2>1
       DEF AgreeInv, InStep, StrayReport, Stray, InTask, InRequest, Behind, SameRequest,
           Fresh, Locals, Answer, Good
  <2> QED
    BY <1>0, <2>2, <2>3, <2>4 DEF DeviceInv, AgreeInv
<1>2. CASE USB_GEN_vect
  BY <1>0, <1>2, HandlerReady, HandlerAgree DEF DeviceInv
<1>3. CASE USART1_RX_vect
  <2>1. d' = d /\ e' = e /\ m' = m /\ h' = h
    BY <1>3 DEF USART1_RX_vect
  <2>2. ReadyInv'
    BY <1>0, <2>1 DEF ReadyInv, Dispatched, Configured, Live, Ready, Configuring, At
  <2>3. Enumeration' /\ (Synced' <=> Synced)
    BY <1>0, <2>1
       DEF AgreeInv, Enumeration, HostStage, ResetSeen, BeforeAddress, StrayConfig, Woken,
           Unattached, Nested, InTask, InRequest, ControlSelected, Synced
  <2>4. Synced => InStep'
    BY <1>0, <2>1
       DEF AgreeInv, InStep, StrayReport, Stray, InTask, InRequest, Behind, SameRequest,
           Fresh, Locals, Answer, Good
  <2> QED
    BY <1>0, <2>2, <2>3, <2>4 DEF DeviceInv, AgreeInv
<1>4. CASE Main
  <2>1. ReadyInv'
    BY <1>0, <1>4, PadReady, RequestReady, DispatchReady, ConfigureReady DEF Main
  <2> QED
    BY <1>0, <1>4, <2>1, MainAgree DEF DeviceInv
<1>5. CASE Host(HostStep)
  <2>1. UNCHANGED m
    BY <1>5 DEF Host
  <2>2. AgreeInv'
    BY <1>0, <1>5, <2>1, BusAgree, SetupAgree, TakeInAgree, SendStatusAgree, SeeStallAgree,
       ReportAgree DEF Host, HostStep
  <2> QED
    BY <1>0, <1>5, <2>2, HostReady DEF DeviceInv
<1> QED
  BY <1>1, <1>2, <1>3, <1>4, <1>5, NextCases

\* The invariant holds in every reachable state.
THEOREM DeviceInvariance == Spec => []DeviceInv
<1>1. Init => DeviceInv
  BY InitTypes, InitAgree DEF DeviceInv
<1> QED
  BY <1>1, NextDevice, PTL DEF Spec

\* A device in DEVICE_STATE_Configured has both endpoints of pad.c set up,
\* outside SET_CONFIGURATION and with no reset left to handle, wherever a reset,
\* a suspend or a wake-up (USB_GEN_vect) hits the loop.
THEOREM ConfiguredIsReady == Spec => []ReadyWhenConfigured
<1>1. DeviceInv => ReadyWhenConfigured
  BY DEF DeviceInv, ReadyInv, Configured, Live, Ready, ReadyWhenConfigured
<1> QED
  BY <1>1, DeviceInvariance, PTL

\* When the host believes the device configured and nothing is outstanding, the
\* device is configured at the host's address and endpoint 0 is a control
\* endpoint, although a reset makes the loop work on endpoint 0.
THEOREM EnumerationAgrees == Spec => []HostAndDeviceAgree
<1>1. DeviceInv => HostAndDeviceAgree
  <2> SUFFICES ASSUME DeviceInv, h.st = "ready", h.x = "none", h.bus = "active",
                      ~InterruptPending, ~InRequest
               PROVE  d.DeviceState = "Configured" /\ Reach
    BY DEF HostAndDeviceAgree
  <2>1. d.ADDEN /\ h.addr /\ Synced
    BY DEF DeviceInv, AgreeInv, Enumeration, HostStage, Synced
  <2>2. e.control
    BY DEF DeviceInv, AgreeInv, Enumeration, StrayConfig
  <2>3. Good
    BY <2>1 DEF DeviceInv, AgreeInv, InStep, Answer
  <2>4. m.pc \notin {"number", "store"}
    BY DEF InRequest
  <2>5. d.DeviceState # "Unattached"
    BY DEF DeviceInv, AgreeInv, Enumeration, Woken, Unattached, InterruptPending
  <2>6. d.ADDEN = TRUE /\ h.addr = TRUE
    BY <2>1
  <2> QED
    BY <2>2, <2>3, <2>4, <2>5, <2>6 DEF Good, Reach
<1> QED
  BY <1>1, DeviceInvariance, PTL

=============================================================================
