--------------------------------- MODULE Pad ---------------------------------
(***************************************************************************)
(* The USB side of the gamepad (AT16u2/PolytechLille/PAD/pad.c on LUFA,    *)
(* ATmega16u2): a receive interrupt that keeps the last byte of the serial *)
(* line, and a main loop that serves control requests, offers that byte on *)
(* the interrupt IN endpoint and copies the OUT endpoint to the serial     *)
(* line.                                                                   *)
(*                                                                         *)
(* data_send and state_send are shared with the interrupt handler, which   *)
(* may run between any two steps of the loop (ppc).  Each endpoint has one *)
(* bank of one byte, so a bank is a sequence of length at most one.        *)
(***************************************************************************)
EXTENDS Integers, Sequences

VARIABLES
  data_send,   \* the byte to report (uint8_t data_send)
  state_send,  \* whether there is one (uint8_t state_send)
  ppc,         \* where the main loop is
  configured,  \* USB_DeviceState = DEVICE_STATE_Configured
  setup,       \* a SET_CONFIGURATION request waits on the control endpoint
  in_bank,     \* bank of PAD_IN_EPADDR: bytes the host has not taken yet
  out_bank,    \* bank of PAD_OUT_EPADDR: bytes the firmware has not taken yet
  txd,         \* serial line from the ATmega328p, oldest first
  line         \* serial line to the ATmega328p, oldest first

pvars == <<data_send, state_send, ppc, configured, setup, in_bank, out_bank, txd, line>>

UartDepth == 2

NoByte == [code |-> 0, id |-> 0]

\* Plugged in: the host's kernel has issued its SET_CONFIGURATION.
Init ==
  /\ data_send = NoByte /\ state_send = 0
  /\ ppc = "usbtask" /\ configured = FALSE /\ setup = TRUE
  /\ in_bank = <<>> /\ out_bank = <<>>
  /\ txd = <<>> /\ line = <<>>

-----------------------------------------------------------------------------

USART1_RX_vect ==
  /\ txd # <<>>
  /\ data_send' = Head(txd)
  /\ state_send' = 1
  /\ txd' = Tail(txd)
  /\ UNCHANGED <<ppc, configured, setup, in_bank, out_bank, line>>

-----------------------------------------------------------------------------
(* USB_USBTask: the control endpoint.                                      *)

USB_USBTask ==
  /\ ppc = "usbtask"
  /\ ~setup
  /\ ppc' = "task"
  /\ UNCHANGED <<data_send, state_send, configured, setup, in_bank, out_bank, txd, line>>

\* Mutant: the configuration event is not raised.
StatusStage_NoEvent ==
  /\ ppc = "usbtask"
  /\ setup
  /\ setup' = FALSE
  /\ ppc' = "task"
  /\ UNCHANGED <<data_send, state_send, configured, in_bank, out_bank, txd, line>>

\* The status stage ends the host's request before the endpoints are set up.
StatusStage ==
  /\ ppc = "usbtask"
  /\ setup
  /\ setup' = FALSE
  /\ ppc' = "config"
  /\ UNCHANGED <<data_send, state_send, configured, in_bank, out_bank, txd, line>>

\* Configuring an endpoint disables it first, which empties its bank.
ConfigurationChanged ==
  /\ ppc = "config"
  /\ configured' = TRUE
  /\ in_bank' = <<>>
  /\ out_bank' = <<>>
  /\ ppc' = "task"
  /\ UNCHANGED <<data_send, state_send, setup, txd, line>>

-----------------------------------------------------------------------------
(* PAD_Task.                                                               *)

PAD_Task ==
  /\ ppc = "task"
  /\ ppc' = IF configured THEN "send" ELSE "usbtask"
  /\ UNCHANGED <<data_send, state_send, configured, setup, in_bank, out_bank, txd, line>>

SendNextReport ==
  /\ ppc = "send"
  /\ ppc' = IF state_send = 1 THEN "rw" ELSE "recv"
  /\ UNCHANGED <<data_send, state_send, configured, setup, in_bank, out_bank, txd, line>>

\* Mutant: the test is inverted.
IsReadWriteAllowed_Inverted ==
  /\ ppc = "rw"
  /\ ppc' = IF in_bank = <<>> THEN "clear" ELSE "write"
  /\ UNCHANGED <<data_send, state_send, configured, setup, in_bank, out_bank, txd, line>>

IsReadWriteAllowed ==
  /\ ppc = "rw"
  /\ ppc' = IF in_bank = <<>> THEN "write" ELSE "clear"
  /\ UNCHANGED <<data_send, state_send, configured, setup, in_bank, out_bank, txd, line>>

\* Endpoint_Write_Stream_LE reads data_send now; ClearIN hands the bank over.
WriteReport ==
  /\ ppc = "write"
  /\ in_bank' = <<data_send>>
  /\ ppc' = "clear"
  /\ UNCHANGED <<data_send, state_send, configured, setup, out_bank, txd, line>>

\* Mutant: state_send keeps its value.
ClearState_NoClear ==
  /\ ppc = "clear"
  /\ ppc' = "recv"
  /\ UNCHANGED <<data_send, state_send, configured, setup, in_bank, out_bank, txd, line>>

\* Reached with the byte written or, the bank being full, not written.
ClearState ==
  /\ ppc = "clear"
  /\ state_send' = 0
  /\ ppc' = "recv"
  /\ UNCHANGED <<data_send, configured, setup, in_bank, out_bank, txd, line>>

\* Nothing to do on the OUT endpoint, or Serial_SendByte waits for UDRE1 and
\* Endpoint_ClearOUT frees the bank.
ReceiveNextReport ==
  /\ ppc = "recv"
  /\ \/ out_bank = <<>> /\ UNCHANGED <<line, out_bank>>
     \/ /\ out_bank # <<>> /\ Len(line) < UartDepth
        /\ line' = Append(line, Head(out_bank))
        /\ out_bank' = <<>>
  /\ ppc' = "usbtask"
  /\ UNCHANGED <<data_send, state_send, configured, setup, in_bank, txd>>

Main ==
  \/ USB_USBTask \/ StatusStage \/ ConfigurationChanged \/ PAD_Task
  \/ SendNextReport \/ IsReadWriteAllowed \/ WriteReport \/ ClearState
  \/ ReceiveNextReport

Next == USART1_RX_vect \/ Main

Spec == Init /\ [][Next]_pvars

Byte == [code : 0..63, id : Nat]

TypeOK ==
  /\ data_send \in Byte /\ state_send \in 0..1
  /\ ppc \in {"usbtask", "config", "task", "send", "rw", "write", "clear", "recv"}
  /\ configured \in BOOLEAN /\ setup \in BOOLEAN
  /\ in_bank \in Seq(Byte) /\ out_bank \in Seq(0..255)
  /\ Len(in_bank) <= 1 /\ Len(out_bank) <= 1
  /\ txd \in Seq(Byte) /\ line \in Seq(0..255)
==============================================================================
