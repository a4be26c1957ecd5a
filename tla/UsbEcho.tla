--------------------------------- MODULE UsbEcho ---------------------------------
(***************************************************************************)
(* The USB_SERIAL_ECHO build of core/USB-CDC.c: packets from the host are  *)
(* received into four buffers in turn and sent back from where they lie,   *)
(* against the completion interrupt, bus resets and reconfigurations.      *)
(*                                                                         *)
(* The application does not use the serial port.  Its tx callback is still *)
(* the one the completion of an IN transfer runs, over an empty tx_buffer  *)
(* and with usbserial_current_tx_length 0, so that it does nothing.  What  *)
(* its rx callback may leave is a place in rx_buffer, where the first      *)
(* packet is then received.                                                *)
(*                                                                         *)
(* Packets are numbered modulo Tags.  A definition Mut_... is a faulty     *)
(* version of the one after it.                                            *)
(***************************************************************************)
EXTENDS Integers, Sequences

CONSTANT Tags           \* packets are numbered modulo Tags

\* Of two packets inside the newer is not mistaken for the older.
ASSUME TagsAssumption == Tags \in Nat /\ Tags > 2

Buffers == 4            \* usbserial_buf
NULL    == -1
RX_RING == -2           \* the storage of rx_buffer, which holds a packet as well
Buffer  == 0 .. Buffers - 1
Storage == Buffer \cup {RX_RING}
Packet  == 0 .. Tags - 1

VARIABLES
    held,                   \* packet held by each buffer and by rx_buffer
    active,                 \* usbserial_active_tx_buf
    current_rx_buffer,      \* usbserial_current_rx_buffer
    epIn, epOut,            \* the bulk endpoints
    tag, back, epoch        \* history, for PacketStream

vars == <<held, active, current_rx_buffer, epIn, epOut, tag, back, epoch>>

\* off, idle, busy (armed) or done (completed, the interrupt pending); data says
\* whether the completed OUT packet has any.
Endpoint == [state : {"off", "idle", "busy", "done"}, buf : Storage, data : BOOLEAN]
Ep(state, buf) == [state |-> state, buf |-> buf, data |-> FALSE]
Start(ep, buf) == IF ep.state = "off" THEN ep ELSE Ep("busy", buf)

\* The constructor of the port installs its callbacks in this build as well.  Before
\* the endpoints are set up usb_ep_ready may answer either: on TRUE _receive_data_cb
\* has been run, and has named the empty ring from its first byte on.
Constructed == {NULL, RX_RING}

Init ==
    /\ held = [b \in Storage |-> 0] /\ active = 0 /\ current_rx_buffer \in Constructed
    /\ epIn = Ep("off", 0) /\ epOut = Ep("off", 0)
    /\ tag = 0 /\ back = << >> /\ epoch = 0

-----------------------------------------------------------------------------
(* usbserial_out_completion.                                                *)

\* Nothing received: the buffer is armed again, or the active one at first.
Reused(buffer) == IF buffer = NULL THEN active ELSE buffer

Mut_NextBuffer == active                        \* one buffer only
Mut_NextWrap == active + 1                      \* past the last buffer
NextBuffer == (active + 1) % Buffers

Mut_SendBack(buffer) ==                         \* dropped while one is under way
    epIn' = IF epIn.state = "busy" THEN epIn ELSE Start(epIn, buffer)
SendBack(buffer) == epIn' = Start(epIn, buffer)

\* The packet goes back, the next buffer receives.
Echo ==
    /\ SendBack(current_rx_buffer)
    /\ active' = NextBuffer
    /\ current_rx_buffer' = active'
    /\ epOut' = Start(Ep("idle", 0), active')

Rearm ==
    /\ current_rx_buffer' = Reused(current_rx_buffer)
    /\ epOut' = Start(Ep("idle", 0), current_rx_buffer')

\* The OUT endpoint is looked at only when the IN endpoint has completed.
Mut_UsbCompletion ==
    /\ epIn.state = "done"
    /\ \/ epOut.state = "done" /\ Echo
       \/ epOut.state # "done" /\ epIn' = Ep("idle", 0)
          /\ UNCHANGED <<active, current_rx_buffer, epOut>>
    /\ UNCHANGED <<held, tag, back, epoch>>

\* usb_cb_completion: OUT first; an IN transfer started there stays under way
\* when the pending completion of the one before is taken.
UsbCompletion ==
    /\ epOut.state = "done" \/ epIn.state = "done"
    /\ \/ epOut.state = "done" /\ epOut.data /\ Echo
       \/ /\ epOut.state = "done" => ~epOut.data
          /\ epIn' = IF epIn.state = "done" THEN Ep("idle", 0) ELSE epIn
          /\ IF epOut.state = "done" THEN Rearm ELSE UNCHANGED <<current_rx_buffer, epOut>>
          /\ UNCHANGED active
    /\ UNCHANGED <<held, tag, back, epoch>>

\* usb_cb_set_configuration -> usbserial_init.  Both endpoints are enabled afresh;
\* the setter finds IN ready and runs the callback, usbserial_init runs it again.
SetConfiguration ==
    /\ epIn' = Ep("idle", 0)
    /\ current_rx_buffer' = Reused(Reused(current_rx_buffer))
    /\ epOut' = Start(Ep("idle", 0), current_rx_buffer')
    /\ epoch' = 1 - epoch
    /\ UNCHANGED <<held, active, tag, back>>

\* A bus reset, a disconnect or usbserial_disable.
EndpointsOff ==
    /\ epIn.state # "off"
    /\ epIn' = Ep("off", 0) /\ epOut' = Ep("off", 0)
    /\ epoch' = 1 - epoch
    /\ UNCHANGED <<held, active, current_rx_buffer, tag, back>>

-----------------------------------------------------------------------------
(* The host.                                                                *)

HostOut ==
    /\ epOut.state = "busy"
    /\ epOut' = [epOut EXCEPT !.state = "done", !.data = TRUE]
    /\ held' = [held EXCEPT ![epOut.buf] = tag]
    /\ tag' = (tag + 1) % Tags
    /\ UNCHANGED <<active, current_rx_buffer, epIn, back, epoch>>

HostOutEmpty ==
    /\ epOut.state = "busy"
    /\ epOut' = [epOut EXCEPT !.state = "done"]
    /\ UNCHANGED <<held, active, current_rx_buffer, epIn, tag, back, epoch>>

HostIn ==
    /\ epIn.state = "busy"
    /\ epIn' = [epIn EXCEPT !.state = "done"]
    /\ back' = << held[epIn.buf] >>
    /\ UNCHANGED <<held, active, current_rx_buffer, epOut, tag, epoch>>

Next == UsbCompletion \/ SetConfiguration \/ EndpointsOff \/ HostOut \/ HostOutEmpty \/ HostIn

Spec == Init /\ [][Next]_vars

\* A pending interrupt is taken; the host polls an armed IN endpoint.
FairSpec == Spec /\ WF_vars(UsbCompletion) /\ WF_vars(HostIn)

-----------------------------------------------------------------------------
(* Properties.                                                              *)

\* usbserial_active_tx_buf counts modulo 4, and usbserial_current_rx_buffer and the
\* endpoints keep to usbserial_buf and, from the constructor, the storage of rx_buffer.
TypeOK ==
    /\ held \in [Storage -> Packet] /\ active \in Buffer
    /\ current_rx_buffer \in Storage \cup {NULL}
    /\ epIn \in Endpoint /\ epOut \in Endpoint
    /\ tag \in Packet /\ back \in {<< >>} \cup {<<p>> : p \in Packet} /\ epoch \in {0, 1}

\* The host never writes into the buffer being sent back to it, although an echo is
\* started whether or not the one before is done; and the interrupt takes a
\* received packet from the buffer the endpoint put it in.
BuffersApart ==
    /\ epOut.state \in {"busy", "done"} /\ epIn.state = "busy" => epIn.buf # epOut.buf
    /\ epOut.state \in {"busy", "done"} => current_rx_buffer = epOut.buf

\* The packets on their way back: in the IN endpoint, then in the OUT endpoint.
Inside ==
    (IF epIn.state = "busy" THEN << held[epIn.buf] >> ELSE << >>) \o
    (IF epOut.state = "done" /\ epOut.data THEN << held[epOut.buf] >> ELSE << >>)

Stream == INSTANCE PacketStream WITH inside <- Inside, Capacity <- 2

\* The echo returns what the host sent, in order and once; a packet that overtakes
\* one still waiting replaces it, and the newest is never lost while the port is up.
EchoStream == Stream!Spec

\* The echo does not stall: while packets are inside the host keeps getting some,
\* however fast it sends, and the OUT endpoint is armed again after each packet,
\* an empty one included.
EchoProgress ==
    /\ []<>(Inside = << >>) \/ []<><<HostIn>>_vars
    /\ []<>(epOut.state \in {"off", "busy"})
=============================================================================
