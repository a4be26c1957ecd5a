----------------------------- MODULE UsbEchoProofs -----------------------------
(***************************************************************************)
(* Type correctness of the echo build, that its buffers never overlap, and *)
(* that it implements PacketStream.                                        *)
(*                                                                         *)
(* The invariant is that there are two buffers in play at most.  The OUT   *)
(* endpoint has the active one, or until the first echo the storage of     *)
(* rx_buffer; from then on the IN endpoint has another.  The endpoints are *)
(* up and down together, and an armed OUT endpoint has no data yet.        *)
(***************************************************************************)
EXTENDS UsbEcho, TLAPS

EchoInv ==
    /\ TypeOK
    /\ current_rx_buffer \in {NULL, RX_RING, active}
    /\ epOut.state \in {"busy", "done"} => epOut.buf = current_rx_buffer
    /\ epIn.state = "busy" => current_rx_buffer = active /\ epIn.buf # active
    /\ epIn.state = "off" <=> epOut.state = "off"
    /\ epOut.state = "busy" => ~epOut.data

-----------------------------------------------------------------------------
(* The endpoints.                                                           *)

\* An endpoint enabled, armed or completed on a buffer is an endpoint.
LEMMA EpType ==
    ASSUME NEW ep \in Endpoint, NEW buf \in Storage, NEW state \in {"off", "idle", "busy", "done"}
    PROVE  /\ Ep(state, buf) \in Endpoint
           /\ Start(ep, buf) \in Endpoint
           /\ Start(ep, buf).state = "busy" => Start(ep, buf).buf = buf
           /\ Start(ep, buf).state = IF ep.state = "off" THEN "off" ELSE "busy"
  BY DEF Ep, Start, Endpoint

\* The active buffer moves on to another one.
LEMMA NextBufferMoves ==
    ASSUME active \in Buffer
    PROVE  NextBuffer \in Buffer /\ NextBuffer # active
  BY DEF Buffer, Buffers, NextBuffer

\* The constants are told apart; a buffer is a place for a packet.
LEMMA Places ==
    /\ 0 \in Buffer /\ 0 \in Storage /\ Buffer \subseteq Storage
    /\ RX_RING \in Storage /\ RX_RING \notin Buffer
    /\ NULL \notin Storage /\ NULL \notin Buffer /\ NULL # RX_RING
  BY DEF Storage, Buffer, Buffers, NULL, RX_RING

-----------------------------------------------------------------------------
LEMMA EchoInit == ASSUME Init PROVE EchoInv
  <1>1. Ep("off", 0) \in Endpoint /\ Ep("off", 0).state = "off"
    BY Places DEF Ep, Endpoint
  <1>2. 0 \in Packet
    BY TagsAssumption DEF Packet
  <1> QED
    BY <1>1, <1>2, Places DEF Init, Constructed, EchoInv, TypeOK

\* usbserial_out_completion with data: the IN endpoint gets the buffer that was
\* active, the OUT endpoint the next.
LEMMA EchoKeepsInv ==
    ASSUME EchoInv, Echo, epOut.state = "done", UNCHANGED <<held, tag, back, epoch>>
    PROVE  EchoInv'
  <1>1. /\ active \in Buffer /\ epIn \in Endpoint /\ epOut \in Endpoint
        /\ epIn.state # "off"
    BY DEF EchoInv, TypeOK
  <1>2. current_rx_buffer \in {RX_RING, active} /\ current_rx_buffer \in Storage
    BY <1>1, Places DEF EchoInv, Endpoint
  <1>3. /\ active' \in Buffer /\ active' # current_rx_buffer
        /\ current_rx_buffer' = active'
    BY <1>1, <1>2, NextBufferMoves, Places DEF Echo
  <1>4. /\ epIn' \in Endpoint
        /\ epIn'.state = "busy" /\ epIn'.buf = current_rx_buffer
    BY <1>1, <1>2, EpType DEF Echo, SendBack
  <1>5. Ep("idle", 0) \in Endpoint /\ Ep("idle", 0).state = "idle"
    BY Places DEF Ep, Endpoint
  <1>6. /\ epOut' \in Endpoint
        /\ epOut'.state = "busy" /\ epOut'.buf = active'
    BY <1>3, <1>5, EpType, Places DEF Echo
  <1>7. ~epOut'.data
    BY DEF Echo, Start, Ep
  <1> QED
    BY <1>3, <1>4, <1>6, <1>7, Places DEF EchoInv, TypeOK

\* Arming the OUT endpoint without data received, the IN endpoint completed, left
\* alone or enabled afresh.
LEMMA RearmKeepsInv ==
    ASSUME EchoInv, UNCHANGED <<held, active, tag, back>>, epoch' \in {0, 1},
           epIn' = epIn \/ epIn' = Ep("idle", 0), epIn'.state # "off",
           current_rx_buffer' = Reused(current_rx_buffer),
           epOut' = Start(Ep("idle", 0), current_rx_buffer')
    PROVE  EchoInv'
  <1>1. active \in Buffer /\ epIn \in Endpoint /\ epOut \in Endpoint
    BY DEF EchoInv, TypeOK
  <1>2. /\ current_rx_buffer' \in {RX_RING, active} /\ current_rx_buffer' \in Storage
        /\ current_rx_buffer = active => current_rx_buffer' = active
    BY <1>1, Places DEF EchoInv, Reused
  <1>3. Ep("idle", 0) \in Endpoint /\ Ep("idle", 0).state = "idle"
    BY Places DEF Ep, Endpoint
  <1>4. /\ epOut' \in Endpoint
        /\ epOut'.state = "busy" /\ epOut'.buf = current_rx_buffer'
    <2> DEFINE ep == Ep("idle", 0)
    <2>1. epOut' = Start(ep, current_rx_buffer') /\ ep \in Endpoint /\ ep.state = "idle"
      BY <1>2, <1>3
    <2> HIDE DEF ep
    <2> QED
      BY <1>2, <2>1 DEF Start, Ep, Endpoint
  <1>5. /\ epIn' \in Endpoint
        /\ epIn'.state = "busy" => current_rx_buffer = active /\ epIn'.buf # active
    BY <1>1, <1>3 DEF EchoInv
  <1>6. ~epOut'.data
    BY DEF Start, Ep
  <1> QED
    BY <1>2, <1>4, <1>5, <1>6 DEF EchoInv, TypeOK

LEMMA EchoNext == ASSUME EchoInv, [Next]_vars PROVE EchoInv'
  <1>1. /\ active \in Buffer /\ epIn \in Endpoint /\ epOut \in Endpoint
        /\ current_rx_buffer \in Storage \cup {NULL}
    BY DEF EchoInv, TypeOK
  <1>2. /\ Ep("idle", 0) \in Endpoint /\ Ep("idle", 0).state = "idle"
        /\ Ep("off", 0) \in Endpoint /\ Ep("off", 0).state = "off"
    BY Places DEF Ep, Endpoint
  <1>3. CASE UsbCompletion
    <2>1. CASE epOut.state = "done" /\ epOut.data /\ Echo
      BY <1>3, <2>1, EchoKeepsInv DEF UsbCompletion
    <2>2. CASE epOut.state = "done" /\ Rearm
                 /\ epIn' = (IF epIn.state = "done" THEN Ep("idle", 0) ELSE epIn)
                 /\ UNCHANGED active
      <3>1. (epIn' = epIn \/ epIn' = Ep("idle", 0)) /\ epIn'.state # "off"
        BY <1>2, <2>2 DEF EchoInv
      <3>2. epoch' \in {0, 1}
        BY <1>3 DEF UsbCompletion, EchoInv, TypeOK
      <3> QED
        BY <1>3, <2>2, <3>1, <3>2, RearmKeepsInv DEF UsbCompletion, Rearm
    <2>3. CASE /\ epIn' = (IF epIn.state = "done" THEN Ep("idle", 0) ELSE epIn)
               /\ UNCHANGED <<active, current_rx_buffer, epOut>>
      <3>1. /\ epIn' \in Endpoint
            /\ epIn'.state = "busy" => current_rx_buffer = active /\ epIn'.buf # active
            /\ epIn'.state = "off" <=> epIn.state = "off"
        BY <1>1, <1>2, <2>3 DEF EchoInv
      <3> QED
        BY <1>3, <2>3, <3>1 DEF UsbCompletion, EchoInv, TypeOK
    <2> QED
      BY <1>3, <2>1, <2>2, <2>3 DEF UsbCompletion
  <1>4. CASE SetConfiguration
    <2>1. Reused(Reused(current_rx_buffer)) = Reused(current_rx_buffer)
      BY <1>1, Places DEF Reused
    <2>2. epoch' \in {0, 1}
      BY <1>4 DEF SetConfiguration, EchoInv, TypeOK
    <2> QED
      BY <1>2, <1>4, <2>1, <2>2, RearmKeepsInv DEF SetConfiguration
  <1>5. CASE EndpointsOff
    <2>1. epoch' \in {0, 1}
      BY <1>5 DEF EndpointsOff, EchoInv, TypeOK
    <2> QED
      BY <1>2, <1>5, <2>1 DEF EndpointsOff, EchoInv, TypeOK
  <1>6. CASE HostOut
    <2>1. /\ epOut' \in Endpoint /\ epOut'.buf = epOut.buf
      BY <1>1, <1>6 DEF HostOut, Endpoint
    <2>2. tag' \in Packet /\ tag \in Packet
      BY <1>6, TagsAssumption DEF HostOut, EchoInv, TypeOK, Packet
    <2>3. held' \in [Storage -> Packet]
      BY <1>6, <2>2 DEF HostOut, EchoInv, TypeOK
    <2> QED
      BY <1>6, <2>1, <2>2, <2>3 DEF HostOut, EchoInv, TypeOK
  <1>7. CASE HostOutEmpty
    <2>1. epOut' \in Endpoint /\ epOut'.buf = epOut.buf
      BY <1>1, <1>7 DEF HostOutEmpty, Endpoint
    <2> QED
      BY <1>7, <2>1 DEF HostOutEmpty, EchoInv, TypeOK
  <1>8. CASE HostIn
    <2>1. epIn' \in Endpoint /\ epIn'.state = "done"
      BY <1>1, <1>8 DEF HostIn, Endpoint
    <2>2. epIn.buf \in Storage
      BY <1>1 DEF Endpoint
    <2>3. back' \in {<<p>> : p \in Packet}
      BY <1>8, <2>2 DEF HostIn, EchoInv, TypeOK
    <2> QED
      BY <1>8, <2>1, <2>3 DEF HostIn, EchoInv, TypeOK
  <1>9. CASE UNCHANGED vars
    BY <1>9 DEF vars, EchoInv, TypeOK
  <1> QED
    BY <1>3, <1>4, <1>5, <1>6, <1>7, <1>8, <1>9 DEF Next

-----------------------------------------------------------------------------
\* The inductive invariant of the echo: OUT has the active buffer or, before the
\* first echo, the storage of rx_buffer that the constructor of the port may leave,
\* and IN another one, through completions, resets and reconfigurations in any order.
THEOREM EchoInvHolds == Spec => []EchoInv
  BY EchoInit, EchoNext, PTL DEF Spec

\* usbserial_active_tx_buf stays inside usbserial_buf, and every endpoint works there
\* or on the storage of rx_buffer, whatever the constructor of the port has left.
THEOREM TypeCorrect == Spec => []TypeOK
  <1>1. EchoInv => TypeOK
    BY DEF EchoInv
  <1> QED
    BY <1>1, EchoInvHolds, PTL

\* The host never writes into the buffer that is being sent back to it, and the
\* interrupt takes a packet from where the endpoint put it.
THEOREM BuffersStayApart == Spec => []BuffersApart
  <1>1. EchoInv => BuffersApart
    BY DEF EchoInv, BuffersApart
  <1> QED
    BY <1>1, EchoInvHolds, PTL

-----------------------------------------------------------------------------
(* The echo implements PacketStream: each step is one of its actions, or   *)
(* leaves the packets inside as they are.                                  *)

\* The packet in the IN endpoint and the packet in the OUT endpoint.
InPart == IF epIn.state = "busy" THEN << held[epIn.buf] >> ELSE << >>
OutPart == IF epOut.state = "done" /\ epOut.data THEN << held[epOut.buf] >> ELSE << >>

\* A sequence of two is known by its elements, likewise of one.
LEMMA Two == ASSUME NEW S, NEW s \in Seq(S), Len(s) = 2 PROVE s = <<s[1], s[2]>>
  OBVIOUS

LEMMA One == ASSUME NEW S, NEW s \in Seq(S), Len(s) = 1 PROVE s = <<s[1]>>
  OBVIOUS

\* How sequences of one packet each are put together ...
LEMMA Joined ==
    ASSUME NEW S, NEW p \in S, NEW q \in S
    PROVE  /\ << >> \o << >> = << >> /\ <<p>> \o << >> = <<p>> /\ << >> \o <<p>> = <<p>>
           /\ <<p>> \o <<q>> = <<p, q>>
  <1>1. << >> \o << >> = << >> /\ <<p>> \o << >> = <<p>> /\ << >> \o <<p>> = <<p>>
    OBVIOUS
  <1> DEFINE s == <<p>> \o <<q>>
  <1>2. s \in Seq(S) /\ Len(s) = 2 /\ s[1] = p /\ s[2] = q
    OBVIOUS
  <1> HIDE DEF s
  <1>3. s = <<p, q>>
    BY <1>2, Two
  <1> QED
    BY <1>1, <1>3 DEF s

\* ... and taken apart.
LEMMA Parted ==
    ASSUME NEW S, NEW p \in S, NEW q \in S
    PROVE  /\ Len(<<p>>) = 1 /\ Len(<<p, q>>) = 2
           /\ SubSeq(<<p, q>>, 1, 1) = <<p>> /\ SubSeq(<<p, q>>, 2, 2) = <<q>>
           /\ SubSeq(<<p>>, 1, 1) = <<p>>
           /\ Head(<<p>>) = p /\ Tail(<<p>>) = << >>
           /\ Head(<<p, q>>) = p /\ Tail(<<p, q>>) = <<q>>
  <1> DEFINE first == SubSeq(<<p, q>>, 1, 1)
             second == SubSeq(<<p, q>>, 2, 2)
             whole == SubSeq(<<p>>, 1, 1)
             tail == Tail(<<p, q>>)
  <1>1. /\ first \in Seq(S) /\ Len(first) = 1 /\ first[1] = p
        /\ second \in Seq(S) /\ Len(second) = 1 /\ second[1] = q
        /\ whole \in Seq(S) /\ Len(whole) = 1 /\ whole[1] = p
        /\ tail \in Seq(S) /\ Len(tail) = 1 /\ tail[1] = q
    OBVIOUS
  <1>2. /\ Len(<<p>>) = 1 /\ Len(<<p, q>>) = 2
        /\ Head(<<p>>) = p /\ Tail(<<p>>) = << >> /\ Head(<<p, q>>) = p
    OBVIOUS
  <1> HIDE DEF first, second, whole, tail
  <1>3. first = <<p>> /\ second = <<q>> /\ whole = <<p>> /\ tail = <<q>>
    BY <1>1, One
  <1> QED
    BY <1>2, <1>3 DEF first, second, whole, tail

\* The packets inside, part by part.
LEMMA Parts ==
    ASSUME EchoInv
    PROVE  /\ Inside = InPart \o OutPart
           /\ InPart = << >> \/ \E p \in Packet : InPart = <<p>>
           /\ OutPart = << >> \/ \E p \in Packet : OutPart = <<p>>
  <1>1. \A b \in Storage : held[b] \in Packet
    BY DEF EchoInv, TypeOK
  <1>2. epIn.buf \in Storage /\ epOut.buf \in Storage
    BY DEF EchoInv, TypeOK, Endpoint
  <1> QED
    BY <1>1, <1>2 DEF Inside, InPart, OutPart

LEMMA StreamInit == ASSUME Init PROVE Stream!Init
  <1>1. epIn.state = "off" /\ epOut.state = "off"
    BY DEF Init, Ep
  <1> QED
    BY <1>1 DEF Init, Stream!Init, Inside

\* HostOut appends a packet behind the one in the IN endpoint, which it cannot
\* have overwritten.
LEMMA HostOutSends == ASSUME EchoInv, EchoInv', HostOut PROVE Stream!Send
  <1>1. tag \in Packet /\ epOut.buf \in Storage /\ epIn.buf \in Storage
    BY DEF EchoInv, TypeOK, Endpoint
  <1>2. /\ epOut'.state = "done" /\ epOut'.data /\ epOut'.buf = epOut.buf
        /\ held'[epOut.buf] = tag
    BY <1>1 DEF HostOut, EchoInv, TypeOK, Endpoint
  <1>3. OutPart = << >> /\ OutPart' = <<tag>>
    BY <1>2 DEF HostOut, OutPart
  <1>4. InPart' = InPart
    BY <1>1 DEF HostOut, InPart, EchoInv, TypeOK
  <1>5. CASE InPart = << >>
    <2>1. Inside = << >> /\ Inside' = <<tag>>
      BY <1>1, <1>3, <1>4, <1>5, Parts, Joined DEF Inside, InPart, OutPart
    <2> QED
      BY <1>1, <2>1, Parted DEF HostOut, Stream!Send
  <1>6. ASSUME NEW p \in Packet, InPart = <<p>> PROVE Stream!Send
    <2>1. Inside = <<p>> /\ Inside' = <<p, tag>>
      BY <1>1, <1>3, <1>4, <1>6, Parts, Joined DEF Inside, InPart, OutPart
    <2>2. Len(Inside) = 1 /\ Len(Inside') = 2 /\ SubSeq(Inside', 1, Len(Inside)) = Inside
      BY <1>1, <2>1, Parted
    <2> QED
      BY <2>2 DEF HostOut, Stream!Send
  <1> QED
    BY <1>5, <1>6, Parts

\* HostIn takes the oldest packet.
LEMMA HostInReturns == ASSUME EchoInv, HostIn PROVE Stream!Return
  <1> DEFINE p == held[epIn.buf]
  <1>1. p \in Packet
    BY DEF EchoInv, TypeOK, Endpoint
  <1>2. /\ InPart = <<p>> /\ InPart' = << >> /\ OutPart' = OutPart
        /\ back' = <<p>> /\ UNCHANGED epoch
    BY DEF HostIn, InPart, OutPart, EchoInv, TypeOK, Endpoint
  <1> HIDE DEF p
  <1>3. CASE OutPart = << >>
    <2>1. Inside = <<p>> /\ Inside' = << >>
      BY <1>1, <1>2, <1>3, Joined DEF Inside, InPart, OutPart
    <2> QED
      BY <1>1, <1>2, <2>1, Parted DEF Stream!Return
  <1>4. ASSUME NEW q \in Packet, OutPart = <<q>> PROVE Stream!Return
    <2>1. Inside = <<p, q>> /\ Inside' = <<q>>
      BY <1>1, <1>2, <1>4, Joined DEF Inside, InPart, OutPart
    <2> QED
      BY <1>1, <1>2, <2>1, Parted DEF Stream!Return
  <1> QED
    BY <1>3, <1>4, Parts

\* An echo hands the newer packet to the IN endpoint; one still there is lost.
LEMMA EchoLoses ==
    ASSUME EchoInv, Echo, epOut.state = "done", epOut.data, UNCHANGED <<held, back, epoch>>
    PROVE  Stream!Lose
  <1> DEFINE q == held[epOut.buf]
  <1>1. /\ q \in Packet /\ current_rx_buffer = epOut.buf
        /\ epIn \in Endpoint /\ epIn.state # "off" /\ epOut.buf \in Storage
    BY DEF EchoInv, TypeOK, Endpoint
  <1>2. epIn'.state = "busy" /\ epIn'.buf = epOut.buf
    BY <1>1, EpType DEF Echo, SendBack
  <1>3. epOut'.state = "busy"
    BY DEF Echo, Start, Ep
  <1>4. OutPart = <<q>> /\ InPart' = <<q>> /\ OutPart' = << >>
    BY <1>2, <1>3 DEF InPart, OutPart
  <1> HIDE DEF q
  <1>5. Inside' = <<q>>
    BY <1>1, <1>4, Joined DEF Inside, InPart, OutPart
  <1>6. CASE InPart = << >>
    <2>1. Inside = <<q>>
      BY <1>1, <1>4, <1>6, Parts, Joined
    <2>2. 1 \in 1 .. Len(Inside) /\ Inside' = SubSeq(Inside, 1, Len(Inside))
      BY <1>1, <1>5, <2>1, Parted
    <2> QED
      BY <2>2 DEF Stream!Lose
  <1>7. ASSUME NEW p \in Packet, InPart = <<p>> PROVE Stream!Lose
    <2>1. Inside = <<p, q>>
      BY <1>1, <1>4, <1>7, Parts, Joined
    <2>2. 2 \in 1 .. Len(Inside) /\ Inside' = SubSeq(Inside, 2, Len(Inside))
      BY <1>1, <1>5, <2>1, Parted
    <2> QED
      BY <2>2 DEF Stream!Lose
  <1> QED
    BY <1>6, <1>7, Parts

\* The interrupt without data received moves no packet.
LEMMA CompletionStutters ==
    ASSUME EchoInv, epOut.state = "done" => ~epOut.data,
           epIn' = (IF epIn.state = "done" THEN Ep("idle", 0) ELSE epIn),
           (epOut.state = "done" /\ Rearm) \/ UNCHANGED epOut,
           UNCHANGED held
    PROVE  UNCHANGED Inside
  <1>1. InPart' = InPart
    BY DEF InPart, Ep
  <1>2. OutPart = << >> /\ OutPart' = << >>
    BY DEF OutPart, Rearm, Start, Ep
  <1> QED
    BY <1>1, <1>2 DEF Inside, InPart, OutPart

LEMMA StreamNext ==
    ASSUME EchoInv, EchoInv', [Next]_vars
    PROVE  [Stream!Next]_<<Inside, back, epoch>>
  <1>1. CASE UsbCompletion
    <2>1. CASE epOut.state = "done" /\ epOut.data /\ Echo
      BY <1>1, <2>1, EchoLoses DEF UsbCompletion, Stream!Next
    <2>2. CASE /\ epOut.state = "done" => ~epOut.data
               /\ epIn' = (IF epIn.state = "done" THEN Ep("idle", 0) ELSE epIn)
               /\ (epOut.state = "done" /\ Rearm) \/ UNCHANGED epOut
      BY <1>1, <2>2, CompletionStutters DEF UsbCompletion
    <2> QED
      BY <1>1, <2>1, <2>2 DEF UsbCompletion
  <1>2. CASE SetConfiguration
    <2>1. InPart' = << >> /\ OutPart' = << >>
      BY <1>2 DEF SetConfiguration, InPart, OutPart, Start, Ep
    <2>2. Inside' = << >>
      BY <2>1, Joined DEF Inside, InPart, OutPart
    <2> QED
      BY <1>2, <2>2 DEF SetConfiguration, Stream!Next, Stream!Relink
  <1>3. CASE EndpointsOff
    <2>1. InPart' = << >> /\ OutPart' = << >>
      BY <1>3 DEF EndpointsOff, InPart, OutPart, Ep
    <2>2. Inside' = << >>
      BY <2>1, Joined DEF Inside, InPart, OutPart
    <2> QED
      BY <1>3, <2>2 DEF EndpointsOff, Stream!Next, Stream!Relink
  <1>4. CASE HostOut
    BY <1>4, HostOutSends DEF Stream!Next
  <1>5. CASE HostOutEmpty
    <2>1. epOut'.data = epOut.data /\ epOut'.buf = epOut.buf
      BY <1>5 DEF HostOutEmpty, EchoInv, TypeOK, Endpoint
    <2>2. OutPart = << >> /\ OutPart' = << >> /\ InPart' = InPart
      BY <1>5, <2>1 DEF HostOutEmpty, InPart, OutPart, EchoInv
    <2> QED
      BY <1>5, <2>2 DEF HostOutEmpty, Inside, InPart, OutPart
  <1>6. CASE HostIn
    BY <1>6, HostInReturns DEF Stream!Next
  <1>7. CASE UNCHANGED vars
    BY <1>7 DEF vars, Inside
  <1> QED
    BY <1>1, <1>2, <1>3, <1>4, <1>5, <1>6, <1>7 DEF Next

\* The echo returns what the host sent, in order and once, and never loses the
\* newest packet while the port is up.
THEOREM EchoIsStream == Spec => EchoStream
  <1>1. EchoInv /\ EchoInv' /\ [Next]_vars => [Stream!Next]_<<Inside, back, epoch>>
    BY StreamNext
  <1> QED
    BY StreamInit, EchoInvHolds, <1>1, PTL DEF Spec, EchoStream, Stream!Spec
=============================================================================
