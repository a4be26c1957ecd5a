------------------------------- MODULE Enumeration -------------------------------
(***************************************************************************)
(* The board of Startup on a USB host: the descriptors of core/USB-CDC.c,  *)
(* the callbacks that answer GET_DESCRIPTOR and SET_CONFIGURATION, and a   *)
(* host that reads the descriptors, opens the pipes they promise and       *)
(* configures the device.  The bus or the board may be reset at any time.  *)
(*                                                                         *)
(* Texts, class codes and lengths are left out; what a host navigates by   *)
(* is kept: indices, counts, interface numbers and endpoints.              *)
(*                                                                         *)
(* A definition Mut_... is a faulty version of the one after it.           *)
(***************************************************************************)
EXTENDS Startup, FiniteSetsExt

VARIABLES
    endpoints,      \* endpoints the device has enabled, besides endpoint 0
    faulted,        \* the processor is in Dummy_Handler
    phase,          \* what the host does next
    ask,            \* indices of strings it still wants
    pipes,          \* endpoints it has been promised
    strayed         \* history: it asked for a string no descriptor names

hostVars == <<phase, ask, pipes, strayed>>
vars == <<bootVars, endpoints, faulted, hostVars>>

-----------------------------------------------------------------------------
(* The descriptors.                                                         *)

Mut_DeviceDescriptor == [iManufacturer |-> 1, iProduct |-> 2, iSerialNumber |-> 4]
DeviceDescriptor == [iManufacturer |-> 1, iProduct |-> 2, iSerialNumber |-> 3]

ControlInterface == 0       \* INTERFACE_CDC_CONTROL
DataInterface    == 1       \* INTERFACE_CDC_DATA
EpNotification   == 129     \* USB_EP_CDC_NOTIFICATION; bit 7 is the direction
EpIn             == 130     \* USB_EP_CDC_IN
EpOut            == 2       \* USB_EP_CDC_OUT

EndpointDesc(address, type, size) ==
    [kind |-> "endpoint", address |-> address, type |-> type, size |-> size]

ConfigurationDescriptor == <<
    [kind |-> "configuration", bNumInterfaces |-> 2, bConfigurationValue |-> 1],
    [kind |-> "interface", bInterfaceNumber |-> ControlInterface, bNumEndpoints |-> 1],
    [kind |-> "header"],
    [kind |-> "ACM"],
    [kind |-> "union", bMasterInterface |-> ControlInterface,
                       bSlaveInterface |-> DataInterface],
    EndpointDesc(EpNotification, "interrupt", 8),
    [kind |-> "interface", bInterfaceNumber |-> DataInterface, bNumEndpoints |-> 2],
    EndpointDesc(EpOut, "bulk", 64),
    EndpointDesc(EpIn, "bulk", 64) >>

\* usb_cb_get_descriptor for a string; the serial number is missing from Mut_.
Mut_KnownString(index) == index \in 0 .. 2
KnownString(index) == index \in 0 .. 3

\* usbserial_init; the notification endpoint is forgotten in Mut_.
Mut_EnabledEndpoints == { <<EpOut, "bulk", 64>>, <<EpIn, "bulk", 64>> }
EnabledEndpoints ==
    { <<EpNotification, "interrupt", 8>>, <<EpOut, "bulk", 64>>, <<EpIn, "bulk", 64>> }

\* usb_cb_set_configuration accepts 0 as well as 1.
Accepts(config) == config <= 1

-----------------------------------------------------------------------------
(* How a host reads a configuration.                                        *)

Positions(c, kind) == {k \in 1 .. Len(c) : c[k].kind = kind}
Owner(c, k) == Max({i \in Positions(c, "interface") : i < k})

PipesOf(c) == {<<c[k].address, c[k].type, c[k].size>> : k \in Positions(c, "endpoint")}

\* The counts are right, and the union joins interfaces that exist.
Consistent(c) ==
    LET interfaces == Positions(c, "interface")
        numbers    == {c[i].bInterfaceNumber : i \in interfaces}
    IN  /\ Cardinality(numbers) = c[1].bNumInterfaces
        /\ \A i \in interfaces :
             c[i].bNumEndpoints = Cardinality({k \in Positions(c, "endpoint") : Owner(c, k) = i})
        /\ \A u \in Positions(c, "union") :
             {c[u].bMasterInterface, c[u].bSlaveInterface} \subseteq numbers

-----------------------------------------------------------------------------
(* Requests.  The USB interrupt answers while the board is attached.        *)

Unnamed == 238              \* an index some hosts try, 0xEE

Answers == usb = "attached" /\ ~faulted /\ UNCHANGED bootVars

GetDeviceDescriptor ==
    /\ Answers /\ phase = "device"
    /\ ask' = {0} \cup {DeviceDescriptor[field] : field \in DOMAIN DeviceDescriptor}
    /\ phase' = "strings"
    /\ UNCHANGED <<endpoints, faulted, pipes, strayed>>

GetString(index) ==
    /\ Answers /\ phase = "strings" /\ KnownString(index)
    /\ ask' = ask \ {index}
    /\ UNCHANGED <<endpoints, faulted, phase, pipes, strayed>>

\* Another index leaves address NULL and bLength is read through it: the byte at
\* address 0 is 0 and the request is stalled, or the compiler has put a trap there.
GetNoString(index) ==
    /\ Answers /\ phase = "strings" /\ ~KnownString(index)
    /\ strayed' = (strayed \/ index = Unnamed)
    /\ faulted' \in BOOLEAN
    /\ ask' = ask \ {index}
    /\ UNCHANGED <<endpoints, phase, pipes>>

GetConfigurationDescriptor ==
    /\ Answers /\ phase = "strings" /\ ask = {}
    /\ Consistent(ConfigurationDescriptor)
    /\ pipes' = PipesOf(ConfigurationDescriptor)
    /\ phase' = "choose"
    /\ UNCHANGED <<endpoints, faulted, ask, strayed>>

\* The value the descriptor names, or 0 to give the device back.
SetConfiguration(config) ==
    /\ Answers /\ phase \in {"choose", "configured"}
    /\ Accepts(config)
    /\ endpoints' = EnabledEndpoints
    /\ phase' = IF config = 0 THEN "choose" ELSE "configured"
    /\ UNCHANGED <<faulted, ask, pipes, strayed>>

\* The host sees the device attached, or resets the bus; usb_cb_reset does nothing.
BusReset ==
    /\ Answers
    /\ phase' = "device" /\ ask' = {} /\ pipes' = {} /\ endpoints' = {}
    /\ UNCHANGED <<faulted, strayed>>

Enumerate ==
    \/ phase = "away" /\ BusReset
    \/ GetDeviceDescriptor
    \/ \E index \in ask : GetString(index)
    \/ GetConfigurationDescriptor
    \/ phase = "choose" /\ SetConfiguration(ConfigurationDescriptor[1].bConfigurationValue)

BoardReset ==
    /\ Reset
    /\ endpoints' = {} /\ faulted' = FALSE
    /\ phase' = "away" /\ ask' = {} /\ pipes' = {} /\ UNCHANGED strayed

Init ==
    /\ BootInit
    /\ endpoints = {} /\ faulted = FALSE
    /\ phase = "away" /\ ask = {} /\ pipes = {} /\ strayed = FALSE

Next ==
    \/ Step /\ UNCHANGED <<endpoints, faulted, hostVars>>
    \/ HardwareStep /\ UNCHANGED <<endpoints, faulted, hostVars>>
    \/ Enumerate
    \/ \E index \in {Unnamed} \cup ask : GetNoString(index)
    \/ SetConfiguration(0)
    \/ phase # "away" /\ BusReset
    \/ BoardReset

\* The processor runs, the hardware becomes ready, the host goes on enumerating.
Spec == Init /\ [][Next]_vars
FairSpec == Spec /\ BootFairness /\ WF_vars(Enumerate)

-----------------------------------------------------------------------------
(* Properties.                                                              *)

\* Phases and flags have their types, the device enables no endpoint the code does
\* not name, and its descriptors name no string usb_cb_get_descriptor has not.
TypeOK ==
    /\ BootTypeOK
    /\ endpoints \in SUBSET EnabledEndpoints /\ faulted \in BOOLEAN
    /\ phase \in {"away", "device", "strings", "choose", "configured"}
    /\ ask \subseteq 0 .. 3 /\ strayed \in BOOLEAN

\* Once configured, the pipes the host reads out of configuration_descriptor are
\* the endpoints usbserial_init has enabled, with type and packet size, whatever
\* resets and reconfigurations went before.
HostPipesMatch == phase = "configured" => pipes = endpoints

\* The board gets configured: unless it or the bus is reset for ever, or it has no
\* working crystal, or the host strays, the host finds consistent descriptors and
\* its SET_CONFIGURATION is accepted.  In particular usb_cb_get_descriptor does not
\* fault on a string the descriptors name.
GetsConfigured ==
    \/ []<><<Reset \/ BusReset>>_vars
    \/ build = "crystal" /\ ~fitted
    \/ <>strayed
    \/ <>(phase = "configured")
=============================================================================
