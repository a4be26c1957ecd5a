------------------------------ MODULE MCSerialCalls ------------------------------
(* Small instances of SerialCalls. *)
EXTENDS SerialCalls

\* One byte value: the streams are checked with numbered bytes in MCUSBserial.
MCByte == 0 .. Tags - 1
=============================================================================
