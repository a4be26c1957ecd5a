------------------------------ MODULE MCUSBserial ------------------------------
(* Small instances of USBserial. *)
EXTENDS USBserial

\* The byte values are the numbers the two streams give their bytes.
MCByte == 0 .. Tags - 1
=============================================================================
