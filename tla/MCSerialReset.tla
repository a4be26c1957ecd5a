------------------------------ MODULE MCSerialReset ------------------------------
(* Small instances of SerialReset. *)
EXTENDS SerialReset

\* APP_START under the linker scripts without and with the bootloader.
MCAppStarts == {4, 8192 + 4}
=============================================================================
