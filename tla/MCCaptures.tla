----------------------------- MODULE MCCaptures -----------------------------
(* Instances of Captures for TLC. *)
EXTENDS Captures

CONSTANTS usb, stream, file

OfEachKind == {usb, stream, file}
UsbOnly    == {usb}
StreamOnly == {stream}
=============================================================================
