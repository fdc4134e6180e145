---------------------------- MODULE MCUsbMonitor ----------------------------
(***************************************************************************)
(* Three phones on one bus, with numbers for a second turn of some.        *)
(***************************************************************************)
EXTENDS UsbMonitor

CONSTANTS phoneA, phoneB, phoneC

ThreePhones == {phoneA, phoneB, phoneC}
=============================================================================
