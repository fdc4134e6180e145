-------------------------- MODULE MCWirelessManager --------------------------
(***************************************************************************)
(* Two managers, one after the other, and two phones.                      *)
(***************************************************************************)
EXTENDS WirelessManager

CONSTANTS phoneA, phoneB

OnePhone == {phoneA}
TwoPhones == {phoneA, phoneB}
=============================================================================
