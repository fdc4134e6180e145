---------------------------- MODULE MCAppSessions ----------------------------
(***************************************************************************)
(* Two sessions, of one phone that changes its transport or of two phones. *)
(***************************************************************************)
EXTENDS AppSessions

CONSTANTS phoneA, phoneB

TwoPhones == {phoneA, phoneB}
Symmetry == Permutations(TwoPhones)

NativeOnly == {FALSE}
AnyFocus == BOOLEAN
=============================================================================
