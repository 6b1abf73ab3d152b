----------------------------- MODULE MCFastboot ------------------------------
(***************************************************************************)
(* A small package for TLC: three images of which the second is not to be  *)
(* downloaded, one of them longer than a byte so that it can be cut short. *)
(***************************************************************************)
EXTENDS Fastboot

MCNeed == {1, 3}
MCSize == <<2, 1, 1>>
==============================================================================
