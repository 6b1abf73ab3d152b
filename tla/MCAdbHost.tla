------------------------------ MODULE MCAdbHost ------------------------------
(***************************************************************************)
(* AdbHost for TLC.                                                         *)
(***************************************************************************)
EXTENDS AdbHost
=============================================================================
