------------------------------ MODULE MCSahara -------------------------------
(***************************************************************************)
(* Sahara for TLC: modems that read a header and two segments, one that    *)
(* asks for the header twice and one that asks for more than the port sends. *)
(***************************************************************************)
EXTENDS Sahara

R(o, l) == [off |-> o, len |-> l]
MCPlans == {<<R(0, 1), R(1, 2), R(0, 1)>>, <<R(0, 1), R(0, 1)>>,
            <<R(0, 1), R(1, 4)>>}

=============================================================================
