----------------------------- MODULE MCDiagFlow ------------------------------
(***************************************************************************)
(* DiagFlow for TLC: a package for modems in normal mode, one for modems in *)
(* emergency mode, one with an empty custom_info.xml and no boot images,    *)
(* and one with nothing for fastboot.                                       *)
(***************************************************************************)
EXTENDS DiagFlow

Package(files, pieces, fastboot) ==
    [files |-> files, pieces |-> pieces, fastboot |-> fastboot]

MCPackages == {
    Package(<<"boot", "xml", "nprg">>, 2, TRUE),
    Package(<<"enprg", "boot", "boot">>, 1, TRUE),
    Package(<<"xml", "enprg", "logo">>, 0, TRUE),
    Package(<<"enprg">>, 1, FALSE)}

=============================================================================
