------------------------------- MODULE MCOTA --------------------------------
(* Small instances of OTA for TLC. *)
EXTENDS OTA, TLC

CONSTANTS old, v1, v2, bad

MCLength == (old :> 2) @@ (v1 :> 2) @@ (v2 :> 1) @@ (bad :> 3)
MCVersions == {v1, v2, bad}
=============================================================================
