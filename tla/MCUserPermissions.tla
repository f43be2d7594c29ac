------------------------- MODULE MCUserPermissions -------------------------
(***************************************************************************)
(* Instances of UserPermissions for TLC.                                   *)
(***************************************************************************)
EXTENDS UserPermissions, MCPermissionObjects

MCInitialWorlds == MCWorlds(Absent)
=============================================================================
