---------------------------- MODULE MCRoleSwitch ----------------------------
(* Instances of RoleSwitch for TLC.                                         *)
EXTENDS RoleSwitch
=============================================================================
