----------------------------- MODULE MCRoleChange ------------------------------
(* Small instances of RoleChange for TLC.                                  *)
EXTENDS RoleChange

===============================================================================
