-------------------------- MODULE MCAdminController --------------------------
(***************************************************************************)
(* AdminController for model checking: the roles granted.                  *)
(***************************************************************************)
EXTENDS AdminController

CONSTANTS admin, other

Grants == {<<admin, "ADMIN">>, <<other, "GUARDIAN">>}
=============================================================================
