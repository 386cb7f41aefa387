-------------------------- MODULE BackendClientMC --------------------------
(* One call of any kind for model checking BackendClient.                   *)
EXTENDS BackendClient

CONSTANT c1

OneCall == {c1}
=============================================================================
