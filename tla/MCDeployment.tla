------------------------------ MODULE MCDeployment ------------------------------
(***************************************************************************)
(* Deployment with one account, the administrator's address: the webhook   *)
(* and the script compete for it.                                          *)
(***************************************************************************)
EXTENDS Deployment

CONSTANT admin_address

MCAccount == {admin_address}
AllStamps == Stamp
AllEnvironments == EnvironmentOption
AllEngines == DBOption
=============================================================================
