-------------------------------- MODULE Database --------------------------------
(***************************************************************************)
(* The database the processes of a deployment share, and the settings      *)
(* (src/app/core/config.py) that say which one it is.  Statements of the   *)
(* application commit one by one; a migration keeps one transaction open,  *)
(* whose changes nobody else sees and whose tables nobody else can use     *)
(* until it ends.                                                          *)
(***************************************************************************)
EXTENDS Schema

VARIABLES settings,  \* the environment and the engine the settings name
          tables,    \* the committed schema
          pending    \* what the open migration has made of the tables it touched

EnvironmentOption == {"LOCAL", "STAGING", "PRODUCTION"}
DBOption == {"POSTGRES", "SQLITE"}

Settings == [ENVIRONMENT : EnvironmentOption, DB_ENGINE : DBOption]

(* A table the open transaction has dropped.                               *)
Gone == [gone |-> "gone"]
NothingPending == [t \in {} |-> Gone]

Locked(t) == t \in DOMAIN pending

(* The schema as the open transaction sees it.                             *)
View ==
  LET dropped == {t \in DOMAIN pending : pending[t] = Gone}
  IN [t \in (DOMAIN tables \cup DOMAIN pending) \ dropped |->
        IF t \in DOMAIN pending THEN pending[t] ELSE tables[t]]

(* pending, once the open transaction has turned what it sees into after.  *)
Pending(after) ==
  LET now == View
      touched == {t \in DOMAIN now \cup DOMAIN after :
                    ~ (Has(now, t) /\ Has(after, t) /\ now[t] = after[t])}
  IN [t \in DOMAIN pending \cup touched |-> IF Has(after, t) THEN after[t] ELSE Gone]
=============================================================================
