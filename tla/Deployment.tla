------------------------------- MODULE Deployment -------------------------------
(***************************************************************************)
(* Workers, administrator script and Alembic commands over one database.   *)
(* It starts as nothing or as a database of an earlier release, with or    *)
(* without the tables and accounts such a release leaves; an SQLite        *)
(* database is always new.                                                 *)
(***************************************************************************)
EXTENDS AppLifespan, Migrations

CONSTANTS Environments, Engines,  \* the settings to consider
          InitialStamps           \* the revisions to start from

ASSUME DeploymentAssumption ==
  /\ Environments \subseteq EnvironmentOption /\ Engines \subseteq DBOption
  /\ InitialStamps \subseteq Stamp

VARIABLE undermined  \* history: workers that had looked for their tables
                     \* when a migration dropped one

vars == <<settings, tables, pending, appVars, migrationVars, undermined>>

OldAccount == [email |-> "old", id |-> "old"]

WithRows(s, rows) == [t \in DOMAIN s |-> IF t = "user" THEN [s[t] EXCEPT !.rows = rows] ELSE s[t]]

(* What the release that knew revision i leaves; nothing if its upgrade    *)
(* does not get through (it does for every revision of the chain).         *)
Left(i) ==
  ({LegacyDatabase[i]}
     \cup {EarlierRelease(LegacyDatabase[i], j) : j \in {i + 1} \ {HeadStamp, HeadStamp + 1}})
  \ {Failed}

Start(i, s) == settings.DB_ENGINE = "SQLITE" => i = 0 /\ s = NoTables

Init ==
  /\ settings \in [ENVIRONMENT : Environments, DB_ENGINE : Engines]
  /\ \E i \in InitialStamps : \E s \in IF i = 0 THEN {NoTables} ELSE Left(i) :
       \E rows \in {{}, {OldAccount}} :
         /\ Start(i, s)
         /\ stamp = i /\ tables = WithRows(s, rows)
  /\ LifespanInit /\ MigrationInit
  /\ undermined = {}

(* Workers that rely on what they found of the tables.                     *)
Relying == {w \in Worker : phase[w] \notin {"down", "tables"}}

ByApp ==
  /\ undermined' = {w \in undermined : phase'[w] # "down"}
  /\ UNCHANGED migrationVars

ByMigration ==
  /\ IF Models \cap DOMAIN tables \subseteq DOMAIN tables'
     THEN UNCHANGED undermined
     ELSE undermined' = undermined \cup Relying
  /\ UNCHANGED appVars

Next == (LifespanNext /\ ByApp) \/ (MigrationNext /\ ByMigration)

Spec == Init /\ [][Next]_vars

(* The event loop goes on with a boot, gunicorn replaces workers and halts *)
(* on one that fails, docker restarts the container; a command ends, with  *)
(* its revisions, by an error, or killed.                                  *)
FairSpec ==
  /\ Spec
  /\ \A w \in Worker : WF_vars(BootStep(w) /\ ByApp)
  /\ WF_vars(Halt /\ ByApp)
  /\ []<>(~ run.running)

-----------------------------------------------------------------------------
(* Properties.                                                             *)

(* Types of every variable of the deployment; tables are maps from names.  *)
TypeOK ==
  /\ LifespanTypeOK /\ MigrationTypeOK
  /\ undermined \subseteq Worker

(* A worker does not serve over tables that are not there, whatever other  *)
(* workers, halts and crashes do while it looks and creates, unless a      *)
(* migration dropped one after it had looked.                              *)
ServesOverTables ==
  \A w \in Worker \ undermined : phase[w] = "serving" => Models \subseteq DOMAIN tables

(* The columns of user at a stamp, as the models of that release knew them.*)
ColumnsAt(i) ==
  LET since(id) == Reached(i, id)
      uuid == IF since("5c0e43231c13") /\ ~ since("8b8e624d3a28") THEN {} ELSE {"uuid"}
      password == IF since("bd840a3fc487") THEN {} ELSE {"hashed_password"}
      tier == IF since("40be74e6375e") THEN {} ELSE {"tier_id"}
      zoned == IF since("bca954b13aff") THEN "timetz" ELSE "time"
      made == IF since("3ecb4e9492d0") THEN Opt("timetz")
              ELSE IF since("a537e639c8a5") /\ ~ since("8b8e624d3a28") THEN Req("timetz")
              ELSE Req("time")
  IN [c \in {"name", "username", "email", "profile_image_url", "is_superuser", "is_deleted",
             "id", "created_at", "updated_at", "deleted_at"} \cup uuid \cup password \cup tier |->
        CASE c \in {"is_superuser", "is_deleted"} -> Req("bool")
          [] c = "id" -> Req(IF since("b7ec49f8797d") THEN "text"
                             ELSE IF since("623ef1e66179") THEN "uuid" ELSE "int")
          [] c = "uuid" -> Req(IF since("075f641caa2e") THEN "text" ELSE "uuid")
          [] c = "created_at" -> made
          [] c \in {"updated_at", "deleted_at"} -> Opt(zoned)
          [] c = "tier_id" -> Opt("int")
          [] OTHER -> Req("text")]

(* The stamp tells the schema: up and down the chain, with commands that   *)
(* fail or are killed half way and workers that create tables in between,  *)
(* the columns of user are those of the stamped revision, and at the head  *)
(* both tables are what the models say.  Only the downgrade of the head    *)
(* and an unstamped database leave user missing.                           *)
StampTellsSchema ==
  /\ stamp \in 1..HeadStamp => {"tier", "ratelimit"} \subseteq DOMAIN tables
  /\ stamp \in 1..(HeadStamp - 2) => Has(tables, "user")
  /\ Has(tables, "user") =>
       tables["user"].cols = IF stamp = 0 THEN ModelTable.user.cols ELSE ColumnsAt(stamp)
  /\ stamp = HeadStamp =>
       \A t \in Models : Has(tables, t) /\ [tables[t] EXCEPT !.rows = {}] = ModelTable[t]

(* No step but a downgrade loses an account or gives it another id: time   *)
(* logs and Clerk know it by that id.                                      *)
AccountsSurvive == [][stamp' >= stamp => Rows(tables, "user") \subseteq Rows(tables', "user")]_vars

(* One account per address, the administrator's included, when several     *)
(* runs of the script and the webhook look and insert at once, in every    *)
(* schema of the chain they can insert into.                               *)
OneAccountPerAddress ==
  \A r, q \in Rows(tables, "user") : r.email = q.email => r = q

(* A worker can get its tables: the one that is missing can be made.       *)
CanServe ==
  /\ settings.ENVIRONMENT = "LOCAL"
  /\ CanCreate(Models \ DOMAIN tables)

(* However the workers race for the tables, in the end all of them serve,  *)
(* if the environment is LOCAL and the schema stays one they can complete. *)
WorkersComeUp == <>[]CanServe => <>[](\A w \in Worker : phase[w] = "serving")

(* "ENVIRONMENT can be one of local, staging and production": no worker    *)
(* refuses to start over its environment.                                  *)
EveryEnvironmentStarts == \A w \in Worker : phase[w] # "refused"
=============================================================================
