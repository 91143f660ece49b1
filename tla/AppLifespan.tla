------------------------------ MODULE AppLifespan ------------------------------
(***************************************************************************)
(* The workers of the API from start to serving (src/app/core/setup.py),   *)
(* the container that restarts them, and the administrator script          *)
(* (src/scripts/create_first_superuser.py), over one database.             *)
(*                                                                         *)
(* gunicorn runs several workers, each with its own lifespan; it replaces  *)
(* a worker that dies, but halts, and all workers with it, when one fails  *)
(* to boot; the container is restarted always (Dockerfile,                 *)
(* docker-compose.yml).                                                    *)
(***************************************************************************)
EXTENDS Database

CONSTANTS Worker,      \* gunicorn workers
          Script,      \* runs of the administrator script
          Account,     \* addresses of accounts the webhook may insert
          AdminEmail,  \* settings.ADMIN_EMAIL
          MaxCrashes   \* bound: workers that die for other reasons

ASSUME LifespanAssumption == MaxCrashes \in Nat

VARIABLES phase,    \* phase[w]: where worker w is in its lifespan
          missing,  \* missing[w]: the tables create_all found missing
          script,   \* script[a]: where run a of the script is
          crashes

appVars == <<phase, missing, script, crashes>>

(* The tables of SQLModel.metadata (src/app/models), in the order          *)
(* create_all makes them: user before timelog, which refers to it.         *)
Models == {"user", "timelog"}

ModelTable ==
  [user |->
     Table([name |-> Req("text"), username |-> Req("text"), email |-> Req("text"),
            uuid |-> Req("text"), id |-> Req("text"), profile_image_url |-> Req("text"),
            is_superuser |-> Req("bool"), created_at |-> Opt("timetz"),
            updated_at |-> Opt("timetz"), deleted_at |-> Opt("timetz"),
            is_deleted |-> Req("bool")],
           {Key(PrimaryKeyOf("user"), {"id"}), Key(UniqueKeyOf("user", "email"), {"email"}),
            Key(UniqueKeyOf("user", "uuid"), {"uuid"})}, {}),
   timelog |->
     Table([task |-> Req("text"), description |-> Opt("text"), start_time |-> Req("time"),
            end_time |-> Req("time"), source |-> Req("text"), id |-> Req("int"),
            creator_id |-> Req("text"), created_at |-> Opt("timetz"),
            updated_at |-> Opt("timetz")],
           {Key(PrimaryKeyOf("timelog"), {"id"})}, {ForeignKey("creator_id", "user", "id")})]

Phase == {"down", "tables", "create", "environment", "serving", "failed", "refused"}

LifespanTypeOK ==
  /\ settings \in Settings
  /\ phase \in [Worker -> Phase]
  /\ missing \in [Worker -> SUBSET Models]
  /\ script \in [Script -> {"idle", "insert", "done"}]
  /\ crashes \in 0..MaxCrashes

Enter(w, p) == phase' = [phase EXCEPT ![w] = p]

-----------------------------------------------------------------------------
(* The lifespan of a worker, one step per await.                           *)

Boot(w) ==
  /\ phase[w] = "down"
  /\ Enter(w, "tables")
  /\ UNCHANGED <<settings, tables, pending, missing, script, crashes>>

(* Mutant of CheckTables: create_all(checkfirst=False) asks for none.      *)
CheckNoTables(w) ==
  /\ phase[w] = "tables"
  /\ missing' = [missing EXCEPT ![w] = Models]
  /\ Enter(w, "create")
  /\ UNCHANGED <<settings, tables, pending, script, crashes>>

(* create_all first asks for all its tables, and only for their names: a   *)
(* table of another shape is not missing.                                  *)
CheckTables(w) ==
  /\ phase[w] = "tables"
  /\ missing' = [missing EXCEPT ![w] = Models \ DOMAIN tables]
  /\ Enter(w, "create")
  /\ UNCHANGED <<settings, tables, pending, script, crashes>>

With(ts) == [t \in DOMAIN tables \cup ts |-> IF t \in ts THEN ModelTable[t] ELSE tables[t]]

CanCreate(ts) ==
  /\ ts \cap DOMAIN tables = {}
  /\ \A t \in ts : \A f \in ModelTable[t].fks :
       CanRefer(With(ts), ModelTable[t].cols[f.on].type, f)

(* The tables the next statement of worker w makes: in PostgreSQL those of *)
(* the whole transaction, which no one sees before it commits; SQLite      *)
(* keeps each as soon as it is made.                                       *)
NextTables(w) ==
  IF settings.DB_ENGINE = "SQLITE" /\ "user" \in missing[w] THEN {"user"} ELSE missing[w]

(* Mutant of CreateTables: an error of create_all is logged, no more.      *)
CreateTablesLogging(w) ==
  LET ts == NextTables(w) IN
  /\ phase[w] = "create" /\ missing[w] # {}
  /\ \A t \in ts \cup {"user"} : ~ Locked(t)
  /\ tables' = IF CanCreate(ts) THEN With(ts) ELSE tables
  /\ missing' = [missing EXCEPT ![w] = @ \ ts]
  /\ UNCHANGED <<settings, pending, phase, script, crashes>>

(* Creating waits for a migration that has touched one of the tables or    *)
(* user, and raises if another has created one of them meanwhile.          *)
CreateTables(w) ==
  LET ts == NextTables(w) IN
  /\ phase[w] = "create" /\ missing[w] # {}
  /\ \A t \in ts \cup {"user"} : ~ Locked(t)
  /\ IF CanCreate(ts)
     THEN /\ tables' = With(ts)
          /\ missing' = [missing EXCEPT ![w] = @ \ ts]
          /\ UNCHANGED phase
     ELSE Enter(w, "failed") /\ UNCHANGED <<tables, missing>>
  /\ UNCHANGED <<settings, pending, script, crashes>>

TablesMade(w) ==
  /\ phase[w] = "create" /\ missing[w] = {}
  /\ Enter(w, "environment")
  /\ UNCHANGED <<settings, tables, pending, missing, script, crashes>>

(* LOCAL needs no Redis.  In any other environment the test goes on to     *)
(* EnvironmentOption.DEVELOPMENT, which is no member and raises.           *)
CheckEnvironment(w) ==
  /\ phase[w] = "environment"
  /\ Enter(w, IF settings.ENVIRONMENT = "LOCAL" THEN "serving" ELSE "refused")
  /\ UNCHANGED <<settings, tables, pending, missing, script, crashes>>

(* A worker that does not boot ends the master and its workers with it.    *)
Halt ==
  /\ \E w \in Worker : phase[w] \in {"failed", "refused"}
  /\ phase' = [w \in Worker |-> "down"]
  /\ missing' = [w \in Worker |-> {}]
  /\ UNCHANGED <<settings, tables, pending, script, crashes>>

Crash(w) ==
  /\ phase[w] # "down" /\ crashes < MaxCrashes
  /\ crashes' = crashes + 1
  /\ Enter(w, "down")
  /\ missing' = [missing EXCEPT ![w] = {}]
  /\ UNCHANGED <<settings, tables, pending, script>>

-----------------------------------------------------------------------------
(* Rows of user.  An insert names every column of the model; it raises if  *)
(* the table has not all of them with their types, requires another, or    *)
(* keeps addresses unique and has the address.                             *)

HasModelColumns ==
  /\ Has(tables, "user")
  /\ \A c \in DOMAIN ModelTable.user.cols :
       /\ HasColumn(tables, "user", c)
       /\ tables["user"].cols[c].type = ModelTable.user.cols[c].type

CanInsert(row) ==
  /\ HasModelColumns
  /\ \A c \in DOMAIN tables["user"].cols \ DOMAIN ModelTable.user.cols :
       tables["user"].cols[c].null
  /\ \A k \in tables["user"].keys : k.on = {"email"} =>
       \A r \in tables["user"].rows : r.email # row.email

Insert(row) ==
  tables' = IF CanInsert(row) THEN [tables EXCEPT !["user"].rows = @ \cup {row}] ELSE tables

(* create_first_user looks for the address ...                             *)
LookUpAdmin(a) ==
  /\ script[a] = "idle" /\ ~ Locked("user")
  /\ script' = [script EXCEPT ![a] =
       IF HasModelColumns /\ \A r \in tables["user"].rows : r.email # AdminEmail
       THEN "insert" ELSE "done"]
  /\ UNCHANGED <<settings, tables, pending, phase, missing, crashes>>

(* ... and inserts the administrator; an error is logged, no more.         *)
InsertAdmin(a) ==
  /\ script[a] = "insert" /\ ~ Locked("user")
  /\ Insert([email |-> AdminEmail, id |-> a])
  /\ script' = [script EXCEPT ![a] = "done"]
  /\ UNCHANGED <<settings, pending, phase, missing, crashes>>

(* A serving worker inserts the row of an account (the webhook).           *)
Register(w, u) ==
  /\ phase[w] = "serving" /\ ~ Locked("user")
  /\ \A r \in Rows(tables, "user") : r.id # u
  /\ Insert([email |-> u, id |-> u])
  /\ UNCHANGED <<settings, pending, phase, missing, script, crashes>>

-----------------------------------------------------------------------------

LifespanInit ==
  /\ phase = [w \in Worker |-> "down"]
  /\ missing = [w \in Worker |-> {}]
  /\ script = [a \in Script |-> "idle"]
  /\ crashes = 0

BootStep(w) == Boot(w) \/ CheckTables(w) \/ CreateTables(w) \/ TablesMade(w) \/ CheckEnvironment(w)

LifespanNext ==
  \/ \E w \in Worker : BootStep(w) \/ Crash(w) \/ \E u \in Account : Register(w, u)
  \/ Halt
  \/ \E a \in Script : LookUpAdmin(a) \/ InsertAdmin(a)
=============================================================================
