------------------------------- MODULE Migrations -------------------------------
(***************************************************************************)
(* The commands "alembic upgrade" and "alembic downgrade" over the chain   *)
(* of Revisions, as src/migrations/env.py runs them: all revisions of one  *)
(* command in one transaction (context.begin_transaction), on the          *)
(* PostgreSQL database the settings name; with the settings of SQLite the  *)
(* names env.py reads do not exist and no command gets that far.           *)
(***************************************************************************)
EXTENDS Database, Revisions

CONSTANT MaxCommands  \* bound: Alembic commands

ASSUME MigrationsAssumption == MaxCommands \in Nat

VARIABLES stamp,    \* the revision in alembic_version, as its place in Chain
          run,      \* the command going on
          commands

migrationVars == <<stamp, run, commands>>

NotRunning == [at |-> 0, goal |-> 0, running |-> FALSE]

MigrationTypeOK ==
  /\ stamp \in Stamp
  /\ run \in [at : Stamp, goal : Stamp, running : BOOLEAN]
  /\ commands \in 0..MaxCommands

(* "upgrade +1", "upgrade head", "downgrade -1" and "downgrade base".      *)
Goals == {g \in {stamp + 1, HeadStamp, stamp - 1, 0} : g \in Stamp \ {stamp}}

StartCommand(g) ==
  /\ settings.DB_ENGINE = "POSTGRES"
  /\ ~ run.running /\ commands < MaxCommands
  /\ run' = [at |-> stamp, goal |-> g, running |-> TRUE]
  /\ commands' = commands + 1
  /\ UNCHANGED <<settings, tables, pending, stamp>>

(* Mutant of NextStamp: a downgrade counts like an upgrade.                *)
NextStampUp == run.at + 1

(* The next revision of the command, and the schema it would leave.        *)
NextStamp == IF run.goal > run.at THEN run.at + 1 ELSE run.at - 1
AfterNext ==
  Run(View, IF run.goal > run.at THEN Upgrades[run.at + 1] ELSE Downgrades[run.at])

RunRevision ==
  /\ run.running /\ run.at # run.goal
  /\ LET after == AfterNext
     IN after # Failed /\ pending' = Pending(after)
  /\ run' = [run EXCEPT !.at = NextStamp]
  /\ UNCHANGED <<settings, tables, stamp, commands>>

(* Mutant of Rollback: statements commit one by one.                       *)
RollbackNothing ==
  /\ tables' = View
  /\ pending' = NothingPending
  /\ run' = NotRunning
  /\ UNCHANGED <<settings, stamp, commands>>

(* The transaction of the command ends with nothing done.                  *)
Rollback ==
  /\ pending' = NothingPending
  /\ run' = NotRunning
  /\ UNCHANGED <<settings, tables, stamp, commands>>

RevisionFails == run.running /\ run.at # run.goal /\ AfterNext = Failed /\ Rollback

(* The command is interrupted, or its connection lost.                     *)
KillCommand == run.running /\ Rollback

CommitCommand ==
  /\ run.running /\ run.at = run.goal
  /\ tables' = View
  /\ stamp' = run.at
  /\ pending' = NothingPending
  /\ run' = NotRunning
  /\ UNCHANGED <<settings, commands>>

MigrationInit ==
  /\ pending = NothingPending
  /\ run = NotRunning
  /\ commands = 0

CommandStep == RunRevision \/ RevisionFails \/ CommitCommand

MigrationNext == (\E g \in Goals : StartCommand(g)) \/ CommandStep \/ KillCommand
=============================================================================
