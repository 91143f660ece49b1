---------------------------- MODULE DeploymentProofs ----------------------------
(***************************************************************************)
(* Theorems of Deployment, for any number of workers and script runs, any  *)
(* accounts, crashes and commands.  The types and what workers rely on     *)
(* hold whatever the revisions do; that the stamp tells the schema and     *)
(* that accounts survive rests on what RevisionProofs proves of them.      *)
(***************************************************************************)
EXTENDS RevisionProofs

(* What a worker on its way relies on: the tables it did not find missing  *)
(* are there, and past create_all all of them.                             *)
HasWhatItFound ==
  \A w \in Worker \ undermined :
    /\ phase[w] = "create" => Models \ missing[w] \subseteq DOMAIN tables
    /\ phase[w] \in {"environment", "serving"} => Models \subseteq DOMAIN tables

IInv == TypeOK /\ HasWhatItFound

LEMMA StampsAreNumbers == Stamp = 0..HeadStamp /\ HeadStamp \in Nat
  BY SMT DEF Stamp, HeadStamp, Chain

LEMMA InitTypeOK == Init => TypeOK
  <1> SUFFICES ASSUME Init PROVE TypeOK
    OBVIOUS
  <1>1. settings \in Settings
    BY DeploymentAssumption DEF Init, Settings
  <1>2. stamp \in Stamp
    BY DeploymentAssumption DEF Init
  <1>3. run \in [at : Stamp, goal : Stamp, running : BOOLEAN]
    BY StampsAreNumbers DEF Init, MigrationInit, NotRunning
  <1> QED
    BY <1>1, <1>2, <1>3, LifespanAssumption, MigrationsAssumption
    DEF Init, TypeOK, LifespanTypeOK, MigrationTypeOK, LifespanInit, MigrationInit, Phase

(* The steps of workers, container and script keep the types.              *)
LEMMA LifespanTypes ==
  ASSUME TypeOK, LifespanNext, ByApp
  PROVE  TypeOK'
  <1> USE DEF TypeOK, LifespanTypeOK, MigrationTypeOK, migrationVars, ByApp, Phase, Enter
  <1>1. ASSUME NEW w \in Worker, BootStep(w) PROVE TypeOK'
    <2>1. CASE Boot(w)
      BY <2>1 DEF Boot
    <2>2. CASE CheckTables(w)
      BY <2>2 DEF CheckTables
    <2>3. CASE CreateTables(w)
      BY <2>3 DEF CreateTables
    <2>4. CASE TablesMade(w)
      BY <2>4 DEF TablesMade
    <2>5. CASE CheckEnvironment(w)
      BY <2>5 DEF CheckEnvironment
    <2> QED
      BY <1>1, <2>1, <2>2, <2>3, <2>4, <2>5 DEF BootStep
  <1>2. ASSUME NEW w \in Worker, Crash(w) PROVE TypeOK'
    BY <1>2, LifespanAssumption DEF Crash
  <1>3. ASSUME NEW w \in Worker, NEW u \in Account, Register(w, u) PROVE TypeOK'
    BY <1>3 DEF Register
  <1>4. CASE Halt
    BY <1>4 DEF Halt
  <1>5. ASSUME NEW a \in Script, LookUpAdmin(a) PROVE TypeOK'
    BY <1>5 DEF LookUpAdmin
  <1>6. ASSUME NEW a \in Script, InsertAdmin(a) PROVE TypeOK'
    BY <1>6 DEF InsertAdmin
  <1> QED
    BY <1>1, <1>2, <1>3, <1>4, <1>5, <1>6 DEF LifespanNext

(* So do the steps of a command, whatever it does to the schema.           *)
LEMMA MigrationTypes ==
  ASSUME TypeOK, MigrationNext, ByMigration
  PROVE  TypeOK'
  <1> USE DEF TypeOK, LifespanTypeOK, MigrationTypeOK, appVars
  <1>1. undermined' \subseteq Worker
    BY DEF ByMigration, Relying
  <1>2. NotRunning \in [at : Stamp, goal : Stamp, running : BOOLEAN]
    BY StampsAreNumbers DEF NotRunning
  <1>3. ASSUME NEW g \in Goals, StartCommand(g) PROVE TypeOK'
    <2>1. g \in Stamp
      BY DEF Goals
    <2> QED
      BY <1>1, <1>3, <2>1, MigrationsAssumption DEF StartCommand, ByMigration
  <1>4. CASE RunRevision
    <2>1. NextStamp \in Stamp
      BY <1>4, StampsAreNumbers DEF RunRevision, NextStamp
    <2> QED
      BY <1>1, <1>4, <2>1 DEF RunRevision, ByMigration
  <1>5. CASE Rollback
    BY <1>1, <1>2, <1>5 DEF Rollback, ByMigration
  <1>6. CASE CommitCommand
    BY <1>1, <1>2, <1>6 DEF CommitCommand, ByMigration
  <1> QED
    BY <1>3, <1>4, <1>5, <1>6 DEF MigrationNext, CommandStep, RevisionFails, KillCommand

(* Creating what the worker had found missing adds to the schema.          *)
LEMMA CreatingAdds ==
  ASSUME NEW ts
  PROVE  DOMAIN With(ts) = DOMAIN tables \cup ts
  BY DEF With

LEMMA AppKeepsTables ==
  ASSUME TypeOK, LifespanNext
  PROVE  DOMAIN tables \subseteq DOMAIN tables'
  <1>1. ASSUME NEW w \in Worker, CreateTables(w) PROVE DOMAIN tables \subseteq DOMAIN tables'
    BY <1>1, CreatingAdds DEF CreateTables
  <1>2. ASSUME NEW row, Insert(row) PROVE DOMAIN tables \subseteq DOMAIN tables'
    BY <1>2 DEF Insert
  <1> QED
    BY <1>1, <1>2
    DEF LifespanNext, BootStep, Boot, CheckTables, TablesMade, CheckEnvironment, Halt, Crash,
        LookUpAdmin, InsertAdmin, Register

LEMMA AppKeepsFound ==
  ASSUME IInv, LifespanNext, ByApp
  PROVE  HasWhatItFound'
  <1> USE DEF IInv, TypeOK, LifespanTypeOK, Enter
  <1> SUFFICES ASSUME NEW v \in Worker, v \notin undermined',
                      phase'[v] \in {"create", "environment", "serving"}
               PROVE  /\ phase'[v] = "create" => Models \ missing'[v] \subseteq DOMAIN tables'
                      /\ phase'[v] \in {"environment", "serving"} => Models \subseteq DOMAIN tables'
    BY DEF HasWhatItFound
  <1>0. v \notin undermined
    BY DEF ByApp
  <1>1. DOMAIN tables \subseteq DOMAIN tables'
    BY AppKeepsTables
  <1>2. CASE phase'[v] = phase[v] /\ missing'[v] = missing[v]
    BY <1>0, <1>1, <1>2 DEF HasWhatItFound
  <1>3. ASSUME CheckTables(v)
        PROVE  missing'[v] = Models \ DOMAIN tables /\ phase'[v] = "create"
    BY <1>3 DEF CheckTables
  <1>4. ASSUME CreateTables(v), phase'[v] # "failed"
        PROVE  /\ phase'[v] = "create" /\ phase[v] = "create"
               /\ \E ts : tables' = With(ts) /\ missing'[v] = missing[v] \ ts
    BY <1>4 DEF CreateTables
  <1>5. CASE CheckTables(v)
    BY <1>1, <1>3, <1>5
  <1>6. CASE CreateTables(v)
    <2>1. PICK ts : tables' = With(ts) /\ missing'[v] = missing[v] \ ts
      BY <1>4, <1>6
    <2>2. Models \ missing[v] \subseteq DOMAIN tables
      BY <1>0, <1>4, <1>6 DEF HasWhatItFound
    <2> QED
      BY <1>4, <1>6, <2>1, <2>2, CreatingAdds
  <1>7. CASE TablesMade(v)
    <2>1. phase[v] = "create" /\ missing[v] = {} /\ phase'[v] = "environment"
      BY <1>7 DEF TablesMade
    <2> QED
      BY <1>0, <1>1, <2>1 DEF HasWhatItFound
  <1>8. CASE CheckEnvironment(v)
    <2>1. phase[v] = "environment" /\ phase'[v] = "serving"
      BY <1>8 DEF CheckEnvironment
    <2> QED
      BY <1>0, <1>1, <2>1 DEF HasWhatItFound
  <1>9. CASE ~ (\/ CheckTables(v) \/ CreateTables(v) \/ TablesMade(v) \/ CheckEnvironment(v))
    <2>1. ASSUME NEW w \in Worker, BootStep(w)
          PROVE  phase'[v] = phase[v] /\ missing'[v] = missing[v]
      <3>1. CASE w = v
        BY <1>9, <2>1, <3>1 DEF BootStep, Boot
      <3>2. CASE w # v
        BY <2>1, <3>2 DEF BootStep, Boot, CheckTables, CreateTables, TablesMade, CheckEnvironment
      <3> QED
        BY <3>1, <3>2
    <2>2. ASSUME NEW w \in Worker, Crash(w) PROVE phase'[v] = phase[v] /\ missing'[v] = missing[v]
      BY <2>2 DEF Crash
    <2>3. ~ Halt
      BY DEF Halt
    <2> QED
      BY <1>2, <2>1, <2>2, <2>3 DEF LifespanNext, Register, LookUpAdmin, InsertAdmin
  <1> QED
    BY <1>5, <1>6, <1>7, <1>8, <1>9

LEMMA MigrationKeepsFound ==
  ASSUME IInv, ByMigration
  PROVE  HasWhatItFound'
  <1>1. CASE Models \cap DOMAIN tables \subseteq DOMAIN tables'
    BY <1>1 DEF IInv, ByMigration, HasWhatItFound, appVars
  <1>2. CASE ~ (Models \cap DOMAIN tables \subseteq DOMAIN tables')
    BY <1>2 DEF IInv, ByMigration, HasWhatItFound, appVars, Relying
  <1> QED
    BY <1>1, <1>2

LEMMA InvariantHolds == Spec => []IInv
  <1>1. Init => IInv
    BY InitTypeOK DEF IInv, Init, LifespanInit, HasWhatItFound
  <1>2. IInv /\ [Next]_vars => IInv'
    <2> SUFFICES ASSUME IInv, [Next]_vars PROVE IInv'
      OBVIOUS
    <2>1. CASE LifespanNext /\ ByApp
      BY <2>1, LifespanTypes, AppKeepsFound DEF IInv
    <2>2. CASE MigrationNext /\ ByMigration
      BY <2>2, MigrationTypes, MigrationKeepsFound DEF IInv
    <2>3. CASE UNCHANGED vars
      BY <2>3
      DEF vars, appVars, migrationVars, IInv, TypeOK, LifespanTypeOK, MigrationTypeOK, HasWhatItFound
    <2> QED
      BY <2>1, <2>2, <2>3 DEF Next
  <1> QED
    BY <1>1, <1>2, PTL DEF Spec

(* Every variable keeps its type, for all constants.                       *)
THEOREM TypeCorrect == Spec => []TypeOK
  BY InvariantHolds, PTL DEF IInv

(* No worker serves over a table that is not there, unless a migration     *)
(* dropped it after the worker had looked: however many workers race       *)
(* through lifespan's create_tables, fail, halt, crash and boot again, and *)
(* whatever the revisions do.                                              *)
THEOREM TablesServed == Spec => []ServesOverTables
  <1>1. IInv => ServesOverTables
    BY DEF IInv, HasWhatItFound, ServesOverTables
  <1> QED
    BY <1>1, InvariantHolds, PTL

-----------------------------------------------------------------------------
(* The stamp, the schema and the accounts.                                 *)

(* The committed schema is one of the stamp, and what an open command sees *)
(* one of the revision it has got to, on its way from the stamp to the     *)
(* goal; on the way up it sees every account committed so far.             *)
SchemaInv ==
  /\ Fits(tables, stamp)
  /\ ~ run.running => pending = NothingPending
  /\ run.running =>
       /\ Fits(View, run.at) /\ run.goal # stamp
       /\ run.goal > stamp =>
            /\ run.at \in stamp..run.goal
            /\ Rows(tables, "user") \subseteq Rows(View, "user")
       /\ run.goal < stamp => run.at \in run.goal..stamp

(* What a step of the application does to the schema: nothing, or tables   *)
(* created or an account inserted where the open command has touched       *)
(* nothing.                                                                *)
AppCreates ==
  \E ts \in SUBSET Models :
    /\ ts \cap DOMAIN tables = {} /\ ts \cap DOMAIN pending = {} /\ ~ Locked("user")
    /\ tables' = With(ts)

AppInserts ==
  \E row :
    /\ ~ Locked("user") /\ CanInsert(row)
    /\ tables' = [tables EXCEPT !["user"] =
                    [tables["user"] EXCEPT !.rows = tables["user"].rows \cup {row}]]

LEMMA AppChanges ==
  ASSUME TypeOK, LifespanNext
  PROVE  pending' = pending /\ (tables' = tables \/ AppCreates \/ AppInserts)
  <1>1. ASSUME NEW w \in Worker, CreateTables(w)
        PROVE  pending' = pending /\ (tables' = tables \/ AppCreates)
    <2> DEFINE ts == NextTables(w)
    <2>1. ts \in SUBSET Models
      BY DEF NextTables, TypeOK, LifespanTypeOK
    <2>2. \A t \in ts \cup {"user"} : ~ Locked(t)
      BY <1>1 DEF CreateTables
    <2>3. tables' = tables \/ (CanCreate(ts) /\ tables' = With(ts))
      BY <1>1 DEF CreateTables
    <2>4. pending' = pending
      BY <1>1 DEF CreateTables
    <2> HIDE DEF ts
    <2> QED
      BY <2>1, <2>2, <2>3, <2>4 DEF AppCreates, CanCreate, Locked
  <1>2. ASSUME NEW row, ~ Locked("user"), Insert(row)
        PROVE  tables' = tables \/ AppInserts
    <2>1. CanInsert(row) =>
            tables' = [tables EXCEPT !["user"] =
                         [tables["user"] EXCEPT !.rows = tables["user"].rows \cup {row}]]
      BY <1>2 DEF Insert
    <2>2. ~ CanInsert(row) => tables' = tables
      BY <1>2 DEF Insert
    <2> QED
      BY <1>2, <2>1, <2>2 DEF AppInserts
  <1>3. ASSUME NEW a \in Script, InsertAdmin(a)
        PROVE  pending' = pending /\ (tables' = tables \/ AppInserts)
    BY <1>2, <1>3 DEF InsertAdmin
  <1>4. ASSUME NEW w \in Worker, NEW u \in Account, Register(w, u)
        PROVE  pending' = pending /\ (tables' = tables \/ AppInserts)
    BY <1>2, <1>4 DEF Register
  <1> QED
    BY <1>1, <1>3, <1>4
    DEF LifespanNext, BootStep, Boot, CheckTables, TablesMade, CheckEnvironment, Halt, Crash,
        LookUpAdmin

(* It leaves a schema of the stamp, seen from outside or by the command,   *)
(* and only adds accounts, the same for both.                              *)
LEMMA AppFits ==
  ASSUME TypeOK, tables' = tables \/ AppCreates \/ AppInserts, pending' = pending,
         NEW j \in Stamp, Fits(tables, j), NEW i \in Stamp
  PROVE  /\ Fits(tables, i) => Fits(tables', i)
         /\ Fits(View, i) => Fits(View', i)
         /\ Rows(tables, "user") \subseteq Rows(tables', "user")
         /\ Rows(tables, "user") \subseteq Rows(View, "user") =>
              Rows(tables', "user") \subseteq Rows(View', "user")
  <1>1. CASE tables' = tables
    BY <1>1, ViewIsSeen
  <1>2. CASE AppCreates
    <2>1. PICK ts \in SUBSET Models :
            /\ ts \cap DOMAIN tables = {} /\ ts \cap DOMAIN pending = {} /\ ~ Locked("user")
            /\ tables' = With(ts)
      BY <1>2 DEF AppCreates
    <2>2. /\ DOMAIN tables' = DOMAIN tables \cup ts
          /\ \A t \in DOMAIN tables : tables'[t] = tables[t]
          /\ \A t \in ts : tables'[t] = ModelTable[t]
      BY <2>1 DEF With
    <2>3. Fits(tables, i) => Fits(tables', i)
      BY <2>1, <2>2, TablesCreated
    <2>4. Fits(View, i) => Fits(View', i)
      BY <2>1, <2>2, ViewIsSeen, SeenCreated
    <2>5. Rows(tables, "user") \subseteq Rows(tables', "user")
      BY <2>2 DEF Rows, Has
    <2>6. Rows(View', "user") = Rows(tables', "user")
      BY <2>1, ViewIsSeen, SeenUser DEF Locked
    <2> QED
      BY <2>3, <2>4, <2>5, <2>6
  <1>3. CASE AppInserts
    <2>1. PICK row :
            /\ ~ Locked("user") /\ CanInsert(row)
            /\ tables' = [tables EXCEPT !["user"] =
                            [tables["user"] EXCEPT !.rows = tables["user"].rows \cup {row}]]
      BY <1>3 DEF AppInserts
    <2>2. ModelTable.user.cols["uuid"] = Req("text") /\ "uuid" \in DOMAIN ModelTable.user.cols
      BY DEF ModelTable, Table
    <2>3. /\ Has(tables, "user") /\ "uuid" \in DOMAIN tables["user"].cols
          /\ tables["user"].cols["uuid"].type = "text"
      <3>1. Has(tables, "user") /\ HasColumn(tables, "user", "uuid")
        BY <2>1, <2>2 DEF CanInsert, HasModelColumns
      <3>2. tables["user"].cols["uuid"].type = ModelTable.user.cols["uuid"].type
        BY <2>1, <2>2 DEF CanInsert, HasModelColumns
      <3> QED
        BY <2>2, <3>1, <3>2 DEF HasColumn, Req
    <2>4. \A k \in tables["user"].keys : k.on = {"email"} =>
            \A r \in tables["user"].rows : r.email # row.email
      BY <2>1 DEF CanInsert
    <2> DEFINE tab == [tables["user"] EXCEPT !.rows = tables["user"].rows \cup {row}]
               seen == Seen(tables, pending)
    <2>5. Fits(tables, i) => Fits(tables', i)
      BY <2>1, <2>3, <2>4, AccountInserted
    <2>6. /\ Has(seen, "user") /\ seen["user"] = tables["user"]
          /\ Seen(tables', pending) = [seen EXCEPT !["user"] = tab]
      <3> HIDE DEF tab
      <3>1. "user" \in DOMAIN tables /\ "user" \notin DOMAIN pending
        BY <2>1, <2>3 DEF Has, Locked
      <3>2. tables' = [tables EXCEPT !["user"] = tab]
        BY <2>1 DEF tab
      <3> DEFINE later == [tables EXCEPT !["user"] = tab]
      <3>3. Has(seen, "user") /\ seen["user"] = tables["user"]
        BY <3>1, SeenInserted
      <3>4. Seen(later, pending) = [seen EXCEPT !["user"] = tab]
        BY <3>1 DEF Seen
      <3>5. tables' = later
        BY <3>2
      <3> HIDE DEF later
      <3> QED
        BY <3>3, <3>4, <3>5
    <2>7. Fits(View, i) => Fits(View', i)
      <3> HIDE DEF seen
      <3>1. Fits(seen, i) => Fits([seen EXCEPT !["user"] = tab], i)
        BY <2>3, <2>4, <2>6, AccountInserted
      <3>2. View = seen /\ View' = [seen EXCEPT !["user"] = tab]
        BY <2>6, ViewIsSeen DEF seen
      <3> QED
        BY <3>1, <3>2
    <2>8. Rows(tables, "user") \subseteq Rows(tables', "user")
      <3>1. "rows" \in DOMAIN tables["user"]
        BY <2>3 DEF Fits, FitsUser, UserFields
      <3>2. tables'["user"].rows = tables["user"].rows \cup {row}
        BY <2>1, <2>3, <3>1 DEF Has
      <3> QED
        BY <2>1, <2>3, <3>2 DEF Rows, Has
    <2>9. Rows(View', "user") = Rows(tables', "user")
      BY <2>1, ViewIsSeen, SeenUser DEF Locked
    <2> QED
      BY <2>5, <2>7, <2>8, <2>9
  <1> QED
    BY <1>1, <1>2, <1>3

LEMMA AppKeepsSchema ==
  ASSUME TypeOK, SchemaInv, LifespanNext, ByApp
  PROVE  SchemaInv' /\ Rows(tables, "user") \subseteq Rows(tables', "user")
  <1> USE DEF TypeOK, MigrationTypeOK
  <1>1. pending' = pending /\ (tables' = tables \/ AppCreates \/ AppInserts)
    BY AppChanges
  <1>2. stamp' = stamp /\ run' = run
    BY DEF ByApp, migrationVars
  <1>3. Fits(tables, stamp) /\ stamp \in Stamp /\ run.at \in Stamp
    BY DEF SchemaInv
  <1>4. Fits(tables', stamp') /\ Rows(tables, "user") \subseteq Rows(tables', "user")
    BY <1>1, <1>2, <1>3, AppFits
  <1>5. ~ run.running => pending' = NothingPending
    BY <1>1 DEF SchemaInv
  <1>6. run.running =>
          /\ Fits(View', run.at)
          /\ run.goal > stamp => Rows(tables', "user") \subseteq Rows(View', "user")
    BY <1>1, <1>3, AppFits DEF SchemaInv
  <1> HIDE DEF TypeOK, MigrationTypeOK
  <1> QED
    BY <1>2, <1>4, <1>5, <1>6 DEF SchemaInv

(* A revision that gets through leads the open command to the next stamp.  *)
LEMMA RevisionKeepsSchema ==
  ASSUME TypeOK, SchemaInv, RunRevision
  PROVE  SchemaInv'
  <1> DEFINE after == AfterNext
             at == run.at
             goal == run.goal
  <1>1. /\ run.running /\ at # goal /\ after # Failed /\ pending' = Pending(after)
        /\ tables' = tables /\ stamp' = stamp
        /\ run'.at = NextStamp /\ run'.goal = goal /\ run'.running
    <2>1. run \in [at : Stamp, goal : Stamp, running : BOOLEAN]
      BY DEF TypeOK, MigrationTypeOK
    <2> QED
      BY <2>1 DEF RunRevision
  <1>2. at \in 0..25 /\ goal \in 0..25 /\ stamp \in 0..25
    BY StampNumbers DEF TypeOK, MigrationTypeOK
  <1>3. Fits(View, at)
    BY <1>1 DEF SchemaInv
  <1>4. ASSUME goal > at
        PROVE  Moves(View, after, at + 1) /\ NextStamp = at + 1
    <2>1. after = Run(View, Upgrades[at + 1]) /\ NextStamp = at + 1
      BY <1>4 DEF AfterNext, NextStamp
    <2>2. at + 1 \in 1..25 /\ (at + 1) - 1 = at
      BY <1>2, <1>4
    <2> HIDE DEF at, after
    <2> QED
      BY <1>1, <1>3, <2>1, <2>2, UpgradeFits
  <1>5. ASSUME ~ (goal > at)
        PROVE  Fits(after, at - 1) /\ NextStamp = at - 1 /\ at - 1 \in 0..25
    <2>1. after = Run(View, Downgrades[at]) /\ NextStamp = at - 1
      BY <1>5 DEF AfterNext, NextStamp
    <2>2. at \in 1..25 /\ at - 1 \in 0..25
      BY <1>1, <1>2, <1>5
    <2> HIDE DEF at, after
    <2> QED
      BY <1>1, <1>3, <2>1, <2>2, DowngradeFits
  <1>6. Fits(after, NextStamp) /\ NextStamp \in Stamp
    <2> HIDE DEF at, goal, after
    <2>1. CASE goal > at
      <3>1. at + 1 \in 0..25
        BY <1>2, <2>1
      <3> QED
        BY <1>4, <2>1, <3>1, StampNumbers DEF Moves
    <2>2. CASE ~ (goal > at)
      BY <1>5, <2>2, StampNumbers
    <2> QED
      BY <2>1, <2>2
  <1>7. Fits(View', NextStamp) /\ Rows(View', "user") = Rows(after, "user")
    <2> HIDE DEF after
    <2>1. View' = Seen(tables, Pending(after))
      BY <1>1, ViewIsSeen
    <2> QED
      BY <1>6, <2>1, SeesAfter
  <1>8. ASSUME goal > stamp
        PROVE  /\ NextStamp \in stamp..goal
               /\ Rows(tables, "user") \subseteq Rows(View', "user")
    <2>1. at \in stamp..goal /\ Rows(tables, "user") \subseteq Rows(View, "user")
      BY <1>1, <1>8 DEF SchemaInv
    <2> HIDE DEF at, goal, after
    <2>2. goal > at
      BY <1>1, <1>2, <2>1
    <2> QED
      BY <1>2, <1>4, <1>7, <2>1, <2>2 DEF Moves
  <1>9. ASSUME goal < stamp
        PROVE  NextStamp \in goal..stamp
    <2>1. at \in goal..stamp
      BY <1>1, <1>9 DEF SchemaInv
    <2> HIDE DEF at, goal, after
    <2>2. ~ (goal > at) /\ at # goal
      BY <1>1, <1>2, <2>1
    <2> QED
      BY <1>2, <1>5, <2>1, <2>2
  <1>10. Fits(tables, stamp) /\ goal # stamp
    BY <1>1 DEF SchemaInv
  <1> HIDE DEF after
  <1> QED
    BY <1>1, <1>7, <1>8, <1>9, <1>10 DEF SchemaInv

LEMMA MigrationKeepsSchema ==
  ASSUME TypeOK, SchemaInv, MigrationNext
  PROVE  /\ SchemaInv'
         /\ stamp' >= stamp => Rows(tables, "user") \subseteq Rows(tables', "user")
  <1>1. stamp \in 0..25 /\ run.at \in Stamp /\ run.goal \in 0..25
    BY StampNumbers DEF TypeOK, MigrationTypeOK
  <1>2. ASSUME NEW g \in Goals, StartCommand(g)
        PROVE  SchemaInv' /\ tables' = tables
    <2>1. /\ ~ run.running /\ run' = [at |-> stamp, goal |-> g, running |-> TRUE]
          /\ tables' = tables /\ pending' = pending /\ stamp' = stamp
      BY <1>2 DEF StartCommand
    <2>2. run'.at = stamp /\ run'.goal = g /\ run'.running
      BY <2>1
    <2>3. pending = NothingPending /\ Fits(tables, stamp)
      BY <2>1 DEF SchemaInv
    <2>4. g \in 0..25 /\ g # stamp
      BY StampNumbers DEF Goals
    <2>5. View' = Seen(tables, NothingPending)
      BY <2>1, <2>3, ViewIsSeen
    <2>6. Fits(View', stamp) /\ Rows(View', "user") = Rows(tables, "user")
      BY <1>1, <2>3, <2>5, SeesAll, StampNumbers
    <2> QED
      BY <1>1, <2>1, <2>2, <2>3, <2>4, <2>6 DEF SchemaInv
  <1>3. CASE RunRevision
    BY <1>3, RevisionKeepsSchema DEF RunRevision
  <1>4. ASSUME Rollback
        PROVE  SchemaInv' /\ tables' = tables
    <2>1. ~ run'.running /\ pending' = NothingPending /\ tables' = tables /\ stamp' = stamp
      BY <1>4 DEF Rollback, NotRunning
    <2> QED
      BY <2>1 DEF SchemaInv
  <1>5. ASSUME CommitCommand
        PROVE  /\ SchemaInv'
               /\ stamp' >= stamp => Rows(tables, "user") \subseteq Rows(tables', "user")
    <2>1. /\ run.running /\ run.at = run.goal /\ tables' = View /\ stamp' = run.at
          /\ ~ run'.running /\ pending' = NothingPending
      BY <1>5 DEF CommitCommand, NotRunning
    <2>2. Fits(View, run.at) /\ run.goal # stamp
      BY <2>1 DEF SchemaInv
    <2>3. SchemaInv'
      BY <2>1, <2>2 DEF SchemaInv
    <2>4. stamp' >= stamp => run.goal > stamp
      BY <1>1, <2>1, <2>2
    <2> QED
      BY <2>1, <2>3, <2>4 DEF SchemaInv
  <1> QED
    BY <1>2, <1>3, <1>4, <1>5 DEF MigrationNext, CommandStep, RevisionFails, KillCommand

SchemaIInv == TypeOK /\ SchemaInv

LEMMA SchemaInvariantHolds == Spec => []SchemaIInv
  <1>1. Init => SchemaIInv
    BY InitTypeOK, InitFits DEF SchemaIInv, SchemaInv, Init, MigrationInit, NotRunning
  <1>2. SchemaIInv /\ [Next]_vars => SchemaIInv'
    <2> SUFFICES ASSUME SchemaIInv, [Next]_vars PROVE SchemaIInv'
      OBVIOUS
    <2>1. CASE LifespanNext /\ ByApp
      BY <2>1, LifespanTypes, AppKeepsSchema DEF SchemaIInv
    <2>2. CASE MigrationNext /\ ByMigration
      BY <2>2, MigrationTypes, MigrationKeepsSchema DEF SchemaIInv
    <2>3. CASE UNCHANGED vars
      <3>1. View' = View
        BY <2>3, ViewIsSeen DEF vars
      <3>2. TypeOK'
        BY <2>3
        DEF vars, appVars, migrationVars, SchemaIInv, TypeOK, LifespanTypeOK, MigrationTypeOK
      <3> QED
        BY <2>3, <3>1, <3>2 DEF vars, migrationVars, SchemaIInv, SchemaInv
    <2> QED
      BY <2>1, <2>2, <2>3 DEF Next
  <1> QED
    BY <1>1, <1>2, PTL DEF Spec

(* The revision in alembic_version tells what the tables are, whichever    *)
(* commands ran, failed or were killed on the way, up and down the chain,  *)
(* and whatever the workers created in between (create_all knows nothing   *)
(* of the stamp).                                                          *)
THEOREM SchemaIsTold == Spec => []StampTellsSchema
  <1>1. SchemaIInv => StampTellsSchema
    <2> SUFFICES ASSUME SchemaIInv PROVE StampTellsSchema
      OBVIOUS
    <2>1. Fits(tables, stamp) /\ stamp \in Stamp /\ stamp \in 0..25
      BY StampNumbers DEF SchemaIInv, SchemaInv, TypeOK, MigrationTypeOK
    <2>2. stamp \in 1..25 => {"tier", "ratelimit"} \subseteq DOMAIN tables
      BY <2>1 DEF Fits, HasTable, Has
    <2>3. stamp \in 1..23 => Has(tables, "user")
      BY <2>1 DEF Fits
    <2>4. Has(tables, "user") =>
            tables["user"].cols = IF stamp = 0 THEN ModelTable.user.cols ELSE ColumnsAt(stamp)
      BY <2>1, ColumnsOfStamp DEF Fits, FitsUser
    <2>5. stamp = 25 =>
            \A t \in Models : Has(tables, t) /\ [tables[t] EXCEPT !.rows = {}] = ModelTable[t]
      BY <2>1 DEF Fits
    <2>6. HeadStamp = 25 /\ HeadStamp - 2 = 23
      BY StampNumbers
    <2> QED
      BY <2>2, <2>3, <2>4, <2>5, <2>6 DEF StampTellsSchema
  <1> QED
    BY <1>1, SchemaInvariantHolds, PTL

(* No two accounts share an address, the administrator's included, though  *)
(* the script (create_first_user) looks and inserts in two steps: where    *)
(* the columns let the application insert at all, revision 61fcea1dca3b or *)
(* create_all has put a key on the address.                                *)
THEOREM AddressesUnique == Spec => []OneAccountPerAddress
  <1>1. SchemaIInv => OneAccountPerAddress
    BY DEF SchemaIInv, SchemaInv, Fits, FitsUser, OnePerAddress, OneAccountPerAddress, Rows
  <1> QED
    BY <1>1, SchemaInvariantHolds, PTL

(* Only a downgrade loses an account or gives it another id: an upgrade    *)
(* that would (623ef1e66179 numbers accounts anew) does not get through    *)
(* while there are any, and no step of the application does.               *)
THEOREM AccountsAreKept == Spec => AccountsSurvive
  <1>1. SchemaIInv /\ [Next]_vars =>
          [stamp' >= stamp => Rows(tables, "user") \subseteq Rows(tables', "user")]_vars
    <2>1. ASSUME SchemaIInv, LifespanNext, ByApp
          PROVE  Rows(tables, "user") \subseteq Rows(tables', "user")
      BY <2>1, AppKeepsSchema DEF SchemaIInv
    <2>2. ASSUME SchemaIInv, MigrationNext
          PROVE  stamp' >= stamp => Rows(tables, "user") \subseteq Rows(tables', "user")
      BY <2>2, MigrationKeepsSchema DEF SchemaIInv
    <2> QED
      BY <2>1, <2>2 DEF Next
  <1> QED
    BY <1>1, SchemaInvariantHolds, PTL DEF Spec, AccountsSurvive
=============================================================================
