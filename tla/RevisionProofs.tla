----------------------------- MODULE RevisionProofs -----------------------------
(***************************************************************************)
(* What the revisions do to the table user, revision by revision.          *)
(*                                                                         *)
(* Fits(s, i) says what the stamp i of the database tells of its schema s: *)
(* which columns user has and of which types, that one of its keys is on   *)
(* the address from revision 15 on, and that no two accounts then share    *)
(* one.  The module proves that                                            *)
(*   - every upgrade and every downgrade that gets through leads from the  *)
(*     schemas of its stamp to those of the next, statement after          *)
(*     statement (UpgradeFits, DowngradeFits);                             *)
(*   - the databases earlier releases leave fit the stamp they are left    *)
(*     with (LegacyDatabaseFits, LeftFits, InitFits);                      *)
(*   - so do the tables the application creates and the accounts it        *)
(*     inserts, and what a transaction sees of its own (TablesCreated,     *)
(*     AccountInserted, SeesAfter).                                        *)
(* Run and LegacyDatabase are defined by recursion over the numbers; that  *)
(* there are such functions is proved from least elements (Induction).     *)
(***************************************************************************)
EXTENDS Deployment, TLAPS, WellFoundedInduction

(* Induction over the natural numbers, as the least member of a set.       *)
LessThan == OpToRel(<, Nat)

LEMMA LeastNumber ==
  ASSUME NEW T \in SUBSET Nat, T # {}
  PROVE  \E x \in T : \A y \in T : x <= y
  <1>1. IsWellFoundedOn(LessThan, Nat)
    BY NatLessThanWellFounded DEF LessThan
  <1>2. PICK x \in T : \A y \in T : ~ (<<y, x>> \in LessThan)
    BY <1>1, WFMin
  <1>3. \A y, z \in Nat : <<y, z>> \in LessThan <=> y < z
    BY DEF LessThan, OpToRel
  <1>4. \A y \in T : x <= y
    <2> TAKE y \in T
    <2>1. ~ (y < x)
      BY <1>2, <1>3
    <2> QED
      BY <2>1
  <1> QED
    BY <1>4

(* A set of numbers with 0 and the successor of each has them all.         *)
LEMMA Induction ==
  ASSUME NEW S, 0 \in S, \A n \in Nat : n \in S => n + 1 \in S
  PROVE  Nat \subseteq S
  <1> SUFFICES ASSUME Nat \ S # {} PROVE FALSE
    OBVIOUS
  <1>1. PICK x \in Nat \ S : \A y \in Nat \ S : x <= y
    BY LeastNumber
  <1>2. x # 0 /\ x - 1 \in Nat /\ ~ (x <= x - 1)
    BY <1>1
  <1>3. x - 1 \in S
    BY <1>1, <1>2
  <1> QED
    BY <1>1, <1>2, <1>3

-----------------------------------------------------------------------------
(* Running statements: the schemas in between.                             *)

IsTrace(after, s, statements) ==
  /\ after[0] = s
  /\ \A n \in 1..Len(statements) : after[n] = Exec(after[n - 1], statements[n])

LEMMA RunTrace ==
  ASSUME NEW s, NEW statements, Len(statements) \in Nat
  PROVE  \E after : IsTrace(after, s, statements) /\ Run(s, statements) = after[Len(statements)]
  <1> DEFINE At(f, n) == IF n = 0 THEN s ELSE Exec(f[n - 1], statements[n])
             Upto(f, m) == f = [n \in 0..m |-> At(f, n)]
             f == CHOOSE g : Upto(g, Len(statements))
             Defined == {m \in Nat : \E g : Upto(g, m)}
  <1>1. 0 \in Defined
    <2>1. Upto([n \in 0..0 |-> s], 0)
      OBVIOUS
    <2> QED
      BY <2>1
  <1>2. ASSUME NEW m \in Nat, m \in Defined PROVE m + 1 \in Defined
    <2>1. PICK g : Upto(g, m)
      BY <1>2
    <2> DEFINE h == [n \in 0..(m + 1) |-> IF n = m + 1 THEN Exec(g[m], statements[m + 1]) ELSE g[n]]
    <2>2. ASSUME NEW n \in 0..(m + 1) PROVE h[n] = At(h, n)
      <3>1. CASE n = m + 1
        BY <3>1
      <3>2. CASE n \in 0..m
        <4>1. h[n] = g[n] /\ g[n] = At(g, n)
          BY <2>1, <3>2
        <4>2. n # 0 => h[n - 1] = g[n - 1]
          BY <3>2
        <4> QED
          BY <4>1, <4>2
      <3> QED
        BY <3>1, <3>2
    <2>3. h = [n \in 0..(m + 1) |-> h[n]]
      OBVIOUS
    <2> HIDE DEF h
    <2>4. Upto(h, m + 1)
      BY <2>2, <2>3
    <2> QED
      BY <2>4
  <1>3. \E g : Upto(g, Len(statements))
    <2> HIDE DEF Upto
    <2> QED
      BY <1>1, <1>2, Induction
  <1>4. Upto(f, Len(statements))
    <2> HIDE DEF Upto
    <2> QED
      BY <1>3
  <1>5. Run(s, statements) = f[Len(statements)]
    BY DEF Run
  <1> HIDE DEF f
  <1>6. IsTrace(f, s, statements)
    BY <1>4 DEF IsTrace
  <1> QED
    BY <1>5, <1>6

LEMMA RunNone == \A s : Run(s, <<>>) = s
  BY RunTrace DEF IsTrace

LEMMA RunOne ==
  ASSUME NEW s, NEW a
  PROVE  Run(s, <<a>>) = Exec(s, a)
  BY RunTrace DEF IsTrace

LEMMA RunTwo ==
  ASSUME NEW s, NEW a, NEW b
  PROVE  Run(s, <<a, b>>) = Exec(Exec(s, a), b)
  <1> DEFINE statements == <<a, b>>
  <1>1. Len(statements) = 2 /\ Len(statements) \in Nat
    OBVIOUS
  <1>2. statements[1] = a /\ statements[2] = b
    OBVIOUS
  <1> HIDE DEF statements
  <1>3. PICK after :
          /\ IsTrace(after, s, statements)
          /\ Run(s, statements) = after[Len(statements)]
    BY <1>1, RunTrace
  <1>4. after[1] = Exec(s, a)
    BY <1>1, <1>2, <1>3 DEF IsTrace
  <1>5. after[2] = Exec(after[1], b)
    BY <1>1, <1>2, <1>3 DEF IsTrace
  <1> QED
    BY <1>1, <1>3, <1>4, <1>5 DEF statements

LEMMA RunThree ==
  ASSUME NEW s, NEW a, NEW b, NEW c
  PROVE  Run(s, <<a, b, c>>) = Exec(Exec(Exec(s, a), b), c)
  <1> DEFINE statements == <<a, b, c>>
  <1>1. Len(statements) = 3 /\ Len(statements) \in Nat
    OBVIOUS
  <1>2. statements[1] = a /\ statements[2] = b /\ statements[3] = c
    OBVIOUS
  <1> HIDE DEF statements
  <1>3. PICK after :
          /\ IsTrace(after, s, statements)
          /\ Run(s, statements) = after[Len(statements)]
    BY <1>1, RunTrace
  <1>4. after[1] = Exec(s, a)
    BY <1>1, <1>2, <1>3 DEF IsTrace
  <1>5. after[2] = Exec(after[1], b)
    BY <1>1, <1>2, <1>3 DEF IsTrace
  <1>6. after[3] = Exec(after[2], c)
    BY <1>1, <1>2, <1>3 DEF IsTrace
  <1> QED
    BY <1>1, <1>3, <1>4, <1>5, <1>6 DEF statements

LEMMA RunFour ==
  ASSUME NEW s, NEW a, NEW b, NEW c, NEW d
  PROVE  Run(s, <<a, b, c, d>>) = Exec(Exec(Exec(Exec(s, a), b), c), d)
  <1> DEFINE statements == <<a, b, c, d>>
  <1>1. Len(statements) = 4 /\ Len(statements) \in Nat
    OBVIOUS
  <1>2. statements[1] = a /\ statements[2] = b /\ statements[3] = c /\ statements[4] = d
    OBVIOUS
  <1> HIDE DEF statements
  <1>3. PICK after :
          /\ IsTrace(after, s, statements)
          /\ Run(s, statements) = after[Len(statements)]
    BY <1>1, RunTrace
  <1>4. after[1] = Exec(s, a)
    BY <1>1, <1>2, <1>3 DEF IsTrace
  <1>5. after[2] = Exec(after[1], b)
    BY <1>1, <1>2, <1>3 DEF IsTrace
  <1>6. after[3] = Exec(after[2], c)
    BY <1>1, <1>2, <1>3 DEF IsTrace
  <1>7. after[4] = Exec(after[3], d)
    BY <1>1, <1>2, <1>3 DEF IsTrace
  <1> QED
    BY <1>1, <1>3, <1>4, <1>5, <1>6, <1>7 DEF statements

-----------------------------------------------------------------------------
(* What a statement does, if it does not raise.                            *)

LEMMA NotAfterFailure == \A st : Exec(Failed, st) = Failed
  BY DEF Exec

LEMMA Raises == \A s, st : st.op = "drop_unnamed" => Exec(s, st) = Failed
  <1> SUFFICES ASSUME NEW s, NEW st, st.op = "drop_unnamed" PROVE Exec(s, st) = Failed
    OBVIOUS
  <1>1. ~ Possible(s, st)
    BY Zenon DEF Possible
  <1> QED
    BY <1>1 DEF Exec

WholeTable == {"create_table", "drop_table", "drop_tables"}

LEMMA ChangesOneTable ==
  ASSUME NEW s, NEW st, Exec(s, st) # Failed, st.op \notin WholeTable
  PROVE  /\ s # Failed /\ Possible(s, st)
         /\ Exec(s, st) = [s EXCEPT ![st.table] = Changed(s, st)]
  BY Zenon DEF Exec, WholeTable

LEMMA CreateTableDoes ==
  ASSUME NEW s, NEW t, NEW def, Exec(s, CreateTable(t, def)) # Failed
  PROVE  /\ s # Failed /\ ~ Has(s, t)
         /\ Exec(s, CreateTable(t, def)) = Put(s, t, def)
  <1> DEFINE st == CreateTable(t, def)
  <1>1. st.op = "create_table" /\ st.table = t /\ st.def = def
    BY DEF CreateTable
  <1> HIDE DEF st
  <1>2. s # Failed /\ Possible(s, st) /\ Exec(s, st) = Put(s, st.table, st.def)
    BY <1>1, Zenon DEF Exec, st
  <1>3. ~ Has(s, st.table)
    BY <1>1, <1>2, Zenon DEF Possible
  <1> QED
    BY <1>1, <1>2, <1>3 DEF st

LEMMA DropTableDoes ==
  ASSUME NEW s, NEW t, Exec(s, DropTable(t)) # Failed
  PROVE  s # Failed /\ Has(s, t) /\ Exec(s, DropTable(t)) = Without(s, t)
  <1> DEFINE st == DropTable(t)
  <1>1. st.op = "drop_table" /\ st.table = t
    BY DEF DropTable
  <1> HIDE DEF st
  <1>2. s # Failed /\ Possible(s, st) /\ Exec(s, st) = Without(s, st.table)
    BY <1>1, Zenon DEF Exec, st
  <1>3. Has(s, st.table)
    BY <1>1, <1>2, Zenon DEF Possible
  <1> QED
    BY <1>1, <1>2, <1>3 DEF st

LEMMA AddColumnDoes ==
  ASSUME NEW s, NEW t, NEW c, NEW col, Exec(s, AddColumn(t, c, col)) # Failed
  PROVE  /\ s # Failed /\ Has(s, t) /\ c \notin DOMAIN s[t].cols
         /\ col.null \/ s[t].rows = {}
         /\ Exec(s, AddColumn(t, c, col)) =
              [s EXCEPT ![t] = [s[t] EXCEPT !.cols = Put(s[t].cols, c, col)]]
  <1> DEFINE st == AddColumn(t, c, col)
  <1>1. st.op = "add_column" /\ st.table = t /\ st.column = c /\ st.def = col
    BY DEF AddColumn
  <1> HIDE DEF st
  <1>2. st.op \notin WholeTable
    BY <1>1 DEF WholeTable
  <1>3. /\ Has(s, st.table) /\ ~ HasColumn(s, st.table, st.column)
        /\ st.def.null \/ s[st.table].rows = {}
    BY <1>1, <1>2, ChangesOneTable, Zenon DEF Possible, st
  <1>4. Changed(s, st) = [s[st.table] EXCEPT !.cols = Put(s[st.table].cols, st.column, st.def)]
    BY <1>1, Zenon DEF Changed
  <1> QED
    BY <1>1, <1>2, <1>3, <1>4, ChangesOneTable DEF st, HasColumn

WithoutColumn(tab, c) ==
  [tab EXCEPT !.cols = Without(tab.cols, c), !.keys = {k \in tab.keys : c \notin k.on},
              !.fks = {f \in tab.fks : f.on # c}]

LEMMA DropColumnDoes ==
  ASSUME NEW s, NEW t, NEW c, Exec(s, DropColumn(t, c)) # Failed
  PROVE  /\ s # Failed /\ Has(s, t)
         /\ c \in DOMAIN s[t].cols
         /\ Exec(s, DropColumn(t, c)) =
              [s EXCEPT ![t] = WithoutColumn(s[t], c)]
  <1> DEFINE st == DropColumn(t, c)
  <1>1. st.op = "drop_column" /\ st.table = t /\ st.column = c
    BY DEF DropColumn
  <1> HIDE DEF st
  <1>2. st.op \notin WholeTable
    BY <1>1 DEF WholeTable
  <1>3. HasColumn(s, st.table, st.column)
    BY <1>1, <1>2, ChangesOneTable, Zenon DEF Possible, st
  <1>4. Changed(s, st) = WithoutColumn(s[st.table], st.column)
    BY <1>1, Zenon DEF Changed, WithoutColumn
  <1> QED
    BY <1>1, <1>2, <1>3, <1>4, ChangesOneTable DEF st, HasColumn

LEMMA AlterTypeDoes ==
  ASSUME NEW s, NEW t, NEW c, NEW type, Exec(s, AlterType(t, c, type)) # Failed
  PROVE  /\ s # Failed /\ Has(s, t)
         /\ c \in DOMAIN s[t].cols /\ ~ (s[t].cols[c].type = "text" /\ type = "uuid")
         /\ Exec(s, AlterType(t, c, type)) =
              [s EXCEPT ![t] = [s[t] EXCEPT !.cols[c].type = type]]
  <1> DEFINE st == AlterType(t, c, type)
  <1>1. st.op = "alter_type" /\ st.table = t /\ st.column = c /\ st.type = type
    BY DEF AlterType
  <1> HIDE DEF st
  <1>2. st.op \notin WholeTable
    BY <1>1 DEF WholeTable
  <1>3. /\ HasColumn(s, st.table, st.column)
        /\ LET old == s[st.table].cols[st.column].type
           IN \/ old = st.type
              \/ /\ ~ (old = "text" /\ st.type = "uuid")
                 /\ ~ ReferredTo(s, st.table, st.column)
    BY <1>1, <1>2, ChangesOneTable, Zenon DEF Possible, st
  <1>4. Changed(s, st) = [s[st.table] EXCEPT !.cols[st.column].type = st.type]
    BY <1>1, Zenon DEF Changed
  <1> QED
    BY <1>1, <1>2, <1>3, <1>4, ChangesOneTable DEF st, HasColumn

LEMMA AlterNullDoes ==
  ASSUME NEW s, NEW st, st.op = "alter_null", Exec(s, st) # Failed
  PROVE  /\ s # Failed /\ HasColumn(s, st.table, st.column)
         /\ Exec(s, st) =
              [s EXCEPT ![st.table] = [s[st.table] EXCEPT !.cols[st.column].null = st.null]]
  <1>1. st.op \notin WholeTable
    BY DEF WholeTable
  <1>2. HasColumn(s, st.table, st.column)
    BY <1>1, ChangesOneTable, Zenon DEF Possible
  <1>3. Changed(s, st) = [s[st.table] EXCEPT !.cols[st.column].null = st.null]
    BY Zenon DEF Changed
  <1> QED
    BY <1>1, <1>2, <1>3, ChangesOneTable

LEMMA RenameColumnDoes ==
  ASSUME NEW s, NEW t, NEW c, NEW d, Exec(s, RenameColumn(t, c, d)) # Failed
  PROVE  /\ s # Failed /\ Has(s, t)
         /\ c \in DOMAIN s[t].cols
         /\ Exec(s, RenameColumn(t, c, d)) =
              [s EXCEPT ![t] = [s[t] EXCEPT !.cols = Put(Without(s[t].cols, c), d, s[t].cols[c])]]
  <1> DEFINE st == RenameColumn(t, c, d)
  <1>1. st.op = "rename_column" /\ st.table = t /\ st.column = c /\ st.name = d
    BY DEF RenameColumn
  <1> HIDE DEF st
  <1>2. st.op \notin WholeTable
    BY <1>1 DEF WholeTable
  <1>3. HasColumn(s, st.table, st.column)
    BY <1>1, <1>2, ChangesOneTable, Zenon DEF Possible, st
  <1>4. Changed(s, st) =
           [s[st.table] EXCEPT !.cols = Put(Without(s[st.table].cols, st.column),
                                            st.name, s[st.table].cols[st.column])]
    BY <1>1, Zenon DEF Changed
  <1> QED
    BY <1>1, <1>2, <1>3, <1>4, ChangesOneTable DEF st, HasColumn

WithKey(tab, k) == [tab EXCEPT !.keys = tab.keys \cup {k}]

LEMMA CreateUniqueDoes ==
  ASSUME NEW s, NEW t, NEW c, Exec(s, CreateUnique(t, c)) # Failed
  PROVE  /\ s # Failed /\ Has(s, t)
         /\ c \in DOMAIN s[t].cols
         /\ Exec(s, CreateUnique(t, c)) =
              [s EXCEPT ![t] = WithKey(s[t], Key(KeyName(s, t, c), {c}))]
  <1> DEFINE st == CreateUnique(t, c)
  <1>1. st.op = "create_unique" /\ st.table = t /\ st.column = c
    BY DEF CreateUnique
  <1> HIDE DEF st
  <1>2. st.op \notin WholeTable
    BY <1>1 DEF WholeTable
  <1>3. HasColumn(s, st.table, st.column)
    BY <1>1, <1>2, ChangesOneTable, Zenon DEF Possible, st
  <1>4. Changed(s, st) = WithKey(s[st.table], Key(KeyName(s, st.table, st.column), {st.column}))
    BY <1>1, Zenon DEF Changed, WithKey
  <1> QED
    BY <1>1, <1>2, <1>3, <1>4, ChangesOneTable DEF st, HasColumn

LEMMA AddPrimaryKeyDoes ==
  ASSUME NEW s, NEW t, NEW c, Exec(s, AddPrimaryKey(t, c)) # Failed
  PROVE  /\ s # Failed /\ Has(s, t)
         /\ c \in DOMAIN s[t].cols
         /\ Exec(s, AddPrimaryKey(t, c)) =
              [s EXCEPT ![t] = WithKey(s[t], Key(PrimaryKeyOf(t), {c}))]
  <1> DEFINE st == AddPrimaryKey(t, c)
  <1>1. st.op = "add_primary_key" /\ st.table = t /\ st.column = c
    BY DEF AddPrimaryKey
  <1> HIDE DEF st
  <1>2. st.op \notin WholeTable
    BY <1>1 DEF WholeTable
  <1>3. HasColumn(s, st.table, st.column)
    BY <1>1, <1>2, ChangesOneTable, Zenon DEF Possible, st
  <1>4. Changed(s, st) = WithKey(s[st.table], Key(PrimaryKeyOf(st.table), {st.column}))
    BY <1>1, Zenon DEF Changed, WithKey
  <1> QED
    BY <1>1, <1>2, <1>3, <1>4, ChangesOneTable DEF st, HasColumn

LEMMA DropConstraintDoes ==
  ASSUME NEW s, NEW t, NEW name, Exec(s, DropConstraint(t, name)) # Failed
  PROVE  /\ s # Failed /\ Has(s, t)
         /\ Exec(s, DropConstraint(t, name)) =
              [s EXCEPT ![t] = [s[t] EXCEPT !.keys = {k \in s[t].keys : k.name # name}]]
  <1> DEFINE st == DropConstraint(t, name)
  <1>1. st.op = "drop_constraint" /\ st.table = t /\ st.name = name
    BY DEF DropConstraint
  <1> HIDE DEF st
  <1>2. st.op \notin WholeTable
    BY <1>1 DEF WholeTable
  <1>3. Has(s, st.table)
    BY <1>1, <1>2, ChangesOneTable, Zenon DEF Possible, st
  <1>4. Changed(s, st) = [s[st.table] EXCEPT !.keys = {k \in s[st.table].keys : k.name # st.name}]
    BY <1>1, Zenon DEF Changed
  <1> QED
    BY <1>1, <1>2, <1>3, <1>4, ChangesOneTable DEF st, HasColumn

LEMMA RenumberDoes ==
  ASSUME NEW s, NEW t, Exec(s, Renumber(t)) # Failed
  PROVE  /\ s # Failed
         /\ Exec(s, Renumber(t)) =
              [s EXCEPT ![t] = [s[t] EXCEPT !.rows =
                                   {[r EXCEPT !.id = "renumbered"] : r \in s[t].rows}]]
  <1> DEFINE st == Renumber(t)
  <1>1. st.op = "renumber" /\ st.table = t
    BY DEF Renumber
  <1> HIDE DEF st
  <1>2. st.op \notin WholeTable
    BY <1>1 DEF WholeTable
  <1>3. Changed(s, st) =
          [s[st.table] EXCEPT !.rows = {[r EXCEPT !.id = "renumbered"] : r \in s[st.table].rows}]
    BY <1>1, Zenon DEF Changed
  <1> QED
    BY <1>1, <1>2, <1>3, ChangesOneTable DEF st

LEMMA DropTablesDoes ==
  ASSUME NEW s, NEW ts, Exec(s, DropTables(ts)) # Failed
  PROVE  s # Failed /\ Exec(s, DropTables(ts)) = [u \in DOMAIN s \ ts |-> s[u]]
  <1> DEFINE st == DropTables(ts)
  <1>1. st.op = "drop_tables" /\ st.tables = ts
    BY DEF DropTables
  <1> HIDE DEF st
  <1>2. s # Failed /\ Exec(s, st) = [u \in DOMAIN s \ st.tables |-> s[u]]
    BY <1>1, Zenon DEF Exec, st
  <1> QED
    BY <1>1, <1>2 DEF st

-----------------------------------------------------------------------------
(* Statements that leave user alone, and tier and ratelimit in place.      *)

Kept == {"user", "tier", "ratelimit"}

HasTable(s, t) == Has(s, t) /\ "cols" \in DOMAIN s[t]

Aside(st) ==
  \/ st.op = "create_table" /\ st.table # "user"
  \/ st.op = "drop_table" /\ st.table \notin Kept
  \/ st.op = "drop_tables" /\ st.tables \cap Kept = {}
  \/ st.op \in {"alter_type", "alter_null"} /\ st.table # "user"

KeepsKept(s, after) == \A t \in Kept : HasTable(s, t) => HasTable(after, t)

Keeps(s, after) ==
  /\ KeepsKept(s, after)
  /\ Has(s, "user") => Has(after, "user")
  /\ Has(after, "user") => Has(s, "user") /\ after["user"] = s["user"]

LEMMA AsideKeeps ==
  ASSUME NEW s, NEW st, Aside(st), Exec(s, st) # Failed
  PROVE  s # Failed /\ Keeps(s, Exec(s, st))
  <1>1. CASE st.op = "create_table"
    <2>1. s # Failed /\ Possible(s, st) /\ Exec(s, st) = Put(s, st.table, st.def)
      BY <1>1, Zenon DEF Exec
    <2>2. ~ Has(s, st.table)
      BY <1>1, <2>1, Zenon DEF Possible
    <2> QED
      BY <1>1, <2>1, <2>2 DEF Aside, Keeps, KeepsKept, HasTable, Kept, Put, Has
  <1>2. CASE st.op = "drop_table"
    <2>1. s # Failed /\ Exec(s, st) = Without(s, st.table)
      BY <1>2, Zenon DEF Exec
    <2> QED
      BY <1>2, <2>1 DEF Aside, Keeps, KeepsKept, HasTable, Kept, Without, Has
  <1>3. CASE st.op = "drop_tables"
    <2>1. s # Failed /\ Exec(s, st) = [u \in DOMAIN s \ st.tables |-> s[u]]
      BY <1>3, Zenon DEF Exec
    <2> QED
      BY <1>3, <2>1 DEF Aside, Keeps, KeepsKept, HasTable, Kept, Has
  <1>4. CASE st.op \in {"alter_type", "alter_null"}
    <2>1. s # Failed /\ Exec(s, st) = [s EXCEPT ![st.table] = Changed(s, st)]
      BY <1>4, ChangesOneTable DEF WholeTable
    <2>2. \/ Changed(s, st) = [s[st.table] EXCEPT !.cols[st.column].type = st.type]
          \/ Changed(s, st) = [s[st.table] EXCEPT !.cols[st.column].null = st.null]
      <3>1. st.op = "alter_type" \/ st.op = "alter_null"
        BY <1>4
      <3> QED
        BY <3>1, Zenon DEF Changed
    <2>3. DOMAIN Changed(s, st) = DOMAIN s[st.table]
      BY <2>2
    <2> QED
      BY <1>4, <2>1, <2>3 DEF Aside, Keeps, KeepsKept, HasTable, Has
  <1> QED
    BY <1>1, <1>2, <1>3, <1>4 DEF Aside

LEMMA RunAside ==
  ASSUME NEW s, NEW statements, Len(statements) \in Nat,
         \A n \in 1..Len(statements) : Aside(statements[n]),
         Run(s, statements) # Failed
  PROVE  s # Failed /\ Keeps(s, Run(s, statements))
  <1>1. PICK after :
          /\ IsTrace(after, s, statements)
          /\ Run(s, statements) = after[Len(statements)]
    BY RunTrace
  <1> DEFINE Fine == {n \in Nat : n <= Len(statements) /\ after[n] # Failed
                                    => s # Failed /\ Keeps(s, after[n])}
  <1>2. 0 \in Fine
    BY <1>1 DEF IsTrace, Keeps, KeepsKept
  <1>3. ASSUME NEW n \in Nat, n \in Fine PROVE n + 1 \in Fine
    <2> SUFFICES ASSUME n + 1 <= Len(statements), after[n + 1] # Failed
                 PROVE  s # Failed /\ Keeps(s, after[n + 1])
      OBVIOUS
    <2>1. n + 1 \in 1..Len(statements)
      OBVIOUS
    <2>2. after[n + 1] = Exec(after[n], statements[n + 1])
      BY <1>1, <2>1 DEF IsTrace
    <2>3. after[n] # Failed /\ Keeps(after[n], after[n + 1])
      BY <2>1, <2>2, AsideKeeps
    <2>4. s # Failed /\ Keeps(s, after[n])
      BY <1>3, <2>1, <2>3
    <2> QED
      BY <2>3, <2>4 DEF Keeps, KeepsKept
  <1>4. Nat \subseteq Fine
    <2> HIDE DEF Fine
    <2> QED
      BY <1>2, <1>3, Induction
  <1> QED
    BY <1>1, <1>4

-----------------------------------------------------------------------------
(* The table user through statements on it: its columns, keys and rows     *)
(* before and after, all other tables staying where they are.              *)

UserFields == {"cols", "keys", "fks", "rows"}

UserIs(s, cols, keys, rows) ==
  /\ Has(s, "user") /\ DOMAIN s["user"] = UserFields
  /\ s["user"].cols = cols /\ s["user"].keys = keys /\ s["user"].rows = rows

LEMMA AsideOfUser ==
  ASSUME NEW s, NEW st, NEW cols, NEW keys, NEW rows, Aside(st), Exec(s, st) # Failed,
         UserIs(s, cols, keys, rows)
  PROVE  UserIs(Exec(s, st), cols, keys, rows) /\ KeepsKept(s, Exec(s, st))
  BY AsideKeeps DEF UserIs, Keeps

(* The table user after a statement that replaced it.                      *)
LEMMA UserReplaced ==
  ASSUME NEW s, NEW tab, Has(s, "user"), DOMAIN tab = UserFields
  PROVE  LET after == [s EXCEPT !["user"] = tab]
         IN UserIs(after, tab.cols, tab.keys, tab.rows) /\ KeepsKept(s, after)
  BY DEF UserIs, KeepsKept, HasTable, Has, UserFields

LEMMA UserAddColumn ==
  ASSUME NEW s, NEW c, NEW col, NEW cols, NEW keys, NEW rows,
         Exec(s, AddColumn("user", c, col)) # Failed, UserIs(s, cols, keys, rows)
  PROVE  LET after == Exec(s, AddColumn("user", c, col))
         IN /\ UserIs(after, Put(cols, c, col), keys, rows)
            /\ KeepsKept(s, after)
            /\ c \notin DOMAIN cols /\ (col.null \/ rows = {})
  <1> DEFINE tab == [s["user"] EXCEPT !.cols = Put(s["user"].cols, c, col)]
  <1>1. /\ Has(s, "user") /\ DOMAIN s["user"] = UserFields
        /\ s["user"].cols = cols /\ s["user"].keys = keys /\ s["user"].rows = rows
    BY DEF UserIs
  <1>2. /\ Exec(s, AddColumn("user", c, col)) = [s EXCEPT !["user"] = tab]
        /\ c \notin DOMAIN s["user"].cols /\ (col.null \/ s["user"].rows = {})
    BY AddColumnDoes
  <1>3. DOMAIN tab = UserFields
    BY <1>1
  <1>4. tab.cols = Put(cols, c, col)
    BY <1>1 DEF UserFields
  <1>5. tab.keys = keys
    BY <1>1 DEF UserFields
  <1>6. tab.rows = rows
    BY <1>1 DEF UserFields
  <1> HIDE DEF tab
  <1> QED
    BY <1>1, <1>2, <1>3, <1>4, <1>5, <1>6, UserReplaced

LEMMA UserDropColumn ==
  ASSUME NEW s, NEW c, NEW cols, NEW keys, NEW rows,
         Exec(s, DropColumn("user", c)) # Failed, UserIs(s, cols, keys, rows)
  PROVE  LET after == Exec(s, DropColumn("user", c))
         IN /\ UserIs(after, Without(cols, c), {k \in keys : c \notin k.on}, rows)
            /\ KeepsKept(s, after)
  <1> DEFINE tab == WithoutColumn(s["user"], c)
  <1>1. /\ Has(s, "user") /\ DOMAIN s["user"] = UserFields
        /\ s["user"].cols = cols /\ s["user"].keys = keys /\ s["user"].rows = rows
    BY DEF UserIs
  <1>2. /\ Exec(s, DropColumn("user", c)) = [s EXCEPT !["user"] = tab]
    BY DropColumnDoes
  <1>3. DOMAIN tab = UserFields
    BY <1>1 DEF UserFields, WithoutColumn
  <1>4. tab.cols = Without(cols, c)
    BY <1>1 DEF UserFields, WithoutColumn
  <1>5. tab.keys = {k \in keys : c \notin k.on}
    BY <1>1 DEF UserFields, WithoutColumn
  <1>6. tab.rows = rows
    BY <1>1 DEF UserFields, WithoutColumn
  <1> HIDE DEF tab
  <1>7. /\ UserIs(Exec(s, DropColumn("user", c)), tab.cols, tab.keys, tab.rows)
        /\ KeepsKept(s, Exec(s, DropColumn("user", c)))
    BY <1>1, <1>2, <1>3, UserReplaced
  <1> QED
    BY <1>4, <1>5, <1>6, <1>7, Zenon

LEMMA UserAlterType ==
  ASSUME NEW s, NEW c, NEW type, NEW col, NEW cols, NEW keys, NEW rows,
         Exec(s, AlterType("user", c, type)) # Failed, UserIs(s, cols, keys, rows),
         cols = [d \in DOMAIN cols |-> cols[d]], [cols[c] EXCEPT !.type = type] = col
  PROVE  LET after == Exec(s, AlterType("user", c, type))
         IN /\ UserIs(after, Put(cols, c, col), keys, rows)
            /\ KeepsKept(s, after)
            /\ c \in DOMAIN cols
            /\ ~ (cols[c].type = "text" /\ type = "uuid")
  <1> DEFINE tab == [s["user"] EXCEPT !.cols[c].type = type]
  <1>1. /\ Has(s, "user") /\ DOMAIN s["user"] = UserFields
        /\ s["user"].cols = cols /\ s["user"].keys = keys /\ s["user"].rows = rows
    BY DEF UserIs
  <1>2. /\ Exec(s, AlterType("user", c, type)) = [s EXCEPT !["user"] = tab]
        /\ c \in DOMAIN s["user"].cols /\ ~ (s["user"].cols[c].type = "text" /\ type = "uuid")
    BY AlterTypeDoes
  <1>3. DOMAIN tab = UserFields
    BY <1>1
  <1>4. tab.cols = Put(cols, c, col)
    <2>1. tab.cols = [cols EXCEPT ![c].type = type]
      BY <1>1 DEF UserFields
    <2>2. [cols EXCEPT ![c].type = type] = [cols EXCEPT ![c] = [cols[c] EXCEPT !.type = type]]
      OBVIOUS
    <2>3. c \in DOMAIN cols
      BY <1>1, <1>2
    <2>4. [cols EXCEPT ![c] = col] = Put(cols, c, col)
      BY <2>3 DEF Put
    <2> QED
      BY <2>1, <2>2, <2>4
  <1>5. tab.keys = keys
    BY <1>1 DEF UserFields
  <1>6. tab.rows = rows
    BY <1>1 DEF UserFields
  <1> HIDE DEF tab
  <1> QED
    BY <1>1, <1>2, <1>3, <1>4, <1>5, <1>6, UserReplaced

LEMMA UserAlterNull ==
  ASSUME NEW s, NEW st, NEW c, NEW col, NEW cols, NEW keys, NEW rows,
         st.op = "alter_null", st.table = "user", st.column = c,
         Exec(s, st) # Failed, UserIs(s, cols, keys, rows),
         cols = [d \in DOMAIN cols |-> cols[d]], [cols[c] EXCEPT !.null = st.null] = col
  PROVE  LET after == Exec(s, st)
         IN /\ UserIs(after, Put(cols, c, col), keys, rows)
            /\ KeepsKept(s, after)
  <1> DEFINE tab == [s["user"] EXCEPT !.cols[c].null = st.null]
  <1>1. /\ Has(s, "user") /\ DOMAIN s["user"] = UserFields
        /\ s["user"].cols = cols /\ s["user"].keys = keys /\ s["user"].rows = rows
    BY DEF UserIs
  <1>2. /\ Exec(s, st) = [s EXCEPT !["user"] = tab]
        /\ c \in DOMAIN s["user"].cols
    <2>1. /\ Exec(s, st) =
               [s EXCEPT ![st.table] = [s[st.table] EXCEPT !.cols[st.column].null = st.null]]
          /\ HasColumn(s, st.table, st.column)
      BY AlterNullDoes
    <2> QED
      BY <2>1 DEF HasColumn
  <1>3. DOMAIN tab = UserFields
    BY <1>1
  <1>4. tab.cols = Put(cols, c, col)
    <2>1. tab.cols = [cols EXCEPT ![c].null = st.null]
      BY <1>1 DEF UserFields
    <2>2. [cols EXCEPT ![c].null = st.null] = [cols EXCEPT ![c] = [cols[c] EXCEPT !.null = st.null]]
      OBVIOUS
    <2>3. c \in DOMAIN cols
      BY <1>1, <1>2
    <2>4. [cols EXCEPT ![c] = col] = Put(cols, c, col)
      BY <2>3 DEF Put
    <2> QED
      BY <2>1, <2>2, <2>4
  <1>5. tab.keys = keys
    BY <1>1 DEF UserFields
  <1>6. tab.rows = rows
    BY <1>1 DEF UserFields
  <1> HIDE DEF tab
  <1>7. UserIs(Exec(s, st), tab.cols, tab.keys, tab.rows) /\ KeepsKept(s, Exec(s, st))
    <2> DEFINE after == [s EXCEPT !["user"] = tab]
    <2>1. UserIs(after, tab.cols, tab.keys, tab.rows) /\ KeepsKept(s, after)
      BY <1>1, <1>3, UserReplaced
    <2>2. Exec(s, st) = after
      BY <1>2
    <2> HIDE DEF after
    <2> QED
      BY <2>1, <2>2
  <1> QED
    BY <1>4, <1>5, <1>6, <1>7, Zenon

(* Columns given another type, and made optional or required.              *)
LEMMA ColumnFields ==
  \A t : /\ DOMAIN Req(t) = {"type", "null"} /\ Req(t)["type"] = t
         /\ Req(t) = [x \in DOMAIN Req(t) |-> Req(t)[x]]
         /\ DOMAIN Opt(t) = {"type", "null"} /\ Opt(t)["type"] = t
         /\ Opt(t) = [x \in DOMAIN Opt(t) |-> Opt(t)[x]]
  BY DEF Req, Opt

LEMMA SameNull ==
  \A t, u : Req(t).null = Req(u).null /\ Opt(t).null = Opt(u).null
  BY DEF Req, Opt

LEMMA Altered ==
  /\ \A t, u : [Req(t) EXCEPT !.type = u] = Req(u) /\ [Opt(t) EXCEPT !.type = u] = Opt(u)
  /\ \A t, n : n = Opt(t).null => [Req(t) EXCEPT !.null = n] = Opt(t)
  /\ \A t, n : n = Req(t).null => [Opt(t) EXCEPT !.null = n] = Req(t)
  BY ColumnFields, SameNull

LEMMA UserRenameColumn ==
  ASSUME NEW s, NEW c, NEW d, NEW cols, NEW keys, NEW rows,
         Exec(s, RenameColumn("user", c, d)) # Failed, UserIs(s, cols, keys, rows)
  PROVE  LET after == Exec(s, RenameColumn("user", c, d))
         IN /\ UserIs(after, Put(Without(cols, c), d, cols[c]), keys, rows)
            /\ KeepsKept(s, after)
  <1> DEFINE tab == [s["user"] EXCEPT !.cols =
                       Put(Without(s["user"].cols, c), d, s["user"].cols[c])]
  <1>1. /\ Has(s, "user") /\ DOMAIN s["user"] = UserFields
        /\ s["user"].cols = cols /\ s["user"].keys = keys /\ s["user"].rows = rows
    BY DEF UserIs
  <1>2. /\ Exec(s, RenameColumn("user", c, d)) = [s EXCEPT !["user"] = tab]
    BY RenameColumnDoes
  <1>3. DOMAIN tab = UserFields
    BY <1>1
  <1>4. tab.cols = Put(Without(cols, c), d, cols[c])
    BY <1>1 DEF UserFields
  <1>5. tab.keys = keys
    BY <1>1 DEF UserFields
  <1>6. tab.rows = rows
    BY <1>1 DEF UserFields
  <1> HIDE DEF tab
  <1> QED
    BY <1>1, <1>2, <1>3, <1>4, <1>5, <1>6, UserReplaced

LEMMA UserCreateUnique ==
  ASSUME NEW s, NEW c, NEW cols, NEW keys, NEW rows,
         Exec(s, CreateUnique("user", c)) # Failed, UserIs(s, cols, keys, rows)
  PROVE  LET after == Exec(s, CreateUnique("user", c))
         IN /\ UserIs(after, cols, keys \cup {Key(KeyName(s, "user", c), {c})}, rows)
            /\ KeepsKept(s, after)
  <1> DEFINE tab == WithKey(s["user"], Key(KeyName(s, "user", c), {c}))
  <1>1. /\ Has(s, "user") /\ DOMAIN s["user"] = UserFields
        /\ s["user"].cols = cols /\ s["user"].keys = keys /\ s["user"].rows = rows
    BY DEF UserIs
  <1>2. /\ Exec(s, CreateUnique("user", c)) = [s EXCEPT !["user"] = tab]
    BY CreateUniqueDoes
  <1>3. DOMAIN tab = UserFields
    BY <1>1 DEF UserFields, WithKey
  <1>4. tab.cols = cols
    BY <1>1 DEF UserFields, WithKey
  <1>5. tab.keys = keys \cup {Key(KeyName(s, "user", c), {c})}
    BY <1>1 DEF UserFields, WithKey
  <1>6. tab.rows = rows
    BY <1>1 DEF UserFields, WithKey
  <1> HIDE DEF tab
  <1> QED
    BY <1>1, <1>2, <1>3, <1>4, <1>5, <1>6, UserReplaced

LEMMA UserAddPrimaryKey ==
  ASSUME NEW s, NEW c, NEW cols, NEW keys, NEW rows,
         Exec(s, AddPrimaryKey("user", c)) # Failed, UserIs(s, cols, keys, rows)
  PROVE  LET after == Exec(s, AddPrimaryKey("user", c))
         IN /\ UserIs(after, cols, keys \cup {Key(PrimaryKeyOf("user"), {c})}, rows)
            /\ KeepsKept(s, after)
  <1> DEFINE tab == WithKey(s["user"], Key(PrimaryKeyOf("user"), {c}))
  <1>1. /\ Has(s, "user") /\ DOMAIN s["user"] = UserFields
        /\ s["user"].cols = cols /\ s["user"].keys = keys /\ s["user"].rows = rows
    BY DEF UserIs
  <1>2. /\ Exec(s, AddPrimaryKey("user", c)) = [s EXCEPT !["user"] = tab]
    BY AddPrimaryKeyDoes
  <1>3. DOMAIN tab = UserFields
    BY <1>1 DEF UserFields, WithKey
  <1>4. tab.cols = cols
    BY <1>1 DEF UserFields, WithKey
  <1>5. tab.keys = keys \cup {Key(PrimaryKeyOf("user"), {c})}
    BY <1>1 DEF UserFields, WithKey
  <1>6. tab.rows = rows
    BY <1>1 DEF UserFields, WithKey
  <1> HIDE DEF tab
  <1>7. /\ UserIs(Exec(s, AddPrimaryKey("user", c)), tab.cols, tab.keys, tab.rows)
        /\ KeepsKept(s, Exec(s, AddPrimaryKey("user", c)))
    BY <1>1, <1>2, <1>3, UserReplaced
  <1> QED
    BY <1>4, <1>5, <1>6, <1>7, Zenon

LEMMA UserDropConstraint ==
  ASSUME NEW s, NEW name, NEW cols, NEW keys, NEW rows,
         Exec(s, DropConstraint("user", name)) # Failed, UserIs(s, cols, keys, rows)
  PROVE  LET after == Exec(s, DropConstraint("user", name))
         IN /\ UserIs(after, cols, {k \in keys : k.name # name}, rows)
            /\ KeepsKept(s, after)
  <1> DEFINE tab == [s["user"] EXCEPT !.keys = {k \in s["user"].keys : k.name # name}]
  <1>1. /\ Has(s, "user") /\ DOMAIN s["user"] = UserFields
        /\ s["user"].cols = cols /\ s["user"].keys = keys /\ s["user"].rows = rows
    BY DEF UserIs
  <1>2. /\ Exec(s, DropConstraint("user", name)) = [s EXCEPT !["user"] = tab]
    BY DropConstraintDoes
  <1>3. DOMAIN tab = UserFields
    BY <1>1
  <1>4. tab.cols = cols
    BY <1>1 DEF UserFields
  <1>5. tab.keys = {k \in keys : k.name # name}
    BY <1>1 DEF UserFields
  <1>6. tab.rows = rows
    BY <1>1 DEF UserFields
  <1> HIDE DEF tab
  <1>7. /\ UserIs(Exec(s, DropConstraint("user", name)), tab.cols, tab.keys, tab.rows)
        /\ KeepsKept(s, Exec(s, DropConstraint("user", name)))
    BY <1>1, <1>2, <1>3, UserReplaced
  <1> QED
    BY <1>4, <1>5, <1>6, <1>7, Zenon

LEMMA UserRenumber ==
  ASSUME NEW s, NEW cols, NEW keys, NEW rows,
         Exec(s, Renumber("user")) # Failed, UserIs(s, cols, keys, rows)
  PROVE  LET after == Exec(s, Renumber("user"))
         IN /\ UserIs(after, cols, keys, {[r EXCEPT !.id = "renumbered"] : r \in rows})
            /\ KeepsKept(s, after)
  <1> DEFINE tab == [s["user"] EXCEPT !.rows =
                       {[r EXCEPT !.id = "renumbered"] : r \in s["user"].rows}]
  <1>1. /\ Has(s, "user") /\ DOMAIN s["user"] = UserFields
        /\ s["user"].cols = cols /\ s["user"].keys = keys /\ s["user"].rows = rows
    BY DEF UserIs
  <1>2. /\ Exec(s, Renumber("user")) = [s EXCEPT !["user"] = tab]
    BY RenumberDoes
  <1>3. DOMAIN tab = UserFields
    BY <1>1
  <1>4. tab.cols = cols
    BY <1>1 DEF UserFields
  <1>5. tab.keys = keys
    BY <1>1 DEF UserFields
  <1>6. tab.rows = {[r EXCEPT !.id = "renumbered"] : r \in rows}
    BY <1>1 DEF UserFields
  <1> HIDE DEF tab
  <1>7. /\ UserIs(Exec(s, Renumber("user")), tab.cols, tab.keys, tab.rows)
        /\ KeepsKept(s, Exec(s, Renumber("user")))
    BY <1>1, <1>2, <1>3, UserReplaced
  <1> QED
    BY <1>4, <1>5, <1>6, <1>7, Zenon

-----------------------------------------------------------------------------
(* The columns of user at each stamp, by the place of the revisions.       *)

LEMMA ReachedByPlace ==
  ASSUME NEW i \in Stamp, NEW n \in 1..25
  PROVE  Reached(i, Chain[n]) <=> i >= n
  <1>1. Len(Chain) = 25
    BY DEF Chain
  <1>2. \A m \in 1..25 : Chain[m] = Chain[n] => m = n
    BY DEF Chain
  <1>3. i \in 0..25
    BY <1>1 DEF Stamp
  <1> HIDE DEF Chain
  <1> QED
    BY <1>2, <1>3 DEF Reached

LEMMA StampNumbers == Stamp = 0..25 /\ HeadStamp = 25
  BY DEF Stamp, HeadStamp, Chain

Always ==
  {"name", "username", "email", "profile_image_url", "is_superuser", "is_deleted",
   "id", "created_at", "updated_at", "deleted_at"}

LEMMA ColumnSet ==
  ASSUME NEW i \in Stamp
  PROVE  /\ ColumnsAt(i) = [c \in DOMAIN ColumnsAt(i) |-> ColumnsAt(i)[c]]
         /\ DOMAIN ColumnsAt(i) =
              Always \cup (IF i < 4 \/ i >= 7 THEN {"uuid"} ELSE {})
                     \cup (IF i < 14 THEN {"hashed_password"} ELSE {})
                     \cup (IF i < 24 THEN {"tier_id"} ELSE {})
  <1>1. i \in 0..25
    BY StampNumbers
  <1>2. /\ Reached(i, "5c0e43231c13") <=> i >= 4
        /\ Reached(i, "8b8e624d3a28") <=> i >= 7
        /\ Reached(i, "bd840a3fc487") <=> i >= 14
        /\ Reached(i, "40be74e6375e") <=> i >= 24
    <2>1. /\ Chain[4] = "5c0e43231c13" /\ Chain[7] = "8b8e624d3a28"
          /\ Chain[14] = "bd840a3fc487" /\ Chain[24] = "40be74e6375e"
      BY DEF Chain
    <2> HIDE DEF Chain, Reached
    <2> QED
      BY <2>1, ReachedByPlace
  <1>3. ColumnsAt(i) = [c \in DOMAIN ColumnsAt(i) |-> ColumnsAt(i)[c]]
    BY Zenon DEF ColumnsAt
  <1>4. DOMAIN ColumnsAt(i) =
          Always \cup (IF Reached(i, "5c0e43231c13") /\ ~ Reached(i, "8b8e624d3a28")
                       THEN {} ELSE {"uuid"})
                 \cup (IF Reached(i, "bd840a3fc487") THEN {} ELSE {"hashed_password"})
                 \cup (IF Reached(i, "40be74e6375e") THEN {} ELSE {"tier_id"})
    BY Zenon DEF ColumnsAt, Always
  <1> QED
    BY <1>1, <1>2, <1>3, <1>4

LEMMA ColumnTypes ==
  ASSUME NEW i \in Stamp
  PROVE  /\ ColumnsAt(i)["id"] =
              Req(IF i >= 19 THEN "text" ELSE IF i >= 9 THEN "uuid" ELSE "int")
         /\ "uuid" \in DOMAIN ColumnsAt(i) =>
              ColumnsAt(i)["uuid"] = Req(IF i >= 16 THEN "text" ELSE "uuid")
         /\ ColumnsAt(i)["created_at"] =
              IF i >= 8 THEN Opt("timetz")
              ELSE IF i = 6 THEN Req("timetz") ELSE Req("time")
         /\ \A c \in {"updated_at", "deleted_at"} :
              ColumnsAt(i)[c] = Opt(IF i >= 17 THEN "timetz" ELSE "time")
         /\ "tier_id" \in DOMAIN ColumnsAt(i) => ColumnsAt(i)["tier_id"] = Opt("int")
         /\ "hashed_password" \in DOMAIN ColumnsAt(i) =>
              ColumnsAt(i)["hashed_password"] = Req("text")
         /\ \A c \in {"is_superuser", "is_deleted"} : ColumnsAt(i)[c] = Req("bool")
         /\ \A c \in {"name", "username", "email", "profile_image_url"} :
              ColumnsAt(i)[c] = Req("text")
  <1>1. i \in 0..25
    BY StampNumbers
  <1>2. /\ Reached(i, "8b8e624d3a28") <=> i >= 7
        /\ Reached(i, "3ecb4e9492d0") <=> i >= 8
        /\ Reached(i, "a537e639c8a5") <=> i >= 6
        /\ Reached(i, "bca954b13aff") <=> i >= 17
        /\ Reached(i, "b7ec49f8797d") <=> i >= 19
        /\ Reached(i, "623ef1e66179") <=> i >= 9
        /\ Reached(i, "075f641caa2e") <=> i >= 16
    <2>1. /\ Chain[7] = "8b8e624d3a28" /\ Chain[8] = "3ecb4e9492d0"
          /\ Chain[6] = "a537e639c8a5" /\ Chain[17] = "bca954b13aff"
          /\ Chain[19] = "b7ec49f8797d" /\ Chain[9] = "623ef1e66179"
          /\ Chain[16] = "075f641caa2e"
      BY DEF Chain
    <2> HIDE DEF Chain, Reached
    <2> QED
      BY <2>1, ReachedByPlace
  <1>3. ColumnsAt(i)["id"] =
          Req(IF Reached(i, "b7ec49f8797d") THEN "text"
              ELSE IF Reached(i, "623ef1e66179") THEN "uuid" ELSE "int")
    BY Zenon DEF ColumnsAt
  <1>4. "uuid" \in DOMAIN ColumnsAt(i) =>
          ColumnsAt(i)["uuid"] = Req(IF Reached(i, "075f641caa2e") THEN "text" ELSE "uuid")
    BY Zenon DEF ColumnsAt
  <1>5. ColumnsAt(i)["created_at"] =
          IF Reached(i, "3ecb4e9492d0") THEN Opt("timetz")
          ELSE IF Reached(i, "a537e639c8a5") /\ ~ Reached(i, "8b8e624d3a28") THEN Req("timetz")
          ELSE Req("time")
    BY Zenon DEF ColumnsAt
  <1>6. /\ ColumnsAt(i)["updated_at"] = Opt(IF Reached(i, "bca954b13aff") THEN "timetz" ELSE "time")
        /\ ColumnsAt(i)["deleted_at"] = Opt(IF Reached(i, "bca954b13aff") THEN "timetz" ELSE "time")
    BY Zenon DEF ColumnsAt
  <1>7. "tier_id" \in DOMAIN ColumnsAt(i) => ColumnsAt(i)["tier_id"] = Opt("int")
    BY Zenon DEF ColumnsAt
  <1>8. "hashed_password" \in DOMAIN ColumnsAt(i) => ColumnsAt(i)["hashed_password"] = Req("text")
    BY Zenon DEF ColumnsAt
  <1>9. ColumnsAt(i)["is_superuser"] = Req("bool") /\ ColumnsAt(i)["is_deleted"] = Req("bool")
    BY Zenon DEF ColumnsAt
  <1>10. /\ ColumnsAt(i)["name"] = Req("text") /\ ColumnsAt(i)["username"] = Req("text")
         /\ ColumnsAt(i)["email"] = Req("text") /\ ColumnsAt(i)["profile_image_url"] = Req("text")
    BY Zenon DEF ColumnsAt
  <1> QED
    BY <1>1, <1>2, <1>3, <1>4, <1>5, <1>6, <1>7, <1>8, <1>9, <1>10

(* The same of any map f, which makes it ColumnsAt(i).                     *)
IsColumns(f, i) ==
  /\ f = [c \in DOMAIN f |-> f[c]]
  /\ DOMAIN f = Always \cup (IF i < 4 \/ i >= 7 THEN {"uuid"} ELSE {})
                     \cup (IF i < 14 THEN {"hashed_password"} ELSE {})
                     \cup (IF i < 24 THEN {"tier_id"} ELSE {})
  /\ f["id"] = Req(IF i >= 19 THEN "text" ELSE IF i >= 9 THEN "uuid" ELSE "int")
  /\ "uuid" \in DOMAIN f => f["uuid"] = Req(IF i >= 16 THEN "text" ELSE "uuid")
  /\ f["created_at"] =
       IF i >= 8 THEN Opt("timetz") ELSE IF i = 6 THEN Req("timetz") ELSE Req("time")
  /\ \A c \in {"updated_at", "deleted_at"} : f[c] = Opt(IF i >= 17 THEN "timetz" ELSE "time")
  /\ "tier_id" \in DOMAIN f => f["tier_id"] = Opt("int")
  /\ "hashed_password" \in DOMAIN f => f["hashed_password"] = Req("text")
  /\ \A c \in {"is_superuser", "is_deleted"} : f[c] = Req("bool")
  /\ \A c \in {"name", "username", "email", "profile_image_url"} : f[c] = Req("text")

LEMMA ColumnsAreColumns == \A i \in Stamp : IsColumns(ColumnsAt(i), i)
  BY ColumnSet, ColumnTypes, Zenon DEF IsColumns

LEMMA ColumnsOfStamp ==
  ASSUME NEW i \in Stamp, NEW f, IsColumns(f, i)
  PROVE  f = ColumnsAt(i)
  <1> DEFINE g == ColumnsAt(i)
  <1>1. IsColumns(g, i)
    BY ColumnsAreColumns
  <1> HIDE DEF g
  <1>2. DOMAIN f = DOMAIN g
    BY <1>1 DEF IsColumns
  <1>3. ASSUME NEW c \in DOMAIN f PROVE f[c] = g[c]
    <2>1. c \in Always \cup {"uuid", "hashed_password", "tier_id"}
      BY DEF IsColumns
    <2> QED
      BY <1>1, <1>2, <2>1 DEF IsColumns, Always
  <1>4. f = [c \in DOMAIN f |-> f[c]] /\ g = [c \in DOMAIN g |-> g[c]]
    BY <1>1 DEF IsColumns
  <1>5. f = g
    BY <1>2, <1>3, <1>4
  <1> QED
    BY <1>5 DEF g

(* The model of the application has the columns of the last two stamps.    *)
LEMMA ModelColumns == IsColumns(ModelTable.user.cols, 24) /\ IsColumns(ModelTable.user.cols, 25)
  <1> DEFINE f == ModelTable.user.cols
  <1>1. /\ f = [c \in DOMAIN f |-> f[c]]
        /\ DOMAIN f = Always \cup {"uuid"}
    BY DEF ModelTable, Table, Always
  <1>2. /\ f["id"] = Req("text") /\ f["uuid"] = Req("text") /\ f["name"] = Req("text")
        /\ f["username"] = Req("text") /\ f["email"] = Req("text")
        /\ f["profile_image_url"] = Req("text")
        /\ f["is_superuser"] = Req("bool") /\ f["is_deleted"] = Req("bool")
        /\ f["created_at"] = Opt("timetz") /\ f["updated_at"] = Opt("timetz")
        /\ f["deleted_at"] = Opt("timetz")
    BY DEF ModelTable, Table
  <1> HIDE DEF f
  <1>3. IsColumns(f, 24) /\ IsColumns(f, 25)
    BY <1>1, <1>2 DEF IsColumns, Always
  <1> QED
    BY <1>3 DEF f

-----------------------------------------------------------------------------
(* What a schema at stamp i is known to be.  One of user's keys is on its  *)
(* address from revision 15 on, and in the table the application makes.    *)

EmailKept(keys) == \E k \in keys : k.on = {"email"}

OnePerAddress(rows) == \A r, q \in rows : r.email = q.email => r = q

FitsUser(tab, i) ==
  /\ DOMAIN tab = UserFields
  /\ IF i = 0 THEN tab.cols = ModelTable.user.cols ELSE IsColumns(tab.cols, i)
  /\ i = 0 \/ i >= 15 => EmailKept(tab.keys)
  /\ OnePerAddress(tab.rows)

Fits(s, i) ==
  /\ i \in 1..25 => HasTable(s, "tier") /\ HasTable(s, "ratelimit")
  /\ i \in 1..23 => Has(s, "user")
  /\ Has(s, "user") => FitsUser(s["user"], i)
  /\ i = 25 => \A t \in Models : Has(s, t) /\ [s[t] EXCEPT !.rows = {}] = ModelTable[t]

(* A revision on the way from a schema s to stamp j.                       *)
Moves(s, after, j) == Fits(after, j) /\ Rows(after, "user") = Rows(s, "user")

LEMMA UserOfFits ==
  ASSUME NEW i \in 1..25, NEW s, Fits(s, i), Has(s, "user")
  PROVE  /\ UserIs(s, s["user"].cols, s["user"].keys, s["user"].rows)
         /\ IsColumns(s["user"].cols, i)
         /\ i >= 15 => EmailKept(s["user"].keys)
  BY DEF Fits, FitsUser, UserIs

LEMMA EmailKeyKept ==
  ASSUME NEW keys
  PROVE  /\ \A name : EmailKept(keys \cup {Key(name, {"email"})})
         /\ \A k : EmailKept(keys) => EmailKept(keys \cup {k})
         /\ \A c : c # "email" /\ EmailKept(keys) => EmailKept({k \in keys : c \notin k.on})
  <1>1. ASSUME NEW name PROVE EmailKept(keys \cup {Key(name, {"email"})})
    <2>1. Key(name, {"email"}).on = {"email"}
      BY DEF Key
    <2> QED
      BY <2>1 DEF EmailKept
  <1>2. \A k : EmailKept(keys) => EmailKept(keys \cup {k})
    BY DEF EmailKept
  <1>3. \A c : c # "email" /\ EmailKept(keys) => EmailKept({k \in keys : c \notin k.on})
    BY DEF EmailKept
  <1> QED
    BY <1>1, <1>2, <1>3

LEMMA UserMoves ==
  ASSUME NEW i \in 1..24, NEW j \in 1..24, NEW s, NEW after,
         NEW cols, NEW keys, Fits(s, i), Has(s, "user"),
         UserIs(after, cols, keys, s["user"].rows), IsColumns(cols, j),
         j >= 15 => EmailKept(keys), KeepsKept(s, after)
  PROVE  Moves(s, after, j)
  BY DEF Fits, FitsUser, UserIs, KeepsKept, Kept, Moves, Rows

(* The statements about other tables.                                      *)
LEMMA AsideStatements ==
  /\ Aside(drop_tokenblacklist) /\ Aside(create_tokenblacklist)
  /\ Aside(DropTable("post")) /\ Aside(DropTable("timelog"))
  /\ \A def : Aside(CreateTable("post", def)) /\ Aside(CreateTable("timelog", def))
  /\ Aside(AlterNull("tier", "created_at", TRUE))
  /\ Aside(AlterNull("tier", "created_at", FALSE))
  /\ \A c, type : Aside(AlterType("tier", c, type))
  /\ Aside(DropTables(UuidTables))
  BY DEF Aside, Kept, drop_tokenblacklist, create_tokenblacklist, DropTable, CreateTable,
         AlterNull, AlterType, DropTables, UuidTables

(* Revisions of other tables alone, and those that do nothing.             *)
LEMMA AsideMoves ==
  ASSUME NEW i \in 1..23, NEW j \in 1..23, NEW s, NEW statements,
         Fits(s, i), \A f : IsColumns(f, i) => IsColumns(f, j), j >= 15 => i >= 15,
         Len(statements) \in Nat, \A n \in 1..Len(statements) : Aside(statements[n]),
         Run(s, statements) # Failed
  PROVE  Moves(s, Run(s, statements), j)
  <1>1. Has(s, "user")
    BY DEF Fits
  <1>2. Keeps(s, Run(s, statements))
    BY RunAside
  <1>0. i \in 1..25 /\ i \in 1..24 /\ j \in 1..24
    OBVIOUS
  <1>3. UserIs(s, s["user"].cols, s["user"].keys, s["user"].rows)
    BY <1>0, <1>1, UserOfFits
  <1> DEFINE after == Run(s, statements)
  <1>4. Has(after, "user") /\ after["user"] = s["user"] /\ KeepsKept(s, after)
    BY <1>1, <1>2 DEF Keeps
  <1> HIDE DEF after
  <1>5. UserIs(after, s["user"].cols, s["user"].keys, s["user"].rows)
    BY <1>3, <1>4 DEF UserIs
  <1>6. IsColumns(s["user"].cols, j) /\ (j >= 15 => EmailKept(s["user"].keys))
    BY <1>0, <1>1, UserOfFits
  <1>7. Moves(s, after, j)
    BY <1>0, <1>1, <1>4, <1>5, <1>6, UserMoves
  <1> QED
    BY <1>7 DEF after


-----------------------------------------------------------------------------
(* The upgrades that change user.                                          *)

LEMMA Upgrade2 ==
  ASSUME NEW s, Fits(s, 1), Run(s, upgrade_75bcf320385f) # Failed
  PROVE  Moves(s, Run(s, upgrade_75bcf320385f), 2)
  <1> DEFINE cols == s["user"].cols
             keys == s["user"].keys
             rows == s["user"].rows
             keys1 == keys \cup {Key(KeyName(s, "user", "id"), {"id"})}
             s1 == Exec(s, CreateUnique("user", "id"))
  <1>1. Run(s, upgrade_75bcf320385f) = s1
    BY RunOne DEF upgrade_75bcf320385f
  <1>2. s1 # Failed
    BY <1>1, NotAfterFailure
  <1>3. Has(s, "user")
    BY DEF Fits
  <1>4. UserIs(s, cols, keys, rows) /\ IsColumns(cols, 1)
    BY <1>3, UserOfFits
  <1>5. UserIs(s1, cols, keys1, rows) /\ KeepsKept(s, s1)
    BY <1>2, <1>4, UserCreateUnique
  <1> HIDE DEF s1
  <1>6. IsColumns(cols, 2)
    BY <1>4 DEF IsColumns
  <1>7. KeepsKept(s, s1)
    BY <1>5 DEF KeepsKept
  <1> HIDE DEF cols, keys, keys1
  <1> QED
    BY <1>1, <1>3, <1>5, <1>6, <1>7, UserMoves

LEMMA Upgrade4 ==
  ASSUME NEW s, Fits(s, 3), Run(s, upgrade_5c0e43231c13) # Failed
  PROVE  Moves(s, Run(s, upgrade_5c0e43231c13), 4)
  <1> DEFINE cols == s["user"].cols
             keys == s["user"].keys
             rows == s["user"].rows
             s1 == Exec(s, drop_tokenblacklist)
             keys2 == keys \cup {Key(KeyName(s1, "user", "id"), {"id"})}
             s2 == Exec(s1, CreateUnique("user", "id"))
             cols3 == Without(cols, "uuid")
             keys3 == {k \in keys2 : "uuid" \notin k.on}
             s3 == Exec(s2, DropColumn("user", "uuid"))
  <1>1. Run(s, upgrade_5c0e43231c13) = s3
    BY RunThree DEF upgrade_5c0e43231c13
  <1>2. s3 # Failed /\ s2 # Failed /\ s1 # Failed
    BY <1>1, NotAfterFailure
  <1>3. Has(s, "user")
    BY DEF Fits
  <1>4. UserIs(s, cols, keys, rows) /\ IsColumns(cols, 3)
    BY <1>3, UserOfFits
  <1>5. UserIs(s1, cols, keys, rows) /\ KeepsKept(s, s1)
    BY <1>2, <1>4, AsideOfUser, AsideStatements
  <1> HIDE DEF s1
  <1>6. UserIs(s2, cols, keys2, rows) /\ KeepsKept(s1, s2)
    BY <1>2, <1>5, UserCreateUnique
  <1> HIDE DEF s2
  <1>7. UserIs(s3, cols3, keys3, rows) /\ KeepsKept(s2, s3)
    BY <1>2, <1>6, UserDropColumn
  <1> HIDE DEF s3, cols3
  <1> USE DEF cols3
  <1>8. IsColumns(cols3, 4)
    <2> HIDE DEF cols
    <2> QED
      BY <1>4 DEF IsColumns, Always, Req, Opt, Without
  <1>9. KeepsKept(s, s3)
    BY <1>5, <1>6, <1>7 DEF KeepsKept
  <1> HIDE DEF cols, keys, keys2, cols3, keys3
  <1> QED
    BY <1>1, <1>3, <1>7, <1>8, <1>9, UserMoves

LEMMA Upgrade5 ==
  ASSUME NEW s, Fits(s, 4), Run(s, upgrade_016ee7d6b0b9) # Failed
  PROVE  Moves(s, Run(s, upgrade_016ee7d6b0b9), 5)
  <1> DEFINE cols == s["user"].cols
             keys == s["user"].keys
             rows == s["user"].rows
             s1 == Exec(s, drop_tokenblacklist)
             keys2 == {k \in keys : k.name # UniqueKeyOf("user", "id")}
             s2 == Exec(s1, DropConstraint("user", UniqueKeyOf("user", "id")))
  <1>1. Run(s, upgrade_016ee7d6b0b9) = s2
    BY RunTwo DEF upgrade_016ee7d6b0b9
  <1>2. s2 # Failed /\ s1 # Failed
    BY <1>1, NotAfterFailure
  <1>3. Has(s, "user")
    BY DEF Fits
  <1>4. UserIs(s, cols, keys, rows) /\ IsColumns(cols, 4)
    BY <1>3, UserOfFits
  <1>5. UserIs(s1, cols, keys, rows) /\ KeepsKept(s, s1)
    BY <1>2, <1>4, AsideOfUser, AsideStatements
  <1> HIDE DEF s1
  <1>6. UserIs(s2, cols, keys2, rows) /\ KeepsKept(s1, s2)
    BY <1>2, <1>5, UserDropConstraint
  <1> HIDE DEF s2
  <1>7. IsColumns(cols, 5)
    BY <1>4 DEF IsColumns
  <1>8. KeepsKept(s, s2)
    BY <1>5, <1>6 DEF KeepsKept
  <1> HIDE DEF cols, keys, keys2
  <1> QED
    BY <1>1, <1>3, <1>6, <1>7, <1>8, UserMoves

LEMMA Upgrade6 ==
  ASSUME NEW s, Fits(s, 5), Run(s, upgrade_a537e639c8a5) # Failed
  PROVE  Moves(s, Run(s, upgrade_a537e639c8a5), 6)
  <1> DEFINE cols == s["user"].cols
             keys == s["user"].keys
             rows == s["user"].rows
             s1 == Exec(s, drop_tokenblacklist)
             cols2 == Put(cols, "created_at", Req("timetz"))
             s2 == Exec(s1, AlterType("user", "created_at", "timetz"))
  <1>1. Run(s, upgrade_a537e639c8a5) = s2
    BY RunTwo DEF upgrade_a537e639c8a5
  <1>2. s2 # Failed /\ s1 # Failed
    BY <1>1, NotAfterFailure
  <1>3. Has(s, "user")
    BY DEF Fits
  <1>4. UserIs(s, cols, keys, rows) /\ IsColumns(cols, 5)
    BY <1>3, UserOfFits
  <1>5. UserIs(s1, cols, keys, rows) /\ KeepsKept(s, s1)
    BY <1>2, <1>4, AsideOfUser, AsideStatements
  <1> HIDE DEF s1
  <1>6. cols = [c \in DOMAIN cols |-> cols[c]] /\ cols["created_at"] = Req("time")
    BY <1>4 DEF IsColumns
  <1>7. [cols["created_at"] EXCEPT !.type = "timetz"] = Req("timetz")
    BY <1>6, Altered
  <1>8. UserIs(s2, cols2, keys, rows) /\ KeepsKept(s1, s2)
    BY <1>2, <1>5, <1>6, <1>7, UserAlterType
  <1> HIDE DEF s2, cols2
  <1> USE DEF cols2
  <1>9. IsColumns(cols2, 6)
    <2> HIDE DEF cols
    <2> QED
      BY <1>4 DEF IsColumns, Always, Req, Opt, Put
  <1>10. KeepsKept(s, s2)
    BY <1>5, <1>8 DEF KeepsKept
  <1> HIDE DEF cols, keys, cols2
  <1> QED
    BY <1>1, <1>3, <1>8, <1>9, <1>10, UserMoves

LEMMA Upgrade7 ==
  ASSUME NEW s, Fits(s, 6), Run(s, upgrade_8b8e624d3a28) # Failed
  PROVE  Moves(s, Run(s, upgrade_8b8e624d3a28), 7)
  <1> DEFINE cols == s["user"].cols
             keys == s["user"].keys
             rows == s["user"].rows
             s1 == Exec(s, drop_tokenblacklist)
             s2 == Exec(s1, DropTable("post"))
             cols3 == Put(cols, "uuid", Req("uuid"))
             s3 == Exec(s2, AddColumn("user", "uuid", Req("uuid")))
             cols4 == Put(cols3, "created_at", Req("time"))
             s4 == Exec(s3, AlterType("user", "created_at", "time"))
  <1>1. Run(s, upgrade_8b8e624d3a28) = s4
    BY RunFour DEF upgrade_8b8e624d3a28
  <1>2. s4 # Failed /\ s3 # Failed /\ s2 # Failed /\ s1 # Failed
    BY <1>1, NotAfterFailure
  <1>3. Has(s, "user")
    BY DEF Fits
  <1>4. UserIs(s, cols, keys, rows) /\ IsColumns(cols, 6)
    BY <1>3, UserOfFits
  <1>5. UserIs(s1, cols, keys, rows) /\ KeepsKept(s, s1)
    BY <1>2, <1>4, AsideOfUser, AsideStatements
  <1> HIDE DEF s1
  <1>6. UserIs(s2, cols, keys, rows) /\ KeepsKept(s1, s2)
    BY <1>2, <1>5, AsideOfUser, AsideStatements
  <1> HIDE DEF s2
  <1>7. UserIs(s3, cols3, keys, rows) /\ KeepsKept(s2, s3) /\ (Req("uuid").null \/ rows = {})
    BY <1>2, <1>6, UserAddColumn
  <1>8. ~ Req("uuid").null
    BY DEF Req
  <1>9. rows = {}
    BY <1>7, <1>8
  <1> HIDE DEF s3, cols3
  <1>10. cols3 = [c \in DOMAIN cols3 |-> cols3[c]] /\ cols3["created_at"] = Req("timetz")
    BY <1>4 DEF IsColumns, Always, Put, cols3
  <1>11. [cols3["created_at"] EXCEPT !.type = "time"] = Req("time")
    BY <1>10, Altered
  <1>12. UserIs(s4, cols4, keys, rows) /\ KeepsKept(s3, s4)
    BY <1>2, <1>7, <1>10, <1>11, UserAlterType
  <1> HIDE DEF s4, cols4
  <1> USE DEF cols3, cols4
  <1>13. IsColumns(cols4, 7)
    <2> HIDE DEF cols
    <2> QED
      BY <1>4 DEF IsColumns, Always, Req, Opt, Put
  <1>14. KeepsKept(s, s4)
    BY <1>5, <1>6, <1>7, <1>12 DEF KeepsKept
  <1> HIDE DEF cols, keys, cols3, cols4
  <1> QED
    BY <1>1, <1>3, <1>12, <1>13, <1>14, UserMoves

LEMMA Upgrade8 ==
  ASSUME NEW s, Fits(s, 7), Run(s, upgrade_3ecb4e9492d0) # Failed
  PROVE  Moves(s, Run(s, upgrade_3ecb4e9492d0), 8)
  <1> DEFINE cols == s["user"].cols
             keys == s["user"].keys
             rows == s["user"].rows
             cols1 == Put(cols, "created_at", Opt("time"))
             st == AlterNull("user", "created_at", TRUE)
             s1 == Exec(s, st)
             cols2 == Put(cols1, "created_at", Opt("timetz"))
             s2 == Exec(s1, AlterType("user", "created_at", "timetz"))
  <1>0. upgrade_3ecb4e9492d0 = <<st, AlterType("user", "created_at", "timetz")>>
    BY DEF upgrade_3ecb4e9492d0
  <1>a. st.op = "alter_null" /\ st.table = "user" /\ st.column = "created_at"
    BY DEF AlterNull
  <1>b. st.null = Opt("time").null
    BY DEF AlterNull, Opt, Req
  <1> HIDE DEF st
  <1>1. Run(s, upgrade_3ecb4e9492d0) = s2
    BY <1>0, RunTwo
  <1>2. s2 # Failed /\ s1 # Failed
    BY <1>1, NotAfterFailure
  <1>3. Has(s, "user")
    BY DEF Fits
  <1>4. UserIs(s, cols, keys, rows) /\ IsColumns(cols, 7)
    BY <1>3, UserOfFits
  <1>5. cols = [c \in DOMAIN cols |-> cols[c]] /\ cols["created_at"] = Req("time")
    BY <1>4 DEF IsColumns
  <1>6. [cols["created_at"] EXCEPT !.null = st.null] = Opt("time")
    BY <1>5, <1>b, Altered
  <1>7. UserIs(s1, cols1, keys, rows) /\ KeepsKept(s, s1)
    BY <1>2, <1>4, <1>5, <1>6, <1>a, UserAlterNull
  <1> HIDE DEF s1, cols1
  <1>8. cols1 = [c \in DOMAIN cols1 |-> cols1[c]] /\ cols1["created_at"] = Opt("time")
    BY <1>4 DEF IsColumns, Always, Put, cols1
  <1>9. [cols1["created_at"] EXCEPT !.type = "timetz"] = Opt("timetz")
    BY <1>8, Altered
  <1>10. UserIs(s2, cols2, keys, rows) /\ KeepsKept(s1, s2)
    BY <1>2, <1>7, <1>8, <1>9, UserAlterType
  <1> HIDE DEF s2, cols2
  <1> USE DEF cols1, cols2
  <1>11. IsColumns(cols2, 8)
    <2> HIDE DEF cols
    <2> QED
      BY <1>4 DEF IsColumns, Always, Req, Opt, Put
  <1>12. KeepsKept(s, s2)
    BY <1>7, <1>10 DEF KeepsKept
  <1> HIDE DEF cols, keys, cols1, cols2
  <1> QED
    BY <1>1, <1>3, <1>10, <1>11, <1>12, UserMoves

LEMMA Upgrade9 ==
  ASSUME NEW s, Fits(s, 8), Run(s, upgrade_623ef1e66179) # Failed
  PROVE  Moves(s, Run(s, upgrade_623ef1e66179), 9)
  <1> DEFINE cols == s["user"].cols
             keys == s["user"].keys
             rows == s["user"].rows
             cols1 == Put(cols, "id_new", Req("uuid"))
             s1 == Exec(s, AddColumn("user", "id_new", Req("uuid")))
             rows2 == {[r EXCEPT !.id = "renumbered"] : r \in rows}
             s2 == Exec(s1, Renumber("user"))
             cols3 == Without(cols1, "id")
             keys3 == {k \in keys : "id" \notin k.on}
             s3 == Exec(s2, DropColumn("user", "id"))
             cols4 == Put(Without(cols3, "id_new"), "id", cols3["id_new"])
             s4 == Exec(s3, RenameColumn("user", "id_new", "id"))
  <1>1. Run(s, upgrade_623ef1e66179) = s4
    BY RunFour DEF upgrade_623ef1e66179
  <1>2. s4 # Failed /\ s3 # Failed /\ s2 # Failed /\ s1 # Failed
    BY <1>1, NotAfterFailure
  <1>3. Has(s, "user")
    BY DEF Fits
  <1>4. UserIs(s, cols, keys, rows) /\ IsColumns(cols, 8)
    BY <1>3, UserOfFits
  <1>5. UserIs(s1, cols1, keys, rows) /\ KeepsKept(s, s1) /\ (Req("uuid").null \/ rows = {})
    BY <1>2, <1>4, UserAddColumn
  <1>6. ~ Req("uuid").null
    BY DEF Req
  <1>7. rows = {}
    BY <1>5, <1>6
  <1> HIDE DEF s1, cols1
  <1>8. UserIs(s2, cols1, keys, rows2) /\ KeepsKept(s1, s2)
    BY <1>2, <1>5, UserRenumber
  <1> HIDE DEF s2
  <1>9. UserIs(s3, cols3, keys3, rows2) /\ KeepsKept(s2, s3)
    BY <1>2, <1>8, UserDropColumn
  <1> HIDE DEF s3, cols3
  <1>10. UserIs(s4, cols4, keys3, rows2) /\ KeepsKept(s3, s4)
    BY <1>2, <1>9, UserRenameColumn
  <1> HIDE DEF s4, cols4
  <1> USE DEF cols1, cols3, cols4
  <1>11. IsColumns(cols4, 9)
    <2> HIDE DEF cols
    <2> QED
      BY <1>4 DEF IsColumns, Always, Req, Opt, Put, Without
  <1>12. rows2 = rows
    BY <1>7
  <1>13. KeepsKept(s, s4)
    BY <1>5, <1>8, <1>9, <1>10 DEF KeepsKept
  <1> HIDE DEF cols, keys, cols1, rows2, cols3, keys3, cols4
  <1> QED
    BY <1>1, <1>3, <1>10, <1>11, <1>12, <1>13, UserMoves

LEMMA Upgrade12 ==
  ASSUME NEW s, Fits(s, 11), Run(s, upgrade_d04e0ac2b737) # Failed
  PROVE  Moves(s, Run(s, upgrade_d04e0ac2b737), 12)
  <1> DEFINE cols == s["user"].cols
             keys == s["user"].keys
             rows == s["user"].rows
             keys1 == keys \cup {Key(PrimaryKeyOf("user"), {"id"})}
             s1 == Exec(s, AddPrimaryKey("user", "id"))
  <1>1. Run(s, upgrade_d04e0ac2b737) = s1
    BY RunOne DEF upgrade_d04e0ac2b737
  <1>2. s1 # Failed
    BY <1>1, NotAfterFailure
  <1>3. Has(s, "user")
    BY DEF Fits
  <1>4. UserIs(s, cols, keys, rows) /\ IsColumns(cols, 11)
    BY <1>3, UserOfFits
  <1>5. UserIs(s1, cols, keys1, rows) /\ KeepsKept(s, s1)
    BY <1>2, <1>4, UserAddPrimaryKey
  <1> HIDE DEF s1
  <1>6. IsColumns(cols, 12)
    BY <1>4 DEF IsColumns
  <1>7. KeepsKept(s, s1)
    BY <1>5 DEF KeepsKept
  <1> HIDE DEF cols, keys, keys1
  <1> QED
    BY <1>1, <1>3, <1>5, <1>6, <1>7, UserMoves

LEMMA Upgrade14 ==
  ASSUME NEW s, Fits(s, 13), Run(s, upgrade_bd840a3fc487) # Failed
  PROVE  Moves(s, Run(s, upgrade_bd840a3fc487), 14)
  <1> DEFINE cols == s["user"].cols
             keys == s["user"].keys
             rows == s["user"].rows
             s1 == Exec(s, drop_tokenblacklist)
             cols2 == Without(cols, "hashed_password")
             keys2 == {k \in keys : "hashed_password" \notin k.on}
             s2 == Exec(s1, DropColumn("user", "hashed_password"))
  <1>1. Run(s, upgrade_bd840a3fc487) = s2
    BY RunTwo DEF upgrade_bd840a3fc487
  <1>2. s2 # Failed /\ s1 # Failed
    BY <1>1, NotAfterFailure
  <1>3. Has(s, "user")
    BY DEF Fits
  <1>4. UserIs(s, cols, keys, rows) /\ IsColumns(cols, 13)
    BY <1>3, UserOfFits
  <1>5. UserIs(s1, cols, keys, rows) /\ KeepsKept(s, s1)
    BY <1>2, <1>4, AsideOfUser, AsideStatements
  <1> HIDE DEF s1
  <1>6. UserIs(s2, cols2, keys2, rows) /\ KeepsKept(s1, s2)
    BY <1>2, <1>5, UserDropColumn
  <1> HIDE DEF s2, cols2
  <1> USE DEF cols2
  <1>7. IsColumns(cols2, 14)
    <2> HIDE DEF cols
    <2> QED
      BY <1>4 DEF IsColumns, Always, Req, Opt, Without
  <1>8. KeepsKept(s, s2)
    BY <1>5, <1>6 DEF KeepsKept
  <1> HIDE DEF cols, keys, cols2, keys2
  <1> QED
    BY <1>1, <1>3, <1>6, <1>7, <1>8, UserMoves

LEMMA Upgrade15 ==
  ASSUME NEW s, Fits(s, 14), Run(s, upgrade_61fcea1dca3b) # Failed
  PROVE  Moves(s, Run(s, upgrade_61fcea1dca3b), 15)
  <1> DEFINE cols == s["user"].cols
             keys == s["user"].keys
             rows == s["user"].rows
             s1 == Exec(s, drop_tokenblacklist)
             keys2 == keys \cup {Key(KeyName(s1, "user", "email"), {"email"})}
             s2 == Exec(s1, CreateUnique("user", "email"))
             keys3 == keys2 \cup {Key(KeyName(s2, "user", "uuid"), {"uuid"})}
             s3 == Exec(s2, CreateUnique("user", "uuid"))
  <1>1. Run(s, upgrade_61fcea1dca3b) = s3
    BY RunThree DEF upgrade_61fcea1dca3b
  <1>2. s3 # Failed /\ s2 # Failed /\ s1 # Failed
    BY <1>1, NotAfterFailure
  <1>3. Has(s, "user")
    BY DEF Fits
  <1>4. UserIs(s, cols, keys, rows) /\ IsColumns(cols, 14)
    BY <1>3, UserOfFits
  <1>5. UserIs(s1, cols, keys, rows) /\ KeepsKept(s, s1)
    BY <1>2, <1>4, AsideOfUser, AsideStatements
  <1> HIDE DEF s1
  <1>6. UserIs(s2, cols, keys2, rows) /\ KeepsKept(s1, s2)
    BY <1>2, <1>5, UserCreateUnique
  <1> HIDE DEF s2
  <1>7. UserIs(s3, cols, keys3, rows) /\ KeepsKept(s2, s3)
    BY <1>2, <1>6, UserCreateUnique
  <1> HIDE DEF s3
  <1>8. IsColumns(cols, 15)
    BY <1>4 DEF IsColumns
  <1>9. EmailKept(keys3)
    BY <1>4, EmailKeyKept DEF Key
  <1>10. KeepsKept(s, s3)
    BY <1>5, <1>6, <1>7 DEF KeepsKept
  <1> HIDE DEF cols, keys, keys2, keys3
  <1> QED
    BY <1>1, <1>3, <1>7, <1>8, <1>9, <1>10, UserMoves

LEMMA Upgrade16 ==
  ASSUME NEW s, Fits(s, 15), Run(s, upgrade_075f641caa2e) # Failed
  PROVE  Moves(s, Run(s, upgrade_075f641caa2e), 16)
  <1> DEFINE cols == s["user"].cols
             keys == s["user"].keys
             rows == s["user"].rows
             s1 == Exec(s, drop_tokenblacklist)
             cols2 == Put(cols, "uuid", Req("text"))
             s2 == Exec(s1, AlterType("user", "uuid", "text"))
  <1>1. Run(s, upgrade_075f641caa2e) = s2
    BY RunTwo DEF upgrade_075f641caa2e
  <1>2. s2 # Failed /\ s1 # Failed
    BY <1>1, NotAfterFailure
  <1>3. Has(s, "user")
    BY DEF Fits
  <1>4. UserIs(s, cols, keys, rows) /\ IsColumns(cols, 15) /\ EmailKept(keys)
    BY <1>3, UserOfFits
  <1>5. UserIs(s1, cols, keys, rows) /\ KeepsKept(s, s1)
    BY <1>2, <1>4, AsideOfUser, AsideStatements
  <1> HIDE DEF s1
  <1>6. cols = [c \in DOMAIN cols |-> cols[c]] /\ cols["uuid"] = Req("uuid")
    BY <1>4 DEF IsColumns
  <1>7. [cols["uuid"] EXCEPT !.type = "text"] = Req("text")
    BY <1>6, Altered
  <1>8. UserIs(s2, cols2, keys, rows) /\ KeepsKept(s1, s2)
    BY <1>2, <1>5, <1>6, <1>7, UserAlterType
  <1> HIDE DEF s2, cols2
  <1> USE DEF cols2
  <1>9. IsColumns(cols2, 16)
    <2> HIDE DEF cols
    <2> QED
      BY <1>4 DEF IsColumns, Always, Req, Opt, Put
  <1>10. KeepsKept(s, s2)
    BY <1>5, <1>8 DEF KeepsKept
  <1> HIDE DEF cols, keys, cols2
  <1> QED
    BY <1>1, <1>3, <1>8, <1>4, <1>9, <1>10, UserMoves

LEMMA Upgrade17 ==
  ASSUME NEW s, Fits(s, 16), Run(s, upgrade_bca954b13aff) # Failed
  PROVE  Moves(s, Run(s, upgrade_bca954b13aff), 17)
  <1> DEFINE cols == s["user"].cols
             keys == s["user"].keys
             rows == s["user"].rows
             s1 == Exec(s, drop_tokenblacklist)
             cols2 == Put(cols, "updated_at", Opt("timetz"))
             s2 == Exec(s1, AlterType("user", "updated_at", "timetz"))
             cols3 == Put(cols2, "deleted_at", Opt("timetz"))
             s3 == Exec(s2, AlterType("user", "deleted_at", "timetz"))
  <1>1. Run(s, upgrade_bca954b13aff) = s3
    BY RunThree DEF upgrade_bca954b13aff
  <1>2. s3 # Failed /\ s2 # Failed /\ s1 # Failed
    BY <1>1, NotAfterFailure
  <1>3. Has(s, "user")
    BY DEF Fits
  <1>4. UserIs(s, cols, keys, rows) /\ IsColumns(cols, 16) /\ EmailKept(keys)
    BY <1>3, UserOfFits
  <1>5. UserIs(s1, cols, keys, rows) /\ KeepsKept(s, s1)
    BY <1>2, <1>4, AsideOfUser, AsideStatements
  <1> HIDE DEF s1
  <1>6. cols = [c \in DOMAIN cols |-> cols[c]] /\ cols["updated_at"] = Opt("time")
    BY <1>4 DEF IsColumns
  <1>7. [cols["updated_at"] EXCEPT !.type = "timetz"] = Opt("timetz")
    BY <1>6, Altered
  <1>8. UserIs(s2, cols2, keys, rows) /\ KeepsKept(s1, s2)
    BY <1>2, <1>5, <1>6, <1>7, UserAlterType
  <1> HIDE DEF s2, cols2
  <1>9. cols2 = [c \in DOMAIN cols2 |-> cols2[c]] /\ cols2["deleted_at"] = Opt("time")
    BY <1>4 DEF IsColumns, Always, Put, cols2
  <1>10. [cols2["deleted_at"] EXCEPT !.type = "timetz"] = Opt("timetz")
    BY <1>9, Altered
  <1>11. UserIs(s3, cols3, keys, rows) /\ KeepsKept(s2, s3)
    BY <1>2, <1>8, <1>9, <1>10, UserAlterType
  <1> HIDE DEF s3, cols3
  <1> USE DEF cols2, cols3
  <1>12. IsColumns(cols3, 17)
    <2> HIDE DEF cols
    <2> QED
      BY <1>4 DEF IsColumns, Always, Req, Opt, Put
  <1>13. KeepsKept(s, s3)
    BY <1>5, <1>8, <1>11 DEF KeepsKept
  <1> HIDE DEF cols, keys, cols2, cols3
  <1> QED
    BY <1>1, <1>3, <1>11, <1>4, <1>12, <1>13, UserMoves

LEMMA Upgrade19 ==
  ASSUME NEW s, Fits(s, 18), Run(s, upgrade_b7ec49f8797d) # Failed
  PROVE  Moves(s, Run(s, upgrade_b7ec49f8797d), 19)
  <1> DEFINE cols == s["user"].cols
             keys == s["user"].keys
             rows == s["user"].rows
             cols1 == Put(cols, "id", Req("text"))
             s1 == Exec(s, AlterType("user", "id", "text"))
  <1>1. Run(s, upgrade_b7ec49f8797d) = s1
    BY RunOne DEF upgrade_b7ec49f8797d
  <1>2. s1 # Failed
    BY <1>1, NotAfterFailure
  <1>3. Has(s, "user")
    BY DEF Fits
  <1>4. UserIs(s, cols, keys, rows) /\ IsColumns(cols, 18) /\ EmailKept(keys)
    BY <1>3, UserOfFits
  <1>5. cols = [c \in DOMAIN cols |-> cols[c]] /\ cols["id"] = Req("uuid")
    BY <1>4 DEF IsColumns
  <1>6. [cols["id"] EXCEPT !.type = "text"] = Req("text")
    BY <1>5, Altered
  <1>7. UserIs(s1, cols1, keys, rows) /\ KeepsKept(s, s1)
    BY <1>2, <1>4, <1>5, <1>6, UserAlterType
  <1> HIDE DEF s1, cols1
  <1> USE DEF cols1
  <1>8. IsColumns(cols1, 19)
    <2> HIDE DEF cols
    <2> QED
      BY <1>4 DEF IsColumns, Always, Req, Opt, Put
  <1>9. KeepsKept(s, s1)
    BY <1>7 DEF KeepsKept
  <1> HIDE DEF cols, keys, cols1
  <1> QED
    BY <1>1, <1>3, <1>7, <1>4, <1>8, <1>9, UserMoves

LEMMA Upgrade24 ==
  ASSUME NEW s, Fits(s, 23), Run(s, upgrade_40be74e6375e) # Failed
  PROVE  Moves(s, Run(s, upgrade_40be74e6375e), 24)
  <1> DEFINE cols == s["user"].cols
             keys == s["user"].keys
             rows == s["user"].rows
             cols1 == Without(cols, "tier_id")
             keys1 == {k \in keys : "tier_id" \notin k.on}
             s1 == Exec(s, DropColumn("user", "tier_id"))
  <1>1. Run(s, upgrade_40be74e6375e) = s1
    BY RunOne DEF upgrade_40be74e6375e
  <1>2. s1 # Failed
    BY <1>1, NotAfterFailure
  <1>3. Has(s, "user")
    BY DEF Fits
  <1>4. UserIs(s, cols, keys, rows) /\ IsColumns(cols, 23) /\ EmailKept(keys)
    BY <1>3, UserOfFits
  <1>5. UserIs(s1, cols1, keys1, rows) /\ KeepsKept(s, s1)
    BY <1>2, <1>4, UserDropColumn
  <1> HIDE DEF s1, cols1
  <1> USE DEF cols1
  <1>6. IsColumns(cols1, 24)
    <2> HIDE DEF cols
    <2> QED
      BY <1>4 DEF IsColumns, Always, Req, Opt, Without
  <1>7. EmailKept(keys1)
    BY <1>4, EmailKeyKept DEF Key
  <1>8. KeepsKept(s, s1)
    BY <1>5 DEF KeepsKept
  <1> HIDE DEF cols, keys, cols1, keys1
  <1> QED
    BY <1>1, <1>3, <1>5, <1>6, <1>7, <1>8, UserMoves

-----------------------------------------------------------------------------
(* The downgrades that change user.                                        *)

LEMMA Downgrade5 ==
  ASSUME NEW s, Fits(s, 5), Run(s, downgrade_016ee7d6b0b9) # Failed
  PROVE  Moves(s, Run(s, downgrade_016ee7d6b0b9), 4)
  <1> DEFINE cols == s["user"].cols
             keys == s["user"].keys
             rows == s["user"].rows
             keys1 == keys \cup {Key(KeyName(s, "user", "id"), {"id"})}
             s1 == Exec(s, CreateUnique("user", "id"))
             s2 == Exec(s1, create_tokenblacklist)
  <1>1. Run(s, downgrade_016ee7d6b0b9) = s2
    BY RunTwo DEF downgrade_016ee7d6b0b9
  <1>2. s2 # Failed /\ s1 # Failed
    BY <1>1, NotAfterFailure
  <1>3. Has(s, "user")
    BY DEF Fits
  <1>4. UserIs(s, cols, keys, rows) /\ IsColumns(cols, 5)
    BY <1>3, UserOfFits
  <1>5. UserIs(s1, cols, keys1, rows) /\ KeepsKept(s, s1)
    BY <1>2, <1>4, UserCreateUnique
  <1> HIDE DEF s1
  <1>6. UserIs(s2, cols, keys1, rows) /\ KeepsKept(s1, s2)
    BY <1>2, <1>5, AsideOfUser, AsideStatements
  <1> HIDE DEF s2
  <1>7. IsColumns(cols, 4)
    BY <1>4 DEF IsColumns
  <1>8. KeepsKept(s, s2)
    BY <1>5, <1>6 DEF KeepsKept
  <1> HIDE DEF cols, keys, keys1
  <1> QED
    BY <1>1, <1>3, <1>6, <1>7, <1>8, UserMoves

LEMMA Downgrade6 ==
  ASSUME NEW s, Fits(s, 6), Run(s, downgrade_a537e639c8a5) # Failed
  PROVE  Moves(s, Run(s, downgrade_a537e639c8a5), 5)
  <1> DEFINE cols == s["user"].cols
             keys == s["user"].keys
             rows == s["user"].rows
             cols1 == Put(cols, "created_at", Req("time"))
             s1 == Exec(s, AlterType("user", "created_at", "time"))
             s2 == Exec(s1, create_tokenblacklist)
  <1>1. Run(s, downgrade_a537e639c8a5) = s2
    BY RunTwo DEF downgrade_a537e639c8a5
  <1>2. s2 # Failed /\ s1 # Failed
    BY <1>1, NotAfterFailure
  <1>3. Has(s, "user")
    BY DEF Fits
  <1>4. UserIs(s, cols, keys, rows) /\ IsColumns(cols, 6)
    BY <1>3, UserOfFits
  <1>5. cols = [c \in DOMAIN cols |-> cols[c]] /\ cols["created_at"] = Req("timetz")
    BY <1>4 DEF IsColumns
  <1>6. [cols["created_at"] EXCEPT !.type = "time"] = Req("time")
    BY <1>5, Altered
  <1>7. UserIs(s1, cols1, keys, rows) /\ KeepsKept(s, s1)
    BY <1>2, <1>4, <1>5, <1>6, UserAlterType
  <1> HIDE DEF s1, cols1
  <1>8. UserIs(s2, cols1, keys, rows) /\ KeepsKept(s1, s2)
    BY <1>2, <1>7, AsideOfUser, AsideStatements
  <1> HIDE DEF s2
  <1> USE DEF cols1
  <1>9. IsColumns(cols1, 5)
    <2> HIDE DEF cols
    <2> QED
      BY <1>4 DEF IsColumns, Always, Req, Opt, Put
  <1>10. KeepsKept(s, s2)
    BY <1>7, <1>8 DEF KeepsKept
  <1> HIDE DEF cols, keys, cols1
  <1> QED
    BY <1>1, <1>3, <1>8, <1>9, <1>10, UserMoves

LEMMA Downgrade7 ==
  ASSUME NEW s, Fits(s, 7), Run(s, downgrade_8b8e624d3a28) # Failed
  PROVE  Moves(s, Run(s, downgrade_8b8e624d3a28), 6)
  <1> DEFINE cols == s["user"].cols
             keys == s["user"].keys
             rows == s["user"].rows
             cols1 == Put(cols, "created_at", Req("timetz"))
             s1 == Exec(s, AlterType("user", "created_at", "timetz"))
             cols2 == Without(cols1, "uuid")
             keys2 == {k \in keys : "uuid" \notin k.on}
             s2 == Exec(s1, DropColumn("user", "uuid"))
             s3 == Exec(s2, CreateTable("post", post("int", {})))
             s4 == Exec(s3, create_tokenblacklist)
  <1>1. Run(s, downgrade_8b8e624d3a28) = s4
    BY RunFour DEF downgrade_8b8e624d3a28
  <1>2. s4 # Failed /\ s3 # Failed /\ s2 # Failed /\ s1 # Failed
    BY <1>1, NotAfterFailure
  <1>3. Has(s, "user")
    BY DEF Fits
  <1>4. UserIs(s, cols, keys, rows) /\ IsColumns(cols, 7)
    BY <1>3, UserOfFits
  <1>5. cols = [c \in DOMAIN cols |-> cols[c]] /\ cols["created_at"] = Req("time")
    BY <1>4 DEF IsColumns
  <1>6. [cols["created_at"] EXCEPT !.type = "timetz"] = Req("timetz")
    BY <1>5, Altered
  <1>7. UserIs(s1, cols1, keys, rows) /\ KeepsKept(s, s1)
    BY <1>2, <1>4, <1>5, <1>6, UserAlterType
  <1> HIDE DEF s1, cols1
  <1>8. UserIs(s2, cols2, keys2, rows) /\ KeepsKept(s1, s2)
    BY <1>2, <1>7, UserDropColumn
  <1> HIDE DEF s2, cols2
  <1>9. UserIs(s3, cols2, keys2, rows) /\ KeepsKept(s2, s3)
    BY <1>2, <1>8, AsideOfUser, AsideStatements
  <1> HIDE DEF s3
  <1>10. UserIs(s4, cols2, keys2, rows) /\ KeepsKept(s3, s4)
    BY <1>2, <1>9, AsideOfUser, AsideStatements
  <1> HIDE DEF s4
  <1> USE DEF cols1, cols2
  <1>11. IsColumns(cols2, 6)
    <2> HIDE DEF cols
    <2> QED
      BY <1>4 DEF IsColumns, Always, Req, Opt, Put, Without
  <1>12. KeepsKept(s, s4)
    BY <1>7, <1>8, <1>9, <1>10 DEF KeepsKept
  <1> HIDE DEF cols, keys, cols1, cols2, keys2
  <1> QED
    BY <1>1, <1>3, <1>10, <1>11, <1>12, UserMoves

LEMMA Downgrade8 ==
  ASSUME NEW s, Fits(s, 8), Run(s, downgrade_3ecb4e9492d0) # Failed
  PROVE  Moves(s, Run(s, downgrade_3ecb4e9492d0), 7)
  <1> DEFINE cols == s["user"].cols
             keys == s["user"].keys
             rows == s["user"].rows
             cols1 == Put(cols, "created_at", Req("timetz"))
             st == AlterNull("user", "created_at", FALSE)
             s1 == Exec(s, st)
             cols2 == Put(cols1, "created_at", Req("time"))
             s2 == Exec(s1, AlterType("user", "created_at", "time"))
  <1>0. downgrade_3ecb4e9492d0 = <<st, AlterType("user", "created_at", "time")>>
    BY DEF downgrade_3ecb4e9492d0
  <1>a. st.op = "alter_null" /\ st.table = "user" /\ st.column = "created_at"
    BY DEF AlterNull
  <1>b. st.null = Req("timetz").null
    BY DEF AlterNull, Opt, Req
  <1> HIDE DEF st
  <1>1. Run(s, downgrade_3ecb4e9492d0) = s2
    BY <1>0, RunTwo
  <1>2. s2 # Failed /\ s1 # Failed
    BY <1>1, NotAfterFailure
  <1>3. Has(s, "user")
    BY DEF Fits
  <1>4. UserIs(s, cols, keys, rows) /\ IsColumns(cols, 8)
    BY <1>3, UserOfFits
  <1>5. cols = [c \in DOMAIN cols |-> cols[c]] /\ cols["created_at"] = Opt("timetz")
    BY <1>4 DEF IsColumns
  <1>6. [cols["created_at"] EXCEPT !.null = st.null] = Req("timetz")
    BY <1>5, <1>b, Altered
  <1>7. UserIs(s1, cols1, keys, rows) /\ KeepsKept(s, s1)
    BY <1>2, <1>4, <1>5, <1>6, <1>a, UserAlterNull
  <1> HIDE DEF s1, cols1
  <1>8. cols1 = [c \in DOMAIN cols1 |-> cols1[c]] /\ cols1["created_at"] = Req("timetz")
    BY <1>4 DEF IsColumns, Always, Put, cols1
  <1>9. [cols1["created_at"] EXCEPT !.type = "time"] = Req("time")
    BY <1>8, Altered
  <1>10. UserIs(s2, cols2, keys, rows) /\ KeepsKept(s1, s2)
    BY <1>2, <1>7, <1>8, <1>9, UserAlterType
  <1> HIDE DEF s2, cols2
  <1> USE DEF cols1, cols2
  <1>11. IsColumns(cols2, 7)
    <2> HIDE DEF cols
    <2> QED
      BY <1>4 DEF IsColumns, Always, Req, Opt, Put
  <1>12. KeepsKept(s, s2)
    BY <1>7, <1>10 DEF KeepsKept
  <1> HIDE DEF cols, keys, cols1, cols2
  <1> QED
    BY <1>1, <1>3, <1>10, <1>11, <1>12, UserMoves

LEMMA Downgrade9 ==
  ASSUME NEW s, Fits(s, 9), Run(s, downgrade_623ef1e66179) # Failed
  PROVE  Moves(s, Run(s, downgrade_623ef1e66179), 8)
  <1> DEFINE cols == s["user"].cols
             keys == s["user"].keys
             rows == s["user"].rows
             cols1 == Put(cols, "id_new", Req("int"))
             s1 == Exec(s, AddColumn("user", "id_new", Req("int")))
             rows2 == {[r EXCEPT !.id = "renumbered"] : r \in rows}
             s2 == Exec(s1, Renumber("user"))
             cols3 == Without(cols1, "id")
             keys3 == {k \in keys : "id" \notin k.on}
             s3 == Exec(s2, DropColumn("user", "id"))
             cols4 == Put(Without(cols3, "id_new"), "id", cols3["id_new"])
             s4 == Exec(s3, RenameColumn("user", "id_new", "id"))
  <1>1. Run(s, downgrade_623ef1e66179) = s4
    BY RunFour DEF downgrade_623ef1e66179
  <1>2. s4 # Failed /\ s3 # Failed /\ s2 # Failed /\ s1 # Failed
    BY <1>1, NotAfterFailure
  <1>3. Has(s, "user")
    BY DEF Fits
  <1>4. UserIs(s, cols, keys, rows) /\ IsColumns(cols, 9)
    BY <1>3, UserOfFits
  <1>5. UserIs(s1, cols1, keys, rows) /\ KeepsKept(s, s1) /\ (Req("int").null \/ rows = {})
    BY <1>2, <1>4, UserAddColumn
  <1>6. ~ Req("int").null
    BY DEF Req
  <1>7. rows = {}
    BY <1>5, <1>6
  <1> HIDE DEF s1, cols1
  <1>8. UserIs(s2, cols1, keys, rows2) /\ KeepsKept(s1, s2)
    BY <1>2, <1>5, UserRenumber
  <1> HIDE DEF s2
  <1>9. UserIs(s3, cols3, keys3, rows2) /\ KeepsKept(s2, s3)
    BY <1>2, <1>8, UserDropColumn
  <1> HIDE DEF s3, cols3
  <1>10. UserIs(s4, cols4, keys3, rows2) /\ KeepsKept(s3, s4)
    BY <1>2, <1>9, UserRenameColumn
  <1> HIDE DEF s4, cols4
  <1> USE DEF cols1, cols3, cols4
  <1>11. IsColumns(cols4, 8)
    <2> HIDE DEF cols
    <2> QED
      BY <1>4 DEF IsColumns, Always, Req, Opt, Put, Without
  <1>12. rows2 = rows
    BY <1>7
  <1>13. KeepsKept(s, s4)
    BY <1>5, <1>8, <1>9, <1>10 DEF KeepsKept
  <1> HIDE DEF cols, keys, cols1, rows2, cols3, keys3, cols4
  <1> QED
    BY <1>1, <1>3, <1>10, <1>11, <1>12, <1>13, UserMoves

LEMMA Downgrade12 ==
  ASSUME NEW s, Fits(s, 12), Run(s, downgrade_d04e0ac2b737) # Failed
  PROVE  Moves(s, Run(s, downgrade_d04e0ac2b737), 11)
  <1> DEFINE cols == s["user"].cols
             keys == s["user"].keys
             rows == s["user"].rows
             keys1 == {k \in keys : k.name # PrimaryKeyOf("user")}
             s1 == Exec(s, DropConstraint("user", PrimaryKeyOf("user")))
  <1>1. Run(s, downgrade_d04e0ac2b737) = s1
    BY RunOne DEF downgrade_d04e0ac2b737
  <1>2. s1 # Failed
    BY <1>1, NotAfterFailure
  <1>3. Has(s, "user")
    BY DEF Fits
  <1>4. UserIs(s, cols, keys, rows) /\ IsColumns(cols, 12)
    BY <1>3, UserOfFits
  <1>5. UserIs(s1, cols, keys1, rows) /\ KeepsKept(s, s1)
    BY <1>2, <1>4, UserDropConstraint
  <1> HIDE DEF s1
  <1>6. IsColumns(cols, 11)
    BY <1>4 DEF IsColumns
  <1>7. KeepsKept(s, s1)
    BY <1>5 DEF KeepsKept
  <1> HIDE DEF cols, keys, keys1
  <1> QED
    BY <1>1, <1>3, <1>5, <1>6, <1>7, UserMoves

LEMMA Downgrade14 ==
  ASSUME NEW s, Fits(s, 14), Run(s, downgrade_bd840a3fc487) # Failed
  PROVE  Moves(s, Run(s, downgrade_bd840a3fc487), 13)
  <1> DEFINE cols == s["user"].cols
             keys == s["user"].keys
             rows == s["user"].rows
             cols1 == Put(cols, "hashed_password", Req("text"))
             s1 == Exec(s, AddColumn("user", "hashed_password", Req("text")))
             s2 == Exec(s1, create_tokenblacklist)
  <1>1. Run(s, downgrade_bd840a3fc487) = s2
    BY RunTwo DEF downgrade_bd840a3fc487
  <1>2. s2 # Failed /\ s1 # Failed
    BY <1>1, NotAfterFailure
  <1>3. Has(s, "user")
    BY DEF Fits
  <1>4. UserIs(s, cols, keys, rows) /\ IsColumns(cols, 14)
    BY <1>3, UserOfFits
  <1>5. UserIs(s1, cols1, keys, rows) /\ KeepsKept(s, s1) /\ (Req("text").null \/ rows = {})
    BY <1>2, <1>4, UserAddColumn
  <1>6. ~ Req("text").null
    BY DEF Req
  <1>7. rows = {}
    BY <1>5, <1>6
  <1> HIDE DEF s1, cols1
  <1>8. UserIs(s2, cols1, keys, rows) /\ KeepsKept(s1, s2)
    BY <1>2, <1>5, AsideOfUser, AsideStatements
  <1> HIDE DEF s2
  <1> USE DEF cols1
  <1>9. IsColumns(cols1, 13)
    <2> HIDE DEF cols
    <2> QED
      BY <1>4 DEF IsColumns, Always, Req, Opt, Put
  <1>10. KeepsKept(s, s2)
    BY <1>5, <1>8 DEF KeepsKept
  <1> HIDE DEF cols, keys, cols1
  <1> QED
    BY <1>1, <1>3, <1>8, <1>9, <1>10, UserMoves

LEMMA Downgrade17 ==
  ASSUME NEW s, Fits(s, 17), Run(s, downgrade_bca954b13aff) # Failed
  PROVE  Moves(s, Run(s, downgrade_bca954b13aff), 16)
  <1> DEFINE cols == s["user"].cols
             keys == s["user"].keys
             rows == s["user"].rows
             cols1 == Put(cols, "deleted_at", Opt("time"))
             s1 == Exec(s, AlterType("user", "deleted_at", "time"))
             cols2 == Put(cols1, "updated_at", Opt("time"))
             s2 == Exec(s1, AlterType("user", "updated_at", "time"))
             s3 == Exec(s2, create_tokenblacklist)
  <1>1. Run(s, downgrade_bca954b13aff) = s3
    BY RunThree DEF downgrade_bca954b13aff
  <1>2. s3 # Failed /\ s2 # Failed /\ s1 # Failed
    BY <1>1, NotAfterFailure
  <1>3. Has(s, "user")
    BY DEF Fits
  <1>4. UserIs(s, cols, keys, rows) /\ IsColumns(cols, 17) /\ EmailKept(keys)
    BY <1>3, UserOfFits
  <1>5. cols = [c \in DOMAIN cols |-> cols[c]] /\ cols["deleted_at"] = Opt("timetz")
    BY <1>4 DEF IsColumns
  <1>6. [cols["deleted_at"] EXCEPT !.type = "time"] = Opt("time")
    BY <1>5, Altered
  <1>7. UserIs(s1, cols1, keys, rows) /\ KeepsKept(s, s1)
    BY <1>2, <1>4, <1>5, <1>6, UserAlterType
  <1> HIDE DEF s1, cols1
  <1>8. cols1 = [c \in DOMAIN cols1 |-> cols1[c]] /\ cols1["updated_at"] = Opt("timetz")
    BY <1>4 DEF IsColumns, Always, Put, cols1
  <1>9. [cols1["updated_at"] EXCEPT !.type = "time"] = Opt("time")
    BY <1>8, Altered
  <1>10. UserIs(s2, cols2, keys, rows) /\ KeepsKept(s1, s2)
    BY <1>2, <1>7, <1>8, <1>9, UserAlterType
  <1> HIDE DEF s2, cols2
  <1>11. UserIs(s3, cols2, keys, rows) /\ KeepsKept(s2, s3)
    BY <1>2, <1>10, AsideOfUser, AsideStatements
  <1> HIDE DEF s3
  <1> USE DEF cols1, cols2
  <1>12. IsColumns(cols2, 16)
    <2> HIDE DEF cols
    <2> QED
      BY <1>4 DEF IsColumns, Always, Req, Opt, Put
  <1>13. KeepsKept(s, s3)
    BY <1>7, <1>10, <1>11 DEF KeepsKept
  <1> HIDE DEF cols, keys, cols1, cols2
  <1> QED
    BY <1>1, <1>3, <1>11, <1>4, <1>12, <1>13, UserMoves

LEMMA Downgrade24 ==
  ASSUME NEW s, Fits(s, 24), Run(s, downgrade_40be74e6375e) # Failed
  PROVE  Moves(s, Run(s, downgrade_40be74e6375e), 23)
  <1> DEFINE cols == s["user"].cols
             keys == s["user"].keys
             rows == s["user"].rows
             cols1 == Put(cols, "tier_id", Opt("int"))
             s1 == Exec(s, AddColumn("user", "tier_id", Opt("int")))
  <1>1. Run(s, downgrade_40be74e6375e) = s1
    BY RunOne DEF downgrade_40be74e6375e
  <1>2. s1 # Failed
    BY <1>1, NotAfterFailure
  <1>3. Has(s, "user")
    BY <1>2, AddColumnDoes
  <1>4. UserIs(s, cols, keys, rows) /\ IsColumns(cols, 24) /\ EmailKept(keys)
    BY <1>3, UserOfFits
  <1>5. UserIs(s1, cols1, keys, rows) /\ KeepsKept(s, s1)
    BY <1>2, <1>4, UserAddColumn
  <1> HIDE DEF s1, cols1
  <1> USE DEF cols1
  <1>6. IsColumns(cols1, 23)
    <2> HIDE DEF cols
    <2> QED
      BY <1>4 DEF IsColumns, Always, Req, Opt, Put
  <1>7. KeepsKept(s, s1)
    BY <1>5 DEF KeepsKept
  <1> HIDE DEF cols, keys, cols1
  <1> QED
    BY <1>1, <1>3, <1>5, <1>4, <1>6, <1>7, UserMoves

-----------------------------------------------------------------------------
(* The revisions that leave user alone, forth and back.                    *)

LEMMA Upgrade3 ==
  ASSUME NEW s, Fits(s, 2), Run(s, upgrade_c0b46f3a0fc3) # Failed
  PROVE  Moves(s, Run(s, upgrade_c0b46f3a0fc3), 3)
  <1>1. /\ Len(upgrade_c0b46f3a0fc3) \in Nat
        /\ \A n \in 1..Len(upgrade_c0b46f3a0fc3) : Aside(upgrade_c0b46f3a0fc3[n])
    BY AsideStatements DEF upgrade_c0b46f3a0fc3
  <1>2. \A f : IsColumns(f, 2) => IsColumns(f, 3)
    BY DEF IsColumns
  <1> QED
    BY <1>1, <1>2, AsideMoves

LEMMA Upgrade10 ==
  ASSUME NEW s, Fits(s, 9), Run(s, upgrade_4498a252d507) # Failed
  PROVE  Moves(s, Run(s, upgrade_4498a252d507), 10)
  <1>1. /\ Len(upgrade_4498a252d507) \in Nat
        /\ \A n \in 1..Len(upgrade_4498a252d507) : Aside(upgrade_4498a252d507[n])
    BY AsideStatements DEF upgrade_4498a252d507
  <1>2. \A f : IsColumns(f, 9) => IsColumns(f, 10)
    BY DEF IsColumns
  <1> QED
    BY <1>1, <1>2, AsideMoves

LEMMA Upgrade11 ==
  ASSUME NEW s, Fits(s, 10), Run(s, upgrade_4a8e7d2da15d) # Failed
  PROVE  Moves(s, Run(s, upgrade_4a8e7d2da15d), 11)
  <1>1. /\ Len(upgrade_4a8e7d2da15d) \in Nat
        /\ \A n \in 1..Len(upgrade_4a8e7d2da15d) : Aside(upgrade_4a8e7d2da15d[n])
    BY AsideStatements DEF upgrade_4a8e7d2da15d
  <1>2. \A f : IsColumns(f, 10) => IsColumns(f, 11)
    BY DEF IsColumns
  <1> QED
    BY <1>1, <1>2, AsideMoves

LEMMA Upgrade13 ==
  ASSUME NEW s, Fits(s, 12), Run(s, upgrade_29466908bf3e) # Failed
  PROVE  Moves(s, Run(s, upgrade_29466908bf3e), 13)
  <1> DEFINE st == AlterNull("tier", "created_at", TRUE)
  <1>1. /\ Len(upgrade_29466908bf3e) \in Nat
        /\ \A n \in 1..Len(upgrade_29466908bf3e) : Aside(upgrade_29466908bf3e[n])
    <2>1. upgrade_29466908bf3e =
              <<drop_tokenblacklist, DropTable("post"), st,
                 AlterType("tier", "created_at", "timetz")>>
      BY DEF upgrade_29466908bf3e
    <2>2. Aside(st)
      BY AsideStatements
    <2> HIDE DEF st
    <2> QED
      BY <2>1, <2>2, AsideStatements
  <1>2. \A f : IsColumns(f, 12) => IsColumns(f, 13)
    BY DEF IsColumns
  <1> QED
    BY <1>1, <1>2, AsideMoves

LEMMA Upgrade18 ==
  ASSUME NEW s, Fits(s, 17), Run(s, upgrade_33cfec9c9fc5) # Failed
  PROVE  Moves(s, Run(s, upgrade_33cfec9c9fc5), 18)
  <1>1. /\ Len(upgrade_33cfec9c9fc5) \in Nat
        /\ \A n \in 1..Len(upgrade_33cfec9c9fc5) : Aside(upgrade_33cfec9c9fc5[n])
    BY AsideStatements DEF upgrade_33cfec9c9fc5
  <1>2. \A f : IsColumns(f, 17) => IsColumns(f, 18)
    BY DEF IsColumns
  <1> QED
    BY <1>1, <1>2, AsideMoves

LEMMA Upgrade20 ==
  ASSUME NEW s, Fits(s, 19), Run(s, upgrade_605f88e55e7a) # Failed
  PROVE  Moves(s, Run(s, upgrade_605f88e55e7a), 20)
  <1>1. /\ Len(upgrade_605f88e55e7a) \in Nat
        /\ \A n \in 1..Len(upgrade_605f88e55e7a) : Aside(upgrade_605f88e55e7a[n])
    BY AsideStatements DEF upgrade_605f88e55e7a
  <1>2. \A f : IsColumns(f, 19) => IsColumns(f, 20)
    BY DEF IsColumns
  <1> QED
    BY <1>1, <1>2, AsideMoves

LEMMA Upgrade21 ==
  ASSUME NEW s, Fits(s, 20), Run(s, upgrade_36953a014b97) # Failed
  PROVE  Moves(s, Run(s, upgrade_36953a014b97), 21)
  <1>1. /\ Len(upgrade_36953a014b97) \in Nat
        /\ \A n \in 1..Len(upgrade_36953a014b97) : Aside(upgrade_36953a014b97[n])
    BY AsideStatements DEF upgrade_36953a014b97
  <1>2. \A f : IsColumns(f, 20) => IsColumns(f, 21)
    BY DEF IsColumns
  <1> QED
    BY <1>1, <1>2, AsideMoves

LEMMA Upgrade22 ==
  ASSUME NEW s, Fits(s, 21), Run(s, upgrade_656df8b99e6a) # Failed
  PROVE  Moves(s, Run(s, upgrade_656df8b99e6a), 22)
  <1>1. /\ Len(upgrade_656df8b99e6a) \in Nat
        /\ \A n \in 1..Len(upgrade_656df8b99e6a) : Aside(upgrade_656df8b99e6a[n])
    BY AsideStatements DEF upgrade_656df8b99e6a
  <1>2. \A f : IsColumns(f, 21) => IsColumns(f, 22)
    BY DEF IsColumns
  <1> QED
    BY <1>1, <1>2, AsideMoves

LEMMA Upgrade23 ==
  ASSUME NEW s, Fits(s, 22), Run(s, upgrade_8d817d8cad7b) # Failed
  PROVE  Moves(s, Run(s, upgrade_8d817d8cad7b), 23)
  <1>1. /\ Len(upgrade_8d817d8cad7b) \in Nat
        /\ \A n \in 1..Len(upgrade_8d817d8cad7b) : Aside(upgrade_8d817d8cad7b[n])
    BY AsideStatements DEF upgrade_8d817d8cad7b
  <1>2. \A f : IsColumns(f, 22) => IsColumns(f, 23)
    BY DEF IsColumns
  <1> QED
    BY <1>1, <1>2, AsideMoves

LEMMA Downgrade3 ==
  ASSUME NEW s, Fits(s, 3), Run(s, downgrade_c0b46f3a0fc3) # Failed
  PROVE  Moves(s, Run(s, downgrade_c0b46f3a0fc3), 2)
  <1>1. /\ Len(downgrade_c0b46f3a0fc3) \in Nat
        /\ \A n \in 1..Len(downgrade_c0b46f3a0fc3) : Aside(downgrade_c0b46f3a0fc3[n])
    BY AsideStatements DEF downgrade_c0b46f3a0fc3
  <1>2. \A f : IsColumns(f, 3) => IsColumns(f, 2)
    BY DEF IsColumns
  <1> QED
    BY <1>1, <1>2, AsideMoves

LEMMA Downgrade10 ==
  ASSUME NEW s, Fits(s, 10), Run(s, downgrade_4498a252d507) # Failed
  PROVE  Moves(s, Run(s, downgrade_4498a252d507), 9)
  <1>1. /\ Len(downgrade_4498a252d507) \in Nat
        /\ \A n \in 1..Len(downgrade_4498a252d507) : Aside(downgrade_4498a252d507[n])
    BY AsideStatements DEF downgrade_4498a252d507
  <1>2. \A f : IsColumns(f, 10) => IsColumns(f, 9)
    BY DEF IsColumns
  <1> QED
    BY <1>1, <1>2, AsideMoves

LEMMA Downgrade11 ==
  ASSUME NEW s, Fits(s, 11), Run(s, downgrade_4a8e7d2da15d) # Failed
  PROVE  Moves(s, Run(s, downgrade_4a8e7d2da15d), 10)
  <1>1. /\ Len(downgrade_4a8e7d2da15d) \in Nat
        /\ \A n \in 1..Len(downgrade_4a8e7d2da15d) : Aside(downgrade_4a8e7d2da15d[n])
    BY AsideStatements DEF downgrade_4a8e7d2da15d
  <1>2. \A f : IsColumns(f, 11) => IsColumns(f, 10)
    BY DEF IsColumns
  <1> QED
    BY <1>1, <1>2, AsideMoves

LEMMA Downgrade13 ==
  ASSUME NEW s, Fits(s, 13), Run(s, downgrade_29466908bf3e) # Failed
  PROVE  Moves(s, Run(s, downgrade_29466908bf3e), 12)
  <1> DEFINE st == AlterNull("tier", "created_at", FALSE)
  <1>1. /\ Len(downgrade_29466908bf3e) \in Nat
        /\ \A n \in 1..Len(downgrade_29466908bf3e) : Aside(downgrade_29466908bf3e[n])
    <2>1. downgrade_29466908bf3e =
              <<st, AlterType("tier", "created_at", "time"),
                CreateTable("post", post("uuid", CreatorOfPost)),
                create_tokenblacklist>>
      BY DEF downgrade_29466908bf3e
    <2>2. Aside(st)
      BY AsideStatements
    <2> HIDE DEF st
    <2> QED
      BY <2>1, <2>2, AsideStatements
  <1>2. \A f : IsColumns(f, 13) => IsColumns(f, 12)
    BY DEF IsColumns
  <1> QED
    BY <1>1, <1>2, AsideMoves

LEMMA Downgrade18 ==
  ASSUME NEW s, Fits(s, 18), Run(s, downgrade_33cfec9c9fc5) # Failed
  PROVE  Moves(s, Run(s, downgrade_33cfec9c9fc5), 17)
  <1>1. /\ Len(downgrade_33cfec9c9fc5) \in Nat
        /\ \A n \in 1..Len(downgrade_33cfec9c9fc5) : Aside(downgrade_33cfec9c9fc5[n])
    BY AsideStatements DEF downgrade_33cfec9c9fc5
  <1>2. \A f : IsColumns(f, 18) => IsColumns(f, 17)
    BY DEF IsColumns
  <1> QED
    BY <1>1, <1>2, AsideMoves

LEMMA Downgrade20 ==
  ASSUME NEW s, Fits(s, 20), Run(s, downgrade_605f88e55e7a) # Failed
  PROVE  Moves(s, Run(s, downgrade_605f88e55e7a), 19)
  <1>1. /\ Len(downgrade_605f88e55e7a) \in Nat
        /\ \A n \in 1..Len(downgrade_605f88e55e7a) : Aside(downgrade_605f88e55e7a[n])
    BY AsideStatements DEF downgrade_605f88e55e7a
  <1>2. \A f : IsColumns(f, 20) => IsColumns(f, 19)
    BY DEF IsColumns
  <1> QED
    BY <1>1, <1>2, AsideMoves

LEMMA Downgrade21 ==
  ASSUME NEW s, Fits(s, 21), Run(s, downgrade_36953a014b97) # Failed
  PROVE  Moves(s, Run(s, downgrade_36953a014b97), 20)
  <1>1. /\ Len(downgrade_36953a014b97) \in Nat
        /\ \A n \in 1..Len(downgrade_36953a014b97) : Aside(downgrade_36953a014b97[n])
    BY AsideStatements DEF downgrade_36953a014b97
  <1>2. \A f : IsColumns(f, 21) => IsColumns(f, 20)
    BY DEF IsColumns
  <1> QED
    BY <1>1, <1>2, AsideMoves

LEMMA Downgrade22 ==
  ASSUME NEW s, Fits(s, 22), Run(s, downgrade_656df8b99e6a) # Failed
  PROVE  Moves(s, Run(s, downgrade_656df8b99e6a), 21)
  <1>1. /\ Len(downgrade_656df8b99e6a) \in Nat
        /\ \A n \in 1..Len(downgrade_656df8b99e6a) : Aside(downgrade_656df8b99e6a[n])
    BY AsideStatements DEF downgrade_656df8b99e6a
  <1>2. \A f : IsColumns(f, 22) => IsColumns(f, 21)
    BY DEF IsColumns
  <1> QED
    BY <1>1, <1>2, AsideMoves

LEMMA Downgrade23 ==
  ASSUME NEW s, Fits(s, 23), Run(s, downgrade_8d817d8cad7b) # Failed
  PROVE  Moves(s, Run(s, downgrade_8d817d8cad7b), 22)
  <1>1. /\ Len(downgrade_8d817d8cad7b) \in Nat
        /\ \A n \in 1..Len(downgrade_8d817d8cad7b) : Aside(downgrade_8d817d8cad7b[n])
    BY AsideStatements DEF downgrade_8d817d8cad7b
  <1>2. \A f : IsColumns(f, 23) => IsColumns(f, 22)
    BY DEF IsColumns
  <1> QED
    BY <1>1, <1>2, AsideMoves

-----------------------------------------------------------------------------
(* The revisions that create and drop user.                                *)

LEMMA Upgrade1 ==
  ASSUME NEW s, Fits(s, 0), Run(s, upgrade_5b0c04db4041) # Failed
  PROVE  Moves(s, Run(s, upgrade_5b0c04db4041), 1)
  <1> DEFINE s1 == Exec(s, CreateTable("tier", tier_5b0c04db4041))
             s2 == Exec(s1, CreateTable("ratelimit", ratelimit_5b0c04db4041))
             s3 == Exec(s2, CreateTable("user", user_5b0c04db4041))
             cols == user_5b0c04db4041.cols
  <1>1. Run(s, upgrade_5b0c04db4041) = s3
    BY RunThree DEF upgrade_5b0c04db4041
  <1>2. s3 # Failed /\ s2 # Failed /\ s1 # Failed
    BY <1>1, NotAfterFailure
  <1>3. s1 = Put(s, "tier", tier_5b0c04db4041)
    BY <1>2, CreateTableDoes
  <1>4. s2 = Put(s1, "ratelimit", ratelimit_5b0c04db4041)
    BY <1>2, CreateTableDoes
  <1>5. s3 = Put(s2, "user", user_5b0c04db4041) /\ ~ Has(s2, "user")
    BY <1>2, CreateTableDoes
  <1> HIDE DEF s1, s2, s3
  <1>6. IsColumns(cols, 1)
    <2>1. /\ cols = [c \in DOMAIN cols |-> cols[c]]
          /\ DOMAIN cols = Always \cup {"uuid", "hashed_password", "tier_id"}
      BY DEF user_5b0c04db4041, Table, Always
    <2>2. /\ cols["id"] = Req("int") /\ cols["uuid"] = Req("uuid")
          /\ cols["created_at"] = Req("time") /\ cols["updated_at"] = Opt("time")
          /\ cols["deleted_at"] = Opt("time") /\ cols["tier_id"] = Opt("int")
          /\ cols["hashed_password"] = Req("text") /\ cols["is_superuser"] = Req("bool")
          /\ cols["is_deleted"] = Req("bool") /\ cols["name"] = Req("text")
          /\ cols["username"] = Req("text") /\ cols["email"] = Req("text")
          /\ cols["profile_image_url"] = Req("text")
      BY DEF user_5b0c04db4041, Table
    <2> HIDE DEF cols
    <2> QED
      BY <2>1, <2>2 DEF IsColumns, Always
  <1>7. DOMAIN user_5b0c04db4041 = UserFields /\ user_5b0c04db4041.rows = {}
    BY DEF user_5b0c04db4041, Table, UserFields
  <1>8. "cols" \in DOMAIN tier_5b0c04db4041 /\ "cols" \in DOMAIN ratelimit_5b0c04db4041
    BY DEF tier_5b0c04db4041, ratelimit_5b0c04db4041, Table
  <1>9. HasTable(s3, "tier") /\ HasTable(s3, "ratelimit")
    BY <1>3, <1>4, <1>5, <1>8 DEF HasTable, Has, Put
  <1>10. ~ Has(s, "user") /\ Has(s3, "user") /\ s3["user"] = user_5b0c04db4041
    BY <1>3, <1>4, <1>5 DEF Has, Put
  <1>11. FitsUser(user_5b0c04db4041, 1)
    BY <1>6, <1>7 DEF FitsUser, OnePerAddress
  <1> QED
    BY <1>1, <1>7, <1>9, <1>10, <1>11 DEF Moves, Fits, Rows

(* What revision 569174511974 creates is what the application creates.     *)
LEMMA HeadTables ==
  /\ user_569174511974 = ModelTable["user"] /\ timelog = ModelTable["timelog"]
  /\ \A t \in Models : DOMAIN ModelTable[t] = UserFields /\ ModelTable[t].rows = {}
                      /\ [ModelTable[t] EXCEPT !.rows = {}] = ModelTable[t]
  /\ EmailKept(ModelTable["user"].keys)
  <1>1. user_569174511974 = ModelTable["user"]
    BY DEF user_569174511974, ModelTable, Table
  <1>2. timelog = ModelTable["timelog"]
    BY DEF timelog, ModelTable
  <1>3. /\ DOMAIN ModelTable["user"] = UserFields /\ ModelTable["user"].rows = {}
        /\ [ModelTable["user"] EXCEPT !.rows = {}] = ModelTable["user"]
    BY DEF ModelTable, Table, UserFields
  <1>4. /\ DOMAIN ModelTable["timelog"] = UserFields /\ ModelTable["timelog"].rows = {}
        /\ [ModelTable["timelog"] EXCEPT !.rows = {}] = ModelTable["timelog"]
    BY DEF ModelTable, Table, UserFields
  <1>5. EmailKept(ModelTable["user"].keys)
    <2>1. Key(UniqueKeyOf("user", "email"), {"email"}) \in ModelTable["user"].keys
      BY DEF ModelTable, Table
    <2>2. Key(UniqueKeyOf("user", "email"), {"email"}).on = {"email"}
      BY DEF Key
    <2> QED
      BY <2>1, <2>2 DEF EmailKept
  <1> QED
    BY <1>1, <1>2, <1>3, <1>4, <1>5 DEF Models

LEMMA ModelUserFits == \A i \in {0, 24, 25} : FitsUser(ModelTable["user"], i)
  BY HeadTables, ModelColumns DEF FitsUser, OnePerAddress, Models

LEMMA Upgrade25 ==
  ASSUME NEW s, Fits(s, 24), Run(s, upgrade_569174511974) # Failed
  PROVE  Moves(s, Run(s, upgrade_569174511974), 25)
  <1> DEFINE s1 == Exec(s, CreateTable("user", user_569174511974))
             s2 == Exec(s1, CreateTable("timelog", timelog))
  <1>1. Run(s, upgrade_569174511974) = s2
    BY RunTwo DEF upgrade_569174511974
  <1>2. s2 # Failed /\ s1 # Failed
    BY <1>1, NotAfterFailure
  <1>3. s1 = Put(s, "user", user_569174511974) /\ ~ Has(s, "user")
    BY <1>2, CreateTableDoes
  <1>4. s2 = Put(s1, "timelog", timelog)
    BY <1>2, CreateTableDoes
  <1> HIDE DEF s1, s2
  <1>5. HasTable(s2, "tier") /\ HasTable(s2, "ratelimit")
    BY <1>3, <1>4 DEF HasTable, Has, Put, Fits
  <1>6. \A t \in Models : Has(s2, t) /\ s2[t] = ModelTable[t]
    BY <1>3, <1>4, HeadTables DEF Models, Has, Put
  <1>7. \A t \in Models : Has(s2, t) /\ [s2[t] EXCEPT !.rows = {}] = ModelTable[t]
    BY <1>6, HeadTables
  <1>8. "user" \in Models
    BY DEF Models
  <1>9. FitsUser(s2["user"], 25) /\ s2["user"].rows = {}
    BY <1>6, <1>8, ModelUserFits, HeadTables
  <1>10. Fits(s2, 25)
    BY <1>5, <1>7, <1>9 DEF Fits
  <1>11. Rows(s, "user") = {} /\ Rows(s2, "user") = {}
    BY <1>3, <1>9 DEF Rows
  <1> QED
    BY <1>1, <1>10, <1>11 DEF Moves

LEMMA Downgrade25 ==
  ASSUME NEW s, Fits(s, 25), Run(s, downgrade_569174511974) # Failed
  PROVE  Fits(Run(s, downgrade_569174511974), 24)
  <1> DEFINE s1 == Exec(s, DropTable("timelog"))
             s2 == Exec(s1, DropTable("user"))
  <1>1. Run(s, downgrade_569174511974) = s2
    BY RunTwo DEF downgrade_569174511974
  <1>2. s2 # Failed /\ s1 # Failed
    BY <1>1, NotAfterFailure
  <1>3. s1 = Without(s, "timelog") /\ s2 = Without(s1, "user")
    BY <1>2, DropTableDoes
  <1> HIDE DEF s1, s2
  <1>4. HasTable(s2, "tier") /\ HasTable(s2, "ratelimit") /\ ~ Has(s2, "user")
    BY <1>3 DEF HasTable, Has, Without, Fits
  <1> QED
    BY <1>1, <1>4 DEF Fits

LEMMA Downgrade1 ==
  ASSUME NEW s, Run(s, downgrade_5b0c04db4041) # Failed
  PROVE  Fits(Run(s, downgrade_5b0c04db4041), 0)
  <1> DEFINE s1 == Exec(s, DropTable("user"))
             s2 == Exec(s1, DropTable("ratelimit"))
             s3 == Exec(s2, DropTable("tier"))
  <1>1. Run(s, downgrade_5b0c04db4041) = s3
    BY RunThree DEF downgrade_5b0c04db4041
  <1>2. s3 # Failed /\ s2 # Failed /\ s1 # Failed
    BY <1>1, NotAfterFailure
  <1>3. s1 = Without(s, "user") /\ s2 = Without(s1, "ratelimit") /\ s3 = Without(s2, "tier")
    BY <1>2, DropTableDoes
  <1> HIDE DEF s1, s2, s3
  <1>4. ~ Has(s3, "user")
    BY <1>3 DEF Has, Without
  <1> QED
    BY <1>1, <1>4 DEF Fits

-----------------------------------------------------------------------------
(* The downgrades that never get through: three drop a constraint without  *)
(* naming it, two turn text into uuid.                                     *)
LEMMA Downgrade2 == \A s : Run(s, downgrade_75bcf320385f) = Failed
  BY RunOne, Raises DEF downgrade_75bcf320385f, DropUnnamed

LEMMA Downgrade4 == \A s : Run(s, downgrade_5c0e43231c13) = Failed
  BY RunThree, Raises, NotAfterFailure DEF downgrade_5c0e43231c13, DropUnnamed

LEMMA Downgrade15 == \A s : Run(s, downgrade_61fcea1dca3b) = Failed
  BY RunThree, Raises, NotAfterFailure DEF downgrade_61fcea1dca3b, DropUnnamed

LEMMA Downgrade16 ==
  ASSUME NEW s, Fits(s, 16)
  PROVE  Run(s, downgrade_075f641caa2e) = Failed
  <1>1. Has(s, "user")
    BY DEF Fits
  <1>2. s["user"].cols["uuid"] = Req("text")
    <2>1. IsColumns(s["user"].cols, 16)
      BY <1>1, UserOfFits
    <2> QED
      BY <2>1 DEF IsColumns
  <1>3. s["user"].cols["uuid"].type = "text"
    BY <1>2 DEF Req
  <1>4. Exec(s, AlterType("user", "uuid", "uuid")) = Failed
    BY <1>3, AlterTypeDoes
  <1> QED
    BY <1>4, RunTwo, NotAfterFailure DEF downgrade_075f641caa2e

LEMMA Downgrade19 ==
  ASSUME NEW s, Fits(s, 19)
  PROVE  Run(s, downgrade_b7ec49f8797d) = Failed
  <1>1. Has(s, "user")
    BY DEF Fits
  <1>2. s["user"].cols["id"] = Req("text")
    <2>1. IsColumns(s["user"].cols, 19)
      BY <1>1, UserOfFits
    <2> QED
      BY <2>1 DEF IsColumns
  <1>3. s["user"].cols["id"].type = "text"
    BY <1>2 DEF Req
  <1>4. Exec(s, AlterType("user", "id", "uuid")) = Failed
    BY <1>3, AlterTypeDoes
  <1> QED
    BY <1>4, RunOne DEF downgrade_b7ec49f8797d

-----------------------------------------------------------------------------
(* Every revision that gets through leads from its schemas to those of the *)
(* next stamp; an upgrade keeps the accounts.                              *)

LEMMA UpgradeFits ==
  ASSUME NEW i \in 1..25, NEW s, Fits(s, i - 1), Run(s, Upgrades[i]) # Failed
  PROVE  Moves(s, Run(s, Upgrades[i]), i)
  <1> DEFINE Goal == Moves(s, Run(s, Upgrades[i]), i)
  <1>1. ASSUME i = 1 PROVE Goal
    <2>1. Upgrades[i] = upgrade_5b0c04db4041 /\ i - 1 = 0
      BY <1>1 DEF Upgrades
    <2> QED
      BY <1>1, <2>1, Upgrade1
  <1>2. ASSUME i = 2 PROVE Goal
    <2>1. Upgrades[i] = upgrade_75bcf320385f /\ i - 1 = 1
      BY <1>2 DEF Upgrades
    <2> QED
      BY <1>2, <2>1, Upgrade2
  <1>3. ASSUME i = 3 PROVE Goal
    <2>1. Upgrades[i] = upgrade_c0b46f3a0fc3 /\ i - 1 = 2
      BY <1>3 DEF Upgrades
    <2> QED
      BY <1>3, <2>1, Upgrade3
  <1>4. ASSUME i = 4 PROVE Goal
    <2>1. Upgrades[i] = upgrade_5c0e43231c13 /\ i - 1 = 3
      BY <1>4 DEF Upgrades
    <2> QED
      BY <1>4, <2>1, Upgrade4
  <1>5. ASSUME i = 5 PROVE Goal
    <2>1. Upgrades[i] = upgrade_016ee7d6b0b9 /\ i - 1 = 4
      BY <1>5 DEF Upgrades
    <2> QED
      BY <1>5, <2>1, Upgrade5
  <1>6. ASSUME i = 6 PROVE Goal
    <2>1. Upgrades[i] = upgrade_a537e639c8a5 /\ i - 1 = 5
      BY <1>6 DEF Upgrades
    <2> QED
      BY <1>6, <2>1, Upgrade6
  <1>7. ASSUME i = 7 PROVE Goal
    <2>1. Upgrades[i] = upgrade_8b8e624d3a28 /\ i - 1 = 6
      BY <1>7 DEF Upgrades
    <2> QED
      BY <1>7, <2>1, Upgrade7
  <1>8. ASSUME i = 8 PROVE Goal
    <2>1. Upgrades[i] = upgrade_3ecb4e9492d0 /\ i - 1 = 7
      BY <1>8 DEF Upgrades
    <2> QED
      BY <1>8, <2>1, Upgrade8
  <1>9. ASSUME i = 9 PROVE Goal
    <2>1. Upgrades[i] = upgrade_623ef1e66179 /\ i - 1 = 8
      BY <1>9 DEF Upgrades
    <2> QED
      BY <1>9, <2>1, Upgrade9
  <1>10. ASSUME i = 10 PROVE Goal
    <2>1. Upgrades[i] = upgrade_4498a252d507 /\ i - 1 = 9
      BY <1>10 DEF Upgrades
    <2> QED
      BY <1>10, <2>1, Upgrade10
  <1>11. ASSUME i = 11 PROVE Goal
    <2>1. Upgrades[i] = upgrade_4a8e7d2da15d /\ i - 1 = 10
      BY <1>11 DEF Upgrades
    <2> QED
      BY <1>11, <2>1, Upgrade11
  <1>12. ASSUME i = 12 PROVE Goal
    <2>1. Upgrades[i] = upgrade_d04e0ac2b737 /\ i - 1 = 11
      BY <1>12 DEF Upgrades
    <2> QED
      BY <1>12, <2>1, Upgrade12
  <1>13. ASSUME i = 13 PROVE Goal
    <2>1. Upgrades[i] = upgrade_29466908bf3e /\ i - 1 = 12
      BY <1>13 DEF Upgrades
    <2> QED
      BY <1>13, <2>1, Upgrade13
  <1>14. ASSUME i = 14 PROVE Goal
    <2>1. Upgrades[i] = upgrade_bd840a3fc487 /\ i - 1 = 13
      BY <1>14 DEF Upgrades
    <2> QED
      BY <1>14, <2>1, Upgrade14
  <1>15. ASSUME i = 15 PROVE Goal
    <2>1. Upgrades[i] = upgrade_61fcea1dca3b /\ i - 1 = 14
      BY <1>15 DEF Upgrades
    <2> QED
      BY <1>15, <2>1, Upgrade15
  <1>16. ASSUME i = 16 PROVE Goal
    <2>1. Upgrades[i] = upgrade_075f641caa2e /\ i - 1 = 15
      BY <1>16 DEF Upgrades
    <2> QED
      BY <1>16, <2>1, Upgrade16
  <1>17. ASSUME i = 17 PROVE Goal
    <2>1. Upgrades[i] = upgrade_bca954b13aff /\ i - 1 = 16
      BY <1>17 DEF Upgrades
    <2> QED
      BY <1>17, <2>1, Upgrade17
  <1>18. ASSUME i = 18 PROVE Goal
    <2>1. Upgrades[i] = upgrade_33cfec9c9fc5 /\ i - 1 = 17
      BY <1>18 DEF Upgrades
    <2> QED
      BY <1>18, <2>1, Upgrade18
  <1>19. ASSUME i = 19 PROVE Goal
    <2>1. Upgrades[i] = upgrade_b7ec49f8797d /\ i - 1 = 18
      BY <1>19 DEF Upgrades
    <2> QED
      BY <1>19, <2>1, Upgrade19
  <1>20. ASSUME i = 20 PROVE Goal
    <2>1. Upgrades[i] = upgrade_605f88e55e7a /\ i - 1 = 19
      BY <1>20 DEF Upgrades
    <2> QED
      BY <1>20, <2>1, Upgrade20
  <1>21. ASSUME i = 21 PROVE Goal
    <2>1. Upgrades[i] = upgrade_36953a014b97 /\ i - 1 = 20
      BY <1>21 DEF Upgrades
    <2> QED
      BY <1>21, <2>1, Upgrade21
  <1>22. ASSUME i = 22 PROVE Goal
    <2>1. Upgrades[i] = upgrade_656df8b99e6a /\ i - 1 = 21
      BY <1>22 DEF Upgrades
    <2> QED
      BY <1>22, <2>1, Upgrade22
  <1>23. ASSUME i = 23 PROVE Goal
    <2>1. Upgrades[i] = upgrade_8d817d8cad7b /\ i - 1 = 22
      BY <1>23 DEF Upgrades
    <2> QED
      BY <1>23, <2>1, Upgrade23
  <1>24. ASSUME i = 24 PROVE Goal
    <2>1. Upgrades[i] = upgrade_40be74e6375e /\ i - 1 = 23
      BY <1>24 DEF Upgrades
    <2> QED
      BY <1>24, <2>1, Upgrade24
  <1>25. ASSUME i = 25 PROVE Goal
    <2>1. Upgrades[i] = upgrade_569174511974 /\ i - 1 = 24
      BY <1>25 DEF Upgrades
    <2> QED
      BY <1>25, <2>1, Upgrade25
  <1> HIDE DEF Goal
  <1> QED
    BY <1>1, <1>2, <1>3, <1>4, <1>5, <1>6, <1>7, <1>8, <1>9, <1>10, <1>11, <1>12, <1>13,
       <1>14, <1>15, <1>16, <1>17, <1>18, <1>19, <1>20, <1>21, <1>22, <1>23, <1>24, <1>25 DEF Goal

LEMMA DowngradeFits ==
  ASSUME NEW i \in 1..25, NEW s, Fits(s, i), Run(s, Downgrades[i]) # Failed
  PROVE  Fits(Run(s, Downgrades[i]), i - 1)
  <1> DEFINE Goal == Fits(Run(s, Downgrades[i]), i - 1)
  <1>1. ASSUME i = 1 PROVE Goal
    <2>1. Downgrades[i] = downgrade_5b0c04db4041 /\ i - 1 = 0
      BY <1>1 DEF Downgrades
    <2> QED
      BY <1>1, <2>1, Downgrade1
  <1>2. ASSUME i = 2 PROVE Goal
    <2>1. Downgrades[i] = downgrade_75bcf320385f /\ i - 1 = 1
      BY <1>2 DEF Downgrades
    <2> QED
      BY <1>2, <2>1, Downgrade2
  <1>3. ASSUME i = 3 PROVE Goal
    <2>1. Downgrades[i] = downgrade_c0b46f3a0fc3 /\ i - 1 = 2
      BY <1>3 DEF Downgrades
    <2> QED
      BY <1>3, <2>1, Downgrade3 DEF Moves
  <1>4. ASSUME i = 4 PROVE Goal
    <2>1. Downgrades[i] = downgrade_5c0e43231c13 /\ i - 1 = 3
      BY <1>4 DEF Downgrades
    <2> QED
      BY <1>4, <2>1, Downgrade4
  <1>5. ASSUME i = 5 PROVE Goal
    <2>1. Downgrades[i] = downgrade_016ee7d6b0b9 /\ i - 1 = 4
      BY <1>5 DEF Downgrades
    <2> QED
      BY <1>5, <2>1, Downgrade5 DEF Moves
  <1>6. ASSUME i = 6 PROVE Goal
    <2>1. Downgrades[i] = downgrade_a537e639c8a5 /\ i - 1 = 5
      BY <1>6 DEF Downgrades
    <2> QED
      BY <1>6, <2>1, Downgrade6 DEF Moves
  <1>7. ASSUME i = 7 PROVE Goal
    <2>1. Downgrades[i] = downgrade_8b8e624d3a28 /\ i - 1 = 6
      BY <1>7 DEF Downgrades
    <2> QED
      BY <1>7, <2>1, Downgrade7 DEF Moves
  <1>8. ASSUME i = 8 PROVE Goal
    <2>1. Downgrades[i] = downgrade_3ecb4e9492d0 /\ i - 1 = 7
      BY <1>8 DEF Downgrades
    <2> QED
      BY <1>8, <2>1, Downgrade8 DEF Moves
  <1>9. ASSUME i = 9 PROVE Goal
    <2>1. Downgrades[i] = downgrade_623ef1e66179 /\ i - 1 = 8
      BY <1>9 DEF Downgrades
    <2> QED
      BY <1>9, <2>1, Downgrade9 DEF Moves
  <1>10. ASSUME i = 10 PROVE Goal
    <2>1. Downgrades[i] = downgrade_4498a252d507 /\ i - 1 = 9
      BY <1>10 DEF Downgrades
    <2> QED
      BY <1>10, <2>1, Downgrade10 DEF Moves
  <1>11. ASSUME i = 11 PROVE Goal
    <2>1. Downgrades[i] = downgrade_4a8e7d2da15d /\ i - 1 = 10
      BY <1>11 DEF Downgrades
    <2> QED
      BY <1>11, <2>1, Downgrade11 DEF Moves
  <1>12. ASSUME i = 12 PROVE Goal
    <2>1. Downgrades[i] = downgrade_d04e0ac2b737 /\ i - 1 = 11
      BY <1>12 DEF Downgrades
    <2> QED
      BY <1>12, <2>1, Downgrade12 DEF Moves
  <1>13. ASSUME i = 13 PROVE Goal
    <2>1. Downgrades[i] = downgrade_29466908bf3e /\ i - 1 = 12
      BY <1>13 DEF Downgrades
    <2> QED
      BY <1>13, <2>1, Downgrade13 DEF Moves
  <1>14. ASSUME i = 14 PROVE Goal
    <2>1. Downgrades[i] = downgrade_bd840a3fc487 /\ i - 1 = 13
      BY <1>14 DEF Downgrades
    <2> QED
      BY <1>14, <2>1, Downgrade14 DEF Moves
  <1>15. ASSUME i = 15 PROVE Goal
    <2>1. Downgrades[i] = downgrade_61fcea1dca3b /\ i - 1 = 14
      BY <1>15 DEF Downgrades
    <2> QED
      BY <1>15, <2>1, Downgrade15
  <1>16. ASSUME i = 16 PROVE Goal
    <2>1. Downgrades[i] = downgrade_075f641caa2e /\ i - 1 = 15
      BY <1>16 DEF Downgrades
    <2> QED
      BY <1>16, <2>1, Downgrade16
  <1>17. ASSUME i = 17 PROVE Goal
    <2>1. Downgrades[i] = downgrade_bca954b13aff /\ i - 1 = 16
      BY <1>17 DEF Downgrades
    <2> QED
      BY <1>17, <2>1, Downgrade17 DEF Moves
  <1>18. ASSUME i = 18 PROVE Goal
    <2>1. Downgrades[i] = downgrade_33cfec9c9fc5 /\ i - 1 = 17
      BY <1>18 DEF Downgrades
    <2> QED
      BY <1>18, <2>1, Downgrade18 DEF Moves
  <1>19. ASSUME i = 19 PROVE Goal
    <2>1. Downgrades[i] = downgrade_b7ec49f8797d /\ i - 1 = 18
      BY <1>19 DEF Downgrades
    <2> QED
      BY <1>19, <2>1, Downgrade19
  <1>20. ASSUME i = 20 PROVE Goal
    <2>1. Downgrades[i] = downgrade_605f88e55e7a /\ i - 1 = 19
      BY <1>20 DEF Downgrades
    <2> QED
      BY <1>20, <2>1, Downgrade20 DEF Moves
  <1>21. ASSUME i = 21 PROVE Goal
    <2>1. Downgrades[i] = downgrade_36953a014b97 /\ i - 1 = 20
      BY <1>21 DEF Downgrades
    <2> QED
      BY <1>21, <2>1, Downgrade21 DEF Moves
  <1>22. ASSUME i = 22 PROVE Goal
    <2>1. Downgrades[i] = downgrade_656df8b99e6a /\ i - 1 = 21
      BY <1>22 DEF Downgrades
    <2> QED
      BY <1>22, <2>1, Downgrade22 DEF Moves
  <1>23. ASSUME i = 23 PROVE Goal
    <2>1. Downgrades[i] = downgrade_8d817d8cad7b /\ i - 1 = 22
      BY <1>23 DEF Downgrades
    <2> QED
      BY <1>23, <2>1, Downgrade23 DEF Moves
  <1>24. ASSUME i = 24 PROVE Goal
    <2>1. Downgrades[i] = downgrade_40be74e6375e /\ i - 1 = 23
      BY <1>24 DEF Downgrades
    <2> QED
      BY <1>24, <2>1, Downgrade24 DEF Moves
  <1>25. ASSUME i = 25 PROVE Goal
    <2>1. Downgrades[i] = downgrade_569174511974 /\ i - 1 = 24
      BY <1>25 DEF Downgrades
    <2> QED
      BY <1>25, <2>1, Downgrade25
  <1> HIDE DEF Goal
  <1> QED
    BY <1>1, <1>2, <1>3, <1>4, <1>5, <1>6, <1>7, <1>8, <1>9, <1>10, <1>11, <1>12, <1>13,
       <1>14, <1>15, <1>16, <1>17, <1>18, <1>19, <1>20, <1>21, <1>22, <1>23, <1>24, <1>25 DEF Goal

-----------------------------------------------------------------------------
(* What the application does to a schema: another set of accounts, and the *)
(* tables of its models where they are missing.                            *)

LEMMA OtherRows ==
  ASSUME NEW i \in Stamp, NEW s, NEW after, NEW rows, Fits(s, i), OnePerAddress(rows),
         DOMAIN after = DOMAIN s, \A t \in DOMAIN s \ {"user"} : after[t] = s[t],
         Has(s, "user") => after["user"] = [s["user"] EXCEPT !.rows = rows]
  PROVE  Fits(after, i)
  <1>1. i \in 1..25 => HasTable(after, "tier") /\ HasTable(after, "ratelimit")
    BY DEF Fits, HasTable, Has
  <1>2. i \in 1..23 => Has(after, "user")
    BY DEF Fits, Has
  <1>3. ASSUME Has(after, "user")
        PROVE  /\ FitsUser(after["user"], i)
               /\ [after["user"] EXCEPT !.rows = {}] = [s["user"] EXCEPT !.rows = {}]
    <2>1. /\ Has(s, "user")
          /\ FitsUser(s["user"], i)
          /\ after["user"] = [s["user"] EXCEPT !.rows = rows]
      BY <1>3 DEF Has, Fits
    <2> DEFINE old == s["user"]
               new == after["user"]
    <2>2. /\ DOMAIN new = UserFields /\ DOMAIN old = UserFields
          /\ new.cols = old.cols /\ new.keys = old.keys /\ new.rows = rows
          /\ [new EXCEPT !.rows = {}] = [old EXCEPT !.rows = {}]
      BY <2>1 DEF FitsUser, UserFields
    <2> HIDE DEF old, new
    <2>3. FitsUser(new, i)
      BY <2>1, <2>2 DEF FitsUser, old
    <2> QED
      BY <2>2, <2>3 DEF old, new
  <1>4. ASSUME i = 25, NEW t \in Models
        PROVE  Has(after, t) /\ [after[t] EXCEPT !.rows = {}] = ModelTable[t]
    BY <1>3, <1>4 DEF Fits, Has
  <1> QED
    BY <1>1, <1>2, <1>3, <1>4 DEF Fits

LEMMA TablesCreated ==
  ASSUME NEW i \in Stamp, NEW s, NEW after, NEW ts \in SUBSET Models, Fits(s, i),
         ts \cap DOMAIN s = {}, DOMAIN after = DOMAIN s \cup ts,
         \A t \in DOMAIN s : after[t] = s[t], \A t \in ts : after[t] = ModelTable[t]
  PROVE  Fits(after, i)
  <1>1. i \in 1..25 => HasTable(after, "tier") /\ HasTable(after, "ratelimit")
    BY DEF Fits, HasTable, Has
  <1>2. i \in 1..23 => Has(after, "user")
    BY DEF Fits, Has
  <1>3. Has(after, "user") => FitsUser(after["user"], i)
    <2>1. CASE Has(s, "user")
      BY <2>1 DEF Has, Fits
    <2>2. CASE ~ Has(s, "user")
      <3>1. i \in {0, 24, 25}
        BY <2>2, StampNumbers DEF Fits
      <3> QED
        BY <2>2, <3>1, ModelUserFits DEF Has
    <2> QED
      BY <2>1, <2>2
  <1>4. i = 25 => \A t \in Models : Has(after, t) /\ [after[t] EXCEPT !.rows = {}] = ModelTable[t]
    BY DEF Fits, Has
  <1> QED
    BY <1>1, <1>2, <1>3, <1>4 DEF Fits

(* An account is inserted only where the columns are those of the models,  *)
(* which is where a key is on the address.                                 *)
LEMMA AccountInserted ==
  ASSUME NEW i \in Stamp, NEW s, NEW row, Fits(s, i), Has(s, "user"),
         "uuid" \in DOMAIN s["user"].cols, s["user"].cols["uuid"].type = "text",
         \A k \in s["user"].keys : k.on = {"email"} =>
           \A r \in s["user"].rows : r.email # row.email
  PROVE  Fits([s EXCEPT !["user"] = [s["user"] EXCEPT !.rows = s["user"].rows \cup {row}]], i)
  <1> DEFINE rows == s["user"].rows \cup {row}
             after == [s EXCEPT !["user"] = [s["user"] EXCEPT !.rows = rows]]
  <1>1. FitsUser(s["user"], i)
    BY DEF Fits
  <1>2. i = 0 \/ i >= 16
    <2>1. SUFFICES ASSUME i \in 1..15 PROVE FALSE
      BY StampNumbers
    <2>2. s["user"].cols["uuid"] = Req("uuid")
      BY <1>1, <2>1 DEF FitsUser, IsColumns
    <2> QED
      BY <2>2 DEF Req
  <1>3. OnePerAddress(rows)
    <2>0. EmailKept(s["user"].keys)
      BY <1>1, <1>2, StampNumbers DEF FitsUser
    <2>1. PICK k \in s["user"].keys : k.on = {"email"}
      BY <2>0 DEF EmailKept
    <2>2. \A r \in s["user"].rows : r.email # row.email
      BY <2>1
    <2> QED
      BY <1>1, <2>2 DEF FitsUser, OnePerAddress
  <1>4. /\ DOMAIN after = DOMAIN s /\ \A t \in DOMAIN s \ {"user"} : after[t] = s[t]
        /\ after["user"] = [s["user"] EXCEPT !.rows = rows]
    BY DEF Has
  <1> HIDE DEF rows, after
  <1>5. Fits(after, i)
    BY <1>3, <1>4, OtherRows
  <1> QED
    BY <1>5 DEF after, rows

-----------------------------------------------------------------------------
(* What a transaction sees: the committed schema tb under its own tables.  *)

Seen(tb, own) ==
  [t \in (DOMAIN tb \cup DOMAIN own) \ {u \in DOMAIN own : own[u] = Gone} |->
     IF t \in DOMAIN own THEN own[t] ELSE tb[t]]

LEMMA ViewIsSeen == View = Seen(tables, pending) /\ View' = Seen(tables', pending')
  BY DEF View, Seen

LEMMA SeesAll ==
  ASSUME NEW i \in Stamp, NEW tb, Fits(tb, i)
  PROVE  /\ Fits(Seen(tb, NothingPending), i)
         /\ Rows(Seen(tb, NothingPending), "user") = Rows(tb, "user")
  <1> DEFINE seen == Seen(tb, NothingPending)
  <1>1. DOMAIN seen = DOMAIN tb /\ \A t \in DOMAIN tb : seen[t] = tb[t]
    BY DEF Seen, NothingPending
  <1> HIDE DEF seen
  <1>2. Fits(seen, i) /\ Rows(seen, "user") = Rows(tb, "user")
    BY <1>1 DEF Fits, HasTable, Has, Rows
  <1> QED
    BY <1>2 DEF seen

LEMMA SeenUser ==
  ASSUME NEW tb, NEW own, "user" \notin DOMAIN own
  PROVE  Rows(Seen(tb, own), "user") = Rows(tb, "user")
  BY DEF Seen, Rows, Has

LEMMA SeenCreated ==
  ASSUME NEW i \in Stamp, NEW tb, NEW own, NEW ts \in SUBSET Models, NEW after,
         Fits(Seen(tb, own), i), ts \cap DOMAIN tb = {}, ts \cap DOMAIN own = {},
         DOMAIN after = DOMAIN tb \cup ts,
         \A t \in DOMAIN tb : after[t] = tb[t], \A t \in ts : after[t] = ModelTable[t]
  PROVE  Fits(Seen(after, own), i)
  <1> DEFINE s == Seen(tb, own)
             r == Seen(after, own)
  <1>1. ts \cap DOMAIN s = {} /\ DOMAIN r = DOMAIN s \cup ts
    BY DEF Seen
  <1>2. \A t \in DOMAIN s : r[t] = s[t]
    BY DEF Seen
  <1>3. \A t \in ts : r[t] = ModelTable[t]
    BY DEF Seen
  <1> HIDE DEF s, r
  <1>4. Fits(r, i)
    BY <1>1, <1>2, <1>3, TablesCreated DEF s
  <1> QED
    BY <1>4 DEF r

LEMMA SeenInserted ==
  ASSUME NEW tb, NEW own, NEW tab, "user" \in DOMAIN tb, "user" \notin DOMAIN own
  PROVE  /\ Has(Seen(tb, own), "user") /\ Seen(tb, own)["user"] = tb["user"]
         /\ Seen([tb EXCEPT !["user"] = tab], own) = [Seen(tb, own) EXCEPT !["user"] = tab]
  BY DEF Seen, Has

(* Once the transaction has pending what it made of the schema, it sees    *)
(* just that.                                                              *)
LEMMA SeesAfter ==
  ASSUME NEW j \in Stamp, NEW after, Fits(after, j)
  PROVE  /\ Fits(Seen(tables, Pending(after)), j)
         /\ Rows(Seen(tables, Pending(after)), "user") = Rows(after, "user")
  <1> DEFINE own == Pending(after)
             touched == {t \in DOMAIN View \cup DOMAIN after :
                           ~ (Has(View, t) /\ Has(after, t) /\ View[t] = after[t])}
             seen == Seen(tables, own)
  <1>1. own = [t \in DOMAIN pending \cup touched |-> IF Has(after, t) THEN after[t] ELSE Gone]
    BY DEF Pending
  <1>2. /\ DOMAIN View = (DOMAIN tables \cup DOMAIN pending)
                         \ {t \in DOMAIN pending : pending[t] = Gone}
        /\ \A t \in DOMAIN View : t \notin DOMAIN pending => View[t] = tables[t]
    BY DEF View
  <1> HIDE DEF own
  <1>3. ASSUME NEW t \in DOMAIN after, after[t] # Gone
        PROVE  t \in DOMAIN seen /\ seen[t] = after[t]
    <2>1. CASE t \in DOMAIN own
      BY <1>1, <1>3, <2>1 DEF Seen, Has
    <2>2. CASE t \notin DOMAIN own
      <3>1. t \notin DOMAIN pending /\ Has(View, t) /\ View[t] = after[t]
        BY <1>1, <1>3, <2>2
      <3>2. t \in DOMAIN tables /\ tables[t] = after[t]
        BY <1>2, <3>1 DEF Has
      <3> QED
        BY <2>2, <3>2 DEF Seen
    <2> QED
      BY <2>1, <2>2
  <1>4. ASSUME NEW t, t \notin DOMAIN after PROVE t \notin DOMAIN seen
    <2>1. CASE t \in DOMAIN own
      BY <1>1, <1>4, <2>1 DEF Seen, Has
    <2>2. CASE t \notin DOMAIN own
      <3>1. t \notin DOMAIN pending /\ t \notin DOMAIN View
        BY <1>1, <1>4, <2>2 DEF Has
      <3> QED
        BY <1>2, <2>2, <3>1 DEF Seen
    <2> QED
      BY <2>1, <2>2
  <1> HIDE DEF seen
  <1>5. \A x : "cols" \in DOMAIN x => x # Gone
    BY DEF Gone
  <1>6. \A t : HasTable(after, t) => HasTable(seen, t) /\ seen[t] = after[t]
    BY <1>3, <1>5 DEF HasTable, Has
  <1>7. Has(after, "user") => HasTable(after, "user")
    BY DEF Fits, FitsUser, UserFields, HasTable
  <1>8. Has(seen, "user") => Has(after, "user")
    BY <1>4 DEF Has
  <1>9. j = 25 => \A t \in Models : HasTable(after, t)
    <2> SUFFICES ASSUME j = 25, NEW t \in Models PROVE HasTable(after, t)
      OBVIOUS
    <2>1. Has(after, t) /\ [after[t] EXCEPT !.rows = {}] = ModelTable[t]
      BY DEF Fits
    <2>2. DOMAIN after[t] = DOMAIN [after[t] EXCEPT !.rows = {}]
      OBVIOUS
    <2> QED
      BY <2>1, <2>2, HeadTables DEF HasTable, UserFields
  <1>10. Fits(seen, j)
    BY <1>6, <1>7, <1>8, <1>9 DEF Fits, HasTable
  <1>11. Rows(seen, "user") = Rows(after, "user")
    BY <1>6, <1>7, <1>8 DEF Rows, HasTable
  <1> QED
    BY <1>10, <1>11 DEF seen, own

-----------------------------------------------------------------------------
(* The databases earlier releases leave.                                   *)

LEMMA EarlierReleaseFits ==
  ASSUME NEW i \in 1..25, NEW s, s # Failed, Fits(s, i - 1), i = 1 => s = NoTables
  PROVE  Fits(EarlierRelease(s, i), i - 1)
  <1> DEFINE after == EarlierRelease(s, i)
  <1>1. CASE i = 25
    <2>1. after = [t \in DOMAIN s \ {"user"} |-> s[t]]
      BY <1>1, StampNumbers DEF EarlierRelease
    <2> HIDE DEF after
    <2> QED
      BY <1>1, <2>1 DEF Fits, HasTable, Has, after
  <1>2. CASE i \in 2..24
    <2>1. after = [t \in DOMAIN s \cup DroppedBy(i) |->
                     IF t \in DOMAIN LegacyTable THEN LegacyTable[t] ELSE s[t]]
      BY <1>2, StampNumbers DEF EarlierRelease
    <2>2. DOMAIN LegacyTable = {"tokenblacklist", "post", "timelog"}
      BY DEF LegacyTable
    <2> HIDE DEF after
    <2>3. \A t \in Kept : Has(s, t) => Has(after, t) /\ after[t] = s[t]
      BY <2>1, <2>2 DEF Kept, Has
    <2>4. Has(s, "user") /\ i - 1 \in 1..23
      BY <1>2 DEF Fits
    <2>5. Fits(after, i - 1)
      BY <2>3, <2>4 DEF Fits, HasTable, Kept
    <2> QED
      BY <2>5 DEF after
  <1>3. CASE i = 1
    <2>1. Upgrades[1] = upgrade_5b0c04db4041
      BY DEF Upgrades
    <2>2. \A m \in DOMAIN upgrade_5b0c04db4041 : upgrade_5b0c04db4041[m].op = "create_table"
      BY DEF upgrade_5b0c04db4041, CreateTable
    <2>3. DroppedBy(1) = {}
      BY <2>1, <2>2 DEF DroppedBy
    <2>4. after = [t \in DOMAIN s \cup DroppedBy(1) |->
                     IF t \in DOMAIN LegacyTable THEN LegacyTable[t] ELSE s[t]]
      BY <1>3, StampNumbers DEF EarlierRelease
    <2>5. DOMAIN s = {}
      BY <1>3 DEF NoTables
    <2> HIDE DEF after
    <2>6. ~ Has(after, "user")
      BY <2>3, <2>4, <2>5 DEF Has
    <2>7. Fits(after, 0)
      BY <2>6 DEF Fits
    <2> QED
      BY <1>3, <2>7 DEF after
  <1> QED
    BY <1>1, <1>2, <1>3

LEMMA NoTablesFit == Fits(NoTables, 0)
  BY DEF Fits, NoTables, Has

LEMMA NothingRuns ==
  ASSUME NEW statements, Len(statements) \in Nat
  PROVE  Run(Failed, statements) = Failed
  <1>1. PICK after :
          /\ IsTrace(after, Failed, statements)
          /\ Run(Failed, statements) = after[Len(statements)]
    BY RunTrace
  <1> DEFINE Fine == {n \in Nat : n <= Len(statements) => after[n] = Failed}
  <1>2. 0 \in Fine
    BY <1>1 DEF IsTrace
  <1>3. ASSUME NEW n \in Nat, n \in Fine PROVE n + 1 \in Fine
    <2> SUFFICES ASSUME n + 1 <= Len(statements) PROVE after[n + 1] = Failed
      OBVIOUS
    <2>1. n + 1 \in 1..Len(statements) /\ after[n] = Failed
      BY <1>3
    <2>2. after[n + 1] = Exec(after[n], statements[n + 1])
      BY <1>1, <2>1 DEF IsTrace
    <2> QED
      BY <2>1, <2>2, NotAfterFailure
  <1>4. Nat \subseteq Fine
    <2> HIDE DEF Fine
    <2> QED
      BY <1>2, <1>3, Induction
  <1> QED
    BY <1>1, <1>4

(* The recursive definition of LegacyDatabase is of a function there is.   *)
LEMMA LegacyDatabaseIs ==
  \A i \in Stamp :
    LegacyDatabase[i] =
      IF i = 0 THEN NoTables ELSE Run(EarlierRelease(LegacyDatabase[i - 1], i), Upgrades[i])
  <1> DEFINE At(f, i) == IF i = 0 THEN NoTables ELSE Run(EarlierRelease(f[i - 1], i), Upgrades[i])
             Upto(f, m) == f = [i \in 0..m |-> At(f, i)]
             f == CHOOSE g : g = [i \in Stamp |-> At(g, i)]
             Defined == {m \in Nat : \E g : Upto(g, m)}
  <1>1. 0 \in Defined
    <2>1. Upto([n \in 0..0 |-> NoTables], 0)
      OBVIOUS
    <2> QED
      BY <2>1
  <1>2. ASSUME NEW m \in Nat, m \in Defined PROVE m + 1 \in Defined
    <2>1. PICK g : Upto(g, m)
      BY <1>2
    <2> DEFINE h == [n \in 0..(m + 1) |->
                       IF n = m + 1 THEN Run(EarlierRelease(g[m], m + 1), Upgrades[m + 1])
                                     ELSE g[n]]
    <2>2. ASSUME NEW n \in 0..(m + 1) PROVE h[n] = At(h, n)
      <3>1. CASE n = m + 1
        BY <3>1
      <3>2. CASE n \in 0..m
        <4>1. h[n] = g[n] /\ g[n] = At(g, n)
          BY <2>1, <3>2
        <4>2. n # 0 => h[n - 1] = g[n - 1]
          BY <3>2
        <4> QED
          BY <4>1, <4>2
      <3> QED
        BY <3>1, <3>2
    <2>3. h = [n \in 0..(m + 1) |-> h[n]]
      OBVIOUS
    <2> HIDE DEF h
    <2>4. Upto(h, m + 1)
      BY <2>2, <2>3
    <2> QED
      BY <2>4
  <1>3. \E g : Upto(g, 25)
    <2> HIDE DEF Upto
    <2> QED
      BY <1>1, <1>2, Induction
  <1>4. f = [i \in Stamp |-> At(f, i)]
    BY <1>3, StampNumbers
  <1>5. LegacyDatabase = f
    BY DEF LegacyDatabase
  <1> HIDE DEF f
  <1> QED
    BY <1>4, <1>5

LEMMA UpgradesAreSequences == \A i \in 1..25 : Len(Upgrades[i]) \in Nat
  <1> SUFFICES ASSUME NEW i \in 1..25 PROVE Len(Upgrades[i]) \in Nat
    OBVIOUS
  <1>1. i = 1 => Len(Upgrades[i]) \in Nat
    BY DEF Upgrades, upgrade_5b0c04db4041
  <1>2. i = 2 => Len(Upgrades[i]) \in Nat
    BY DEF Upgrades, upgrade_75bcf320385f
  <1>3. i = 3 => Len(Upgrades[i]) \in Nat
    BY DEF Upgrades, upgrade_c0b46f3a0fc3
  <1>4. i = 4 => Len(Upgrades[i]) \in Nat
    BY DEF Upgrades, upgrade_5c0e43231c13
  <1>5. i = 5 => Len(Upgrades[i]) \in Nat
    BY DEF Upgrades, upgrade_016ee7d6b0b9
  <1>6. i = 6 => Len(Upgrades[i]) \in Nat
    BY DEF Upgrades, upgrade_a537e639c8a5
  <1>7. i = 7 => Len(Upgrades[i]) \in Nat
    BY DEF Upgrades, upgrade_8b8e624d3a28
  <1>8. i = 8 => Len(Upgrades[i]) \in Nat
    BY DEF Upgrades, upgrade_3ecb4e9492d0
  <1>9. i = 9 => Len(Upgrades[i]) \in Nat
    BY DEF Upgrades, upgrade_623ef1e66179
  <1>10. i = 10 => Len(Upgrades[i]) \in Nat
    BY DEF Upgrades, upgrade_4498a252d507
  <1>11. i = 11 => Len(Upgrades[i]) \in Nat
    BY DEF Upgrades, upgrade_4a8e7d2da15d
  <1>12. i = 12 => Len(Upgrades[i]) \in Nat
    BY DEF Upgrades, upgrade_d04e0ac2b737
  <1>13. i = 13 => Len(Upgrades[i]) \in Nat
    BY DEF Upgrades, upgrade_29466908bf3e
  <1>14. i = 14 => Len(Upgrades[i]) \in Nat
    BY DEF Upgrades, upgrade_bd840a3fc487
  <1>15. i = 15 => Len(Upgrades[i]) \in Nat
    BY DEF Upgrades, upgrade_61fcea1dca3b
  <1>16. i = 16 => Len(Upgrades[i]) \in Nat
    BY DEF Upgrades, upgrade_075f641caa2e
  <1>17. i = 17 => Len(Upgrades[i]) \in Nat
    BY DEF Upgrades, upgrade_bca954b13aff
  <1>18. i = 18 => Len(Upgrades[i]) \in Nat
    BY DEF Upgrades, upgrade_33cfec9c9fc5
  <1>19. i = 19 => Len(Upgrades[i]) \in Nat
    BY DEF Upgrades, upgrade_b7ec49f8797d
  <1>20. i = 20 => Len(Upgrades[i]) \in Nat
    BY DEF Upgrades, upgrade_605f88e55e7a
  <1>21. i = 21 => Len(Upgrades[i]) \in Nat
    BY DEF Upgrades, upgrade_36953a014b97
  <1>22. i = 22 => Len(Upgrades[i]) \in Nat
    BY DEF Upgrades, upgrade_656df8b99e6a
  <1>23. i = 23 => Len(Upgrades[i]) \in Nat
    BY DEF Upgrades, upgrade_8d817d8cad7b
  <1>24. i = 24 => Len(Upgrades[i]) \in Nat
    BY DEF Upgrades, upgrade_40be74e6375e
  <1>25. i = 25 => Len(Upgrades[i]) \in Nat
    BY DEF Upgrades, upgrade_569174511974
  <1> QED
    BY <1>1, <1>2, <1>3, <1>4, <1>5, <1>6, <1>7, <1>8, <1>9, <1>10, <1>11, <1>12, <1>13,
       <1>14, <1>15, <1>16, <1>17, <1>18, <1>19, <1>20, <1>21, <1>22, <1>23, <1>24, <1>25

LEMMA LegacyDatabaseFits ==
  \A i \in Stamp : LegacyDatabase[i] = Failed \/ Fits(LegacyDatabase[i], i)
  <1> DEFINE Fine == {n \in Nat : n \in Stamp =>
                        LegacyDatabase[n] = Failed \/ Fits(LegacyDatabase[n], n)}
  <1>1. LegacyDatabase[0] = NoTables
    BY LegacyDatabaseIs, StampNumbers
  <1>2. 0 \in Fine
    BY <1>1, NoTablesFit
  <1>3. ASSUME NEW n \in Nat, n \in Fine PROVE n + 1 \in Fine
    <2> SUFFICES ASSUME n + 1 \in Stamp, LegacyDatabase[n + 1] # Failed
                 PROVE  Fits(LegacyDatabase[n + 1], n + 1)
      OBVIOUS
    <2> DEFINE before == LegacyDatabase[n]
               left == EarlierRelease(before, n + 1)
    <2>1. n + 1 \in 1..25 /\ n \in Stamp /\ (n + 1) - 1 = n
      BY StampNumbers
    <2>2. LegacyDatabase[n + 1] = Run(left, Upgrades[n + 1])
      BY <2>1, LegacyDatabaseIs
    <2>3. left # Failed
      BY <2>1, <2>2, NothingRuns, UpgradesAreSequences
    <2>4. before # Failed
      BY <2>3 DEF EarlierRelease
    <2>5. Fits(before, n)
      BY <1>3, <2>1, <2>4
    <2>6. n + 1 = 1 => before = NoTables
      BY <1>1
    <2> HIDE DEF before
    <2>7. Fits(left, n)
      BY <2>1, <2>4, <2>5, <2>6, EarlierReleaseFits
    <2> HIDE DEF left
    <2>8. Moves(left, Run(left, Upgrades[n + 1]), n + 1)
      BY <2>1, <2>2, <2>7, UpgradeFits
    <2> QED
      BY <2>2, <2>8 DEF Moves
  <1>4. Nat \subseteq Fine
    <2> HIDE DEF Fine
    <2> QED
      BY <1>2, <1>3, Induction
  <1> QED
    BY <1>4, StampNumbers

LEMMA LeftFits ==
  ASSUME NEW i \in Stamp, i # 0, NEW s \in Left(i)
  PROVE  Fits(s, i)
  <1>1. s # Failed /\ i \in 1..25
    BY StampNumbers DEF Left
  <1>2. CASE s = LegacyDatabase[i]
    BY <1>1, <1>2, LegacyDatabaseFits
  <1>3. CASE i + 1 \in 2..24 /\ s = EarlierRelease(LegacyDatabase[i], i + 1)
    <2> DEFINE before == LegacyDatabase[i]
    <2>1. before # Failed
      BY <1>1, <1>3 DEF EarlierRelease
    <2>2. Fits(before, i)
      BY <2>1, LegacyDatabaseFits
    <2> HIDE DEF before
    <2>3. i + 1 \in 1..25 /\ (i + 1) - 1 = i /\ i + 1 # 1
      BY <1>1, <1>3
    <2>4. Fits(EarlierRelease(before, i + 1), i)
      BY <2>1, <2>2, <2>3, EarlierReleaseFits
    <2> QED
      BY <1>3, <2>4 DEF before
  <1> QED
    BY <1>1, <1>2, <1>3, StampNumbers DEF Left

(* Every database the system starts from fits its stamp.                   *)
LEMMA InitFits == Init => Fits(tables, stamp)
  <1> SUFFICES ASSUME Init PROVE Fits(tables, stamp)
    OBVIOUS
  <1>1. PICK s, rows : /\ stamp \in Stamp
                       /\ IF stamp = 0 THEN s = NoTables ELSE s \in Left(stamp)
                       /\ rows \in {{}, {OldAccount}} /\ tables = WithRows(s, rows)
    BY DeploymentAssumption DEF Init
  <1>2. Fits(s, stamp)
    BY <1>1, NoTablesFit, LeftFits
  <1>3. OnePerAddress(rows)
    BY <1>1 DEF OnePerAddress
  <1>4. /\ DOMAIN tables = DOMAIN s /\ \A t \in DOMAIN s \ {"user"} : tables[t] = s[t]
        /\ Has(s, "user") => tables["user"] = [s["user"] EXCEPT !.rows = rows]
    BY <1>1 DEF WithRows, Has
  <1> QED
    BY <1>1, <1>2, <1>3, <1>4, OtherRows
=============================================================================
