--------------------------------- MODULE Schema ---------------------------------
(***************************************************************************)
(* Database schemas and the statements migrations are made of, by the      *)
(* rules of PostgreSQL as far as the revisions of this repository meet     *)
(* them: what a statement needs, and what goes with what it drops.         *)
(*                                                                         *)
(* A schema maps the names of its tables to what they are; a column is its *)
(* type and whether it is required; indexes other than those of keys, and  *)
(* defaults, are left out.                                                 *)
(***************************************************************************)
EXTENDS Naturals, FiniteSets, Sequences

Req(type) == [type |-> type, null |-> FALSE]
Opt(type) == [type |-> type, null |-> TRUE]

(* A key makes the columns "on" unique.  A foreign key makes column "on"   *)
(* refer to "column" of "table"; it needs a key on that column alone.      *)
Key(name, on) == [name |-> name, on |-> on]
ForeignKey(on, table, column) == [on |-> on, table |-> table, column |-> column]

Table(cols, keys, fks) == [cols |-> cols, keys |-> keys, fks |-> fks, rows |-> {}]

(* What a statement that raises leaves of the schema: nothing to go on.    *)
Failed == [failed |-> "failed"]

Has(s, t) == t \in DOMAIN s
HasColumn(s, t, c) == Has(s, t) /\ c \in DOMAIN s[t].cols

Rows(s, t) == IF Has(s, t) THEN s[t].rows ELSE {}

(* Some other table refers to column c of t.                               *)
ReferredTo(s, t, c) ==
  \E u \in DOMAIN s \ {t} : \E f \in s[u].fks : f.table = t /\ f.column = c

(* A foreign key can be laid: same type, and a key on the column alone.    *)
CanRefer(s, type, f) ==
  /\ HasColumn(s, f.table, f.column)
  /\ s[f.table].cols[f.column].type = type
  /\ \E k \in s[f.table].keys : k.on = {f.column}

(* Names of keys, by their parts: "user_pkey" is PrimaryKeyOf("user") and  *)
(* "user_email_key" is UniqueKeyOf("user", "email").                       *)
PrimaryKeyOf(t)   == <<t, "pkey">>
UniqueKeyOf(t, c) == <<t, c, "key">>

(* PostgreSQL names a unique key after its column, with a number if that   *)
(* name is taken.                                                          *)
KeyName(s, t, c) ==
  IF \E k \in s[t].keys : k.name = UniqueKeyOf(t, c) THEN <<t, c, "key1">> ELSE UniqueKeyOf(t, c)

Without(s, t) == [u \in DOMAIN s \ {t} |-> s[u]]

(* f with v at x.                                                          *)
Put(f, x, v) == [y \in DOMAIN f \cup {x} |-> IF y = x THEN v ELSE f[y]]

-----------------------------------------------------------------------------
(* The statements, as the op.* calls of the revisions name them.           *)

CreateTable(t, def)         == [op |-> "create_table", table |-> t, def |-> def]
DropTable(t)                == [op |-> "drop_table", table |-> t]
AddColumn(t, c, col)        == [op |-> "add_column", table |-> t, column |-> c, def |-> col]
DropColumn(t, c)            == [op |-> "drop_column", table |-> t, column |-> c]
AlterType(t, c, type)       == [op |-> "alter_type", table |-> t, column |-> c, type |-> type]
AlterNull(t, c, null)       == [op |-> "alter_null", table |-> t, column |-> c, null |-> null]
RenameColumn(t, c, d)       == [op |-> "rename_column", table |-> t, column |-> c, name |-> d]
CreateUnique(t, c)          == [op |-> "create_unique", table |-> t, column |-> c]
AddPrimaryKey(t, c)         == [op |-> "add_primary_key", table |-> t, column |-> c]
DropConstraint(t, name)     == [op |-> "drop_constraint", table |-> t, name |-> name]
DropUnnamed(t)              == [op |-> "drop_unnamed", table |-> t]
Renumber(t)                 == [op |-> "renumber", table |-> t]
DropTables(ts)              == [op |-> "drop_tables", tables |-> ts]

(* What the statement needs; without it the statement raises.              *)
Possible(s, st) ==
  CASE st.op = "create_table" ->
         /\ ~ Has(s, st.table)
         /\ \A f \in st.def.fks : CanRefer(s, st.def.cols[f.on].type, f)
    [] st.op = "drop_table" ->
         /\ Has(s, st.table)
         /\ \A c \in DOMAIN s[st.table].cols : ~ ReferredTo(s, st.table, c)
    [] st.op = "add_column" ->
         /\ Has(s, st.table) /\ ~ HasColumn(s, st.table, st.column)
         /\ st.def.null \/ s[st.table].rows = {}
    [] st.op \in {"drop_column", "rename_column"} ->
         /\ HasColumn(s, st.table, st.column)
         /\ st.op = "drop_column" => ~ ReferredTo(s, st.table, st.column)
    [] st.op = "alter_type" ->
         /\ HasColumn(s, st.table, st.column)
         /\ LET old == s[st.table].cols[st.column].type
            IN \/ old = st.type
               \/ /\ ~ (old = "text" /\ st.type = "uuid")  \* no cast
                  /\ ~ ReferredTo(s, st.table, st.column)
    [] st.op \in {"create_unique", "alter_null"} -> HasColumn(s, st.table, st.column)
    [] st.op = "add_primary_key" ->
         /\ HasColumn(s, st.table, st.column)
         /\ \A k \in s[st.table].keys : k.name # PrimaryKeyOf(st.table)
    [] st.op = "drop_constraint" ->
         /\ Has(s, st.table)
         /\ \E k \in s[st.table].keys :
              /\ k.name = st.name
              /\ \A c \in k.on : k.on = {c} => ~ ReferredTo(s, st.table, c)
    [] st.op = "drop_unnamed" -> FALSE   \* Alembic cannot render the statement
    [] OTHER -> TRUE

(* The table a statement leaves, the statement being about one table that  *)
(* is there before and after.  Keys go with any of their columns.          *)
Changed(s, st) ==
  LET tab == s[st.table] IN
  CASE st.op = "add_column" ->
         [tab EXCEPT !.cols = Put(@, st.column, st.def)]
    [] st.op = "alter_type" -> [tab EXCEPT !.cols[st.column].type = st.type]
    [] st.op = "alter_null" -> [tab EXCEPT !.cols[st.column].null = st.null]
    [] st.op = "drop_column" ->
         [tab EXCEPT !.cols = Without(@, st.column),
                     !.keys = {k \in @ : st.column \notin k.on},
                     !.fks = {f \in @ : f.on # st.column}]
    [] st.op = "rename_column" ->
         [tab EXCEPT !.cols = Put(Without(@, st.column), st.name, @[st.column])]
    [] st.op = "create_unique" ->
         [tab EXCEPT !.keys = @ \cup {Key(KeyName(s, st.table, st.column), {st.column})}]
    [] st.op = "add_primary_key" ->
         [tab EXCEPT !.keys = @ \cup {Key(PrimaryKeyOf(st.table), {st.column})}]
    [] st.op = "drop_constraint" ->
         [tab EXCEPT !.keys = {k \in @ : k.name # st.name}]
    [] st.op = "renumber" ->
         [tab EXCEPT !.rows = {[r EXCEPT !.id = "renumbered"] : r \in @}]

Exec(s, st) ==
  IF s = Failed \/ ~ Possible(s, st) THEN Failed
  ELSE CASE st.op = "create_table" -> Put(s, st.table, st.def)
         [] st.op = "drop_table"   -> Without(s, st.table)
         [] st.op = "drop_tables"  -> [u \in DOMAIN s \ st.tables |-> s[u]]
         [] OTHER                  -> [s EXCEPT ![st.table] = Changed(s, st)]

(* The statements one after the other.                                     *)
Run(s, statements) ==
  LET after[n \in 0..Len(statements)] ==
        IF n = 0 THEN s ELSE Exec(after[n - 1], statements[n])
  IN after[Len(statements)]
=============================================================================
