------------------------------- MODULE Revisions -------------------------------
(***************************************************************************)
(* The Alembic revisions of src/migrations/versions, oldest first: the     *)
(* statements of upgrade() and downgrade() in their order.  Dropping the   *)
(* index of tokenblacklist and the table is one statement, and so is       *)
(* creating them.  Text after the first statement that raises never runs.  *)
(***************************************************************************)
EXTENDS Schema

(* Tables revisions drop and restore; none of them creates the first two   *)
(* but to undo the drop.  Columns no statement touches are left out of     *)
(* post and the old timelog.                                               *)
tokenblacklist ==
  Table([id |-> Req("int"), token |-> Req("text"), expires_at |-> Req("time")],
        {Key(PrimaryKeyOf("tokenblacklist"), {"id"}),
         Key(<<"tokenblacklist", "token", "ix">>, {"token"})}, {})

post(creator, fks) ==
  Table([id |-> Req("int"), created_by_user_id |-> Req(creator)],
        {Key(PrimaryKeyOf("post"), {"id"})}, fks)

CreatorOfPost == {ForeignKey("created_by_user_id", "user", "id")}

timelog ==
  Table([task |-> Req("text"), description |-> Opt("text"), start_time |-> Req("time"),
         end_time |-> Req("time"), source |-> Req("text"), id |-> Req("int"),
         creator_id |-> Req("text"), created_at |-> Opt("timetz"),
         updated_at |-> Opt("timetz")],
        {Key(PrimaryKeyOf("timelog"), {"id"})}, {ForeignKey("creator_id", "user", "id")})

drop_tokenblacklist == DropTable("tokenblacklist")
create_tokenblacklist == CreateTable("tokenblacklist", tokenblacklist)

-----------------------------------------------------------------------------

tier_5b0c04db4041 ==
  Table([name |-> Req("text"), id |-> Req("int"), created_at |-> Req("time"),
         updated_at |-> Opt("time")],
        {Key(PrimaryKeyOf("tier"), {"id"})}, {})

ratelimit_5b0c04db4041 ==
  Table([path |-> Req("text"), limit |-> Req("int"), period |-> Req("int"),
         id |-> Req("int"), tier_id |-> Req("int"), name |-> Opt("text"),
         created_at |-> Req("time"), updated_at |-> Opt("time")],
        {Key(PrimaryKeyOf("ratelimit"), {"id"})}, {ForeignKey("tier_id", "tier", "id")})

user_5b0c04db4041 ==
  Table([name |-> Req("text"), username |-> Req("text"), email |-> Req("text"),
         id |-> Req("int"), profile_image_url |-> Req("text"),
         hashed_password |-> Req("text"), is_superuser |-> Req("bool"),
         tier_id |-> Opt("int"), created_at |-> Req("time"), uuid |-> Req("uuid"),
         updated_at |-> Opt("time"), deleted_at |-> Opt("time"),
         is_deleted |-> Req("bool")],
        {Key(PrimaryKeyOf("user"), {"id", "uuid"})}, {ForeignKey("tier_id", "tier", "id")})

upgrade_5b0c04db4041 ==
  <<CreateTable("tier", tier_5b0c04db4041),
    CreateTable("ratelimit", ratelimit_5b0c04db4041),
    CreateTable("user", user_5b0c04db4041)>>
downgrade_5b0c04db4041 ==
  <<DropTable("user"), DropTable("ratelimit"), DropTable("tier")>>

upgrade_75bcf320385f == <<CreateUnique("user", "id")>>
downgrade_75bcf320385f == <<DropUnnamed("user")>>

upgrade_c0b46f3a0fc3 == <<CreateTable("post", post("int", CreatorOfPost))>>
downgrade_c0b46f3a0fc3 == <<DropTable("post")>>

upgrade_5c0e43231c13 ==
  <<drop_tokenblacklist, CreateUnique("user", "id"), DropColumn("user", "uuid")>>
downgrade_5c0e43231c13 ==
  <<AddColumn("user", "uuid", Req("uuid")), DropUnnamed("user"), create_tokenblacklist>>

upgrade_016ee7d6b0b9 == <<drop_tokenblacklist, DropConstraint("user", UniqueKeyOf("user", "id"))>>
downgrade_016ee7d6b0b9 == <<CreateUnique("user", "id"), create_tokenblacklist>>

upgrade_a537e639c8a5 == <<drop_tokenblacklist, AlterType("user", "created_at", "timetz")>>
downgrade_a537e639c8a5 == <<AlterType("user", "created_at", "time"), create_tokenblacklist>>

upgrade_8b8e624d3a28 ==
  <<drop_tokenblacklist, DropTable("post"), AddColumn("user", "uuid", Req("uuid")),
    AlterType("user", "created_at", "time")>>
downgrade_8b8e624d3a28 ==
  <<AlterType("user", "created_at", "timetz"), DropColumn("user", "uuid"),
    CreateTable("post", post("int", {})), create_tokenblacklist>>

upgrade_3ecb4e9492d0 ==
  <<AlterNull("user", "created_at", TRUE), AlterType("user", "created_at", "timetz")>>
downgrade_3ecb4e9492d0 ==
  <<AlterNull("user", "created_at", FALSE), AlterType("user", "created_at", "time")>>

(* Mutant of upgrade_623ef1e66179: the new column may be null.             *)
upgrade_623ef1e66179_nullable ==
  <<AddColumn("user", "id_new", Opt("uuid")), Renumber("user"), DropColumn("user", "id"),
    RenameColumn("user", "id_new", "id"), AlterNull("user", "id", FALSE)>>

upgrade_623ef1e66179 ==
  <<AddColumn("user", "id_new", Req("uuid")), Renumber("user"), DropColumn("user", "id"),
    RenameColumn("user", "id_new", "id")>>
downgrade_623ef1e66179 ==
  <<AddColumn("user", "id_new", Req("int")), Renumber("user"), DropColumn("user", "id"),
    RenameColumn("user", "id_new", "id")>>

(* No table the program or the chain knows begins with "uuid".             *)
UuidTables == {"uuid", "uuid_old"}
upgrade_4498a252d507 == <<DropTables(UuidTables)>>
downgrade_4498a252d507 == <<>>

upgrade_4a8e7d2da15d == <<>>
downgrade_4a8e7d2da15d == <<>>

upgrade_d04e0ac2b737 == <<AddPrimaryKey("user", "id")>>
downgrade_d04e0ac2b737 == <<DropConstraint("user", PrimaryKeyOf("user"))>>

upgrade_29466908bf3e ==
  <<drop_tokenblacklist, DropTable("post"), AlterNull("tier", "created_at", TRUE),
    AlterType("tier", "created_at", "timetz")>>
downgrade_29466908bf3e ==
  <<AlterNull("tier", "created_at", FALSE), AlterType("tier", "created_at", "time"),
    CreateTable("post", post("uuid", CreatorOfPost)), create_tokenblacklist>>

upgrade_bd840a3fc487 == <<drop_tokenblacklist, DropColumn("user", "hashed_password")>>
downgrade_bd840a3fc487 ==
  <<AddColumn("user", "hashed_password", Req("text")), create_tokenblacklist>>

(* Mutant of upgrade_61fcea1dca3b: only the uuid is made unique.           *)
upgrade_61fcea1dca3b_uuid == <<drop_tokenblacklist, CreateUnique("user", "uuid")>>

upgrade_61fcea1dca3b ==
  <<drop_tokenblacklist, CreateUnique("user", "email"), CreateUnique("user", "uuid")>>
downgrade_61fcea1dca3b == <<DropUnnamed("user"), DropUnnamed("user"), create_tokenblacklist>>

upgrade_075f641caa2e == <<drop_tokenblacklist, AlterType("user", "uuid", "text")>>
downgrade_075f641caa2e == <<AlterType("user", "uuid", "uuid"), create_tokenblacklist>>

upgrade_bca954b13aff ==
  <<drop_tokenblacklist, AlterType("user", "updated_at", "timetz"),
    AlterType("user", "deleted_at", "timetz")>>
downgrade_bca954b13aff ==
  <<AlterType("user", "deleted_at", "time"), AlterType("user", "updated_at", "time"),
    create_tokenblacklist>>

upgrade_33cfec9c9fc5 == <<DropTable("post"), drop_tokenblacklist>>
downgrade_33cfec9c9fc5 ==
  <<create_tokenblacklist, CreateTable("post", post("uuid", CreatorOfPost))>>

upgrade_b7ec49f8797d == <<AlterType("user", "id", "text")>>
downgrade_b7ec49f8797d == <<AlterType("user", "id", "uuid")>>

upgrade_605f88e55e7a == <<DropTable("timelog"), DropTable("post"), drop_tokenblacklist>>
downgrade_605f88e55e7a ==
  <<create_tokenblacklist, CreateTable("post", post("text", CreatorOfPost)),
    CreateTable("timelog", timelog)>>

upgrade_36953a014b97 == <<DropTable("post"), drop_tokenblacklist>>
downgrade_36953a014b97 ==
  <<create_tokenblacklist, CreateTable("post", post("text", CreatorOfPost))>>

upgrade_656df8b99e6a == <<DropTable("timelog"), DropTable("post"), drop_tokenblacklist>>
downgrade_656df8b99e6a ==
  <<create_tokenblacklist, CreateTable("post", post("text", CreatorOfPost)),
    CreateTable("timelog", timelog)>>

upgrade_8d817d8cad7b == <<DropTable("post"), drop_tokenblacklist>>
downgrade_8d817d8cad7b ==
  <<create_tokenblacklist, CreateTable("post", post("text", CreatorOfPost))>>

upgrade_40be74e6375e == <<DropColumn("user", "tier_id")>>
downgrade_40be74e6375e == <<AddColumn("user", "tier_id", Opt("int"))>>

user_569174511974 ==
  Table([name |-> Req("text"), username |-> Req("text"), uuid |-> Req("text"),
         id |-> Req("text"), profile_image_url |-> Req("text"),
         is_superuser |-> Req("bool"), created_at |-> Opt("timetz"),
         email |-> Req("text"), updated_at |-> Opt("timetz"),
         deleted_at |-> Opt("timetz"), is_deleted |-> Req("bool")],
        {Key(PrimaryKeyOf("user"), {"id"}), Key(UniqueKeyOf("user", "email"), {"email"}),
         Key(UniqueKeyOf("user", "uuid"), {"uuid"})}, {})

upgrade_569174511974 ==
  <<CreateTable("user", user_569174511974), CreateTable("timelog", timelog)>>
downgrade_569174511974 == <<DropTable("timelog"), DropTable("user")>>

-----------------------------------------------------------------------------
(* The chain; a stamp i stands for Chain[i], 0 for an unstamped database.  *)

Chain ==
  <<"5b0c04db4041", "75bcf320385f", "c0b46f3a0fc3", "5c0e43231c13", "016ee7d6b0b9",
    "a537e639c8a5", "8b8e624d3a28", "3ecb4e9492d0", "623ef1e66179", "4498a252d507",
    "4a8e7d2da15d", "d04e0ac2b737", "29466908bf3e", "bd840a3fc487", "61fcea1dca3b",
    "075f641caa2e", "bca954b13aff", "33cfec9c9fc5", "b7ec49f8797d", "605f88e55e7a",
    "36953a014b97", "656df8b99e6a", "8d817d8cad7b", "40be74e6375e", "569174511974">>

Stamp == 0..Len(Chain)
HeadStamp == Len(Chain)

Upgrades ==
  <<upgrade_5b0c04db4041, upgrade_75bcf320385f, upgrade_c0b46f3a0fc3, upgrade_5c0e43231c13,
    upgrade_016ee7d6b0b9, upgrade_a537e639c8a5, upgrade_8b8e624d3a28, upgrade_3ecb4e9492d0,
    upgrade_623ef1e66179, upgrade_4498a252d507, upgrade_4a8e7d2da15d, upgrade_d04e0ac2b737,
    upgrade_29466908bf3e, upgrade_bd840a3fc487, upgrade_61fcea1dca3b, upgrade_075f641caa2e,
    upgrade_bca954b13aff, upgrade_33cfec9c9fc5, upgrade_b7ec49f8797d, upgrade_605f88e55e7a,
    upgrade_36953a014b97, upgrade_656df8b99e6a, upgrade_8d817d8cad7b, upgrade_40be74e6375e,
    upgrade_569174511974>>

Downgrades ==
  <<downgrade_5b0c04db4041, downgrade_75bcf320385f, downgrade_c0b46f3a0fc3,
    downgrade_5c0e43231c13, downgrade_016ee7d6b0b9, downgrade_a537e639c8a5,
    downgrade_8b8e624d3a28, downgrade_3ecb4e9492d0, downgrade_623ef1e66179,
    downgrade_4498a252d507, downgrade_4a8e7d2da15d, downgrade_d04e0ac2b737,
    downgrade_29466908bf3e, downgrade_bd840a3fc487, downgrade_61fcea1dca3b,
    downgrade_075f641caa2e, downgrade_bca954b13aff, downgrade_33cfec9c9fc5,
    downgrade_b7ec49f8797d, downgrade_605f88e55e7a, downgrade_36953a014b97,
    downgrade_656df8b99e6a, downgrade_8d817d8cad7b, downgrade_40be74e6375e,
    downgrade_569174511974>>

(* The database is stamped with the revision id or a later one.            *)
Reached(stamp, id) == \E i \in 1..stamp : Chain[i] = id

-----------------------------------------------------------------------------
(* The databases of earlier releases.  Those releases created the tables   *)
(* of their own models when they started, which is where the tables come   *)
(* from that a revision drops and none before it created; post had no      *)
(* foreign key by then (the commented lines of 5c0e43231c13).  The last    *)
(* revision was written against a database without user.                   *)

LegacyTable == [tokenblacklist |-> tokenblacklist, post |-> post("int", {}),
                timelog |-> [timelog EXCEPT !.fks = {}]]

DroppedBy(i) ==
  {Upgrades[i][n].table : n \in {m \in DOMAIN Upgrades[i] : Upgrades[i][m].op = "drop_table"}}

(* What the release before revision i made of a database.                  *)
EarlierRelease(s, i) ==
  IF s = Failed THEN Failed
  ELSE IF i = HeadStamp THEN [t \in DOMAIN s \ {"user"} |-> s[t]]
  ELSE [t \in DOMAIN s \cup DroppedBy(i) |-> IF t \in DOMAIN LegacyTable THEN LegacyTable[t] ELSE s[t]]

NoTables == [t \in {} |-> t]

LegacyDatabase[i \in Stamp] ==
  IF i = 0 THEN NoTables
  ELSE Run(EarlierRelease(LegacyDatabase[i - 1], i), Upgrades[i])
=============================================================================
