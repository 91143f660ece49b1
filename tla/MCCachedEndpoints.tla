--------------------------- MODULE MCCachedEndpoints ---------------------------
(***************************************************************************)
(* The time-log endpoints together with the endpoints by which the         *)
(* decorator is documented: the item lists of its docstring, plain and     *)
(* paged, and the posts of README 5.9, one page per user.                  *)
(***************************************************************************)
EXTENDS CachedEndpoints, TimeLogEndpoints

Read(prefix, rid) ==
  [method |-> "GET", prefix |-> prefix, ridName |-> rid, ridType |-> "int",
   extra |-> <<>>, patterns |-> <<>>]

read_user_items(u) ==
  [endpoint |-> Read(<<Lit("user_items")>>, "user_id"), kw |-> <<P("user_id", "int", u)>>]

(* No resource_id_name: the id is inferred, past the page number.          *)
read_items_page(u, p) ==
  [endpoint |-> Read(<<Lit("user_"), Arg("user_id"), Lit("_items:"), Lit("page_"), Arg("page")>>,
                    NoName),
   kw |-> <<P("user_id", "int", u), P("page", "int", p)>>]

update_item(u) ==
  [endpoint |-> [method |-> "PUT", prefix |-> <<Lit("item_data")>>,
                 ridName |-> "item_id", ridType |-> "int",
                 extra |-> <<[prefix |-> <<Lit("user_items")>>, id |-> <<Arg("user_id")>>]>>,
                 patterns |-> <<<<Lit("user_"), Lit(Star), Lit("_items:"), Lit(Star)>>>>],
   kw |-> <<P("item_id", "int", "7"), P("user_id", "int", u)>>]

(* The mistake of erase_db_time_log with these templates: the extra key    *)
(* needs a user_id that is not among the arguments.                        *)
rename_item ==
  [endpoint |-> update_item("u1").endpoint, kw |-> <<P("item_id", "int", "7")>>]

read_posts(u, p) ==
  [endpoint |-> Read(<<Arg("username"), Lit("_posts:"), Lit("page_"), Arg("page")>>, "username"),
   kw |-> <<P("username", "str", u), P("page", "int", p)>>]

patch_post(u) ==
  [endpoint |-> [method |-> "PATCH", prefix |-> <<Arg("username"), Lit("_post_cache")>>,
                 ridName |-> "id", ridType |-> "int", extra |-> <<>>,
                 patterns |-> <<<<Arg("username"), Lit("_posts:"), Lit(Star)>>>>],
   kw |-> <<P("username", "str", u), P("id", "int", "7")>>]

(* By user; the item rename_item changes is one of u1.                     *)
ItemReads(u) == {read_user_items(u)} \cup {read_items_page(u, p) : p \in Page}
ItemWrites(u) == {update_item(u)} \cup {c \in {rename_item} : u = "u1"}
PostReads(u) == {read_posts(u, "1")}
PostWrites(u) == {patch_post(u)}

DocumentedCalls ==
  UNION {ItemReads(u) \cup ItemWrites(u) \cup PostReads(u) \cup PostWrites(u) : u \in UserId}

MCCall == TimeLogReads \cup TimeLogWrites \cup DocumentedCalls

(* The data: the items and the posts of each user.  Of the time logs the   *)
(* endpoints do not say whose they change.                                 *)
MCDepends ==
  [c \in MCCall |->
     {<<"items", u>> : u \in {v \in UserId : c \in ItemReads(v)}}
       \cup {<<"posts", u>> : u \in {v \in UserId : c \in PostReads(v)}}
       \cup {<<"time logs", "all">> : x \in {c} \cap TimeLogReads}]

MCTouches ==
  [c \in MCCall |->
     {<<"items", u>> : u \in {v \in UserId : c \in ItemWrites(v)}}
       \cup {<<"posts", u>> : u \in {v \in UserId : c \in PostWrites(v)}}
       \cup {<<"time logs", "all">> : x \in {c} \cap TimeLogWrites}]

(* The plain list of a user's items, which update_item names among its     *)
(* extra keys, is current in the cache but for a change that raised, like  *)
(* rename_item: no pattern and no SCAN has a part in it.                   *)
UserListsCurrent ==
  \A u \in UserId : LET c == read_user_items(u) IN
    \A x \in cache : x.key = OwnKey(c.endpoint, c.kw) => x.stale \subseteq {"raised"}
=============================================================================
