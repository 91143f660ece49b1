---------------------------- MODULE TimeLogEndpoints ----------------------------
(***************************************************************************)
(* The endpoints of src/app/api/v1/time_log.py that carry @cache, as calls *)
(* of CachedEndpoints: the decorator's arguments and, in the order of the  *)
(* kwargs FastAPI passes, the dependencies, path, query and body           *)
(* parameters of the function.                                             *)
(***************************************************************************)
EXTENDS CacheKeys

CONSTANTS UserId,   \* values of {user_id}
          LogId,    \* values of {id}
          Page,     \* values of page
          PageSize  \* values of items_per_page

P(n, type, v) == [name |-> n, type |-> type, value |-> v]

CurrentUserAndDb == <<P("current_user", "other", "user"), P("db", "other", "db")>>

TimeLogsPattern == <<Lit("user_"), Arg("user_id"), Lit("_time_logs:"), Lit(Star)>>
TimeLogPrefix == <<Lit("user_"), Arg("user_id"), Lit("_time_log_cache")>>

(* update_time_logs_batch and erase_time_logs_batch differ in method only. *)
Batch(method) ==
  [method |-> method, prefix |-> TimeLogPrefix, ridName |-> NoName, ridType |-> "int",
   extra |-> <<>>, patterns |-> <<TimeLogsPattern>>]

update_time_logs_batch ==
  {[endpoint |-> Batch("PATCH"),
    kw |-> CurrentUserAndDb \o <<P("user_id", "str", u), P("batch_update", "other", "body")>>]
     : u \in UserId}

erase_time_logs_batch ==
  {[endpoint |-> Batch("DELETE"),
    kw |-> CurrentUserAndDb \o <<P("user_id", "str", u), P("batch_delete", "other", "body")>>]
     : u \in UserId}

ReadTimeLogs ==
  [method |-> "GET", ridName |-> NoName, ridType |-> "int",
   prefix |-> <<Lit("user_"), Arg("user_id"), Lit("_time_logs:"), Lit("page_"), Arg("page"),
                Lit(":items_per_page:"), Arg("items_per_page")>>,
   extra |-> <<>>, patterns |-> <<>>]

read_time_logs ==
  {[endpoint |-> ReadTimeLogs,
    kw |-> CurrentUserAndDb \o <<P("user_id", "str", u), P("page", "int", p),
                                 P("items_per_page", "int", n)>>]
     : u \in UserId, p \in Page, n \in PageSize}

(* The endpoints of one log.  user_id is in their path and in their key    *)
(* prefix but is no parameter of the functions.                            *)
OneLog(method, extra, patterns) ==
  [method |-> method, prefix |-> TimeLogPrefix, ridName |-> "id", ridType |-> "int",
   extra |-> extra, patterns |-> patterns]

read_time_log ==
  {[endpoint |-> OneLog("GET", <<>>, <<>>),
    kw |-> CurrentUserAndDb \o <<P("id", "int", i)>>] : i \in LogId}

patch_time_log ==
  {[endpoint |-> OneLog("PATCH", <<>>, <<TimeLogsPattern>>),
    kw |-> CurrentUserAndDb \o <<P("id", "int", i), P("values", "other", "body")>>]
     : i \in LogId}

(* The id template is "user", without brackets.                            *)
ListsOfUser == <<[prefix |-> <<Lit("user_"), Arg("user_id"), Lit("_time_logs")>>,
                  id |-> <<Lit("user")>>]>>

erase_time_log ==
  {[endpoint |-> OneLog("DELETE", ListsOfUser, <<>>),
    kw |-> CurrentUserAndDb \o <<P("id", "int", i)>>] : i \in LogId}

erase_db_time_log ==
  {[endpoint |-> OneLog("DELETE", ListsOfUser, <<>>),
    kw |-> <<P("db", "other", "db"), P("user_id", "str", u), P("id", "int", i)>>]
     : u \in UserId, i \in LogId}

TimeLogReads == read_time_logs \cup read_time_log

TimeLogWrites ==
  UNION {update_time_logs_batch, erase_time_logs_batch, patch_time_log,
         erase_time_log, erase_db_time_log}
=============================================================================
