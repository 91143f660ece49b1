# Verification of boano-api

TLA+ models, TLC runs and TLAPS proofs for boano-api: a FastAPI application that
mirrors Clerk accounts into a user table, lets users keep time logs over REST and
through a chat with a team of agents, and caches responses in Redis. Paths below
are relative to the repository; line numbers refer to the commit beside this
project.

## 1. Inventory

### Clerk webhook (`src/app/api/v1/webhook.py`)
*State*: the table `user` (one row per Clerk account, found by `uuid`; `uuid` and
`email` are unique; `is_deleted` marks a soft-deleted row). *Operations*:
`process_user_created`, `process_user_updated`, `process_user_deleted`, dispatched
by `clerk_webhook` after the Svix signature is verified. *Interactions*: Clerk
emits events, Svix POSTs each one until it is answered 2xx, gives up on an attempt
that takes too long, and may deliver events out of order; several workers handle
requests at once. *Hard behaviour*: duplicates, reordering, a worker that dies
between the commit and the answer, a row that changes between the lookup and the
write, and two of three handlers swallow every error and answer 200. *Correct
means*: an acknowledged change is in the database, a deleted account stays
deleted, rows never go back in time, and in the end the table mirrors Clerk.

### Time-log chat (`src/app/api/v1/time_log.py` 280-369, `src/app/ai/teams/time_log.py`)
*State*: one coroutine per socket, and two files shared by all of them, of all
workers and over restarts: `team_state.json` and `team_history.json`. *Operations*:
receive a message, build a team of four agents, read the history, stream the
team's messages (asking the client for input when the user's turn comes), save
the two files. *Hard behaviour*: a file is emptied when it is opened and written
several awaits later; connections save at the same time; a failure, cancellation
or crash may come anywhere. *Correct means*: the files stay readable and belong
together, the history is the one that was saved, a turn always ends.

### Response cache (`src/app/core/utils/cache.py`)
*State*: Redis keys with an optional time to live. *Operations*: look up and fill
for GET; for other methods delete the endpoint's key, the extra keys and all keys
that match patterns, after the data was changed. *Hard behaviour*: every Redis
command is an await of its own, so a fill may overtake an invalidation, SET and
EXPIRE may be separated, and an invalidation may stop half way. *Correct means*:
stale answers have a known cause and a bounded age.

### Time-log REST endpoints (`src/app/api/v1/time_log.py` 39-278)
*State*: table `timelog`. *Operations*: create, batch upsert, update and delete one
or many, read one or a page; most are wrapped in `@cache`. They are written
against columns the table does not have, and with a Redis client set the
decorator cannot find the arguments its key templates name.

### Client caches (`src/app/middleware/client_cache_middleware.py`)
*State*: none on the server; each client keeps the answers it got for as long as
`Cache-Control: public, max-age=...` allows. *Operations*: `dispatch` sets the header on
every response. *Hard behaviour*: the header counts from the answer, the Redis
entry from its fill, the fill from its read, so three clocks add up; a change
deletes Redis keys and reaches no client. *Correct means*: what a client shows has a
bounded age.

### Start-up, shutdown and administrator script (`src/app/core/setup.py`, `src/scripts/`)
*State*: the tables of the database, and where each worker is in its lifespan.
*Operations*: every worker runs `create_all`, then checks the environment, then
serves; gunicorn replaces a worker that dies and halts when one fails to boot, and
the container is restarted; a script looks an administrator up by email and inserts
one. *Hard behaviour*: several workers look for missing tables and create them in
separate statements, the script and the webhook compete for an address, and a
migration may run meanwhile. *Correct means*: nobody serves without its tables, all
workers come up in the end, an address has one account.

### Migrations (`src/migrations/`)
*State*: the schema and the revision stamped in `alembic_version`. *Operations*:
`alembic upgrade` and `downgrade` over a chain of 25 revisions, all revisions of a
command in one transaction. *Hard behaviour*: a revision may fail on the schema it
finds or be interrupted, downgrades are not the exact inverse of upgrades, and
workers of the application create tables by name while the transaction is open.
`alembic upgrade head` fails on an empty database: `5c0e43231c13` drops
`tokenblacklist`, which no revision before it creates. *Correct means*: the stamp tells the
schema, and no upgrade loses an account.

### Parts without a state of their own
Authentication (`core/security.py`, `api/dependencies.py`), the GitHub toolkit and
the agents (`src/app/ai`), worker settings and schemas. `websocket_manager.py` and
`chat_manager.py` keep state (a list of sockets, two queues) but nothing uses them.

## 2. Plan

Modules are written in the order of how much depends on them and how hard they are
to test.

| Order | Modules | Subject | State |
|---|---|---|---|
| 1 | `UserDirectory`, `ClerkWebhook`, `ClerkWebhookProofs`, `ClerkMirrorProofs` | webhook against an abstract directory | modelled, checked, safety proved |
| 2 | `TimelogChat`, `TimelogChatProofs` | chat socket and its files | modelled, checked, safety proved |
| 3 | `ResponseCache`, `ResponseCacheProofs`, `ClientCache`, `ClientCacheProofs` | concurrent requests on Redis, and the copies of the clients | modelled, checked, proved |
| 4 | `CacheKeys`, `TimeLogEndpoints`, `CachedEndpoints`, `CachedEndpointsProofs` | what the decorator's arguments mean | modelled, checked, proved |
| 5 | `Schema`, `Revisions`, `Database`, `AppLifespan`, `Migrations`, `Deployment`, `RevisionProofs`, `DeploymentProofs` | workers, script and migrations on one database | modelled, checked, safety proved |
| 6 | a module between `ResponseCache` and `CachedEndpoints` | an uninterrupted request of the first is one action of the second | planned |

Not to be modelled, for lack of a behaviour that this repository decides:
- the bodies of the REST endpoints: they filter by columns the table does not have,
  and what comes of that is decided inside fastcrud;
- the calendar agent that all teams of a process share (`agents/calender.py`): what a
  mixed context leads to is decided by the language model;
- the GitHub toolkit: a static table without state;
- `ConnectionManager` and `AgentChatManager`: nothing makes one.

Composition: `ClerkWebhook` implements `UserDirectory` (refinement mapping on the
rows). `ClientCache` extends `ResponseCache` with the clients' copies.
`CachedEndpoints` extends `CacheKeys`; `MCCachedEndpoints` joins it with
`TimeLogEndpoints`. `ResponseCache` takes the keys of a request as constants and
`CachedEndpoints` derives them, so the first is about interleaving and the second
about which keys. `Schema` gives statements their meaning, `Revisions` writes the
migrations in them, `Database` is the state `AppLifespan` and `Migrations` share, and
`Deployment` interleaves these two.

## 3. The modules and the code

### UserDirectory
What the endpoint promises about the table `user`: rows go from absent to active
to deleted and never back, an address is held by one row at a time (a deleted row
keeps its address), and an operation changes one row. `Register`, `Amend`, `Retire` stand for the three
committed statements of `webhook.py`.

### ClerkWebhook
| Model | Code |
|---|---|
| `users[u]` | row with `uuid = u`: `is_deleted`, `email`, and the event its other fields come from (`profile`) |
| `handler[h]`, its `step` and `code` | a request in flight, the await it is at, its answer |
| `Deliver`, `Reject` | `clerk_webhook` up to the dispatch |
| `ProcessUserCreated` | `process_user_created`; one step, since it looks nothing up |
| `UpdateGet`, `UpdateApply` | `process_user_updated`: lookup, then update and commit |
| `DeleteGet`, `DeleteApply` | `process_user_deleted`: lookup, then soft delete |
| `Respond` | the answer; Svix counts it only while it waits |
| `clerk`, `emitted`, `acked`, `awaiting`, `ClerkCreate` ..., `Timeout`, `WorkerCrash` | the environment: Clerk, Svix, gunicorn (external) |
| `applied` | history variable, read by properties only |
| `faults` | what may go wrong in a behaviour, one of `FaultSets`; it never changes |

`Event.data` is "unfit" when names or image fail the pydantic models or the NOT
NULL columns. `CanInsert` has both unique columns; `CanUpdate` leaves the row's own
address out, and an update without a primary email sets none. `ProcessUserCreated`
has three ways to its 200: an event without a primary email is dropped at the entry
(`webhook.py:31-33`), a row is inserted, or the insert raises and is logged (44-49).
`InOrder` (Svix delivers a user's events in order and waits for each answer) and `Calm`
(and no database errors) are read off `faults`; a property that needs them says so.

### TimelogChat
| Model | Code |
|---|---|
| `stage[c]` | the await at which the coroutine `timelog_chat` of connection `c` is |
| `speaker[c]` | the round robin of `RoundRobinGroupChat` |
| `mem[c]` | the list `history`, as the set of turns its messages come from |
| `stateFile`, `historyFile` | the two files: absent, emptied, whole, or torn, with a length |
| `OpenState` / `SaveState` / `WriteState` | open with "w", `await team.save_state()`, write |
| `ReadHistory` | `get_timelog_history` as written: it opens the state file |
| `SaveFails`, `StreamFails`, `ReportError` | the inner `except`: both error messages, then the loop goes on |
| `Leave`, `Kill` | the outer handlers; cancellation or exit of the worker |
| `EndTurn` | the end of a turn: the team and the list were its local variables |
| `broken`, `disturbed` | history variables, read by properties only: turns whose save of the state file, or of the two files, was cut short or overlapped another |

An agent's message is done or not done: the termination condition is a text
the model chooses freely. A file is written by one `write` call at offset 0, over
whatever another connection has put there.

### ResponseCache
A GET is `Ask`, `Hit` or `Miss`, `CallRead`, `SetEntry`, `ExpireEntry`; another
request is `StartWrite`, `CallWrite`, `DeleteOwn`, `DeleteExtra` (once per key),
`StartScan`, then `ScanBatch` and `DeleteBatch` until `EndWrite`: each is one await
of `inner` or of `_delete_keys_by_pattern`. `data[k]` is the version of what the
endpoint behind `k` would answer; `excused` is a history variable: keys whose stale entry
comes from an overtaken fill or an abort, or was left to a pattern. A batch of `ScanBatch`
is any set of matching keys and `EndWrite` may come at once: the first cursor is -1
(`cache.py:177`), and Redis returns every key only to an iteration that begins at 0.

### ClientCache
`copy[r][k]` is what the client of reader `r` keeps of key `k`: when its data was read
and until when it is fresh. `HitReceived` and `FillReceived` are the two ways an answer
leaves the decorator, with `Received` for `dispatch`; `Silent` is every other step of a
GET and the loss of a response; `Write` and `ClientTick` are the writers and the clock.
A client may keep a fresh copy and still ask (a reload), so no step of `ResponseCache`
is taken away.

### CacheKeys, CachedEndpoints, TimeLogEndpoints
`CacheKeys` translates the helpers of `cache.py`: `IsId`/`ResourceId`
(`_infer_resource_id`), `Format` (`_format_prefix`), `ExtraKeys`
(`_format_extra_data`), `PatternOf`/`Matches` (the SCAN pattern). Where the code
raises, a predicate says when it does not: `CanIdentify`, `CanFormat`,
`CanFormatExtra`. Keys are sequences of texts, split at ":" and around
values, so two keys that differ as strings only by where a value ends are different
keys; user names that contain ":" are outside the model.
What a request deletes is split the same way: `Deleted` are the keys it names, `Matched`
those its patterns fit, of which SCAN from cursor -1 may return any.
`CachedEndpoints` runs one request after another: `Hit`, `Fill`, `Refuse` (a GET for
which the decorator raises on the way to its key), `Change`, and
`Expire` of an entry at any time. `Change` deletes what it names and whatever SCAN returns of
the rest, and may raise at a template or at the first SCAN (newer Redis refuses the
cursor). An entry that a change leaves out of date keeps the cause: the change raised, SCAN
passed over its key, or nothing in the change named it. `TimeLogEndpoints` lists the decorators of `time_log.py`
and the arguments FastAPI passes.

All three describe the decorator with a Redis client set. The configuration of the
repository starts only in the environment "local" (`setup.py:94` names an
environment that does not exist), where no client is made and the decorator passes
every request through; with no client there is no state to model.

### Schema, Revisions, Database
`Schema` has a record per kind of `op.*` call (a constraint is named by its table and column), `Possible` for what PostgreSQL asks of it
(a foreign key refers to a key of the same type, a required column is not added to rows,
a referenced column is not dropped) and `Exec` for what it leaves. `Revisions` holds
`upgrade` and `downgrade` of each revision as sequences of those statements, and
`LegacyDatabase[i]`, the database of a deployment that has followed the releases to
revision `i`: a release made the tables of its models when it started, which is where
tables come from that a revision drops and none creates. `Database` has the committed
`tables`, the tables the open migration has touched (`pending`, which are locked), and
the `settings`.

### AppLifespan, Migrations, Deployment
| Model | Code |
|---|---|
| `phase[w]` | the await of `lifespan` worker `w` is at; "failed" and "refused" are the ways it raises |
| `Boot`, `CheckTables`, `CreateTables`, `TablesMade` | `create_tables`: `create_all` asks for the names of the tables (`missing[w]`), then creates those; one transaction in PostgreSQL, one statement at a time in SQLite |
| `CheckEnvironment` | the tests of `settings.ENVIRONMENT` up to the `yield` |
| `Halt`, `Crash` | gunicorn and docker (external): halt and restart when a boot fails, replacement of one worker; shutdown is the same as `Crash`, since nothing is left to close |
| `script[a]`, `LookUpAdmin`, `InsertAdmin` | `create_first_user` of `create_first_superuser.py` |
| `Register` | an insert of the webhook, here only as a competitor for an address |
| `stamp`, `run` | `alembic_version`; the command going on, with the revision it is at and its goal |
| `StartCommand`, `RunRevision`, `RevisionFails`, `KillCommand`, `CommitCommand`, `Rollback` | `run_migrations_online` of `env.py`: one transaction around all revisions |
| `undermined` | history variable: workers that had looked for tables when a migration dropped one |

## 4. Runs

| Run | Question | Instance | Answer |
|---|---|---|---|
| `clerk_faults` | any faults: types, ack of updates, refinement of the directory, no revival; in order with crashes: does the table mirror Clerk | 2 users, 1 address, 2 handlers, 2 events each; all five faults, or crashes alone | holds |
| `clerk_delivery` | in order with crashes, rejections and database errors: row monotone; in order with crashes alone: deletes effective, table mirrors Clerk; out of order: does an update that overtook its creation land | 1 user, 2 addresses, 2 handlers, 3 events; three mixes of faults | holds |
| `clerk_lost_create` | is an acknowledged creation applied | 2 users, 1 address, 1 handler, no faults | violated |
| `chat_faults` | what the files hold, with all faults; does every turn end | 2 connections, 2 turns, 2 lengths | holds |
| `chat_history_loaded` | does a turn start from the saved history | 1 connection, 2 turns | violated |
| `cache_invalidation` | why an entry can be stale | 3 keys, 1 GET, 2 writers, 2 writes per key, aborts, any SCAN, clock to 1 | holds |
| `cache_expiry` | how old an answer, and a client's copy of it, can be | 1 key, 3 GETs of 3 clients, 1 write, expiration 2, latency 2, max-age 1, clock to 8 | holds |
| `cached_endpoints` | do the keys of the decorators do what they are for | 2 users, 1 page, 1 log | holds |
| `cached_reads_served` | are the GETs under the decorator answered | the same | violated |
| `cached_patterns` | does a pattern delete what it matches | the same | violated |
| `deployment` | do workers, script, webhook and migrations leave each other tables and accounts, and do workers come up | 2 workers, 1 crash, 1 run of the script, 1 account with its address, 1 command, all 26 stamps, 3 environments, 2 engines, with and without an account | holds |
| `deployment_environments` | does every documented environment start | 2 workers, an empty database, 3 environments | violated |

**Why these bounds are enough.** Webhook: a conflict needs two users (one address
in dispute), a race two handlers, a reordering two events; created, updated and
deleted of one user are three. With one address in `clerk_faults` every other
user's email is in conflict; the properties of `clerk_delivery` are about one user's row
and events, so it has one user with more events and addresses, and `Mirrored`, where users may compete, is in both. Chat: files interact pairwise; a second turn is what
reads the files of the first; two lengths tell a shorter text from a longer one.
Cache: two writers and a reader give fills overtaken by one or two invalidations;
three GETs are the least with which the late EXPIRE of one fill meets the entry
of another while a third reads; the clock runs past expiration plus both
latencies, and a copy taken at the last moment still ages to its bound within
that time. Deployment: one race for the tables needs two workers; commands start
from every stamp, to the next, the last, the previous or the first revision, so one
command meets each revision in each direction and every way through the chain;
one crash leaves a worker behind the others; the script and the webhook
want the same address. Endpoints: two users show a leak between users, a page a key
that only a pattern reaches (the theorems are about all users and pages); `rename_item` repeats with the documented
templates the mistake of `erase_db_time_log`, so that stale entries left by a
request that raised do occur. Symmetry is over users, addresses, handlers,
readers and writers, only in runs without liveness. Deadlock checking is off only for the
webhook, where Clerk runs out of events and everything is acked, and for the
deployment, where every worker serves in the end and commands and crashes run out.

**Fairness.** `clerk_delivery`: weak fairness of each handler's next statement (the
event loop runs a ready coroutine) and strong fairness of attempting each message
(Svix retries until acked; an attempt is disabled while one is in flight). `UpdateLands`
claims nothing of behaviours with other faults than reordering: Svix stops after a fixed number of attempts, so with
unlimited faults an update need not land. `chat_faults`: weak fairness of each
connection's own steps, none of the client's and none of the faults: a user may think for ever. A turn
may be interrupted by faults and that ends it too. `deployment`: weak fairness of each worker's boot
(a ready coroutine runs, gunicorn starts a worker for one that is gone), of the halt
and restart (`restart: always`), and a command always ends: by its commit, an error or
killed. `WorkersComeUp` asks for no more than a schema that stays completable and the
environment LOCAL. The cache runs claim no liveness.

**What the violated runs show.** `clerk_lost_create`: `process_user_created` answers 200
for an insert that failed (`webhook.py:48`), so the account is never mirrored. In the
trace a user takes an address and leaves it in Clerk; before that update reaches the table
another user is created with the address, and the unique column refuses the row.
`chat_history_loaded`: `get_timelog_history` tests the history file and opens the state
file (`time_log.py:161` of the team), so a second turn starts from nothing.
`cached_reads_served`: with a Redis client both GETs of time logs raise before their
endpoint is called, the list for want of an id to infer, the single log for want of a `user_id`
among its arguments (`time_log.py:170`, `:195`); the decorator's docstring says that GETs
are answered from the cache. `cached_patterns`: SCAN starts from cursor -1
(`cache.py:177`), for which Redis promises nothing, so a change may leave a page its
pattern matches; the docstring says that keys are deleted until none matches.
`deployment_environments`: in staging and production `lifespan` compares with a member
its enumeration does not have (`setup.py:94`), so no worker starts.

One more flaw appears as an exception inside properties that hold. Connections that
overlap write the same file after each emptied it, and the longer text stays behind
the shorter one (`time_log.py:333`): `StateParsesAtRest` and `FilesAgree` except such saves, and
`PoisonedForever` shows that a state file left unreadable is never repaired, since a turn
that finds it fails before it can replace it.

## 5. Proofs

Every theorem is for all values of the constants under the named assumptions of
its module (`ConstantsAssumption`, `EndpointsAssumption`, `NumbersAssumption`,
`MaxAgeAssumption`, `LifespanAssumption`, `MigrationsAssumption`,
`DeploymentAssumption`).

- **ClerkWebhook.** `TypeCorrect`. `AckedUpdatesAreApplied` needs `UpdateInv`: a
  handler about to answer an update with 200 has committed it; `AckedUpdateApplied`
  alone does not say what a handler in flight knows. `EndpointImplementsDirectory`
  needs `RowInv`: an absent row has no address, and a handler past its lookup has
  a row that is still there (rows are never removed). `SoftDeleteIsFinal` follows
  from the same invariant. `RowsNeverGoBack` (its property is about behaviours that are `InOrder`)
  needs `OrderInv`: an event has
  at most one attempt in flight, all its predecessors are acked, and no row holds
  data of an event later than one still to be acked.
- **ClerkWebhook, against Clerk.** `AckedDeletesHold` and `TableMirrorsClerk` are about
  behaviours that are `Calm`: order as before and no database errors, with crashes,
  rejections and retries allowed. The endpoint knows nothing of Clerk's state, so
  `MirrorInv` has to say what the events tell: at most one request per user is in
  flight, events are acked in order, the first creates, at most the last deletes and
  the last of the others names Clerk's email; every row holds the data of one
  event and is behind none that was acked; and a 200 on its way to Svix is true.
- **TimelogChat.** `TypeCorrect`; `FilesBelongTogether` from `FilesInv`: a turn that saves
  undisturbed saves alone, its list holds messages of its own turn only, and a state file
  of an undisturbed turn that parses has its history beside it or is about to have it.
  `FilesAgree` alone is silent while somebody saves. `StateReadableAtRest` from `SaveInv`
  (without interrupted or overlapping saves the connection that saves is alone, with the
  file empty); `PoisonIsPermanent` is inductive by itself once types are known.
- **ResponseCache.** `StalenessIsBounded` and `MissingTTLIsOfFill` assume no
  aborts and rest on `ExpiryInv`: an entry without a time to live has its fill
  still in flight, every late EXPIRE belongs to a fill at most one latency younger, and
  the time to live they set ends within the bound. `StaleEntriesExplained`
  assumes nothing of SCAN and rests on `StaleInv`, which says
  what a writer at each step still has to delete by name.
- **ClientCache.** Every step is a step of `ResponseCache`, so the theorems of that module
  carry over; `CopiesAreBounded` adds `CopiesEnd`, which bounds the end of a copy by the age of
  its data when it was received.
- **CachedEndpoints.** `TypeCorrect` includes one entry per key. `AnswersAreFresh`
  reduces freshness to two conditions on pairs of endpoints, `SharedKeysAgree` and
  `ChangesInvalidate`, which are what the author of a new `@cache` line has to
  check; the invariant `FreshInv` says that each entry is the answer to a GET with its key,
  and that no change failed to name it. SCAN may return anything, so what a pattern is left
  to do is a cause of its own in the property. `OthersAreKept` reduces
  the opposite, that nothing else is deleted, to `NarrowChangesFit`: each template of a
  request fits only keys of GETs the request concerns.
- **The documented endpoints.** `DocumentedAnswersAreFresh` and `DocumentedOthersAreKept`
  discharge these conditions for the endpoints of `MCCachedEndpoints`, for all users, pages
  and logs (`Documented` says that the requests are those). The keys of the GETs are
  computed from their templates and told apart by their texts; what a pattern deletes
  is computed from `Matches`, one text of the pattern after the other (`MatchesBySteps`).
  The second theorem needs `PlainNames`: the posts of everybody fit the pattern of a
  user named `*`, and the names `user.py:12` admits have no such character. `DocumentedListsAreCurrent`
  shows what a key by name gives that a pattern does not: the plain list of a user's items is
  out of date only after a change that raised, whatever SCAN returns.
- **Deployment, for any revisions.** `TypeCorrect` and `TablesServed` never look into a
  statement. `ServesOverTables` needs `HasWhatItFound`: a worker past its lookup
  lacks only tables it knows to be missing, unless it is in `undermined`; creating only
  adds tables, and a migration that drops one puts every such worker there.
- **Deployment, with the 25 revisions.** `SchemaIsTold`, `AddressesUnique` and
  `AccountsAreKept` follow from `SchemaInv`. `StampTellsSchema` is not inductive: it says
  nothing of a command half way, nor of the key by which an insert is refused. `SchemaInv` therefore has the committed schema *and* what the open
  command sees fit a revision (`Fits`: the columns of `user`, a key on its address where the
  application can insert, `tier` and `ratelimit` in place, one account per address), the second one on the way from the
  stamp to the goal, and on the way up with every committed account still in it.
  `RevisionProofs` proves of each revision that, if it gets through, it leads from the
  schemas of one stamp to those of the next or the previous (`UpgradeFits`, `DowngradeFits`),
  and that the databases earlier releases left fit their stamp (`LegacyDatabaseFits`).
  Five downgrades are proved never to get through: three drop a constraint
  without naming it, two turn text into uuid (`Downgrade2` and its like). The tables a worker creates while
  a command is open are ones the command has not touched, so both views keep
  fitting. `Run` and `LegacyDatabase` are recursive functions over numbers; that they
  satisfy their equations is proved with an induction made of least elements (`WFMin`).

Only model-checked: liveness (`UpdateLands`, `TurnsEnd`, `WorkersComeUp`), which the provers
cannot reach, and the violations. Every safety property the passing runs check is
stated by a theorem. Where a theorem assumes more than the
constants' types (no aborts), its run sets the same constants so, and the assumption is named with it above.

## 6. What the models assume and leave out

- The database executes a statement with its commit atomically and enforces unique
  columns; an error may come with or without the effect ("db").
- One write of a file is atomic and starts at offset 0; files survive a crash of
  the worker as they are. Two connections of one worker and of two workers are alike.
- An exception of an agent surfaces in the stream, as the pinned AutoGen does.
- A GET's call, SET and EXPIRE take at most `MaxLatency`; without such a bound
  the age of an answer has none.
- `receive_lock` serialises the two places where one coroutine receives; they
  never overlap, so the model has no lock.
- The statements of a migration follow the rules of PostgreSQL in `Schema`; indexes
  other than keys, defaults and comments are left out. A migration keeps locks on the
  tables it touched until it ends, and it runs on the database of the application.
- A deployment that is not new has followed the releases: its tables are those its
  revision and the models of that time leave.
- gunicorn halts when a worker fails to boot and replaces one that dies later; the
  container is restarted whenever it stops.
- Left out: names, images, timestamps and message texts; unknown event types
  (nothing happens); the bodies of the REST endpoints, which filter by columns the
  table does not have, so that what they do is decided inside fastcrud;
  authentication, which is one lookup per request; agents, toolkits, schemas and
  logging; the pools of Redis, which no environment that starts opens. The
  reasons stand with each component in `PROJECT.json`.
