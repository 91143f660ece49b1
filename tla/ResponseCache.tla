----------------------------- MODULE ResponseCache -----------------------------
(***************************************************************************)
(* The @cache decorator (src/app/core/utils/cache.py) around endpoints     *)
(* that share one Redis: GET requests that look up a key and fill it on a  *)
(* miss, other requests that change the data and then delete the keys the  *)
(* decorator's arguments name.  Each await is a step of its own.           *)
(*                                                                         *)
(* The data is a version per key, current when it equals data[k]; time is  *)
(* a counter, in units of the same length as Expiration.                   *)
(***************************************************************************)
EXTENDS Integers, FiniteSets

CONSTANTS Key,          \* cache keys
          Op,           \* decorated endpoints that are not GET
          Own,          \* Own[o]: the key built from key_prefix and resource id
          Extra,        \* Extra[o]: the keys to_invalidate_extra names
          Matched,      \* Matched[o]: the keys the patterns match
          Affects,      \* Affects[o]: the keys whose data o changes
          Reader,       \* GET requests in flight at once
          Writer,       \* other requests in flight at once
          Expiration,   \* the decorator's expiration
          MaxLatency,   \* assumed: a GET's endpoint call, SET and EXPIRE last
                        \* no longer
          Aborts,       \* a Redis call may raise, a request be cancelled
          MaxWrites,    \* bound: writes to one key
          MaxTime       \* bound: the clock

ASSUME EndpointsAssumption ==
  /\ Own \in [Op -> Key]
  /\ Extra \in [Op -> SUBSET Key]
  /\ Matched \in [Op -> SUBSET Key]
  /\ Affects \in [Op -> SUBSET Key]
  /\ \A o \in Op : Affects[o] \subseteq {Own[o]} \cup Extra[o] \cup Matched[o]

ASSUME NumbersAssumption ==
  /\ Expiration \in Nat \ {0} /\ MaxLatency \in Nat
  /\ MaxWrites \in Nat /\ MaxTime \in Nat
  /\ Aborts \in BOOLEAN

VARIABLES data,    \* data[k]: version of what the endpoint of k would answer
          cache,   \* cache[k]: the Redis value of k
          reader,  \* reader[r]: a GET request
          writer,  \* writer[w]: another request
          now,     \* the clock
          excused  \* history: keys whose entry may be stale for a known reason

vars == <<data, cache, reader, writer, now, excused>>

Time == 0..MaxTime
NoTTL == -1

Missing == [present |-> "no", ver |-> 0, asOf |-> 0, until |-> NoTTL]

(* A cached response: its version, when the data was read, and when Redis  *)
(* will drop it (NoTTL: never).                                            *)
Entry == [present : {"yes"}, ver : 0..MaxWrites, asOf : Time,
          until : Nat \cup {NoTTL}]

IdleReader == [step |-> "idle"]
ReaderAt == [step : {"get", "func", "set", "expire"}, key : Key,
             ver : 0..MaxWrites, asOf : Time]

IdleWriter == [step |-> "idle", todo |-> {}, found |-> {}]
WriterAt == [step : {"func", "own", "extra", "scan", "bulk"}, op : Op,
             todo : SUBSET Key, found : SUBSET Key]

TypeOK ==
  /\ data \in [Key -> 0..MaxWrites]
  /\ cache \in [Key -> Entry \cup {Missing}]
  /\ reader \in [Reader -> ReaderAt \cup {IdleReader}]
  /\ writer \in [Writer -> WriterAt \cup {IdleWriter}]
  /\ now \in Time
  /\ excused \subseteq Key

Cached(k) == cache[k].present = "yes"

(* What w is still certain to delete.                                      *)
WillDelete(w) == writer[w].todo \cup writer[w].found

(* What a request of o deletes by name.                                    *)
Named(o) == {Own[o]} \cup Extra[o]

Pending(k) == \E w \in Writer : k \in WillDelete(w)

Drop(ks) ==
  /\ cache' = [k \in Key |-> IF k \in ks THEN Missing ELSE cache[k]]
  /\ excused' = excused \ ks

-----------------------------------------------------------------------------
(* inner, for a GET request.                                               *)

Ask(r, k) ==
  /\ reader[r] = IdleReader
  /\ reader' = [reader EXCEPT ![r] = [step |-> "get", key |-> k,
                                      ver |-> 0, asOf |-> 0]]
  /\ UNCHANGED <<data, cache, writer, now, excused>>

(* Mutant of Hit: a hit renews the entry's TTL.                            *)
HitRenewing(r) ==
  /\ reader[r].step = "get"
  /\ Cached(reader[r].key)
  /\ cache' = [cache EXCEPT ![reader[r].key].until = now + Expiration]
  /\ reader' = [reader EXCEPT ![r] = IdleReader]
  /\ UNCHANGED <<data, writer, now, excused>>

(* client.get: a hit is the answer, a miss goes on to the endpoint.        *)
Hit(r) ==
  /\ reader[r].step = "get"
  /\ Cached(reader[r].key)
  /\ reader' = [reader EXCEPT ![r] = IdleReader]
  /\ UNCHANGED <<data, cache, writer, now, excused>>

Miss(r) ==
  /\ reader[r].step = "get"
  /\ ~ Cached(reader[r].key)
  /\ reader' = [reader EXCEPT ![r] = [step |-> "func", key |-> @.key,
                                      ver |-> 0, asOf |-> 0]]
  /\ UNCHANGED <<data, cache, writer, now, excused>>

CallRead(r) ==
  /\ reader[r].step = "func"
  /\ reader' = [reader EXCEPT ![r] = [step |-> "set", key |-> @.key,
                                      ver |-> data[@.key], asOf |-> now]]
  /\ UNCHANGED <<data, cache, writer, now, excused>>

(* Mutant of SetEntry: the EXPIRE that follows is forgotten.               *)
SetEntryOnly(r) ==
  /\ reader[r].step = "set"
  /\ cache' = [cache EXCEPT ![reader[r].key] =
                 [present |-> "yes", ver |-> reader[r].ver,
                  asOf |-> reader[r].asOf, until |-> NoTTL]]
  /\ reader' = [reader EXCEPT ![r] = IdleReader]
  /\ UNCHANGED <<data, writer, now, excused>>

(* client.set: replaces the entry and its TTL, if it had one.              *)
SetEntry(r) ==
  /\ reader[r].step = "set"
  /\ LET k == reader[r].key IN
       /\ cache' = [cache EXCEPT ![k] = [present |-> "yes", ver |-> reader[r].ver,
                                         asOf |-> reader[r].asOf, until |-> NoTTL]]
       /\ excused' = IF reader[r].ver < data[k] /\ ~ Pending(k)
                       THEN excused \cup {k} ELSE excused \ {k}
  /\ reader' = [reader EXCEPT ![r] = [step |-> "expire", key |-> @.key,
                                      ver |-> @.ver, asOf |-> @.asOf]]
  /\ UNCHANGED <<data, writer, now>>

(* client.expire: of whatever the key holds by now, nothing if it is gone. *)
ExpireEntry(r) ==
  /\ reader[r].step = "expire"
  /\ LET k == reader[r].key IN
       cache' = IF Cached(k)
                  THEN [cache EXCEPT ![k] = [present |-> "yes", ver |-> @.ver,
                                             asOf |-> @.asOf,
                                             until |-> now + Expiration]]
                  ELSE cache
  /\ reader' = [reader EXCEPT ![r] = IdleReader]
  /\ UNCHANGED <<data, writer, now, excused>>

-----------------------------------------------------------------------------
(* inner, for a request of another method.                                 *)

StartWrite(w, o) ==
  /\ writer[w] = IdleWriter
  /\ writer' = [writer EXCEPT ![w] = [step |-> "func", op |-> o,
                                      todo |-> {}, found |-> {}]]
  /\ UNCHANGED <<data, cache, reader, now, excused>>

(* The endpoint commits its change; the invalidations follow.  Entries it  *)
(* leaves to a pattern may stay: the SCAN to come has no cursor of Redis.  *)
CallWrite(w) ==
  /\ writer[w].step = "func"
  /\ LET o == writer[w].op IN
       /\ \A k \in Affects[o] : data[k] < MaxWrites
       /\ data' = [k \in Key |-> IF k \in Affects[o] THEN data[k] + 1 ELSE data[k]]
       /\ writer' = [writer EXCEPT ![w] =
                       [step |-> "own", op |-> o, todo |-> Named(o), found |-> {}]]
       /\ excused' = excused \cup {k \in (Affects[o] \cap Matched[o]) \ Named(o) : Cached(k)}
  /\ UNCHANGED <<cache, reader, now>>

(* Mutant of DeleteOwn: to_invalidate_extra is ignored.                    *)
DeleteOwnOnly(w) ==
  /\ writer[w].step = "own"
  /\ Drop({Own[writer[w].op]})
  /\ writer' = [writer EXCEPT ![w] = [step |-> "scan", op |-> @.op,
                                      todo |-> {}, found |-> {}]]
  /\ UNCHANGED <<data, reader, now>>

(* Mutant of DeleteOwn: the extra keys are deleted as if they were one.    *)
DeleteOwnThenAll(w) ==
  /\ writer[w].step = "own"
  /\ Drop({Own[writer[w].op]})
  /\ writer' = [writer EXCEPT ![w] = [step |-> "extra", op |-> @.op,
                                      todo |-> {Extra[@.op]}, found |-> {}]]
  /\ UNCHANGED <<data, reader, now>>

(* client.delete(cache_key)                                                *)
DeleteOwn(w) ==
  /\ writer[w].step = "own"
  /\ LET k == Own[writer[w].op] IN
       /\ Drop({k})
       /\ writer' = [writer EXCEPT ![w] =
                       [step |-> "extra", op |-> @.op, todo |-> Extra[@.op],
                        found |-> {}]]
  /\ UNCHANGED <<data, reader, now>>

(* client.delete(extra_cache_key), one by one.                             *)
DeleteExtra(w) ==
  /\ writer[w].step = "extra"
  /\ \E k \in writer[w].todo :
       /\ Drop({k})
       /\ writer' = [writer EXCEPT ![w] =
                       [step |-> "extra", op |-> @.op, todo |-> @.todo \ {k},
                        found |-> {}]]
  /\ UNCHANGED <<data, reader, now>>

StartScan(w) ==
  /\ writer[w].step = "extra"
  /\ writer[w].todo = {}
  /\ writer' = [writer EXCEPT ![w] = [step |-> "scan", op |-> @.op,
                                      todo |-> {}, found |-> {}]]
  /\ UNCHANGED <<data, cache, reader, now, excused>>

(* client.scan: a batch of keys, those present found.  The first cursor is *)
(* -1, which Redis did not hand out: the batches may be anything.          *)
ScanBatch(w) ==
  /\ writer[w].step = "scan"
  /\ \E batch \in SUBSET Matched[writer[w].op] :
       /\ batch # {}
       /\ writer' = [writer EXCEPT ![w] =
                       [step |-> "bulk", op |-> @.op, todo |-> {},
                        found |-> {k \in batch : Cached(k)}]]
  /\ UNCHANGED <<data, cache, reader, now, excused>>

(* client.delete of the keys found, if any; then the next batch.           *)
DeleteBatch(w) ==
  /\ writer[w].step = "bulk"
  /\ Drop(writer[w].found)
  /\ writer' = [writer EXCEPT ![w] = [step |-> "scan", op |-> @.op,
                                      todo |-> {}, found |-> {}]]
  /\ UNCHANGED <<data, reader, now>>

(* The cursor is 0, if need be at once.                                    *)
EndWrite(w) ==
  /\ writer[w].step = "scan"
  /\ writer' = [writer EXCEPT ![w] = IdleWriter]
  /\ UNCHANGED <<data, cache, reader, now, excused>>

-----------------------------------------------------------------------------
(* A Redis call raises or the request is cancelled: what is left is not    *)
(* done.  (An effect whose answer is lost is the step and then this.)      *)
AbortReader(r) ==
  /\ Aborts
  /\ reader[r] # IdleReader
  /\ reader' = [reader EXCEPT ![r] = IdleReader]
  /\ UNCHANGED <<data, cache, writer, now, excused>>

AbortWriter(w) ==
  /\ Aborts
  /\ writer[w] # IdleWriter
  /\ writer' = [writer EXCEPT ![w] = IdleWriter]
  /\ excused' = excused \cup WillDelete(w)
  /\ UNCHANGED <<data, cache, reader, now>>

(* Time passes while no fill takes longer than assumed; Redis drops what   *)
(* has expired.                                                            *)
Tick ==
  /\ now < MaxTime
  /\ \A r \in Reader : reader[r].step \in {"set", "expire"}
                         => now < reader[r].asOf + MaxLatency
  /\ now' = now + 1
  /\ LET gone == {k \in Key : Cached(k) /\ cache[k].until # NoTTL
                                /\ cache[k].until <= now + 1} IN Drop(gone)
  /\ UNCHANGED <<data, reader, writer>>

Init ==
  /\ data = [k \in Key |-> 0]
  /\ cache = [k \in Key |-> Missing]
  /\ reader = [r \in Reader |-> IdleReader]
  /\ writer = [w \in Writer |-> IdleWriter]
  /\ now = 0
  /\ excused = {}

ReaderStep(r) ==
  \/ \E k \in Key : Ask(r, k)
  \/ Hit(r) \/ Miss(r) \/ CallRead(r) \/ SetEntry(r) \/ ExpireEntry(r)
  \/ AbortReader(r)

WriterStep(w) ==
  \/ \E o \in Op : StartWrite(w, o)
  \/ CallWrite(w) \/ DeleteOwn(w) \/ DeleteExtra(w) \/ StartScan(w)
  \/ ScanBatch(w) \/ DeleteBatch(w) \/ EndWrite(w)
  \/ AbortWriter(w)

Next ==
  \/ \E r \in Reader : ReaderStep(r)
  \/ \E w \in Writer : WriterStep(w)
  \/ Tick

Spec == Init /\ [][Next]_vars

-----------------------------------------------------------------------------
(* Properties.                                                             *)

Stale(k) == Cached(k) /\ cache[k].ver < data[k]

(* A stale entry has one of these causes: a request that changed the data  *)
(* is still to delete it, its fill was overtaken by the whole of a write,  *)
(* the invalidation was aborted, or its change left it to a pattern (the   *)
(* SCAN from -1 may miss it).  In particular a key that each of its        *)
(* changes names is left stale only by an abort or by an overtaken fill,   *)
(* whichever requests run at once.                                         *)
StaleHasCause == \A k \in Key : Stale(k) => Pending(k) \/ k \in excused

(* Without aborts an entry lacks a TTL only while the GET that wrote it is *)
(* on its way from SET to EXPIRE.                                          *)
TTLMissingOnlyInFill ==
  ~ Aborts =>
    \A k \in Key : Cached(k) /\ cache[k].until = NoTTL =>
      \E r \in Reader : /\ reader[r].step = "expire" /\ reader[r].key = k
                        /\ reader[r].asOf = cache[k].asOf

(* Without aborts no answer from the cache is older than the expiration    *)
(* and two latencies: one for the fill itself and one because the EXPIRE   *)
(* of an earlier fill of the key may come late and restart the countdown.  *)
BoundedStaleness ==
  ~ Aborts =>
    \A k \in Key : Cached(k) => now < cache[k].asOf + Expiration + 2 * MaxLatency
=============================================================================
