-------------------------- MODULE ResponseCacheProofs --------------------------
(***************************************************************************)
(* What holds of the @cache decorator for any number of keys, endpoints,   *)
(* concurrent requests, writes and any expiration and latency.             *)
(***************************************************************************)
EXTENDS ResponseCache, TLAPS

LEMMA MissingNotCached == Missing.present = "no" /\ \A e \in Entry : e.present = "yes"
  BY DEF Missing, Entry

LEMMA CachedEntry ==
  ASSUME TypeOK, NEW k \in Key, Cached(k)
  PROVE  cache[k] \in Entry
  BY MissingNotCached DEF TypeOK, Cached

LEMMA BusyReader ==
  ASSUME TypeOK, NEW r \in Reader, reader[r].step # "idle"
  PROVE  reader[r] \in ReaderAt
  BY DEF TypeOK, IdleReader

LEMMA BusyWriter ==
  ASSUME TypeOK, NEW w \in Writer, writer[w].step # "idle"
  PROVE  writer[w] \in WriterAt
  BY DEF TypeOK, IdleWriter

LEMMA DropTyped ==
  ASSUME TypeOK, NEW ks \in SUBSET Key, Drop(ks)
  PROVE  /\ cache' \in [Key -> Entry \cup {Missing}]
         /\ excused' \subseteq Key
         /\ \A k \in Key : cache'[k] = IF k \in ks THEN Missing ELSE cache[k]
  BY DEF Drop, TypeOK

LEMMA TypeStep == TypeOK /\ [Next]_vars => TypeOK'
<1> SUFFICES ASSUME TypeOK, [Next]_vars PROVE TypeOK'
  OBVIOUS
<1>1. CASE UNCHANGED vars
  BY <1>1 DEF vars, TypeOK
<1>2. ASSUME NEW r \in Reader, ReaderStep(r)
      PROVE  TypeOK'
  <2>1. ASSUME NEW k \in Key, Ask(r, k)
        PROVE  TypeOK'
    <3>1. [step |-> "get", key |-> k, ver |-> 0, asOf |-> 0] \in ReaderAt
      BY NumbersAssumption DEF ReaderAt, Time
    <3> QED
      BY <2>1, <3>1 DEF Ask, TypeOK
  <2>2. CASE Hit(r) \/ AbortReader(r)
    BY <2>2 DEF Hit, AbortReader, TypeOK
  <2>3. CASE Miss(r)
    <3>1. [step |-> "func", key |-> reader[r].key, ver |-> 0, asOf |-> 0] \in ReaderAt
      BY <2>3, BusyReader, NumbersAssumption DEF Miss, ReaderAt, Time
    <3> QED
      BY <2>3, <3>1 DEF Miss, TypeOK
  <2>4. CASE CallRead(r)
    <3>1. [step |-> "set", key |-> reader[r].key, ver |-> data[reader[r].key],
           asOf |-> now] \in ReaderAt
      BY <2>4, BusyReader DEF CallRead, ReaderAt, TypeOK
    <3> QED
      BY <2>4, <3>1 DEF CallRead, TypeOK
  <2>5. CASE SetEntry(r)
    <3>1. reader[r] \in ReaderAt
      BY <2>5, BusyReader DEF SetEntry
    <3>2. [step |-> "expire", key |-> reader[r].key, ver |-> reader[r].ver,
           asOf |-> reader[r].asOf] \in ReaderAt
      BY <3>1 DEF ReaderAt
    <3>3. [present |-> "yes", ver |-> reader[r].ver, asOf |-> reader[r].asOf,
           until |-> NoTTL] \in Entry
      BY <3>1 DEF ReaderAt, Entry
    <3>4. reader[r].key \in Key
      BY <3>1 DEF ReaderAt
    <3> QED
      BY <2>5, <3>2, <3>3, <3>4 DEF SetEntry, TypeOK
  <2>6. CASE ExpireEntry(r)
    <3>1. reader[r].key \in Key
      BY <2>6, BusyReader DEF ExpireEntry, ReaderAt
    <3>2. Cached(reader[r].key) =>
            [present |-> "yes", ver |-> cache[reader[r].key].ver,
             asOf |-> cache[reader[r].key].asOf, until |-> now + Expiration] \in Entry
      BY <3>1, CachedEntry, NumbersAssumption DEF Entry, TypeOK, Time
    <3> QED
      BY <2>6, <3>1, <3>2 DEF ExpireEntry, TypeOK
  <2> QED
    BY <1>2, <2>1, <2>2, <2>3, <2>4, <2>5, <2>6 DEF ReaderStep
<1>3. ASSUME NEW w \in Writer, WriterStep(w)
      PROVE  TypeOK'
  <2> DEFINE W(s, o, t, f) == [step |-> s, op |-> o, todo |-> t, found |-> f]
  <2>1. ASSUME NEW o \in Op, StartWrite(w, o)
        PROVE  TypeOK'
    <3>1. W("func", o, {}, {}) \in WriterAt
      BY DEF WriterAt
    <3> QED
      BY <2>1, <3>1 DEF StartWrite, TypeOK
  <2>2. CASE CallWrite(w)
    <3> DEFINE o == writer[w].op
    <3>1. o \in Op
      BY <2>2, BusyWriter DEF CallWrite, WriterAt
    <3>2. W("own", o, Named(o), {}) \in WriterAt
      BY <3>1, EndpointsAssumption DEF WriterAt, Named
    <3>3. data' \in [Key -> 0..MaxWrites]
      BY <2>2, NumbersAssumption DEF CallWrite, TypeOK
    <3>4. excused' \subseteq Key
      BY <2>2, <3>1, EndpointsAssumption DEF CallWrite, TypeOK
    <3> QED
      BY <2>2, <3>2, <3>3, <3>4 DEF CallWrite, TypeOK
  <2>3. CASE DeleteOwn(w)
    <3>1. writer[w] \in WriterAt
      BY <2>3, BusyWriter DEF DeleteOwn
    <3>2. W("extra", writer[w].op, Extra[writer[w].op], {}) \in WriterAt
      BY <3>1, EndpointsAssumption DEF WriterAt
    <3>3. {Own[writer[w].op]} \in SUBSET Key
      BY <3>1, EndpointsAssumption DEF WriterAt
    <3> QED
      BY <2>3, <3>2, <3>3, DropTyped DEF DeleteOwn, TypeOK
  <2>4. CASE DeleteExtra(w)
    <3>1. writer[w] \in WriterAt
      BY <2>4, BusyWriter DEF DeleteExtra
    <3>2. PICK k \in writer[w].todo :
             /\ Drop({k})
             /\ writer' = [writer EXCEPT ![w] =
                  W("extra", writer[w].op, writer[w].todo \ {k}, {})]
      BY <2>4, <3>1 DEF DeleteExtra, TypeOK
    <3>3. W("extra", writer[w].op, writer[w].todo \ {k}, {}) \in WriterAt
      BY <3>1 DEF WriterAt
    <3>4. {k} \in SUBSET Key
      BY <3>1 DEF WriterAt
    <3> QED
      BY <2>4, <3>2, <3>3, <3>4, DropTyped DEF DeleteExtra, TypeOK
  <2>5. CASE StartScan(w)
    <3>1. W("scan", writer[w].op, {}, {}) \in WriterAt
      BY <2>5, BusyWriter DEF StartScan, WriterAt
    <3> QED
      BY <2>5, <3>1 DEF StartScan, TypeOK
  <2>6. CASE ScanBatch(w)
    <3>1. writer[w] \in WriterAt
      BY <2>6, BusyWriter DEF ScanBatch
    <3>2. PICK batch \in SUBSET Matched[writer[w].op] :
             writer' = [writer EXCEPT ![w] =
                W("bulk", writer[w].op, {}, {k \in batch : Cached(k)})]
      BY <2>6, <3>1 DEF ScanBatch, TypeOK
    <3>3. batch \subseteq Key
      BY <3>1, EndpointsAssumption DEF WriterAt
    <3>4. W("bulk", writer[w].op, {}, {k \in batch : Cached(k)}) \in WriterAt
      BY <3>1, <3>3 DEF WriterAt
    <3> QED
      BY <2>6, <3>2, <3>4 DEF ScanBatch, TypeOK
  <2>7. CASE DeleteBatch(w)
    <3>1. writer[w] \in WriterAt
      BY <2>7, BusyWriter DEF DeleteBatch
    <3>2. W("scan", writer[w].op, {}, {}) \in WriterAt
      BY <3>1 DEF WriterAt
    <3> QED
      BY <2>7, <3>1, <3>2, DropTyped DEF DeleteBatch, TypeOK, WriterAt
  <2>8. CASE EndWrite(w)
    BY <2>8 DEF EndWrite, TypeOK
  <2>9. CASE AbortWriter(w)
    BY <2>9 DEF AbortWriter, TypeOK, WillDelete, WriterAt, IdleWriter
  <2> QED
    BY <1>3, <2>1, <2>2, <2>3, <2>4, <2>5, <2>6, <2>7, <2>8, <2>9 DEF WriterStep
<1>4. CASE Tick
  <2>1. now' \in Time
    BY <1>4, NumbersAssumption DEF Tick, Time, TypeOK
  <2> QED
    BY <1>4, <2>1, DropTyped DEF Tick, TypeOK
<1> QED
  BY <1>1, <1>2, <1>3, <1>4 DEF Next

LEMMA TypeInit == Init => TypeOK
  BY NumbersAssumption DEF Init, TypeOK, Time

(* Every variable keeps its type.                                          *)
THEOREM TypeCorrect == Spec => []TypeOK
  BY TypeInit, TypeStep, PTL DEF Spec

-----------------------------------------------------------------------------
(* Time.                                                                   *)

Filling(r) == reader[r].step \in {"set", "expire"}

(* A fill is within its latency; an entry without TTL was written by a     *)
(* fill that is still at its EXPIRE; any fill at its EXPIRE read its data  *)
(* at most one latency after the entry's data; and a TTL set by any such   *)
(* fill ends within the bound.                                             *)
FillInTime == \A r \in Reader : Filling(r) =>
                reader[r].asOf <= now /\ now <= reader[r].asOf + MaxLatency

OthersNotMuchLater ==
  \A k \in Key : Cached(k) =>
    \A r \in Reader : reader[r].step = "expire" /\ reader[r].key = k
                       => reader[r].asOf <= cache[k].asOf + MaxLatency

NoTTLHasFill ==
  \A k \in Key : Cached(k) /\ cache[k].until = NoTTL =>
    \E r \in Reader : /\ reader[r].step = "expire" /\ reader[r].key = k
                      /\ reader[r].asOf = cache[k].asOf

TTLBounded ==
  \A k \in Key : Cached(k) /\ cache[k].until # NoTTL =>
    /\ now < cache[k].until
    /\ cache[k].until <= cache[k].asOf + Expiration + 2 * MaxLatency

ExpiryInv ==
  TypeOK /\ FillInTime /\ OthersNotMuchLater /\ NoTTLHasFill /\ TTLBounded

(* The steps that leave the clock, the fills and the entries alone, but    *)
(* for entries that disappear.                                             *)
LEMMA EntriesOnlyVanish ==
  ASSUME ExpiryInv, TypeOK', UNCHANGED now,
         \A r \in Reader : \/ reader'[r] = reader[r]
                           \/ ~ Filling(r) /\ ~ Filling(r)',
         \A k \in Key : cache'[k] = cache[k] \/ cache'[k] = Missing
  PROVE  ExpiryInv'
<1>1. \A k \in Key : Cached(k)' => Cached(k) /\ cache'[k] = cache[k]
  BY MissingNotCached DEF Cached
<1>2. \A r \in Reader : reader[r].step = "expire" \/ reader'[r].step = "expire"
                          => reader'[r] = reader[r]
  BY DEF Filling
<1>3. FillInTime'
  BY DEF ExpiryInv, FillInTime, Filling
<1>4. OthersNotMuchLater'
  BY <1>1, <1>2 DEF ExpiryInv, OthersNotMuchLater
<1>5. NoTTLHasFill'
  BY <1>1, <1>2 DEF ExpiryInv, NoTTLHasFill
<1>6. TTLBounded'
  BY <1>1 DEF ExpiryInv, TTLBounded
<1> QED
  BY <1>3, <1>4, <1>5, <1>6 DEF ExpiryInv

LEMMA ExpiryInvStep == ~ Aborts /\ ExpiryInv /\ [Next]_vars => ExpiryInv'
<1> SUFFICES ASSUME ~ Aborts, ExpiryInv, [Next]_vars PROVE ExpiryInv'
  OBVIOUS
<1>0. TypeOK /\ TypeOK'
  BY TypeStep DEF ExpiryInv
<1>a. /\ \A r \in Reader : reader[r].step # "idle" =>
            reader[r].asOf \in Nat /\ reader[r].key \in Key
      /\ \A k \in Key : Cached(k) => /\ cache[k].asOf \in Nat
                                     /\ cache[k].until \in Nat \cup {NoTTL}
      /\ now \in Nat /\ MaxLatency \in Nat /\ Expiration \in Nat \ {0}
  BY <1>0, BusyReader, CachedEntry, NumbersAssumption
     DEF ReaderAt, Time, Entry, TypeOK
<1>1. CASE UNCHANGED vars
  BY <1>0, <1>1, EntriesOnlyVanish DEF vars
<1>2. ASSUME NEW r \in Reader,
             (\E k \in Key : Ask(r, k)) \/ Hit(r) \/ Miss(r)
      PROVE  ExpiryInv'
  <2>1. /\ UNCHANGED <<now, cache>>
        /\ ~ Filling(r) /\ ~ Filling(r)'
        /\ \A q \in Reader \ {r} : reader'[q] = reader[q]
    BY <1>0, <1>2 DEF Ask, Hit, Miss, Filling, TypeOK, IdleReader
  <2> QED
    BY <1>0, <2>1, EntriesOnlyVanish
<1>3. ASSUME NEW r \in Reader, CallRead(r)
      PROVE  ExpiryInv'
  <2>1. /\ UNCHANGED <<now, cache>>
        /\ reader[r].step = "func"
        /\ reader'[r].step = "set" /\ reader'[r].asOf = now
        /\ \A q \in Reader \ {r} : reader'[q] = reader[q]
    BY <1>0, <1>3 DEF CallRead, TypeOK
  <2>2. FillInTime'
    BY <1>a, <2>1 DEF ExpiryInv, FillInTime, Filling
  <2> QED
    BY <1>0, <2>1, <2>2 DEF ExpiryInv, OthersNotMuchLater, NoTTLHasFill,
       TTLBounded, Cached
<1>4. ASSUME NEW r \in Reader, NEW k \in Key, k = reader[r].key, SetEntry(r)
      PROVE  ExpiryInv'
  <2>1. /\ UNCHANGED now
        /\ reader[r].step = "set"
        /\ reader'[r].step = "expire" /\ reader'[r].key = k
        /\ reader'[r].asOf = reader[r].asOf
        /\ \A q \in Reader \ {r} : reader'[q] = reader[q]
        /\ Cached(k)' /\ cache'[k].asOf = reader[r].asOf /\ cache'[k].until = NoTTL
        /\ \A j \in Key \ {k} : cache'[j] = cache[j]
    BY <1>0, <1>a, <1>4 DEF SetEntry, TypeOK, Cached
  <2>2. FillInTime'
    BY <2>1 DEF ExpiryInv, FillInTime, Filling
  <2>3. OthersNotMuchLater'
    <3>1. \A q \in Reader : reader'[q].step = "expire" =>
            reader'[q].asOf <= now /\ now <= reader[r].asOf + MaxLatency
      BY <2>1 DEF ExpiryInv, FillInTime, Filling
    <3>2. \A q \in Reader : reader'[q].step = "expire" => reader'[q].asOf \in Nat
      BY <1>0, BusyReader, <1>a, <2>1
    <3>3. \A q \in Reader : reader'[q].step = "expire"
                             => reader'[q].asOf <= cache'[k].asOf + MaxLatency
      BY <1>a, <2>1, <3>1, <3>2
    <3> QED
      BY <2>1, <3>3 DEF ExpiryInv, OthersNotMuchLater, Cached
  <2>4. NoTTLHasFill'
    BY <2>1 DEF ExpiryInv, NoTTLHasFill, Cached
  <2>5. TTLBounded'
    BY <2>1 DEF ExpiryInv, TTLBounded, Cached
  <2> QED
    BY <1>0, <2>2, <2>3, <2>4, <2>5 DEF ExpiryInv
<1>5. ASSUME NEW r \in Reader, NEW k \in Key, k = reader[r].key, ExpireEntry(r)
      PROVE  ExpiryInv'
  <2>1. /\ UNCHANGED now
        /\ reader[r].step = "expire"
        /\ reader'[r].step = "idle"
        /\ \A q \in Reader \ {r} : reader'[q] = reader[q]
        /\ \A j \in Key \ {k} : cache'[j] = cache[j]
        /\ Cached(k)' <=> Cached(k)
        /\ Cached(k) => /\ cache'[k].asOf = cache[k].asOf
                        /\ cache'[k].until = now + Expiration
    BY <1>0, <1>a, <1>5 DEF ExpireEntry, TypeOK, Cached, IdleReader
  <2>2. FillInTime'
    BY <2>1 DEF ExpiryInv, FillInTime, Filling
  <2>3. OthersNotMuchLater'
    BY <2>1 DEF ExpiryInv, OthersNotMuchLater, Cached
  <2>4. NoTTLHasFill'
    <3>1. ASSUME NEW j \in Key, Cached(j)', cache'[j].until = NoTTL
          PROVE  j # k /\ Cached(j) /\ cache'[j] = cache[j]
      BY <1>a, <2>1, <3>1 DEF NoTTL, Cached
    <3>2. ASSUME NEW j \in Key, Cached(j)', cache'[j].until = NoTTL
          PROVE  \E q \in Reader : /\ reader'[q].step = "expire"
                                   /\ reader'[q].key = j
                                   /\ reader'[q].asOf = cache'[j].asOf
      <4>1. PICK q \in Reader : /\ reader[q].step = "expire"
                                /\ reader[q].key = j
                                /\ reader[q].asOf = cache[j].asOf
        BY <3>1, <3>2 DEF ExpiryInv, NoTTLHasFill
      <4>2. q # r
        BY <1>5, <3>1, <3>2, <4>1
      <4> QED
        BY <2>1, <3>1, <3>2, <4>1, <4>2
    <3> QED
      BY <3>2 DEF NoTTLHasFill
  <2>5. TTLBounded'
    <3>1. Cached(k) => now + Expiration
                         <= cache[k].asOf + Expiration + 2 * MaxLatency
      <4>1. now <= reader[r].asOf + MaxLatency
        BY <2>1 DEF ExpiryInv, FillInTime, Filling
      <4>2. Cached(k) => reader[r].asOf <= cache[k].asOf + MaxLatency
        BY <1>5, <2>1 DEF ExpiryInv, OthersNotMuchLater
      <4>3. reader[r].asOf \in Nat
        BY <1>a, <2>1
      <4> QED
        BY <1>a, <2>1, <4>1, <4>2, <4>3
    <3>2. now < now + Expiration
      BY <1>a
    <3> QED
      BY <2>1, <3>1, <3>2 DEF ExpiryInv, TTLBounded, Cached
  <2> QED
    BY <1>0, <2>2, <2>3, <2>4, <2>5 DEF ExpiryInv
<1>6. ASSUME NEW w \in Writer, WriterStep(w)
      PROVE  ExpiryInv'
  <2>1. UNCHANGED <<now, reader>>
    BY <1>6 DEF WriterStep, StartWrite, CallWrite, DeleteOwn, DeleteExtra,
       StartScan, ScanBatch, DeleteBatch, EndWrite, AbortWriter
  <2>2. \A k \in Key : cache'[k] = cache[k] \/ cache'[k] = Missing
    BY <1>6 DEF WriterStep, StartWrite, CallWrite, DeleteOwn, DeleteExtra,
       StartScan, ScanBatch, DeleteBatch, EndWrite, AbortWriter, Drop
  <2> QED
    BY <1>0, <2>1, <2>2, EntriesOnlyVanish
<1>7. CASE Tick
  <2>1. /\ UNCHANGED reader
        /\ now' = now + 1
        /\ \A r \in Reader : Filling(r) => now < reader[r].asOf + MaxLatency
    BY <1>7 DEF Tick, Filling
  <2>2. \A k \in Key : Cached(k)' => /\ Cached(k) /\ cache'[k] = cache[k]
                                     /\ cache[k].until # NoTTL
                                          => ~ (cache[k].until <= now + 1)
    BY <1>7, MissingNotCached DEF Tick, Drop, Cached
  <2>3. FillInTime'
    BY <1>a, <2>1 DEF ExpiryInv, FillInTime, Filling
  <2>4. OthersNotMuchLater' /\ NoTTLHasFill'
    BY <2>1, <2>2 DEF ExpiryInv, OthersNotMuchLater, NoTTLHasFill
  <2>5. TTLBounded'
    BY <1>a, <2>1, <2>2 DEF ExpiryInv, TTLBounded
  <2> QED
    BY <1>0, <2>3, <2>4, <2>5 DEF ExpiryInv
<1>8. ASSUME NEW r \in Reader, SetEntry(r) \/ ExpireEntry(r)
      PROVE  ExpiryInv'
  <2>1. reader[r].key \in Key
    BY <1>a, <1>8 DEF SetEntry, ExpireEntry
  <2> QED
    BY <1>4, <1>5, <1>8, <2>1
<1> QED
  BY <1>1, <1>2, <1>3, <1>6, <1>7, <1>8
     DEF Next, ReaderStep, AbortReader

LEMMA ExpiryInvInit == Init => ExpiryInv
  BY TypeInit, MissingNotCached DEF Init, ExpiryInv, FillInTime, Filling, Cached,
     OthersNotMuchLater, NoTTLHasFill, TTLBounded, IdleReader

LEMMA ExpiryInvBounds == ExpiryInv => BoundedStaleness /\ TTLMissingOnlyInFill
<1> SUFFICES ASSUME ExpiryInv
             PROVE  /\ \A k \in Key : Cached(k) =>
                        now < cache[k].asOf + Expiration + 2 * MaxLatency
                    /\ NoTTLHasFill
  BY DEF BoundedStaleness, TTLMissingOnlyInFill, NoTTLHasFill
<1>0. TypeOK
  BY DEF ExpiryInv
<1>1. ASSUME NEW k \in Key, Cached(k)
      PROVE  now < cache[k].asOf + Expiration + 2 * MaxLatency
  <2>1. /\ cache[k].asOf \in Nat /\ cache[k].until \in Nat \cup {NoTTL}
        /\ now \in Nat /\ MaxLatency \in Nat /\ Expiration \in Nat \ {0}
    BY <1>0, <1>1, CachedEntry, NumbersAssumption DEF Time, Entry, TypeOK
  <2>2. CASE cache[k].until = NoTTL
    <3>1. now <= cache[k].asOf + MaxLatency
      BY <1>1, <2>2 DEF ExpiryInv, NoTTLHasFill, FillInTime, Filling
    <3> QED
      BY <2>1, <3>1
  <2>3. CASE cache[k].until # NoTTL
    BY <1>1, <2>1, <2>3 DEF ExpiryInv, TTLBounded
  <2> QED
    BY <2>2, <2>3
<1> QED
  BY <1>1 DEF ExpiryInv

(* Without aborts an entry's data is younger than the expiration and two   *)
(* latencies, however the fills of inner overlap.                          *)
THEOREM StalenessIsBounded ==
  ASSUME ~ Aborts
  PROVE  Spec => []BoundedStaleness
<1>1. ExpiryInv /\ [Next]_vars => ExpiryInv'
  BY ExpiryInvStep
<1> QED
  BY <1>1, ExpiryInvInit, ExpiryInvBounds, PTL DEF Spec

(* Without aborts an entry lacks its time to live only between the SET and *)
(* the EXPIRE of the very fill that made it.                               *)
THEOREM MissingTTLIsOfFill ==
  ASSUME ~ Aborts
  PROVE  Spec => []TTLMissingOnlyInFill
<1>1. ExpiryInv /\ [Next]_vars => ExpiryInv'
  BY ExpiryInvStep
<1> QED
  BY <1>1, ExpiryInvInit, ExpiryInvBounds, PTL DEF Spec

-----------------------------------------------------------------------------
(* Invalidation.                                                           *)

(* What a writer at each step still has to delete.                         *)
WriterShape ==
  \A w \in Writer :
    /\ writer[w].step \in {"idle", "func"} => WillDelete(w) = {}
    /\ writer[w].step = "own" => /\ writer[w].todo = Named(writer[w].op)
                                 /\ writer[w].found = {}
    /\ writer[w].step = "extra" => writer[w].found = {}
    /\ writer[w].step = "scan" => writer[w].todo = {} /\ writer[w].found = {}
    /\ writer[w].step = "bulk" => writer[w].todo = {}

StaleInv == TypeOK /\ WriterShape /\ StaleHasCause

(* A step under which no key becomes stale, and no key that still is loses *)
(* its pending deletion, keeps every stale entry accounted for.            *)
LEMMA StaleKept ==
  ASSUME StaleInv, UNCHANGED excused, UNCHANGED data,
         \A k \in Key : Cached(k)' => Cached(k) /\ cache'[k].ver = cache[k].ver,
         \A w \in Writer : \A k \in WillDelete(w) :
           k \in WillDelete(w)' \/ ~ Stale(k)'
  PROVE  StaleHasCause'
<1> SUFFICES ASSUME NEW k \in Key, Stale(k)'
             PROVE  Pending(k)' \/ k \in excused'
  BY DEF StaleHasCause
<1>1. Stale(k)
  BY DEF Stale
<1> QED
  BY <1>1 DEF StaleInv, StaleHasCause, Pending

(* Deleting keys and striking them off the list.                           *)
LEMMA StaleAfterDrop ==
  ASSUME StaleInv, NEW ks \in SUBSET Key, Drop(ks), UNCHANGED data,
         \A w \in Writer : WillDelete(w) \subseteq WillDelete(w)' \cup ks
  PROVE  StaleHasCause'
<1> SUFFICES ASSUME NEW k \in Key, Stale(k)'
             PROVE  Pending(k)' \/ k \in excused'
  BY DEF StaleHasCause
<1>1. cache'[k] = IF k \in ks THEN Missing ELSE cache[k]
  BY DEF Drop
<1>2. k \notin ks /\ cache'[k] = cache[k]
  BY <1>1, MissingNotCached DEF Stale, Cached
<1>3. Stale(k)
  BY <1>2 DEF Stale, Cached
<1> QED
  BY <1>2, <1>3 DEF StaleInv, StaleHasCause, Pending, Drop

LEMMA StaleInvStep ==
  ASSUME StaleInv, [Next]_vars
  PROVE  StaleInv'
<1>0. TypeOK /\ TypeOK'
  BY TypeStep DEF StaleInv
<1>1. CASE UNCHANGED vars
  BY <1>0, <1>1 DEF vars, StaleInv, WriterShape, StaleHasCause, Stale, Cached,
                    Pending, WillDelete
<1>2. ASSUME NEW r \in Reader, ReaderStep(r)
      PROVE  StaleInv'
  <2>1. UNCHANGED <<writer, data>>
    BY <1>2 DEF ReaderStep, Ask, Hit, Miss, CallRead, SetEntry, ExpireEntry,
                AbortReader
  <2>2. WriterShape' /\ \A w \in Writer : WillDelete(w)' = WillDelete(w)
    BY <2>1 DEF StaleInv, WriterShape, WillDelete
  <2>3. CASE ~ SetEntry(r)
    <3>1. UNCHANGED excused
      BY <1>2, <2>3 DEF ReaderStep, Ask, Hit, Miss, CallRead, ExpireEntry,
                        AbortReader
    <3>2. \A k \in Key : Cached(k)' => Cached(k) /\ cache'[k].ver = cache[k].ver
      BY <1>0, <1>2, <2>3 DEF ReaderStep, Ask, Hit, Miss, CallRead, ExpireEntry,
                        AbortReader, Cached, TypeOK
    <3> QED
      BY <1>0, <2>1, <2>2, <3>1, <3>2, StaleKept DEF StaleInv
  <2>4. CASE SetEntry(r)
    <3>1. reader[r].key \in Key
      BY <1>0, <2>4, BusyReader DEF SetEntry, ReaderAt
    <3>2. ASSUME NEW k \in Key, Stale(k)'
          PROVE  Pending(k)' \/ k \in excused'
      <4>1. Pending(k)' <=> Pending(k)
        BY <2>2 DEF Pending
      <4>2. CASE k = reader[r].key
        BY <1>0, <2>1, <2>4, <3>2, <4>1, <4>2
           DEF SetEntry, Stale, Cached, TypeOK
      <4>3. CASE k # reader[r].key
        BY <1>0, <2>1, <2>4, <3>2, <4>1, <4>3
           DEF SetEntry, Stale, Cached, TypeOK, StaleInv, StaleHasCause
      <4> QED
        BY <4>2, <4>3
    <3> QED
      BY <1>0, <2>2, <3>2 DEF StaleInv, StaleHasCause
  <2> QED
    BY <2>3, <2>4
<1>3. ASSUME NEW w \in Writer, WriterStep(w)
      PROVE  StaleInv'
  <2>0. \A v \in Writer \ {w} : writer'[v] = writer[v]
    BY <1>0, <1>3 DEF WriterStep, StartWrite, CallWrite, DeleteOwn, DeleteExtra,
       StartScan, ScanBatch, DeleteBatch, EndWrite, AbortWriter, TypeOK
  <2>a. \A v \in Writer \ {w} : WillDelete(v)' = WillDelete(v)
    BY <2>0 DEF WillDelete
  <2>b. ASSUME WriterShape', StaleHasCause'
        PROVE  StaleInv'
    BY <1>0, <2>b DEF StaleInv
  <2>c. writer[w].step # "idle" => writer[w].op \in Op
    BY <1>0, BusyWriter DEF WriterAt
  <2>1. ASSUME NEW o \in Op, StartWrite(w, o)
        PROVE  StaleInv'
    <3>1. WillDelete(w) = {} /\ WillDelete(w)' = {}
      BY <1>0, <2>1 DEF StartWrite, WillDelete, IdleWriter, TypeOK
    <3>2. WriterShape'
      BY <1>0, <2>0, <2>a, <2>1, <3>1 DEF StartWrite, WriterShape, StaleInv, TypeOK
    <3>3. StaleHasCause'
      BY <2>a, <2>1, <3>1, StaleKept DEF StartWrite, Cached
    <3> QED
      BY <2>b, <3>2, <3>3
  <2>2. CASE CallWrite(w)
    <3> DEFINE o == writer[w].op
    <3>1. o \in Op
      BY <2>2, <2>c DEF CallWrite
    <3>2. /\ writer'[w].step = "own" /\ writer'[w].op = o
          /\ writer'[w].todo = Named(o)
          /\ writer'[w].found = {}
          /\ UNCHANGED cache
          /\ excused' = excused \cup {k \in (Affects[o] \cap Matched[o]) \ Named(o) : Cached(k)}
          /\ data' = [k \in Key |-> IF k \in Affects[o] THEN data[k] + 1 ELSE data[k]]
      BY <1>0, <2>2 DEF CallWrite, TypeOK
    <3>3. /\ WillDelete(w) = {} /\ Named(o) = WillDelete(w)'
          /\ Affects[o] \subseteq Named(o) \cup Matched[o]
      BY <2>2, <3>1, <3>2, EndpointsAssumption
         DEF CallWrite, WillDelete, StaleInv, WriterShape, Named
    <3> HIDE DEF o
    <3>4. WriterShape'
      BY <2>0, <2>a, <3>2 DEF WriterShape, StaleInv
    <3>5. ASSUME NEW k \in Key, Stale(k)'
          PROVE  Pending(k)' \/ k \in excused'
      <4>0. Cached(k)
        BY <3>2, <3>5 DEF Stale, Cached
      <4>1. CASE k \in Affects[o] /\ k \in Named(o)
        BY <3>3, <4>1 DEF Pending
      <4>2. CASE k \in Affects[o] /\ k \notin Named(o)
        BY <3>2, <3>3, <4>0, <4>2
      <4>3. CASE k \notin Affects[o]
        <5>1. Stale(k)
          BY <3>2, <3>5, <4>3 DEF Stale, Cached
        <5> QED
          BY <2>a, <3>2, <3>3, <5>1 DEF StaleInv, StaleHasCause, Pending
      <4> QED
        BY <4>1, <4>2, <4>3
    <3> QED
      BY <2>b, <3>4, <3>5 DEF StaleHasCause
  <2>3. CASE DeleteOwn(w)
    <3> DEFINE o == writer[w].op
    <3>1. o \in Op
      BY <2>3, <2>c DEF DeleteOwn
    <3>2. /\ writer'[w].step = "extra" /\ writer'[w].todo = Extra[o]
          /\ writer'[w].found = {}
          /\ writer[w].todo = {Own[o]} \cup Extra[o] /\ writer[w].found = {}
          /\ Drop({Own[o]}) /\ UNCHANGED data
      BY <1>0, <2>3 DEF DeleteOwn, TypeOK, StaleInv, WriterShape, Named
    <3>3. {Own[o]} \in SUBSET Key
      BY <3>1, EndpointsAssumption
    <3>4. WillDelete(w) \subseteq WillDelete(w)' \cup {Own[o]}
      BY <3>2 DEF WillDelete
    <3> HIDE DEF o
    <3>5. WriterShape'
      BY <2>0, <2>a, <3>2 DEF WriterShape, StaleInv
    <3>6. StaleHasCause'
      BY <2>a, <3>2, <3>3, <3>4, StaleAfterDrop
    <3> QED
      BY <2>b, <3>5, <3>6
  <2>4. CASE DeleteExtra(w)
    <3>1. PICK k \in writer[w].todo :
            /\ writer'[w].step = "extra" /\ writer'[w].todo = writer[w].todo \ {k}
            /\ writer'[w].found = {}
            /\ writer[w].found = {}
            /\ Drop({k}) /\ UNCHANGED data
      <4>1. writer[w].found = {} /\ UNCHANGED data
        BY <2>4 DEF DeleteExtra, StaleInv, WriterShape
      <4>2. PICK k \in writer[w].todo :
              /\ Drop({k})
              /\ writer' = [writer EXCEPT ![w] =
                   [step |-> "extra", op |-> writer[w].op,
                    todo |-> writer[w].todo \ {k}, found |-> {}]]
        BY <1>0, <2>4 DEF DeleteExtra, TypeOK
      <4> QED
        BY <1>0, <4>1, <4>2 DEF TypeOK
    <3>2. {k} \in SUBSET Key
      BY <1>0, <2>4, BusyWriter DEF DeleteExtra, WriterAt
    <3>3. WillDelete(w) \subseteq WillDelete(w)' \cup {k}
      BY <3>1 DEF WillDelete
    <3>4. WriterShape'
      BY <2>0, <2>a, <3>1 DEF WriterShape, StaleInv
    <3>5. StaleHasCause'
      BY <2>a, <3>1, <3>2, <3>3, StaleAfterDrop
    <3> QED
      BY <2>b, <3>4, <3>5
  <2>5. CASE StartScan(w) \/ EndWrite(w)
    <3>1. /\ UNCHANGED <<data, cache, excused>>
          /\ WillDelete(w) \subseteq WillDelete(w)'
          /\ \/ /\ writer'[w].step = "scan"
                /\ writer'[w].todo = {} /\ writer'[w].found = {}
             \/ writer'[w] = IdleWriter
      BY <1>0, <2>5 DEF StartScan, EndWrite, TypeOK, StaleInv, WriterShape, WillDelete
    <3>2. WriterShape'
      BY <2>0, <2>a, <3>1 DEF WriterShape, StaleInv, IdleWriter, WillDelete
    <3>3. StaleHasCause'
      BY <2>a, <3>1, StaleKept DEF Cached
    <3> QED
      BY <2>b, <3>2, <3>3
  <2>6. CASE ScanBatch(w)
    <3>1. /\ writer'[w].step = "bulk" /\ writer'[w].todo = {}
          /\ UNCHANGED <<data, cache, excused>>
      BY <1>0, <2>6 DEF ScanBatch, TypeOK
    <3>2. WillDelete(w) = {}
      BY <2>6 DEF ScanBatch, WillDelete, StaleInv, WriterShape
    <3>3. WriterShape'
      BY <2>0, <2>a, <3>1 DEF WriterShape, StaleInv
    <3>4. StaleHasCause'
      BY <2>a, <3>1, <3>2, StaleKept DEF Cached
    <3> QED
      BY <2>b, <3>3, <3>4
  <2>7. CASE DeleteBatch(w)
    <3>1. /\ writer'[w].step = "scan" /\ writer'[w].todo = {}
          /\ writer'[w].found = {}
          /\ writer[w].todo = {}
          /\ Drop(writer[w].found) /\ UNCHANGED data
      BY <1>0, <2>7 DEF DeleteBatch, TypeOK, StaleInv, WriterShape
    <3>2. writer[w].found \in SUBSET Key
      BY <1>0, <2>7, BusyWriter DEF DeleteBatch, WriterAt
    <3>3. WillDelete(w) \subseteq WillDelete(w)' \cup writer[w].found
      BY <3>1 DEF WillDelete
    <3>4. WriterShape'
      BY <2>0, <2>a, <3>1 DEF WriterShape, StaleInv
    <3>5. StaleHasCause'
      BY <2>a, <3>1, <3>2, <3>3, StaleAfterDrop
    <3> QED
      BY <2>b, <3>4, <3>5
  <2>8. CASE AbortWriter(w)
    <3>1. /\ writer'[w] = IdleWriter
          /\ excused' = excused \cup WillDelete(w)
          /\ UNCHANGED <<data, cache>>
      BY <1>0, <2>8 DEF AbortWriter, TypeOK
    <3>2. WriterShape'
      BY <2>0, <2>a, <3>1 DEF WriterShape, StaleInv, IdleWriter, WillDelete
    <3>3. StaleHasCause'
      BY <2>a, <3>1 DEF StaleInv, StaleHasCause, Stale, Cached, Pending
    <3> QED
      BY <2>b, <3>2, <3>3
  <2> QED
    BY <1>3, <2>1, <2>2, <2>3, <2>4, <2>5, <2>6, <2>7, <2>8 DEF WriterStep
<1>4. CASE Tick
  <2> DEFINE gone == {k \in Key : Cached(k) /\ cache[k].until # NoTTL
                                  /\ cache[k].until <= now + 1}
  <2>1. Drop(gone) /\ UNCHANGED <<data, writer>>
    BY <1>4 DEF Tick
  <2>2. \A w \in Writer : WillDelete(w)' = WillDelete(w)
    BY <2>1 DEF WillDelete
  <2>3. gone \in SUBSET Key
    OBVIOUS
  <2> HIDE DEF gone
  <2>4. StaleHasCause'
    BY <2>1, <2>2, <2>3, StaleAfterDrop
  <2> QED
    BY <1>0, <2>1, <2>2, <2>4 DEF StaleInv, WriterShape
<1> QED
  BY <1>1, <1>2, <1>3, <1>4 DEF Next

(* A stale entry is always about to be deleted, the result of an overtaken *)
(* fill or of an aborted invalidation, or one that its change left to a    *)
(* pattern, whatever SCAN returns.                                         *)
THEOREM StaleEntriesExplained == Spec => []StaleHasCause
<1>1. Init => StaleInv
  BY TypeInit, MissingNotCached DEF Init, StaleInv, WriterShape, StaleHasCause,
     Stale, Cached, IdleWriter, WillDelete
<1>2. StaleInv /\ [Next]_vars => StaleInv'
  BY StaleInvStep
<1>3. StaleInv => StaleHasCause
  BY DEF StaleInv
<1> QED
  BY <1>1, <1>2, <1>3, PTL DEF Spec
==============================================================================
