--------------------------- MODULE ClientCacheProofs ---------------------------
(***************************************************************************)
(* The age of what clients show, for any number of clients and any         *)
(* expiration, latency and header.                                         *)
(***************************************************************************)
EXTENDS ClientCache, ResponseCacheProofs

(* Fresh or not, a copy ends before the three clocks together.             *)
CopiesEnd ==
  \A r \in Reader, k \in Key :
    copy[r][k].until < copy[r][k].asOf + Expiration + 2 * MaxLatency + MaxAge

ClientInv == ExpiryInv /\ ClientTypeOK /\ CopiesEnd

(* Every step of a client is a step of the cache.                          *)
LEMMA ClientStepsAreSteps == ClientNext => Next
  BY DEF ClientNext, HitReceived, FillReceived, Silent, Write, ClientTick, Next, ReaderStep

LEMMA Numbers ==
  ASSUME ExpiryInv
  PROVE  /\ now \in Nat /\ Expiration \in Nat \ {0} /\ MaxLatency \in Nat /\ MaxAge \in Nat
         /\ Time \subseteq Nat /\ 0 \in Time
  BY NumbersAssumption, MaxAgeAssumption DEF ExpiryInv, TypeOK, Time

(* A response whose data was read at asOf may be kept if it is not older   *)
(* than an answer of the cache may be.                                     *)
LEMMA ReceivedInBounds ==
  ASSUME ClientInv, NEW r \in Reader, reader[r].key \in Key, NEW asOf \in Time,
         now < asOf + Expiration + 2 * MaxLatency, Received(r, asOf)
  PROVE  ClientTypeOK' /\ CopiesEnd'
  <1>0. now + MaxAge \in Nat /\ now + MaxAge < asOf + Expiration + 2 * MaxLatency + MaxAge
    BY Numbers, SMT DEF ClientInv
  <1>1. \A q \in Reader, k \in Key :
          copy'[q][k] = IF q = r /\ k = reader[r].key
                        THEN [asOf |-> asOf, until |-> now + MaxAge] ELSE copy[q][k]
    BY DEF Received, ClientInv, ClientTypeOK
  <1>2. ClientTypeOK'
    BY <1>0 DEF Received, ClientInv, ClientTypeOK
  <1>3. CopiesEnd'
    BY <1>0, <1>1 DEF ClientInv, CopiesEnd
  <1> QED
    BY <1>2, <1>3

LEMMA ClientInvStep ==
  ASSUME ~ Aborts, ClientInv, [ClientNext]_clientVars
  PROVE  ClientInv'
  <1>1. ExpiryInv'
    BY ExpiryInvStep, ClientStepsAreSteps DEF ClientInv, clientVars
  <1>2. TypeOK
    BY DEF ClientInv, ExpiryInv
  <1>3. CASE UNCHANGED copy
    BY <1>1, <1>3 DEF ClientInv, ClientTypeOK, CopiesEnd
  <1>4. ASSUME NEW r \in Reader, HitReceived(r) PROVE ClientInv'
    <2>1. reader[r] \in ReaderAt /\ Cached(reader[r].key)
      BY <1>2, <1>4, BusyReader DEF HitReceived, Hit
    <2>2. reader[r].key \in Key
      BY <2>1 DEF ReaderAt
    <2>3. cache[reader[r].key].asOf \in Time
      BY <1>2, <2>1, <2>2, CachedEntry DEF Entry
    <2>4. now < cache[reader[r].key].asOf + Expiration + 2 * MaxLatency
      BY <2>1, <2>2, ExpiryInvBounds DEF ClientInv, BoundedStaleness
    <2> QED
      BY <1>1, <1>4, <2>2, <2>3, <2>4, ReceivedInBounds DEF HitReceived, ClientInv
  <1>5. ASSUME NEW r \in Reader, FillReceived(r) PROVE ClientInv'
    <2>1. reader[r] \in ReaderAt /\ reader[r].step = "expire"
      BY <1>2, <1>5, BusyReader DEF FillReceived, ExpireEntry
    <2>2. reader[r].key \in Key /\ reader[r].asOf \in Time
      BY <2>1 DEF ReaderAt
    <2>3. now <= reader[r].asOf + MaxLatency
      BY <2>1 DEF ClientInv, ExpiryInv, FillInTime, Filling
    <2>4. now < reader[r].asOf + Expiration + 2 * MaxLatency
      BY <2>2, <2>3, Numbers DEF ClientInv
    <2> QED
      BY <1>1, <1>5, <2>2, <2>4, ReceivedInBounds DEF FillReceived, ClientInv
  <1>6. CASE ClientTick
    <2>1. NoCopy \in [asOf : Time, until : Nat]
      BY Numbers DEF NoCopy, ClientInv
    <2>2. NoCopy.until < NoCopy.asOf + Expiration + 2 * MaxLatency + MaxAge
      BY Numbers DEF NoCopy, ClientInv
    <2>3. ClientTypeOK'
      BY <1>6, <2>1 DEF ClientTick, ClientInv, ClientTypeOK
    <2>4. CopiesEnd'
      BY <1>6, <2>2 DEF ClientTick, ClientInv, ClientTypeOK, CopiesEnd
    <2> QED
      BY <1>1, <2>3, <2>4 DEF ClientInv
  <1> QED
    BY <1>3, <1>4, <1>5, <1>6 DEF ClientNext, Silent, Write, clientVars

(* Without aborts no client shows an answer older than the expiration, two *)
(* latencies and the max-age of the header together.                       *)
THEOREM CopiesAreBounded ==
  ASSUME ~ Aborts
  PROVE  ClientSpec => []CopiesBounded
  <1>1. ClientInit => ClientInv
    <2> SUFFICES ASSUME ClientInit PROVE ClientInv
      OBVIOUS
    <2>1. ExpiryInv
      BY ExpiryInvInit DEF ClientInit
    <2> QED
      BY <2>1, Numbers DEF ClientInit, ClientInv, ClientTypeOK, CopiesEnd, NoCopy
  <1>2. ClientInv /\ [ClientNext]_clientVars => ClientInv'
    BY ClientInvStep
  <1>3. ClientInv => CopiesBounded
    <2> SUFFICES ASSUME ClientInv, NEW r \in Reader, NEW k \in Key, Fresh(r, k)
                 PROVE  now < copy[r][k].asOf + Expiration + 2 * MaxLatency + MaxAge
      BY DEF CopiesBounded
    <2>1. copy[r][k].until \in Nat /\ copy[r][k].asOf \in Nat
      BY Numbers DEF ClientInv, ClientTypeOK
    <2> QED
      BY <2>1, Numbers DEF ClientInv, CopiesEnd, Fresh
  <1> QED
    BY <1>1, <1>2, <1>3, PTL DEF ClientSpec
=============================================================================
