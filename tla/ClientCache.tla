------------------------------ MODULE ClientCache ------------------------------
(***************************************************************************)
(* ResponseCache seen through the caches of the clients: the middleware    *)
(* (src/app/middleware/client_cache_middleware.py) marks every response    *)
(* "public, max-age=CLIENT_CACHE_MAX_AGE", so each client keeps the        *)
(* answers it gets and repeats them to itself without asking.              *)
(***************************************************************************)
EXTENDS ResponseCache

CONSTANT MaxAge  \* settings.CLIENT_CACHE_MAX_AGE

ASSUME MaxAgeAssumption == MaxAge \in Nat

VARIABLE copy  \* copy[r][k]: the answer for k that the client of r keeps,
               \* as when its data was read and until when it is fresh

clientVars == <<vars, copy>>

NoCopy == [asOf |-> 0, until |-> 0]

ClientTypeOK == copy \in [Reader -> [Key -> [asOf : Time, until : Nat]]]

(* The client answers itself, asking nobody; its user may also reload.     *)
Fresh(r, k) == now < copy[r][k].until

(* Mutant of Received: the age counts from the expiry of the entry.        *)
ReceivedAfterExpiry(r, asOf) ==
  copy' = [copy EXCEPT ![r][reader[r].key] =
             [asOf |-> asOf, until |-> now + Expiration + MaxAge]]

(* dispatch: the header counts from now, whenever the data was read.       *)
Received(r, asOf) ==
  copy' = [copy EXCEPT ![r][reader[r].key] = [asOf |-> asOf, until |-> now + MaxAge]]

HitReceived(r) == Hit(r) /\ Received(r, cache[reader[r].key].asOf)

FillReceived(r) == ExpireEntry(r) /\ Received(r, reader[r].asOf)

(* Every other step of a GET, and the last one when its response is lost.  *)
Silent(r) == ReaderStep(r) /\ UNCHANGED copy

(* The answer to a write is not one a client repeats, and it does not make *)
(* the client drop the copies of what the write changed.                   *)
Write(w) == WriterStep(w) /\ UNCHANGED copy

(* Copies that are fresh no more are forgotten.                            *)
ClientTick ==
  /\ Tick
  /\ copy' = [r \in Reader |-> [k \in Key |->
                IF now + 1 < copy[r][k].until THEN copy[r][k] ELSE NoCopy]]

ClientInit == Init /\ copy = [r \in Reader |-> [k \in Key |-> NoCopy]]

ClientNext ==
  \/ \E r \in Reader : HitReceived(r) \/ FillReceived(r) \/ Silent(r)
  \/ \E w \in Writer : Write(w)
  \/ ClientTick

ClientSpec == ClientInit /\ [][ClientNext]_clientVars

(* Without aborts, what a client shows is not older than the expiration,   *)
(* two latencies and the age of the header together: the three clocks add  *)
(* up, as each counts from when the answer passed it by.                   *)
CopiesBounded ==
  ~ Aborts =>
    \A r \in Reader, k \in Key :
      Fresh(r, k) => now < copy[r][k].asOf + Expiration + 2 * MaxLatency + MaxAge
=============================================================================
