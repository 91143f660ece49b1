---------------------------- MODULE CachedEndpoints ----------------------------
(***************************************************************************)
(* Endpoints under the @cache decorator, one request after the other (how  *)
(* requests interleave is the subject of ResponseCache): which answers the *)
(* keys of CacheKeys let a GET share, and which of them another request    *)
(* takes away.                                                             *)
(***************************************************************************)
EXTENDS CacheKeys

CONSTANTS Call,      \* requests: [endpoint, kw]
          Depends,   \* Depends[c]: the resources the answer to c is made of
          Touches    \* Touches[c]: the resources c changes

VARIABLES cache,     \* the entries in Redis
          answer     \* what the last GET was answered

vars == <<cache, answer>>

(* The requests for which the decorator gets as far as their key.          *)
Reached == {c \in Call : Keyed(c.endpoint, c.kw)}
Key == [c \in Reached |-> OwnKey(c.endpoint, c.kw)]
Get == {c \in Reached : c.endpoint.method = "GET"}

(* The keys a request deletes by name, and those of GETs its patterns fit. *)
Deletes == [c \in Reached |-> Deleted(c.endpoint, c.kw)]
Fits == [c \in Reached |-> Matched(c.endpoint, c.kw, {Key[d] : d \in Get})]

(* The requests that get through all their invalidations, if Redis obeys,  *)
(* and those of them that send a SCAN.                                     *)
Through == {c \in Reached : Completes(c.endpoint, c.kw)}
Scans == {c \in Through : c.endpoint.patterns # <<>>}

ASSUME EndpointsAssumption == DOMAIN Depends = Call /\ DOMAIN Touches = Call

Resource == UNION ({Depends[c] : c \in Call} \cup {Touches[c] : c \in Call})

(* How an entry outlived a change of its data: the change raised after it  *)
(* was committed, SCAN passed over the key, or nothing in the change named *)
(* the key.                                                                *)
Cause == {"raised", "unswept", "unnamed"}

(* A value under a key: the resources its answer is made of, and how it    *)
(* came to be out of date, if it is.                                       *)
Entry == [key   : {Key[c] : c \in Get},
          of    : SUBSET Resource,
          stale : SUBSET Cause]

(* An answer: what was asked for, what was given, how it is out of date;   *)
(* or an error.                                                            *)
Answer == [asked : SUBSET Resource, given : SUBSET Resource,
           stale : SUBSET Cause, served : BOOLEAN]

(* Redis holds one value under a key.                                      *)
TypeOK ==
  /\ cache \subseteq Entry
  /\ \A x, y \in cache : x.key = y.key => x = y
  /\ answer \in Answer

-----------------------------------------------------------------------------
Init ==
  /\ cache = {}
  /\ answer = [asked |-> {}, given |-> {}, stale |-> {}, served |-> TRUE]

Hit(c) ==
  /\ \E x \in cache :
       /\ x.key = Key[c]
       /\ answer' = [asked |-> Depends[c], given |-> x.of,
                     stale |-> x.stale, served |-> TRUE]
  /\ UNCHANGED cache

(* Mutant of Fill: the endpoint is called without looking up the key.      *)
FillAlways(c) ==
  /\ cache' = cache \cup {[key |-> Key[c], of |-> Depends[c], stale |-> {}]}
  /\ answer' = [asked |-> Depends[c], given |-> Depends[c],
                stale |-> {}, served |-> TRUE]

(* A miss: the endpoint answers and the answer is stored.                  *)
Fill(c) ==
  /\ \A x \in cache : x.key # Key[c]
  /\ cache' = cache \cup {[key |-> Key[c], of |-> Depends[c], stale |-> {}]}
  /\ answer' = [asked |-> Depends[c], given |-> Depends[c],
                stale |-> {}, served |-> TRUE]

(* A GET for which the decorator raises on the way to its key.             *)
Refuse(c) ==
  /\ answer' = [asked |-> Depends[c], given |-> {}, stale |-> {}, served |-> FALSE]
  /\ UNCHANGED cache

(* What becomes of an entry that is left by a change of the resources      *)
(* touched, which raised or not, with patterns that fit these keys.        *)
Aged(x, touched, fits, raised) ==
  [x EXCEPT !.stale = @ \cup
     IF x.of \cap touched = {} THEN {}
     ELSE IF raised THEN {"raised"}
     ELSE IF x.key \in fits THEN {"unswept"} ELSE {"unnamed"}]

(* Another method: the endpoint commits its change, then the keys that are *)
(* named go and, of those the patterns match, what SCAN happens to return. *)
(* It raises at a template that cannot be formatted, or at the first SCAN  *)
(* if Redis refuses the cursor.  (A request of another method that does    *)
(* not reach its key raises before its endpoint and changes nothing.)      *)
Change(c) ==
  /\ LET touched == Touches[c]
         fits == Fits[c]
         deletes == Deletes[c]
         left(found) == {x \in cache : x.key \notin deletes /\ x.key \notin found}
     IN \E found \in SUBSET (fits \cap {x.key : x \in cache}), raised \in BOOLEAN :
          /\ IF raised THEN c \notin Through \/ (c \in Scans /\ found = {})
                       ELSE c \in Through
          /\ cache' = {Aged(x, touched, fits, raised) : x \in left(found)}
  /\ UNCHANGED answer

(* An entry expires.                                                       *)
Expire(x) ==
  /\ cache' = cache \ {x}
  /\ UNCHANGED answer

Next ==
  \/ \E c \in Get : Hit(c) \/ Fill(c)
  \/ \E c \in Call \ Reached : c.endpoint.method = "GET" /\ Refuse(c)
  \/ \E c \in Reached \ Get : Change(c)
  \/ \E x \in cache : Expire(x)

Spec == Init /\ [][Next]_vars

-----------------------------------------------------------------------------
(* Properties.                                                             *)

(* A GET that is answered gets what it asked for, not an entry of another  *)
(* request that shares its key, and never one that a change of its data    *)
(* failed to name: what is out of date has been left by a change that      *)
(* raised after its commit, or by a SCAN that passed over its key.         *)
AnswersFresh ==
  answer.served => /\ answer.given = answer.asked
                   /\ "unnamed" \notin answer.stale

(* What the decorator's documentation says of the GETs under it: "The      *)
(* cached data is retrieved for GET requests" (cache.py:240).  A GET is    *)
(* answered, from the cache or by its endpoint, not refused on the way.    *)
ReadsAreServed == answer.served

(* What it says of patterns: the matching keys are deleted "until no       *)
(* matching keys are left" (cache.py:154).  No change that went through    *)
(* leaves an entry it made out of date and its patterns match.             *)
PatternsInvalidate == \A x \in cache : "unswept" \notin x.stale

(* A request whose patterns have no wildcard but the trailing ones deletes *)
(* no entry that it did not make out of date: the lists of other users     *)
(* stay cached.                                                            *)
Narrow(e) ==
  \A i \in DOMAIN e.patterns : \A j \in 1..(Len(e.patterns[i]) - 1) :
    e.patterns[i][j] # Lit(Star)

NarrowChange == {c \in Reached \ Get : Narrow(c.endpoint)}

Gone == {x \in cache : \A y \in cache' : y.key # x.key}

OthersStayCached ==
  [][\A c \in NarrowChange :
       (\E x \in Gone : x.of \cap Touches[c] = {}) => ~ Change(c)]_vars

-----------------------------------------------------------------------------
(* What the decorator's arguments have to satisfy, two requests at a time, *)
(* for AnswersFresh to hold.                                               *)

(* GETs with the same key ask for the same.                                *)
SharedKeysAgree == \A c, d \in Get : Key[c] = Key[d] => Depends[c] = Depends[d]

(* A change that gets through names the key of every GET it concerns, by   *)
(* itself or in a pattern.                                                 *)
ChangesInvalidate ==
  \A c \in Reached \ Get, d \in Get :
    c \in Through /\ Touches[c] \cap Depends[d] # {}
      => Key[d] \in Deletes[c] \cup Fits[c]

(* A narrow change names no key of a GET it does not concern: what its     *)
(* templates have to satisfy for OthersStayCached.                         *)
NarrowChangesFit ==
  \A c \in Reached \ Get, d \in Get :
    Narrow(c.endpoint) /\ Key[d] \in Deletes[c] \cup Fits[c]
      => Depends[d] \cap Touches[c] # {}
=============================================================================
