------------------------- MODULE CachedEndpointsProofs -------------------------
(***************************************************************************)
(* Theorems about CachedEndpoints, for all endpoints and requests, and     *)
(* about the endpoints of MCCachedEndpoints, for all users, pages and      *)
(* logs.                                                                   *)
(*                                                                         *)
(* AnswersAreFresh and OthersAreKept reduce what the cache does to three   *)
(* conditions on pairs of requests.  The second half of the module proves  *)
(* these conditions of the documented endpoints, from the keys they make   *)
(* and the keys their templates fit.                                       *)
(***************************************************************************)
EXTENDS MCCachedEndpoints, TLAPS, WellFoundedInduction
LOCAL INSTANCE FiniteSetsExt

(* A key of a GET that a pattern of c fits, whatever the other keys are.   *)
LEMMA FitsAlone ==
  ASSUME NEW c \in Reached, NEW d \in Get,
         Key[d] \in Matched(c.endpoint, c.kw, {Key[d]})
  PROVE  Key[d] \in Fits[c]
BY DEF Fits, Matched

(* Nor does a key that is fitted need the others.                          *)
LEMMA FittedOnItsOwn ==
  ASSUME NEW c \in Reached, NEW k \in Fits[c]
  PROVE  k \in Matched(c.endpoint, c.kw, {k})
BY DEF Fits, Matched

(* What a GET stores is a well-typed entry.                                *)
LEMMA RequestTypes ==
  ASSUME NEW c \in Get
  PROVE  /\ c \in Call
         /\ Depends[c] \in SUBSET Resource
         /\ [key |-> Key[c], of |-> Depends[c], stale |-> {}] \in Entry
BY DEF Get, Reached, Resource, Entry

(* How a change marks an entry.                                            *)
Mark(x, touched, fits, raised) ==
  IF x.of \cap touched = {} THEN {}
  ELSE IF raised THEN {"raised"}
  ELSE IF x.key \in fits THEN {"unswept"} ELSE {"unnamed"}

(* A change alters nothing but the mark of an entry it leaves.             *)
LEMMA AgedEntry ==
  ASSUME NEW x \in Entry, NEW touched, NEW fits, NEW raised \in BOOLEAN
  PROVE  /\ Aged(x, touched, fits, raised) \in Entry
         /\ Aged(x, touched, fits, raised).key = x.key
         /\ Aged(x, touched, fits, raised).of = x.of
         /\ Aged(x, touched, fits, raised).stale = x.stale \cup Mark(x, touched, fits, raised)
<1> DEFINE m == x.stale \cup Mark(x, touched, fits, raised)
           y == Aged(x, touched, fits, raised)
<1>1. /\ x = [key |-> x.key, of |-> x.of, stale |-> x.stale]
      /\ x.key \in {Key[d] : d \in Get}
      /\ x.of \in SUBSET Resource
      /\ x.stale \in SUBSET Cause
  BY DEF Entry
<1>2. Mark(x, touched, fits, raised) \in SUBSET Cause
  BY DEF Mark, Cause
<1>3. m \in SUBSET Cause
  BY <1>1, <1>2
<1>4. y = [x EXCEPT !.stale = m]
  BY DEF Aged, Mark
<1> HIDE DEF m, y
<1>5. y = [key |-> x.key, of |-> x.of, stale |-> m]
  BY <1>1, <1>4
<1>6. y.key = x.key /\ y.of = x.of /\ y.stale = m
  BY <1>5
<1>7. y \in Entry
  BY <1>1, <1>3, <1>5 DEF Entry
<1> QED BY <1>6, <1>7 DEF m, y

(* Where the entries come from that a change leaves.                       *)
Outlives(x, y, c, raised) ==
  /\ x.key = y.key /\ x.of = y.of
  /\ x.stale = y.stale \cup Mark(y, Touches[c], Fits[c], raised)
  /\ y.key \notin Deletes[c]

LEMMA ChangeLeaves ==
  ASSUME TypeOK, NEW c \in Reached \ Get, Change(c)
  PROVE  /\ cache' \subseteq Entry
         /\ answer' = answer
         /\ \E raised \in BOOLEAN :
              /\ ~ raised => c \in Through
              /\ \A x \in cache' : \E y \in cache : Outlives(x, y, c, raised)
<1>1. PICK found \in SUBSET (Fits[c] \cap {x.key : x \in cache}), raised \in BOOLEAN :
        /\ ~ raised => c \in Through
        /\ cache' = {Aged(x, Touches[c], Fits[c], raised) :
                       x \in {x \in cache : x.key \notin Deletes[c] /\ x.key \notin found}}
  BY DEF Change
<1>2. \A x \in cache' : \E y \in cache : /\ y.key \notin Deletes[c]
                                        /\ x = Aged(y, Touches[c], Fits[c], raised)
  BY <1>1
<1>3. cache \subseteq Entry
  BY DEF TypeOK
<1>4. cache' \subseteq Entry
  BY <1>2, <1>3, AgedEntry
<1>5. \A x \in cache' : \E y \in cache : Outlives(x, y, c, raised)
  BY <1>2, <1>3, AgedEntry DEF Outlives
<1>6. answer' = answer
  BY DEF Change
<1> QED BY <1>1, <1>4, <1>5, <1>6

(* The entry that a change keeps is there, marked.                         *)
LEMMA ChangeKeeps ==
  ASSUME TypeOK, NEW c \in Reached \ Get, Change(c),
         NEW x \in cache, x.key \notin Deletes[c] \cup Fits[c]
  PROVE  \E y \in cache' : y.key = x.key
<1>1. PICK found \in SUBSET (Fits[c] \cap {y.key : y \in cache}), raised \in BOOLEAN :
        cache' = {Aged(y, Touches[c], Fits[c], raised) :
                    y \in {y \in cache : y.key \notin Deletes[c] /\ y.key \notin found}}
  BY DEF Change
<1>2. Aged(x, Touches[c], Fits[c], raised) \in cache'
  BY <1>1
<1>3. x \in Entry
  BY DEF TypeOK
<1> QED BY <1>2, <1>3, AgedEntry

-----------------------------------------------------------------------------
(* One value under a key, and everything typed: @cache never stores a      *)
(* second answer beside the one it finds.                                  *)
THEOREM TypeCorrect == Spec => []TypeOK
<1>1. Init => TypeOK
  BY DEF Init, TypeOK, Answer
<1>2. ASSUME TypeOK, [Next]_vars PROVE TypeOK'
  <2>1. ASSUME NEW c \in Get, Hit(c) PROVE TypeOK'
    <3>1. PICK x \in cache :
            answer' = [asked |-> Depends[c], given |-> x.of, stale |-> x.stale, served |-> TRUE]
      BY <2>1 DEF Hit
    <3>2. x.of \in SUBSET Resource /\ x.stale \in SUBSET Cause
      BY <1>2 DEF TypeOK, Entry
    <3>3. answer' \in Answer
      BY <3>1, <3>2, RequestTypes DEF Answer
    <3> QED BY <1>2, <2>1, <3>3 DEF Hit, TypeOK
  <2>2. ASSUME NEW c \in Get, Fill(c) PROVE TypeOK'
    <3> DEFINE new == [key |-> Key[c], of |-> Depends[c], stale |-> {}]
    <3>1. new \in Entry /\ new.key = Key[c] /\ Depends[c] \in SUBSET Resource
      BY RequestTypes
    <3>2. cache' = cache \cup {new} /\ \A x \in cache : x.key # Key[c]
      BY <2>2 DEF Fill
    <3> HIDE DEF new
    <3>3. cache' \subseteq Entry /\ \A x, y \in cache' : x.key = y.key => x = y
      BY <1>2, <3>1, <3>2 DEF TypeOK
    <3>4. answer' \in Answer
      BY <2>2, <3>1 DEF Fill, Answer
    <3> QED BY <3>3, <3>4 DEF TypeOK
  <2>3. ASSUME NEW c \in Call \ Reached, Refuse(c) PROVE TypeOK'
    <3>1. Depends[c] \in SUBSET Resource
      BY DEF Resource
    <3>2. answer' \in Answer
      BY <2>3, <3>1 DEF Refuse, Answer
    <3> QED BY <1>2, <2>3, <3>2 DEF Refuse, TypeOK
  <2>4. ASSUME NEW c \in Reached \ Get, Change(c) PROVE TypeOK'
    <3>1. PICK raised \in BOOLEAN : \A x \in cache' : \E y \in cache : Outlives(x, y, c, raised)
      BY <1>2, <2>4, ChangeLeaves
    <3>2. cache' \subseteq Entry /\ answer' = answer
      BY <1>2, <2>4, ChangeLeaves
    <3>3. ASSUME NEW x \in cache', NEW z \in cache', x.key = z.key PROVE x = z
      <4>1. PICK y \in cache : Outlives(x, y, c, raised)
        BY <3>1
      <4>2. PICK w \in cache : Outlives(z, w, c, raised)
        BY <3>1
      <4>3. y = w
        BY <1>2, <3>3, <4>1, <4>2 DEF Outlives, TypeOK
      <4>4. x.key = z.key /\ x.of = z.of /\ x.stale = z.stale
        BY <4>1, <4>2, <4>3 DEF Outlives
      <4> QED BY <3>2, <4>4 DEF Entry
    <3> QED BY <1>2, <3>2, <3>3 DEF TypeOK
  <2>5. ASSUME NEW x \in cache, Expire(x) PROVE TypeOK'
    BY <1>2, <2>5 DEF Expire, TypeOK
  <2>6. CASE UNCHANGED vars
    BY <1>2, <2>6 DEF vars, TypeOK
  <2> QED BY <1>2, <2>1, <2>2, <2>3, <2>4, <2>5, <2>6 DEF Next
<1> QED BY <1>1, <1>2, PTL DEF Spec

-----------------------------------------------------------------------------
(* Every entry is the answer to some GET with its key.                     *)
MadeByGet == \A x \in cache : \E d \in Get : Key[d] = x.key /\ Depends[d] = x.of

(* No step stores anything but the answer to a GET, under its key.         *)
LEMMA MadeByGetStep == TypeOK /\ MadeByGet /\ [Next]_vars => MadeByGet'
<1> SUFFICES ASSUME TypeOK, MadeByGet, [Next]_vars PROVE MadeByGet'
  OBVIOUS
<1>1. ASSUME NEW c \in Get, Hit(c) \/ Fill(c) PROVE MadeByGet'
  BY <1>1 DEF Hit, Fill, MadeByGet
<1>2. ASSUME NEW c \in Reached \ Get, Change(c) PROVE MadeByGet'
  <2>1. \A x \in cache' : \E y \in cache : x.key = y.key /\ x.of = y.of
    BY <1>2, ChangeLeaves DEF Outlives
  <2> QED
    BY <2>1 DEF MadeByGet
<1>3. ASSUME NEW x \in cache, Expire(x) PROVE MadeByGet'
  BY <1>3 DEF Expire, MadeByGet
<1>4. ASSUME NEW c \in Call \ Reached, Refuse(c) PROVE MadeByGet'
  BY <1>4 DEF Refuse, MadeByGet
<1>5. CASE UNCHANGED vars
  BY <1>5 DEF vars, MadeByGet
<1> QED
  BY <1>1, <1>2, <1>3, <1>4, <1>5 DEF Next

(* No entry outlives a change of its data that went through and named its  *)
(* key nowhere.                                                            *)
NoneUnnamed == \A x \in cache : "unnamed" \notin x.stale

FreshInv == MadeByGet /\ NoneUnnamed /\ AnswersFresh

(* When GETs that share a key ask for the same, and every request that     *)
(* gets through its invalidations names the keys of the GETs it concerns,  *)
(* no GET is ever answered with another one's data, nor with data that     *)
(* changed without a word about its key: a stale answer is due to a change *)
(* that raised half way or to a SCAN that passed over the key.             *)
THEOREM AnswersAreFresh ==
  ASSUME SharedKeysAgree, ChangesInvalidate
  PROVE  Spec => []AnswersFresh
<1>1. Init => FreshInv
  BY DEF Init, FreshInv, MadeByGet, NoneUnnamed, AnswersFresh
<1>2. ASSUME TypeOK, FreshInv, [Next]_vars PROVE FreshInv'
  <2>1. MadeByGet'
    BY <1>2, MadeByGetStep DEF FreshInv
  <2>2. ASSUME NEW c \in Get, Hit(c) PROVE FreshInv'
    <3>1. PICK x \in cache : x.key = Key[c] /\
            answer' = [asked |-> Depends[c], given |-> x.of, stale |-> x.stale, served |-> TRUE]
      BY <2>2 DEF Hit
    <3>2. x.of = Depends[c] /\ "unnamed" \notin x.stale
      BY <1>2, <3>1 DEF FreshInv, MadeByGet, NoneUnnamed, SharedKeysAgree
    <3>3. AnswersFresh'
      BY <3>1, <3>2 DEF AnswersFresh
    <3> QED BY <1>2, <2>1, <2>2, <3>3 DEF Hit, FreshInv, NoneUnnamed
  <2>3. ASSUME NEW c \in Get, Fill(c) PROVE FreshInv'
    <3>1. AnswersFresh'
      BY <2>3 DEF Fill, AnswersFresh
    <3>2. NoneUnnamed'
      BY <1>2, <2>3 DEF Fill, FreshInv, NoneUnnamed
    <3> QED BY <2>1, <3>1, <3>2 DEF FreshInv
  <2>4. ASSUME NEW c \in Call \ Reached, Refuse(c) PROVE FreshInv'
    BY <1>2, <2>1, <2>4 DEF Refuse, FreshInv, NoneUnnamed, AnswersFresh
  <2>5. ASSUME NEW c \in Reached \ Get, Change(c) PROVE FreshInv'
    <3>1. PICK raised \in BOOLEAN :
            /\ ~ raised => c \in Through
            /\ \A x \in cache' : \E y \in cache : Outlives(x, y, c, raised)
      BY <1>2, <2>5, ChangeLeaves
    <3>2. AnswersFresh'
      BY <1>2, <2>5, ChangeLeaves DEF FreshInv, AnswersFresh
    <3>3. ASSUME NEW x \in cache' PROVE "unnamed" \notin x.stale
      <4>1. PICK y \in cache : Outlives(x, y, c, raised)
        BY <3>1
      <4>2. PICK d \in Get : Key[d] = y.key /\ Depends[d] = y.of
        BY <1>2 DEF FreshInv, MadeByGet
      <4>3. "unnamed" \notin y.stale
        BY <1>2 DEF FreshInv, NoneUnnamed
      <4>4. CASE raised \/ y.of \cap Touches[c] = {}
        BY <4>1, <4>3, <4>4 DEF Outlives, Mark
      <4>5. CASE ~ raised /\ y.of \cap Touches[c] # {}
        <5>1. y.key \in Deletes[c] \cup Fits[c]
          BY <3>1, <4>2, <4>5 DEF ChangesInvalidate
        <5>2. y.key \in Fits[c]
          BY <4>1, <5>1 DEF Outlives
        <5> QED BY <4>1, <4>3, <5>2 DEF Outlives, Mark
      <4> QED BY <4>4, <4>5
    <3>4. NoneUnnamed'
      BY <3>3 DEF NoneUnnamed
    <3> QED BY <2>1, <3>2, <3>4 DEF FreshInv
  <2>6. ASSUME NEW x \in cache, Expire(x) PROVE FreshInv'
    BY <1>2, <2>1, <2>6 DEF Expire, FreshInv, NoneUnnamed, AnswersFresh
  <2>7. CASE UNCHANGED vars
    BY <1>2, <2>1, <2>7 DEF vars, FreshInv, NoneUnnamed, AnswersFresh
  <2> QED BY <1>2, <2>2, <2>3, <2>4, <2>5, <2>6, <2>7 DEF Next
<1>3. FreshInv => AnswersFresh
  BY DEF FreshInv
<1> QED BY <1>1, <1>2, <1>3, TypeCorrect, PTL DEF Spec

-----------------------------------------------------------------------------
(* When the templates of narrow requests fit only keys of GETs they        *)
(* concern, no change takes another user's answers out of the cache.       *)
THEOREM OthersAreKept ==
  ASSUME NarrowChangesFit
  PROVE  Spec => OthersStayCached
<1> DEFINE Keeps == \A c \in NarrowChange :
                      (\E x \in Gone : x.of \cap Touches[c] = {}) => ~ Change(c)
<1>1. Init => MadeByGet
  BY DEF Init, MadeByGet
<1>2. TypeOK /\ MadeByGet => Keeps
  <2> SUFFICES ASSUME TypeOK, MadeByGet, NEW c \in NarrowChange, NEW x \in Gone,
                      Change(c), x.of \cap Touches[c] = {}
               PROVE  FALSE
    OBVIOUS
  <2>1. x \in cache /\ \A y \in cache' : y.key # x.key
    BY DEF Gone
  <2>2. PICK d \in Get : Key[d] = x.key /\ Depends[d] = x.of
    BY <2>1 DEF MadeByGet
  <2>3. c \in Reached \ Get /\ Narrow(c.endpoint)
    BY DEF NarrowChange
  <2>4. x.key \in Deletes[c] \cup Fits[c]
    BY <2>1, <2>3, ChangeKeeps
  <2> QED
    BY <2>2, <2>3, <2>4 DEF NarrowChangesFit
<1> HIDE DEF Keeps
<1>3. Keeps => [Keeps]_vars
  OBVIOUS
<1> QED
  BY <1>1, <1>2, MadeByGetStep, TypeCorrect, PTL DEF Spec, OthersStayCached, Keeps

-----------------------------------------------------------------------------
(* Induction over the natural numbers, as the least member of a set.       *)
LessThan == OpToRel(<, Nat)

(* Every set of numbers that has a member has a least one.                 *)
LEMMA LeastNumber ==
  ASSUME NEW T \in SUBSET Nat, T # {}
  PROVE  \E x \in T : \A y \in T : x <= y
  <1>1. IsWellFoundedOn(LessThan, Nat)
    BY NatLessThanWellFounded DEF LessThan
  <1>2. PICK x \in T : \A y \in T : ~ (<<y, x>> \in LessThan)
    BY <1>1, WFMin
  <1>3. \A y, z \in Nat : <<y, z>> \in LessThan <=> y < z
    BY DEF LessThan, OpToRel
  <1>4. \A y \in T : x <= y
    <2> TAKE y \in T
    <2>1. ~ (y < x)
      BY <1>2, <1>3
    <2> QED
      BY <2>1
  <1> QED
    BY <1>4

(* A set of numbers with 0 and the successor of each has them all.         *)
LEMMA Induction ==
  ASSUME NEW S, 0 \in S, \A n \in Nat : n \in S => n + 1 \in S
  PROVE  Nat \subseteq S
  <1> SUFFICES ASSUME Nat \ S # {} PROVE FALSE
    OBVIOUS
  <1>1. PICK x \in Nat \ S : \A y \in Nat \ S : x <= y
    BY LeastNumber
  <1>2. x # 0 /\ x - 1 \in Nat /\ ~ (x <= x - 1)
    BY <1>1
  <1>3. x - 1 \in S
    BY <1>1, <1>2
  <1> QED
    BY <1>1, <1>2, <1>3

-----------------------------------------------------------------------------
(* What a pattern fits, text after text: ends[i] is where in the key k the *)
(* first i texts of the pattern p may end.                                 *)
At(p, k, ends, i) == IF i = 0 THEN {0} ELSE Onward(p, k, i, ends[i - 1])

(* The recursion by which Matches is defined has a solution.               *)
LEMMA MatchesBySteps ==
  ASSUME NEW p, NEW k, Len(p) \in Nat
  PROVE  \E ends : /\ ends[0] = {0}
                   /\ \A i \in 1..Len(p) : ends[i] = Onward(p, k, i, ends[i - 1])
                   /\ Matches(p, k) <=> Len(k) \in ends[Len(p)]
  <1> DEFINE Upto(f, m) == f = [i \in 0..m |-> At(p, k, f, i)]
             ends == CHOOSE f : Upto(f, Len(p))
             Defined == {m \in Nat : \E f : Upto(f, m)}
  <1>1. 0 \in Defined
    <2>1. Upto([i \in 0..0 |-> {0}], 0)
      BY DEF At
    <2> QED
      BY <2>1
  <1>2. ASSUME NEW m \in Nat, m \in Defined PROVE m + 1 \in Defined
    <2>1. PICK f : Upto(f, m)
      BY <1>2
    <2> DEFINE g == [i \in 0..(m + 1) |-> IF i = m + 1 THEN Onward(p, k, m + 1, f[m]) ELSE f[i]]
    <2>2. /\ \A i \in 0..m : g[i] = f[i]
          /\ g[m + 1] = Onward(p, k, m + 1, f[m])
          /\ g = [i \in 0..(m + 1) |-> g[i]]
      OBVIOUS
    <2>3. \A i \in 0..m : f[i] = At(p, k, f, i)
      BY <2>1
    <2> HIDE DEF g
    <2>4. \A i \in 0..(m + 1) : g[i] = At(p, k, g, i)
      <3>1. ASSUME NEW i \in 0..m PROVE At(p, k, g, i) = At(p, k, f, i)
        <4>1. CASE i = 0
          BY <4>1 DEF At
        <4>2. CASE i # 0
          <5>1. i - 1 \in 0..m
            BY <4>2
          <5>2. g[i - 1] = f[i - 1]
            BY <2>2, <5>1
          <5> QED
            BY <4>2, <5>2 DEF At
        <4> QED
          BY <4>1, <4>2
      <3>2. At(p, k, g, m + 1) = Onward(p, k, m + 1, f[m])
        <4>1. m + 1 # 0 /\ (m + 1) - 1 = m /\ m \in 0..m
          OBVIOUS
        <4>2. g[m] = f[m]
          BY <2>2, <4>1
        <4> QED
          BY <4>1, <4>2 DEF At
      <3> QED
        BY <2>2, <2>3, <3>1, <3>2
    <2>5. Upto(g, m + 1)
      BY <2>2, <2>4
    <2> QED
      BY <2>5
  <1>3. Upto(ends, Len(p))
    <2> HIDE DEF Upto
    <2>1. Nat \subseteq Defined
      BY <1>1, <1>2, Induction
    <2> QED
      BY <2>1
  <1>4. Matches(p, k) <=> Len(k) \in ends[Len(p)]
    BY DEF Matches, At
  <1>5. \A i \in 0..Len(p) : ends[i] = At(p, k, ends, i)
    BY <1>3
  <1> HIDE DEF ends
  <1> QED
    BY <1>4, <1>5 DEF At

-----------------------------------------------------------------------------
(* The endpoints of this repository and those of its documentation.        *)
Documented == Call = MCCall /\ Depends = MCDepends /\ Touches = MCTouches

(* A user name has only a-z and 0-9 (src/app/models/user.py:12), and an id *)
(* is a number: neither is a wildcard or the text that starts a template.  *)
PlainNames == UserId \cap {Star, "user_"} = {}

(* No read of time logs reaches a key: of a list no argument passes for an *)
(* id, and the key of one log needs a user_id that is not among the        *)
(* arguments.                                                              *)
LEMMA TimeLogsUnkeyed ==
  ASSUME NEW c \in TimeLogReads
  PROVE  ~ Keyed(c.endpoint, c.kw)
  <1>1. ASSUME c \in read_time_logs PROVE ~ CanIdentify(c.endpoint, c.kw)
    <2> DEFINE Of(u, p, n) == [endpoint |-> ReadTimeLogs,
                               kw |-> CurrentUserAndDb \o <<P("user_id", "str", u),
                                                            P("page", "int", p),
                                                            P("items_per_page", "int", n)>>]
    <2>1. \A u, p, n : /\ Of(u, p, n).endpoint = ReadTimeLogs
                       /\ Of(u, p, n).kw =
                            CurrentUserAndDb \o <<P("user_id", "str", u),
                                                  P("page", "int", p),
                                                  P("items_per_page", "int", n)>>
      OBVIOUS
    <2>2. read_time_logs = {Of(u, p, n) : u \in UserId, p \in Page, n \in PageSize}
      BY DEF read_time_logs
    <2> HIDE DEF Of
    <2>3. PICK u \in UserId, p \in Page, n \in PageSize : c = Of(u, p, n)
      BY <1>1, <2>2
    <2>4. c.endpoint.ridName = NoName /\ c.endpoint.ridType = "int"
      BY <2>1, <2>3 DEF ReadTimeLogs
    <2>5. c.kw = CurrentUserAndDb \o <<P("user_id", "str", u),
                                       P("page", "int", p), P("items_per_page", "int", n)>>
      BY <2>1, <2>3
    <2>6. /\ DOMAIN c.kw = 1..5
          /\ c.kw[1] = P("current_user", "other", "user") /\ c.kw[2] = P("db", "other", "db")
          /\ c.kw[3] = P("user_id", "str", u) /\ c.kw[4] = P("page", "int", p)
          /\ c.kw[5] = P("items_per_page", "int", n)
      BY <2>5 DEF CurrentUserAndDb
    <2>7. \A i \in DOMAIN c.kw : ~ IsId(c.kw[i], "int")
      BY <2>6 DEF IsId, P, NamesWithId
    <2> QED
      BY <2>4, <2>7 DEF CanIdentify
  <1>2. ASSUME c \in read_time_log PROVE ~ CanFormat(c.endpoint.prefix, c.kw)
    <2>1. PICK i \in LogId :
            c = [endpoint |-> OneLog("GET", <<>>, <<>>),
                 kw |-> CurrentUserAndDb \o <<P("id", "int", i)>>]
      BY <1>2 DEF read_time_log
    <2>2. c.endpoint.prefix = TimeLogPrefix
      BY <2>1 DEF OneLog
    <2>3. /\ DOMAIN c.kw = 1..3
          /\ c.kw[1] = P("current_user", "other", "user") /\ c.kw[2] = P("db", "other", "db")
          /\ c.kw[3] = P("id", "int", i)
      BY <2>1 DEF CurrentUserAndDb
    <2>4. ~ Named(c.kw, "user_id")
      BY <2>3 DEF Named, P
    <2>5. 2 \in DOMAIN TimeLogPrefix /\ TimeLogPrefix[2] = [kind |-> "arg", text |-> "user_id"]
      BY DEF TimeLogPrefix, Lit, Arg
    <2> QED
      BY <2>2, <2>4, <2>5 DEF CanFormat
  <1> QED
    BY <1>1, <1>2 DEF TimeLogReads, Keyed

(* The GETs that reach their key, and the key they reach.                  *)
LEMMA UserItemsKey ==
  ASSUME NEW u
  PROVE  OwnKey(read_user_items(u).endpoint, read_user_items(u).kw) =
           <<"user_items">> \o <<":", u>>
  <1> DEFINE e == read_user_items(u).endpoint
             kw == read_user_items(u).kw
  <1>1. /\ e.prefix = <<[kind |-> "lit", text |-> "user_items"]>>
        /\ e.ridName = "user_id"
        /\ kw = <<[name |-> "user_id", type |-> "int", value |-> u]>>
    BY DEF read_user_items, Read, Lit, P
  <1> HIDE DEF e, kw
  <1>2. ValueOf(kw, "user_id") = u
    BY <1>1 DEF ValueOf
  <1>3. ResourceId(e, kw) = u
    BY <1>1, <1>2 DEF ResourceId, NoName
  <1>4. Format(e.prefix, kw) = <<"user_items">>
    BY <1>1 DEF Format
  <1>5. OwnKey(e, kw) = <<"user_items">> \o <<":", u>>
    BY <1>3, <1>4 DEF OwnKey
  <1> QED
    BY <1>5 DEF e, kw

(* The id is inferred: the key ends in it, whatever it is.                 *)
LEMMA ItemsPageKey ==
  ASSUME NEW u, NEW p
  PROVE  \E id : OwnKey(read_items_page(u, p).endpoint, read_items_page(u, p).kw) =
                   <<"user_", u, "_items:", "page_", p>> \o <<":", id>>
  <1> DEFINE e == read_items_page(u, p).endpoint
             kw == read_items_page(u, p).kw
  <1>1. /\ e.prefix = <<[kind |-> "lit", text |-> "user_"],
                        [kind |-> "arg", text |-> "user_id"],
                        [kind |-> "lit", text |-> "_items:"],
                        [kind |-> "lit", text |-> "page_"],
                        [kind |-> "arg", text |-> "page"]>>
        /\ kw = <<[name |-> "user_id", type |-> "int", value |-> u],
                  [name |-> "page", type |-> "int", value |-> p]>>
    BY DEF read_items_page, Read, Lit, Arg, P
  <1> HIDE DEF e, kw
  <1>2. ValueOf(kw, "user_id") = u /\ ValueOf(kw, "page") = p
    BY <1>1 DEF ValueOf
  <1>3. Format(e.prefix, kw) = <<"user_", u, "_items:", "page_", p>>
    BY <1>1, <1>2 DEF Format
  <1>4. OwnKey(e, kw) = <<"user_", u, "_items:", "page_", p>> \o <<":", ResourceId(e, kw)>>
    BY <1>3 DEF OwnKey
  <1> QED
    BY <1>4 DEF e, kw

(* The user's name starts the key and ends it.                             *)
LEMMA PostsKey ==
  ASSUME NEW u
  PROVE  OwnKey(read_posts(u, "1").endpoint, read_posts(u, "1").kw) =
           <<u, "_posts:", "page_", "1">> \o <<":", u>>
  <1> DEFINE e == read_posts(u, "1").endpoint
             kw == read_posts(u, "1").kw
  <1>1. /\ e.prefix = <<[kind |-> "arg", text |-> "username"],
                        [kind |-> "lit", text |-> "_posts:"],
                        [kind |-> "lit", text |-> "page_"], [kind |-> "arg", text |-> "page"]>>
        /\ e.ridName = "username"
        /\ kw = <<[name |-> "username", type |-> "str", value |-> u],
                  [name |-> "page", type |-> "int", value |-> "1"]>>
    BY DEF read_posts, Read, Lit, Arg, P
  <1> HIDE DEF e, kw
  <1>2. ValueOf(kw, "username") = u /\ ValueOf(kw, "page") = "1"
    BY <1>1 DEF ValueOf
  <1>3. ResourceId(e, kw) = u
    BY <1>1, <1>2 DEF ResourceId, NoName
  <1>4. Format(e.prefix, kw) = <<u, "_posts:", "page_", "1">>
    BY <1>1, <1>2 DEF Format
  <1>5. OwnKey(e, kw) = <<u, "_posts:", "page_", "1">> \o <<":", u>>
    BY <1>3, <1>4 DEF OwnKey
  <1> QED
    BY <1>5 DEF e, kw

(* The key of one time log cannot be made without a user_id.               *)
LEMMA NoUserId ==
  ASSUME NEW e, NEW kw, e.prefix = TimeLogPrefix, ~ Named(kw, "user_id")
  PROVE  ~ Keyed(e, kw)
  <1>1. 2 \in DOMAIN TimeLogPrefix /\ TimeLogPrefix[2] = [kind |-> "arg", text |-> "user_id"]
    BY DEF TimeLogPrefix, Lit, Arg
  <1> QED
    BY <1>1 DEF CanFormat, Keyed

(* The writes of the time logs; one of them reaches its key.               *)
LEMMA TimeLogWritesAre ==
  ASSUME NEW c \in TimeLogWrites
  PROVE  /\ c.endpoint.method # "GET"
         /\ Keyed(c.endpoint, c.kw) => c \in erase_db_time_log
  <1>1. CASE c \in update_time_logs_batch
    <2> DEFINE Of(u) == [endpoint |-> Batch("PATCH"),
                          kw |-> CurrentUserAndDb \o <<P("user_id", "str", u),
                                                       P("batch_update", "other", "body")>>]
    <2>1. \A u : /\ Of(u).endpoint = Batch("PATCH")
                 /\ Of(u).kw =
                      CurrentUserAndDb \o <<P("user_id", "str", u),
                                            P("batch_update", "other", "body")>>
      OBVIOUS
    <2>2. update_time_logs_batch = {Of(u) : u \in UserId}
      BY DEF update_time_logs_batch
    <2> HIDE DEF Of
    <2>3. PICK u \in UserId : c = Of(u)
      BY <1>1, <2>2
    <2>4. /\ c.endpoint.method = "PATCH"
          /\ c.endpoint.ridName = NoName /\ c.endpoint.ridType = "int"
      BY <2>1, <2>3 DEF Batch
    <2>5. c.kw = CurrentUserAndDb \o <<P("user_id", "str", u),
                                       P("batch_update", "other", "body")>>
      BY <2>1, <2>3
    <2>6. /\ DOMAIN c.kw = 1..4
          /\ c.kw[1] = P("current_user", "other", "user") /\ c.kw[2] = P("db", "other", "db")
          /\ c.kw[3] = P("user_id", "str", u) /\ c.kw[4] = P("batch_update", "other", "body")
      BY <2>5 DEF CurrentUserAndDb
    <2>7. \A i \in DOMAIN c.kw : ~ IsId(c.kw[i], "int")
      BY <2>6 DEF IsId, P
    <2> QED
      BY <2>4, <2>7 DEF CanIdentify, Keyed
  <1>2. CASE c \in erase_time_logs_batch
    <2> DEFINE Of(u) == [endpoint |-> Batch("DELETE"),
                          kw |-> CurrentUserAndDb \o <<P("user_id", "str", u),
                                                       P("batch_delete", "other", "body")>>]
    <2>1. \A u : /\ Of(u).endpoint = Batch("DELETE")
                 /\ Of(u).kw =
                      CurrentUserAndDb \o <<P("user_id", "str", u),
                                            P("batch_delete", "other", "body")>>
      OBVIOUS
    <2>2. erase_time_logs_batch = {Of(u) : u \in UserId}
      BY DEF erase_time_logs_batch
    <2> HIDE DEF Of
    <2>3. PICK u \in UserId : c = Of(u)
      BY <1>2, <2>2
    <2>4. /\ c.endpoint.method = "DELETE"
          /\ c.endpoint.ridName = NoName /\ c.endpoint.ridType = "int"
      BY <2>1, <2>3 DEF Batch
    <2>5. c.kw = CurrentUserAndDb \o <<P("user_id", "str", u),
                                       P("batch_delete", "other", "body")>>
      BY <2>1, <2>3
    <2>6. /\ DOMAIN c.kw = 1..4
          /\ c.kw[1] = P("current_user", "other", "user") /\ c.kw[2] = P("db", "other", "db")
          /\ c.kw[3] = P("user_id", "str", u) /\ c.kw[4] = P("batch_delete", "other", "body")
      BY <2>5 DEF CurrentUserAndDb
    <2>7. \A i \in DOMAIN c.kw : ~ IsId(c.kw[i], "int")
      BY <2>6 DEF IsId, P
    <2> QED
      BY <2>4, <2>7 DEF CanIdentify, Keyed
  <1>3. CASE c \in patch_time_log
    <2> DEFINE Of(i) == [endpoint |-> OneLog("PATCH", <<>>, <<TimeLogsPattern>>),
                          kw |-> CurrentUserAndDb \o <<P("id", "int", i),
                                                       P("values", "other", "body")>>]
    <2>1. \A i : /\ Of(i).endpoint = OneLog("PATCH", <<>>, <<TimeLogsPattern>>)
                 /\ Of(i).kw =
                      CurrentUserAndDb \o <<P("id", "int", i), P("values", "other", "body")>>
      OBVIOUS
    <2>2. patch_time_log = {Of(i) : i \in LogId}
      BY DEF patch_time_log
    <2> HIDE DEF Of
    <2>3. PICK i \in LogId : c = Of(i)
      BY <1>3, <2>2
    <2>4. c.endpoint.method = "PATCH" /\ c.endpoint.prefix = TimeLogPrefix
      BY <2>1, <2>3 DEF OneLog
    <2>5. c.kw = CurrentUserAndDb \o <<P("id", "int", i), P("values", "other", "body")>>
      BY <2>1, <2>3
    <2>6. /\ DOMAIN c.kw = 1..4
          /\ c.kw[1] = P("current_user", "other", "user") /\ c.kw[2] = P("db", "other", "db")
          /\ c.kw[3] = P("id", "int", i) /\ c.kw[4] = P("values", "other", "body")
      BY <2>5 DEF CurrentUserAndDb
    <2>7. ~ Named(c.kw, "user_id")
      BY <2>6 DEF Named, P
    <2> QED
      BY <2>4, <2>7, NoUserId
  <1>4. CASE c \in erase_time_log
    <2> DEFINE Of(i) == [endpoint |-> OneLog("DELETE", ListsOfUser, <<>>),
                          kw |-> CurrentUserAndDb \o <<P("id", "int", i)>>]
    <2>1. \A i : /\ Of(i).endpoint = OneLog("DELETE", ListsOfUser, <<>>)
                 /\ Of(i).kw = CurrentUserAndDb \o <<P("id", "int", i)>>
      OBVIOUS
    <2>2. erase_time_log = {Of(i) : i \in LogId}
      BY DEF erase_time_log
    <2> HIDE DEF Of
    <2>3. PICK i \in LogId : c = Of(i)
      BY <1>4, <2>2
    <2>4. c.endpoint.method = "DELETE" /\ c.endpoint.prefix = TimeLogPrefix
      BY <2>1, <2>3 DEF OneLog
    <2>5. c.kw = CurrentUserAndDb \o <<P("id", "int", i)>>
      BY <2>1, <2>3
    <2>6. /\ DOMAIN c.kw = 1..3
          /\ c.kw[1] = P("current_user", "other", "user") /\ c.kw[2] = P("db", "other", "db")
          /\ c.kw[3] = P("id", "int", i)
      BY <2>5 DEF CurrentUserAndDb
    <2>7. ~ Named(c.kw, "user_id")
      BY <2>6 DEF Named, P
    <2> QED
      BY <2>4, <2>7, NoUserId
  <1>5. CASE c \in erase_db_time_log
    <2> DEFINE Of(u, i) == [endpoint |-> OneLog("DELETE", ListsOfUser, <<>>),
                            kw |-> <<P("db", "other", "db"), P("user_id", "str", u),
                                     P("id", "int", i)>>]
    <2>1. \A u, i : Of(u, i).endpoint.method = "DELETE"
      BY DEF OneLog
    <2>2. erase_db_time_log = {Of(u, i) : u \in UserId, i \in LogId}
      BY DEF erase_db_time_log
    <2> HIDE DEF Of
    <2> QED
      BY <1>5, <2>1, <2>2
  <1> QED
    BY <1>1, <1>2, <1>3, <1>4, <1>5 DEF TimeLogWrites

(* The endpoints of the documentation, by what they read and change.       *)
LEMMA DocumentedMethods ==
  ASSUME NEW u
  PROVE  /\ \A c \in ItemReads(u) \cup PostReads(u) : c.endpoint.method = "GET"
         /\ \A c \in ItemWrites(u) \cup PostWrites(u) : c.endpoint.method # "GET"
  BY DEF ItemReads, PostReads, ItemWrites, PostWrites, read_user_items, read_items_page,
         read_posts, update_item, rename_item, patch_post, Read

(* The GETs that reach their key are those of items and of posts.          *)
LEMMA GetsAre ==
  ASSUME Documented, NEW c \in Get
  PROVE  /\ c \notin TimeLogReads
         /\ \E u \in UserId : c \in ItemReads(u) \cup PostReads(u)
  <1>1. c \in MCCall /\ Keyed(c.endpoint, c.kw) /\ c.endpoint.method = "GET"
    BY DEF Get, Reached, Documented
  <1>2. c \notin TimeLogReads /\ c \notin TimeLogWrites
    BY <1>1, TimeLogsUnkeyed, TimeLogWritesAre
  <1>3. PICK u \in UserId : c \in ItemReads(u) \cup ItemWrites(u)
                                  \cup PostReads(u) \cup PostWrites(u)
    BY <1>1, <1>2 DEF MCCall, DocumentedCalls
  <1> QED
    BY <1>1, <1>2, <1>3, DocumentedMethods

(* The changes that reach their key: those of items and of posts, and the  *)
(* deletion of a time log from the database.                               *)
LEMMA ChangesAre ==
  ASSUME Documented, NEW c \in Reached \ Get
  PROVE  c \in erase_db_time_log \/ \E u \in UserId : c \in ItemWrites(u) \cup PostWrites(u)
  <1>1. c \in MCCall /\ Keyed(c.endpoint, c.kw) /\ c.endpoint.method # "GET"
    BY DEF Get, Reached, Documented
  <1>2. c \in TimeLogWrites => c \in erase_db_time_log
    BY <1>1, TimeLogWritesAre
  <1>3. c \notin TimeLogReads
    BY <1>1, TimeLogsUnkeyed
  <1>4. c \in DocumentedCalls =>
          \E u \in UserId : c \in ItemReads(u) \cup ItemWrites(u)
                                  \cup PostReads(u) \cup PostWrites(u)
    BY DEF DocumentedCalls
  <1> QED
    BY <1>1, <1>2, <1>3, <1>4, DocumentedMethods DEF MCCall

(* A change concerns a GET when the two are of the same data of one user.  *)
LEMMA ConcernsOneUser ==
  ASSUME Documented, NEW c \in Reached \ Get, NEW d \in Get
  PROVE  Touches[c] \cap Depends[d] # {} =>
           \E u \in UserId : \/ c \in ItemWrites(u) /\ d \in ItemReads(u)
                             \/ c \in PostWrites(u) /\ d \in PostReads(u)
  <1>1. c \in MCCall /\ d \in MCCall /\ d \notin TimeLogReads
    BY GetsAre DEF Get, Reached, Documented
  <1>2. \A r \in Depends[d] : \E u \in UserId : \/ r = <<"items", u>> /\ d \in ItemReads(u)
                                                \/ r = <<"posts", u>> /\ d \in PostReads(u)
    BY <1>1 DEF Documented, MCDepends
  <1>3. \A r \in Touches[c] : \/ r = <<"time logs", "all">>
                              \/ \E u \in UserId : \/ r = <<"items", u>> /\ c \in ItemWrites(u)
                                                   \/ r = <<"posts", u>> /\ c \in PostWrites(u)
    BY <1>1 DEF Documented, MCTouches
  <1> QED
    BY <1>2, <1>3

-----------------------------------------------------------------------------
(* update_item.                                                            *)
LEMMA UpdateItemIs ==
  ASSUME NEW u
  PROVE  /\ update_item(u).endpoint.extra =
              <<[prefix |-> <<[kind |-> "lit", text |-> "user_items"]>>,
                 id |-> <<[kind |-> "arg", text |-> "user_id"]>>]>>
         /\ DOMAIN update_item(u).endpoint.patterns = {1}
         /\ update_item(u).endpoint.patterns[1] =
              <<[kind |-> "lit", text |-> "user_"], [kind |-> "lit", text |-> "*"],
                [kind |-> "lit", text |-> "_items:"], [kind |-> "lit", text |-> "*"]>>
         /\ update_item(u).kw = <<[name |-> "item_id", type |-> "int", value |-> "7"],
                                  [name |-> "user_id", type |-> "int", value |-> u]>>
  BY DEF update_item, Lit, Arg, P, Star

(* The id of the extra key of update_item.                                 *)
LEMMA FirstArgIs == FirstArg(<<[kind |-> "arg", text |-> "user_id"]>>) = "user_id"
  <1> DEFINE t == <<[kind |-> "arg", text |-> "user_id"]>>
  <1>1. FirstArg(t) = t[Min({i \in DOMAIN t : t[i].kind = "arg"})].text
    BY Zenon DEF FirstArg
  <1>2. {i \in DOMAIN t : t[i].kind = "arg"} = {1}
    OBVIOUS
  <1>3. Min({1}) = 1
    BY DEF Min
  <1>4. t[1].text = "user_id"
    OBVIOUS
  <1> HIDE DEF t
  <1>5. FirstArg(t) = "user_id"
    BY <1>1, <1>2, <1>3, <1>4
  <1> QED
    BY <1>5 DEF t

(* update_item deletes the user's plain list, by its extra key.            *)
LEMMA UpdateDeletesList ==
  ASSUME NEW u
  PROVE  <<"user_items">> \o <<":", u>> \in
           ExtraKeys(update_item(u).endpoint.extra, update_item(u).kw)
  <1> DEFINE extra == update_item(u).endpoint.extra
             kw == update_item(u).kw
  <1>1. /\ extra = <<[prefix |-> <<[kind |-> "lit", text |-> "user_items"]>>,
                      id |-> <<[kind |-> "arg", text |-> "user_id"]>>]>>
        /\ kw = <<[name |-> "item_id", type |-> "int", value |-> "7"],
                  [name |-> "user_id", type |-> "int", value |-> u]>>
    BY UpdateItemIs, Zenon
  <1> HIDE DEF extra, kw
  <1>2. /\ DOMAIN extra = {1}
        /\ extra[1].prefix = <<[kind |-> "lit", text |-> "user_items"]>>
        /\ extra[1].id = <<[kind |-> "arg", text |-> "user_id"]>>
    BY <1>1
  <1>3. ValueOf(kw, "user_id") = u
    BY <1>1 DEF ValueOf
  <1>4. Format(extra[1].prefix, kw) = <<"user_items">>
    BY <1>2 DEF Format
  <1>5. ValueOf(kw, FirstArg(extra[1].id)) = u
    BY <1>2, <1>3, FirstArgIs
  <1>6. Format(extra[1].prefix, kw) \o <<":", ValueOf(kw, FirstArg(extra[1].id))>>
          \in ExtraKeys(extra, kw)
    BY <1>2 DEF ExtraKeys
  <1> QED
    BY <1>4, <1>5, <1>6 DEF extra, kw

(* update_item deletes every page of the user's list, by its pattern.      *)
LEMMA UpdateMatchesPages ==
  ASSUME NEW u, NEW p, NEW id
  PROVE  Matches(PatternOf(update_item(u).endpoint.patterns[1], update_item(u).kw),
                 <<"user_", u, "_items:", "page_", p>> \o <<":", id>>)
  <1> DEFINE t == update_item(u).endpoint.patterns[1]
             kw == update_item(u).kw
             q == PatternOf(t, kw)
             k == <<"user_", u, "_items:", "page_", p>> \o <<":", id>>
  <1>1. update_item(u).endpoint.patterns[1] =
          <<[kind |-> "lit", text |-> "user_"], [kind |-> "lit", text |-> "*"],
            [kind |-> "lit", text |-> "_items:"], [kind |-> "lit", text |-> "*"]>>
    BY UpdateItemIs, Zenon
  <1> HIDE DEF kw
  <1>2. Format(t, kw) = <<"user_", Star, "_items:", Star>>
    BY <1>1 DEF Format, Star
  <1>3. q = <<"user_", Star, "_items:", Star>> \o <<Star>>
    BY <1>2 DEF PatternOf
  <1>4. /\ Len(q) = 5 /\ q[1] = "user_" /\ q[2] = Star /\ q[3] = "_items:" /\ q[4] = Star
        /\ q[5] = Star
    BY <1>3
  <1>5. Len(k) = 7 /\ k[1] = "user_" /\ k[3] = "_items:"
    OBVIOUS
  <1> HIDE DEF t, q, k
  <1>6. Len(q) \in Nat
    BY <1>4
  <1>7. PICK ends : /\ ends[0] = {0}
                    /\ \A i \in 1..Len(q) : ends[i] = Onward(q, k, i, ends[i - 1])
                    /\ Matches(q, k) <=> Len(k) \in ends[Len(q)]
    BY <1>6, MatchesBySteps, Zenon
  <1>8. 1 \in ends[1]
    <2>1. ends[1] = Onward(q, k, 1, {0})
      <3>1. 1 \in 1..Len(q) /\ 1 - 1 = 0
        BY <1>4
      <3> QED
        BY <1>7, <3>1
    <2> QED
      BY <2>1, <1>4, <1>5, <1>7 DEF Onward
  <1>9. 2 \in ends[2]
    <2>1. ends[2] = Onward(q, k, 2, ends[1])
      BY <1>4, <1>7
    <2> QED
      BY <2>1, <1>4, <1>5, <1>8 DEF Onward
  <1>10. 3 \in ends[3]
    <2>1. ends[3] = Onward(q, k, 3, ends[2])
      BY <1>4, <1>7
    <2> QED
      BY <2>1, <1>4, <1>5, <1>9 DEF Onward
  <1>11. 7 \in ends[4]
    <2>1. ends[4] = Onward(q, k, 4, ends[3])
      BY <1>4, <1>7
    <2> QED
      BY <2>1, <1>4, <1>5, <1>10 DEF Onward
  <1>12. 7 \in ends[5]
    <2>1. ends[5] = Onward(q, k, 5, ends[4])
      BY <1>4, <1>7
    <2> QED
      BY <2>1, <1>4, <1>5, <1>11 DEF Onward
  <1> QED
    BY <1>4, <1>5, <1>7, <1>12 DEF t, kw, q, k

(* The pieces of patch_post.                                               *)
LEMMA PatchPostIs ==
  ASSUME NEW u
  PROVE  /\ patch_post(u).endpoint.extra = <<>>
         /\ patch_post(u).endpoint.ridName = "id"
         /\ patch_post(u).endpoint.prefix =
              <<[kind |-> "arg", text |-> "username"], [kind |-> "lit", text |-> "_post_cache"]>>
         /\ DOMAIN patch_post(u).endpoint.patterns = {1}
         /\ patch_post(u).endpoint.patterns[1] =
              <<[kind |-> "arg", text |-> "username"], [kind |-> "lit", text |-> "_posts:"],
                [kind |-> "lit", text |-> "*"]>>
         /\ patch_post(u).kw = <<[name |-> "username", type |-> "str", value |-> u],
                                 [name |-> "id", type |-> "int", value |-> "7"]>>
  BY DEF patch_post, Lit, Arg, P, Star

(* The pattern of patch_post for user u: u_posts:* with the star the       *)
(* decorator adds.                                                         *)
LEMMA PatchPattern ==
  ASSUME NEW u
  PROVE  \E q : /\ q = PatternOf(patch_post(u).endpoint.patterns[1], patch_post(u).kw)
                /\ Len(q) = 4 /\ q[1] = u /\ q[2] = "_posts:" /\ q[3] = Star /\ q[4] = Star
  <1> DEFINE t == patch_post(u).endpoint.patterns[1]
             kw == patch_post(u).kw
             q == PatternOf(t, kw)
  <1>1. /\ t = <<[kind |-> "arg", text |-> "username"], [kind |-> "lit", text |-> "_posts:"],
                 [kind |-> "lit", text |-> "*"]>>
        /\ kw = <<[name |-> "username", type |-> "str", value |-> u],
                  [name |-> "id", type |-> "int", value |-> "7"]>>
    BY PatchPostIs, Zenon
  <1> HIDE DEF t, kw
  <1>2. ValueOf(kw, "username") = u
    BY <1>1 DEF ValueOf
  <1>3. Format(t, kw) = <<u, "_posts:", Star>>
    BY <1>1, <1>2 DEF Format, Star
  <1>4. q = <<u, "_posts:", Star>> \o <<Star>>
    BY <1>3 DEF PatternOf
  <1>5. Len(q) = 4 /\ q[1] = u /\ q[2] = "_posts:" /\ q[3] = Star /\ q[4] = Star
    BY <1>4
  <1> QED
    BY <1>5 DEF t, kw

(* What the pattern of patch_post fits, for a user who is no wildcard.     *)
LEMMA PatchMatches ==
  ASSUME NEW u, NEW k, Len(k) \in Nat,
         NEW q, Len(q) = 4, q[1] = u, q[2] = "_posts:", q[3] = Star, q[4] = Star
  PROVE  /\ Len(k) >= 2 /\ k[1] = u /\ k[2] = "_posts:" => Matches(q, k)
         /\ u # Star /\ Matches(q, k) => Len(k) >= 2 /\ k[1] = u /\ k[2] = "_posts:"
  <1>1. Len(q) \in Nat
    OBVIOUS
  <1>2. PICK ends : /\ ends[0] = {0}
                    /\ \A i \in 1..Len(q) : ends[i] = Onward(q, k, i, ends[i - 1])
                    /\ Matches(q, k) <=> Len(k) \in ends[Len(q)]
    BY <1>1, MatchesBySteps, Zenon
  <1>3. /\ ends[1] = Onward(q, k, 1, {0})
        /\ ends[2] = Onward(q, k, 2, ends[1])
        /\ ends[3] = Onward(q, k, 3, ends[2])
        /\ ends[4] = Onward(q, k, 4, ends[3])
    <2>1. ends[1] = Onward(q, k, 1, {0})
      <3>1. 1 \in 1..Len(q) /\ 1 - 1 = 0
        OBVIOUS
      <3> QED
        BY <1>2, <3>1
    <2>2. ends[2] = Onward(q, k, 2, ends[1])
      BY <1>2
    <2>3. ends[3] = Onward(q, k, 3, ends[2])
      BY <1>2
    <2>4. ends[4] = Onward(q, k, 4, ends[3])
      BY <1>2
    <2> QED
      BY <2>1, <2>2, <2>3, <2>4
  <1>4. ASSUME Len(k) >= 2, k[1] = u, k[2] = "_posts:" PROVE Matches(q, k)
    <2>1. 1 \in ends[1]
      BY <1>3, <1>4 DEF Onward
    <2>2. 2 \in ends[2]
      BY <1>3, <1>4, <2>1 DEF Onward
    <2>3. Len(k) \in ends[3]
      BY <1>3, <1>4, <2>2 DEF Onward
    <2>4. Len(k) \in ends[4]
      BY <1>3, <1>4, <2>3 DEF Onward
    <2> QED
      BY <1>2, <2>4
  <1>5. ASSUME u # Star, Matches(q, k) PROVE Len(k) >= 2 /\ k[1] = u /\ k[2] = "_posts:"
    <2>1. \E j \in ends[4] : TRUE
      BY <1>2, <1>5
    <2>2. \E j \in ends[3] : TRUE
      BY <1>3, <2>1 DEF Onward
    <2>3. \E j \in ends[2] : TRUE
      BY <1>3, <2>2 DEF Onward
    <2>4. \A j \in ends[1] : j = 1 /\ k[1] = u
      BY <1>3, <1>5 DEF Onward
    <2>5. \A j \in ends[2] : j = 2 /\ Len(k) >= 2 /\ k[1] = u /\ k[2] = "_posts:"
      BY <1>3, <1>5, <2>4 DEF Onward, Star
    <2> QED
      BY <2>3, <2>5
  <1> QED
    BY <1>4, <1>5

-----------------------------------------------------------------------------
ItemsKey(u) == <<"user_items">> \o <<":", u>>
PageKey(u, p, id) == <<"user_", u, "_items:", "page_", p>> \o <<":", id>>
PostKey(u) == <<u, "_posts:", "page_", "1">> \o <<":", u>>

(* The texts of the keys, by which they are told apart.                    *)
LEMMA KeyTexts ==
  ASSUME NEW u, NEW p, NEW id
  PROVE  /\ Len(ItemsKey(u)) = 3 /\ ItemsKey(u)[1] = "user_items" /\ ItemsKey(u)[2] = ":"
         /\ ItemsKey(u)[3] = u
         /\ Len(PageKey(u, p, id)) = 7 /\ PageKey(u, p, id)[1] = "user_"
         /\ PageKey(u, p, id)[2] = u /\ PageKey(u, p, id)[5] = p
         /\ PageKey(u, p, id)[3] = "_items:"
         /\ Len(PostKey(u)) = 6 /\ PostKey(u)[1] = u /\ PostKey(u)[2] = "_posts:"
         /\ PostKey(u)[3] = "page_"
  BY DEF ItemsKey, PageKey, PostKey

(* The GETs with their keys.                                               *)
LEMMA KeysOfGets ==
  ASSUME Documented, NEW c \in Get, NEW u \in UserId
  PROVE  /\ c \in ItemReads(u) => \/ c = read_user_items(u) /\ Key[c] = ItemsKey(u)
                                  \/ \E p \in Page : \E id : /\ c = read_items_page(u, p)
                                                             /\ Key[c] = PageKey(u, p, id)
         /\ c \in PostReads(u) => c = read_posts(u, "1") /\ Key[c] = PostKey(u)
  <1>1. Key[c] = OwnKey(c.endpoint, c.kw)
    BY DEF Key, Get
  <1>2. c = read_user_items(u) => Key[c] = ItemsKey(u)
    BY <1>1, UserItemsKey DEF ItemsKey
  <1>3. ASSUME NEW p \in Page, c = read_items_page(u, p)
        PROVE  \E id : Key[c] = PageKey(u, p, id)
    BY <1>1, <1>3, ItemsPageKey DEF PageKey
  <1>4. c = read_posts(u, "1") => Key[c] = PostKey(u)
    BY <1>1, PostsKey DEF PostKey
  <1> QED
    BY <1>2, <1>3, <1>4 DEF ItemReads, PostReads

(* No two of them have the same key.                                       *)
LEMMA DocumentedKeysAgree == Documented => SharedKeysAgree
  <1> SUFFICES ASSUME Documented, NEW c \in Get, NEW d \in Get, Key[c] = Key[d]
               PROVE  c = d
    BY DEF SharedKeysAgree
  <1>1. PICK u \in UserId : c \in ItemReads(u) \cup PostReads(u)
    BY GetsAre
  <1>2. PICK v \in UserId : d \in ItemReads(v) \cup PostReads(v)
    BY GetsAre
  <1>3. \/ d = read_user_items(v) /\ Key[d] = ItemsKey(v)
        \/ \E p \in Page : \E id : d = read_items_page(v, p) /\ Key[d] = PageKey(v, p, id)
        \/ d = read_posts(v, "1") /\ Key[d] = PostKey(v)
    BY <1>2, KeysOfGets
  <1>4. \A w, p, id : /\ Len(ItemsKey(w)) = 3
                      /\ Len(PageKey(w, p, id)) = 7
                      /\ Len(PostKey(w)) = 6
    BY KeyTexts
  <1>5. CASE c = read_user_items(u) /\ Key[c] = ItemsKey(u)
    <2>1. d = read_user_items(v) /\ Key[d] = ItemsKey(v)
      BY <1>5, <1>3, <1>4
    <2> QED
      BY <1>5, <2>1, KeyTexts
  <1>6. ASSUME NEW p \in Page, NEW id, c = read_items_page(u, p), Key[c] = PageKey(u, p, id)
        PROVE  c = d
    <2>1. PICK q \in Page : \E x : d = read_items_page(v, q) /\ Key[d] = PageKey(v, q, x)
      BY <1>6, <1>3, <1>4
    <2> QED
      BY <1>6, <2>1, KeyTexts
  <1>7. CASE c = read_posts(u, "1") /\ Key[c] = PostKey(u)
    <2>1. d = read_posts(v, "1") /\ Key[d] = PostKey(v)
      BY <1>7, <1>3, <1>4
    <2> QED
      BY <1>7, <2>1, KeyTexts
  <1> QED
    BY <1>1, <1>5, <1>6, <1>7, KeysOfGets

(* A request names a key, itself or in a pattern.                          *)
Names(c, k) == k \in Deleted(c.endpoint, c.kw) \/ k \in Matched(c.endpoint, c.kw, {k})

LEMMA NamesKey ==
  ASSUME NEW c \in Reached, NEW d \in Get
  PROVE  Names(c, Key[d]) <=> Key[d] \in Deletes[c] \cup Fits[c]
BY FitsAlone, FittedOnItsOwn DEF Names, Deletes

(* What erase_db_time_log deletes before it raises: its own key, which is  *)
(* no GET's.                                                               *)
LEMMA EraseDeletes ==
  ASSUME NEW c \in erase_db_time_log, NEW k, Names(c, k)
  PROVE  Len(k) = 5
  <1> DEFINE Of(u, i) == [endpoint |-> OneLog("DELETE", ListsOfUser, <<>>),
                          kw |-> <<P("db", "other", "db"), P("user_id", "str", u),
                                   P("id", "int", i)>>]
  <1>1. \A u, i : Of(u, i).endpoint = OneLog("DELETE", ListsOfUser, <<>>)
    OBVIOUS
  <1>2. erase_db_time_log = {Of(u, i) : u \in UserId, i \in LogId}
    BY DEF erase_db_time_log
  <1> HIDE DEF Of
  <1>3. c.endpoint = OneLog("DELETE", ListsOfUser, <<>>)
    BY <1>1, <1>2
  <1>4. c.endpoint.prefix = TimeLogPrefix /\ c.endpoint.extra = ListsOfUser
    BY <1>3 DEF OneLog
  <1>5. ~ CanFormatExtra(c.endpoint.extra, c.kw)
    <2>1. /\ 1 \in DOMAIN ListsOfUser
          /\ DOMAIN ListsOfUser[1].id = {1}
          /\ ListsOfUser[1].id[1].kind = "lit"
      BY DEF ListsOfUser, Lit
    <2> QED
      BY <1>4, <2>1 DEF CanFormatExtra
  <1>6. k = OwnKey(c.endpoint, c.kw)
    BY <1>5 DEF Names, Deleted, Matched
  <1>7. OwnKey(c.endpoint, c.kw) =
          Format(TimeLogPrefix, c.kw) \o <<":", ResourceId(c.endpoint, c.kw)>>
    BY <1>4 DEF OwnKey
  <1>8. \E x, y, z : Format(TimeLogPrefix, c.kw) = <<x, y, z>>
    <2>1. DOMAIN TimeLogPrefix = 1..3
      BY DEF TimeLogPrefix
    <2> DEFINE F(i) == IF TimeLogPrefix[i].kind = "arg" THEN ValueOf(c.kw, TimeLogPrefix[i].text)
                                                        ELSE TimeLogPrefix[i].text
    <2>2. Format(TimeLogPrefix, c.kw) = [i \in 1..3 |-> F(i)]
      BY <2>1 DEF Format
    <2> HIDE DEF F
    <2>3. [i \in 1..3 |-> F(i)] = <<F(1), F(2), F(3)>>
      OBVIOUS
    <2> QED
      BY <2>2, <2>3
  <1> QED
    BY <1>6, <1>7, <1>8

(* rename_item raises before it gets to its extra key.                     *)
LEMMA RenameRaises == rename_item \notin Through
  <1>1. rename_item.endpoint = update_item("u1").endpoint
    BY DEF rename_item
  <1>2. /\ rename_item.endpoint.extra =
             <<[prefix |-> <<[kind |-> "lit", text |-> "user_items"]>>,
                id |-> <<[kind |-> "arg", text |-> "user_id"]>>]>>
        /\ rename_item.kw = <<P("item_id", "int", "7")>>
    BY <1>1, UpdateItemIs DEF rename_item
  <1>3. ~ Named(rename_item.kw, "user_id")
    BY <1>2 DEF Named, P
  <1>4. ~ CanFormatExtra(rename_item.endpoint.extra, rename_item.kw)
    BY <1>2, <1>3, FirstArgIs DEF CanFormatExtra
  <1> QED
    BY <1>4 DEF Through, Completes

(* A change that gets through names the key of every GET it concerns.      *)
LEMMA DocumentedChangesInvalidate == Documented => ChangesInvalidate
  <1> SUFFICES ASSUME Documented, NEW c \in Reached \ Get, NEW d \in Get,
                      Completes(c.endpoint, c.kw), Touches[c] \cap Depends[d] # {}
               PROVE  Names(c, Key[d])
    BY NamesKey DEF ChangesInvalidate, Through
  <1>1. PICK u \in UserId : \/ c \in ItemWrites(u) /\ d \in ItemReads(u)
                            \/ c \in PostWrites(u) /\ d \in PostReads(u)
    BY ConcernsOneUser
  <1>2. CanFormatExtra(c.endpoint.extra, c.kw)
    BY DEF Completes
  <1>3. \A i \in DOMAIN c.endpoint.patterns : CanFormat(c.endpoint.patterns[i], c.kw)
    BY DEF Completes
  <1>4. ASSUME DOMAIN c.endpoint.patterns = {1},
               Matches(PatternOf(c.endpoint.patterns[1], c.kw), Key[d])
        PROVE  Names(c, Key[d])
    BY <1>2, <1>3, <1>4 DEF Names, Matched
  <1>5. ASSUME c \in ItemWrites(u), d \in ItemReads(u)
        PROVE  Names(c, Key[d])
    <2>1. c = update_item(u)
      BY <1>5, RenameRaises DEF ItemWrites, Through
    <2>2. CASE Key[d] = ItemsKey(u)
      <3>1. Key[d] \in ExtraKeys(c.endpoint.extra, c.kw)
        BY <2>1, <2>2, UpdateDeletesList DEF ItemsKey
      <3> QED
        BY <1>2, <3>1 DEF Names, Deleted
    <2>3. ASSUME NEW p, NEW id, Key[d] = PageKey(u, p, id)
          PROVE  Names(c, Key[d])
      <3>1. Matches(PatternOf(c.endpoint.patterns[1], c.kw), Key[d])
        BY <2>1, <2>3, UpdateMatchesPages DEF PageKey
      <3>2. DOMAIN c.endpoint.patterns = {1}
        BY <2>1, UpdateItemIs
      <3> QED
        BY <1>4, <3>1, <3>2
    <2> QED
      BY <1>5, <2>2, <2>3, KeysOfGets
  <1>6. ASSUME c \in PostWrites(u), d \in PostReads(u)
        PROVE  Names(c, Key[d])
    <2>1. c = patch_post(u) /\ Key[d] = PostKey(u)
      BY <1>6, KeysOfGets DEF PostWrites
    <2>2. Len(Key[d]) = 6 /\ Key[d][1] = u /\ Key[d][2] = "_posts:"
      BY <2>1, KeyTexts
    <2>3. Matches(PatternOf(c.endpoint.patterns[1], c.kw), Key[d])
      <3>1. PICK q : /\ q = PatternOf(patch_post(u).endpoint.patterns[1], patch_post(u).kw)
                     /\ Len(q) = 4 /\ q[1] = u /\ q[2] = "_posts:" /\ q[3] = Star /\ q[4] = Star
        BY PatchPattern
      <3>2. Len(Key[d]) \in Nat /\ Len(Key[d]) >= 2
        BY <2>2
      <3> DEFINE k == Key[d]
      <3>3. Len(k) \in Nat /\ Len(k) >= 2 /\ k[1] = u /\ k[2] = "_posts:"
        BY <2>2, <3>2
      <3> HIDE DEF k
      <3>4. Matches(q, k)
        BY <3>1, <3>3, PatchMatches
      <3>5. Matches(q, Key[d])
        BY <3>4 DEF k
      <3> QED
        BY <2>1, <3>1, <3>5
    <2>4. DOMAIN c.endpoint.patterns = {1}
      BY <2>1, PatchPostIs
    <2> QED
      BY <1>4, <2>3, <2>4
  <1> QED
    BY <1>1, <1>5, <1>6

(* A pattern without a wildcard but the trailing ones fits the keys of one *)
(* user only.                                                              *)
LEMMA DocumentedChangesFit == Documented /\ PlainNames => NarrowChangesFit
  <1> SUFFICES ASSUME Documented, PlainNames, NEW c \in Reached \ Get, NEW d \in Get,
                      Narrow(c.endpoint), Names(c, Key[d])
               PROVE  Depends[d] \cap Touches[c] # {}
    BY NamesKey DEF NarrowChangesFit
  <1>1. PICK v \in UserId :
          \/ d = read_user_items(v) /\ d \in ItemReads(v) /\ Key[d] = ItemsKey(v)
          \/ \E p \in Page : \E id : /\ d = read_items_page(v, p) /\ d \in ItemReads(v)
                                     /\ Key[d] = PageKey(v, p, id)
          \/ d = read_posts(v, "1") /\ d \in PostReads(v) /\ Key[d] = PostKey(v)
    BY GetsAre, KeysOfGets
  <1>2. /\ Len(ItemsKey(v)) = 3 /\ ItemsKey(v)[2] = ":"
        /\ \A p, id : Len(PageKey(v, p, id)) = 7 /\ PageKey(v, p, id)[1] = "user_"
        /\ Len(PostKey(v)) = 6 /\ PostKey(v)[1] = v /\ PostKey(v)[2] = "_posts:"
    BY KeyTexts
  <1>3. CASE c \in erase_db_time_log
    <2>1. Len(Key[d]) = 5
      BY <1>3, EraseDeletes
    <2> QED
      BY <1>1, <1>2, <2>1
  <1>4. ASSUME NEW u \in UserId, c \in ItemWrites(u) PROVE FALSE
    <2>1. \E w : c.endpoint = update_item(w).endpoint
      BY <1>4 DEF ItemWrites, rename_item
    <2>2. PICK w : c.endpoint = update_item(w).endpoint
      BY <2>1
    <2>3. /\ DOMAIN c.endpoint.patterns = {1}
          /\ c.endpoint.patterns[1] =
              <<[kind |-> "lit", text |-> "user_"], [kind |-> "lit", text |-> "*"],
                [kind |-> "lit", text |-> "_items:"], [kind |-> "lit", text |-> "*"]>>
      BY <2>2, UpdateItemIs, Zenon
    <2>4. /\ 2 \in 1..(Len(c.endpoint.patterns[1]) - 1)
          /\ c.endpoint.patterns[1][2] = Lit(Star)
      BY <2>3 DEF Lit, Star
    <2> QED
      BY <2>3, <2>4 DEF Narrow
  <1>5. ASSUME NEW u \in UserId, c \in PostWrites(u) PROVE Depends[d] \cap Touches[c] # {}
    <2>1. c = patch_post(u)
      BY <1>5 DEF PostWrites
    <2>2. CASE Key[d] = OwnKey(c.endpoint, c.kw)
      <3> DEFINE kw == patch_post(u).kw
                 F(t, i) == IF t[i].kind = "arg" THEN ValueOf(kw, t[i].text) ELSE t[i].text
      <3>1. DOMAIN c.endpoint.prefix = 1..2
        <4>1. c.endpoint.prefix = <<[kind |-> "arg", text |-> "username"],
                                    [kind |-> "lit", text |-> "_post_cache"]>>
          BY <2>1, PatchPostIs, Zenon
        <4> QED
          BY <4>1
      <3>2. PICK t : c.endpoint.prefix = t /\ DOMAIN t = 1..2
        BY <3>1
      <3>3. Format(t, c.kw) = [i \in 1..2 |-> F(t, i)]
        BY <2>1, <3>2 DEF Format
      <3> HIDE DEF F
      <3>4. [i \in 1..2 |-> F(t, i)] = <<F(t, 1), F(t, 2)>>
        OBVIOUS
      <3>5. Key[d] = <<F(t, 1), F(t, 2)>> \o <<":", ResourceId(c.endpoint, c.kw)>>
        BY <2>2, <3>2, <3>3, <3>4 DEF OwnKey
      <3>6. Len(Key[d]) = 4
        BY <3>5
      <3> QED
        BY <1>1, <1>2, <3>6
    <2>3. CASE Key[d] # OwnKey(c.endpoint, c.kw)
      <3>1. ExtraKeys(c.endpoint.extra, c.kw) = {}
        <4>1. c.endpoint.extra = <<>>
          BY <2>1, PatchPostIs
        <4> QED
          BY <4>1 DEF ExtraKeys
      <3>2. Matches(PatternOf(c.endpoint.patterns[1], c.kw), Key[d])
        BY <2>1, <2>3, <3>1, PatchPostIs DEF Names, Deleted, Matched
      <3>3. PICK q : /\ q = PatternOf(patch_post(u).endpoint.patterns[1], patch_post(u).kw)
                     /\ Len(q) = 4 /\ q[1] = u /\ q[2] = "_posts:" /\ q[3] = Star /\ q[4] = Star
        BY PatchPattern
      <3>4. u # Star /\ u # "user_"
        BY DEF PlainNames
      <3>5. Len(Key[d]) \in Nat
        BY <1>1, <1>2
      <3>6. Key[d][1] = u /\ Key[d][2] = "_posts:"
        <4> DEFINE k == Key[d]
        <4>1. Matches(q, k) /\ Len(k) \in Nat
          BY <2>1, <3>2, <3>3, <3>5
        <4> HIDE DEF k
        <4>2. k[1] = u /\ k[2] = "_posts:"
          BY <3>3, <3>4, <4>1, PatchMatches
        <4> QED
          BY <4>2 DEF k
      <3>7. v = u /\ d \in PostReads(u)
        BY <1>1, <1>2, <3>4, <3>6
      <3>8. c \in MCCall /\ d \in MCCall
        BY DEF Get, Reached, Documented
      <3>9. <<"posts", u>> \in Depends[d] /\ <<"posts", u>> \in Touches[c]
        BY <1>5, <3>7, <3>8 DEF Documented, MCDepends, MCTouches
      <3> QED
        BY <3>9
    <2> QED
      BY <2>2, <2>3
  <1> QED
    BY <1>3, <1>4, <1>5, ChangesAre

(* The templates of the documented endpoints are right: a GET for items or *)
(* for posts is never answered with another request's data, and no change  *)
(* of its data fails to name its key, whatever the users, their names and  *)
(* the pages are.  What a pattern names may stay all the same, if SCAN     *)
(* passes over it.                                                         *)
THEOREM DocumentedAnswersAreFresh ==
  ASSUME Documented
  PROVE  Spec => []AnswersFresh
  BY AnswersAreFresh, DocumentedKeysAgree, DocumentedChangesInvalidate

(* A documented change whose pattern names its user takes nobody else's    *)
(* answers out of the cache, when no user name is itself a wildcard or a   *)
(* text of a template: one called * would empty the posts of all.          *)
THEOREM DocumentedOthersAreKept ==
  ASSUME Documented, PlainNames
  PROVE  Spec => OthersStayCached
  BY OthersAreKept, DocumentedChangesFit

(* The plain list of a user's items is in the cache only as it is now, or  *)
(* as a change left it that raised: update_item names its key, so that it  *)
(* is deleted whatever SCAN does, for every user.                          *)
THEOREM DocumentedListsAreCurrent ==
  ASSUME Documented
  PROVE  Spec => []UserListsCurrent
  <1> DEFINE Lists == \A u \in UserId, x \in cache :
                        x.key = ItemsKey(u) => x.stale \subseteq {"raised"}
  <1>1. Lists <=> UserListsCurrent
    <2>1. \A u : OwnKey(read_user_items(u).endpoint, read_user_items(u).kw) = ItemsKey(u)
      BY UserItemsKey DEF ItemsKey
    <2> QED
      BY <2>1 DEF UserListsCurrent
  <1>2. Init => Lists /\ MadeByGet
    BY DEF Init, MadeByGet
  <1>3. ASSUME TypeOK, MadeByGet, Lists, [Next]_vars PROVE Lists'
    <2>1. ASSUME NEW c \in Get, Hit(c) \/ Fill(c) PROVE Lists'
      BY <1>3, <2>1 DEF Hit, Fill
    <2>2. ASSUME NEW c \in Call \ Reached, Refuse(c) PROVE Lists'
      BY <1>3, <2>2 DEF Refuse
    <2>3. ASSUME NEW c \in Reached \ Get, Change(c) PROVE Lists'
      <3>1. PICK raised \in BOOLEAN :
              /\ ~ raised => c \in Through
              /\ \A x \in cache' : \E y \in cache : Outlives(x, y, c, raised)
        BY <1>3, <2>3, ChangeLeaves
      <3>2. ASSUME NEW u \in UserId, NEW x \in cache', x.key = ItemsKey(u)
            PROVE  x.stale \subseteq {"raised"}
        <4>1. PICK y \in cache : Outlives(x, y, c, raised)
          BY <3>1
        <4>2. y.key = ItemsKey(u) /\ y.stale \subseteq {"raised"}
          BY <1>3, <3>2, <4>1 DEF Outlives
        <4>3. CASE raised \/ y.of \cap Touches[c] = {}
          BY <4>1, <4>2, <4>3 DEF Outlives, Mark
        <4>4. CASE ~ raised /\ y.of \cap Touches[c] # {}
          <5>1. PICK d \in Get : Key[d] = ItemsKey(u) /\ Depends[d] = y.of
            BY <1>3, <4>2 DEF MadeByGet
          <5>2. PICK v \in UserId : \/ c \in ItemWrites(v) /\ d \in ItemReads(v)
                                    \/ c \in PostWrites(v) /\ d \in PostReads(v)
            BY <4>4, <5>1, ConcernsOneUser
          <5>3. d = read_user_items(v) /\ u = v
            <6>1. \/ Key[d] = ItemsKey(v) /\ d = read_user_items(v)
                  \/ \E p, id : Key[d] = PageKey(v, p, id)
                  \/ Key[d] = PostKey(v)
              BY <5>2, KeysOfGets
            <6>2. /\ Len(ItemsKey(u)) = 3 /\ ItemsKey(u)[3] = u
                  /\ ItemsKey(v)[3] = v
                  /\ \A p, id : Len(PageKey(v, p, id)) = 7
                  /\ Len(PostKey(v)) = 6
              BY KeyTexts
            <6> QED
              BY <5>1, <6>1, <6>2
          <5>4. c = update_item(u)
            <6>1. d \in PostReads(v) => Key[d] = PostKey(v)
              BY KeysOfGets
            <6>2. Len(PostKey(v)) = 6 /\ Len(ItemsKey(u)) = 3
              BY KeyTexts
            <6>3. c \in ItemWrites(u)
              BY <5>1, <5>2, <5>3, <6>1, <6>2
            <6> QED
              BY <3>1, <4>4, <6>3, RenameRaises DEF ItemWrites
          <5>5. CanFormatExtra(c.endpoint.extra, c.kw)
            BY <3>1, <4>4 DEF Through, Completes
          <5>6. ItemsKey(u) \in ExtraKeys(c.endpoint.extra, c.kw)
            BY <5>4, UpdateDeletesList DEF ItemsKey
          <5>7. y.key \in Deletes[c]
            BY <4>2, <5>5, <5>6 DEF Deletes, Deleted
          <5> QED
            BY <4>1, <5>7 DEF Outlives
        <4> QED
          BY <4>3, <4>4
      <3> QED
        BY <3>2
    <2>4. ASSUME NEW x \in cache, Expire(x) PROVE Lists'
      BY <1>3, <2>4 DEF Expire
    <2>5. CASE UNCHANGED vars
      BY <1>3, <2>5 DEF vars
    <2> QED
      BY <1>3, <2>1, <2>2, <2>3, <2>4, <2>5 DEF Next
  <1> HIDE DEF Lists
  <1> QED
    BY <1>1, <1>2, <1>3, MadeByGetStep, TypeCorrect, PTL DEF Spec
=============================================================================
