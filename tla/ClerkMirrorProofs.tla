--------------------------- MODULE ClerkMirrorProofs ---------------------------
(***************************************************************************)
(* What the table agrees with Clerk on, for any number of users, requests  *)
(* and events, when events come in order and no database call raises.      *)
(***************************************************************************)
EXTENDS ClerkWebhookProofs

(* Each user's events are acked in order.                                  *)
AckedInOrder ==
  /\ acked \subseteq emitted
  /\ \A m \in acked : Earlier(m) \subseteq acked

(* What a user's events say of the account: they are numbered, the first   *)
(* creates it, at most the last deletes it, and the last of the others     *)
(* names its email.                                                        *)
EventsDistinct ==
  \A m, n \in emitted : m.user = n.user /\ m.seq = n.seq => m = n

CreatedFirst ==
  /\ \A u \in User : clerk[u].state = "absent" => clerk[u].count = 0
  /\ \A m \in emitted : m.type = "created" => m.seq = 1

DeletedLast ==
  \A m \in emitted : m.type = "deleted" =>
    clerk[m.user].state = "deleted" /\ m.seq = clerk[m.user].count

ClerkDeletes ==
  \A u \in User : clerk[u].state = "deleted" =>
    \E m \in emitted : m.user = u /\ m.type = "deleted"

IsLatest(m) ==
  /\ m.type # "deleted"
  /\ \A n \in emitted : n.user = m.user /\ n.type # "deleted" => n.seq <= m.seq

ClerkTells ==
  \A u \in User : clerk[u].state # "absent" =>
    \E m \in emitted : m.user = u /\ m.email = clerk[u].email /\ IsLatest(m)

ClerkInv ==
  EventsDistinct /\ CreatedFirst /\ DeletedLast /\ ClerkDeletes /\ ClerkTells

(* A row holds the data of one event, not older than any that was acked.   *)
RowFromEvent ==
  \A u \in User : users[u].state # "absent" =>
    \E p \in emitted : /\ p.user = u /\ p.seq = users[u].profile
                       /\ p.type # "deleted"
                       /\ p.email # NoEmail => users[u].email = p.email

RowsNotBehind ==
  \A m \in acked : m.type # "deleted" /\ users[m.user].state # "absent" =>
    m.seq <= users[m.user].profile

RowsDeletedInClerk ==
  \A u \in User : users[u].state = "deleted" => clerk[u].state = "deleted"

RowsInv == RowFromEvent /\ RowsNotBehind /\ RowsDeletedInClerk

(* A 200 under way to Svix is true.                                        *)
Done(h) == handler[h] # Idle /\ handler[h].step = "respond" /\ handler[h].code = 200

TrueOf(m) ==
  /\ m.type = "deleted" => users[m.user].state # "active"
  /\ m.type = "updated" => m.seq <= users[m.user].profile

AnswersTrue == \A h \in Handler : Done(h) => TrueOf(handler[h].event)

UpdatesFit ==
  \A h \in Handler :
    handler[h] # Idle /\ handler[h].step \in {"update_get", "update_apply"}
      => handler[h].event.type = "updated"

(* What an acked user.deleted promises, without the premise.              *)
DeletesEffective ==
  \A m \in acked : m.type = "deleted" => users[m.user].state # "active"

MirrorInv ==
  /\ OrderInv /\ UpdateInv /\ UpdatesFit
  /\ AckedInOrder /\ ClerkInv /\ RowsInv /\ AnswersTrue /\ DeletesEffective

-----------------------------------------------------------------------------
(* Two requests never work for one user, nor does any work for a user      *)
(* whose user.deleted is acked.                                            *)
LEMMA OneHandlerPerUser ==
  ASSUME MirrorInv, NEW h \in Handler, handler[h] # Idle
  PROVE  /\ handler[h].event \in emitted \ acked
         /\ handler[h].event \in Event
         /\ \A g \in Handler :
              handler[g] # Idle /\ handler[g].event.user = handler[h].event.user
                => g = h
         /\ \A a \in acked : a.user = handler[h].event.user =>
              a.type # "deleted" /\ a.seq <= handler[h].event.seq
<1> USE DEF MirrorInv, OrderInv, RowInv, ClerkInv
<1>1. \A g \in Handler : handler[g] # Idle =>
        /\ handler[g].event \in emitted \ acked
        /\ Earlier(handler[g].event) \subseteq acked
  BY DEF InFlight
<1>2. \A m \in emitted : m \in Event /\ m.seq \in Nat /\ m.user \in User
  BY DEF TypeOK, Event
<1>3. ASSUME NEW g \in Handler, handler[g] # Idle,
             handler[g].event.user = handler[h].event.user
      PROVE  g = h
  <2>1. handler[g].event.seq = handler[h].event.seq
    BY <1>1, <1>2, <1>3 DEF Earlier
  <2> QED
    BY <1>1, <1>3, <2>1 DEF EventsDistinct, OneAttempt
<1>4. ASSUME NEW a \in acked, a.user = handler[h].event.user
      PROVE  a.type # "deleted" /\ a.seq <= handler[h].event.seq
  <2>1. a \in emitted /\ handler[h].event \notin Earlier(a)
    BY <1>1 DEF AckedInOrder
  <2>2. a.seq <= handler[h].event.seq
    BY <1>1, <1>2, <1>4, <2>1 DEF Earlier
  <2>3. a.seq # handler[h].event.seq
    BY <1>1, <1>4, <2>1 DEF EventsDistinct
  <2>4. handler[h].event.seq <= clerk[a.user].count /\ clerk[a.user].count \in Nat
    BY <1>1, <1>2, <1>4, <2>1, ConstantsAssumption DEF SeqBound, TypeOK, Account
  <2> QED
    BY <1>1, <1>2, <2>1, <2>2, <2>3, <2>4 DEF DeletedLast
<1> QED
  BY <1>1, <1>2, <1>3, <1>4

(* A step of Clerk's.                                                      *)
LEMMA ClerkKeepsMirror ==
  ASSUME MirrorInv, ClerkStep, OrderInv', UpdateInv'
  PROVE  MirrorInv'
<1> USE DEF MirrorInv, OrderInv, RowInv, ClerkInv
<1>1. PICK u \in User, t \in {"created", "updated", "deleted"},
           e \in AnyEmail, d \in {"fit", "unfit"} :
        /\ Emit(u, t, e, d)
        /\ clerk'[u].count = clerk[u].count + 1
        /\ \A v \in User \ {u} : clerk'[v] = clerk[v]
        /\ clerk[u].state = IF t = "created" THEN "absent" ELSE "active"
        /\ clerk'[u].state = IF t = "deleted" THEN "deleted" ELSE "active"
        /\ clerk'[u].email = IF t = "deleted" THEN clerk[u].email ELSE e
  <2> DEFINE Told(u, t, e, d) ==
        /\ Emit(u, t, e, d)
        /\ clerk'[u].count = clerk[u].count + 1
        /\ \A v \in User \ {u} : clerk'[v] = clerk[v]
        /\ clerk[u].state = IF t = "created" THEN "absent" ELSE "active"
        /\ clerk'[u].state = IF t = "deleted" THEN "deleted" ELSE "active"
        /\ clerk'[u].email = IF t = "deleted" THEN clerk[u].email ELSE e
  <2>1. ASSUME NEW u \in User, NEW e \in AnyEmail, NEW d \in {"fit", "unfit"},
               ClerkCreate(u, e, d)
        PROVE  Told(u, "created", e, d)
    BY <2>1 DEF ClerkCreate, TypeOK, Account
  <2>2. ASSUME NEW u \in User, NEW e \in AnyEmail, NEW d \in {"fit", "unfit"},
               ClerkUpdate(u, e, d)
        PROVE  Told(u, "updated", e, d)
    BY <2>2 DEF ClerkUpdate, TypeOK, Account
  <2>3. ASSUME NEW u \in User, ClerkDelete(u)
        PROVE  Told(u, "deleted", NoEmail, "fit")
    BY <2>3 DEF ClerkDelete, TypeOK, Account
  <2>4. \E u \in User, t \in {"created", "updated", "deleted"},
           e \in AnyEmail, d \in {"fit", "unfit"} : Told(u, t, e, d)
    <3> HIDE DEF Told
    <3> QED
      BY <2>1, <2>2, <2>3 DEF ClerkStep, AnyEmail
  <2> QED
    BY <2>4
<1>2. PICK m : m = [user |-> u, seq |-> clerk[u].count + 1, type |-> t,
                    email |-> e, data |-> d]
  OBVIOUS
<1>2a. /\ emitted' = emitted \cup {m}
      /\ UNCHANGED <<acked, users, handler, awaiting>>
  BY <1>1, <1>2 DEF Emit
<1>3. \A n \in emitted : n.user \in User /\ n.seq \in Nat
  BY DEF TypeOK, Event
<1>4. \A v \in User : clerk[v].count \in Nat
  BY ConstantsAssumption DEF TypeOK, Account
<1>5. /\ m.user = u /\ m.seq = clerk[u].count + 1 /\ m.type = t /\ m.email = e
  BY <1>2
<1>6. \A n \in emitted : n.user = u => n.seq < m.seq
  BY <1>3, <1>4, <1>5 DEF SeqBound
<1>7. AckedInOrder'
  <2>1. ASSUME NEW a \in acked
        PROVE  a \in emitted /\ ~ (m.user = a.user /\ m.seq < a.seq)
    <3>1. a \in emitted /\ m.seq \in Nat /\ a.seq \in Nat
      BY <1>3, <1>4, <1>5 DEF AckedInOrder
    <3> QED
      BY <1>5, <1>6, <3>1
  <2> QED
    BY <1>2a, <2>1 DEF AckedInOrder, Earlier
<1>8. EventsDistinct'
  BY <1>2a, <1>3, <1>4, <1>5, <1>6 DEF EventsDistinct
<1>9. CreatedFirst'
  BY <1>1, <1>2a, <1>5 DEF CreatedFirst
<1>10. DeletedLast'
  BY <1>1, <1>2a, <1>3, <1>5 DEF DeletedLast
<1>11. ClerkDeletes'
  BY <1>1, <1>2a, <1>5 DEF ClerkDeletes
<1>12. ASSUME NEW v \in User, clerk'[v].state # "absent"
       PROVE  \E n \in emitted' :
                n.user = v /\ n.email = clerk'[v].email /\ IsLatest(n)'
  <2>1. CASE v = u /\ t # "deleted"
    <3>1. IsLatest(m)'
      BY <1>2a, <1>3, <1>4, <1>5, <1>6, <2>1 DEF IsLatest
    <3> QED
      BY <1>1, <1>2a, <1>5, <2>1, <3>1
  <2>2. CASE v # u \/ t = "deleted"
    <3>1. PICK n \in emitted : n.user = v /\ n.email = clerk[v].email /\ IsLatest(n)
      BY <1>1, <1>12, <2>2 DEF ClerkTells
    <3>2. IsLatest(n)'
      BY <1>2a, <1>5, <2>2, <3>1 DEF IsLatest
    <3> QED
      BY <1>1, <1>2a, <2>2, <3>1, <3>2
  <2> QED
    BY <2>1, <2>2
<1>13. RowsInv'
  BY <1>1, <1>2a DEF RowsInv, RowFromEvent, RowsNotBehind, RowsDeletedInClerk
<1>14. (UpdatesFit /\ AnswersTrue /\ DeletesEffective)'
  BY <1>2a DEF UpdatesFit, AnswersTrue, Done, TrueOf, DeletesEffective
<1> QED
  BY <1>7, <1>8, <1>9, <1>10, <1>11, <1>12, <1>13, <1>14 DEF ClerkTells

(* Steps that leave the table and the acks alone, and no new 200.          *)
LEMMA QuietKeepsMirror ==
  ASSUME MirrorInv, UNCHANGED <<clerk, emitted, acked, users>>, OrderInv', UpdateInv',
         UpdatesFit', \A h \in Handler : Done(h)' => handler'[h] = handler[h]
  PROVE  MirrorInv'
<1>1. AckedInOrder' /\ ClerkInv'
  BY DEF MirrorInv, AckedInOrder, Earlier, ClerkInv, EventsDistinct, CreatedFirst,
         DeletedLast, ClerkDeletes, ClerkTells, IsLatest
<1>2. RowsInv' /\ DeletesEffective'
  BY DEF MirrorInv, RowsInv, RowFromEvent, RowsNotBehind, RowsDeletedInClerk,
         DeletesEffective
<1>3. AnswersTrue'
  BY DEF MirrorInv, AnswersTrue, Done, TrueOf
<1> QED
  BY <1>1, <1>2, <1>3 DEF MirrorInv

(* An answer reaches Svix: what it acks is true.                           *)
LEMMA RespondKeepsMirror ==
  ASSUME MirrorInv, NEW h \in Handler, Respond(h), OrderInv', UpdateInv'
  PROVE  MirrorInv'
<1> DEFINE m == handler[h].event
<1>1. /\ UNCHANGED <<clerk, emitted, users>>
      /\ handler'[h] = Idle
      /\ \A g \in Handler \ {h} : handler'[g] = handler[g]
      /\ handler[h] # Idle
      /\ \/ acked' = acked
         \/ acked' = acked \cup {m} /\ Done(h)
  BY BusyHandler DEF Respond, At, TypeOK, MirrorInv, OrderInv, RowInv, Done
<1>2. m \in emitted /\ m \in Event /\ Earlier(m) \subseteq acked
  BY <1>1, OneHandlerPerUser DEF MirrorInv, OrderInv, InFlight
<1>3. Done(h) => TrueOf(m)
  BY DEF MirrorInv, AnswersTrue
<1>4. Done(h) /\ m.type # "deleted" /\ users[m.user].state # "absent" =>
        m.seq <= users[m.user].profile
  <2>1. CASE m.type = "created"
    <3>1. m.seq = 1
      BY <1>2, <2>1 DEF MirrorInv, ClerkInv, CreatedFirst
    <3>2. users[m.user].state # "absent" => users[m.user].profile \in 1..MaxEvents
      BY <1>2 DEF MirrorInv, RowsInv, RowFromEvent, OrderInv, RowInv, TypeOK, Event
    <3> QED
      BY <3>1, <3>2, ConstantsAssumption
  <2> QED
    BY <1>2, <1>3, <2>1 DEF TrueOf, Event
<1> HIDE DEF m
<1>5. AckedInOrder' /\ ClerkInv'
  BY <1>1, <1>2 DEF MirrorInv, AckedInOrder, Earlier, ClerkInv, EventsDistinct,
       CreatedFirst, DeletedLast, ClerkDeletes, ClerkTells, IsLatest
<1>6. RowsInv' /\ DeletesEffective'
  BY <1>1, <1>3, <1>4 DEF MirrorInv, RowsInv, RowFromEvent, RowsNotBehind,
       RowsDeletedInClerk, DeletesEffective, TrueOf
<1>7. AnswersTrue' /\ UpdatesFit'
  BY <1>1 DEF MirrorInv, AnswersTrue, UpdatesFit, Done, TrueOf
<1> QED
  BY <1>5, <1>6, <1>7 DEF MirrorInv

(* The statements of a handler: what it leaves in the row of its event.    *)
LEMMA GoesOnTellsTruth ==
  ASSUME "db" \notin faults, MirrorInv, NEW h \in Handler, HandlerGoesOn(h)
  PROVE  LET m == handler[h].event IN
           /\ UNCHANGED <<clerk, emitted, acked>>
           /\ handler[h] # Idle
           /\ \A g \in Handler \ {h} : handler'[g] = handler[g]
           /\ \A v \in User \ {m.user} : users'[v] = users[v]
           /\ \/ users'[m.user] = users[m.user]
              \/ /\ m.type # "deleted"
                 /\ users'[m.user].profile = m.seq
                 /\ m.email # NoEmail => users'[m.user].email = m.email
                 /\ users'[m.user].state = "deleted"
                      => users[m.user].state = "deleted"
              \/ /\ m.type = "deleted"
                 /\ users[m.user].state # "absent"
                 /\ users'[m.user] = [users[m.user] EXCEPT !.state = "deleted"]
           /\ Done(h)' => TrueOf(handler[h].event)'
           /\ handler'[h].event = m
           /\ handler'[h].step \in {"update_get", "update_apply"}
                => m.type = "updated"
<1> DEFINE m == handler[h].event
<1>0. /\ TypeOK /\ TypeOK'
      /\ UNCHANGED <<clerk, emitted, acked>>
      /\ handler[h] # Idle
      /\ m \in Event /\ m.user \in User /\ m.seq \in Nat
  BY TypeStep, GoesOnKeepsEvents, OneHandlerPerUser
     DEF MirrorInv, OrderInv, RowInv, HandlerGoesOn, Next, HandlerStep, Event
<1>1. users[m.user] \in Row
  BY <1>0 DEF TypeOK
<1>2. CASE ProcessUserCreated(h)
  <2>1. m.type = "created" /\ handler[h].step = "create"
    BY <1>0, <1>2 DEF MirrorInv, UpdateInv, StepFitsType, ProcessUserCreated, At
  <2> QED
    BY <1>0, <1>1, <1>2, <2>1 DEF ProcessUserCreated, Answer, Insert, Done, TrueOf,
         TypeOK, Row
<1>3. CASE UpdateGet(h)
  <2>1. m.type = "updated"
    BY <1>0, <1>3 DEF MirrorInv, UpdatesFit, UpdateGet, At
  <2> QED
    BY <1>0, <1>3, <2>1 DEF UpdateGet, Answer, Goto, Done, TypeOK
<1>4. CASE UpdateApply(h)
  <2>1. m.type = "updated"
    BY <1>0, <1>4 DEF MirrorInv, UpdatesFit, UpdateApply, At
  <2> QED
    BY <1>0, <1>1, <1>4, <2>1 DEF UpdateApply, Answer, Update, Done, TrueOf,
         TypeOK, Row
<1>5. CASE DeleteGet(h)
  <2>1. m.type = "deleted"
    BY <1>0, <1>5 DEF MirrorInv, UpdateInv, StepFitsType, DeleteGet, At
  <2> QED
    BY <1>0, <1>5, <2>1 DEF DeleteGet, Answer, Goto, Done, TrueOf, TypeOK
<1>6. CASE DeleteApply(h)
  <2>1. m.type = "deleted" /\ users[m.user].state # "absent"
    BY <1>0, <1>6 DEF MirrorInv, UpdateInv, StepFitsType, DeleteApply, At,
         OrderInv, RowInv
  <2> QED
    BY <1>0, <1>1, <1>6, <2>1 DEF DeleteApply, Answer, SoftDelete, Done, TrueOf,
         TypeOK, Row
<1> QED
  BY <1>2, <1>3, <1>4, <1>5, <1>6 DEF HandlerGoesOn

LEMMA GoesOnKeepsMirror ==
  ASSUME "db" \notin faults, MirrorInv, NEW h \in Handler, HandlerGoesOn(h),
         OrderInv', UpdateInv'
  PROVE  MirrorInv'
<1>0. PICK m : m = handler[h].event
  OBVIOUS
<1>1. /\ UNCHANGED <<clerk, emitted, acked>>
      /\ handler[h] # Idle
      /\ \A g \in Handler \ {h} : handler'[g] = handler[g]
      /\ \A v \in User \ {m.user} : users'[v] = users[v]
      /\ Done(h)' => TrueOf(m)'
      /\ handler'[h].event = m
      /\ handler'[h].step \in {"update_get", "update_apply"} => m.type = "updated"
  BY <1>0, GoesOnTellsTruth
<1>2. \/ users'[m.user] = users[m.user]
      \/ /\ m.type # "deleted"
         /\ users'[m.user].profile = m.seq
         /\ m.email # NoEmail => users'[m.user].email = m.email
         /\ users'[m.user].state = "deleted" => users[m.user].state = "deleted"
      \/ /\ m.type = "deleted"
         /\ users[m.user].state # "absent"
         /\ users'[m.user] = [users[m.user] EXCEPT !.state = "deleted"]
  BY <1>0, GoesOnTellsTruth
<1>3. /\ m \in emitted \ acked /\ m \in Event /\ m.user \in User
      /\ \A g \in Handler : handler[g] # Idle /\ handler[g].event.user = m.user => g = h
      /\ \A a \in acked : a.user = m.user => a.type # "deleted" /\ a.seq <= m.seq
  BY <1>0, <1>1, OneHandlerPerUser DEF Event
<1>4. users[m.user] \in Row /\ \A a \in acked : a.user \in User
  BY <1>3 DEF MirrorInv, OrderInv, RowInv, TypeOK, Event
<1>5. \A g \in Handler : handler[g] # Idle => handler[g].event.user \in User
  BY OneHandlerPerUser DEF Event
<1>6. AckedInOrder' /\ ClerkInv'
  BY <1>1 DEF MirrorInv, AckedInOrder, Earlier, ClerkInv, EventsDistinct,
       CreatedFirst, DeletedLast, ClerkDeletes, ClerkTells, IsLatest
<1>7. RowFromEvent'
  BY <1>1, <1>2, <1>3, <1>4 DEF MirrorInv, RowsInv, RowFromEvent, Row
<1>8. RowsNotBehind'
  BY <1>1, <1>2, <1>3, <1>4 DEF MirrorInv, RowsInv, RowsNotBehind, Row
<1>9. RowsDeletedInClerk'
  BY <1>1, <1>2, <1>3, <1>4
     DEF MirrorInv, RowsInv, RowsDeletedInClerk, ClerkInv, DeletedLast, Row
<1>10. AnswersTrue'
  BY <1>1, <1>3, <1>5 DEF MirrorInv, AnswersTrue, Done, TrueOf
<1>11. UpdatesFit'
  BY <1>1 DEF MirrorInv, UpdatesFit
<1>12. DeletesEffective'
  BY <1>1, <1>3, <1>4 DEF MirrorInv, DeletesEffective
<1> QED
  BY <1>6, <1>7, <1>8, <1>9, <1>10, <1>11, <1>12 DEF MirrorInv, RowsInv

LEMMA MirrorInvStep ==
  ASSUME Calm, MirrorInv, [Next]_vars
  PROVE  MirrorInv'
<1>0. OrderInv' /\ UpdateInv' /\ TypeOK
  BY OrderInvStep, UpdateInvStep DEF Calm, MirrorInv, OrderInv, RowInv
<1>1. ASSUME NEW h \in Handler, NEW m \in emitted, Deliver(h, m) \/ Reject(h, m)
      PROVE  MirrorInv'
  <2>1. /\ UNCHANGED <<clerk, emitted, acked, users>>
        /\ \A g \in Handler \ {h} : handler'[g] = handler[g]
        /\ ~ Done(h)'
        /\ handler'[h].step \in {"update_get", "update_apply"}
             => handler'[h].event.type = "updated"
    BY <1>0, <1>1 DEF Deliver, Reject, FirstStep, Done, TypeOK, Event
  <2>2. UpdatesFit'
    BY <2>1 DEF MirrorInv, UpdatesFit
  <2> QED
    BY <1>0, <2>1, <2>2, QuietKeepsMirror
<1>2. ASSUME NEW h \in Handler, WorkerCrash(h)
      PROVE  MirrorInv'
  <2>1. /\ UNCHANGED <<clerk, emitted, acked, users>>
        /\ \A g \in Handler \ {h} : handler'[g] = handler[g]
        /\ handler'[h] = Idle
    BY <1>0, <1>2 DEF WorkerCrash, TypeOK
  <2> QED
    BY <1>0, <2>1, QuietKeepsMirror DEF MirrorInv, UpdatesFit, Done
<1>3. CASE UNCHANGED vars
  BY <1>0, <1>3, QuietKeepsMirror DEF vars, MirrorInv, UpdatesFit
<1> QED
  BY <1>0, <1>1, <1>2, <1>3, ClerkKeepsMirror, RespondKeepsMirror, GoesOnKeepsMirror
     DEF Next, HandlerStep, DeliveryStep, HandlerGoesOn, Timeout, Calm, InOrder

LEMMA MirrorInvInit == Init => MirrorInv
<1> SUFFICES ASSUME Init PROVE MirrorInv
  OBVIOUS
<1>1. OrderInv
  BY RowInvInit DEF Init, OrderInv, InFlight, OneAttempt, SeqBound, RowsNotAhead
<1>2. UpdateInv /\ UpdatesFit /\ AnswersTrue
  BY <1>1 DEF Init, OrderInv, RowInv, UpdateInv, UpdateAnswers, StepFitsType,
       AckedUpdateApplied, UpdatesFit, AnswersTrue, Done
<1>3. AckedInOrder /\ RowsInv /\ DeletesEffective
  BY DEF Init, AckedInOrder, RowsInv, RowFromEvent, RowsNotBehind, RowsDeletedInClerk,
       DeletesEffective
<1>4. ClerkInv
  BY DEF Init, ClerkInv, EventsDistinct, CreatedFirst, DeletedLast, ClerkDeletes,
       ClerkTells
<1> QED
  BY <1>1, <1>2, <1>3, <1>4 DEF MirrorInv

-----------------------------------------------------------------------------
(* Once a user.deleted is answered 200 no active row of that user is left  *)
(* or comes back, with any crashes and rejected attempts in between.       *)
THEOREM AckedDeletesHold == Spec => []AckedDeleteEffective
<1> DEFINE Inv == Calm => MirrorInv
<1>1. Inv /\ [Next]_vars => Inv'
  BY MirrorInvStep, FaultsFixed DEF Calm, InOrder
<1>2. Inv => AckedDeleteEffective
  BY DEF MirrorInv, DeletesEffective, AckedDeleteEffective
<1>3. Init => Inv
  BY MirrorInvInit
<1> QED
  BY <1>1, <1>2, <1>3, PTL DEF Spec

(* Once every event of a user is acked, a row that was created has the     *)
(* state and the email Clerk has.                                          *)
THEOREM TableMirrorsClerk == Spec => []Mirrored
<1> DEFINE Inv == Calm => MirrorInv
<1>1. Inv /\ [Next]_vars => Inv'
  BY MirrorInvStep, FaultsFixed DEF Calm, InOrder
<1>2. Inv => Mirrored
  <2> SUFFICES ASSUME Calm, MirrorInv, NEW u \in User, users[u].state # "absent",
                      {m \in emitted : m.user = u} \subseteq acked
               PROVE  /\ users[u].state = clerk[u].state
                      /\ clerk[u].email # NoEmail => users[u].email = clerk[u].email
    BY DEF Mirrored
  <2> USE DEF MirrorInv, OrderInv, RowInv, ClerkInv, RowsInv
  <2>1. PICK p \in emitted : /\ p.user = u /\ p.seq = users[u].profile
                             /\ p.type # "deleted"
                             /\ p.email # NoEmail => users[u].email = p.email
    BY DEF RowFromEvent
  <2>2. /\ \A n \in emitted : n.seq \in 1..MaxEvents
        /\ clerk[u].count \in Nat /\ clerk[u].state \in RowState
        /\ users[u].state \in RowState /\ users[u].profile \in Nat
    BY ConstantsAssumption DEF TypeOK, Account, Row, Event
  <2>3. clerk[u].state # "absent"
    BY <2>1, <2>2, ConstantsAssumption DEF CreatedFirst, SeqBound
  <2>4. users[u].state = clerk[u].state
    <3>1. clerk[u].state = "deleted" => users[u].state # "active"
      BY DEF ClerkDeletes, DeletesEffective
    <3> QED
      BY <2>2, <2>3, <3>1 DEF RowsDeletedInClerk, RowState
  <2>5. PICK q \in emitted : q.user = u /\ q.email = clerk[u].email /\ IsLatest(q)
    BY <2>3 DEF ClerkTells
  <2>6. q.seq <= users[u].profile
    BY <2>5 DEF RowsNotBehind, IsLatest
  <2>7. p.seq <= q.seq
    BY <2>1, <2>5 DEF IsLatest
  <2>8. p = q
    BY <2>1, <2>2, <2>5, <2>6, <2>7, ConstantsAssumption DEF EventsDistinct
  <2> QED
    BY <2>1, <2>4, <2>5, <2>8
<1>3. Init => Inv
  BY MirrorInvInit
<1> QED
  BY <1>1, <1>2, <1>3, PTL DEF Spec
=============================================================================
