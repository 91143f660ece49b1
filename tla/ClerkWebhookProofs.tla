-------------------------- MODULE ClerkWebhookProofs --------------------------
(***************************************************************************)
(* What holds of the webhook endpoint for any number of users, addresses,  *)
(* requests in flight, events and any set of faults.                       *)
(***************************************************************************)
EXTENDS ClerkWebhook, TLAPS

(* A handler that is at some step works on an attempt.                     *)
LEMMA BusyHandler ==
  ASSUME TypeOK, NEW h \in Handler, handler[h].step # "idle"
  PROVE  /\ handler[h] \in Attempt
         /\ handler[h].event \in Event
         /\ handler[h] # Idle
  BY DEF TypeOK, Idle, Attempt

(* The endpoint's own steps keep every handler at work on an attempt.      *)
LEMMA AnswerTyped ==
  ASSUME TypeOK, NEW h \in Handler, handler[h].step # "idle",
         NEW c \in {200, 404, 500}, Answer(h, c)
  PROVE  /\ handler' \in [Handler -> Attempt \cup {Idle}]
         /\ \A g \in Handler : handler[g] # Idle => handler'[g] # Idle
<1> DEFINE a == [event |-> handler[h].event, step |-> "respond", code |-> c]
<1>1. a \in Attempt /\ a # Idle
  BY BusyHandler DEF Attempt, Idle
<1> QED
  BY <1>1 DEF TypeOK, Answer

LEMMA GotoTyped ==
  ASSUME TypeOK, NEW h \in Handler, handler[h].step # "idle",
         NEW s \in {"update_apply", "delete_apply"}, Goto(h, s)
  PROVE  /\ handler' \in [Handler -> Attempt \cup {Idle}]
         /\ \A g \in Handler : handler[g] # Idle => handler'[g] # Idle
<1> DEFINE a == [event |-> handler[h].event, step |-> s, code |-> 0]
<1>1. a \in Attempt /\ a # Idle
  BY BusyHandler DEF Attempt, Idle
<1> QED
  BY <1>1 DEF TypeOK, Goto

(* Type correctness is inductive as it stands.                             *)
LEMMA TypeStep == TypeOK /\ [Next]_vars => TypeOK'
<1> SUFFICES ASSUME TypeOK, [Next]_vars PROVE TypeOK'
  OBVIOUS
<1>1. ASSUME NEW u \in User, NEW e \in AnyEmail, NEW d \in {"fit", "unfit"},
             ClerkCreate(u, e, d)
      PROVE  TypeOK'
  <2>1. clerk[u].count + 1 \in 1..MaxEvents
    BY <1>1, ConstantsAssumption DEF ClerkCreate, Emit, Account, TypeOK
  <2>2. clerk' \in [User -> Account]
    BY <1>1, <2>1, ConstantsAssumption DEF ClerkCreate, Account, RowState, TypeOK
  <2>3. emitted' \subseteq Event /\ emitted \subseteq emitted'
    BY <1>1, <2>1 DEF ClerkCreate, Emit, Event, TypeOK
  <2> QED
    BY <1>1, <2>2, <2>3 DEF ClerkCreate, Emit, TypeOK
<1>2. ASSUME NEW u \in User, NEW e \in AnyEmail, NEW d \in {"fit", "unfit"},
             ClerkUpdate(u, e, d)
      PROVE  TypeOK'
  <2>1. clerk[u].count + 1 \in 1..MaxEvents
    BY <1>2, ConstantsAssumption DEF ClerkUpdate, Emit, Account, TypeOK
  <2>2. clerk' \in [User -> Account]
    BY <1>2, <2>1, ConstantsAssumption DEF ClerkUpdate, Account, RowState, TypeOK
  <2>3. emitted' \subseteq Event /\ emitted \subseteq emitted'
    BY <1>2, <2>1 DEF ClerkUpdate, Emit, Event, TypeOK
  <2> QED
    BY <1>2, <2>2, <2>3 DEF ClerkUpdate, Emit, TypeOK
<1>3. ASSUME NEW u \in User, ClerkDelete(u)
      PROVE  TypeOK'
  <2>1. clerk[u].count + 1 \in 1..MaxEvents
    BY <1>3, ConstantsAssumption DEF ClerkDelete, Emit, Account, TypeOK
  <2>2. clerk' \in [User -> Account]
    BY <1>3, <2>1, ConstantsAssumption DEF ClerkDelete, Account, RowState, TypeOK
  <2>3. emitted' \subseteq Event /\ emitted \subseteq emitted'
    BY <1>3, <2>1 DEF ClerkDelete, Emit, Event, AnyEmail, TypeOK
  <2> QED
    BY <1>3, <2>2, <2>3 DEF ClerkDelete, Emit, TypeOK
<1>4. ASSUME NEW h \in Handler, NEW m \in emitted, Deliver(h, m) \/ Reject(h, m)
      PROVE  TypeOK'
  <2> DEFINE New(s, c) == [event |-> m, step |-> s, code |-> c]
  <2>1. FirstStep(m) \in {"create", "update_get", "delete_get"}
    BY DEF FirstStep, Event, TypeOK
  <2>2. /\ New(FirstStep(m), 0) \in Attempt /\ New("respond", 400) \in Attempt
        /\ New(FirstStep(m), 0) # Idle /\ New("respond", 400) # Idle
    BY <2>1 DEF Attempt, TypeOK, Idle
  <2> QED
    BY <1>4, <2>2 DEF Deliver, Reject, TypeOK
<1>5. ASSUME NEW h \in Handler, Timeout(h) \/ WorkerCrash(h)
      PROVE  TypeOK'
  BY <1>5 DEF Timeout, WorkerCrash, TypeOK
<1>6. ASSUME NEW h \in Handler, ProcessUserCreated(h)
      PROVE  TypeOK'
  <2>1. handler[h].event \in Event
    BY <1>6, BusyHandler DEF ProcessUserCreated, At
  <2>2. /\ handler' \in [Handler -> Attempt \cup {Idle}]
        /\ \A g \in Handler : handler[g] # Idle => handler'[g] # Idle
    BY <1>6, AnswerTyped DEF ProcessUserCreated, At
  <2>3. users' \in [User -> Row]
    BY <1>6, <2>1 DEF ProcessUserCreated, Insert, Row, RowState, Event, TypeOK
  <2> QED
    BY <1>6, <2>1, <2>2, <2>3 DEF ProcessUserCreated, Insert, TypeOK
<1>7. ASSUME NEW h \in Handler, UpdateGet(h) \/ DeleteGet(h)
      PROVE  TypeOK'
  BY <1>7, AnswerTyped, GotoTyped DEF UpdateGet, DeleteGet, At, TypeOK
<1>8. ASSUME NEW h \in Handler, UpdateApply(h)
      PROVE  TypeOK'
  <2>1. handler[h].event \in Event
    BY <1>8, BusyHandler DEF UpdateApply, At
  <2>2. /\ handler' \in [Handler -> Attempt \cup {Idle}]
        /\ \A g \in Handler : handler[g] # Idle => handler'[g] # Idle
    <3>1. handler[h].step = "update_apply" /\ (Answer(h, 200) \/ Answer(h, 500))
      BY <1>8 DEF UpdateApply, At
    <3> QED
      BY <3>1, AnswerTyped
  <2>3. users' \in [User -> Row]
    BY <1>8, <2>1 DEF UpdateApply, Update, Row, RowState, Event, TypeOK
  <2>4. applied' \subseteq Event
    BY <1>8, <2>1 DEF UpdateApply, Update, TypeOK
  <2> QED
    BY <1>8, <2>2, <2>3, <2>4 DEF UpdateApply, TypeOK
<1>9. ASSUME NEW h \in Handler, DeleteApply(h)
      PROVE  TypeOK'
  <2>1. handler[h].event \in Event
    BY <1>9, BusyHandler DEF DeleteApply, At
  <2>2. /\ handler' \in [Handler -> Attempt \cup {Idle}]
        /\ \A g \in Handler : handler[g] # Idle => handler'[g] # Idle
    BY <1>9, AnswerTyped DEF DeleteApply, At
  <2>3. users' \in [User -> Row]
    BY <1>9, <2>1 DEF DeleteApply, SoftDelete, Row, RowState, Event, TypeOK
  <2> QED
    BY <1>9, <2>1, <2>2, <2>3 DEF DeleteApply, SoftDelete, TypeOK
<1>10. ASSUME NEW h \in Handler, Respond(h)
       PROVE  TypeOK'
  BY <1>10, BusyHandler DEF Respond, At, TypeOK
<1>11. CASE UNCHANGED vars
  BY <1>11 DEF vars, TypeOK
<1> QED
  BY <1>1, <1>2, <1>3, <1>4, <1>5, <1>6, <1>7, <1>8, <1>9, <1>10, <1>11
     DEF Next, ClerkStep, HandlerStep, DeliveryStep

(* Every variable keeps its type, whatever faults occur.                   *)
THEOREM TypeCorrect == Spec => []TypeOK
<1>1. Init => TypeOK
  BY ConstantsAssumption DEF Init, TypeOK, Account, Row, RowState, AnyEmail, Idle
<1> QED
  BY <1>1, TypeStep, PTL DEF Spec

(* Acked updates are never lost: a handler whose answer to user.updated is *)
(* 200 has committed the change, and only such an answer acks the event.   *)
UpdateAnswers ==
  \A h \in Handler :
    handler[h] # Idle /\ handler[h].step = "respond" /\ handler[h].code = 200
      /\ handler[h].event.type = "updated" => handler[h].event \in applied

(* A handler is at the steps of its own event's type.                      *)
StepFitsType ==
  \A h \in Handler :
    handler[h] # Idle =>
      /\ handler[h].step = "create" => handler[h].event.type = "created"
      /\ handler[h].step \in {"delete_get", "delete_apply"}
           => handler[h].event.type = "deleted"

UpdateInv == TypeOK /\ UpdateAnswers /\ StepFitsType /\ AckedUpdateApplied

LEMMA UpdateInvStep == UpdateInv /\ [Next]_vars => UpdateInv'
<1> SUFFICES ASSUME UpdateInv, [Next]_vars PROVE UpdateInv'
  OBVIOUS
<1> USE DEF UpdateInv
<1>0. TypeOK'
  BY TypeStep
<1>1. ASSUME ClerkStep
      PROVE  UpdateInv'
  <2>1. UNCHANGED <<handler, acked, applied>>
    BY <1>1 DEF ClerkStep, ClerkCreate, ClerkUpdate, ClerkDelete, Emit
  <2> QED
    BY <1>0, <2>1 DEF UpdateAnswers, StepFitsType, AckedUpdateApplied
<1>2. ASSUME NEW h \in Handler, NEW m \in emitted, Deliver(h, m) \/ Reject(h, m)
      PROVE  UpdateInv'
  <2>1. m \in Event
    BY DEF TypeOK
  <2> QED
    BY <1>0, <1>2, <2>1 DEF Deliver, Reject, FirstStep, Event, TypeOK,
                    UpdateAnswers, StepFitsType, AckedUpdateApplied
<1>3. ASSUME NEW h \in Handler, Timeout(h) \/ WorkerCrash(h)
      PROVE  UpdateInv'
  BY <1>0, <1>3 DEF Timeout, WorkerCrash, TypeOK,
                    UpdateAnswers, StepFitsType, AckedUpdateApplied
<1>4. ASSUME NEW h \in Handler, ProcessUserCreated(h)
      PROVE  UpdateInv'
  BY <1>0, <1>4, BusyHandler DEF ProcessUserCreated, Insert, Answer, At, TypeOK,
                    UpdateAnswers, StepFitsType, AckedUpdateApplied
<1>5. ASSUME NEW h \in Handler, UpdateGet(h)
      PROVE  UpdateInv'
  BY <1>0, <1>5, BusyHandler DEF UpdateGet, Goto, Answer, At, TypeOK,
                    UpdateAnswers, StepFitsType, AckedUpdateApplied
<1>6. ASSUME NEW h \in Handler, UpdateApply(h)
      PROVE  UpdateInv'
  BY <1>0, <1>6, BusyHandler DEF UpdateApply, Update, Answer, At, TypeOK,
                    UpdateAnswers, StepFitsType, AckedUpdateApplied
<1>7. ASSUME NEW h \in Handler, DeleteGet(h)
      PROVE  UpdateInv'
  BY <1>0, <1>7, BusyHandler DEF DeleteGet, Goto, Answer, At, TypeOK,
                    UpdateAnswers, StepFitsType, AckedUpdateApplied
<1>8. ASSUME NEW h \in Handler, DeleteApply(h)
      PROVE  UpdateInv'
  BY <1>0, <1>8, BusyHandler DEF DeleteApply, SoftDelete, Answer, At, TypeOK,
                    UpdateAnswers, StepFitsType, AckedUpdateApplied
<1>9. ASSUME NEW h \in Handler, Respond(h)
      PROVE  UpdateInv'
  BY <1>0, <1>9, BusyHandler DEF Respond, At, TypeOK, Idle,
                    UpdateAnswers, StepFitsType, AckedUpdateApplied
<1>10. CASE UNCHANGED vars
  BY <1>0, <1>10 DEF vars, UpdateAnswers, StepFitsType, AckedUpdateApplied
<1> QED
  BY <1>1, <1>2, <1>3, <1>4, <1>5, <1>6, <1>7, <1>8, <1>9, <1>10
     DEF Next, HandlerStep, DeliveryStep

(* A user.updated that was answered 2xx was committed, with any faults.    *)
THEOREM AckedUpdatesAreApplied == Spec => []AckedUpdateApplied
<1>1. Init => UpdateInv
  <2>1. Init => TypeOK
    BY ConstantsAssumption DEF Init, TypeOK, Account, Row, RowState, AnyEmail, Idle
  <2> QED
    BY <2>1 DEF Init, UpdateInv, UpdateAnswers, StepFitsType, AckedUpdateApplied, Idle
<1>2. UpdateInv => AckedUpdateApplied
  BY DEF UpdateInv
<1> QED
  BY <1>1, <1>2, UpdateInvStep, PTL DEF Spec

-----------------------------------------------------------------------------
(* The user table.                                                         *)

(* A row that is absent is empty, and what a handler found is still there. *)
RowInv ==
  /\ TypeOK
  /\ \A u \in User : users[u].state = "absent" => users[u].email = NoEmail
  /\ \A h \in Handler :
       handler[h] # Idle /\ handler[h].step \in {"update_apply", "delete_apply"}
         => users[handler[h].event.user].state # "absent"

(* The three statements that change a row, with what holds when they run.  *)
RowChange(m) ==
  \/ CanInsert(m) /\ Insert(m)
  \/ users[m.user].state # "absent" /\ CanUpdate(m) /\ Update(m)
  \/ users[m.user].state # "absent" /\ SoftDelete(m)

LEMMA StepChangesOneRow ==
  ASSUME RowInv, [Next]_vars
  PROVE  UNCHANGED users \/ \E m \in Event : RowChange(m)
<1> USE DEF RowInv
<1>1. ASSUME NEW h \in Handler, ProcessUserCreated(h)
      PROVE  UNCHANGED users \/ RowChange(handler[h].event)
  BY <1>1 DEF ProcessUserCreated, RowChange
<1>2. ASSUME NEW h \in Handler, UpdateApply(h)
      PROVE  UNCHANGED users \/ RowChange(handler[h].event)
  BY <1>2, BusyHandler DEF UpdateApply, RowChange, At
<1>3. ASSUME NEW h \in Handler, DeleteApply(h)
      PROVE  UNCHANGED users \/ RowChange(handler[h].event)
  BY <1>3, BusyHandler DEF DeleteApply, RowChange, At
<1>4. ASSUME NEW h \in Handler,
             ProcessUserCreated(h) \/ UpdateApply(h) \/ DeleteApply(h)
      PROVE  handler[h].event \in Event
  BY <1>4, BusyHandler DEF ProcessUserCreated, UpdateApply, DeleteApply, At
<1>5. ASSUME ClerkStep
      PROVE  UNCHANGED users
  BY <1>5 DEF ClerkStep, ClerkCreate, ClerkUpdate, ClerkDelete, Emit
<1>6. ASSUME NEW h \in Handler,
             UpdateGet(h) \/ DeleteGet(h) \/ Respond(h) \/ DeliveryStep(h)
      PROVE  UNCHANGED users
  BY <1>6 DEF UpdateGet, DeleteGet, Respond, DeliveryStep, Deliver, Reject,
              Timeout, WorkerCrash
<1> QED
  BY <1>1, <1>2, <1>3, <1>4, <1>5, <1>6 DEF Next, HandlerStep, vars

(* What a change of the row m.user leaves behind.                          *)
LEMMA RowAfterChange ==
  ASSUME RowInv, NEW m \in Event, RowChange(m)
  PROVE  /\ \A u \in User \ {m.user} : users'[u] = users[u]
         /\ users'[m.user].state # "absent"
         /\ users[m.user].state = "deleted" => users'[m.user].state = "deleted"
  BY DEF RowInv, TypeOK, Row, RowChange, CanInsert, Insert, Update, SoftDelete,
         Event

LEMMA RowInvStep == RowInv /\ [Next]_vars => RowInv'
<1> SUFFICES ASSUME RowInv, [Next]_vars PROVE RowInv'
  OBVIOUS
<1>0. TypeOK /\ TypeOK'
  BY TypeStep DEF RowInv
<1>1. \A u \in User : users[u].state # "absent" => users'[u].state # "absent"
  <2>1. CASE UNCHANGED users
    BY <2>1
  <2>2. ASSUME NEW m \in Event, RowChange(m)
        PROVE  \A u \in User : users[u].state # "absent"
                                => users'[u].state # "absent"
    BY <2>2, RowAfterChange
  <2> QED
    BY <2>1, <2>2, StepChangesOneRow
<1>2. \A u \in User : users'[u].state = "absent" => users'[u].email = NoEmail
  <2>1. CASE UNCHANGED users
    BY <2>1 DEF RowInv
  <2>2. ASSUME NEW m \in Event, RowChange(m)
        PROVE  \A u \in User : users'[u].state = "absent"
                                => users'[u].email = NoEmail
    BY <2>2, RowAfterChange DEF RowInv
  <2> QED
    BY <2>1, <2>2, StepChangesOneRow
<1>3. ASSUME NEW g \in Handler, handler'[g] # Idle,
             handler'[g].step \in {"update_apply", "delete_apply"}
      PROVE  users'[handler'[g].event.user].state # "absent"
  <2> DEFINE Found == /\ handler'[g].event.user \in User
                      /\ users[handler'[g].event.user].state # "absent"
  <2>0. handler'[g].event.user \in User
    BY <1>0, <1>3 DEF TypeOK, Attempt, Event
  <2>1. ASSUME UNCHANGED handler
        PROVE  Found
    BY <1>3, <2>0, <2>1 DEF RowInv
  <2>2. ASSUME NEW h \in Handler, UpdateGet(h) \/ DeleteGet(h)
        PROVE  Found
    BY <1>0, <1>3, <2>0, <2>2, BusyHandler
       DEF UpdateGet, DeleteGet, At, Goto, Answer, RowInv, TypeOK
  <2>3. ASSUME NEW h \in Handler,
               \/ \E m \in emitted : Deliver(h, m) \/ Reject(h, m)
               \/ ProcessUserCreated(h) \/ UpdateApply(h) \/ DeleteApply(h)
               \/ Respond(h) \/ WorkerCrash(h)
        PROVE  Found
    <3>1. g # h
      <4>1. CASE ProcessUserCreated(h) \/ UpdateApply(h) \/ DeleteApply(h)
        BY <1>0, <1>3, <4>1 DEF ProcessUserCreated, UpdateApply, DeleteApply,
                                Answer, TypeOK
      <4>2. CASE Respond(h) \/ WorkerCrash(h)
        BY <1>0, <1>3, <4>2 DEF Respond, WorkerCrash, TypeOK
      <4>3. ASSUME NEW m \in emitted, Deliver(h, m) \/ Reject(h, m)
            PROVE  g # h
        BY <1>0, <1>3, <4>3 DEF Deliver, Reject, FirstStep, TypeOK, Event
      <4> QED
        BY <2>3, <4>1, <4>2, <4>3
    <3>2. handler'[g] = handler[g]
      BY <1>0, <2>3, <3>1 DEF Deliver, Reject, ProcessUserCreated, UpdateApply,
           DeleteApply, Answer, Respond, WorkerCrash, TypeOK
    <3> QED
      BY <1>3, <2>0, <3>2 DEF RowInv
  <2>4. Found
    <3>1. CASE ClerkStep
      BY <2>1, <3>1 DEF ClerkStep, ClerkCreate, ClerkUpdate, ClerkDelete, Emit
    <3>2. CASE UNCHANGED vars
      BY <2>1, <3>2 DEF vars
    <3>3. ASSUME NEW h \in Handler, Timeout(h)
          PROVE  Found
      BY <2>1, <3>3 DEF Timeout
    <3> QED
      BY <2>2, <2>3, <3>1, <3>2, <3>3 DEF Next, HandlerStep, DeliveryStep
  <2> QED
    BY <1>1, <2>4
<1> QED
  BY <1>0, <1>2, <1>3 DEF RowInv

LEMMA RowInvInit == Init => RowInv
  BY ConstantsAssumption
     DEF Init, RowInv, TypeOK, Account, Row, RowState, AnyEmail, Idle

(* No delivery order, retry, crash or database error revives a deleted     *)
(* row: the endpoint's soft delete is final.                               *)
THEOREM SoftDeleteIsFinal == Spec => DeletedForGood
<1>1. RowInv /\ [Next]_vars =>
        [\A u \in User : users[u].state = "deleted"
                           => users'[u].state = "deleted"]_vars
  <2> SUFFICES ASSUME RowInv, [Next]_vars
               PROVE  \A u \in User : users[u].state = "deleted"
                                         => users'[u].state = "deleted"
    OBVIOUS
  <2>1. CASE UNCHANGED users
    BY <2>1
  <2>2. ASSUME NEW m \in Event, RowChange(m)
        PROVE  \A u \in User : users[u].state = "deleted"
                                  => users'[u].state = "deleted"
    BY <2>2, RowAfterChange
  <2> QED
    BY <2>1, <2>2, StepChangesOneRow
<1> QED
  BY <1>1, RowInvInit, RowInvStep, PTL DEF Spec, DeletedForGood

(* The endpoint implements UserDirectory, email uniqueness included: each  *)
(* committed statement is Register, Amend or Retire, every other step a    *)
(* stutter of the rows.                                                    *)
THEOREM EndpointImplementsDirectory == Spec => ImplementsDirectory
<1> DEFINE rowsOf == [u \in User |-> [state |-> users[u].state,
                                      email |-> users[u].email]]
<1>1. Init => Directory!DirectoryInit
  BY DEF Init, Directory!DirectoryInit, Directory!Vacant
<1>2. RowInv /\ [Next]_vars => [Directory!DirectoryNext]_rowsOf
  <2> SUFFICES ASSUME RowInv, [Next]_vars
               PROVE  Directory!DirectoryNext \/ UNCHANGED rowsOf
    OBVIOUS
  <2>1. CASE UNCHANGED users
    BY <2>1
  <2>2. ASSUME NEW m \in Event, CanInsert(m), Insert(m)
        PROVE  Directory!Register(m.user, m.email) /\ m.email \in Email
    BY <2>2 DEF RowInv, TypeOK, Row, Event, AnyEmail, CanInsert, Insert,
       Directory!Register, Directory!HeldByOther, Directory!Vacant
  <2>3. ASSUME NEW m \in Event, users[m.user].state # "absent",
               CanUpdate(m), Update(m), m.email # NoEmail
        PROVE  Directory!Amend(m.user, m.email) /\ m.email \in Email
    BY <2>3 DEF RowInv, TypeOK, Row, Event, AnyEmail, CanUpdate, Update,
       Directory!Amend, Directory!HeldByOther
  <2>4. ASSUME NEW m \in Event, Update(m), m.email = NoEmail
        PROVE  UNCHANGED rowsOf
    BY <2>4 DEF RowInv, TypeOK, Row, Event, Update
  <2>5. ASSUME NEW m \in Event, users[m.user].state # "absent", SoftDelete(m)
        PROVE  Directory!Retire(m.user)
    BY <2>5 DEF RowInv, TypeOK, Row, Event, SoftDelete, Directory!Retire
  <2>6. \A m \in Event : m.user \in User
    BY DEF Event
  <2> QED
    BY <2>1, <2>2, <2>3, <2>4, <2>5, <2>6, StepChangesOneRow
       DEF RowChange, Directory!DirectoryNext
<1> QED
  BY <1>1, <1>2, RowInvInit, RowInvStep, PTL
     DEF Spec, ImplementsDirectory, Directory!DirectorySpec

-----------------------------------------------------------------------------
(* Delivery in order.                                                      *)

(* What InOrder gives: an event has at most one attempt in flight, which Svix *)
(* awaits; it is not acked yet and all its predecessors are; and no row    *)
(* holds data of an event later than one still to be acked.                *)
InFlight(h) ==
  /\ h \in awaiting
  /\ handler[h].event \in emitted \ acked
  /\ Earlier(handler[h].event) \subseteq acked

OneAttempt ==
  \A h, g \in Handler :
    handler[h] # Idle /\ handler[g] # Idle
      /\ handler[h].event = handler[g].event => h = g

SeqBound ==
  \A u \in User : /\ users[u].profile <= clerk[u].count
                  /\ \A m \in emitted : m.user = u => m.seq <= clerk[u].count

RowsNotAhead ==
  \A m \in emitted \ acked : users[m.user].profile <= m.seq

OrderInv ==
  /\ RowInv
  /\ \A h \in Handler : handler[h] # Idle => InFlight(h)
  /\ OneAttempt
  /\ SeqBound
  /\ RowsNotAhead

(* The steps of a handler that keep its event and await its answer.        *)
HandlerGoesOn(h) ==
  ProcessUserCreated(h) \/ UpdateGet(h) \/ UpdateApply(h) \/ DeleteGet(h)
    \/ DeleteApply(h)

LEMMA GoesOnKeepsEvents ==
  ASSUME RowInv, NEW h \in Handler, HandlerGoesOn(h)
  PROVE  /\ UNCHANGED <<clerk, emitted, acked, awaiting>>
         /\ handler[h] # Idle
         /\ \A g \in Handler : handler'[g] # Idle =>
              handler[g] # Idle /\ handler'[g].event = handler[g].event
<1>1. UNCHANGED <<clerk, emitted, acked, awaiting>>
  BY DEF HandlerGoesOn, ProcessUserCreated, UpdateGet, UpdateApply, DeleteGet,
         DeleteApply
<1>2. handler[h].step # "idle"
  BY DEF HandlerGoesOn, ProcessUserCreated, UpdateGet, UpdateApply, DeleteGet,
         DeleteApply, At
<1>3. \/ Answer(h, 200) \/ Answer(h, 404) \/ Answer(h, 500)
      \/ Goto(h, "update_apply") \/ Goto(h, "delete_apply")
  BY DEF HandlerGoesOn, ProcessUserCreated, UpdateGet, UpdateApply, DeleteGet,
         DeleteApply
<1> QED
  BY <1>1, <1>2, <1>3, BusyHandler DEF Answer, Goto, RowInv, TypeOK

LEMMA OrderInvStep ==
  ASSUME InOrder, OrderInv, [Next]_vars
  PROVE  /\ OrderInv'
         /\ \A u \in User : users[u].profile <= users'[u].profile
<1> USE DEF OrderInv
<1>0. TypeOK /\ TypeOK' /\ RowInv'
  BY RowInvStep DEF RowInv
<1> DEFINE Grows == \A u \in User : users[u].profile <= users'[u].profile
<1>a. ASSUME UNCHANGED users
      PROVE  Grows
  BY <1>0, <1>a DEF TypeOK, Row
<1>1. ASSUME NEW u \in User, NEW t, NEW e, NEW d, Emit(u, t, e, d),
             clerk'[u].count = clerk[u].count + 1,
             \A v \in User \ {u} : clerk'[v] = clerk[v]
      PROVE  OrderInv' /\ Grows
  <2> DEFINE m == [user |-> u, seq |-> clerk[u].count + 1, type |-> t,
                   email |-> e, data |-> d]
  <2>1. emitted' = emitted \cup {m} /\ UNCHANGED <<acked, users, handler, awaiting>>
    BY <1>1 DEF Emit
  <2>2. \A n \in emitted : n.user \in User /\ n.seq \in Nat
    BY <1>0 DEF TypeOK, Event
  <2>3. \A v \in User : clerk[v].count \in Nat /\ users[v].profile \in Nat
    BY <1>0, ConstantsAssumption DEF TypeOK, Account, Row
  <2>4. m.user = u /\ m.seq = clerk[u].count + 1
    OBVIOUS
  <2> HIDE DEF m
  <2>5. SeqBound'
    BY <1>1, <2>1, <2>2, <2>3, <2>4 DEF SeqBound
  <2>6. RowsNotAhead'
    BY <2>1, <2>2, <2>3, <2>4 DEF SeqBound, RowsNotAhead
  <2>7. ASSUME NEW h \in Handler, handler'[h] # Idle
        PROVE  InFlight(h)'
    <3>1. handler[h].event \in emitted /\ InFlight(h)
      BY <2>1, <2>7 DEF InFlight
    <3>2. ~ (m.user = handler[h].event.user /\ m.seq < handler[h].event.seq)
      BY <2>2, <2>3, <2>4, <3>1 DEF SeqBound
    <3> QED
      BY <2>1, <3>1, <3>2 DEF InFlight, Earlier
  <2> QED
    BY <1>0, <1>a, <2>1, <2>5, <2>6, <2>7 DEF OneAttempt
<1>2. ASSUME NEW h \in Handler, NEW m \in emitted, Deliver(h, m) \/ Reject(h, m)
      PROVE  OrderInv' /\ Grows
  <2>1. /\ m \in emitted \ acked
        /\ Earlier(m) \subseteq acked
        /\ \A g \in awaiting : handler[g].event # m
        /\ UNCHANGED <<clerk, emitted, acked, users>>
        /\ awaiting' = awaiting \cup {h}
        /\ handler'[h].event = m
        /\ \A g \in Handler \ {h} : handler'[g] = handler[g]
    BY <1>0, <1>2 DEF Deliver, Reject, Deliverable, InOrder, TypeOK
  <2>2. \A g \in Handler : handler'[g] # Idle => InFlight(g)'
    BY <2>1 DEF InFlight, Earlier
  <2>3. OneAttempt'
    BY <2>1 DEF InFlight, OneAttempt
  <2> QED
    BY <1>0, <1>a, <2>1, <2>2, <2>3 DEF SeqBound, RowsNotAhead
<1>3. ASSUME NEW h \in Handler, WorkerCrash(h)
      PROVE  OrderInv' /\ Grows
  BY <1>0, <1>a, <1>3 DEF WorkerCrash, TypeOK, InFlight, Earlier, OneAttempt,
                         SeqBound, RowsNotAhead
<1>4. ASSUME NEW h \in Handler, Respond(h)
      PROVE  OrderInv' /\ Grows
  <2>1. /\ UNCHANGED <<clerk, emitted, users>>
        /\ awaiting' = awaiting \ {h}
        /\ handler'[h] = Idle
        /\ \A g \in Handler \ {h} : handler'[g] = handler[g]
        /\ handler[h] # Idle
        /\ acked' = acked \/ acked' = acked \cup {handler[h].event}
    BY <1>0, <1>4, BusyHandler DEF Respond, At, TypeOK
  <2>2. \A g \in Handler : handler'[g] # Idle => InFlight(g)'
    BY <2>1 DEF InFlight, Earlier, OneAttempt
  <2> QED
    BY <1>0, <1>a, <2>1, <2>2 DEF OneAttempt, SeqBound, RowsNotAhead
<1>5. ASSUME NEW h \in Handler, HandlerGoesOn(h)
      PROVE  OrderInv' /\ Grows
  <2>1. /\ UNCHANGED <<clerk, emitted, acked, awaiting>>
        /\ \A g \in Handler : handler'[g] # Idle =>
             handler[g] # Idle /\ handler'[g].event = handler[g].event
    BY <1>5, GoesOnKeepsEvents
  <2>2. \A g \in Handler : handler'[g] # Idle => InFlight(g)'
    BY <2>1 DEF InFlight, Earlier
  <2>3. OneAttempt'
    BY <2>1 DEF OneAttempt
  <2> DEFINE m == handler[h].event
  <2>4. m \in emitted \ acked /\ Earlier(m) \subseteq acked /\ m \in Event
    BY <1>0, <1>5, GoesOnKeepsEvents DEF InFlight, TypeOK
  <2>5. /\ \A v \in User \ {m.user} : users'[v] = users[v]
        /\ \/ users'[m.user].profile = users[m.user].profile
           \/ users'[m.user].profile = m.seq
    BY <1>0, <1>5, <2>4 DEF HandlerGoesOn, ProcessUserCreated, UpdateGet, UpdateApply,
       DeleteGet, DeleteApply, Insert, Update, SoftDelete, TypeOK, Event, Row
  <2>6. \A n \in emitted : n.user \in User /\ n.seq \in Nat
    BY <1>0 DEF TypeOK, Event
  <2>7. \A v \in User : clerk[v].count \in Nat /\ users[v].profile \in Nat
    BY <1>0, ConstantsAssumption DEF TypeOK, Account, Row
  <2>8. \A n \in emitted \ acked : n.user = m.user => m.seq <= n.seq
    BY <2>4, <2>6 DEF Earlier
  <2> HIDE DEF m
  <2>9. Grows
    BY <2>4, <2>5, <2>6, <2>7 DEF RowsNotAhead
  <2>10. SeqBound'
    BY <2>1, <2>4, <2>5, <2>6, <2>7 DEF SeqBound
  <2>11. RowsNotAhead'
    BY <2>1, <2>4, <2>5, <2>6, <2>7, <2>8 DEF RowsNotAhead
  <2> QED
    BY <1>0, <2>2, <2>3, <2>9, <2>10, <2>11
<1>6. CASE UNCHANGED vars
  BY <1>0, <1>a, <1>6 DEF vars, InFlight, Earlier, OneAttempt, SeqBound, RowsNotAhead
<1>7. CASE ClerkStep
  <2>1. ASSUME NEW u \in User, NEW e, NEW d,
               ClerkCreate(u, e, d) \/ ClerkUpdate(u, e, d) \/ ClerkDelete(u)
        PROVE  /\ clerk'[u].count = clerk[u].count + 1
               /\ \A v \in User \ {u} : clerk'[v] = clerk[v]
               /\ \E t, f, g : Emit(u, t, f, g)
    BY <1>0, <2>1 DEF ClerkCreate, ClerkUpdate, ClerkDelete, TypeOK, Account
  <2> QED
    BY <1>1, <1>7, <2>1 DEF ClerkStep
<1> QED
  BY <1>2, <1>3, <1>4, <1>5, <1>6, <1>7
     DEF Next, HandlerStep, DeliveryStep, HandlerGoesOn, Timeout, InOrder

(* A behavior is in order from its start or never.                         *)
LEMMA FaultsFixed ==
  ASSUME [Next]_vars
  PROVE  faults' = faults
<1>1. CASE ClerkStep
  BY <1>1 DEF ClerkStep, ClerkCreate, ClerkUpdate, ClerkDelete, Emit
<1>2. ASSUME NEW h \in Handler, DeliveryStep(h)
      PROVE  faults' = faults
  BY <1>2 DEF DeliveryStep, Deliver, Reject, Timeout, WorkerCrash
<1>3. ASSUME NEW h \in Handler, HandlerStep(h)
      PROVE  faults' = faults
  BY <1>3 DEF HandlerStep, ProcessUserCreated, UpdateGet, UpdateApply, DeleteGet,
              DeleteApply, Respond
<1> QED
  BY <1>1, <1>2, <1>3 DEF Next, vars

(* In order, the data of a row never goes back to an earlier event, with   *)
(* any number of crashes, rejected attempts and database errors.           *)
THEOREM RowsNeverGoBack == Spec => ProfileMonotone
<1> DEFINE Inv == InOrder => OrderInv
<1>1. Init => Inv
  BY RowInvInit DEF Init, OrderInv, InFlight, OneAttempt, SeqBound, RowsNotAhead
<1>2. Inv /\ [Next]_vars => Inv'
  BY OrderInvStep, FaultsFixed DEF InOrder
<1>3. Inv /\ [Next]_vars
        => [InOrder => \A u \in User : users[u].profile <= users'[u].profile]_vars
  BY OrderInvStep
<1> QED
  BY <1>1, <1>2, <1>3, PTL DEF Spec, ProfileMonotone
=============================================================================
