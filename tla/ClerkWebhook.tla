----------------------------- MODULE ClerkWebhook -----------------------------
(***************************************************************************)
(* The Clerk webhook endpoint (src/app/api/v1/webhook.py) and the world    *)
(* around it: Clerk, which emits user.created / user.updated /             *)
(* user.deleted events; Svix, which POSTs each event until it gets a 2xx   *)
(* answer; and the request handlers of the API workers, which read and     *)
(* write the user table, one statement per step.                           *)
(*                                                                         *)
(* faults says what the environment may do besides running normally:       *)
(*   "reorder"  an event may be delivered before an earlier one is acked   *)
(*   "timeout"  Svix may give up on an attempt that is still being handled *)
(*   "crash"    a worker may die while it handles a request                *)
(*   "db"       a database call may raise, with or without its effect      *)
(*   "reject"   an attempt may lack headers or fail verification           *)
(***************************************************************************)
EXTENDS Naturals, FiniteSets

CONSTANTS User,       \* Clerk users
          Email,      \* email addresses
          NoEmail,    \* the event names no primary email
          Handler,    \* requests the workers can have in flight at once
          MaxEvents,  \* bound: events Clerk emits for one user
          FaultSets   \* the mixes of faults to consider

FaultKinds == {"reorder", "timeout", "crash", "db", "reject"}

ASSUME ConstantsAssumption ==
  /\ NoEmail \notin Email
  /\ MaxEvents \in Nat
  /\ FaultSets \subseteq SUBSET FaultKinds

VARIABLES clerk,     \* clerk[u]: the account as Clerk knows it
          emitted,   \* every event Clerk has emitted
          acked,     \* the events answered 2xx: Svix never sends them again
          users,     \* users[u]: the row of table "user" whose uuid is u
          handler,   \* handler[h]: the request h is working on
          awaiting,  \* the handlers whose answer Svix still waits for
          applied,   \* history: the events whose change was committed
          faults     \* what may go wrong in this behavior; never changes

vars == <<clerk, emitted, acked, users, handler, awaiting, applied, faults>>

AnyEmail == Email \cup {NoEmail}

RowState == {"absent", "active", "deleted"}

(* One webhook message.  data says whether its names and image pass the    *)
(* pydantic model and the NOT NULL columns.                                *)
Event == [user  : User,
          seq   : 1..MaxEvents,
          type  : {"created", "updated", "deleted"},
          email : AnyEmail,
          data  : {"fit", "unfit"}]

(* profile is the seq of the event the row's data comes from.              *)
Row == [state : RowState, email : AnyEmail, profile : 0..MaxEvents]

Account == [state : RowState, email : AnyEmail, count : 0..MaxEvents]

Idle == [step |-> "idle"]

Attempt ==
  [event : Event,
   step  : {"create", "update_get", "update_apply",
            "delete_get", "delete_apply", "respond"},
   code  : {0, 200, 400, 404, 500}]

TypeOK ==
  /\ clerk \in [User -> Account]
  /\ emitted \subseteq Event
  /\ acked \subseteq Event
  /\ users \in [User -> Row]
  /\ handler \in [Handler -> Attempt \cup {Idle}]
  /\ awaiting \subseteq {h \in Handler : handler[h] # Idle}
  /\ applied \subseteq Event
  /\ faults \in SUBSET FaultKinds

-----------------------------------------------------------------------------
(* Clerk.  An address belongs to at most one account that still exists.    *)

FreeInClerk(u, e) ==
  \A v \in User \ {u} : clerk[v].state = "active" => clerk[v].email # e

Emit(u, type, e, d) ==
  /\ clerk[u].count < MaxEvents
  /\ emitted' = emitted \cup {[user |-> u, seq |-> clerk[u].count + 1,
                               type |-> type, email |-> e, data |-> d]}
  /\ UNCHANGED <<acked, users, handler, awaiting, applied, faults>>

ClerkCreate(u, e, d) ==
  /\ clerk[u].state = "absent"
  /\ e = NoEmail \/ FreeInClerk(u, e)
  /\ Emit(u, "created", e, d)
  /\ clerk' = [clerk EXCEPT ![u] = [state |-> "active", email |-> e,
                                    count |-> clerk[u].count + 1]]

ClerkUpdate(u, e, d) ==
  /\ clerk[u].state = "active"
  /\ e = NoEmail \/ FreeInClerk(u, e)
  /\ Emit(u, "updated", e, d)
  /\ clerk' = [clerk EXCEPT ![u].email = e, ![u].count = @ + 1]

ClerkDelete(u) ==
  /\ clerk[u].state = "active"
  /\ Emit(u, "deleted", NoEmail, "fit")
  /\ clerk' = [clerk EXCEPT ![u].state = "deleted", ![u].count = @ + 1]

-----------------------------------------------------------------------------
(* Svix and the entry of the endpoint.                                     *)

Earlier(m) == {n \in emitted : n.user = m.user /\ n.seq < m.seq}

(* Svix runs one attempt of a message at a time, and stops once one is     *)
(* acked; without "reorder" it also holds back the user's later messages.  *)
Deliverable(m) ==
  /\ m \in emitted \ acked
  /\ \A h \in awaiting : handler[h].event # m
  /\ "reorder" \notin faults => Earlier(m) \subseteq acked

FirstStep(m) == CASE m.type = "created" -> "create"
                  [] m.type = "updated" -> "update_get"
                  [] m.type = "deleted" -> "delete_get"

(* Mutant of Deliver: the endpoint acks before the handler has run.        *)
DeliverAckingEarly(h, m) ==
  /\ handler[h] = Idle
  /\ Deliverable(m)
  /\ handler' = [handler EXCEPT ![h] = [event |-> m, step |-> FirstStep(m),
                                        code |-> 0]]
  /\ acked' = acked \cup {m}
  /\ UNCHANGED <<clerk, emitted, awaiting, users, applied, faults>>

(* clerk_webhook: the signature is checked, then the type dispatched on.   *)
Deliver(h, m) ==
  /\ handler[h] = Idle
  /\ Deliverable(m)
  /\ handler' = [handler EXCEPT ![h] = [event |-> m, step |-> FirstStep(m),
                                        code |-> 0]]
  /\ awaiting' = awaiting \cup {h}
  /\ UNCHANGED <<clerk, emitted, acked, users, applied, faults>>

(* clerk_webhook: headers missing or verification failed, answered 400.    *)
Reject(h, m) ==
  /\ "reject" \in faults
  /\ handler[h] = Idle
  /\ Deliverable(m)
  /\ handler' = [handler EXCEPT ![h] = [event |-> m, step |-> "respond",
                                        code |-> 400]]
  /\ awaiting' = awaiting \cup {h}
  /\ UNCHANGED <<clerk, emitted, acked, users, applied, faults>>

(* Svix times the attempt out; the handler is not told and runs on.        *)
Timeout(h) ==
  /\ "timeout" \in faults
  /\ h \in awaiting
  /\ awaiting' = awaiting \ {h}
  /\ UNCHANGED <<clerk, emitted, acked, users, handler, applied, faults>>

(* The worker dies: its request is gone, what it committed is not.         *)
WorkerCrash(h) ==
  /\ "crash" \in faults
  /\ handler[h] # Idle
  /\ handler' = [handler EXCEPT ![h] = Idle]
  /\ awaiting' = awaiting \ {h}
  /\ UNCHANGED <<clerk, emitted, acked, users, applied, faults>>

-----------------------------------------------------------------------------
(* The handlers.                                                           *)

At(h, s) == handler[h].step = s

Goto(h, s) ==
  handler' = [handler EXCEPT ![h] = [event |-> @.event, step |-> s, code |-> 0]]

Answer(h, c) ==
  handler' = [handler EXCEPT ![h] = [event |-> @.event, step |-> "respond",
                                     code |-> c]]

(* Mutant of CanInsert: a soft-deleted row does not count as present.      *)
CanInsertOverDeleted(m) ==
  /\ m.email # NoEmail
  /\ m.data = "fit"
  /\ users[m.user].state # "active"
  /\ \A v \in User \ {m.user} : users[v].email # m.email

(* Mutant of CanInsert: soft-deleted rows give their email back.           *)
CanInsertFreedEmail(m) ==
  /\ m.email # NoEmail
  /\ m.data = "fit"
  /\ users[m.user].state = "absent"
  /\ \A v \in User : users[v].state = "active" => users[v].email # m.email

(* The two UNIQUE columns and the create model: uuid not yet present, the  *)
(* email not held by any row, deleted ones included.                       *)
CanInsert(m) ==
  /\ m.email # NoEmail
  /\ m.data = "fit"
  /\ users[m.user].state = "absent"
  /\ \A v \in User : users[v].email # m.email

CanUpdate(m) ==
  /\ m.data = "fit"
  /\ m.email # NoEmail => \A v \in User \ {m.user} : users[v].email # m.email

Insert(m) ==
  /\ users' = [users EXCEPT ![m.user] = [state |-> "active", email |-> m.email,
                                         profile |-> m.seq]]
  /\ applied' = applied \cup {m}

(* Mutant of Update: the new email is left out of the SET clause.          *)
UpdateKeepingEmail(m) ==
  /\ users' = [users EXCEPT ![m.user].profile = m.seq]
  /\ applied' = applied \cup {m}

(* Only the fields the event carries are set; is_deleted never is.         *)
Update(m) ==
  /\ users' = [users EXCEPT ![m.user] =
                 [state |-> @.state, profile |-> m.seq,
                  email |-> IF m.email = NoEmail THEN @.email ELSE m.email]]
  /\ applied' = applied \cup {m}

SoftDelete(m) ==
  /\ users' = [users EXCEPT ![m.user].state = "deleted"]
  /\ applied' = applied \cup {m}

(* Mutant of ProcessUserCreated: without a primary email the request ends  *)
(* with no answer.                                                         *)
ProcessUserCreatedMute(h) ==
  /\ At(h, "create")
  /\ LET m == handler[h].event IN
       \/ /\ m.email = NoEmail
          /\ handler' = [handler EXCEPT ![h] = Idle]
          /\ UNCHANGED <<users, applied>>
       \/ CanInsert(m) /\ Insert(m) /\ Answer(h, 200)
       \/ /\ m.email # NoEmail
          /\ ~ CanInsert(m) \/ "db" \in faults
          /\ Answer(h, 200)
          /\ UNCHANGED <<users, applied>>
  /\ UNCHANGED <<clerk, emitted, acked, awaiting, faults>>

(* process_user_created: without a primary email the event is dropped at   *)
(* the entry; a create model or an insert that raises is logged; either    *)
(* way the endpoint goes on to its 200.                                    *)
ProcessUserCreated(h) ==
  /\ At(h, "create")
  /\ LET m == handler[h].event IN
       \/ m.email = NoEmail /\ UNCHANGED <<users, applied>>
       \/ CanInsert(m) /\ Insert(m)
       \/ /\ m.email # NoEmail
          /\ ~ CanInsert(m) \/ "db" \in faults
          /\ UNCHANGED <<users, applied>>
  /\ Answer(h, 200)
  /\ UNCHANGED <<clerk, emitted, acked, awaiting, faults>>

(* Mutant of UpdateGet: the lookup filters on is_deleted = FALSE.          *)
UpdateGetActive(h) ==
  /\ At(h, "update_get")
  /\ IF users[handler[h].event.user].state = "active"
       THEN Goto(h, "update_apply") ELSE Answer(h, 404)
  /\ UNCHANGED <<clerk, emitted, acked, users, awaiting, applied, faults>>

(* process_user_updated up to the 404: the row is looked up by uuid only.  *)
UpdateGet(h) ==
  /\ At(h, "update_get")
  /\ LET m == handler[h].event IN
       \/ users[m.user].state # "absent" /\ Goto(h, "update_apply")
       \/ users[m.user].state = "absent" /\ Answer(h, 404)
       \/ "db" \in faults /\ Answer(h, 500)
  /\ UNCHANGED <<clerk, emitted, acked, users, awaiting, applied, faults>>

(* Mutant of UpdateApply: failures are swallowed, as in the other two.     *)
UpdateApplySwallowing(h) ==
  /\ At(h, "update_apply")
  /\ LET m == handler[h].event IN
       \/ CanUpdate(m) /\ Update(m)
       \/ (~ CanUpdate(m) \/ "db" \in faults) /\ UNCHANGED <<users, applied>>
  /\ Answer(h, 200)
  /\ UNCHANGED <<clerk, emitted, acked, awaiting, faults>>

(* process_user_updated from the try on: a failure is answered 500.        *)
UpdateApply(h) ==
  /\ At(h, "update_apply")
  /\ LET m == handler[h].event IN
       \/ CanUpdate(m) /\ Update(m) /\ Answer(h, 200)
       \/ "db" \in faults /\ CanUpdate(m) /\ Update(m) /\ Answer(h, 500)
       \/ /\ ~ CanUpdate(m) \/ "db" \in faults
          /\ Answer(h, 500)
          /\ UNCHANGED <<users, applied>>
  /\ UNCHANGED <<clerk, emitted, acked, awaiting, faults>>

(* Mutant of DeleteGet: the test for a missing row is inverted.            *)
DeleteGetInverted(h) ==
  /\ At(h, "delete_get")
  /\ IF users[handler[h].event.user].state = "absent"
       THEN Goto(h, "delete_apply") ELSE Answer(h, 200)
  /\ UNCHANGED <<clerk, emitted, acked, users, awaiting, applied, faults>>

(* process_user_deleted: nothing to delete is answered 200 as well.        *)
DeleteGet(h) ==
  /\ At(h, "delete_get")
  /\ LET m == handler[h].event IN
       \/ users[m.user].state # "absent" /\ Goto(h, "delete_apply")
       \/ users[m.user].state = "absent" /\ Answer(h, 200)
       \/ "db" \in faults /\ Answer(h, 200)
  /\ UNCHANGED <<clerk, emitted, acked, users, awaiting, applied, faults>>

DeleteApply(h) ==
  /\ At(h, "delete_apply")
  /\ LET m == handler[h].event IN
       \/ SoftDelete(m)
       \/ "db" \in faults /\ UNCHANGED <<users, applied>>
  /\ Answer(h, 200)
  /\ UNCHANGED <<clerk, emitted, acked, awaiting, faults>>

(* The answer reaches Svix, which acts on it only if it still waits.       *)
Respond(h) ==
  /\ At(h, "respond")
  /\ acked' = IF h \in awaiting /\ handler[h].code = 200
                THEN acked \cup {handler[h].event} ELSE acked
  /\ handler' = [handler EXCEPT ![h] = Idle]
  /\ awaiting' = awaiting \ {h}
  /\ UNCHANGED <<clerk, emitted, users, applied, faults>>

-----------------------------------------------------------------------------
Init ==
  /\ clerk = [u \in User |-> [state |-> "absent", email |-> NoEmail, count |-> 0]]
  /\ emitted = {}
  /\ acked = {}
  /\ users = [u \in User |-> [state |-> "absent", email |-> NoEmail, profile |-> 0]]
  /\ handler = [h \in Handler |-> Idle]
  /\ awaiting = {}
  /\ applied = {}
  /\ faults \in FaultSets

ClerkStep ==
  \E u \in User :
    \/ \E e \in AnyEmail, d \in {"fit", "unfit"} : ClerkCreate(u, e, d)
                                           \/ ClerkUpdate(u, e, d)
    \/ ClerkDelete(u)

HandlerStep(h) ==
  \/ ProcessUserCreated(h)
  \/ UpdateGet(h)
  \/ UpdateApply(h)
  \/ DeleteGet(h)
  \/ DeleteApply(h)
  \/ Respond(h)

DeliveryStep(h) ==
  \/ \E m \in emitted : Deliver(h, m) \/ Reject(h, m)
  \/ Timeout(h)
  \/ WorkerCrash(h)

Next ==
  \/ ClerkStep
  \/ \E h \in Handler : HandlerStep(h) \/ DeliveryStep(h)

Spec == Init /\ [][Next]_vars

(* Fairness: the event loop runs every handler to its end, and Svix keeps  *)
(* retrying a message that is not acked.                                   *)
Attempted(u, i) ==
  \E h \in Handler : \E m \in emitted : m.user = u /\ m.seq = i /\ Deliver(h, m)

FairSpec ==
  /\ Spec
  /\ \A h \in Handler : WF_vars(HandlerStep(h))
  /\ \A u \in User, i \in 1..MaxEvents : SF_vars(Attempted(u, i))

-----------------------------------------------------------------------------
(* Properties.                                                             *)

(* A 2xx answer to user.updated means the change was committed: no path of *)
(* process_user_updated that lost it, with any faults, ends in an ack.     *)
AckedUpdateApplied ==
  \A m \in acked : m.type = "updated" => m \in applied

(* A soft-deleted row is never revived, however late, twice or out of      *)
(* order the user's events arrive, since only user.deleted sets is_deleted *)
(* and user.created cannot insert the uuid again.                          *)
DeletedForGood ==
  [][\A u \in User : users[u].state = "deleted" => users'[u].state = "deleted"]_vars

(* The endpoint implements UserDirectory: each committed statement is one  *)
(* operation of the directory, everything else leaves the rows alone.      *)
Directory == INSTANCE UserDirectory
               WITH rows <- [u \in User |-> [state |-> users[u].state,
                                             email |-> users[u].email]]
ImplementsDirectory == Directory!DirectorySpec

(* Svix delivers each user's events in order and waits for every answer;   *)
(* Calm: and every database call does what it is asked to.                 *)
InOrder == faults \cap {"reorder", "timeout"} = {}
Calm == InOrder /\ "db" \notin faults

(* When Svix delivers a user's events in order and waits for each answer,  *)
(* a row never goes back to data of an earlier event, crashes, retries and *)
(* database errors notwithstanding.                                        *)
ProfileMonotone ==
  [][InOrder => \A u \in User : users[u].profile <= users'[u].profile]_vars

(* In order and without database errors, once a user.deleted is answered   *)
(* 200 the account cannot be used: no active row remains or appears later. *)
AckedDeleteEffective ==
  Calm => \A m \in acked : m.type = "deleted" => users[m.user].state # "active"

(* When every event of a user was delivered in order and acked and its     *)
(* row was created, the row agrees with Clerk: same state, and the same    *)
(* email unless the Clerk account has none.                                *)
Mirrored ==
  Calm => \A u \in User :
    LET mine == {m \in emitted : m.user = u} IN
      mine \subseteq acked /\ users[u].state # "absent"
        => /\ users[u].state = clerk[u].state
           /\ clerk[u].email # NoEmail => users[u].email = clerk[u].email

(* An update that changes no email and passes validation is acked in the   *)
(* end once the user has a row, deleted or not, though it may have         *)
(* overtaken the creation and been answered 404 before.                    *)
Landable(u, i) ==
  /\ faults \subseteq {"reorder"}
  /\ users[u].state # "absent"
  /\ \E m \in emitted \ acked : /\ m.user = u /\ m.seq = i
                                /\ m.type = "updated" /\ m.data = "fit"
                                /\ m.email = NoEmail
UpdateLands ==
  \A u \in User, i \in 1..MaxEvents :
    Landable(u, i) ~> (\E m \in acked : m.user = u /\ m.seq = i)

(* What the answer "Webhook processed successfully" says of user.created:  *)
(* the row of an event with an address and data that fit was inserted.     *)
AckedCreateApplied ==
  \A m \in acked :
    m.type = "created" /\ m.email # NoEmail /\ m.data = "fit" => m \in applied
=============================================================================
