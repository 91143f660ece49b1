---------------------------- MODULE UserDirectory ----------------------------
(***************************************************************************)
(* What the user table promises to the rest of the application, whatever   *)
(* the webhook endpoint does to keep it in step with Clerk: one row per    *)
(* Clerk user, no email shared by two rows (a soft-deleted row still holds *)
(* its email), and rows that are created once, changed, and deleted for    *)
(* good.                                                                   *)
(***************************************************************************)
CONSTANTS User,     \* the Clerk users (User.uuid)
          Email,    \* email addresses
          NoEmail   \* "no row, hence no address"

VARIABLE rows       \* rows[u]: the row whose uuid is u

Vacant == [state |-> "absent", email |-> NoEmail]

DirectoryTypeOK ==
  rows \in [User -> [state : {"absent", "active", "deleted"},
                     email : Email \cup {NoEmail}]]

HeldByOther(u, e) == \E v \in User \ {u} : rows[v].email = e

DirectoryInit == rows = [u \in User |-> Vacant]

Register(u, e) ==
  /\ rows[u] = Vacant
  /\ ~ HeldByOther(u, e)
  /\ rows' = [rows EXCEPT ![u] = [state |-> "active", email |-> e]]

Amend(u, e) ==
  /\ rows[u].state # "absent"
  /\ ~ HeldByOther(u, e)
  /\ rows' = [rows EXCEPT ![u].email = e]

Retire(u) ==
  /\ rows[u].state # "absent"
  /\ rows' = [rows EXCEPT ![u].state = "deleted"]

DirectoryNext ==
  \E u \in User :
    \/ \E e \in Email : Register(u, e) \/ Amend(u, e)
    \/ Retire(u)

DirectorySpec == DirectoryInit /\ [][DirectoryNext]_rows
=============================================================================
