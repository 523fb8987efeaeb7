------------------------------- MODULE Accounts -------------------------------
(***************************************************************************)
(* The users of ship-dock (auth.service.ts, users.service.ts): the set-up  *)
(* of the first one, invites, changes of roles and deletions.              *)
(*                                                                         *)
(* A user is an id that is never used again, with an e-mail address, which *)
(* is unique.  A token carries the role its user had at the login, which   *)
(* nothing looks up again.  Passwords and names are left out, and so are   *)
(* the projects of a user, which (like the invites) stop a deletion.       *)
(***************************************************************************)
EXTENDS Naturals, FiniteSets

CONSTANTS
  Emails,
  MaxUsers, MaxInvites,  \* bounds: of users, of invites ever made
  Handlers,              \* set-ups and acceptances that can be in flight
  None

\* ADMIN and OWNER pass every guard of these requests, the lower ones none.
Role == {"admin", "lower"}

UserIds == 1..MaxUsers
InviteIds == 1..MaxInvites

User == [email : Emails, role : Role]
Invite == [role : Role, by : UserIds, used : BOOLEAN, expired : BOOLEAN]

AccountsAssumption ==
  /\ {MaxUsers, MaxInvites} \subseteq Nat
  /\ None \notin Emails \cup User \cup Invite

VARIABLES
  user,       \* the rows by id: [email, role], or None
  invite,     \* the rows by id: [role, by, used, expired], or None
  tokens,     \* ids with an access token that says ADMIN or OWNER
  req,        \* locals and program counters
  ids,        \* ids given to users so far
  owners,     \* history: users made by the set-up
  accounts,   \* ... and from each invite
  overlap,    \* ... two set-ups were in flight at once
  reused,     \* ... invites with two acceptances in flight, or one stopped half way
  emptied     \* ... the last user was deleted

rows == <<user, invite, tokens, ids>>
history == <<owners, accounts, overlap, reused, emptied>>
vars == <<rows, req, history>>

NoReq == [pc |-> "idle", email |-> None, invite |-> 0, role |-> None]

TypeOK ==
  /\ user \in [UserIds -> User \cup {None}]
  /\ invite \in [InviteIds -> Invite \cup {None}]
  /\ tokens \subseteq UserIds
  /\ req \in [Handlers -> [pc : {"idle", "owner", "member", "mark"},
                           email : Emails \cup {None}, invite : InviteIds \cup {0},
                           role : Role \cup {None}]]
  /\ ids \in 0..MaxUsers
  /\ owners \in 0..MaxUsers /\ accounts \in [InviteIds -> 0..MaxUsers]
  /\ overlap \in BOOLEAN /\ reused \subseteq InviteIds /\ emptied \in BOOLEAN

Init ==
  /\ user = [u \in UserIds |-> None] /\ invite = [i \in InviteIds |-> None]
  /\ tokens = {} /\ ids = 0
  /\ req = [h \in Handlers |-> NoReq]
  /\ owners = 0 /\ accounts = [i \in InviteIds |-> 0]
  /\ overlap = FALSE /\ reused = {} /\ emptied = FALSE

Users == {u \in UserIds : user[u] # None}
Taken(email) == \E u \in Users : user[u].email = email

NewUser(email, role) ==
  /\ ids < MaxUsers /\ ids' = ids + 1
  /\ user' = [user EXCEPT ![ids + 1] = [email |-> email, role |-> role]]

Return(h) == req' = [req EXCEPT ![h] = NoReq]

----------------------------------------------------------------------------
(* The first user.                                                         *)

\* count(); the password is hashed before the next await ends.
Setup(h, email) ==
  /\ req[h].pc = "idle"
  /\ Users = {}
  /\ req' = [req EXCEPT ![h] = [NoReq EXCEPT !.pc = "owner", !.email = email]]
  /\ overlap' = (overlap \/ \E g \in Handlers : req[g].pc = "owner")
  /\ UNCHANGED <<rows, owners, accounts, reused, emptied>>

CreateOwner(h) ==
  /\ req[h].pc = "owner" /\ Return(h)
  /\ \/ /\ ~Taken(req[h].email)
        /\ NewUser(req[h].email, "admin")
        /\ tokens' = tokens \cup {ids + 1}
        /\ owners' = owners + 1
        /\ UNCHANGED invite
     \/ /\ Taken(req[h].email)
        /\ UNCHANGED <<rows, owners>>
  /\ UNCHANGED <<accounts, overlap, reused, emptied>>

----------------------------------------------------------------------------
(* Logins and administration.                                              *)

Login(u) ==
  /\ u \in Users /\ user[u].role = "admin"
  /\ tokens' = tokens \cup {u}
  /\ UNCHANGED <<user, invite, ids, req, history>>

TokenExpires(t) ==
  /\ t \in tokens /\ tokens' = tokens \ {t}
  /\ UNCHANGED <<user, invite, ids, req, history>>

\* The creator is a foreign key: a deleted user's token makes no invite.
CreateInvite(t, i, role) ==
  /\ t \in tokens /\ t \in Users
  /\ invite[i] = None /\ \A j \in 1..(i - 1) : invite[j] # None
  /\ invite' = [invite EXCEPT ![i] =
       [role |-> role, by |-> t, used |-> FALSE, expired |-> FALSE]]
  /\ UNCHANGED <<user, tokens, ids, req, history>>

InviteExpires(i) ==
  /\ invite[i] # None /\ ~invite[i].expired
  /\ invite' = [invite EXCEPT ![i].expired = TRUE]
  /\ UNCHANGED <<user, tokens, ids, req, history>>

UpdateRole(u, role) ==
  /\ tokens # {} /\ u \in Users
  /\ user' = [user EXCEPT ![u].role = role]
  /\ UNCHANGED <<invite, tokens, ids, req, history>>

\* Nothing keeps the last one; who made an invite cannot be deleted.
DeleteUser(u) ==
  /\ tokens # {} /\ u \in Users
  /\ \A i \in InviteIds : invite[i] # None => invite[i].by # u
  /\ user' = [user EXCEPT ![u] = None]
  /\ emptied' = (emptied \/ Users = {u})
  /\ UNCHANGED <<invite, tokens, ids, req, owners, accounts, overlap, reused>>

----------------------------------------------------------------------------
(* Acceptance of an invite, which needs no token.                          *)

Unused(i) == ~invite[i].used /\ ~invite[i].expired

AcceptInvite(h, i, email) ==
  /\ req[h].pc = "idle"
  /\ invite[i] # None /\ Unused(i)
  /\ req' = [req EXCEPT ![h] = [pc |-> "member", email |-> email, invite |-> i,
                                role |-> invite[i].role]]
  /\ reused' = reused \cup IF \E g \in Handlers : req[g].invite = i THEN {i} ELSE {}
  /\ UNCHANGED <<rows, owners, accounts, overlap, emptied>>

\* A taken address throws, and leaves the invite as it is.
CreateUser(h) ==
  /\ req[h].pc = "member"
  /\ \/ /\ ~Taken(req[h].email)
        /\ NewUser(req[h].email, req[h].role)
        /\ accounts' = [accounts EXCEPT ![req[h].invite] = @ + 1]
        /\ req' = [req EXCEPT ![h].pc = "mark"]
        /\ UNCHANGED <<invite, tokens>>
     \/ /\ Taken(req[h].email)
        /\ Return(h)
        /\ UNCHANGED <<rows, accounts>>
  /\ UNCHANGED <<owners, overlap, reused, emptied>>

MarkUsed(h) ==
  /\ req[h].pc = "mark" /\ Return(h)
  /\ invite' = [invite EXCEPT ![req[h].invite].used = TRUE]
  /\ UNCHANGED <<user, tokens, ids, history>>

\* The backend dies, or the next statement throws.
Fail(h) ==
  /\ req[h].pc # "idle" /\ Return(h)
  /\ reused' = reused \cup IF req[h].pc = "mark" THEN {req[h].invite} ELSE {}
  /\ UNCHANGED <<rows, owners, accounts, overlap, emptied>>

Next ==
  \/ \E h \in Handlers :
       \/ \E e \in Emails : Setup(h, e) \/ \E i \in InviteIds : AcceptInvite(h, i, e)
       \/ CreateOwner(h) \/ CreateUser(h) \/ MarkUsed(h) \/ Fail(h)
  \/ \E u \in UserIds : Login(u) \/ DeleteUser(u) \/ \E r \in Role : UpdateRole(u, r)
  \/ \E t \in tokens :
       TokenExpires(t) \/ \E i \in InviteIds, r \in Role : CreateInvite(t, i, r)
  \/ \E i \in InviteIds : InviteExpires(i)

Spec == Init /\ [][Next]_vars
----------------------------------------------------------------------------
(***************************************************************************)
(* Set-ups that do not meet make one owner, as long as a user is left; the *)
(* count and the insert of AuthService.setup are two awaits.  Likewise an  *)
(* invite makes one account, unless two acceptances of it meet or one      *)
(* stops before it is marked; and it is never used up without an account.  *)
(***************************************************************************)
OneOwner == ~overlap /\ ~emptied => owners <= 1
InvitesAccounted ==
  \A i \in InviteIds :
    /\ i \notin reused => accounts[i] <= 1
    /\ invite[i] # None /\ invite[i].used => accounts[i] >= 1
=============================================================================
