---------------------------- MODULE AuthSessions ----------------------------
(***************************************************************************)
(* Accounts and the sessions that live off them (services/auth_service.py  *)
(* and api/auth_routes.py): logging in and out, changing and resetting     *)
(* passwords, roles and status, and the revocation each of these promises. *)
(*                                                                         *)
(* A request is admitted, reads the account it is about, commits its       *)
(* change, and revokes sessions in a transaction of its own; a log-in      *)
(* authenticates in one transaction and inserts its session in another.    *)
(* Each is a step, and the process may die between any two.                *)
(*                                                                         *)
(* Passwords are left out but for what tells them apart: whether somebody  *)
(* else set the account's, and whether it, the role or the status changed  *)
(* since a session's log-in.  A revoked or expired session never counts    *)
(* again: its row is as good as gone.  Roles without users.manage are one  *)
(* role, "user".  A refused request is no step.                            *)
(***************************************************************************)
EXTENDS Naturals, FiniteSets

CONSTANTS User, Root,          \* accounts; the one a fresh database begins with
          Session,             \* bound: sessions alive at a time
          Writer,              \* threads that serve requests of people logged in
          Greeter,             \* threads that serve log-ins
          NoUser,
          AdminToken,          \* ADMIN_TOKEN is configured
          Overlaps             \* bound: a change may be read between another's read and commit

ASSUME AuthAssumption ==
  /\ Root \in User /\ NoUser \notin User
  /\ Writer \intersect Greeter = {}
  /\ AdminToken \in BOOLEAN /\ Overlaps \in BOOLEAN

VARIABLES users,      \* rows of users
          sessions,   \* rows of user_sessions
          req         \* the request each thread is serving

vars == <<users, sessions, req>>

Role   == {"user", "admin", "super_admin"}
Status == {"active", "disabled"}
Manager == {"admin", "super_admin"}      \* the roles with users.manage

\* temp: history, the password is one somebody else gave.
Account == [status : Status \union {"absent"}, role : Role, must : BOOLEAN, temp : BOOLEAN]
NoAccount == [status |-> "absent", role |-> "user", must |-> FALSE, temp |-> FALSE]

\* stale: history, the account has changed since the session was inserted; missed:
\* it has changed and the revocation did not see the session, for the log-in was
\* between its two transactions or the process died before it.
Row == [user : User \union {NoUser}, kind : {"current", "missed", "stale"}]
NoRow == [user |-> NoUser, kind |-> "current"]

Op == {"none", "issue", "admitted", "update", "reset", "change", "revoke"}

\* who, role and must are current_user's copy of the account; target is the account
\* read, write the columns whose new value differs from the one read and revoking
\* whether sessions are to be revoked.  changed: history, a change of the account
\* admitted, or authenticated, that revokes was committed since.
Write   == [role : SUBSET Role, status : SUBSET Status, must : SUBSET BOOLEAN]
NoWrite == [role |-> {}, status |-> {}, must |-> {}]
Request == [op : Op, who : User \union {NoUser}, role : Role, must : BOOLEAN,
            target : User \union {NoUser}, write : Write, revoking : BOOLEAN,
            changed : BOOLEAN]
NoReq == [op |-> "none", who |-> NoUser, role |-> "user", must |-> FALSE,
          target |-> NoUser, write |-> NoWrite, revoking |-> FALSE,
          changed |-> FALSE]

TypeOK ==
  /\ users \in [User -> Account] /\ sessions \in [Session -> Row]
  /\ req \in [Writer \union Greeter -> Request]
  /\ \A t \in DOMAIN req : req[t].op \notin {"none", "admitted"} => req[t].target \in User

Active(u) == users[u].status = "active"
SuperAdmins == {u \in User : Active(u) /\ users[u].role = "super_admin"}

\* ensure_default_users on an empty database: the demonstration accounts, forced
\* to change their passwords or not, or one super administrator, who is.
Init ==
  /\ \/ \E must \in BOOLEAN :
          users = [u \in User |-> [NoAccount EXCEPT !.status = "active", !.must = must,
                     !.role = IF u = Root THEN "super_admin" ELSE "user"]]
     \/ users = [u \in User |-> IF u # Root THEN NoAccount
                   ELSE [status |-> "active", role |-> "super_admin", must |-> TRUE, temp |-> TRUE]]
  /\ sessions = [s \in Session |-> NoRow]
  /\ req = [t \in Writer \union Greeter |-> NoReq]
-----------------------------------------------------------------------------
(* Logging in and out.                                                     *)

\* login, authenticate: the account is active and the password the current one.
Authenticate(t, u) ==
  /\ req[t] = NoReq /\ Active(u)
  /\ req' = [req EXCEPT ![t] = [NoReq EXCEPT !.op = "issue", !.target = u]]
  /\ UNCHANGED <<users, sessions>>

\* issue_session_token.
Issue(t) ==
  /\ req[t].op = "issue"
  /\ \E s \in Session :
       /\ sessions[s] = NoRow
       /\ sessions' = [sessions EXCEPT ![s] =
            [user |-> req[t].target, kind |-> IF req[t].changed THEN "missed" ELSE "current"]]
  /\ req' = [req EXCEPT ![t] = NoReq]
  /\ UNCHANGED users

\* revoke_session, which needs no admission, or the passing of expires_at.
EndSession(s) ==
  /\ sessions[s] # NoRow
  /\ sessions' = [sessions EXCEPT ![s] = NoRow]
  /\ UNCHANGED <<users, req>>
-----------------------------------------------------------------------------
(* Admission: current_user.  What it copied is what the handler goes by.   *)

\* get_user before session_is_active: both hold of the moment of the first, for a
\* session never comes back to life.
Admit(t, s) ==
  /\ req[t] = NoReq /\ sessions[s] # NoRow
  /\ LET u == sessions[s].user IN
       /\ Active(u)
       /\ req' = [req EXCEPT ![t] = [NoReq EXCEPT !.op = "admitted", !.who = u,
                                       !.role = users[u].role, !.must = users[u].must]]
  /\ UNCHANGED <<users, sessions>>

\* X-Admin-Token stands for a super administrator who is nobody's account.
AdmitToken(t) ==
  /\ AdminToken /\ req[t] = NoReq
  /\ req' = [req EXCEPT ![t] = [NoReq EXCEPT !.op = "admitted", !.role = "super_admin"]]
  /\ UNCHANGED <<users, sessions>>

\* Faulty variant: the capabilities are those of the role alone.
ManagesByRole(t) == req[t].op = "admitted" /\ req[t].role \in Manager

\* require_capability("users.manage"): who must change his password has one
\* capability only.
Manages(t) == req[t].op = "admitted" /\ req[t].role \in Manager /\ ~req[t].must

Reading == {"update", "reset", "change"}

\* The handler has read account u and computed what to write.
Reads(t, op, u, write, revoking) ==
  /\ Overlaps \/ \A w \in Writer : req[w].op \notin Reading
  /\ req' = [req EXCEPT ![t] = [@ EXCEPT !.op = op, !.must = FALSE, !.target = u,
                                         !.write = write, !.revoking = revoking]]
  /\ UNCHANGED <<users, sessions>>

\* Faulty variant: only the role granted is looked at, not the one held.
MayTouchAny(t, u) == users[u] # NoAccount

\* What update_user, create_user and reset_password let an administrator touch.
MayTouch(t, u) == users[u].role # "super_admin" \/ req[t].role = "super_admin"
MayGrant(t, role) == role # "super_admin" \/ req[t].role = "super_admin"
\* The end of a transaction on account u that leaves t with q; the rest is history.
Commits(t, q, u, revoking) ==
  LET Concerned(w) == u = IF req[w].op = "issue" THEN req[w].target ELSE req[w].who IN
  /\ req' = [w \in DOMAIN req |->
       IF w = t THEN q
       ELSE [req[w] EXCEPT !.changed = @ \/ (revoking /\ Concerned(w))]]
  /\ sessions' = [s \in Session |-> IF revoking /\ sessions[s].user = u
                                    THEN [sessions[s] EXCEPT !.kind = "stale"] ELSE sessions[s]]
-----------------------------------------------------------------------------
(* Requests that change an account.                                        *)

\* create_user: the unique user name decides.
CreateUser(t, u, role) ==
  /\ Manages(t) /\ users[u] = NoAccount /\ MayGrant(t, role)
  /\ users' = [users EXCEPT ![u] = [NoAccount EXCEPT !.status = "active", !.role = role]]
  /\ Commits(t, NoReq, u, FALSE)

\* Faulty variant: only a change of role is counted as losing a super administrator.
KeepsSuperAdminByRole(u, role, status) ==
  (users[u].role = "super_admin" /\ Active(u) /\ role # "super_admin")
    => Cardinality(SuperAdmins) > 1

\* removes_active_super_admin: one must be left.
KeepsSuperAdmin(u, role, status) ==
  (users[u].role = "super_admin" /\ Active(u) /\ (role # "super_admin" \/ status # "active"))
    => Cardinality(SuperAdmins) > 1

\* Faulty variant: a change of role leaves the sessions alone.
RevokesOnDisable(u, role, status) == status = "disabled"

Revokes(u, role, status) == role # users[u].role \/ status = "disabled"

Differs(new, old)  == {new} \ {old}
Column(write, old) == IF write = {} THEN old ELSE CHOOSE new \in write : TRUE

\* update_user up to its flush.
Update(t, u, role, status) ==
  /\ Manages(t) /\ users[u] # NoAccount
  /\ MayTouch(t, u) /\ MayGrant(t, role)
  /\ u = req[t].who => status # "disabled"
  /\ KeepsSuperAdmin(u, role, status)
  /\ Reads(t, "update", u, [NoWrite EXCEPT !.role = Differs(role, users[u].role),
                                           !.status = Differs(status, users[u].status)],
           Revokes(u, role, status))

\* reset_password and change_password up to their flush.
Reset(t, u) ==
  /\ Manages(t) /\ users[u] # NoAccount /\ MayTouch(t, u)
  /\ Reads(t, "reset", u, [NoWrite EXCEPT !.must = Differs(TRUE, users[u].must)], TRUE)

Change(t) ==
  /\ req[t].op = "admitted" /\ req[t].who # NoUser
  /\ LET u == req[t].who IN
     Reads(t, "change", u, [NoWrite EXCEPT !.must = Differs(FALSE, users[u].must)], TRUE)

\* The UPDATE names the columns whose value is new; the password always is.
Commit(t) ==
  LET q == req[t] IN
  /\ q.op \in Reading
  /\ users' = [users EXCEPT ![q.target] =
       [status |-> Column(q.write.status, @.status), role |-> Column(q.write.role, @.role),
        must |-> Column(q.write.must, @.must),
        temp |-> CASE q.op = "reset" -> TRUE [] q.op = "change" -> FALSE [] OTHER -> @.temp]]
  /\ Commits(t, IF q.revoking THEN [NoReq EXCEPT !.op = "revoke", !.target = q.target] ELSE NoReq,
             q.target, q.op # "update" \/ q.write.role # {} \/ q.write.status = {"disabled"})

\* Faulty variant: whoever comes with the admin token has sessions, too.
LogoutAllTokens(t) ==
  /\ req[t].op = "admitted"
  /\ req' = [req EXCEPT ![t] = [NoReq EXCEPT !.op = "revoke", !.target = req[t].who]]
  /\ UNCHANGED <<users, sessions>>

\* logout_all revokes at once.
LogoutAll(t) ==
  /\ req[t].op = "admitted" /\ req[t].who # NoUser
  /\ req' = [req EXCEPT ![t] = [NoReq EXCEPT !.op = "revoke", !.target = req[t].who]]
  /\ UNCHANGED <<users, sessions>>

\* revoke_all_sessions: one UPDATE.
RevokeAll(t) ==
  /\ req[t].op = "revoke"
  /\ sessions' = [s \in Session |->
       IF sessions[s].user = req[t].target THEN NoRow ELSE sessions[s]]
  /\ req' = [req EXCEPT ![t] = NoReq]
  /\ UNCHANGED users

\* Any other request of somebody logged in.
Leave(t) ==
  /\ req[t].op = "admitted"
  /\ req' = [req EXCEPT ![t] = NoReq]
  /\ UNCHANGED <<users, sessions>>

Crash ==
  /\ \E t \in Writer \union Greeter : req[t] # NoReq
  /\ sessions' = [s \in Session |->
       IF \E t \in Writer : req[t].op = "revoke" /\ req[t].target = sessions[s].user
       THEN [sessions[s] EXCEPT !.kind = IF @ = "stale" THEN "missed" ELSE @] ELSE sessions[s]]
  /\ req' = [t \in Writer \union Greeter |-> NoReq]
  /\ UNCHANGED users
-----------------------------------------------------------------------------
Handle(t) ==
  \/ \E s \in Session : Admit(t, s)
  \/ AdmitToken(t)
  \/ \E u \in User :
       \/ Reset(t, u)
       \/ \E role \in Role :
            \/ CreateUser(t, u, role)
            \/ \E status \in Status : Update(t, u, role, status)
  \/ Change(t) \/ Commit(t)
  \/ LogoutAll(t) \/ RevokeAll(t) \/ Leave(t)

Next ==
  \/ \E t \in Writer : Handle(t)
  \/ \E t \in Greeter : Issue(t) \/ \E u \in User : Authenticate(t, u)
  \/ \E s \in Session : EndSession(s)
  \/ Crash

Spec == Init /\ [][Next]_vars
-----------------------------------------------------------------------------
(* Properties.  Two changes overlap when one is read before the other is   *)
(* committed; no lock and no transaction prevents it, and LastSuperAdmin,  *)
(* TemporaryPasswordOnlyChanges and SuperAdminsAmongThemselves hold of     *)
(* changes that do not.                                                    *)

\* An active super administrator is left, however accounts demote and disable each
\* other and themselves, whoever was admitted before it (update_user).  The types are
\* part of it.
LastSuperAdmin == TypeOK /\ SuperAdmins # {}

\* A session whose account has changed since it was inserted is about to be revoked,
\* or the process died between the change and its revocation.
StaleSessionsExplained == \A s \in Session :
  sessions[s].kind = "stale" =>
    \E t \in Writer : req[t].op = "revoke" /\ req[t].target = sessions[s].user

\* Whoever has a password somebody else gave him is not admitted to anything but
\* changing it, through any sequence of resets, log-ins and changes of role; only a
\* request admitted before the reset may still be at work.
TemporaryPasswordOnlyChanges ==
  \A t \in Writer :
    req[t].op \in {"update", "reset"} /\ req[t].who # NoUser =>
      ~users[req[t].who].temp \/ req[t].changed

\* Nobody is made a super administrator, and no super administrator is changed, but
\* by a request whose maker was a super administrator when he was admitted, or that
\* changes the requester's own account.
AmongThemselves == \A u \in User :
  (users[u].role = "super_admin" \/ users'[u].role = "super_admin") /\ users'[u] # users[u]
    => \E t \in Writer : /\ req'[t] # req[t]
                         /\ req[t].role = "super_admin" \/ req[t].who = u
SuperAdminsAmongThemselves == [][AmongThemselves]_vars

\* What a request does is within the rights its maker had, through changes of role and
\* password while it is served (require_capability, update_user).
RequestsKeepToTheirRights == []TemporaryPasswordOnlyChanges /\ SuperAdminsAmongThemselves
=============================================================================
