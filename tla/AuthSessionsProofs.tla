-------------------------- MODULE AuthSessionsProofs --------------------------
(***************************************************************************)
(* Proofs about AuthSessions, for any accounts, sessions and threads.      *)
(* That stale sessions are explained holds however requests overlap; the   *)
(* last super administrator, and that requests keep to their rights, are   *)
(* proved of changes that do not overlap, as the module says.              *)
(***************************************************************************)
EXTENDS AuthSessions, FiniteSetTheorems, TLAPS

Thread == Writer \union Greeter

\* Threads serve either log-ins or other requests; a request about an account has one.
Programs ==
  /\ \A t \in Greeter : req[t].op \in {"none", "issue"}
  /\ \A t \in Writer : req[t].op # "issue"

\* A session that counts is somebody's.
Owned == \A s \in Session : sessions[s].user = NoUser => sessions[s] = NoRow

\* What an account's holder would notice of a request, its sessions are revoked for.
Noticed(q) == q.op # "update" \/ q.write.role # {} \/ q.write.status = {"disabled"}
WritesRevoke == \A t \in Writer :
  req[t].op \in Reading /\ Noticed(req[t]) => req[t].revoking

IInv == TypeOK /\ Programs /\ Owned /\ WritesRevoke /\ StaleSessionsExplained

\* Between the reading of an account and the commit nobody else has read one.
OneReader == \A v, w \in Writer :
  req[v].op \in Reading /\ req[w].op \in Reading => v = w

\* The change about to be committed leaves an active super administrator.
LeavesOne(q) == \E u \in SuperAdmins :
  u # q.target \/ (q.write.role \subseteq {"super_admin"} /\ q.write.status \subseteq {"active"})

\* It is within the rights of its maker, as the account is now.
Within(q) ==
  /\ q.op = "change" => q.target = q.who
  /\ q.op # "change" =>
       /\ users[q.target] # NoAccount
       /\ users[q.target].role # "super_admin" \/ q.role = "super_admin"
       /\ "super_admin" \in q.write.role => q.role = "super_admin"
  /\ q.op = "update" => q.write.must = {}
  /\ q.op = "reset" => q.write.must \subseteq {TRUE} /\ (q.write.must = {} => users[q.target].must)

ReadersKeep == \A t \in Writer : req[t].op \in Reading => LeavesOne(req[t]) /\ Within(req[t])

\* A password somebody else gave has to be changed, and whoever was admitted to more
\* had none at the time.
TemporaryMust == \A u \in User : users[u].temp => users[u].must
AdmittedToMore == \A t \in Writer :
  req[t].op \in {"admitted", "update", "reset"} /\ req[t].who # NoUser /\ ~req[t].must =>
    ~users[req[t].who].temp \/ req[t].changed

Unforced == \A t \in Writer : req[t].op \in {"update", "reset"} => ~req[t].must

SomeSuperAdmin == SuperAdmins # {} /\ IsFiniteSet(SuperAdmins)

NInv ==
  /\ IInv /\ OneReader /\ ReadersKeep /\ TemporaryMust /\ AdmittedToMore
  /\ Unforced /\ SomeSuperAdmin

-----------------------------------------------------------------------------
(* What the model's operators make.                                        *)

LEMMA Constants ==
  /\ NoReq \in Request /\ NoRow \in Row /\ NoAccount \in Account
  /\ Writer \subseteq Thread /\ Greeter \subseteq Thread /\ NoUser \notin User
BY AuthAssumption DEF NoReq, Request, NoRow, Row, NoAccount, Account, NoWrite, Write, Op, Role,
                      Status, Thread

\* A column keeps its value or gets the one to be written.
LEMMA Columns ==
  ASSUME NEW S, NEW write \in SUBSET S, NEW old
  PROVE  IF write = {} THEN Column(write, old) = old ELSE Column(write, old) \in write
<1>1. CASE write = {}
  BY <1>1 DEF Column
<1>2. CASE write # {}
  <2>1. PICK value \in write : TRUE
    BY <1>2
  <2>2. (CHOOSE new \in write : TRUE) \in write
    BY <2>1
  <2> QED BY <1>2, <2>2 DEF Column
<1> QED BY <1>1, <1>2

\* The end of a transaction on account u: thread t goes on with q, the others keep all
\* but their history, and the sessions of u turn stale if it revokes.
LEMMA CommitsMakes ==
  ASSUME TypeOK, NEW t \in Writer, NEW q \in Request, NEW u \in User, NEW revoking \in BOOLEAN,
         Commits(t, q, u, revoking)
  PROVE  /\ req' \in [Thread -> Request] /\ req'[t] = q
         /\ \A w \in Thread \ {t} :
              /\ req'[w].op = req[w].op /\ req'[w].who = req[w].who /\ req'[w].role = req[w].role
              /\ req'[w].must = req[w].must /\ req'[w].target = req[w].target
              /\ req'[w].write = req[w].write /\ req'[w].revoking = req[w].revoking
              /\ req[w].changed => req'[w].changed
              /\ revoking /\ req[w].op # "issue" /\ req[w].who = u => req'[w].changed
         /\ sessions' \in [Session -> Row]
         /\ \A s \in Session :
              sessions'[s].user = sessions[s].user
              /\ (sessions'[s] = sessions[s] \/ (revoking /\ sessions[s].user = u))
<1>1. req \in [Thread -> Request] /\ sessions \in [Session -> Row] /\ t \in Thread
  BY DEF TypeOK, Thread
<1> DEFINE Concerned(w) == u = IF req[w].op = "issue" THEN req[w].target ELSE req[w].who
<1>2. req' = [w \in Thread |-> IF w = t THEN q
                ELSE [req[w] EXCEPT !.changed = @ \/ (revoking /\ Concerned(w))]]
  BY <1>1 DEF Commits
<1>3. \A w \in Thread : [req[w] EXCEPT !.changed = @ \/ (revoking /\ Concerned(w))] \in Request
  BY <1>1 DEF Request
<1>4. req' \in [Thread -> Request] /\ req'[t] = q
  BY <1>1, <1>2, <1>3
<1>5. ASSUME NEW w \in Thread, w # t
      PROVE  /\ req'[w].op = req[w].op /\ req'[w].who = req[w].who /\ req'[w].role = req[w].role
             /\ req'[w].must = req[w].must /\ req'[w].target = req[w].target
             /\ req'[w].write = req[w].write /\ req'[w].revoking = req[w].revoking
             /\ req[w].changed => req'[w].changed
             /\ revoking /\ req[w].op # "issue" /\ req[w].who = u => req'[w].changed
  BY <1>1, <1>2, <1>5 DEF Request
<1>6. sessions' = [s \in Session |-> IF revoking /\ sessions[s].user = u
                                     THEN [sessions[s] EXCEPT !.kind = "stale"] ELSE sessions[s]]
  BY DEF Commits
<1>7. sessions' \in [Session -> Row]
  BY <1>1, <1>6 DEF Row
<1>8. ASSUME NEW s \in Session
      PROVE  sessions'[s].user = sessions[s].user
             /\ (sessions'[s] = sessions[s] \/ (revoking /\ sessions[s].user = u))
  <2>1. CASE revoking /\ sessions[s].user = u
    BY <1>1, <1>6, <2>1 DEF Row
  <2>2. CASE ~(revoking /\ sessions[s].user = u)
    <3>1. sessions'[s] = sessions[s]
      BY <1>6, <2>2
    <3> QED BY <3>1
  <2> QED BY <2>1, <2>2
<1> QED BY <1>4, <1>5, <1>7, <1>8

\* A request that has read an account.
LEMMA ReadsMakes ==
  ASSUME TypeOK, NEW t \in Writer, NEW op \in Op, NEW u \in User, NEW write \in Write,
         NEW revoking \in BOOLEAN, Reads(t, op, u, write, revoking)
  PROVE  /\ req' \in [Thread -> Request] /\ (\A w \in Thread \ {t} : req'[w] = req[w])
         /\ req'[t].op = op /\ req'[t].target = u /\ req'[t].write = write
         /\ req'[t].revoking = revoking /\ ~req'[t].must
         /\ req'[t].who = req[t].who /\ req'[t].role = req[t].role
         /\ req'[t].changed = req[t].changed
         /\ UNCHANGED <<users, sessions>>
<1> DEFINE q == [req[t] EXCEPT !.op = op, !.must = FALSE, !.target = u,
                               !.write = write, !.revoking = revoking]
<1>1. req \in [Thread -> Request] /\ t \in Thread
  BY DEF TypeOK, Thread
<1>2. req' = [req EXCEPT ![t] = q] /\ UNCHANGED <<users, sessions>>
  BY DEF Reads
<1>3. /\ q \in Request /\ q.op = op /\ q.target = u /\ q.write = write
      /\ q.revoking = revoking /\ ~q.must
      /\ q.who = req[t].who /\ q.role = req[t].role /\ q.changed = req[t].changed
  BY <1>1 DEF Request
<1> HIDE DEF q
<1> QED BY <1>1, <1>2, <1>3

\* What the three readers have computed.
LEMMA ReadersMake ==
  ASSUME TypeOK, Programs, NEW t \in Writer
  PROVE  /\ \A u \in User, role \in Role, status \in Status : Update(t, u, role, status) =>
              /\ [NoWrite EXCEPT !.role = Differs(role, users[u].role),
                                 !.status = Differs(status, users[u].status)] \in Write
              /\ Revokes(u, role, status) \in BOOLEAN
         /\ \A u \in User : [NoWrite EXCEPT !.must = Differs(TRUE, users[u].must)] \in Write
         /\ \A u \in User : [NoWrite EXCEPT !.must = Differs(FALSE, users[u].must)] \in Write
BY DEF NoWrite, Write, Differs, Revokes, Status, Role

\* The commit of a reader: one account changes, in the columns to be written.
LEMMA CommitMakes ==
  ASSUME TypeOK, NEW t \in Writer, Commit(t)
  PROVE  /\ req[t].op \in Reading /\ req[t].target \in User
         /\ users' \in [User -> Account]
         /\ \A u \in User \ {req[t].target} : users'[u] = users[u]
         /\ LET q == req[t]  old == users[q.target]  new == users'[q.target]  IN
              /\ IF q.write.role = {} THEN new.role = old.role ELSE new.role \in q.write.role
              /\ IF q.write.status = {} THEN new.status = old.status
                 ELSE new.status \in q.write.status
              /\ IF q.write.must = {} THEN new.must = old.must ELSE new.must \in q.write.must
              /\ new.temp = (q.op = "reset" \/ (q.op = "update" /\ old.temp))
         /\ LET q == IF req[t].revoking THEN [NoReq EXCEPT !.op = "revoke", !.target = req[t].target]
                     ELSE NoReq
            IN q \in Request /\ Commits(t, q, req[t].target, Noticed(req[t]))
<1> DEFINE q    == req[t]
           old  == users[q.target]
           temp == CASE q.op = "reset" -> TRUE [] q.op = "change" -> FALSE [] OTHER -> old.temp
           role == Column(q.write.role, old.role)
           status == Column(q.write.status, old.status)
           must == Column(q.write.must, old.must)
           new  == [status |-> status, role |-> role, must |-> must, temp |-> temp]
<1>1. q \in Request /\ q.op \in Reading /\ q.target \in User /\ old \in Account
  BY DEF TypeOK, Commit, Reading
<1>2. users' = [users EXCEPT ![q.target] = new]
  BY DEF Commit
<1>3. q.write.role \in SUBSET Role /\ q.write.status \in SUBSET Status
      /\ q.write.must \in SUBSET BOOLEAN
  BY <1>1 DEF Request, Write
<1>4. /\ IF q.write.role = {} THEN role = old.role ELSE role \in q.write.role
      /\ IF q.write.status = {} THEN status = old.status ELSE status \in q.write.status
      /\ IF q.write.must = {} THEN must = old.must ELSE must \in q.write.must
  BY <1>3, Columns
<1>5. temp = (q.op = "reset" \/ (q.op = "update" /\ old.temp)) /\ temp \in BOOLEAN
  BY <1>1 DEF Reading, Account
<1> HIDE DEF role, status, must, temp
<1>6. new \in Account
  BY <1>1, <1>3, <1>4, <1>5 DEF Account
<1>7. /\ new.role = role /\ new.status = status /\ new.must = must /\ new.temp = temp
  OBVIOUS
<1>8. users \in [User -> Account]
  BY DEF TypeOK
<1> HIDE DEF new
<1>9. users' \in [User -> Account] /\ users'[q.target] = new
      /\ \A u \in User \ {q.target} : users'[u] = users[u]
  BY <1>1, <1>2, <1>6, <1>8
<1>10. [NoReq EXCEPT !.op = "revoke", !.target = q.target] \in Request
  BY <1>1, Constants DEF Request, Op
<1> QED BY <1>1, <1>4, <1>5, <1>7, <1>9, <1>10, Constants DEF Commit, Noticed

-----------------------------------------------------------------------------
(* Revocation.                                                             *)

LEMMA IInvInit == Init => IInv
<1> SUFFICES ASSUME Init PROVE IInv
  OBVIOUS
<1>1. users \in [User -> Account]
  <2>1. \A must \in BOOLEAN, role \in Role :
          [NoAccount EXCEPT !.status = "active", !.must = must, !.role = role] \in Account
    BY DEF Account, NoAccount, Status
  <2>2. [status |-> "active", role |-> "super_admin", must |-> TRUE, temp |-> TRUE] \in Account
    BY DEF Account, Role, Status
  <2>3. CASE \E must \in BOOLEAN :
               users = [u \in User |-> [NoAccount EXCEPT !.status = "active", !.must = must,
                          !.role = IF u = Root THEN "super_admin" ELSE "user"]]
    BY <2>1, <2>3 DEF Role
  <2>4. CASE users = [u \in User |-> IF u # Root THEN NoAccount
                        ELSE [status |-> "active", role |-> "super_admin", must |-> TRUE, temp |-> TRUE]]
    BY <2>2, <2>4, Constants
  <2> QED BY <2>3, <2>4 DEF Init
<1>2. TypeOK
  BY <1>1, Constants DEF Init, TypeOK, NoReq, NoRow
<1> QED BY <1>2 DEF Init, IInv, Programs, Owned, WritesRevoke, StaleSessionsExplained, Noticed, NoReq,
                    NoRow, Reading

\* Reading an account leaves the sessions to those who revoke them.
LEMMA ReadsRevoke ==
  ASSUME IInv, NEW t \in Writer, NEW op \in Reading, NEW u \in User, NEW write \in Write,
         NEW revoking \in BOOLEAN, Reads(t, op, u, write, revoking), req[t].op = "admitted",
         op # "update" \/ write.role # {} \/ write.status = {"disabled"} => revoking
  PROVE  IInv'
<1> USE DEF IInv, Reading
<1>1. op \in Op
  BY DEF Op
<1>2. /\ req' \in [Thread -> Request] /\ (\A w \in Thread \ {t} : req'[w] = req[w])
      /\ req'[t].op = op /\ req'[t].target = u /\ req'[t].write = write
      /\ req'[t].revoking = revoking /\ UNCHANGED <<users, sessions>>
  BY <1>1, ReadsMakes
<1>3. t \in Thread /\ t \notin Greeter
  BY AuthAssumption DEF Thread
<1>4. TypeOK'
  BY <1>2, <1>3 DEF TypeOK, Thread
<1>5. Programs' /\ Owned'
  BY <1>2, <1>3, Constants DEF Programs, Owned
<1>6. WritesRevoke'
  BY <1>2, <1>3, Constants DEF WritesRevoke, Noticed
<1>7. StaleSessionsExplained'
  BY <1>2, <1>3, Constants DEF StaleSessionsExplained
<1> QED BY <1>4, <1>5, <1>6, <1>7

LEMMA IInvStep == IInv /\ [Next]_vars => IInv'
<1> SUFFICES ASSUME IInv, [Next]_vars PROVE IInv'
  OBVIOUS
<1> USE Constants, AuthAssumption DEF IInv
<1>1. ASSUME NEW t \in Greeter, NEW u \in User, Authenticate(t, u) PROVE IInv'
  <2>1. [NoReq EXCEPT !.op = "issue", !.target = u] \in Request
    BY DEF Request, Op
  <2>2. TypeOK'
    BY <1>1, <2>1 DEF TypeOK, Authenticate, Thread, NoReq
  <2> QED BY <1>1, <2>2 DEF TypeOK, Thread, Authenticate, Programs, Owned, WritesRevoke,
                          StaleSessionsExplained, Noticed, Reading, NoReq
<1>2. ASSUME NEW t \in Greeter, Issue(t) PROVE IInv'
  <2>1. PICK s \in Session :
          /\ sessions[s] = NoRow
          /\ sessions' = [sessions EXCEPT ![s] =
               [user |-> req[t].target, kind |-> IF req[t].changed THEN "missed" ELSE "current"]]
    BY <1>2 DEF Issue
  <2>2. req[t].target \in User /\ req' = [req EXCEPT ![t] = NoReq] /\ UNCHANGED users
    BY <1>2 DEF Issue, TypeOK
  <2>3. TypeOK'
    BY <2>1, <2>2 DEF TypeOK, Row, NoReq
  <2> QED BY <1>2, <2>1, <2>2, <2>3 DEF TypeOK, Thread, Programs, Owned, WritesRevoke,
                          StaleSessionsExplained, Noticed, Reading, NoReq, Row
<1>3. ASSUME NEW s \in Session, EndSession(s) PROVE IInv'
  BY <1>3 DEF TypeOK, EndSession, Programs, Owned, WritesRevoke, StaleSessionsExplained, NoRow
<1>4. ASSUME NEW t \in Writer, NEW s \in Session, Admit(t, s) PROVE IInv'
  <2> DEFINE q == [NoReq EXCEPT !.op = "admitted", !.who = sessions[s].user,
                     !.role = users[sessions[s].user].role, !.must = users[sessions[s].user].must]
  <2>1. sessions[s].user \in User
    BY <1>4 DEF Admit, Owned, TypeOK, Row
  <2>2. q \in Request /\ q.op = "admitted"
    BY <2>1 DEF TypeOK, Account, Request, Op, NoReq
  <2>3. req' = [req EXCEPT ![t] = q] /\ UNCHANGED <<users, sessions>> /\ req[t] = NoReq
    BY <1>4 DEF Admit
  <2> HIDE DEF q
  <2> QED BY <2>2, <2>3 DEF TypeOK, Thread, Programs, Owned, WritesRevoke,
                          StaleSessionsExplained, Noticed, Reading, NoReq
<1>5. ASSUME NEW t \in Writer, AdmitToken(t) PROVE IInv'
  <2> DEFINE q == [NoReq EXCEPT !.op = "admitted", !.role = "super_admin"]
  <2>1. q \in Request /\ q.op = "admitted"
    BY DEF Request, Op, NoReq, Role
  <2>2. req' = [req EXCEPT ![t] = q] /\ UNCHANGED <<users, sessions>> /\ req[t] = NoReq
    BY <1>5 DEF AdmitToken
  <2> HIDE DEF q
  <2> QED BY <2>1, <2>2 DEF TypeOK, Thread, Programs, Owned, WritesRevoke,
                          StaleSessionsExplained, Noticed, Reading, NoReq
<1>6. ASSUME NEW t \in Writer, NEW u \in User, Reset(t, u) PROVE IInv'
  BY <1>6, ReadsRevoke, ReadersMake DEF Reset, Manages, Reading
<1>7. ASSUME NEW t \in Writer, Change(t) PROVE IInv'
  <2>1. req[t].who \in User
    BY <1>7 DEF Change, TypeOK, Thread, Request
  <2> QED BY <1>7, <2>1, ReadsRevoke, ReadersMake DEF Change, Reading
<1>8. ASSUME NEW t \in Writer, NEW u \in User, NEW role \in Role, NEW status \in Status,
             Update(t, u, role, status)
      PROVE  IInv'
  <2> DEFINE write == [NoWrite EXCEPT !.role = Differs(role, users[u].role),
                                      !.status = Differs(status, users[u].status)]
  <2>1. write \in Write /\ Revokes(u, role, status) \in BOOLEAN
    BY <1>8, ReadersMake
  <2>2. write.role # {} \/ write.status = {"disabled"} => Revokes(u, role, status)
    BY DEF NoWrite, Differs, Revokes
  <2>3. Reads(t, "update", u, write, Revokes(u, role, status)) /\ req[t].op = "admitted"
    BY <1>8 DEF Update, Manages
  <2> HIDE DEF write
  <2> QED BY <2>1, <2>2, <2>3, ReadsRevoke DEF Reading
<1>9. ASSUME NEW t \in Writer, NEW u \in User, NEW role \in Role, CreateUser(t, u, role)
      PROVE  IInv'
  <2>1. [NoAccount EXCEPT !.status = "active", !.role = role] \in Account
    BY DEF Account, NoAccount, Status
  <2>2. users' \in [User -> Account]
    BY <1>9, <2>1 DEF CreateUser, TypeOK
  <2>3. req[t].op = "admitted" /\ Commits(t, NoReq, u, FALSE)
    BY <1>9 DEF CreateUser, Manages
  <2> DEFINE no == FALSE
  <2>4. no \in BOOLEAN /\ Commits(t, NoReq, u, no) /\ ~no
    BY <2>3
  <2> HIDE DEF no
  <2>5. /\ req' \in [Thread -> Request] /\ req'[t] = NoReq
        /\ \A w \in Thread \ {t} :
             req'[w].op = req[w].op /\ req'[w].target = req[w].target
             /\ req'[w].write = req[w].write /\ req'[w].revoking = req[w].revoking
        /\ sessions' \in [Session -> Row]
        /\ \A s \in Session : sessions'[s] = sessions[s]
    BY <2>4, CommitsMakes
  <2>6. TypeOK'
    BY <2>2, <2>5 DEF TypeOK, Thread, NoReq
  <2> QED BY <2>3, <2>5, <2>6 DEF Programs, Owned, WritesRevoke, StaleSessionsExplained, Noticed,
                             Reading, NoReq
<1>10. ASSUME NEW t \in Writer, Commit(t) PROVE IInv'
  <2> DEFINE q == IF req[t].revoking THEN [NoReq EXCEPT !.op = "revoke", !.target = req[t].target]
                  ELSE NoReq
  <2>1. /\ req[t].op \in Reading /\ req[t].target \in User /\ users' \in [User -> Account]
        /\ q \in Request /\ Commits(t, q, req[t].target, Noticed(req[t]))
    BY <1>10, CommitMakes
  <2>2. /\ IF req[t].revoking THEN q.op = "revoke" /\ q.target = req[t].target
           ELSE q.op = "none"
    BY DEF NoReq
  <2>3. Noticed(req[t]) \in BOOLEAN
    BY DEF Noticed
  <2> HIDE DEF q
  <2>4. /\ req' \in [Thread -> Request] /\ req'[t] = q
        /\ \A w \in Thread \ {t} :
             req'[w].op = req[w].op /\ req'[w].target = req[w].target
             /\ req'[w].write = req[w].write /\ req'[w].revoking = req[w].revoking
        /\ sessions' \in [Session -> Row]
        /\ \A s \in Session :
             sessions'[s].user = sessions[s].user
             /\ (sessions'[s] = sessions[s] \/ (Noticed(req[t]) /\ sessions[s].user = req[t].target))
    BY <2>1, <2>3, CommitsMakes
  <2>5. TypeOK'
    BY <2>1, <2>2, <2>4 DEF TypeOK, Thread
  <2>6. Programs' /\ Owned' /\ WritesRevoke'
    BY <2>1, <2>2, <2>4 DEF Programs, Owned, WritesRevoke, Noticed, Reading, Thread
  <2>7. StaleSessionsExplained'
    <3> SUFFICES ASSUME NEW s \in Session, sessions'[s].kind = "stale"
                 PROVE  \E w \in Writer : req'[w].op = "revoke" /\ req'[w].target = sessions'[s].user
      BY DEF StaleSessionsExplained
    <3>1. CASE sessions'[s] = sessions[s]
      BY <2>1, <2>4, <3>1 DEF StaleSessionsExplained, Reading
    <3>2. CASE Noticed(req[t]) /\ sessions[s].user = req[t].target
      BY <2>1, <2>2, <2>4, <3>2 DEF WritesRevoke
    <3> QED BY <2>4, <3>1, <3>2
  <2> QED BY <2>5, <2>6, <2>7
<1>11. ASSUME NEW t \in Writer, LogoutAll(t) PROVE IInv'
  <2> DEFINE q == [NoReq EXCEPT !.op = "revoke", !.target = req[t].who]
  <2>1. q \in Request /\ q.op = "revoke" /\ q.target \in User
    BY <1>11 DEF LogoutAll, TypeOK, Thread, Request, Op, NoReq
  <2>2. req' = [req EXCEPT ![t] = q] /\ UNCHANGED <<users, sessions>> /\ req[t].op = "admitted"
    BY <1>11 DEF LogoutAll
  <2> HIDE DEF q
  <2> QED BY <2>1, <2>2 DEF TypeOK, Thread, Programs, Owned, WritesRevoke,
                          StaleSessionsExplained, Noticed, Reading
<1>12. ASSUME NEW t \in Writer, RevokeAll(t) PROVE IInv'
  <2>1. TypeOK'
    BY <1>12 DEF RevokeAll, TypeOK, NoReq
  <2>2. Programs' /\ Owned' /\ WritesRevoke'
    BY <1>12 DEF RevokeAll, TypeOK, Thread, Programs, Owned, WritesRevoke, Noticed, Reading, NoReq
  <2>3. StaleSessionsExplained'
    BY <1>12 DEF RevokeAll, TypeOK, Thread, StaleSessionsExplained, NoRow
  <2> QED BY <2>1, <2>2, <2>3
<1>13. ASSUME NEW t \in Writer, Leave(t) PROVE IInv'
  BY <1>13 DEF Leave, TypeOK, Thread, Programs, Owned, WritesRevoke, StaleSessionsExplained, Noticed,
               Reading, NoReq
<1>14. CASE Crash
  <2>1. TypeOK'
    BY <1>14 DEF Crash, TypeOK, Row, NoReq
  <2>2. Programs' /\ Owned' /\ WritesRevoke'
    BY <1>14 DEF Crash, TypeOK, Row, NoRow, Programs, Owned, WritesRevoke, Noticed, Reading, NoReq
  <2>3. StaleSessionsExplained'
    BY <1>14 DEF Crash, TypeOK, Row, StaleSessionsExplained
  <2> QED BY <2>1, <2>2, <2>3
<1>15. CASE UNCHANGED vars
  BY <1>15 DEF vars, TypeOK, Programs, Owned, WritesRevoke, StaleSessionsExplained, Noticed
<1> QED
  BY <1>1, <1>2, <1>3, <1>4, <1>5, <1>6, <1>7, <1>8, <1>9, <1>10, <1>11, <1>12, <1>13, <1>14, <1>15
  DEF Next, Handle

\* A session whose account has changed since its log-in is about to be revoked, or the
\* process died between the change and the revocation: whatever requests overlap.
THEOREM StaleSessionsAreRevoked == Spec => []StaleSessionsExplained
<1>1. IInv => StaleSessionsExplained
  BY DEF IInv
<1> QED BY IInvInit, IInvStep, <1>1, PTL DEF Spec

-----------------------------------------------------------------------------
(* Rights, of changes that do not overlap.                                 *)

\* A step that leaves the accounts and what is about to be written to them.
LEMMA QuietSteps ==
  ASSUME NInv, IInv', UNCHANGED users,
         \A w \in Writer : req'[w] = req[w] \/ req'[w].op \in {"none", "revoke"}
           \/ (req'[w].op = "admitted" /\ req'[w].who = NoUser)
  PROVE  NInv'
<1> USE DEF NInv
<1>1. OneReader' /\ Unforced'
  BY DEF OneReader, Unforced, Reading
<1>2. SuperAdmins' = SuperAdmins
  BY DEF SuperAdmins, Active
<1>3. ReadersKeep'
  <2> SUFFICES ASSUME NEW t \in Writer, req'[t].op \in Reading
               PROVE  LeavesOne(req[t])' /\ Within(req[t])'
    BY DEF ReadersKeep
  <2>1. req'[t] = req[t]
    BY DEF Reading
  <2>2. LeavesOne(req[t]) /\ Within(req[t])
    BY <2>1 DEF ReadersKeep
  <2> QED BY <1>2, <2>1, <2>2 DEF LeavesOne, Within
<1>4. TemporaryMust' /\ AdmittedToMore'
  BY DEF TemporaryMust, AdmittedToMore
<1> QED BY <1>1, <1>2, <1>3, <1>4 DEF SomeSuperAdmin

\* What a reader computes keeps a super administrator and to its maker's rights.
LEMMA ReadsKeep ==
  ASSUME NInv, IInv', ~Overlaps, NEW t \in Writer, NEW op \in Reading, NEW u \in User,
         NEW write \in Write, NEW revoking \in BOOLEAN, Reads(t, op, u, write, revoking),
         req[t].op = "admitted", op # "change" => ~req[t].must,
         op = "change" => u = req[t].who,
         op # "change" => /\ users[u] # NoAccount
                          /\ users[u].role # "super_admin" \/ req[t].role = "super_admin"
                          /\ "super_admin" \in write.role => req[t].role = "super_admin",
         op = "update" => write.must = {},
         op = "reset" => write.must \subseteq {TRUE} /\ (write.must = {} => users[u].must),
         \E x \in SuperAdmins :
           x # u \/ (write.role \subseteq {"super_admin"} /\ write.status \subseteq {"active"})
  PROVE  NInv'
<1> USE DEF NInv
<1>1. op \in Op
  BY DEF Op, Reading
<1>2. /\ \A w \in Thread \ {t} : req'[w] = req[w]
      /\ req'[t].op = op /\ req'[t].target = u /\ req'[t].write = write
      /\ req'[t].revoking = revoking /\ ~req'[t].must
      /\ req'[t].who = req[t].who /\ req'[t].role = req[t].role
      /\ req'[t].changed = req[t].changed
      /\ UNCHANGED <<users, sessions>>
  BY <1>1, ReadsMakes DEF IInv
<1>3. \A w \in Writer : req[w].op \notin Reading
  BY DEF Reads
<1>4. \A w \in Writer \ {t} : req'[w] = req[w]
  BY <1>2 DEF Thread
<1>5. OneReader' /\ Unforced'
  BY <1>2, <1>3, <1>4 DEF OneReader, Unforced
<1>6. SuperAdmins' = SuperAdmins
  BY <1>2 DEF SuperAdmins, Active
<1>7. ReadersKeep'
  <2> SUFFICES ASSUME NEW w \in Writer, req'[w].op \in Reading
               PROVE  LeavesOne(req[w])' /\ Within(req[w])'
    BY DEF ReadersKeep
  <2>1. w = t
    BY <1>3, <1>4
  <2>2. LeavesOne(req[t])'
    BY <1>2, <1>6 DEF LeavesOne
  <2>3. Within(req[t])'
    BY <1>2 DEF Within
  <2> QED BY <2>1, <2>2, <2>3
<1>8. TemporaryMust' /\ AdmittedToMore'
  BY <1>2, <1>4 DEF TemporaryMust, AdmittedToMore, Reading
<1> QED BY <1>5, <1>6, <1>7, <1>8 DEF SomeSuperAdmin

\* A new account takes nothing from those about to be changed.
LEMMA CreateKeeps ==
  ASSUME NInv, IInv', NEW t \in Writer, NEW u \in User, NEW role \in Role, CreateUser(t, u, role)
  PROVE  NInv' /\ AmongThemselves
<1> USE DEF NInv
<1> DEFINE no == FALSE
<1>1. no \in BOOLEAN /\ Commits(t, NoReq, u, no) /\ ~no /\ NoReq \in Request
  BY Constants DEF CreateUser
<1> HIDE DEF no
<1>2. /\ req'[t] = NoReq
      /\ \A w \in Thread \ {t} :
           /\ req'[w].op = req[w].op /\ req'[w].who = req[w].who /\ req'[w].role = req[w].role
           /\ req'[w].must = req[w].must /\ req'[w].target = req[w].target
           /\ req'[w].write = req[w].write /\ req'[w].revoking = req[w].revoking
           /\ req[w].changed => req'[w].changed
  BY <1>1, CommitsMakes DEF IInv
<1>3. /\ users \in [User -> Account] /\ users[u] = NoAccount
      /\ users' = [users EXCEPT ![u] = [NoAccount EXCEPT !.status = "active", !.role = role]]
      /\ req[t].op = "admitted" /\ (role = "super_admin" => req[t].role = "super_admin")
  BY DEF CreateUser, Manages, MayGrant, IInv, TypeOK
<1>4. /\ \A x \in User \ {u} : users'[x] = users[x]
      /\ users'[u].role = role /\ users'[u].temp = FALSE /\ users[u].status = "absent"
      /\ users[u].temp = FALSE /\ users[u].role = "user"
  BY <1>3 DEF NoAccount
<1>5. \A w \in Writer \ {t} : w \in Thread \ {t}
  BY Constants
<1>6. SuperAdmins \subseteq SuperAdmins' /\ SuperAdmins' \subseteq SuperAdmins \union {u}
  BY <1>4 DEF SuperAdmins, Active
<1>7. SomeSuperAdmin'
  <2>1. IsFiniteSet(SuperAdmins \union {u})
    BY FS_AddElement DEF SomeSuperAdmin
  <2>2. IsFiniteSet(SuperAdmins')
    BY <1>6, <2>1, FS_Subset
  <2> QED BY <1>6, <2>2 DEF SomeSuperAdmin
<1>8. OneReader' /\ Unforced'
  BY <1>2, <1>3, <1>5 DEF OneReader, Unforced, Reading, NoReq
<1>9. ReadersKeep'
  <2> SUFFICES ASSUME NEW w \in Writer, req'[w].op \in Reading
               PROVE  LeavesOne(req[w])' /\ Within(req[w])'
    BY DEF ReadersKeep
  <2>1. w # t
    BY <1>2 DEF NoReq, Reading
  <2>2. w \in Thread \ {t} /\ req[w].op \in Reading /\ req[w].target \in User
    BY <1>2, <1>5, <2>1 DEF IInv, TypeOK, Reading, Thread
  <2>3. LeavesOne(req[w]) /\ Within(req[w])
    BY <2>2 DEF ReadersKeep
  <2>4. LeavesOne(req[w])'
    BY <1>2, <1>6, <2>2, <2>3 DEF LeavesOne
  <2>5. Within(req[w])'
    <3>1. CASE req[w].op = "change"
      BY <1>2, <2>2, <2>3, <3>1 DEF Within
    <3>2. CASE req[w].op # "change"
      <4>1. req[w].target # u
        BY <1>3, <2>3, <3>2 DEF Within
      <4>2. users'[req'[w].target] = users[req[w].target]
        BY <1>2, <1>4, <2>2, <4>1
      <4> QED BY <1>2, <2>2, <2>3, <3>2, <4>2 DEF Within
    <3> QED BY <3>1, <3>2
  <2> QED BY <2>4, <2>5
<1>10. TemporaryMust' /\ AdmittedToMore'
  <2>1. TemporaryMust'
    BY <1>4 DEF TemporaryMust
  <2>2. ASSUME NEW w \in Writer, req'[w].op \in {"admitted", "update", "reset"},
               req'[w].who # NoUser, ~req'[w].must
        PROVE  ~users'[req'[w].who].temp \/ req'[w].changed
    <3>1. w \in Thread \ {t} /\ req[w].who \in User
      BY <1>2, <1>5, <2>2 DEF NoReq, IInv, TypeOK, Request, Thread
    <3> QED BY <1>2, <1>4, <2>2, <3>1 DEF AdmittedToMore
  <2> QED BY <2>1, <2>2 DEF AdmittedToMore
<1>11. AmongThemselves
  <2>1. req'[t] # req[t]
    BY <1>2, <1>3 DEF NoReq
  <2> QED BY <1>3, <1>4, <2>1 DEF AmongThemselves
<1> QED BY <1>7, <1>8, <1>9, <1>10, <1>11

\* The commit of the only reader.
LEMMA CommitKeeps ==
  ASSUME NInv, IInv', NEW t \in Writer, Commit(t)
  PROVE  NInv' /\ AmongThemselves
<1> USE DEF NInv
<1> DEFINE q   == req[t]
           x   == req[t].target
           new == IF req[t].revoking THEN [NoReq EXCEPT !.op = "revoke", !.target = x] ELSE NoReq
<1>1. /\ q.op \in Reading /\ x \in User
      /\ \A u \in User \ {x} : users'[u] = users[u]
      /\ IF q.write.role = {} THEN users'[x].role = users[x].role ELSE users'[x].role \in q.write.role
      /\ IF q.write.status = {} THEN users'[x].status = users[x].status
         ELSE users'[x].status \in q.write.status
      /\ IF q.write.must = {} THEN users'[x].must = users[x].must ELSE users'[x].must \in q.write.must
      /\ users'[x].temp = (q.op = "reset" \/ (q.op = "update" /\ users[x].temp))
      /\ new \in Request /\ Commits(t, new, x, Noticed(q))
  BY CommitMakes DEF IInv
<1>2. new.op \in {"none", "revoke"}
  BY DEF NoReq
<1>3. users'[x].temp => q.op = "reset" \/ (q.op = "update" /\ users[x].temp)
  BY <1>1
<1>4. Noticed(q) \in BOOLEAN /\ (q.op = "reset" => Noticed(q))
  BY DEF Noticed
<1> HIDE DEF new
<1>5. /\ req'[t] = new
      /\ \A w \in Thread \ {t} :
           /\ req'[w].op = req[w].op /\ req'[w].who = req[w].who /\ req'[w].role = req[w].role
           /\ req'[w].must = req[w].must /\ req'[w].target = req[w].target
           /\ req[w].changed => req'[w].changed
           /\ Noticed(q) /\ req[w].op # "issue" /\ req[w].who = x => req'[w].changed
  BY <1>1, <1>4, CommitsMakes DEF IInv
<1>6. \A w \in Writer \ {t} : w \in Thread \ {t}
  BY Constants
<1>7. \A w \in Writer : req'[w].op \notin Reading
  BY <1>1, <1>2, <1>5, <1>6 DEF OneReader, Reading
<1>8. OneReader' /\ ReadersKeep' /\ Unforced'
  BY <1>7 DEF OneReader, ReadersKeep, Unforced, Reading
<1>9. LeavesOne(q) /\ Within(q)
  BY <1>1 DEF ReadersKeep
<1>10. SomeSuperAdmin'
  <2>1. PICK y \in SuperAdmins :
          y # x \/ (q.write.role \subseteq {"super_admin"} /\ q.write.status \subseteq {"active"})
    BY <1>9 DEF LeavesOne
  <2>2. y \in SuperAdmins'
    BY <1>1, <2>1 DEF SuperAdmins, Active
  <2>3. SuperAdmins' \subseteq SuperAdmins \union {x}
    BY <1>1 DEF SuperAdmins, Active
  <2>4. IsFiniteSet(SuperAdmins \union {x})
    BY FS_AddElement DEF SomeSuperAdmin
  <2>5. IsFiniteSet(SuperAdmins')
    BY <2>3, <2>4, FS_Subset
  <2> QED BY <2>2, <2>5 DEF SomeSuperAdmin
<1>11. TemporaryMust'
  <2>1. users'[x].temp => users'[x].must
    <3>1. CASE q.op = "reset"
      BY <1>1, <1>9, <3>1 DEF Within
    <3>2. CASE q.op = "update"
      BY <1>1, <1>9, <1>3, <3>2 DEF Within, TemporaryMust
    <3> QED BY <1>3, <3>1, <3>2
  <2> QED BY <1>1, <2>1 DEF TemporaryMust
<1>12. AdmittedToMore'
  <2> SUFFICES ASSUME NEW w \in Writer, req'[w].op \in {"admitted", "update", "reset"},
                      req'[w].who # NoUser, ~req'[w].must
               PROVE  ~users'[req'[w].who].temp \/ req'[w].changed
    BY DEF AdmittedToMore
  <2>1. w \in Thread \ {t} /\ req[w].who \in User
    BY <1>2, <1>5, <1>6 DEF IInv, TypeOK, Request, Thread
  <2>2. ~users[req[w].who].temp \/ req[w].changed
    BY <1>5, <2>1 DEF AdmittedToMore
  <2>3. CASE req[w].who = x /\ q.op = "reset"
    BY <1>4, <1>5, <2>1, <2>3
  <2>4. CASE ~(req[w].who = x /\ q.op = "reset")
    BY <1>1, <1>5, <1>3, <2>1, <2>2, <2>4
  <2> QED BY <2>3, <2>4
<1>13. AmongThemselves
  <2> SUFFICES ASSUME NEW u \in User, users'[u] # users[u],
                      users[u].role = "super_admin" \/ users'[u].role = "super_admin"
               PROVE  req[t].role = "super_admin" \/ req[t].who = u
    BY <1>1, <1>2, <1>5 DEF AmongThemselves, Reading
  <2> QED BY <1>1, <1>9 DEF Within
<1> QED BY <1>8, <1>10, <1>11, <1>12, <1>13

LEMMA NInvInit == Init => NInv
<1> SUFFICES ASSUME Init PROVE NInv
  OBVIOUS
<1>1. IInv
  BY IInvInit
<1>2. OneReader /\ ReadersKeep /\ AdmittedToMore /\ Unforced
  BY Constants DEF Init, NoReq, OneReader, ReadersKeep, AdmittedToMore, Unforced, Reading
<1>3. TemporaryMust /\ SuperAdmins = {Root}
  <2>1. CASE \E must \in BOOLEAN :
               users = [u \in User |-> [NoAccount EXCEPT !.status = "active", !.must = must,
                          !.role = IF u = Root THEN "super_admin" ELSE "user"]]
    <3>1. PICK must \in BOOLEAN :
            users = [u \in User |-> [NoAccount EXCEPT !.status = "active", !.must = must,
                       !.role = IF u = Root THEN "super_admin" ELSE "user"]]
      BY <2>1
    <3>2. \A u \in User : /\ users[u].status = "active" /\ users[u].temp = FALSE
                          /\ users[u].role = IF u = Root THEN "super_admin" ELSE "user"
      BY <3>1 DEF NoAccount
    <3> QED BY <3>2, AuthAssumption DEF TemporaryMust, SuperAdmins, Active
  <2>2. CASE users = [u \in User |-> IF u # Root THEN NoAccount
                        ELSE [status |-> "active", role |-> "super_admin", must |-> TRUE, temp |-> TRUE]]
    BY <2>2, AuthAssumption DEF TemporaryMust, SuperAdmins, Active, NoAccount
  <2> QED BY <2>1, <2>2 DEF Init
<1>4. SomeSuperAdmin
  BY <1>3, FS_Singleton DEF SomeSuperAdmin
<1> QED BY <1>1, <1>2, <1>3, <1>4 DEF NInv

\* One step: the invariant stays, and a change of a super administrator, or to one,
\* is made by one or is about oneself.
LEMMA NInvStep == ASSUME NInv, ~Overlaps, [Next]_vars PROVE NInv' /\ (AmongThemselves \/ UNCHANGED users)
<1> USE DEF NInv
<1>0. IInv'
  BY IInvStep
<1>1. ASSUME NEW t \in Greeter, Issue(t) \/ \E u \in User : Authenticate(t, u)
      PROVE  NInv' /\ UNCHANGED users
  <2>1. t \notin Writer
    BY AuthAssumption
  <2> QED BY <1>0, <1>1, <2>1, QuietSteps DEF Issue, Authenticate, IInv, TypeOK
<1>2. ASSUME NEW s \in Session, EndSession(s) PROVE NInv' /\ UNCHANGED users
  BY <1>0, <1>2, QuietSteps DEF EndSession
<1>3. ASSUME NEW t \in Writer, NEW s \in Session, Admit(t, s) PROVE NInv' /\ UNCHANGED users
  <2> DEFINE u == sessions[s].user
             q == [NoReq EXCEPT !.op = "admitted", !.who = u, !.role = users[u].role, !.must = users[u].must]
  <2>1. req' = [req EXCEPT ![t] = q] /\ UNCHANGED <<users, sessions>> /\ u \in User
    BY <1>3 DEF Admit, IInv, Owned, TypeOK, Row
  <2>2. q.op = "admitted" /\ q.who = u /\ q.must = users[u].must
    BY DEF NoReq
  <2> HIDE DEF q
  <2>3. /\ req'[t] = q /\ \A w \in Writer \ {t} : req'[w] = req[w]
    BY <2>1 DEF IInv, TypeOK
  <2>4. OneReader' /\ Unforced'
    BY <2>2, <2>3 DEF OneReader, Unforced, Reading
  <2>5. SuperAdmins' = SuperAdmins
    BY <2>1 DEF SuperAdmins, Active
  <2>6. ReadersKeep'
    <3> SUFFICES ASSUME NEW w \in Writer, req'[w].op \in Reading
                 PROVE  LeavesOne(req[w])' /\ Within(req[w])'
      BY DEF ReadersKeep
    <3>1. req'[w] = req[w]
      BY <2>2, <2>3 DEF Reading
    <3>2. LeavesOne(req[w]) /\ Within(req[w])
      BY <3>1 DEF ReadersKeep
    <3> QED BY <2>1, <2>5, <3>1, <3>2 DEF LeavesOne, Within
  <2>7. TemporaryMust' /\ AdmittedToMore'
    BY <2>1, <2>2, <2>3 DEF TemporaryMust, AdmittedToMore
  <2> QED BY <1>0, <2>1, <2>4, <2>5, <2>6, <2>7 DEF SomeSuperAdmin
<1>4. ASSUME NEW t \in Writer, AdmitToken(t) PROVE NInv' /\ UNCHANGED users
  <2>1. [NoReq EXCEPT !.op = "admitted", !.role = "super_admin"].who = NoUser
        /\ [NoReq EXCEPT !.op = "admitted", !.role = "super_admin"].op = "admitted"
    BY DEF NoReq
  <2> QED BY <1>0, <1>4, <2>1, QuietSteps DEF AdmitToken, IInv, TypeOK
<1>5. ASSUME NEW t \in Writer, NEW u \in User, Reset(t, u) PROVE NInv' /\ UNCHANGED users
  <2> DEFINE write == [NoWrite EXCEPT !.must = Differs(TRUE, users[u].must)]
  <2>1. write \in Write
    BY ReadersMake DEF IInv
  <2>2. write.role = {} /\ write.status = {} /\ write.must \subseteq {TRUE}
        /\ (write.must = {} => users[u].must)
    BY DEF NoWrite, Differs, IInv, TypeOK, Account
  <2>3. Reads(t, "reset", u, write, TRUE)
    BY <1>5 DEF Reset
  <2> HIDE DEF write
  <2>4. \E x \in SuperAdmins :
          x # u \/ (write.role \subseteq {"super_admin"} /\ write.status \subseteq {"active"})
    BY <2>2 DEF SomeSuperAdmin
  <2> QED BY <1>0, <1>5, <2>1, <2>2, <2>3, <2>4, ReadsKeep DEF Reset, Manages, MayTouch, Reading, Reads
<1>6. ASSUME NEW t \in Writer, Change(t) PROVE NInv' /\ UNCHANGED users
  <2> DEFINE u == req[t].who
             write == [NoWrite EXCEPT !.must = Differs(FALSE, users[u].must)]
  <2>1. u \in User /\ write \in Write
    BY <1>6, ReadersMake DEF Change, IInv, TypeOK, Thread, Request
  <2>2. write.role = {} /\ write.status = {}
    BY DEF NoWrite
  <2>3. Reads(t, "change", u, write, TRUE)
    BY <1>6 DEF Change
  <2> HIDE DEF write
  <2>4. \E x \in SuperAdmins :
          x # u \/ (write.role \subseteq {"super_admin"} /\ write.status \subseteq {"active"})
    BY <2>2 DEF SomeSuperAdmin
  <2> QED BY <1>0, <1>6, <2>1, <2>2, <2>3, <2>4, ReadsKeep DEF Change, Reading, Reads
<1>7. ASSUME NEW t \in Writer, NEW u \in User, NEW role \in Role, NEW status \in Status,
             Update(t, u, role, status)
      PROVE  NInv' /\ UNCHANGED users
  <2> DEFINE write == [NoWrite EXCEPT !.role = Differs(role, users[u].role),
                                      !.status = Differs(status, users[u].status)]
             revoking == Revokes(u, role, status)
  <2>1. write \in Write /\ revoking \in BOOLEAN
    BY <1>7, ReadersMake DEF IInv
  <2>2. write.role = {role} \ {users[u].role} /\ write.status = {status} \ {users[u].status}
        /\ write.must = {}
    BY DEF NoWrite, Differs
  <2>3. Reads(t, "update", u, write, revoking)
    BY <1>7 DEF Update
  <2> HIDE DEF write, revoking
  <2>4. \E x \in SuperAdmins :
          x # u \/ (write.role \subseteq {"super_admin"} /\ write.status \subseteq {"active"})
    <3>1. CASE Cardinality(SuperAdmins) > 1
      <4>1. SuperAdmins # {u} /\ SuperAdmins # {}
        BY <3>1, FS_Singleton DEF SomeSuperAdmin
      <4> QED BY <4>1
    <3>2. CASE ~(users[u].role = "super_admin" /\ Active(u) /\ (role # "super_admin" \/ status # "active"))
      <4>1. PICK x \in SuperAdmins : TRUE
        BY DEF SomeSuperAdmin
      <4> QED BY <2>2, <3>2, <4>1 DEF SuperAdmins, Active
    <3> QED BY <1>7, <3>1, <3>2 DEF Update, KeepsSuperAdmin
  <2>5. /\ "super_admin" \in write.role => req[t].role = "super_admin"
        /\ users[u].role # "super_admin" \/ req[t].role = "super_admin"
        /\ users[u] # NoAccount /\ req[t].op = "admitted" /\ ~req[t].must
    BY <1>7, <2>2 DEF Update, Manages, MayTouch, MayGrant
  <2>6. "update" \in Reading /\ UNCHANGED users
    BY <2>3 DEF Reading, Reads
  <2> DEFINE op == "update"
  <2>7. /\ op \in Reading /\ op # "change" /\ op # "reset" /\ write.must = {}
        /\ Reads(t, op, u, write, revoking)
    BY <2>2, <2>3, <2>6
  <2> HIDE DEF op
  <2>8. NInv'
    BY <1>0, <2>1, <2>4, <2>5, <2>7, ReadsKeep DEF Reads
  <2> QED BY <2>6, <2>8
<1>8. ASSUME NEW t \in Writer, NEW u \in User, NEW role \in Role, CreateUser(t, u, role)
      PROVE  NInv' /\ AmongThemselves
  BY <1>0, <1>8, CreateKeeps
<1>9. ASSUME NEW t \in Writer, Commit(t) PROVE NInv' /\ AmongThemselves
  BY <1>0, <1>9, CommitKeeps
<1>10. ASSUME NEW t \in Writer, LogoutAll(t) \/ RevokeAll(t) \/ Leave(t)
       PROVE  NInv' /\ UNCHANGED users
  <2> DEFINE q == [NoReq EXCEPT !.op = "revoke", !.target = req[t].who]
  <2>1. q.op = "revoke" /\ NoReq.op = "none"
    BY DEF NoReq
  <2>2. (req' = [req EXCEPT ![t] = q] \/ req' = [req EXCEPT ![t] = NoReq]) /\ UNCHANGED users
    BY <1>10 DEF LogoutAll, RevokeAll, Leave
  <2> HIDE DEF q
  <2>3. \A w \in Writer : req'[w] = req[w] \/ req'[w].op \in {"none", "revoke"}
    BY <2>1, <2>2 DEF IInv, TypeOK
  <2> QED BY <1>0, <2>2, <2>3, QuietSteps
<1>11. CASE Crash
  <2>1. \A w \in Writer : req'[w].op \in {"none", "revoke"}
    BY <1>11 DEF Crash, NoReq
  <2> QED BY <1>0, <1>11, <2>1, QuietSteps DEF Crash
<1>12. CASE UNCHANGED vars
  BY <1>0, <1>12, QuietSteps DEF vars
<1> QED
  BY <1>1, <1>2, <1>3, <1>4, <1>5, <1>6, <1>7, <1>8, <1>9, <1>10, <1>11, <1>12 DEF Next, Handle

\* An active super administrator is left, whoever demotes or disables whom, if no
\* account is read between another change's read and its commit.
THEOREM SuperAdminIsLeft == ASSUME ~Overlaps PROVE Spec => []LastSuperAdmin
<1>1. NInv /\ [Next]_vars => NInv'
  BY NInvStep
<1>2. NInv => LastSuperAdmin
  BY DEF NInv, IInv, SomeSuperAdmin, LastSuperAdmin
<1> QED BY NInvInit, <1>1, <1>2, PTL DEF Spec

\* What a request does is within the rights its maker had when it was admitted: a
\* temporary password only changes itself, and only super administrators make or
\* change super administrators; of changes that do not overlap.
THEOREM RightsAreKept == ASSUME ~Overlaps PROVE Spec => RequestsKeepToTheirRights
<1>1. NInv /\ [Next]_vars => NInv'
  BY NInvStep
<1>2. NInv => TemporaryPasswordOnlyChanges
  BY Constants DEF NInv, AdmittedToMore, Unforced, TemporaryPasswordOnlyChanges
<1>3. NInv /\ [Next]_vars => [AmongThemselves]_vars
  BY NInvStep DEF AmongThemselves
<1> QED BY NInvInit, <1>1, <1>2, <1>3, PTL
    DEF Spec, RequestsKeepToTheirRights, SuperAdminsAmongThemselves

=============================================================================
