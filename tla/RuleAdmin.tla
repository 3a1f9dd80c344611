------------------------------ MODULE RuleAdmin ------------------------------
(***************************************************************************)
(* The versions of one rule set (services/rule_admin_store.py and its      *)
(* routes): drafts, sample tests, submission, review by another person,    *)
(* publication with its exported file, restoring and deleting.             *)
(*                                                                         *)
(* The routes run on request threads.  On SQLite a session's SELECTs open  *)
(* no transaction, so a request checks what it read in one step and        *)
(* commits in a later one; its UPDATE finds rows by id and names only the  *)
(* columns it changed.  Where a request SELECTs more than once before it   *)
(* decides, only clone's two decisive SELECTs are steps of their own.      *)
(* Saved documents are valid: validation only refuses.  A refused request  *)
(* is no step.  The audit row is written in the same transaction as the    *)
(* change and is left out.                                                 *)
(*                                                                         *)
(* With one Thread the short requests come one after the other; the runs   *)
(* of a sample, which take minutes, overlap them in any case.              *)
(***************************************************************************)
EXTENDS Naturals, FiniteSetsExt

CONSTANTS Thread,        \* threads that serve the short requests
          Tester,        \* threads that run a version on a sample
          Maintainer,    \* people with ruleset.edit and ruleset.submit
          Reviewer,      \* people is_eligible_reviewer accepts
          Bootstrap,     \* the default of created_by
          Content,       \* what yaml_text may hold (its sha256 tells them apart)
          Testable,      \* the contents whose run on a sample is "done"
          NoOne, NoContent,
          MaxVersions,   \* bound: version ids ever made
          MaxRevision    \* bound: saves of one version

Id     == 1..MaxVersions
Person == Maintainer \union Reviewer \union {Bootstrap}
Admin  == Maintainer \intersect Reviewer     \* super administrators have both roles

ASSUME RuleAdminAssumption ==
  /\ MaxVersions \in Nat /\ MaxRevision \in Nat
  /\ NoOne \notin Person /\ NoContent \notin Content
  /\ Thread \intersect Tester = {}
  /\ Testable \subseteq Content

VARIABLES versions,   \* rows of ruleset_versions, by id
          item,       \* the row of managed_rulesets
          tests,      \* done rows of rule_test_runs: <<version id, content>>
          made,       \* ids handed out
          file,       \* content of the YAML file of the rule set
          req         \* what each thread has read and is about to write

vars == <<versions, item, tests, made, file, req>>

Editable == {"draft", "rejected"}
Working  == Editable \union {"submitted", "approved"}
Locked   == {"submitted", "approved", "published", "retired"}

Row == [state     : Working \union {"none", "published", "retired"},
        content   : Content \union {NoContent},
        revision  : Nat,
        number    : Nat,
        creator   : Person \union {NoOne},
        author    : Person \union {NoOne},   \* history: who really made the version
        submitter : Person \union {NoOne},
        reviewer  : Person \union {NoOne},
        approver  : Person \union {NoOne}]

NoVersion == [state |-> "none", content |-> NoContent, revision |-> 0, number |-> 0,
              creator |-> NoOne, author |-> NoOne,
              submitter |-> NoOne, reviewer |-> NoOne, approver |-> NoOne]

Item == [status : {"absent", "draft", "active", "disabled"}, active : 0..MaxVersions]

NoItem == [status |-> "absent", active |-> 0]

Op == {"none", "save", "overwrite", "submit", "approve", "reject", "publish", "export",
       "number", "insert", "drop", "dissolve", "active", "disabled", "test"}

\* A request in progress.  row and item are what it read; the other fields are
\* its arguments, or what it will insert, export or delete.
Request == [op : Op, id : 0..MaxVersions, row : Row, item : Item,
            who : Person \union {NoOne}, to : Person \union {NoOne}, by : Person \union {NoOne},
            content : Content \union {NoContent}, number : Nat,
            seen : SUBSET Id, ran : SUBSET (Id \X Content)]

NoReq == [op |-> "none", id |-> 0, row |-> NoVersion, item |-> NoItem,
          who |-> NoOne, to |-> NoOne, by |-> NoOne, content |-> NoContent, number |-> 0,
          seen |-> {}, ran |-> {}]

TypeOK ==
  /\ versions \in [Id -> Row] /\ item \in Item
  /\ tests \in SUBSET (Id \X Content) /\ made \in 0..MaxVersions
  /\ file \in Content \union {NoContent}
  /\ req \in [Thread \union Tester -> Request]

Exists(v)  == versions[v] # NoVersion
Existing   == {v \in Id : Exists(v)}
WorkingOnes == {v \in Id : versions[v].state \in Working}
NewRow(c, n, who, by) ==
  [NoVersion EXCEPT !.state = "draft", !.content = c, !.revision = 1, !.number = n,
                    !.creator = who, !.author = by]

\* A file that was there before the database: rule sets shipped with the program.
Init ==
  /\ versions = [v \in Id |-> NoVersion] /\ item = NoItem
  /\ tests = {} /\ made = 0
  /\ file \in Content \union {NoContent}
  /\ req = [t \in Thread \union Tester |-> NoReq]
-----------------------------------------------------------------------------
Begins(t, q) ==
  /\ req[t] = NoReq
  /\ req' = [req EXCEPT ![t] = q]
  /\ UNCHANGED <<versions, item, tests, made, file>>

\* The answer is sent, or the exception of a failed commit.
Ends(t) == req' = [req EXCEPT ![t] = NoReq]

\* The UPDATE that turns the row a session loaded into the row it wants, applied
\* to the row as it is now.
Merged(now, read, wanted) ==
  [f \in DOMAIN now |-> IF wanted[f] # read[f] THEN wanted[f] ELSE now[f]]

\* The commit of a request that changes one version; one that is gone by then
\* makes the request fail.
Commits(t, op, wanted) ==
  /\ req[t].op = op
  /\ versions' = IF Exists(req[t].id)
                 THEN [versions EXCEPT ![req[t].id] = Merged(@, req[t].row, wanted)]
                 ELSE versions
  /\ Ends(t)
  /\ UNCHANGED <<item, tests, made, file>>

Reading(op, v) == [NoReq EXCEPT !.op = op, !.id = v, !.row = versions[v]]
-----------------------------------------------------------------------------
(* Making versions.                                                        *)

\* A rule set and its first version: the primary key lets one creation through.
FirstVersion(row, first) ==
  /\ item = NoItem /\ made < MaxVersions
  /\ item' = first
  /\ made' = made + 1
  /\ versions' = [versions EXCEPT ![made + 1] = row]
  /\ UNCHANGED <<tests, file, req>>

\* create_ruleset; its route seeds first.
Create(c, who) ==
  /\ file = NoContent
  /\ FirstVersion(NewRow(c, 1, who, who), [status |-> "draft", active |-> 0])

\* save_legacy_draft of a rule set the database does not know: nobody tells it
\* who asked.
LegacyCreate(c, who) ==
  FirstVersion(NewRow(c, 1, Bootstrap, who), [status |-> "draft", active |-> 0])

\* ensure_seeded: a file whose rule set the database does not know.
Seed ==
  /\ file # NoContent
  /\ FirstVersion([NewRow(file, 1, Bootstrap, Bootstrap) EXCEPT !.state = "published"],
                  [status |-> "active", active |-> made + 1])

\* Faulty variant: unfinished versions are not looked for.
CloneRegardless(t, s, who) ==
  /\ item # NoItem /\ Exists(s)
  /\ Begins(t, [NoReq EXCEPT !.op = "number", !.content = versions[s].content,
                            !.who = who, !.by = who])

\* clone_version and restore: no unfinished version, any source.
Clone(t, s, who) ==
  /\ item # NoItem /\ WorkingOnes = {} /\ Exists(s)
  /\ Begins(t, [NoReq EXCEPT !.op = "number", !.content = versions[s].content,
                            !.who = who, !.by = who])

\* save_legacy_draft without an unfinished version.
LegacyNew(t, c, who) ==
  /\ item # NoItem /\ WorkingOnes = {}
  /\ Begins(t, [NoReq EXCEPT !.op = "number", !.content = c, !.who = Bootstrap, !.by = who])

\* SELECT max(version_number), a statement later.
Number(t) ==
  /\ req[t].op = "number"
  /\ req' = [req EXCEPT ![t].op = "insert",
                        ![t].number = Max({versions[v].number : v \in Existing} \union {0}) + 1]
  /\ UNCHANGED <<versions, item, tests, made, file>>

\* The INSERT: (ruleset_id, version_number) is unique, the rule set must exist.
Insert(t) ==
  /\ req[t].op = "insert"
  /\ made < MaxVersions
  /\ IF item # NoItem /\ \A v \in Existing : versions[v].number # req[t].number
     THEN /\ made' = made + 1
          /\ versions' = [versions EXCEPT ![made + 1] =
                           NewRow(req[t].content, req[t].number, req[t].who, req[t].by)]
     ELSE UNCHANGED <<made, versions>>
  /\ Ends(t)
  /\ UNCHANGED <<item, tests, file>>
-----------------------------------------------------------------------------
(* Editing and testing.                                                    *)

\* save_draft, directly or through the routes that change one rule.  A request
\* with another revision than the row's is refused.
Save(t, v, c) ==
  /\ versions[v].state \in Editable /\ versions[v].revision < MaxRevision
  /\ Begins(t, [Reading("save", v) EXCEPT !.content = c])

SaveCommit(t) == Commits(t, "save",
  [req[t].row EXCEPT !.content = req[t].content, !.revision = @ + 1, !.state = "draft"])

\* Faulty variant: the older interface overwrites any unfinished version.
OverwriteAny(t, v, c) ==
  /\ v \in WorkingOnes /\ \A u \in WorkingOnes : versions[u].number <= versions[v].number
  /\ versions[v].revision < MaxRevision
  /\ Begins(t, [Reading("overwrite", v) EXCEPT !.content = c])

\* save_legacy_draft over the newest unfinished version: whatever its revision,
\* and without leaving "rejected".
Overwrite(t, v, c) ==
  /\ v \in WorkingOnes /\ \A u \in WorkingOnes : versions[u].number <= versions[v].number
  /\ versions[v].state \in Editable /\ versions[v].revision < MaxRevision
  /\ Begins(t, [Reading("overwrite", v) EXCEPT !.content = c])

OverwriteCommit(t) == Commits(t, "overwrite",
  [req[t].row EXCEPT !.content = req[t].content, !.revision = @ + 1])

\* test_managed_version: any version is read, run on a sample, and much later the
\* run is recorded for the content that was read.
Test(t, v) ==
  /\ versions[v].content \in Testable
  /\ Begins(t, [NoReq EXCEPT !.op = "test", !.id = v, !.content = versions[v].content])

\* Faulty variant: the run is recorded for the content the version has by then.
TestCommitCurrent(t) ==
  /\ req[t].op = "test"
  /\ tests' = tests \union {<<req[t].id, versions[req[t].id].content>>}
  /\ Ends(t)
  /\ UNCHANGED <<versions, item, made, file>>

TestCommit(t) ==
  /\ req[t].op = "test"
  /\ tests' = tests \union {<<req[t].id, req[t].content>>}
  /\ Ends(t)
  /\ UNCHANGED <<versions, item, made, file>>
-----------------------------------------------------------------------------
(* set_version_state: submit, approve, reject.                             *)

\* The submitter names a reviewer other than himself; the content has been tested.
Submit(t, v, who, reviewer) ==
  /\ versions[v].state = "draft" /\ reviewer # who
  /\ <<v, versions[v].content>> \in tests
  /\ Begins(t, [Reading("submit", v) EXCEPT !.who = who, !.to = reviewer])

SubmitCommit(t) == Commits(t, "submit",
  [req[t].row EXCEPT !.state = "submitted", !.submitter = req[t].who,
                     !.reviewer = req[t].to, !.approver = NoOne])

\* Faulty variant: whoever created the version may judge it.
MayJudgeOwnDraft(v, who) == who = versions[v].reviewer /\ who # versions[v].submitter

\* The assigned reviewer, unless he created or submitted the version.
MayJudge(v, who) ==
  /\ who = versions[v].reviewer
  /\ who \notin {versions[v].submitter, versions[v].creator}

Judge(t, v, who, verdict) ==
  /\ versions[v].state = "submitted" /\ MayJudge(v, who)
  /\ Begins(t, [Reading(verdict, v) EXCEPT !.who = who])

ApproveCommit(t) == Commits(t, "approve",
  [req[t].row EXCEPT !.state = "approved", !.approver = req[t].who])

RejectCommit(t) == Commits(t, "reject", [req[t].row EXCEPT !.state = "rejected"])
-----------------------------------------------------------------------------
(* publish and the export of the file.                                     *)

\* Faulty variant: the file is exported before the commit.
PublishExportsFirst(t, v, who) ==
  /\ versions[v].state = "approved" /\ MayJudge(v, who)
  /\ \E u \in Id : <<u, versions[v].content>> \in tests
  /\ req[t] = NoReq
  /\ req' = [req EXCEPT ![t] = [Reading("publish", v) EXCEPT !.who = who, !.item = item]]
  /\ file' = versions[v].content
  /\ UNCHANGED <<versions, item, tests, made>>

\* The content has been tested, in whatever version.  A run that is "done" executed
\* an enabled rule, so publish's own check for one refuses nothing more.
Publish(t, v, who) ==
  /\ versions[v].state = "approved" /\ MayJudge(v, who)
  /\ \E u \in Id : <<u, versions[v].content>> \in tests
  /\ Begins(t, [Reading("publish", v) EXCEPT !.who = who, !.item = item])

\* Faulty variant: the version published before is left as it is.
PublishCommitAlone(t) ==
  LET q == req[t] IN
  /\ q.op = "publish"
  /\ versions' = [versions EXCEPT ![q.id] = Merged(@, q.row, [q.row EXCEPT !.state = "published"])]
  /\ item' = Merged(item, q.item, [status |-> "active", active |-> q.id])
  /\ req' = [req EXCEPT ![t] = [NoReq EXCEPT !.op = "export", !.content = q.row.content]]
  /\ UNCHANGED <<tests, made, file>>

\* One transaction: the version is published, the one before it retired, the rule
\* set points to the new one.  It fails as a whole if one of the rows is gone.
PublishCommit(t) ==
  LET q == req[t]
      previous == {q.item.active} \ {0, q.id}
      ok == item # NoItem /\ Exists(q.id) /\ previous \subseteq Existing
  IN
  /\ q.op = "publish"
  /\ IF ok
     THEN /\ versions' = [v \in Id |->
               IF v = q.id THEN Merged(versions[v], q.row, [q.row EXCEPT !.state = "published"])
               ELSE IF v \in previous THEN [versions[v] EXCEPT !.state = "retired"]
               ELSE versions[v]]
          /\ item' = Merged(item, q.item, [status |-> "active", active |-> q.id])
          /\ req' = [req EXCEPT ![t] = [NoReq EXCEPT !.op = "export", !.content = q.row.content]]
     ELSE Ends(t) /\ UNCHANGED <<versions, item>>
  /\ UNCHANGED <<tests, made, file>>

\* _sync_export replaces the file, or an OSError is reported and forgotten.
Export(t) ==
  /\ req[t].op = "export"
  /\ file' \in {file, req[t].content}
  /\ Ends(t)
  /\ UNCHANGED <<versions, item, tests, made>>
-----------------------------------------------------------------------------
(* Deleting and disabling.                                                 *)

DeleteDraft(t, v) ==
  /\ versions[v].state \in Editable
  /\ Begins(t, [NoReq EXCEPT !.op = "drop", !.id = v])

DeleteDraftCommit(t) ==
  /\ req[t].op = "drop"
  /\ versions' = [versions EXCEPT ![req[t].id] = NoVersion]
  /\ Ends(t)
  /\ UNCHANGED <<item, tests, made, file>>

\* delete_ruleset: never published, and nothing but editable versions.
DeleteRuleset(t) ==
  /\ item # NoItem /\ item.active = 0
  /\ \A v \in Existing : versions[v].state \in Editable
  /\ Begins(t, [NoReq EXCEPT !.op = "dissolve", !.seen = Existing, !.ran = tests])

\* A version that was added meanwhile refers to the rule set and stops it.
DeleteRulesetCommit(t) ==
  /\ req[t].op = "dissolve"
  /\ IF Existing \subseteq req[t].seen
     THEN /\ versions' = [v \in Id |-> NoVersion]
          /\ tests' = tests \ req[t].ran
          /\ item' = NoItem
     ELSE UNCHANGED <<versions, tests, item>>
  /\ Ends(t)
  /\ UNCHANGED <<made, file>>

\* set_ruleset_status.
SetStatus(t, s) ==
  /\ item # NoItem /\ (s = "active" => item.active # 0)
  /\ Begins(t, [NoReq EXCEPT !.op = s, !.item = item])

SetStatusCommit(t) ==
  /\ req[t].op \in {"active", "disabled"}
  /\ item' = IF item = NoItem THEN item
             ELSE Merged(item, req[t].item, [req[t].item EXCEPT !.status = req[t].op])
  /\ Ends(t)
  /\ UNCHANGED <<versions, tests, made, file>>
-----------------------------------------------------------------------------
\* The process dies with the requests it was serving.
Crash ==
  /\ \E t \in Thread \union Tester : req[t] # NoReq
  /\ req' = [t \in Thread \union Tester |-> NoReq]
  /\ UNCHANGED <<versions, item, tests, made, file>>

Start(t) ==
  \/ \E v \in Id :
       \/ \E who \in Maintainer : Clone(t, v, who)
       \/ \E c \in Content : Save(t, v, c) \/ Overwrite(t, v, c)
       \/ DeleteDraft(t, v)
       \/ \E who \in Maintainer, reviewer \in Reviewer : Submit(t, v, who, reviewer)
       \/ \E who \in Reviewer : Publish(t, v, who)
       \/ \E who \in Reviewer, verdict \in {"approve", "reject"} : Judge(t, v, who, verdict)
  \/ \E c \in Content, who \in Admin : LegacyNew(t, c, who)
  \/ DeleteRuleset(t)
  \/ \E s \in {"active", "disabled"} : SetStatus(t, s)

Finish(t) ==
  \/ Number(t) \/ Insert(t)
  \/ SaveCommit(t) \/ OverwriteCommit(t)
  \/ SubmitCommit(t) \/ ApproveCommit(t) \/ RejectCommit(t)
  \/ PublishCommit(t) \/ Export(t)
  \/ DeleteDraftCommit(t) \/ DeleteRulesetCommit(t) \/ SetStatusCommit(t)

Next ==
  \/ \E t \in Thread : Start(t) \/ Finish(t)
  \/ \E t \in Tester : TestCommit(t) \/ \E v \in Id : Test(t, v)
  \/ \E c \in Content :
       \/ \E who \in Maintainer : Create(c, who)
       \/ \E who \in Admin : LegacyCreate(c, who)
  \/ Seed \/ Crash

Spec == Init /\ [][Next]_vars
-----------------------------------------------------------------------------
(* Properties.                                                             *)

\* A version ensure_seeded made: the shipped file, trusted as it is.
Seeded(v) == versions[v].author = Bootstrap

\* What can have left the hands of its author.
Released == {v \in Existing : versions[v].state \in Locked /\ ~Seeded(v)}

\* A rule set has one unfinished version at most, however versions are cloned,
\* restored, deleted and overwritten over either interface ("已有未完成的工作版本").
\* The types are part of it.
OneWorkingVersion == TypeOK /\ \A u, v \in WorkingOnes : u = v

\* What is approved, published or retired was approved by the reviewer it was
\* assigned to, who neither is recorded as its creator nor submitted it, through
\* rejection, correction and submission to somebody else.
FourEyes == \A v \in Released :
  versions[v].state # "submitted" =>
    /\ versions[v].approver = versions[v].reviewer
    /\ versions[v].approver \notin {versions[v].creator, versions[v].submitter, NoOne}

\* Nobody approves what he made himself, super administrators included
\* (README.md, 管理审查规则, item 5).
AuthorNeverApproves == \A v \in Released :
  versions[v].state # "submitted" => versions[v].approver # versions[v].author

\* Of the versions of a rule set the one it points to is published and no other:
\* publication retires the one before, and nothing deletes or edits it.
ActiveIsPublished == item.active # 0 =>
  {v \in Id : versions[v].state = "published"} = {item.active}

\* Nothing is submitted, approved or published but what passes its sample: a run
\* counts for the content it ran, not for what the version holds when it ends.
ReleasedIsTested == \A v \in Released : versions[v].content \in Testable

\* A submitted or published version is immutable (models/document.py: "A mutable
\* draft or immutable submitted/published ruleset version").
LockedWhenSubmitted == [][\A v \in Id :
  versions[v].state \in Locked /\ versions'[v].state \in Locked
    => versions'[v].content = versions[v].content]_vars

\* The file changes to nothing but what the database has published by then,
\* whatever fails or crashes between the commit and the export.
ExportsOnlyPublished == [][file' # file =>
  \E v \in Id : versions'[v].state \in {"published", "retired"}
                  /\ versions'[v].content = file']_vars

\* What has left the drafts is final, in the database and in the file.
ReleasesAreFinal == LockedWhenSubmitted /\ ExportsOnlyPublished

=============================================================================
