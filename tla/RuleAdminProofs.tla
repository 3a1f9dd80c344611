--------------------------- MODULE RuleAdminProofs ---------------------------
(***************************************************************************)
(* Proofs about RuleAdmin, for any numbers of versions, people, contents,  *)
(* saves and sample tests, of short requests that come one after the       *)
(* other: what it takes for the rules of RuleAdmin to hold at all.         *)
(***************************************************************************)
EXTENDS RuleAdmin, FiniteSetTheorems, TLAPS

OneAtATime == \A s, t \in Thread : s = t

\* Numbers and ids are not ahead of the versions made.
Numbered == \A v \in Id :
  versions[v].number <= made /\ (v > made => versions[v] = NoVersion)

\* Versions have a rule set, which points to the one that is published.
HaveRuleset == item = NoItem => \A v \in Id : versions[v] = NoVersion
Published   == \A v \in Id : versions[v].state = "published" <=> v = item.active

AtMostOne == \A u, v \in WorkingOnes : u = v

RowsTyped == versions \in [Id -> Row] /\ item \in Item /\ made \in 0..MaxVersions

RowsInv == /\ RowsTyped /\ AtMostOne /\ FourEyes /\ ReleasedIsTested
           /\ Numbered /\ HaveRuleset /\ Published

\* A run that is done was one of a content that passes.
TestsPass == tests \subseteq Id \X Testable
Testers == \A t \in Tester :
  /\ req[t].op \in {"none", "test"}
  /\ req[t].op = "test" => req[t].id \in Id /\ req[t].content \in Testable

\* What a request has read is still so when it commits, and was checked.
Reads == {"save", "overwrite", "submit", "approve", "reject", "publish"}

HandOf(q) ==
  /\ q.op # "test" /\ (q.op # "none" => item # NoItem)
  /\ q.op \in Reads => q.id \in Id /\ q.row = versions[q.id]
  /\ q.op \in {"save", "overwrite", "drop"} => q.id \in Id /\ versions[q.id].state \in Editable
  /\ q.op = "submit" => q.row.state = "draft" /\ q.row.content \in Testable
  /\ q.op \in {"approve", "reject"} => q.row.state = "submitted"
  /\ q.op = "approve" =>
       q.who = q.row.reviewer /\ q.who \notin {q.row.submitter, q.row.creator, NoOne}
  /\ q.op = "publish" => q.row.state = "approved" /\ q.item = item
  /\ q.op \in {"number", "insert"} => WorkingOnes = {}
  /\ q.op = "insert" => q.number <= made + 1
  /\ q.op \in {"active", "disabled"} => q.item = item
  /\ q.op = "export" => \E v \in Id :
       versions[v].state \in {"published", "retired"} /\ versions[v].content = q.content
Hands == \A t \in Thread : HandOf(req[t])

IInv == TypeOK /\ RowsInv /\ TestsPass /\ Testers /\ Hands

-----------------------------------------------------------------------------
(* Helpers.                                                                *)

\* A bounded set of numbers has a greatest one: the one with the fewest above it.
LEMMA MaxOfBounded ==
  ASSUME NEW S \in SUBSET Nat, NEW m \in Nat, \A x \in S : x <= m, S # {}
  PROVE  Max(S) \in S /\ \A x \in S : x <= Max(S)
<1> DEFINE Above(x) == {y \in S : y > x}
           Aboves == {Above(x) : x \in S}
<1>1. IsFiniteSet(S)
  BY FS_BoundedSetOfNaturals
<1>2. Aboves \subseteq FiniteSubsetsOf(S) /\ Aboves # {}
  <2>1. FiniteSubsetsOf(S) = SUBSET S
    BY <1>1, FS_FiniteSubsetsOfFinite
  <2>2. PICK x \in S : TRUE
    OBVIOUS
  <2>3. Above(x) \in Aboves /\ \A y \in S : Above(y) \in SUBSET S
    BY <2>2
  <2> HIDE DEF Above
  <2>4. Aboves \subseteq SUBSET S
    BY <2>3
  <2> QED BY <2>1, <2>3, <2>4
<1>3. PICK fewest \in Aboves : \A A \in Aboves : <<A, fewest>> \notin StrictSubsetOrdering(S)
  <2> HIDE DEF Aboves
  <2> QED BY <1>2, FS_StrictSubsetOrderingWellFounded, WFMin
<1>4. PICK top \in S : fewest = Above(top)
  OBVIOUS
<1>5. \A y \in S : ~(y > top)
  <2> SUFFICES ASSUME NEW y \in S, y > top PROVE FALSE
    OBVIOUS
  <2>0. y \in Int /\ top \in Int /\ S \subseteq Int
    OBVIOUS
  <2>1. \A z \in S : z > y => z > top
    BY <2>0
  <2>2. Above(y) \subseteq Above(top)
    BY <2>1
  <2>3. y \in Above(top)
    OBVIOUS
  <2>4. y \notin Above(y)
    BY <2>0
  <2>5. <<Above(y), fewest>> \in StrictSubsetOrdering(S)
    BY <1>4, <2>2, <2>3, <2>4 DEF StrictSubsetOrdering
  <2> QED BY <1>3, <2>5
<1>6. \A y \in S : top >= y
  BY <1>5
<1> QED BY <1>6 DEF Max

LEMMA Constants ==
  /\ NoVersion \in Row /\ NoVersion.state = "none" /\ NoVersion.number = 0
  /\ NoItem \in Item /\ NoItem.active = 0 /\ NoItem.status = "absent"
  /\ NoReq \in Request /\ NoReq.op = "none"
  /\ 0 \notin Id /\ Id \subseteq Nat /\ Id \subseteq 0..MaxVersions /\ MaxVersions \in Nat
  /\ Maintainer \subseteq Person /\ Reviewer \subseteq Person /\ Bootstrap \in Person
<1>1. NoVersion \in Row /\ NoVersion.state = "none" /\ NoVersion.number = 0
  BY DEF NoVersion, Row
<1>2. NoItem \in Item /\ NoItem.active = 0 /\ NoItem.status = "absent"
  BY RuleAdminAssumption DEF NoItem, Item
<1>3. NoReq \in Request /\ NoReq.op = "none"
  BY <1>1, <1>2, RuleAdminAssumption DEF NoReq, Request, Op
<1>4. 0 \notin Id /\ Id \subseteq Nat /\ Id \subseteq 0..MaxVersions /\ MaxVersions \in Nat
  BY RuleAdminAssumption DEF Id
<1>5. Maintainer \subseteq Person /\ Reviewer \subseteq Person /\ Bootstrap \in Person
  BY DEF Person
<1> QED BY <1>1, <1>2, <1>3, <1>4, <1>5

\* An UPDATE over the row that was read writes the row that is wanted.
LEMMA MergedRow == ASSUME NEW now \in Row, NEW wanted \in Row PROVE Merged(now, now, wanted) = wanted
BY DEF Merged, Row

LEMMA MergedItem == ASSUME NEW now \in Item, NEW wanted \in Item PROVE Merged(now, now, wanted) = wanted
BY DEF Merged, Item

LEMMA NewRowMakes ==
  ASSUME NEW c \in Content \union {NoContent}, NEW n \in Nat,
         NEW who \in Person \union {NoOne}, NEW by \in Person \union {NoOne}
  PROVE  /\ NewRow(c, n, who, by) \in Row /\ NewRow(c, n, who, by).state = "draft"
         /\ NewRow(c, n, who, by).number = n /\ NewRow(c, n, who, by).author = by
BY DEF NewRow, NoVersion, Row, Working, Editable

\* What requests make of a row is a row.
LEMMA RowsMade ==
  ASSUME NEW old \in Row, NEW who \in Person \union {NoOne}, NEW to \in Person \union {NoOne},
         NEW c \in Content \union {NoContent}, NEW s \in Working
  PROVE  /\ [old EXCEPT !.content = c, !.revision = @ + 1, !.state = s] \in Row
         /\ [old EXCEPT !.content = c, !.revision = @ + 1] \in Row
         /\ [old EXCEPT !.state = "submitted", !.submitter = who, !.reviewer = to, !.approver = NoOne] \in Row
         /\ [old EXCEPT !.state = "approved", !.approver = who] \in Row
         /\ [old EXCEPT !.state = s] \in Row
<1> USE DEF Row, Working, Editable
<1>0. old.revision + 1 \in Nat
  OBVIOUS
<1>1. [old EXCEPT !.content = c, !.revision = @ + 1, !.state = s] \in Row
  BY <1>0
<1>2. [old EXCEPT !.content = c, !.revision = @ + 1] \in Row
  BY <1>0
<1>3. [old EXCEPT !.state = "submitted", !.submitter = who, !.reviewer = to, !.approver = NoOne] \in Row
  OBVIOUS
<1>4. [old EXCEPT !.state = "approved", !.approver = who] \in Row
  OBVIOUS
<1>5. [old EXCEPT !.state = s] \in Row
  OBVIOUS
<1> QED BY <1>1, <1>2, <1>3, <1>4, <1>5

-----------------------------------------------------------------------------
(* What steps do to the rows.                                              *)

\* A version is made.
Added(row) ==
  /\ row \in Row /\ row.number <= made + 1
  /\ made < MaxVersions /\ made' = made + 1
  /\ versions' = [versions EXCEPT ![made + 1] = row]

FirstAdded == item = NoItem /\ \E row \in Row :
  /\ Added(row)
  /\ \/ row.state = "draft" /\ item' = [status |-> "draft", active |-> 0]
     \/ /\ row.state = "published" /\ row.author = Bootstrap
        /\ item' = [status |-> "active", active |-> made + 1]

NextAdded == item # NoItem /\ WorkingOnes = {} /\ item' = item /\ \E row \in Row :
  Added(row) /\ row.state = "draft"

\* An unfinished version is written: edited, submitted, approved or rejected.
Worked(v, row) ==
  /\ v \in Id /\ versions[v].state \in Working /\ row \in Row /\ row.state \in Working
  /\ row.number = versions[v].number /\ row.author = versions[v].author
  /\ row.state \in Locked => row.content = versions[v].content
  /\ row.state \in Locked => row.author = Bootstrap \/ row.content \in Testable
  /\ row.state = "approved" =>
       row.approver = row.reviewer /\ row.approver \notin {row.creator, row.submitter, NoOne}
  /\ versions' = [versions EXCEPT ![v] = row] /\ item' = item /\ made' = made

\* A version is published in the place of another.
Superseded(v) ==
  /\ v \in Id /\ versions[v].state = "approved"
  /\ versions' = [u \in Id |-> IF u = v THEN [versions[u] EXCEPT !.state = "published"]
                               ELSE IF u = item.active THEN [versions[u] EXCEPT !.state = "retired"]
                               ELSE versions[u]]
  /\ item' = [status |-> "active", active |-> v] /\ made' = made

Dropped(v) ==
  /\ v \in Id /\ versions[v].state \in Editable
  /\ versions' = [versions EXCEPT ![v] = NoVersion] /\ item' = item /\ made' = made

Dissolved == versions' = [v \in Id |-> NoVersion] /\ item' = NoItem /\ made' = made

Switched ==
  /\ item # NoItem /\ \E s \in {"active", "disabled"} : item' = [item EXCEPT !.status = s]
  /\ versions' = versions /\ made' = made

RowStep ==
  \/ UNCHANGED <<versions, item, made>>
  \/ FirstAdded \/ NextAdded \/ Dissolved \/ Switched
  \/ \E v \in Id : Superseded(v) \/ Dropped(v) \/ \E row \in Row : Worked(v, row)

\* The commit of a request writes the row it wanted.
LEMMA CommitMakes ==
  ASSUME TypeOK, NEW t \in Thread \union Tester, NEW op, NEW wanted \in Row,
         Commits(t, op, wanted), req[t].id \in Id, req[t].row = versions[req[t].id]
  PROVE  /\ versions' = [versions EXCEPT ![req[t].id] = wanted] \/ versions' = versions
         /\ item' = item /\ made' = made
<1>1. versions[req[t].id] \in Row
  BY DEF TypeOK
<1>2. Merged(versions[req[t].id], req[t].row, wanted) = wanted
  BY <1>1, MergedRow
<1> QED BY <1>2 DEF Commits

LEMMA EditsMake ==
  ASSUME IInv, NEW t \in Thread, SaveCommit(t) \/ OverwriteCommit(t)
  PROVE  RowStep
<1> DEFINE v == req[t].id
           row == req[t].row
           saved == [row EXCEPT !.content = req[t].content, !.revision = @ + 1, !.state = "draft"]
           written == [row EXCEPT !.content = req[t].content, !.revision = @ + 1]
<1>1. req[t] \in Request /\ req[t].content \in Content \union {NoContent}
  BY DEF IInv, TypeOK, Request
<1>2. req[t].op \in {"save", "overwrite"}
  BY DEF SaveCommit, OverwriteCommit, Commits
<1>3. v \in Id /\ row = versions[v] /\ versions[v].state \in Editable /\ row \in Row
  BY <1>2 DEF IInv, Hands, HandOf, Reads, TypeOK
<1> DEFINE Edited(new) ==
      /\ new \in Row /\ new.state \in Editable
      /\ new.number = versions[v].number /\ new.author = versions[v].author
<1>4. Edited(saved) /\ Edited(written)
  <2>1. saved \in Row /\ written \in Row
    BY <1>1, <1>3, RowsMade DEF Working, Editable
  <2> QED BY <1>3, <2>1 DEF Row, Editable
<1>5. ASSUME NEW new \in {saved, written},
             versions' = [versions EXCEPT ![v] = new] /\ item' = item /\ made' = made
      PROVE  Worked(v, new)
  <2>1. Edited(new)
    BY <1>4
  <2> HIDE DEF v, saved, written
  <2> QED BY <1>3, <1>5, <2>1 DEF Worked, Editable, Working, Locked
<1>6. \/ \E new \in {saved, written} : versions' = [versions EXCEPT ![v] = new] /\ item' = item /\ made' = made
      \/ UNCHANGED <<versions, item, made>>
  BY <1>3, <1>4, CommitMakes DEF IInv, SaveCommit, OverwriteCommit
<1> HIDE DEF v, saved, written
<1> QED BY <1>3, <1>4, <1>5, <1>6 DEF RowStep

LEMMA JudgementsMake ==
  ASSUME IInv, NEW t \in Thread, SubmitCommit(t) \/ ApproveCommit(t) \/ RejectCommit(t)
  PROVE  RowStep
<1> DEFINE v == req[t].id
           row == req[t].row
           submitted == [row EXCEPT !.state = "submitted", !.submitter = req[t].who,
                                    !.reviewer = req[t].to, !.approver = NoOne]
           approved == [row EXCEPT !.state = "approved", !.approver = req[t].who]
           rejected == [row EXCEPT !.state = "rejected"]
<1>1. /\ req[t].who \in Person \union {NoOne} /\ req[t].to \in Person \union {NoOne}
      /\ HandOf(req[t])
  BY DEF IInv, Hands, TypeOK, Request
<1>2. req[t].op \in {"submit", "approve", "reject"}
  BY DEF SubmitCommit, ApproveCommit, RejectCommit, Commits
<1>3. v \in Id /\ row = versions[v] /\ versions[v] \in Row
  BY <1>1, <1>2 DEF IInv, HandOf, Reads, TypeOK
<1>4. submitted \in Row /\ approved \in Row /\ rejected \in Row
  BY <1>1, <1>3, RowsMade DEF Working, Editable
<1>5. /\ versions[v].state = "submitted" /\ versions[v].author # Bootstrap => versions[v].content \in Testable
  BY <1>3, Constants DEF IInv, RowsInv, ReleasedIsTested, Released, Existing, Exists, Seeded, Locked
<1>6. CASE SubmitCommit(t)
  <2>1. \/ versions' = [versions EXCEPT ![v] = submitted] /\ item' = item /\ made' = made
        \/ UNCHANGED <<versions, item, made>>
    BY <1>3, <1>4, <1>6, CommitMakes DEF IInv, SubmitCommit
  <2>2. row.state = "draft" /\ row.content \in Testable
    BY <1>1, <1>6 DEF HandOf, SubmitCommit, Commits
  <2>3. ASSUME versions' = [versions EXCEPT ![v] = submitted], item' = item, made' = made
        PROVE  Worked(v, submitted)
    BY <1>3, <1>4, <2>2, <2>3 DEF Worked, Working, Editable, Locked, Row
  <2> HIDE DEF v, submitted
  <2> QED BY <1>3, <1>4, <2>1, <2>3 DEF RowStep
<1>7. CASE ApproveCommit(t)
  <2>1. \/ versions' = [versions EXCEPT ![v] = approved] /\ item' = item /\ made' = made
        \/ UNCHANGED <<versions, item, made>>
    BY <1>3, <1>4, <1>7, CommitMakes DEF IInv, ApproveCommit
  <2>2. /\ row.state = "submitted" /\ req[t].who = row.reviewer
        /\ req[t].who \notin {row.submitter, row.creator, NoOne}
    BY <1>1, <1>7 DEF HandOf, ApproveCommit, Commits
  <2>3. ASSUME versions' = [versions EXCEPT ![v] = approved], item' = item, made' = made
        PROVE  Worked(v, approved)
    BY <1>3, <1>4, <1>5, <2>2, <2>3 DEF Worked, Working, Editable, Locked, Row
  <2> HIDE DEF v, approved
  <2> QED BY <1>3, <1>4, <2>1, <2>3 DEF RowStep
<1>8. CASE RejectCommit(t)
  <2>1. \/ versions' = [versions EXCEPT ![v] = rejected] /\ item' = item /\ made' = made
        \/ UNCHANGED <<versions, item, made>>
    BY <1>3, <1>4, <1>8, CommitMakes DEF IInv, RejectCommit
  <2>2. row.state = "submitted"
    BY <1>1, <1>8 DEF HandOf, RejectCommit, Commits
  <2>3. ASSUME versions' = [versions EXCEPT ![v] = rejected], item' = item, made' = made
        PROVE  Worked(v, rejected)
    BY <1>3, <1>4, <2>2, <2>3 DEF Worked, Working, Editable, Locked, Row
  <2> HIDE DEF v, rejected
  <2> QED BY <1>3, <1>4, <2>1, <2>3 DEF RowStep
<1> QED BY <1>6, <1>7, <1>8

\* Publication succeeds as a whole, and goes on to export what it published, or fails.
LEMMA PublishMakes ==
  ASSUME IInv, NEW t \in Thread, PublishCommit(t)
  PROVE  \/ UNCHANGED <<versions, item, made>> /\ Ends(t)
         \/ /\ req[t].id \in Id /\ req[t].row = versions[req[t].id] /\ Superseded(req[t].id)
            /\ req' = [req EXCEPT ![t] = [NoReq EXCEPT !.op = "export", !.content = req[t].row.content]]
<1> DEFINE q == req[t]
           wanted == [q.row EXCEPT !.state = "published"]
           pointed == [status |-> "active", active |-> q.id]
<1>1. q.op = "publish" /\ HandOf(q)
  BY DEF IInv, Hands, PublishCommit
<1>2. /\ q.id \in Id /\ q.row = versions[q.id] /\ q.item = item
      /\ versions[q.id].state = "approved" /\ versions[q.id] \in Row
  BY <1>1 DEF HandOf, Reads, IInv, TypeOK
<1>3. wanted \in Row /\ pointed \in Item /\ item \in Item
  BY <1>2 DEF Row, Item, Id, IInv, TypeOK
<1>4. Merged(versions[q.id], q.row, wanted) = wanted /\ Merged(item, q.item, pointed) = pointed
  <2> HIDE DEF wanted, pointed, q
  <2> QED BY <1>2, <1>3, MergedRow, MergedItem
<1> DEFINE previous == {q.item.active} \ {0, q.id}
           ok == item # NoItem /\ Exists(q.id) /\ previous \subseteq Existing
<1>5. CASE ~ok
  BY <1>5 DEF PublishCommit
<1>6. CASE ok
  <2>1. \A v \in Id : v \in {item.active} \ {0, q.id} <=> v = item.active /\ v # q.id
    BY Constants
  <2>2. /\ versions' = [v \in Id |->
             IF v = q.id THEN Merged(versions[v], q.row, wanted)
             ELSE IF v \in previous THEN [versions[v] EXCEPT !.state = "retired"]
             ELSE versions[v]]
        /\ item' = Merged(item, q.item, pointed) /\ made' = made
        /\ req' = [req EXCEPT ![t] = [NoReq EXCEPT !.op = "export", !.content = q.row.content]]
    BY <1>6 DEF PublishCommit
  <2>3. versions' = [v \in Id |->
             IF v = q.id THEN [versions[v] EXCEPT !.state = "published"]
             ELSE IF v = item.active THEN [versions[v] EXCEPT !.state = "retired"]
             ELSE versions[v]]
    BY <1>2, <1>4, <2>1, <2>2
  <2>4. Superseded(q.id)
    BY <1>2, <1>4, <2>2, <2>3 DEF Superseded
  <2> QED BY <1>2, <2>2, <2>4
<1> QED BY <1>5, <1>6

LEMMA InsertMakes == ASSUME IInv, NEW t \in Thread, Insert(t) PROVE RowStep
<1> DEFINE row == NewRow(req[t].content, req[t].number, req[t].who, req[t].by)
<1>1. HandOf(req[t]) /\ req[t].op = "insert" /\ req[t] \in Request
  BY DEF IInv, TypeOK, Hands, Insert
<1>2. row \in Row /\ row.state = "draft" /\ row.number = req[t].number
  <2>1. /\ req[t].content \in Content \union {NoContent} /\ req[t].number \in Nat
        /\ req[t].who \in Person \union {NoOne} /\ req[t].by \in Person \union {NoOne}
    BY <1>1 DEF Request
  <2> DEFINE c == req[t].content
             n == req[t].number
             who == req[t].who
             by == req[t].by
  <2>2. /\ c \in Content \union {NoContent} /\ n \in Nat
        /\ who \in Person \union {NoOne} /\ by \in Person \union {NoOne}
    BY <2>1
  <2> HIDE DEF c, n, who, by
  <2>3. LET new == NewRow(c, n, who, by) IN new \in Row /\ new.state = "draft" /\ new.number = n
    BY <2>2, NewRowMakes
  <2> QED BY <2>3 DEF c, n, who, by
<1>3. item # NoItem /\ WorkingOnes = {} /\ row.number <= made + 1
  BY <1>1, <1>2 DEF HandOf
<1>4. CASE versions' = [versions EXCEPT ![made + 1] = row] /\ made' = made + 1
  <2>1. item' = item /\ made < MaxVersions
    BY DEF Insert
  <2> HIDE DEF row
  <2> QED BY <1>2, <1>3, <1>4, <2>1 DEF Added, NextAdded, RowStep
<1> HIDE DEF row
<1>5. CASE UNCHANGED <<made, versions>>
  BY <1>5 DEF Insert, RowStep
<1> QED BY <1>4, <1>5 DEF Insert, row

LEMMA RemovalsMake ==
  ASSUME IInv, NEW t \in Thread,
         DeleteDraftCommit(t) \/ DeleteRulesetCommit(t) \/ SetStatusCommit(t)
  PROVE  RowStep
<1>0. HandOf(req[t]) /\ item \in Item
  BY DEF IInv, TypeOK, Hands
<1>1. CASE DeleteDraftCommit(t)
  <2>1. Dropped(req[t].id)
    BY <1>0, <1>1 DEF DeleteDraftCommit, HandOf, Dropped
  <2> QED BY <2>1 DEF RowStep, Dropped
<1>2. CASE DeleteRulesetCommit(t)
  BY <1>2 DEF DeleteRulesetCommit, Dissolved, RowStep
<1>3. CASE SetStatusCommit(t)
  <2> DEFINE s == req[t].op
             wanted == [item EXCEPT !.status = s]
  <2>1. s \in {"active", "disabled"} /\ item # NoItem /\ req[t].item = item
    BY <1>0, <1>3 DEF SetStatusCommit, HandOf
  <2>2. wanted \in Item
    BY <1>0, <2>1 DEF Item
  <2>3. item' = Merged(item, item, wanted)
    BY <1>3, <2>1 DEF SetStatusCommit
  <2>4. item' = wanted
    <3> HIDE DEF wanted
    <3> QED BY <1>0, <2>2, <2>3, MergedItem
  <2>5. Switched
    BY <1>3, <2>1, <2>4 DEF SetStatusCommit, Switched
  <2> QED BY <2>5 DEF RowStep
<1> QED BY <1>1, <1>2, <1>3

LEMMA FirstMakes ==
  ASSUME IInv, Seed \/ (\E c \in Content : (\E who \in Maintainer : Create(c, who))
                                             \/ (\E who \in Admin : LegacyCreate(c, who)))
  PROVE  RowStep
<1>0. made \in Nat /\ 1 \in Nat /\ 1 <= made + 1 /\ file \in Content \union {NoContent}
  BY Constants DEF IInv, TypeOK
<1>1. ASSUME NEW row \in Row, row.number = 1, NEW first, FirstVersion(row, first),
             \/ row.state = "draft" /\ first = [status |-> "draft", active |-> 0]
             \/ /\ row.state = "published" /\ row.author = Bootstrap
                /\ first = [status |-> "active", active |-> made + 1]
      PROVE  RowStep
  <2>1. Added(row)
    BY <1>0, <1>1 DEF FirstVersion, Added
  <2> QED BY <1>1, <2>1 DEF FirstVersion, FirstAdded, RowStep
<1>2. ASSUME NEW c \in Content, NEW who \in Maintainer, Create(c, who) PROVE RowStep
  <2> DEFINE row == NewRow(c, 1, who, who)
  <2>1. row \in Row /\ row.state = "draft" /\ row.number = 1
    BY <1>0, NewRowMakes DEF Person
  <2>2. FirstVersion(row, [status |-> "draft", active |-> 0])
    BY <1>2 DEF Create
  <2> HIDE DEF row
  <2> QED BY <1>1, <2>1, <2>2
<1>3. ASSUME NEW c \in Content, NEW who \in Admin, LegacyCreate(c, who) PROVE RowStep
  <2> DEFINE row == NewRow(c, 1, Bootstrap, who)
  <2>1. row \in Row /\ row.state = "draft" /\ row.number = 1
    BY <1>0, NewRowMakes DEF Person, Admin
  <2>2. FirstVersion(row, [status |-> "draft", active |-> 0])
    BY <1>3 DEF LegacyCreate
  <2> HIDE DEF row
  <2> QED BY <1>1, <2>1, <2>2
<1>4. CASE Seed
  <2> DEFINE row == [NewRow(file, 1, Bootstrap, Bootstrap) EXCEPT !.state = "published"]
  <2>1. row \in Row /\ row.state = "published" /\ row.number = 1 /\ row.author = Bootstrap
    <3> DEFINE new == NewRow(file, 1, Bootstrap, Bootstrap)
    <3>1. new \in Row /\ new.number = 1 /\ new.author = Bootstrap
      BY <1>0, NewRowMakes DEF Person
    <3> HIDE DEF new
    <3>2. row = [new EXCEPT !.state = "published"]
      BY DEF new
    <3> QED BY <3>1, <3>2 DEF Row
  <2>2. FirstVersion(row, [status |-> "active", active |-> made + 1])
    BY <1>4 DEF Seed
  <2> HIDE DEF row
  <2> QED BY <1>1, <2>1, <2>2
<1> QED BY <1>2, <1>3, <1>4

\* Whatever else a step does, it leaves the rows alone.
LEMMA RowSteps == ASSUME IInv, [Next]_vars PROVE RowStep
<1>1. ASSUME NEW t \in Thread, Start(t) PROVE RowStep
  BY <1>1
  DEF Start, Clone, Save, Overwrite, DeleteDraft, Submit, Publish, Judge, LegacyNew, DeleteRuleset,
      SetStatus, Begins, RowStep
<1>2. ASSUME NEW t \in Thread, Finish(t) PROVE RowStep
  <2>1. CASE Number(t) \/ Export(t)
    BY <2>1 DEF Number, Export, RowStep
  <2>2. CASE PublishCommit(t)
    BY <2>2, PublishMakes DEF RowStep
  <2> QED
    BY <1>2, <2>1, <2>2, InsertMakes, EditsMake, JudgementsMake, RemovalsMake DEF Finish
<1>3. ASSUME NEW t \in Tester, TestCommit(t) \/ \E v \in Id : Test(t, v) PROVE RowStep
  BY <1>3 DEF TestCommit, Test, Begins, RowStep
<1>4. CASE Crash \/ UNCHANGED vars
  BY <1>4 DEF Crash, vars, RowStep
<1> QED BY <1>1, <1>2, <1>3, <1>4, FirstMakes DEF Next

-----------------------------------------------------------------------------
(* The rows.                                                               *)

LEMMA AddedKeeps ==
  ASSUME RowsInv, NEW row, Added(row), row.state # "published" => item'.active = item.active,
         row.state = "published" => row.author = Bootstrap /\ item.active = 0 /\ item'.active = made + 1,
         row.state \in {"draft", "published"}, WorkingOnes = {}, item' \in Item, item' # NoItem
  PROVE  RowsInv'
<1> USE DEF RowsInv, RowsTyped
<1>1. /\ made + 1 \in Id /\ made \in Nat /\ made' \in 0..MaxVersions
      /\ versions' \in [Id -> Row] /\ versions'[made + 1] = row
      /\ \A v \in Id \ {made + 1} : versions'[v] = versions[v]
  BY Constants DEF Added, Id
<1>2. versions[made + 1] = NoVersion
  BY <1>1 DEF Numbered
<1>3. RowsTyped'
  BY <1>1
<1>4. AtMostOne'
  BY <1>1 DEF AtMostOne, WorkingOnes
<1>5. FourEyes' /\ ReleasedIsTested'
  BY <1>1 DEF FourEyes, ReleasedIsTested, Released, Existing, Exists, Seeded, Locked
<1>6. Numbered'
  <2>1. made' = made + 1 /\ row.number <= made + 1
    BY DEF Added
  <2>2. ASSUME NEW v \in Id PROVE versions'[v].number <= made' /\ (v > made' => versions'[v] = NoVersion)
    <3>1. CASE v = made + 1
      BY <1>1, <2>1, <3>1
    <3>2. CASE v # made + 1
      <4>1. versions[v].number \in Nat /\ versions[v].number <= made /\ (v > made => versions[v] = NoVersion)
        BY DEF Numbered, Row
      <4> QED BY <1>1, <2>1, <3>2, <4>1 DEF Id
    <3> QED BY <3>1, <3>2
  <2> QED BY <2>2 DEF Numbered
<1>7. HaveRuleset'
  BY DEF HaveRuleset
<1>8. Published'
  <2>1. item.active # made + 1
    BY <1>1, <1>2, Constants DEF Published
  <2> QED BY <1>1, <2>1, Constants DEF Published
<1> QED BY <1>3, <1>4, <1>5, <1>6, <1>7, <1>8

LEMMA WorkedKeeps == ASSUME RowsInv, NEW v \in Id, NEW row \in Row, Worked(v, row) PROVE RowsInv'
<1> USE DEF RowsInv, RowsTyped
<1>1. /\ versions' \in [Id -> Row] /\ versions'[v] = row
      /\ \A u \in Id \ {v} : versions'[u] = versions[u]
  BY DEF Worked
<1>2. /\ item' = item /\ made' = made /\ versions[v].state \in Working /\ row.state \in Working
      /\ row.number = versions[v].number /\ row.author = versions[v].author
      /\ row.state \in Locked => row.author = Bootstrap \/ row.content \in Testable
      /\ row.state = "approved" =>
           row.approver = row.reviewer /\ row.approver \notin {row.creator, row.submitter, NoOne}
  BY DEF Worked
<1>3. RowsTyped'
  BY <1>1, <1>2
<1>4. AtMostOne'
  <2>1. WorkingOnes' = WorkingOnes
    BY <1>1, <1>2 DEF WorkingOnes
  <2> QED BY <2>1 DEF AtMostOne
<1>5. FourEyes' /\ ReleasedIsTested'
  <2>1. versions[v] # NoVersion
    BY <1>2, Constants DEF Working, Editable
  <2>2. row.state \in Locked \ {"submitted"} => row.state = "approved"
    BY <1>2 DEF Working, Editable, Locked
  <2>3. ASSUME NEW u \in Released', u # v PROVE u \in Released /\ versions'[u] = versions[u]
    BY <1>1, <2>3 DEF Released, Existing, Exists, Seeded
  <2>4. v \in Released' => row.state \in Locked /\ row.author # Bootstrap
    BY <1>1 DEF Released, Existing, Exists, Seeded
  <2>5. FourEyes'
    BY <1>1, <1>2, <2>2, <2>3, <2>4 DEF FourEyes
  <2>6. ReleasedIsTested'
    BY <1>1, <1>2, <2>3, <2>4 DEF ReleasedIsTested
  <2> QED BY <2>5, <2>6
<1>6. Numbered'
  BY <1>1, <1>2, Constants DEF Numbered, Working, Editable
<1>7. HaveRuleset' /\ Published'
  BY <1>1, <1>2, Constants DEF HaveRuleset, Published, Working, Editable
<1> QED BY <1>3, <1>4, <1>5, <1>6, <1>7

\* The version published before had been approved, too, and stays as it was.
LEMMA SupersededKeeps == ASSUME RowsInv, NEW v \in Id, Superseded(v) PROVE RowsInv'
<1> USE DEF RowsInv, RowsTyped
<1>1. /\ made' = made /\ item' = [status |-> "active", active |-> v]
      /\ versions[v].state = "approved" /\ v # item.active
      /\ versions[v] # NoVersion
  BY Constants DEF Superseded, Published
<1>2. \A u \in Id : u = item.active => versions[u].state = "published" /\ versions[u] # NoVersion
  BY Constants DEF Published
<1>3. \A u \in Id : versions'[u] = IF u = v THEN [versions[u] EXCEPT !.state = "published"]
                                   ELSE IF u = item.active THEN [versions[u] EXCEPT !.state = "retired"]
                                   ELSE versions[u]
  BY DEF Superseded
<1>4. \A u \in Id :
        /\ versions'[u] \in Row /\ versions'[u].content = versions[u].content
        /\ versions'[u].number = versions[u].number /\ versions'[u].author = versions[u].author
        /\ versions'[u].creator = versions[u].creator /\ versions'[u].submitter = versions[u].submitter
        /\ versions'[u].reviewer = versions[u].reviewer /\ versions'[u].approver = versions[u].approver
        /\ versions'[u].state = IF u = v THEN "published" ELSE IF u = item.active THEN "retired"
                                ELSE versions[u].state
        /\ versions[u] = NoVersion => versions'[u] = NoVersion
  <2> SUFFICES ASSUME NEW u \in Id
               PROVE  /\ versions'[u] \in Row /\ versions'[u].content = versions[u].content
                      /\ versions'[u].number = versions[u].number /\ versions'[u].author = versions[u].author
                      /\ versions'[u].creator = versions[u].creator
                      /\ versions'[u].submitter = versions[u].submitter
                      /\ versions'[u].reviewer = versions[u].reviewer
                      /\ versions'[u].approver = versions[u].approver
                      /\ versions'[u].state = IF u = v THEN "published" ELSE IF u = item.active THEN "retired"
                                              ELSE versions[u].state
                      /\ versions[u] = NoVersion => versions'[u] = NoVersion
    OBVIOUS
  <2>0. versions[u] \in Row
    OBVIOUS
  <2>1. CASE u = v
    <3>1. versions'[u] = [versions[u] EXCEPT !.state = "published"] /\ versions[u] # NoVersion
      BY <1>1, <1>3, <2>1
    <3> QED BY <2>0, <2>1, <3>1 DEF Row
  <2>2. CASE u # v /\ u = item.active
    <3>1. versions'[u] = [versions[u] EXCEPT !.state = "retired"] /\ versions[u] # NoVersion
      BY <1>2, <1>3, <2>2
    <3> QED BY <2>0, <2>2, <3>1 DEF Row
  <2>3. CASE u # v /\ u # item.active
    BY <1>3, <2>0, <2>3
  <2> QED BY <2>1, <2>2, <2>3
<1>5. RowsTyped'
  <2>1. versions' \in [Id -> Row]
    BY <1>4 DEF Superseded
  <2>2. item' \in Item
    BY <1>1 DEF Item, Id
  <2> QED BY <1>1, <2>1, <2>2
<1>6. AtMostOne'
  BY <1>4 DEF AtMostOne, WorkingOnes, Working, Editable
<1>7. ASSUME NEW u \in Released'
      PROVE  u \in Released /\ (versions'[u].state # "submitted" => versions[u].state # "submitted")
  <2>1. u \in Id /\ versions[u] # NoVersion /\ versions[u].author # Bootstrap /\ versions'[u].state \in Locked
    BY <1>4, <1>7 DEF Released, Existing, Exists, Seeded
  <2>2. versions[u].state \in Locked /\ (versions'[u].state # "submitted" => versions[u].state # "submitted")
    BY <1>1, <1>2, <1>4, <2>1 DEF Locked
  <2> QED BY <2>1, <2>2 DEF Released, Existing, Exists, Seeded
<1>8. FourEyes' /\ ReleasedIsTested'
  <2>1. Released' \subseteq Id
    BY DEF Released, Existing
  <2> QED BY <1>4, <1>7, <2>1 DEF FourEyes, ReleasedIsTested
<1>9. Numbered'
  BY <1>1, <1>4 DEF Numbered
<1>10. HaveRuleset'
  BY <1>1 DEF HaveRuleset, NoItem
<1>11. Published'
  BY <1>1, <1>4 DEF Published
<1> QED BY <1>5, <1>6, <1>8, <1>9, <1>10, <1>11

LEMMA RemovedKeeps ==
  ASSUME RowsInv, (\E v \in Id : Dropped(v)) \/ Dissolved
  PROVE  RowsInv'
<1> USE DEF RowsInv, RowsTyped
<1>1. \A v \in Id : versions'[v] \in {versions[v], NoVersion}
  BY DEF Dropped, Dissolved
<1>2. made' = made /\ versions' \in [Id -> Row] /\ item' \in Item
  BY Constants DEF Dropped, Dissolved
<1>3. AtMostOne'
  <2>1. WorkingOnes' \subseteq WorkingOnes
    BY <1>1, Constants DEF WorkingOnes, Working, Editable
  <2> QED BY <2>1 DEF AtMostOne
<1>4. FourEyes' /\ ReleasedIsTested'
  BY <1>1, Constants DEF FourEyes, ReleasedIsTested, Released, Existing, Exists, Seeded
<1>5. Numbered'
  <2>1. 0 <= made
    OBVIOUS
  <2> QED BY <1>1, <1>2, <2>1, Constants DEF Numbered
<1>6. HaveRuleset' /\ Published'
  <2>1. CASE Dissolved
    BY <2>1, Constants DEF Dissolved, HaveRuleset, Published
  <2>2. ASSUME NEW v \in Id, Dropped(v) PROVE HaveRuleset' /\ Published'
    <3>1. item' = item /\ versions'[v] = NoVersion /\ v # item.active
      BY <2>2 DEF Dropped, Published, Editable
    <3>2. \A u \in Id \ {v} : versions'[u] = versions[u]
      BY <2>2 DEF Dropped
    <3> QED BY <3>1, <3>2, Constants DEF HaveRuleset, Published
  <2> QED BY <2>1, <2>2
<1> QED BY <1>2, <1>3, <1>4, <1>5, <1>6

LEMMA RowsKept == ASSUME RowsInv, RowStep PROVE RowsInv'
<1> USE DEF RowsInv, RowsTyped
<1>1. CASE UNCHANGED <<versions, item, made>>
  BY <1>1 DEF AtMostOne, WorkingOnes, FourEyes, ReleasedIsTested, Released, Existing, Exists, Seeded,
              Numbered, HaveRuleset, Published
<1>2. CASE FirstAdded
  <2>1. WorkingOnes = {} /\ item.active = 0
    BY <1>2, Constants DEF FirstAdded, HaveRuleset, WorkingOnes, Working, Editable
  <2>2. PICK row \in Row :
          /\ Added(row)
          /\ \/ row.state = "draft" /\ item' = [status |-> "draft", active |-> 0]
             \/ /\ row.state = "published" /\ row.author = Bootstrap
                /\ item' = [status |-> "active", active |-> made + 1]
    BY <1>2 DEF FirstAdded
  <2>3. item' \in Item /\ item' # NoItem
    BY <2>2, Constants DEF Item, NoItem, Added
  <2>4. CASE row.state = "draft" /\ item' = [status |-> "draft", active |-> 0]
    BY <2>1, <2>2, <2>3, <2>4, AddedKeeps
  <2>5. CASE /\ row.state = "published" /\ row.author = Bootstrap
             /\ item' = [status |-> "active", active |-> made + 1]
    BY <2>1, <2>2, <2>3, <2>5, AddedKeeps
  <2> QED BY <2>2, <2>4, <2>5
<1>3. CASE NextAdded
  BY <1>3, AddedKeeps DEF NextAdded
<1>4. CASE Dissolved
  BY <1>4, RemovedKeeps
<1>5. CASE Switched
  <2>1. PICK s \in {"active", "disabled"} : item' = [item EXCEPT !.status = s]
    BY <1>5 DEF Switched
  <2>2. item' \in Item /\ item'.active = item.active /\ item'.status = s
    BY <2>1 DEF Item
  <2>3. versions' = versions /\ made' = made /\ HaveRuleset'
    BY <1>5, <2>2, Constants DEF Switched, HaveRuleset
  <2>4. Published'
    BY <2>2, <2>3 DEF Published
  <2> QED
    BY <2>2, <2>3, <2>4
    DEF AtMostOne, WorkingOnes, FourEyes, ReleasedIsTested, Released, Existing, Exists,
        Seeded, Numbered
<1>6. ASSUME NEW v \in Id, Superseded(v) \/ Dropped(v) \/ \E row \in Row : Worked(v, row)
      PROVE  RowsInv'
  BY <1>6, SupersededKeeps, RemovedKeeps, WorkedKeeps
<1> QED BY <1>1, <1>2, <1>3, <1>4, <1>5, <1>6 DEF RowStep

-----------------------------------------------------------------------------
(* The requests.                                                           *)

\* What a request has in hand stays true of rows that stay.
LEMMA SameHand ==
  ASSUME NEW q, HandOf(q), UNCHANGED <<versions, item, made>>
  PROVE  HandOf(q)'
BY DEF HandOf, WorkingOnes

\* A request begins with what it reads, and the conditions it checks.
LEMMA BeginsMakes ==
  ASSUME TypeOK, NEW t \in Thread \union Tester, NEW q \in Request, Begins(t, q)
  PROVE  /\ req' \in [Thread \union Tester -> Request] /\ req'[t] = q
         /\ \A u \in (Thread \union Tester) \ {t} : req'[u] = req[u]
         /\ UNCHANGED <<versions, item, made, tests, file>>
BY DEF TypeOK, Begins

LEMMA ReadingMakes ==
  ASSUME TypeOK, NEW op \in Reads, NEW v \in Id
  PROVE  LET q == Reading(op, v) IN
         /\ q \in Request /\ q.op = op /\ q.id = v /\ q.row = versions[v]
BY Constants DEF TypeOK, Reading, Request, Op, Reads

\* What the rules ask of a request before it begins.
LEMMA StartKnows ==
  ASSUME IInv, NEW t \in Thread, Start(t)
  PROVE  \E q \in Request : Begins(t, q) /\ HandOf(q)
<1> USE DEF RowsInv, RowsTyped
<1>0. TypeOK /\ RowsInv /\ TestsPass /\ versions \in [Id -> Row]
  BY DEF IInv
<1>1. \A v \in Id : versions[v].state # "none" => item # NoItem
  BY <1>0, Constants DEF HaveRuleset
<1>2. ASSUME NEW v \in Id, NEW c \in Content, Save(t, v, c) PROVE \E q \in Request : Begins(t, q) /\ HandOf(q)
  <2> DEFINE q == [Reading("save", v) EXCEPT !.content = c]
  <2>1. q \in Request /\ q.op = "save" /\ q.id = v /\ q.row = versions[v]
    BY <1>0, ReadingMakes DEF Request, Reads
  <2>2. Begins(t, q) /\ versions[v].state \in Editable
    BY <1>2 DEF Save
  <2> HIDE DEF q
  <2>3. HandOf(q)
    BY <1>1, <2>1, <2>2 DEF HandOf, Editable
  <2> QED BY <2>1, <2>2, <2>3
<1>3. ASSUME NEW v \in Id, NEW c \in Content, Overwrite(t, v, c) PROVE \E q \in Request : Begins(t, q) /\ HandOf(q)
  <2> DEFINE q == [Reading("overwrite", v) EXCEPT !.content = c]
  <2>1. q \in Request /\ q.op = "overwrite" /\ q.id = v /\ q.row = versions[v]
    BY <1>0, ReadingMakes DEF Request, Reads
  <2>2. Begins(t, q) /\ versions[v].state \in Editable
    BY <1>3 DEF Overwrite
  <2> HIDE DEF q
  <2>3. HandOf(q)
    BY <1>1, <2>1, <2>2 DEF HandOf, Editable
  <2> QED BY <2>1, <2>2, <2>3
<1>4. ASSUME NEW v \in Id, NEW who \in Maintainer, NEW reviewer \in Reviewer, Submit(t, v, who, reviewer)
      PROVE  \E q \in Request : Begins(t, q) /\ HandOf(q)
  <2> DEFINE q == [Reading("submit", v) EXCEPT !.who = who, !.to = reviewer]
  <2>1. q \in Request /\ q.op = "submit" /\ q.id = v /\ q.row = versions[v]
    <3> DEFINE read == Reading("submit", v)
    <3>1. read \in Request /\ read.op = "submit" /\ read.id = v /\ read.row = versions[v]
      BY <1>0, ReadingMakes DEF Reads
    <3>2. q = [read EXCEPT !.who = who, !.to = reviewer]
      OBVIOUS
    <3> HIDE DEF read, q
    <3> QED BY <1>0, <3>1, <3>2, Constants DEF Request
  <2>2. Begins(t, q) /\ versions[v].state = "draft" /\ versions[v].content \in Testable
    BY <1>0, <1>4 DEF Submit, TestsPass
  <2> HIDE DEF q
  <2>3. HandOf(q)
    BY <1>1, <2>1, <2>2 DEF HandOf
  <2> QED BY <2>1, <2>2, <2>3
<1>5. ASSUME NEW v \in Id, NEW who \in Reviewer, Publish(t, v, who)
      PROVE  \E q \in Request : Begins(t, q) /\ HandOf(q)
  <2> DEFINE q == [Reading("publish", v) EXCEPT !.who = who, !.item = item]
  <2>1. q \in Request /\ q.op = "publish" /\ q.id = v /\ q.row = versions[v] /\ q.item = item
    <3> DEFINE read == Reading("publish", v)
    <3>1. read \in Request /\ read.op = "publish" /\ read.id = v /\ read.row = versions[v]
      BY <1>0, ReadingMakes DEF Reads
    <3>2. q = [read EXCEPT !.who = who, !.item = item]
      OBVIOUS
    <3> HIDE DEF read, q
    <3> QED BY <1>0, <3>1, <3>2, Constants DEF Request
  <2>2. Begins(t, q) /\ versions[v].state = "approved"
    BY <1>5 DEF Publish
  <2> HIDE DEF q
  <2>3. HandOf(q)
    BY <1>1, <2>1, <2>2 DEF HandOf
  <2> QED BY <2>1, <2>2, <2>3
<1>6. ASSUME NEW v \in Id, NEW who \in Reviewer, NEW verdict \in {"approve", "reject"}, Judge(t, v, who, verdict)
      PROVE  \E q \in Request : Begins(t, q) /\ HandOf(q)
  <2> DEFINE q == [Reading(verdict, v) EXCEPT !.who = who]
  <2>1. q \in Request /\ q.op = verdict /\ q.id = v /\ q.row = versions[v] /\ q.who = who
    BY <1>0, Constants, ReadingMakes DEF Request, Reads
  <2>2. Begins(t, q) /\ versions[v].state = "submitted" /\ who = versions[v].reviewer
        /\ who \notin {versions[v].submitter, versions[v].creator, NoOne}
    BY <1>6, RuleAdminAssumption DEF Judge, MayJudge, Person
  <2> HIDE DEF q
  <2>3. HandOf(q)
    BY <1>1, <2>1, <2>2 DEF HandOf
  <2> QED BY <2>1, <2>2, <2>3
<1>7. ASSUME NEW v \in Id, NEW who \in Maintainer, Clone(t, v, who)
      PROVE  \E q \in Request : Begins(t, q) /\ HandOf(q)
  <2> DEFINE q == [NoReq EXCEPT !.op = "number", !.content = versions[v].content, !.who = who, !.by = who]
  <2>1. q \in Request /\ q.op = "number"
    <3>1. versions[v].content \in Content \union {NoContent} /\ who \in Person
      BY <1>0, Constants DEF Row
    <3> QED BY <3>1, Constants DEF Request, Op
  <2>2. Begins(t, q) /\ item # NoItem /\ WorkingOnes = {}
    BY <1>7 DEF Clone
  <2> HIDE DEF q
  <2>3. HandOf(q)
    BY <2>1, <2>2 DEF HandOf, Reads
  <2> QED BY <2>1, <2>2, <2>3
<1>8. ASSUME NEW c \in Content, NEW who \in Admin, LegacyNew(t, c, who)
      PROVE  \E q \in Request : Begins(t, q) /\ HandOf(q)
  <2> DEFINE q == [NoReq EXCEPT !.op = "number", !.content = c, !.who = Bootstrap, !.by = who]
  <2>1. q \in Request /\ q.op = "number"
    BY Constants DEF Request, Op, Person, Admin, NoReq
  <2>2. Begins(t, q) /\ item # NoItem /\ WorkingOnes = {}
    BY <1>8 DEF LegacyNew
  <2> HIDE DEF q
  <2>3. HandOf(q)
    BY <2>1, <2>2 DEF HandOf, Reads
  <2> QED BY <2>1, <2>2, <2>3
<1>9. ASSUME NEW v \in Id, DeleteDraft(t, v) PROVE \E q \in Request : Begins(t, q) /\ HandOf(q)
  <2> DEFINE q == [NoReq EXCEPT !.op = "drop", !.id = v]
  <2>1. q \in Request /\ q.op = "drop" /\ q.id = v
    BY Constants DEF Request, Op
  <2>2. Begins(t, q) /\ versions[v].state \in Editable
    BY <1>9 DEF DeleteDraft
  <2> HIDE DEF q
  <2>3. HandOf(q)
    BY <1>1, <2>1, <2>2 DEF HandOf, Reads, Editable
  <2> QED BY <2>1, <2>2, <2>3
<1>10. ASSUME DeleteRuleset(t) PROVE \E q \in Request : Begins(t, q) /\ HandOf(q)
  <2> DEFINE q == [NoReq EXCEPT !.op = "dissolve", !.seen = Existing, !.ran = tests]
  <2>1. q \in Request /\ q.op = "dissolve"
    BY <1>0, Constants DEF Request, Op, NoReq, Existing, TypeOK
  <2>2. Begins(t, q) /\ item # NoItem
    BY <1>10 DEF DeleteRuleset
  <2> HIDE DEF q
  <2>3. HandOf(q)
    BY <2>1, <2>2 DEF HandOf, Reads
  <2> QED BY <2>1, <2>2, <2>3
<1>11. ASSUME NEW s \in {"active", "disabled"}, SetStatus(t, s)
       PROVE  \E q \in Request : Begins(t, q) /\ HandOf(q)
  <2> DEFINE q == [NoReq EXCEPT !.op = s, !.item = item]
  <2>1. q \in Request /\ q.op = s /\ q.item = item
    BY <1>0, Constants DEF Request, Op, NoReq
  <2>2. Begins(t, q) /\ item # NoItem
    BY <1>11 DEF SetStatus
  <2> HIDE DEF q
  <2>3. HandOf(q)
    BY <2>1, <2>2 DEF HandOf, Reads
  <2> QED BY <2>1, <2>2, <2>3
<1> QED
  BY <1>2, <1>3, <1>4, <1>5, <1>6, <1>7, <1>8, <1>9, <1>10, <1>11 DEF Start

LEMMA NothingInHand == HandOf(NoReq) /\ HandOf(NoReq)'
BY Constants DEF HandOf, Reads

\* A number after all the others.
LEMMA NumberMakes ==
  ASSUME IInv, NEW t \in Thread, Number(t)
  PROVE  \E q \in Request : req' = [req EXCEPT ![t] = q] /\ HandOf(q)
<1> DEFINE numbers == {versions[v].number : v \in Existing} \union {0}
           n == Max(numbers) + 1
           q == [req[t] EXCEPT !.op = "insert", !.number = n]
<1>0. made \in Nat /\ versions \in [Id -> Row] /\ req[t] \in Request
  BY Constants DEF IInv, TypeOK
<1>1. /\ numbers \in SUBSET Nat /\ numbers # {} /\ \A x \in numbers : x <= made
  BY <1>0 DEF IInv, RowsInv, Numbered, Existing, Row
<1>2. Max(numbers) \in Nat /\ Max(numbers) <= made
  <2> HIDE DEF numbers
  <2> QED BY <1>0, <1>1, MaxOfBounded
<1>3. n \in Nat /\ n <= made + 1
  BY <1>0, <1>2
<1>4. req' = [req EXCEPT ![t] = q]
  BY DEF Number
<1>5. req[t].op = "number" /\ HandOf(req[t])
  BY DEF Number, IInv, Hands
<1> HIDE DEF n
<1>6. q \in Request /\ q.op = "insert" /\ q.number = n
  BY <1>0, <1>3 DEF Request, Op
<1> HIDE DEF q
<1>7. HandOf(q)
  BY <1>3, <1>5, <1>6 DEF HandOf, Reads
<1> QED BY <1>4, <1>6, <1>7

\* A request that ends, or goes on, has in hand what it should.
LEMMA FinishKnows ==
  ASSUME IInv, NEW t \in Thread, Finish(t)
  PROVE  \E q \in Request : req' = [req EXCEPT ![t] = q] /\ HandOf(q)'
<1>1. CASE Number(t)
  <2>1. PICK q \in Request : req' = [req EXCEPT ![t] = q] /\ HandOf(q)
    BY <1>1, NumberMakes
  <2> QED BY <1>1, <2>1, SameHand DEF Number
<1>2. CASE Ends(t)
  BY <1>2, Constants, NothingInHand DEF Ends
<1>3. CASE PublishCommit(t)
  <2> DEFINE v == req[t].id
             q == [NoReq EXCEPT !.op = "export", !.content = req[t].row.content]
  <2> SUFFICES ASSUME v \in Id, req[t].row = versions[v], Superseded(v), req' = [req EXCEPT ![t] = q]
               PROVE  \E p \in Request : req' = [req EXCEPT ![t] = p] /\ HandOf(p)'
    BY <1>2, <1>3, PublishMakes
  <2>1. versions[v] \in Row
    BY DEF IInv, TypeOK
  <2>2. req[t].row.content = versions[v].content /\ versions[v].content \in Content \union {NoContent}
    BY <2>1 DEF Row
  <2>3. q \in Request /\ q.op = "export" /\ q.content = versions[v].content
    BY <2>2, Constants DEF Request, Op
  <2>4. versions'[v] = [versions[v] EXCEPT !.state = "published"]
        /\ item' = [status |-> "active", active |-> v]
    BY DEF Superseded
  <2>5. versions'[v].state = "published" /\ versions'[v].content = versions[v].content
    BY <2>1, <2>4 DEF Row
  <2>6. item' # NoItem
    BY <2>4 DEF NoItem
  <2>7. PICK p \in Request : p.op = "export" /\ p.content = versions[v].content /\ p = q
    BY <2>3
  <2>8. HandOf(p)'
    BY <2>5, <2>6, <2>7 DEF HandOf, Reads
  <2> QED BY <2>7, <2>8
<1> QED
  BY <1>1, <1>2, <1>3
  DEF Finish, Insert, SaveCommit, OverwriteCommit, SubmitCommit, ApproveCommit, RejectCommit, Commits,
      Export, DeleteDraftCommit, DeleteRulesetCommit, SetStatusCommit

\* One thread's step: the others, if any, are testers.
LEMMA RequestStep ==
  ASSUME OneAtATime, IInv, NEW t \in Thread, Start(t) \/ Finish(t)
  PROVE  /\ req' \in [Thread \union Tester -> Request] /\ Hands' /\ Testers'
<1>1. \E q \in Request : req' = [req EXCEPT ![t] = q] /\ HandOf(q)'
  <2>1. CASE Start(t)
    <3>1. PICK q \in Request : Begins(t, q) /\ HandOf(q)
      BY <2>1, StartKnows
    <3> QED BY <3>1, SameHand DEF Begins
  <2> QED BY <2>1, FinishKnows
<1>2. PICK q \in Request : req' = [req EXCEPT ![t] = q] /\ HandOf(q)'
  BY <1>1
<1>3. req' \in [Thread \union Tester -> Request] /\ req'[t] = q
      /\ \A u \in Tester : req'[u] = req[u]
  BY <1>2, RuleAdminAssumption DEF IInv, TypeOK
<1>4. Hands'
  <2>1. \A u \in Thread : req'[u] = q
    BY <1>3 DEF OneAtATime
  <2> QED BY <1>2, <2>1 DEF Hands, HandOf
<1>5. Testers'
  BY <1>3 DEF IInv, Testers
<1> QED BY <1>3, <1>4, <1>5

LEMMA IInvInit == Init => IInv
<1> SUFFICES ASSUME Init PROVE IInv
  OBVIOUS
<1>1. \A v \in Id : versions[v] = NoVersion
  BY DEF Init
<1>2. TypeOK
  BY Constants DEF Init, TypeOK
<1>3. RowsInv
  BY <1>1, <1>2, Constants
  DEF Init, TypeOK, RowsInv, RowsTyped, AtMostOne, WorkingOnes, Working, Editable, FourEyes,
      ReleasedIsTested, Released, Existing, Exists, Numbered, HaveRuleset, Published
<1>4. TestsPass /\ Testers /\ Hands
  BY Constants, NothingInHand DEF Init, TestsPass, Testers, Hands
<1> QED BY <1>2, <1>3, <1>4 DEF IInv

LEMMA IInvStep == ASSUME OneAtATime, IInv, [Next]_vars PROVE IInv'
<1>0. RowsInv'
  BY RowSteps, RowsKept DEF IInv
<1> DEFINE Requests == req' \in [Thread \union Tester -> Request] /\ Hands' /\ Testers'
           Files == file' \in Content \union {NoContent} /\ TestsPass'
<1>1. ASSUME NEW t \in Thread, Start(t) \/ Finish(t) PROVE Requests /\ Files
  <2>1. req[t].op = "export" => req[t].content \in Content \union {NoContent}
    BY DEF IInv, TypeOK, Request
  <2>2. file' \in Content \union {NoContent}
    BY <1>1, <2>1
    DEF IInv, TypeOK, Start, Clone, Save, Overwrite, DeleteDraft, Submit, Publish, Judge, LegacyNew,
        DeleteRuleset, SetStatus, Begins, Finish, Number, Insert, SaveCommit, OverwriteCommit,
        SubmitCommit, ApproveCommit, RejectCommit, Commits, PublishCommit, Export,
        DeleteDraftCommit, DeleteRulesetCommit, SetStatusCommit
  <2>3. tests' \subseteq tests
    BY <1>1
    DEF Start, Clone, Save, Overwrite, DeleteDraft, Submit, Publish, Judge, LegacyNew, DeleteRuleset,
        SetStatus, Begins, Finish, Number, Insert, SaveCommit, OverwriteCommit, SubmitCommit,
        ApproveCommit, RejectCommit, Commits, PublishCommit, Export, DeleteDraftCommit,
        DeleteRulesetCommit, SetStatusCommit
  <2> QED BY <1>1, <2>2, <2>3, RequestStep DEF IInv, TestsPass
<1>2. ASSUME NEW t \in Tester, NEW q \in Request, req' = [req EXCEPT ![t] = q],
             q.op \in {"none", "test"}, q.op = "test" => q.id \in Id /\ q.content \in Testable,
             UNCHANGED <<versions, item, made>>
      PROVE  Requests
  <2>1. req' \in [Thread \union Tester -> Request] /\ req'[t] = q
        /\ (\A u \in Tester \ {t} : req'[u] = req[u]) /\ (\A u \in Thread : req'[u] = req[u])
    BY <1>2, RuleAdminAssumption DEF IInv, TypeOK
  <2>2. Hands'
    <3>1. ASSUME NEW u \in Thread PROVE HandOf(req[u])'
      <4>1. PICK p : p = req[u] /\ p = req'[u]
        BY <2>1
      <4>2. HandOf(p)
        BY <4>1 DEF IInv, Hands
      <4>3. HandOf(p)'
        BY <1>2, <4>2, SameHand
      <4> QED BY <4>1, <4>3 DEF HandOf
    <3> QED BY <3>1 DEF Hands
  <2>3. Testers'
    BY <1>2, <2>1 DEF IInv, Testers
  <2> QED BY <2>1, <2>2, <2>3
<1>3. ASSUME NEW t \in Tester, TestCommit(t) PROVE Requests /\ Files
  <2>1. Requests
    BY <1>2, <1>3, Constants DEF TestCommit, Ends
  <2>2. Files
    BY <1>3 DEF TestCommit, IInv, TypeOK, Testers, TestsPass
  <2> QED BY <2>1, <2>2
<1>4. ASSUME NEW t \in Tester, NEW v \in Id, Test(t, v) PROVE Requests /\ Files
  <2> DEFINE q == [NoReq EXCEPT !.op = "test", !.id = v, !.content = versions[v].content]
  <2>1. versions[v].content \in Testable /\ Begins(t, q)
    BY <1>4 DEF Test
  <2>2. q \in Request /\ q.op = "test" /\ q.id = v /\ q.content = versions[v].content
    BY <2>1, Constants, RuleAdminAssumption DEF Request, Op
  <2> HIDE DEF q
  <2>3. Requests
    BY <1>2, <2>1, <2>2 DEF Begins
  <2>4. Files
    BY <2>1 DEF Begins, IInv, TypeOK, TestsPass
  <2> QED BY <2>3, <2>4
<1>5. ASSUME UNCHANGED <<tests, file, req>>, UNCHANGED <<versions, item, made>> \/ item = NoItem
      PROVE  Requests /\ Files
  <2>1. CASE UNCHANGED <<versions, item, made>>
    BY <1>5, <2>1 DEF IInv, TypeOK, Hands, HandOf, WorkingOnes, Testers, TestsPass
  <2>2. CASE item = NoItem
    BY <1>5, <2>2 DEF IInv, TypeOK, Hands, HandOf, Reads, Testers, TestsPass
  <2> QED BY <1>5, <2>1, <2>2
<1>6. ASSUME Crash PROVE Requests /\ Files
  <2>1. \A t \in Thread \union Tester : req'[t] = NoReq
    BY <1>6 DEF Crash
  <2>2. req' \in [Thread \union Tester -> Request]
    BY <1>6, Constants DEF Crash
  <2>3. Hands'
    BY <2>1, Constants DEF Hands, HandOf, Reads
  <2>4. Testers'
    BY <2>1, Constants DEF Testers
  <2>5. Files
    BY <1>6 DEF Crash, IInv, TypeOK, TestsPass
  <2> QED BY <2>2, <2>3, <2>4, <2>5
<1>7. Requests /\ Files
  <2>1. CASE Seed \/ \E c \in Content : (\E who \in Maintainer : Create(c, who))
                                          \/ (\E who \in Admin : LegacyCreate(c, who))
    BY <1>5, <2>1 DEF Seed, Create, LegacyCreate, FirstVersion
  <2>2. CASE UNCHANGED vars
    BY <1>5, <2>2 DEF vars
  <2> HIDE DEF Requests, Files
  <2>3. CASE \E t \in Thread : Start(t) \/ Finish(t)
    BY <1>1, <2>3
  <2>4. CASE \E t \in Tester : TestCommit(t) \/ \E v \in Id : Test(t, v)
    BY <1>3, <1>4, <2>4
  <2>5. CASE Crash
    BY <1>6, <2>5
  <2>6. \/ \E t \in Thread : Start(t) \/ Finish(t)
        \/ \E t \in Tester : TestCommit(t) \/ \E v \in Id : Test(t, v)
        \/ Seed \/ \E c \in Content : (\E who \in Maintainer : Create(c, who))
                                      \/ (\E who \in Admin : LegacyCreate(c, who))
        \/ Crash \/ UNCHANGED vars
    BY Zenon DEF Next
  <2> QED BY <2>1, <2>2, <2>3, <2>4, <2>5, <2>6
<1>8. TypeOK'
  BY <1>0, <1>7, RuleAdminAssumption DEF RowsInv, RowsTyped, TypeOK, TestsPass
<1> QED BY <1>0, <1>7, <1>8 DEF IInv

-----------------------------------------------------------------------------
(* What steps never do.                                                    *)

Locks == \A v \in Id :
  versions[v].state \in Locked /\ versions'[v].state \in Locked
    => versions'[v].content = versions[v].content

LEMMA StepsLock == ASSUME IInv, RowStep PROVE Locks
<1> USE DEF IInv, TypeOK
<1>1. ASSUME NEW row, Added(row) PROVE Locks
  <2>1. made + 1 \in Id /\ versions[made + 1].state = "none"
    BY <1>1, Constants DEF Added, Id, RowsInv, Numbered
  <2> QED BY <1>1, <2>1 DEF Added, Locks, Locked
<1>2. ASSUME NEW v \in Id, NEW row \in Row, Worked(v, row) PROVE Locks
  BY <1>2 DEF Worked, Locks
<1>3. ASSUME NEW v \in Id, Superseded(v) PROVE Locks
  BY <1>3 DEF Superseded, Locks, Row
<1>4. ASSUME NEW v \in Id, Dropped(v) PROVE Locks
  BY <1>4, Constants DEF Dropped, Locks, Locked
<1>5. CASE Dissolved
  BY <1>5, Constants DEF Dissolved, Locks, Locked
<1>6. CASE versions' = versions
  BY <1>6 DEF Locks
<1> QED BY <1>1, <1>2, <1>3, <1>4, <1>5, <1>6 DEF RowStep, FirstAdded, NextAdded, Switched

Exports == file' # file =>
  \E v \in Id : versions'[v].state \in {"published", "retired"} /\ versions'[v].content = file'

LEMMA StepsExport == ASSUME IInv, [Next]_vars PROVE Exports
<1>1. ASSUME NEW t \in Thread, Export(t) PROVE Exports
  <2>1. HandOf(req[t])
    BY DEF IInv, Hands
  <2>2. versions' = versions /\ (file' # file => file' = req[t].content) /\ req[t].op = "export"
    BY <1>1 DEF Export
  <2> QED BY <2>1, <2>2 DEF HandOf, Exports
<1>2. ASSUME NEW t \in Thread, Start(t) \/ Finish(t) PROVE Export(t) \/ file' = file
  BY <1>2
  DEF Start, Clone, Save, Overwrite, DeleteDraft, Submit, Publish, Judge, LegacyNew,
      DeleteRuleset, SetStatus, Begins, Finish, Number, Insert, SaveCommit, OverwriteCommit,
      SubmitCommit, ApproveCommit, RejectCommit, Commits, PublishCommit,
      DeleteDraftCommit, DeleteRulesetCommit, SetStatusCommit
<1>3. ASSUME NEW t \in Tester, TestCommit(t) \/ \E v \in Id : Test(t, v) PROVE file' = file
  BY <1>3 DEF TestCommit, Test, Begins
<1>4. ASSUME NEW c \in Content, (\E who \in Maintainer : Create(c, who)) \/ (\E who \in Admin : LegacyCreate(c, who))
      PROVE  file' = file
  BY <1>4 DEF Create, LegacyCreate, FirstVersion
<1>5. CASE Seed \/ Crash \/ UNCHANGED vars
  BY <1>5 DEF Seed, FirstVersion, Crash, vars, Exports
<1>6. CASE file' = file
  BY <1>6 DEF Exports
<1> QED BY <1>1, <1>2, <1>3, <1>4, <1>5, <1>6 DEF Next

-----------------------------------------------------------------------------
(* The theorems.                                                           *)

LEMMA Invariance == ASSUME OneAtATime PROVE Spec => []IInv
<1>1. IInv /\ [Next]_vars => IInv'
  BY IInvStep
<1> QED BY <1>1, IInvInit, PTL DEF Spec

\* A rule set has one unfinished version at most, cloned, restored, deleted and
\* overwritten over whichever interface (clone_version, save_legacy_draft), and
\* every row is one the schema allows, if the short requests do not overlap.
THEOREM OneVersionIsWorkedOn == ASSUME OneAtATime PROVE Spec => []OneWorkingVersion
<1>1. IInv => OneWorkingVersion
  BY DEF IInv, RowsInv, AtMostOne, OneWorkingVersion
<1> QED BY <1>1, Invariance, PTL

\* Whatever is approved, published or retired was approved by the reviewer it was
\* assigned to, who is neither its recorded creator nor its submitter
\* (set_version_state), if the short requests do not overlap.
THEOREM FourEyesLook == ASSUME OneAtATime PROVE Spec => []FourEyes
<1>1. IInv => FourEyes
  BY DEF IInv, RowsInv
<1> QED BY <1>1, Invariance, PTL

\* The version a rule set points to is published, and no other is (publish retires
\* the one before), if the short requests do not overlap.
THEOREM TheActiveVersionIsPublished == ASSUME OneAtATime PROVE Spec => []ActiveIsPublished
<1>1. IInv => ActiveIsPublished
  <2> SUFFICES ASSUME IInv, item.active # 0
               PROVE  {v \in Id : versions[v].state = "published"} = {item.active}
    BY DEF ActiveIsPublished
  <2>1. item.active \in Id
    BY Constants DEF IInv, TypeOK, Item, Id
  <2> QED BY <2>1 DEF IInv, RowsInv, Published
<1> QED BY <1>1, Invariance, PTL

\* Nothing but the shipped file is submitted, approved, published or retired without
\* a content that passed on a sample, however long the runs of samples overlap with
\* edits (test_managed_version, set_version_state), if the short requests do not
\* overlap with each other.
THEOREM TheReleasedIsTested == ASSUME OneAtATime PROVE Spec => []ReleasedIsTested
<1>1. IInv => ReleasedIsTested
  BY DEF IInv, RowsInv
<1> QED BY <1>1, Invariance, PTL

\* What has left the drafts keeps its content, and the exported file changes to
\* nothing but the content of a version the database has published by then (publish,
\* _sync_export), whatever crashes or fails, if the short requests do not overlap.
THEOREM ReleasesStay == ASSUME OneAtATime PROVE Spec => ReleasesAreFinal
<1>1. IInv /\ [Next]_vars => [Locks]_vars /\ [Exports]_vars
  BY RowSteps, StepsLock, StepsExport
<1>2. Spec => [][Locks]_vars /\ [][Exports]_vars
  BY <1>1, Invariance, PTL DEF Spec
<1> QED BY <1>2 DEF ReleasesAreFinal, LockedWhenSubmitted, ExportsOnlyPublished, Locks, Exports

=============================================================================
