------------------------- MODULE EditorialProofs -------------------------
(* Proofs, for any number of people, versions and decisions, of what       *)
(* EditorialApproval promises about a draft and its review.                *)
(*                                                                        *)
(* The argument.  Every transaction that changes the workflow holds its    *)
(* row, so what a reviewer found under the lock of it, a draft in review,  *)
(* is still so when the decision is written (DecidesInReview, from         *)
(* LocksExclude).  Versions only grow (WordingIsSettled), so the wording   *)
(* of an approved version stays what was approved, and a page of the web   *)
(* that shows the latest version shows no deleted draft.                   *)
(*                                                                        *)
(* The second half shows that every transaction is one step of            *)
(* EditorialPromise, which has no locks: what it checked under its first   *)
(* lock still holds when it writes (ChecksStillHold), because whoever      *)
(* would change that needs the same row (DraftLockExcludes for the draft). *)
EXTENDS EditorialApproval, FiniteSetTheorems, TLAPS

(* A transaction has locked a prefix of its rows, and at least the first.  *)
LocksInOrder ==
    \A p \in Editor : /\ write[p].at <= Len(RowsLocked[write[p].kind])
                      /\ write[p].kind # "nothing" => write[p].at >= 1

(* Two people never hold the row of the workflow.                          *)
LocksExclude ==
    \A p, q \in Editor : "workflow" \in Holding(p) /\ "workflow" \in Holding(q) => p = q

(* A decision is of a draft in review, from its first lock to its write.   *)
DecidesInReview ==
    \A p \in Editor : write[p].kind = "decide" => workflow.state = "in_review"

(* The versions the workflow names exist, so their wording does not change *)
(* any more; and the current one has the wording of the latest.            *)
WordingIsSettled ==
    /\ workflow.current <= draft.version
    /\ workflow.approved <= draft.version
    /\ wording[workflow.current] = wording[draft.version]

(* A page of the web is of a version that exists, and of an older one once *)
(* the draft is deleted.                                                   *)
PagesAreBehind ==
    \A p \in Editor : page[p].medium = "web" =>
        /\ page[p].version <= draft.version
        /\ draft.deleted => page[p].version < draft.version

EditorialInv ==
    /\ EditorialTypeOK
    /\ LocksInOrder
    /\ LocksExclude
    /\ DecidesInReview
    /\ WordingIsSettled
    /\ PagesAreBehind
    /\ ReviewIsOfCurrentText
    /\ PublishedAsSeen

-----------------------------------------------------------------------------
(* Locks.                                                                 *)

(* The rows of every transaction: each that writes the workflow locks it,  *)
(* and a decision locks it first.                                          *)
LEMMA RowsOfWrites ==
    /\ DOMAIN RowsLocked = {"nothing", "save", "botSave", "submit", "decide", "publish"}
    /\ Len(RowsLocked["nothing"]) = 0
    /\ \A kind \in DOMAIN RowsLocked \ {"nothing"} :
          /\ Len(RowsLocked[kind]) \in 2..3
          /\ \E i \in 1..Len(RowsLocked[kind]) : RowsLocked[kind][i] = "workflow"
    /\ \A kind \in DOMAIN RowsLocked :
          DOMAIN RowsLocked[kind] = 1..Len(RowsLocked[kind]) /\ Len(RowsLocked[kind]) \in 0..3
    /\ RowsLocked["decide"][1] = "workflow"
<1> DEFINE Kinds == {"nothing", "save", "botSave", "submit", "decide", "publish"}
<1>1. DOMAIN RowsLocked = Kinds
  BY DEF RowsLocked
<1>2. /\ RowsLocked["nothing"] = <<>>
      /\ RowsLocked["save"] = <<"draft", "workflow", "request">>
      /\ RowsLocked["botSave"] = <<"draft", "request", "workflow">>
      /\ RowsLocked["submit"] = <<"workflow", "draft">>
      /\ RowsLocked["decide"] = <<"workflow", "request", "draft">>
      /\ RowsLocked["publish"] = <<"draft", "workflow", "request">>
  BY DEF RowsLocked
<1>3. /\ Len(RowsLocked["nothing"]) = 0
      /\ \A kind \in {"save", "botSave", "decide", "publish"} : Len(RowsLocked[kind]) = 3
      /\ Len(RowsLocked["submit"]) = 2
  <2>1. \A x, y, z : Len(<<x, y, z>>) = 3 /\ Len(<<x, y>>) = 2 /\ Len(<<>>) = 0
    OBVIOUS
  <2> QED BY <1>2, <2>1
<1>4. /\ \A kind \in {"save", "publish"} : RowsLocked[kind][2] = "workflow"
      /\ RowsLocked["botSave"][3] = "workflow"
      /\ \A kind \in {"submit", "decide"} : RowsLocked[kind][1] = "workflow"
  BY <1>2
<1>5. ASSUME NEW kind \in Kinds \ {"nothing"}
      PROVE  /\ Len(RowsLocked[kind]) \in 2..3
             /\ \E i \in 1..Len(RowsLocked[kind]) : RowsLocked[kind][i] = "workflow"
  <2>1. CASE kind \in {"save", "publish"}
    BY <1>3, <1>4, <2>1
  <2>2. CASE kind \in {"botSave", "submit", "decide"}
    BY <1>3, <1>4, <2>2
  <2> QED BY <1>5, <2>1, <2>2
<1>6. ASSUME NEW kind \in Kinds
      PROVE  DOMAIN RowsLocked[kind] = 1..Len(RowsLocked[kind]) /\ Len(RowsLocked[kind]) \in 0..3
  <2> DEFINE Row == {"draft", "workflow", "request"}
  <2>1. \A x, y, z \in Row : /\ <<x, y, z>> \in Seq(Row) /\ <<x, y>> \in Seq(Row)
                            /\ <<>> \in Seq(Row)
    OBVIOUS
  <2>2. RowsLocked[kind] \in Seq(Row)
    BY <1>2, <1>6, <2>1
  <2>3. DOMAIN RowsLocked[kind] = 1..Len(RowsLocked[kind])
    BY <2>2
  <2> QED BY <2>3, <1>3, <1>5, <1>6
<1> QED BY <1>1, <1>3, <1>4, <1>5, <1>6

(* Who is about to write holds the workflow: nobody else is deciding.      *)
LEMMA NobodyElseDecides ==
    ASSUME EditorialInv, NEW p \in Editor,
           NEW kind \in DOMAIN RowsLocked \ {"nothing"}, Writes(p, kind)
    PROVE  \A q \in Editor \ {p} : write[q].kind # "decide"
<1>1. "workflow" \in Holding(p)
  BY RowsOfWrites DEF Writes, Holding
<1>2. ASSUME NEW q \in Editor, write[q].kind = "decide" PROVE "workflow" \in Holding(q)
  <2>1. write[q].at >= 1 /\ write[q].at \in 0..3
    BY <1>2 DEF EditorialInv, LocksInOrder, EditorialTypeOK
  <2> QED BY <1>2, <2>1, RowsOfWrites DEF Holding
<1> QED BY <1>1, <1>2 DEF EditorialInv, LocksExclude

LEMMA DoneReleases ==
    ASSUME EditorialInv, NEW p \in Editor, Done(p)
    PROVE  /\ write' \in [Editor -> [kind : DOMAIN RowsLocked, at : 0..3]]
           /\ LocksInOrder' /\ LocksExclude'
<1>1. write' \in [Editor -> [kind : DOMAIN RowsLocked, at : 0..3]]
  BY RowsOfWrites DEF Done, NoWrite, EditorialInv, EditorialTypeOK
<1>2. write'[p] = NoWrite /\ \A q \in Editor \ {p} : write'[q] = write[q]
  BY DEF Done, EditorialInv, EditorialTypeOK
<1>3. LocksInOrder'
  <2>1. write'[p].at <= Len(RowsLocked[write'[p].kind]) /\ write'[p].kind = "nothing"
    BY <1>2, RowsOfWrites DEF NoWrite
  <2> QED BY <1>2, <2>1 DEF LocksInOrder, EditorialInv
<1>4. Holding(p)' = {} /\ \A q \in Editor \ {p} : Holding(q)' = Holding(q)
  BY <1>2 DEF Holding, NoWrite
<1>5. LocksExclude'
  BY <1>4 DEF LocksExclude, EditorialInv
<1> QED BY <1>1, <1>3, <1>5

(* A transaction that takes one more lock, its first included, takes it    *)
(* from nobody.                                                            *)
LEMMA LockIsTaken ==
    ASSUME EditorialInv, NEW p \in Editor, NEW kind \in DOMAIN RowsLocked \ {"nothing"},
           NEW at \in 1..Len(RowsLocked[kind]),
           write' = [write EXCEPT ![p] = [kind |-> kind, at |-> at]],
           at = 1 \/ write[p] = [kind |-> kind, at |-> at - 1],
           IsFree(p, RowsLocked[kind][at], kind)
    PROVE  /\ write' \in [Editor -> [kind : DOMAIN RowsLocked, at : 0..3]]
           /\ LocksInOrder' /\ LocksExclude'
<1>1. write' \in [Editor -> [kind : DOMAIN RowsLocked, at : 0..3]] /\ at \in 1..3
  <2>1. Len(RowsLocked[kind]) \in 2..3
    BY RowsOfWrites
  <2>2. at \in 1..3
    BY <2>1
  <2> QED BY <2>2 DEF EditorialInv, EditorialTypeOK
<1>2. write'[p] = [kind |-> kind, at |-> at] /\ \A q \in Editor \ {p} : write'[q] = write[q]
  BY DEF EditorialInv, EditorialTypeOK
<1>3. LocksInOrder'
  BY <1>1, <1>2, RowsOfWrites DEF LocksInOrder, EditorialInv
<1>4. \A q \in Editor \ {p} : Holding(q)' = Holding(q)
  BY <1>2 DEF Holding
<1>5. \A row \in Holding(p)' : row \in Holding(p) \/ row = RowsLocked[kind][at]
  BY <1>1, <1>2 DEF Holding
<1>6. ASSUME NEW q \in Editor \ {p}, "workflow" \in Holding(p)', "workflow" \in Holding(q)'
      PROVE  FALSE
  <2>1. "workflow" \in Holding(q)
    BY <1>4, <1>6
  <2>2. CASE "workflow" \in Holding(p)
    BY <2>1, <2>2 DEF EditorialInv, LocksExclude
  <2>3. CASE RowsLocked[kind][at] = "workflow"
    BY <2>1, <2>3 DEF IsFree, Keeps
  <2> QED BY <1>5, <1>6, <2>2, <2>3
<1>7. LocksExclude'
  BY <1>4, <1>6 DEF LocksExclude, EditorialInv
<1> QED BY <1>1, <1>3, <1>7

(* The next row, for a transaction that has locked some.                   *)
LEMMA NextLockIsTaken ==
    ASSUME EditorialInv, NEW p \in Editor, LockRow(p)
    PROVE  \E kind \in DOMAIN RowsLocked \ {"nothing"} : \E at \in 1..Len(RowsLocked[kind]) :
              /\ write[p] = [kind |-> kind, at |-> at - 1]
              /\ write' = [write EXCEPT ![p] = [kind |-> kind, at |-> at]]
              /\ IsFree(p, RowsLocked[kind][at], kind)
<1> DEFINE kind == write[p].kind
<1> DEFINE at == write[p].at + 1
<1>1. /\ Locking(p) # {} /\ \A row \in Locking(p) : IsFree(p, row, kind)
      /\ write' = [write EXCEPT ![p].at = @ + 1]
  BY DEF LockRow
<1>2. write[p] \in [kind : DOMAIN RowsLocked, at : 0..3]
  BY DEF EditorialInv, EditorialTypeOK
<1>3. at \in DOMAIN RowsLocked[kind] /\ IsFree(p, RowsLocked[kind][at], kind)
  BY <1>1 DEF Locking
<1>4. at \in 1..Len(RowsLocked[kind]) /\ kind \in DOMAIN RowsLocked \ {"nothing"}
  <2>1. kind \in DOMAIN RowsLocked
    BY <1>2
  <2>2. at \in 1..Len(RowsLocked[kind])
    BY <1>3, <2>1, RowsOfWrites
  <2>3. Len(RowsLocked["nothing"]) = 0
    BY RowsOfWrites
  <2>4. kind # "nothing"
    BY <2>2, <2>3
  <2> QED BY <2>1, <2>2, <2>4
<1>5. /\ write' = [write EXCEPT ![p] = [kind |-> kind, at |-> at]]
      /\ write[p] = [kind |-> kind, at |-> at - 1]
  <2>1. at - 1 = write[p].at
    BY <1>2
  <2>2. write[p] = [kind |-> kind, at |-> write[p].at]
    BY <1>2
  <2>3. [write[p] EXCEPT !.at = @ + 1] = [kind |-> kind, at |-> at]
    BY <1>2
  <2> QED BY <1>1, <2>1, <2>2, <2>3
<1> HIDE DEF kind, at
<1> QED BY <1>3, <1>4, <1>5

-----------------------------------------------------------------------------
(* Pages and locks alone.                                                 *)

PageRow == [medium : {"none", "web", "bot", "list"}, version : 0..LastVersion,
            flow : 0..LastFlow, request : SUBSET ReviewRequest]

LEMMA NoPageTyped == NoPage \in PageRow /\ NoPage.medium = "none"
<1>1. 0 \in 0..LastVersion /\ 0 \in 0..LastFlow
  BY EditorialAssumption
<1> QED BY <1>1 DEF NoPage, PageRow

LEMMA InitInv == EditorialInit => EditorialInv
<1> SUFFICES ASSUME EditorialInit PROVE EditorialInv
  OBVIOUS
<1>1. page \in [Editor -> PageRow] /\ \A p \in Editor : page[p].medium # "web"
  <2>1. PICK Q \in SUBSET Editor :
            page = [p \in Editor |-> IF p \in Q THEN [NoPage EXCEPT !.medium = "bot", !.version = 1]
                                              ELSE NoPage]
    BY DEF EditorialInit
  <2>2. [NoPage EXCEPT !.medium = "bot", !.version = 1] \in PageRow
    <3>1. 1 \in 0..LastVersion
      BY EditorialAssumption
    <3> QED BY <3>1, NoPageTyped DEF PageRow
  <2>3. [NoPage EXCEPT !.medium = "bot", !.version = 1].medium = "bot"
    BY NoPageTyped DEF PageRow
  <2> QED BY <2>1, <2>2, <2>3, NoPageTyped
<1>2. EditorialTypeOK
  BY <1>1, EditorialAssumption, RowsOfWrites, FS_EmptySet
     DEF EditorialInit, EditorialTypeOK, PageRow, NoWrite, DraftVersion, Wording, Flow
<1>3. LocksInOrder /\ DecidesInReview
  BY RowsOfWrites DEF EditorialInit, LocksInOrder, DecidesInReview, NoWrite
<1>4. LocksExclude
  BY DEF EditorialInit, LocksExclude, Holding, NoWrite
<1>5. WordingIsSettled /\ PagesAreBehind /\ ReviewIsOfCurrentText /\ PublishedAsSeen
  BY <1>1, EditorialAssumption
     DEF EditorialInit, WordingIsSettled, PagesAreBehind, ReviewIsOfCurrentText, PublishedAsSeen,
         DraftVersion
<1> QED BY <1>2, <1>3, <1>4, <1>5 DEF EditorialInv

(* An answered page is the one it was, or gone.                            *)
LEMMA PageIsKeptOrGone ==
    ASSUME page \in [Editor -> PageRow], NEW p \in Editor,
           page' \in {page, [page EXCEPT ![p] = NoPage]}
    PROVE  /\ page' \in [Editor -> PageRow]
           /\ \A q \in Editor : page'[q].medium = "web" => page'[q] = page[q]
BY NoPageTyped

LEMMA ReadingKeeps ==
    ASSUME EditorialInv, NEW p \in Editor, OpenDraft(p) \/ OpenList(p)
    PROVE  EditorialInv'
<1>0. UNCHANGED <<draft, wording, workflow, openRequest, published, write>>
  BY DEF OpenDraft, OpenList
<1>1. EditorialTypeOK /\ page \in [Editor -> PageRow] /\ PagesAreBehind
  BY DEF EditorialInv, EditorialTypeOK, PageRow
<1> SUFFICES page' \in [Editor -> PageRow] /\ PagesAreBehind'
  <2>1. page' \in [Editor -> PageRow] => EditorialTypeOK'
    BY <1>0, <1>1 DEF EditorialTypeOK, PageRow
  <2>2. LocksInOrder' /\ LocksExclude' /\ DecidesInReview'
    BY <1>0 DEF EditorialInv, LocksInOrder, LocksExclude, Holding, DecidesInReview
  <2>3. WordingIsSettled' /\ ReviewIsOfCurrentText' /\ PublishedAsSeen'
    BY <1>0 DEF EditorialInv, WordingIsSettled, ReviewIsOfCurrentText, PublishedAsSeen
  <2> QED BY <2>1, <2>2, <2>3 DEF EditorialInv
<1>2. CASE OpenDraft(p)
  <2> DEFINE new == [medium |-> "web", version |-> draft.version,
                     flow |-> workflow.version, request |-> openRequest]
  <2>1. new \in PageRow
    BY <1>1, EditorialAssumption DEF EditorialTypeOK, PageRow, DraftVersion, Flow
  <2>2. page' = [page EXCEPT ![p] = new] /\ ~draft.deleted
    BY <1>2 DEF OpenDraft
  <2>3. draft.version <= draft.version
    BY <1>1 DEF EditorialTypeOK, DraftVersion
  <2>4. PagesAreBehind'
    BY <1>0, <1>1, <2>2, <2>3 DEF PagesAreBehind
  <2> QED BY <1>1, <2>1, <2>2, <2>4
<1>3. CASE OpenList(p)
  <2>1. PICK r \in openRequest :
            page' = [page EXCEPT ![p] = [NoPage EXCEPT !.medium = "list", !.version = r.version,
                                                       !.request = {r}]]
    BY <1>3 DEF OpenList
  <2> DEFINE new == [NoPage EXCEPT !.medium = "list", !.version = r.version, !.request = {r}]
  <2>2. {r} \in SUBSET ReviewRequest /\ r.version \in 0..LastVersion
    BY <1>1, EditorialAssumption DEF EditorialTypeOK, ReviewRequest, DraftVersion
  <2>3. new \in PageRow /\ new.medium = "list"
    BY <2>2, NoPageTyped DEF PageRow
  <2>4. page' = [page EXCEPT ![p] = new]
    BY <2>1
  <2> HIDE DEF new
  <2>5. PagesAreBehind'
    BY <1>0, <1>1, <2>3, <2>4 DEF PagesAreBehind
  <2> QED BY <1>1, <2>3, <2>4, <2>5
<1> QED BY <1>2, <1>3

LEMMA LockingKeeps ==
    ASSUME EditorialInv, NEW p \in Editor, StartWrite(p) \/ LockRow(p) \/ RollBack(p)
    PROVE  EditorialInv'
<1>0. UNCHANGED <<draft, wording, workflow, openRequest, published, page>>
  BY DEF StartWrite, LockRow, RollBack
<1> SUFFICES /\ write' \in [Editor -> [kind : DOMAIN RowsLocked, at : 0..3]]
             /\ LocksInOrder' /\ LocksExclude' /\ DecidesInReview'
  BY <1>0 DEF EditorialInv, EditorialTypeOK, WordingIsSettled, PagesAreBehind,
              ReviewIsOfCurrentText, PublishedAsSeen
<1>1. CASE StartWrite(p)
  <2>1. PICK kind \in DOMAIN RowsLocked \ {"nothing"} :
            /\ IsFree(p, RowsLocked[kind][1], kind) /\ MayWrite(p, kind)
            /\ write' = [write EXCEPT ![p] = [kind |-> kind, at |-> 1]]
    BY <1>1 DEF StartWrite
  <2>2. 1 \in 1..Len(RowsLocked[kind])
    BY RowsOfWrites
  <2>3. kind = "decide" => workflow.state = "in_review"
    BY <2>1 DEF MayWrite
  <2>4. DecidesInReview'
    BY <1>0, <2>1, <2>3 DEF DecidesInReview, EditorialInv, EditorialTypeOK
  <2> QED BY <2>1, <2>2, <2>4, LockIsTaken
<1>2. CASE LockRow(p)
  <2>0. PICK kind \in DOMAIN RowsLocked \ {"nothing"} : \E at \in 1..Len(RowsLocked[kind]) :
            /\ write[p] = [kind |-> kind, at |-> at - 1]
            /\ write' = [write EXCEPT ![p] = [kind |-> kind, at |-> at]]
            /\ IsFree(p, RowsLocked[kind][at], kind)
    BY <1>2, NextLockIsTaken
  <2>1. PICK at \in 1..Len(RowsLocked[kind]) :
            /\ write[p] = [kind |-> kind, at |-> at - 1]
            /\ write' = [write EXCEPT ![p] = [kind |-> kind, at |-> at]]
            /\ IsFree(p, RowsLocked[kind][at], kind)
    BY <2>0
  <2>2. DecidesInReview'
    BY <1>0, <2>1 DEF DecidesInReview, EditorialInv, EditorialTypeOK
  <2> QED BY <2>1, <2>2, LockIsTaken
<1>3. CASE RollBack(p)
  <2>1. DecidesInReview'
    BY <1>0, <1>3 DEF RollBack, Done, NoWrite, DecidesInReview, EditorialInv, EditorialTypeOK
  <2> QED BY <1>3, <2>1, DoneReleases DEF RollBack
<1> QED BY <1>1, <1>2, <1>3

-----------------------------------------------------------------------------
(* The writes.                                                            *)

(* The end of a write, whatever it wrote.                                  *)
LEMMA WriteEnds ==
    ASSUME EditorialInv, NEW p \in Editor,
           NEW kind \in DOMAIN RowsLocked \ {"nothing"}, Writes(p, kind), Done(p)
    PROVE  /\ write' \in [Editor -> [kind : DOMAIN RowsLocked, at : 0..3]]
           /\ LocksInOrder' /\ LocksExclude' /\ DecidesInReview'
<1>1. \A q \in Editor : write'[q].kind # "decide"
  BY NobodyElseDecides DEF Done, NoWrite, EditorialInv, EditorialTypeOK
<1> QED BY <1>1, DoneReleases DEF DecidesInReview

(* A version is added, and what pages show may be forgotten.               *)
LEMMA VersionIsAdded ==
    ASSUME EditorialInv, NEW p \in Editor, NEW words \in Wording,
           draft.version < LastVersion,
           draft'.version = draft.version + 1, draft' \in [version : Nat, deleted : BOOLEAN],
           wording' = [wording EXCEPT ![draft.version + 1] = words]
    PROVE  /\ draft' \in [version : DraftVersion, deleted : BOOLEAN]
           /\ draft.version + 1 \in DraftVersion
           /\ wording' \in [DraftVersion -> Wording]
           /\ wording'[draft'.version] = words
           /\ \A v \in DraftVersion : v <= draft.version => wording'[v] = wording[v]
<1>1. draft.version \in DraftVersion /\ wording \in [DraftVersion -> Wording]
  BY DEF EditorialInv, EditorialTypeOK
<1>2. draft.version + 1 \in DraftVersion
  BY <1>1, EditorialAssumption DEF DraftVersion
<1>3. \A v \in DraftVersion : v <= draft.version => v # draft.version + 1
  BY <1>1 DEF DraftVersion
<1> QED BY <1>1, <1>2, <1>3

LEMMA SaveKeeps ==
    ASSUME EditorialInv, NEW p \in Editor, SaveDraft(p)
    PROVE  EditorialInv'
<1>1. PICK words \in Wording : NextVersion(words) /\ RecordRevision(words)
  BY DEF SaveDraft
<1>2. Writes(p, "save") /\ Done(p) /\ UNCHANGED published
      /\ page' \in {page, [page EXCEPT ![p] = NoPage]}
  BY DEF SaveDraft, Answered
<1> DEFINE reset == wording[workflow.current] # words \/ workflow.state = "in_review"
<1>3. /\ draft' = [draft EXCEPT !.version = @ + 1] /\ draft.version < LastVersion
      /\ wording' = [wording EXCEPT ![draft.version + 1] = words]
      /\ workflow.version < LastFlow
      /\ openRequest' = IF reset THEN {} ELSE openRequest
      /\ workflow' = [state    |-> IF reset /\ workflow.state # "changes_requested"
                                   THEN "draft" ELSE workflow.state,
                      version  |-> workflow.version + 1,
                      current  |-> draft.version + 1,
                      approved |-> IF reset THEN 0 ELSE workflow.approved]
  BY <1>1 DEF NextVersion, RecordRevision
<1>4. /\ draft \in [version : DraftVersion, deleted : BOOLEAN]
      /\ workflow \in [state : {"draft", "in_review", "changes_requested", "approved"},
                        version : Flow, current : DraftVersion, approved : 0..LastVersion]
      /\ openRequest \subseteq ReviewRequest /\ Cardinality(openRequest) <= 1
      /\ published \in [DraftVersion -> {"no", "asSeen", "unseen"}]
      /\ page \in [Editor -> PageRow]
  BY DEF EditorialInv, EditorialTypeOK, PageRow
<1>5. draft' \in [version : Nat, deleted : BOOLEAN] /\ draft'.version = draft.version + 1
      /\ draft'.deleted = draft.deleted
  BY <1>3, <1>4 DEF DraftVersion
<1>6. /\ draft' \in [version : DraftVersion, deleted : BOOLEAN]
      /\ draft.version + 1 \in DraftVersion
      /\ wording' \in [DraftVersion -> Wording]
      /\ wording'[draft'.version] = words
      /\ \A v \in DraftVersion : v <= draft.version => wording'[v] = wording[v]
  BY <1>3, <1>5, VersionIsAdded
<1>7. workflow.version + 1 \in Flow /\ 0 \in 0..LastVersion
  BY <1>3, <1>4, EditorialAssumption DEF Flow
<1>8. workflow' \in [state : {"draft", "in_review", "changes_requested", "approved"},
                     version : Flow, current : DraftVersion, approved : 0..LastVersion]
  BY <1>3, <1>4, <1>6, <1>7
<1>9. openRequest' \subseteq ReviewRequest /\ Cardinality(openRequest') <= 1
  BY <1>3, <1>4, FS_EmptySet
<1>10. page' \in [Editor -> PageRow]
       /\ \A q \in Editor : page'[q].medium = "web" => page'[q] = page[q]
  BY <1>2, <1>4, PageIsKeptOrGone
<1>11. /\ write' \in [Editor -> [kind : DOMAIN RowsLocked, at : 0..3]]
       /\ LocksInOrder' /\ LocksExclude' /\ DecidesInReview'
  BY <1>2, WriteEnds, RowsOfWrites
<1>12. EditorialTypeOK'
  BY <1>2, <1>4, <1>6, <1>8, <1>9, <1>10, <1>11 DEF EditorialTypeOK, PageRow
<1>13. workflow.current <= draft.version /\ workflow.approved <= draft.version
  BY DEF EditorialInv, WordingIsSettled
<1>14. WordingIsSettled'
  <2>1. workflow'.current = draft'.version /\ workflow'.approved \in {0, workflow.approved}
    BY <1>3, <1>5
  <2> QED BY <1>4, <1>5, <1>6, <1>13, <2>1 DEF WordingIsSettled, DraftVersion
<1>15. PagesAreBehind'
  <2>1. \A q \in Editor : page[q].medium = "web" => page[q].version <= draft.version
    BY DEF EditorialInv, PagesAreBehind
  <2>2. \A q \in Editor : page[q].version \in Nat
    BY <1>4, EditorialAssumption DEF PageRow
  <2> QED BY <1>4, <1>5, <1>10, <2>1, <2>2 DEF PagesAreBehind, DraftVersion
<1>16. ReviewIsOfCurrentText'
  <2> USE DEF ReviewIsOfCurrentText
  <2>1. ReviewIsOfCurrentText
    BY DEF EditorialInv
  <2>2. CASE reset
    BY <1>3, <2>1, <2>2
  <2>3. CASE ~reset
    <3>1. workflow'.state = workflow.state /\ workflow'.approved = workflow.approved
          /\ workflow'.current = draft'.version /\ openRequest' = openRequest
          /\ wording[workflow.current] = words /\ workflow.state # "in_review"
      BY <1>3, <1>5, <2>3
    <3>2. workflow.state = "approved" =>
              workflow.approved \in DraftVersion /\ wording'[workflow.approved] = words
      BY <1>4, <1>6, <1>13, <2>1, <3>1 DEF DraftVersion
    <3> QED BY <1>6, <2>1, <3>1, <3>2
  <2> QED BY <2>2, <2>3
<1>17. PublishedAsSeen'
  BY <1>2 DEF PublishedAsSeen, EditorialInv
<1> QED BY <1>11, <1>12, <1>14, <1>15, <1>16, <1>17 DEF EditorialInv

LEMMA BotSaveKeeps ==
    ASSUME EditorialInv, NEW p \in Editor, SaveFromBot(p)
    PROVE  EditorialInv'
<1>1. PICK words \in Wording : NextVersion(words)
  BY DEF SaveFromBot
<1> DEFINE new == [NoPage EXCEPT !.medium = "bot", !.version = draft.version + 1]
<1>2. /\ Writes(p, "botSave") /\ Done(p) /\ UNCHANGED published
      /\ workflow.version < LastFlow /\ openRequest' = {}
      /\ workflow' = [state |-> "draft", version |-> workflow.version + 1,
                      current |-> draft.version + 1, approved |-> 0]
      /\ page' = [page EXCEPT ![p] = new]
  BY DEF SaveFromBot
<1>3. /\ draft' = [draft EXCEPT !.version = @ + 1] /\ draft.version < LastVersion
      /\ wording' = [wording EXCEPT ![draft.version + 1] = words]
  BY <1>1 DEF NextVersion
<1>4. /\ draft \in [version : DraftVersion, deleted : BOOLEAN]
      /\ workflow.version \in Flow
      /\ published \in [DraftVersion -> {"no", "asSeen", "unseen"}]
      /\ page \in [Editor -> PageRow]
  BY DEF EditorialInv, EditorialTypeOK, PageRow
<1>5. draft' \in [version : Nat, deleted : BOOLEAN] /\ draft'.version = draft.version + 1
      /\ draft'.deleted = draft.deleted
  BY <1>3, <1>4 DEF DraftVersion
<1>6. /\ draft' \in [version : DraftVersion, deleted : BOOLEAN]
      /\ draft.version + 1 \in DraftVersion
      /\ wording' \in [DraftVersion -> Wording]
  BY <1>3, <1>5, VersionIsAdded
<1>7. workflow.version + 1 \in Flow /\ 0 \in 0..LastVersion /\ draft.version + 1 \in 0..LastVersion
  BY <1>2, <1>4, <1>6, EditorialAssumption DEF Flow, DraftVersion
<1>8. new \in PageRow /\ new.medium = "bot"
  BY <1>7, NoPageTyped DEF PageRow
<1> HIDE DEF new
<1>9. /\ write' \in [Editor -> [kind : DOMAIN RowsLocked, at : 0..3]]
      /\ LocksInOrder' /\ LocksExclude' /\ DecidesInReview'
  BY <1>2, WriteEnds, RowsOfWrites
<1>10. EditorialTypeOK'
  <2>1. workflow' \in [state : {"draft", "in_review", "changes_requested", "approved"},
                       version : Flow, current : DraftVersion, approved : 0..LastVersion]
    BY <1>2, <1>6, <1>7
  <2>2. page' \in [Editor -> PageRow]
    BY <1>2, <1>4, <1>8
  <2>3. openRequest' \subseteq ReviewRequest /\ Cardinality(openRequest') <= 1
    BY <1>2, FS_EmptySet
  <2> QED BY <1>2, <1>4, <1>6, <1>9, <2>1, <2>2, <2>3 DEF EditorialTypeOK, PageRow
<1>11. WordingIsSettled'
  BY <1>2, <1>4, <1>5 DEF WordingIsSettled, DraftVersion
<1>12. PagesAreBehind'
  <2>1. \A q \in Editor : page'[q].medium = "web" =>
            page'[q] = page[q] /\ page[q].version <= draft.version /\ page[q].version \in Nat
    BY <1>2, <1>4, <1>8, EditorialAssumption DEF EditorialInv, PagesAreBehind, PageRow
  <2> QED BY <1>4, <1>5, <2>1 DEF PagesAreBehind, DraftVersion
<1>13. ReviewIsOfCurrentText' /\ PublishedAsSeen'
  BY <1>2 DEF ReviewIsOfCurrentText, PublishedAsSeen, EditorialInv
<1> QED BY <1>9, <1>10, <1>11, <1>12, <1>13 DEF EditorialInv

LEMMA ChangesDraftKeeps ==
    ASSUME EditorialInv, NEW p \in Editor, AttestDraft(p) \/ DeleteDraft(p)
    PROVE  EditorialInv'
<1>1. /\ draft.version < LastVersion
      /\ wording' = [wording EXCEPT ![draft.version + 1] = wording[draft.version]]
      /\ page' \in {page, [page EXCEPT ![p] = NoPage]}
      /\ UNCHANGED <<workflow, openRequest, published, write>>
      /\ draft' = [draft EXCEPT !.version = @ + 1]
            \/ draft' = [version |-> draft.version + 1, deleted |-> TRUE]
  BY DEF AttestDraft, DeleteDraft, ChangesDraft
<1>2. /\ draft \in [version : DraftVersion, deleted : BOOLEAN]
      /\ wording \in [DraftVersion -> Wording]
      /\ page \in [Editor -> PageRow]
      /\ workflow.current \in DraftVersion /\ workflow.approved \in 0..LastVersion
  BY DEF EditorialInv, EditorialTypeOK, PageRow
<1>3. draft' \in [version : Nat, deleted : BOOLEAN] /\ draft'.version = draft.version + 1
  <2>1. draft.version + 1 \in Nat
    BY <1>2 DEF DraftVersion
  <2>2. CASE draft' = [draft EXCEPT !.version = @ + 1]
    BY <1>2, <2>1, <2>2
  <2>3. CASE draft' = [version |-> draft.version + 1, deleted |-> TRUE]
    BY <2>1, <2>3
  <2> QED BY <1>1, <2>2, <2>3
<1>4. /\ draft' \in [version : DraftVersion, deleted : BOOLEAN]
      /\ wording' \in [DraftVersion -> Wording]
      /\ wording'[draft'.version] = wording[draft.version]
      /\ \A v \in DraftVersion : v <= draft.version => wording'[v] = wording[v]
  BY <1>1, <1>2, <1>3, VersionIsAdded
<1>5. page' \in [Editor -> PageRow]
      /\ \A q \in Editor : page'[q].medium = "web" => page'[q] = page[q]
  BY <1>1, <1>2, PageIsKeptOrGone
<1>6. EditorialTypeOK'
  BY <1>1, <1>4, <1>5 DEF EditorialInv, EditorialTypeOK, PageRow
<1>7. LocksInOrder' /\ LocksExclude' /\ DecidesInReview' /\ PublishedAsSeen'
  BY <1>1 DEF EditorialInv, LocksInOrder, LocksExclude, Holding, DecidesInReview, PublishedAsSeen
<1>8. WordingIsSettled
  BY DEF EditorialInv
<1>9. WordingIsSettled'
  BY <1>1, <1>2, <1>3, <1>4, <1>8 DEF WordingIsSettled, DraftVersion
<1>10. PagesAreBehind'
  <2>1. \A q \in Editor : page'[q].medium = "web" =>
            page'[q] = page[q] /\ page[q].version <= draft.version /\ page[q].version \in Nat
    BY <1>2, <1>5, EditorialAssumption DEF EditorialInv, PagesAreBehind, PageRow
  <2> QED BY <1>2, <1>3, <2>1 DEF PagesAreBehind, DraftVersion
<1>11. ReviewIsOfCurrentText'
  <2>1. workflow.approved # 0 =>
            workflow.approved \in DraftVersion /\ workflow.approved <= draft.version
    BY <1>2, <1>8 DEF WordingIsSettled, DraftVersion
  <2> QED BY <1>1, <1>2, <1>4, <1>8, <2>1
          DEF EditorialInv, ReviewIsOfCurrentText, WordingIsSettled
<1> QED BY <1>6, <1>7, <1>9, <1>10, <1>11 DEF EditorialInv

(* The writes that leave the draft and its wording alone.                  *)
LEMMA ReviewWriteKeeps ==
    ASSUME EditorialInv, NEW p \in Editor,
           NEW kind \in DOMAIN RowsLocked \ {"nothing"}, Writes(p, kind), Answered(p),
           UNCHANGED <<draft, wording>>,
           workflow' \in [state : {"draft", "in_review", "changes_requested", "approved"},
                          version : Flow, current : DraftVersion, approved : 0..LastVersion],
           workflow'.current = workflow.current,
           workflow'.approved \in {0, workflow.approved, workflow.current},
           openRequest' \subseteq ReviewRequest, Cardinality(openRequest') <= 1,
           published' \in [DraftVersion -> {"no", "asSeen", "unseen"}]
    PROVE  /\ EditorialTypeOK' /\ LocksInOrder' /\ LocksExclude' /\ DecidesInReview'
           /\ WordingIsSettled' /\ PagesAreBehind'
<1>1. /\ write' \in [Editor -> [kind : DOMAIN RowsLocked, at : 0..3]]
      /\ LocksInOrder' /\ LocksExclude' /\ DecidesInReview'
  BY WriteEnds DEF Answered
<1>2. page' \in [Editor -> PageRow]
      /\ \A q \in Editor : page'[q].medium = "web" => page'[q] = page[q]
  BY PageIsKeptOrGone DEF Answered, EditorialInv, EditorialTypeOK, PageRow
<1>3. EditorialTypeOK'
  BY <1>1, <1>2 DEF EditorialInv, EditorialTypeOK, PageRow
<1>4. PagesAreBehind'
  BY <1>2 DEF EditorialInv, PagesAreBehind
<1>5. WordingIsSettled'
  <2>1. WordingIsSettled /\ draft.version \in Nat
    BY DEF EditorialInv, EditorialTypeOK, DraftVersion
  <2> QED BY <2>1, EditorialAssumption DEF WordingIsSettled
<1> QED BY <1>1, <1>3, <1>4, <1>5

LEMMA SubmitKeeps ==
    ASSUME EditorialInv, NEW p \in Editor, SubmitDraft(p)
    PROVE  EditorialInv'
<1> DEFINE request == [id |-> workflow.version + 1, version |-> workflow.current]
<1>1. /\ Writes(p, "submit") /\ Answered(p) /\ UNCHANGED <<draft, wording, published>>
      /\ workflow.version < LastFlow /\ openRequest' = {request}
      /\ workflow' = [workflow EXCEPT !.state = "in_review", !.version = @ + 1, !.approved = 0]
  BY DEF SubmitDraft
<1>2. /\ workflow \in [state : {"draft", "in_review", "changes_requested", "approved"},
                        version : Flow, current : DraftVersion, approved : 0..LastVersion]
      /\ published \in [DraftVersion -> {"no", "asSeen", "unseen"}]
  BY DEF EditorialInv, EditorialTypeOK
<1>3. workflow.version + 1 \in Flow /\ 0 \in 0..LastVersion
  BY <1>1, <1>2, EditorialAssumption DEF Flow
<1>4. request \in ReviewRequest /\ Cardinality({request}) = 1
  BY <1>2, <1>3, FS_Singleton DEF ReviewRequest
<1>5. /\ workflow' \in [state : {"draft", "in_review", "changes_requested", "approved"},
                         version : Flow, current : DraftVersion, approved : 0..LastVersion]
      /\ workflow'.state = "in_review" /\ workflow'.approved = 0
      /\ workflow'.current = workflow.current
  BY <1>1, <1>2, <1>3
<1>6. ReviewIsOfCurrentText' /\ PublishedAsSeen'
  BY <1>1, <1>5 DEF ReviewIsOfCurrentText, PublishedAsSeen, EditorialInv
<1>7. openRequest' \subseteq ReviewRequest /\ Cardinality(openRequest') <= 1
  BY <1>1, <1>4
<1>8. "submit" \in DOMAIN RowsLocked \ {"nothing"}
  BY RowsOfWrites
<1> QED BY <1>1, <1>2, <1>5, <1>6, <1>7, <1>8, ReviewWriteKeeps DEF EditorialInv

(* A decision is of a draft in review, so nothing was approved before it.  *)
LEMMA DecideKeeps ==
    ASSUME EditorialInv, NEW p \in Editor, DecideRequest(p)
    PROVE  EditorialInv'
<1>1. /\ Writes(p, "decide") /\ Answered(p) /\ UNCHANGED <<draft, wording, published>>
      /\ workflow.version < LastFlow /\ openRequest' = {}
      /\ workflow' \in
            {[workflow EXCEPT !.state = "approved", !.version = @ + 1, !.approved = workflow.current],
             [workflow EXCEPT !.state = "changes_requested", !.version = @ + 1]}
  BY DEF DecideRequest
<1>2. /\ workflow \in [state : {"draft", "in_review", "changes_requested", "approved"},
                        version : Flow, current : DraftVersion, approved : 0..LastVersion]
      /\ published \in [DraftVersion -> {"no", "asSeen", "unseen"}]
  BY DEF EditorialInv, EditorialTypeOK
<1>3. workflow.version + 1 \in Flow /\ workflow.current \in 0..LastVersion /\ workflow.current # 0
  BY <1>1, <1>2, EditorialAssumption DEF Flow, DraftVersion
<1>4. workflow.state = "in_review" /\ workflow.approved = 0
  BY <1>1, <1>2 DEF Writes, EditorialInv, DecidesInReview, ReviewIsOfCurrentText
<1>5. /\ workflow' \in [state : {"draft", "in_review", "changes_requested", "approved"},
                         version : Flow, current : DraftVersion, approved : 0..LastVersion]
      /\ workflow'.current = workflow.current
      /\ \/ workflow'.state = "approved" /\ workflow'.approved = workflow.current
         \/ workflow'.state = "changes_requested" /\ workflow'.approved = 0
  BY <1>1, <1>2, <1>3, <1>4
<1>6. ReviewIsOfCurrentText' /\ PublishedAsSeen'
  BY <1>1, <1>3, <1>5 DEF ReviewIsOfCurrentText, PublishedAsSeen, EditorialInv
<1>7. openRequest' \subseteq ReviewRequest /\ Cardinality(openRequest') <= 1
  BY <1>1, FS_EmptySet
<1>8. "decide" \in DOMAIN RowsLocked \ {"nothing"}
  BY RowsOfWrites
<1> QED BY <1>1, <1>2, <1>5, <1>6, <1>7, <1>8, ReviewWriteKeeps DEF EditorialInv

(* A version whose wording is that of a page of a draft that is there.     *)
LEMMA PublishesAsSeen ==
    ASSUME EditorialInv, NEW p \in Editor, NEW v \in DraftVersion, Publishes(p, v),
           wording[v] = wording[page[p].version], ~draft.deleted
    PROVE  /\ published' \in [DraftVersion -> {"no", "asSeen", "unseen"}]
           /\ PublishedAsSeen'
<1>1. published \in [DraftVersion -> {"no", "asSeen", "unseen"}] /\ PublishedAsSeen
  BY DEF EditorialInv, EditorialTypeOK
<1>2. published' = [published EXCEPT ![v] = IF @ # "no" THEN @ ELSE "asSeen"]
  BY DEF Publishes
<1> QED BY <1>1, <1>2 DEF PublishedAsSeen

LEMMA PublishKeeps ==
    ASSUME EditorialInv, NEW p \in Editor, PublishDraft(p)
    PROVE  EditorialInv'
<1>1. /\ Writes(p, "publish") /\ Answered(p) /\ page[p].medium = "web"
      /\ UNCHANGED <<draft, wording, workflow, openRequest>>
      /\ workflow.state = "approved" /\ draft.version = page[p].version
      /\ Publishes(p, workflow.approved)
  BY DEF PublishDraft, MayPublish, Approved
<1>2. /\ workflow \in [state : {"draft", "in_review", "changes_requested", "approved"},
                        version : Flow, current : DraftVersion, approved : 0..LastVersion]
      /\ openRequest \subseteq ReviewRequest /\ Cardinality(openRequest) <= 1
      /\ draft \in [version : DraftVersion, deleted : BOOLEAN]
  BY DEF EditorialInv, EditorialTypeOK
<1>3. workflow.approved \in DraftVersion
      /\ wording[workflow.approved] = wording[workflow.current]
  BY <1>1, <1>2 DEF EditorialInv, ReviewIsOfCurrentText, DraftVersion
<1>4. wording[workflow.approved] = wording[page[p].version]
  BY <1>1, <1>3 DEF EditorialInv, WordingIsSettled
<1>5. ~draft.deleted
  BY <1>1, <1>2 DEF EditorialInv, PagesAreBehind, DraftVersion
<1>6. published' \in [DraftVersion -> {"no", "asSeen", "unseen"}] /\ PublishedAsSeen'
  BY <1>1, <1>3, <1>4, <1>5, PublishesAsSeen
<1>7. ReviewIsOfCurrentText'
  BY <1>1 DEF EditorialInv, ReviewIsOfCurrentText
<1>8. "publish" \in DOMAIN RowsLocked \ {"nothing"}
  BY RowsOfWrites
<1> QED BY <1>1, <1>2, <1>6, <1>7, <1>8, ReviewWriteKeeps DEF EditorialInv

LEMMA BotPublishKeeps ==
    ASSUME EditorialInv, NEW p \in Editor, PublishFromBot(p)
    PROVE  EditorialInv'
<1>1. /\ Writes(p, "publish") /\ Answered(p) /\ UNCHANGED <<draft, wording>>
      /\ page[p].version = draft.version /\ workflow.current = draft.version /\ ~draft.deleted
      /\ Publishes(p, workflow.current)
      /\ IF workflow.state = "approved" /\ workflow.approved = workflow.current
         THEN UNCHANGED <<workflow, openRequest>>
         ELSE /\ workflow.version < LastFlow
              /\ workflow' = [workflow EXCEPT !.state = "approved", !.version = @ + 1,
                                              !.approved = workflow.current]
              /\ openRequest' = {}
  BY DEF PublishFromBot
<1>2. /\ workflow \in [state : {"draft", "in_review", "changes_requested", "approved"},
                        version : Flow, current : DraftVersion, approved : 0..LastVersion]
      /\ openRequest \subseteq ReviewRequest /\ Cardinality(openRequest) <= 1
  BY DEF EditorialInv, EditorialTypeOK
<1>3. published' \in [DraftVersion -> {"no", "asSeen", "unseen"}] /\ PublishedAsSeen'
  BY <1>1, <1>2, PublishesAsSeen
<1>4. /\ workflow' \in [state : {"draft", "in_review", "changes_requested", "approved"},
                         version : Flow, current : DraftVersion, approved : 0..LastVersion]
      /\ workflow'.current = workflow.current
      /\ workflow'.approved = workflow.current /\ workflow'.state = "approved"
      /\ openRequest' \in {{}, openRequest}
      /\ openRequest' # {} => workflow.state = "approved"
  <2>1. CASE workflow.state = "approved" /\ workflow.approved = workflow.current
    BY <1>1, <1>2, <2>1
  <2>2. CASE ~(workflow.state = "approved" /\ workflow.approved = workflow.current)
    <3>1. workflow.version + 1 \in Flow /\ workflow.current \in 0..LastVersion
      BY <1>1, <1>2, <2>2, EditorialAssumption DEF Flow, DraftVersion
    <3> QED BY <1>1, <1>2, <2>2, <3>1
  <2> QED BY <2>1, <2>2
<1>5. ReviewIsOfCurrentText'
  BY <1>1, <1>2, <1>4 DEF EditorialInv, ReviewIsOfCurrentText, DraftVersion
<1>6. openRequest' \subseteq ReviewRequest /\ Cardinality(openRequest') <= 1
  BY <1>2, <1>4, FS_EmptySet
<1>7. "publish" \in DOMAIN RowsLocked \ {"nothing"}
  BY RowsOfWrites
<1> QED BY <1>1, <1>3, <1>4, <1>5, <1>6, <1>7, ReviewWriteKeeps DEF EditorialInv

-----------------------------------------------------------------------------
(* EditorialInv is inductive.                                              *)

LEMMA StutterKeeps ==
    ASSUME EditorialInv, UNCHANGED editorialVars
    PROVE  EditorialInv'
<1>1. EditorialTypeOK' /\ LocksInOrder' /\ LocksExclude' /\ DecidesInReview'
  BY DEF editorialVars, EditorialInv, EditorialTypeOK, LocksInOrder, LocksExclude, Holding,
         DecidesInReview
<1>2. WordingIsSettled' /\ PagesAreBehind' /\ ReviewIsOfCurrentText' /\ PublishedAsSeen'
  BY DEF editorialVars, EditorialInv, WordingIsSettled, PagesAreBehind, ReviewIsOfCurrentText,
         PublishedAsSeen
<1> QED BY <1>1, <1>2 DEF EditorialInv

THEOREM EditorialInvariance == EditorialSpec => []EditorialInv
<1>1. EditorialInv /\ [EditorialNext]_editorialVars => EditorialInv'
  <2> SUFFICES ASSUME EditorialInv, [EditorialNext]_editorialVars PROVE EditorialInv'
    OBVIOUS
  <2>1. ASSUME NEW p \in Editor, EditorStep(p) PROVE EditorialInv'
    BY <2>1, ReadingKeeps, LockingKeeps, SaveKeeps, BotSaveKeeps, ChangesDraftKeeps,
       SubmitKeeps, DecideKeeps, PublishKeeps, BotPublishKeeps DEF EditorStep
  <2> QED BY <2>1, StutterKeeps DEF EditorialNext
<1> QED BY InitInv, <1>1, PTL DEF EditorialSpec

(* Rows, pages and transactions keep their types, and at most one request  *)
(* is open, as the unique index of its table demands.                      *)
THEOREM EditorialTypes == EditorialSpec => []EditorialTypeOK
<1>1. EditorialInv => EditorialTypeOK
  BY DEF EditorialInv
<1> QED BY <1>1, EditorialInvariance, PTL

(* What is in review or approved is the current text, however saves,       *)
(* submissions, decisions and the bot interleave.                          *)
THEOREM ReviewedIsCurrent == EditorialSpec => []ReviewIsOfCurrentText
<1>1. EditorialInv => ReviewIsOfCurrentText
  BY DEF EditorialInv
<1> QED BY <1>1, EditorialInvariance, PTL

(* A click publishes the text its page showed, and of no deleted draft.    *)
THEOREM PublishedIsAsSeen == EditorialSpec => []PublishedAsSeen
<1>1. EditorialInv => PublishedAsSeen
  BY DEF EditorialInv
<1> QED BY <1>1, EditorialInvariance, PTL


-----------------------------------------------------------------------------
(* The refinement.  Each transaction is one step of EditorialPromise, and  *)
(* its locks are none.  What it checked under its first lock is still so   *)
(* when it writes, because whoever would change that needs the same row.   *)

(* Who holds the row of the draft holds it alone, unless all who hold it   *)
(* only share it.                                                          *)
DraftLockExcludes ==
    \A p, q \in Editor : p # q /\ "draft" \in Holding(p) /\ "draft" \in Holding(q)
                            => Shares(write[p].kind) /\ Shares(write[q].kind)

ChecksStillHold ==
    \A p \in Editor : write[p].kind # "nothing" => MayWrite(p, write[p].kind)

(* The one open request is of the current revision.                        *)
OneRequest ==
    openRequest = {} \/ \E r \in ReviewRequest : openRequest = {r} /\ r.version = workflow.current

(* A page is of a version that exists; the version of the workflow that it *)
(* names belongs to the text that it shows, or is a past one.              *)
PageShows(shown) ==
    /\ shown.medium # "none" => shown.version \in 1..draft.version
    /\ shown.medium \in {"none", "bot"} => shown.request = {}
    /\ shown.medium = "list" => \E r \in ReviewRequest : shown.request = {r} /\ shown.version = r.version
    /\ shown.flow <= workflow.version
    /\ shown.medium = "web" /\ shown.flow = workflow.version
            => wording[shown.version] = wording[draft.version]

PagesShow == \A p \in Editor : PageShows(page[p])

PublishedExist == \A v \in DraftVersion : published[v] # "no" => v <= draft.version

SightInv ==
    DraftLockExcludes /\ ChecksStillHold /\ OneRequest /\ PagesShow /\ PublishedExist


(* Every transaction holds the row it locks first until it ends.           *)
LEMMA HoldsItsFirstRow ==
    ASSUME EditorialInv, NEW q \in Editor
    PROVE  /\ write[q].kind \in {"save", "botSave", "publish"} => "draft" \in Holding(q)
           /\ write[q].kind \in {"submit", "decide"} => "workflow" \in Holding(q)
<1>1. write[q] \in [kind : DOMAIN RowsLocked, at : 0..3]
      /\ (write[q].kind # "nothing" => write[q].at >= 1)
  BY DEF EditorialInv, EditorialTypeOK, LocksInOrder
<1>2. write[q].kind # "nothing" => RowsLocked[write[q].kind][1] \in Holding(q)
  BY <1>1 DEF Holding
<1>3. /\ \A kind \in {"save", "botSave", "publish"} : RowsLocked[kind][1] = "draft"
      /\ \A kind \in {"submit", "decide"} : RowsLocked[kind][1] = "workflow"
  BY DEF RowsLocked
<1> QED BY <1>2, <1>3

(* A transaction that writes holds the workflow; the draft it holds alone, *)
(* unless it shares it; and what it checked first is still so.             *)
LEMMA WriterIsAlone ==
    ASSUME EditorialInv, SightInv, NEW p \in Editor,
           NEW kind \in DOMAIN RowsLocked \ {"nothing"}, Writes(p, kind)
    PROVE  /\ \A q \in Editor \ {p} : write[q].kind \notin {"submit", "decide"}
           /\ ~Shares(kind) => \A q \in Editor \ {p} : write[q].kind # "save"
           /\ MayWrite(p, kind)
<1>1. "workflow" \in Holding(p)
  BY RowsOfWrites DEF Writes, Holding
<1>2. \A q \in Editor \ {p} : write[q].kind \notin {"submit", "decide"}
  BY <1>1, HoldsItsFirstRow DEF EditorialInv, LocksExclude
<1>3. ASSUME ~Shares(kind), NEW q \in Editor \ {p}, write[q].kind = "save" PROVE FALSE
  <2>1. "draft" \in Holding(p)
    BY <1>3, HoldsItsFirstRow, RowsOfWrites DEF Writes, Shares
  <2>2. "draft" \in Holding(q) /\ ~Shares(write[q].kind)
    BY <1>3, HoldsItsFirstRow DEF Shares
  <2> QED BY <2>1, <2>2 DEF SightInv, DraftLockExcludes
<1>4. MayWrite(p, kind)
  BY DEF Writes, SightInv, ChecksStillHold
<1> QED BY <1>2, <1>3, <1>4

(* What the others checked still holds after a step that changes only what *)
(* none of them has locked.                                                *)
LEMMA OthersStillMay ==
    ASSUME SightInv, NEW p \in Editor,
           \A q \in Editor \ {p} : page'[q] = page[q] /\ write'[q] = write[q],
           UNCHANGED draft \/ \A q \in Editor \ {p} : write[q].kind # "save",
           UNCHANGED <<workflow, openRequest>>
              \/ \A q \in Editor \ {p} : write[q].kind \notin {"submit", "decide"},
           write'[p].kind # "nothing" => MayWrite(p, write[p].kind)'
    PROVE  ChecksStillHold'
<1> SUFFICES ASSUME NEW q \in Editor \ {p}, write[q].kind # "nothing"
             PROVE  MayWrite(q, write[q].kind)'
  BY DEF ChecksStillHold
<1>1. MayWrite(q, write[q].kind)
  BY DEF SightInv, ChecksStillHold
<1>2. CASE write[q].kind = "save"
  BY <1>1, <1>2 DEF MayWrite
<1>3. CASE write[q].kind \in {"submit", "decide"}
  BY <1>1, <1>3 DEF MayWrite, Submittable
<1>4. CASE write[q].kind \in {"botSave", "publish"}
  BY <1>1, <1>4 DEF MayWrite
<1> QED BY <1>1, <1>2, <1>3, <1>4 DEF MayWrite

(* Pages that stay show what they showed, whatever is added.               *)
LEMMA PagesStillShow ==
    ASSUME EditorialInv, SightInv,
           draft'.version \in Nat, draft.version <= draft'.version,
           \A v \in 1..draft.version : wording'[v] = wording[v],
           workflow'.version \in Nat, workflow.version <= workflow'.version,
           workflow'.version = workflow.version =>
               wording'[draft'.version] = wording[draft.version],
           \A q \in Editor : page'[q] \in {page[q], NoPage} \/ PageShows(page[q])'
    PROVE  PagesShow'
<1> SUFFICES ASSUME NEW q \in Editor, page'[q] \in {page[q], NoPage} PROVE PageShows(page[q])'
  BY DEF PagesShow
<1>1. page[q].flow \in Nat /\ workflow.version \in Nat /\ draft.version \in Nat
  BY EditorialAssumption DEF EditorialInv, EditorialTypeOK, Flow, DraftVersion
<1>2. CASE page'[q] = NoPage
  BY <1>2, EditorialAssumption DEF NoPage, PageShows
<1>3. CASE page'[q] = page[q]
  <2>1. PageShows(page[q])
    BY DEF SightInv, PagesShow
  <2>2. draft.version \in 1..draft.version
    BY DEF EditorialInv, EditorialTypeOK, DraftVersion
  <2>3. page[q].flow = workflow'.version => page[q].flow = workflow.version
    BY <1>1, <2>1 DEF PageShows
  <2>4. page[q].medium # "none" => /\ page[q].version \in 1..draft.version
                                  /\ page[q].version \in 1..draft'.version
    BY <1>1, <2>1 DEF PageShows
  <2>5. page[q].flow <= workflow'.version
    BY <1>1, <2>1 DEF PageShows
  <2>6. page[q].medium = "web" /\ page[q].flow = workflow'.version
            => wording'[page[q].version] = wording'[draft'.version]
    <3>1. ASSUME page[q].medium = "web", page[q].flow = workflow'.version
          PROVE  wording'[page[q].version] = wording'[draft'.version]
      <4>1. wording[page[q].version] = wording[draft.version]
        BY <2>1, <2>3, <3>1 DEF PageShows
      <4>2. workflow'.version = workflow.version
        BY <2>3, <3>1
      <4> QED BY <2>2, <2>4, <3>1, <4>1, <4>2
    <3> QED BY <3>1
  <2> QED BY <1>3, <2>1, <2>4, <2>5, <2>6 DEF PageShows
<1> QED BY <1>2, <1>3

LEMMA DoneSharesLocks ==
    ASSUME EditorialInv, SightInv, NEW p \in Editor, Done(p)
    PROVE  /\ DraftLockExcludes'
           /\ write'[p].kind = "nothing" /\ \A q \in Editor \ {p} : write'[q] = write[q]
<1>1. write'[p] = NoWrite /\ \A q \in Editor \ {p} : write'[q] = write[q]
  BY DEF Done, EditorialInv, EditorialTypeOK
<1>2. Holding(p)' = {} /\ \A q \in Editor \ {p} : Holding(q)' = Holding(q)
  BY <1>1 DEF Holding, NoWrite
<1> QED BY <1>1, <1>2 DEF DraftLockExcludes, SightInv, NoWrite

LEMMA LockIsShared ==
    ASSUME EditorialInv, SightInv, NEW p \in Editor, NEW kind \in DOMAIN RowsLocked \ {"nothing"},
           NEW at \in 1..Len(RowsLocked[kind]),
           write' = [write EXCEPT ![p] = [kind |-> kind, at |-> at]],
           at = 1 \/ write[p] = [kind |-> kind, at |-> at - 1],
           IsFree(p, RowsLocked[kind][at], kind)
    PROVE  DraftLockExcludes'
<1>1. at \in 1..3
  <2>1. Len(RowsLocked[kind]) \in 2..3
    BY RowsOfWrites
  <2> QED BY <2>1
<1>2. write'[p] = [kind |-> kind, at |-> at] /\ \A q \in Editor \ {p} : write'[q] = write[q]
  BY DEF EditorialInv, EditorialTypeOK
<1>3. \A q \in Editor \ {p} : Holding(q)' = Holding(q)
  BY <1>2 DEF Holding
<1>4. \A row \in Holding(p)' :
          (row \in Holding(p) /\ write[p].kind = kind) \/ row = RowsLocked[kind][at]
  BY <1>1, <1>2 DEF Holding
<1>5. ASSUME NEW q \in Editor \ {p}, "draft" \in Holding(p)', "draft" \in Holding(q)'
      PROVE  Shares(kind) /\ Shares(write[q].kind)
  <2>1. "draft" \in Holding(q)
    BY <1>3, <1>5
  <2>2. CASE "draft" \in Holding(p) /\ write[p].kind = kind
    BY <2>1, <2>2 DEF SightInv, DraftLockExcludes
  <2>3. CASE RowsLocked[kind][at] = "draft"
    BY <2>1, <2>3 DEF IsFree, Keeps
  <2> QED BY <1>4, <1>5, <2>2, <2>3
<1> QED BY <1>2, <1>3, <1>5 DEF DraftLockExcludes, SightInv, Shares


LEMMA InitSight == EditorialInit => SightInv
<1> SUFFICES ASSUME EditorialInit PROVE SightInv
  OBVIOUS
<1> DEFINE preview == [NoPage EXCEPT !.medium = "bot", !.version = 1]
<1>1. ASSUME NEW p \in Editor PROVE PageShows(page[p])
  <2>1. page[p] \in {NoPage, preview} /\ draft.version = 1 /\ workflow.version = 1
    BY DEF EditorialInit
  <2>2. /\ NoPage.medium = "none" /\ NoPage.flow = 0 /\ NoPage.request = {}
        /\ preview.medium = "bot" /\ preview.flow = 0 /\ preview.request = {}
        /\ preview.version = 1
    BY DEF NoPage
  <2> HIDE DEF preview
  <2> QED BY <2>1, <2>2 DEF PageShows
<1>2. \A p \in Editor : write[p] = NoWrite /\ Holding(p) = {}
  BY DEF EditorialInit, NoWrite, Holding
<1>3. DraftLockExcludes /\ ChecksStillHold
  BY <1>2 DEF DraftLockExcludes, ChecksStillHold, NoWrite
<1> QED BY <1>1, <1>3 DEF EditorialInit, SightInv, OneRequest, PagesShow, PublishedExist

(* What a list shows.                                                      *)
LEMMA ListIsOpened ==
    ASSUME EditorialInv, NEW p \in Editor, OpenList(p)
    PROVE  \E r \in openRequest, shown \in PageRow :
              /\ page' = [page EXCEPT ![p] = shown]
              /\ shown.medium = "list" /\ shown.version = r.version
              /\ shown.flow = 0 /\ shown.request = {r}
<1>1. PICK r \in openRequest :
          page' = [page EXCEPT ![p] = [NoPage EXCEPT !.medium = "list", !.version = r.version,
                                                     !.request = {r}]]
  BY DEF OpenList
<1> DEFINE shown == [NoPage EXCEPT !.medium = "list", !.version = r.version, !.request = {r}]
<1>2. {r} \in SUBSET ReviewRequest /\ r.version \in 0..LastVersion
  BY EditorialAssumption DEF EditorialInv, EditorialTypeOK, ReviewRequest, DraftVersion
<1>3. /\ shown \in PageRow /\ shown.medium = "list" /\ shown.version = r.version
      /\ shown.flow = 0 /\ shown.request = {r}
  BY <1>2, NoPageTyped DEF PageRow, NoPage
<1>4. page' = [page EXCEPT ![p] = shown]
  BY <1>1
<1> HIDE DEF shown
<1> QED BY <1>3, <1>4

LEMMA ReadingShows ==
    ASSUME EditorialInv, SightInv, NEW p \in Editor, OpenDraft(p) \/ OpenList(p)
    PROVE  SightInv'
<1>1. /\ UNCHANGED <<draft, wording, workflow, openRequest, published, write>>
      /\ write[p] = NoWrite
  <2>1. OpenDraft(p) => UNCHANGED <<draft, wording, workflow, openRequest, published, write>>
                        /\ write[p] = NoWrite
    BY DEF OpenDraft
  <2>2. OpenList(p) => UNCHANGED <<draft, wording, workflow, openRequest, published, write>>
                       /\ write[p] = NoWrite
    BY Zenon DEF OpenList
  <2> QED BY <2>1, <2>2
<1>2. \A q \in Editor \ {p} : page'[q] = page[q]
  <2>1. \E shown : page' = [page EXCEPT ![p] = shown]
    BY ListIsOpened DEF OpenDraft
  <2> QED BY <2>1 DEF EditorialInv, EditorialTypeOK
<1>3. ChecksStillHold'
  BY <1>1, <1>2, OthersStillMay DEF NoWrite
<1>4. draft.version \in Nat \ {0} /\ workflow.version \in Nat
  BY EditorialAssumption DEF EditorialInv, EditorialTypeOK, DraftVersion, Flow
<1>5. PageShows(page[p])'
  <2>1. CASE OpenDraft(p)
    <3>1. page'[p] = [medium |-> "web", version |-> draft.version,
                      flow |-> workflow.version, request |-> openRequest]
      BY <2>1 DEF OpenDraft, EditorialInv, EditorialTypeOK
    <3> QED BY <1>1, <1>4, <3>1 DEF PageShows
  <2>2. CASE OpenList(p)
    <3>1. PICK r \in openRequest, shown \in PageRow :
              /\ page' = [page EXCEPT ![p] = shown]
              /\ shown.medium = "list" /\ shown.version = r.version
              /\ shown.flow = 0 /\ shown.request = {r}
      BY <2>2, ListIsOpened
    <3>2. page'[p] = shown
      BY <3>1 DEF EditorialInv, EditorialTypeOK
    <3>3. r \in ReviewRequest /\ r.version = workflow.current
      BY DEF SightInv, OneRequest
    <3>4. r.version \in 1..draft.version
      BY <1>4, <3>3 DEF EditorialInv, WordingIsSettled, ReviewRequest, DraftVersion
    <3> QED BY <1>1, <1>4, <3>1, <3>2, <3>3, <3>4 DEF PageShows
  <2> QED BY <2>1, <2>2
<1>6. PagesShow'
  BY <1>1, <1>2, <1>4, <1>5, PagesStillShow
<1> QED BY <1>1, <1>3, <1>6
        DEF SightInv, DraftLockExcludes, Holding, OneRequest, PublishedExist

LEMMA LockingShows ==
    ASSUME EditorialInv, SightInv, NEW p \in Editor, StartWrite(p) \/ LockRow(p) \/ RollBack(p)
    PROVE  SightInv'
<1>1. UNCHANGED <<draft, wording, workflow, openRequest, published, page>>
  BY DEF StartWrite, LockRow, RollBack
<1>2. draft.version \in Nat /\ workflow.version \in Nat
  BY EditorialAssumption DEF EditorialInv, EditorialTypeOK, DraftVersion, Flow
<1>3. OneRequest' /\ PublishedExist' /\ PagesShow'
  BY <1>1 DEF SightInv, OneRequest, PublishedExist, PagesShow, PageShows
<1> SUFFICES DraftLockExcludes' /\ ChecksStillHold'
  BY <1>3 DEF SightInv
<1>4. CASE StartWrite(p)
  <2>1. PICK kind \in DOMAIN RowsLocked \ {"nothing"} :
            /\ IsFree(p, RowsLocked[kind][1], kind) /\ MayWrite(p, kind)
            /\ write' = [write EXCEPT ![p] = [kind |-> kind, at |-> 1]]
    BY <1>4 DEF StartWrite
  <2>2. 1 \in 1..Len(RowsLocked[kind])
    BY RowsOfWrites
  <2>3. DraftLockExcludes'
    BY <2>1, <2>2, LockIsShared
  <2>4. write'[p].kind = kind /\ \A q \in Editor \ {p} : write'[q] = write[q]
    BY <2>1 DEF EditorialInv, EditorialTypeOK
  <2>5. MayWrite(p, write[p].kind)'
    BY <1>1, <2>1, <2>4 DEF MayWrite, Submittable
  <2> QED BY <1>1, <2>3, <2>4, <2>5, OthersStillMay
<1>5. CASE LockRow(p)
  <2>0. PICK kind \in DOMAIN RowsLocked \ {"nothing"} : \E at \in 1..Len(RowsLocked[kind]) :
            /\ write[p] = [kind |-> kind, at |-> at - 1]
            /\ write' = [write EXCEPT ![p] = [kind |-> kind, at |-> at]]
            /\ IsFree(p, RowsLocked[kind][at], kind)
    BY <1>5, NextLockIsTaken
  <2>1. PICK at \in 1..Len(RowsLocked[kind]) :
            /\ write[p] = [kind |-> kind, at |-> at - 1]
            /\ write' = [write EXCEPT ![p] = [kind |-> kind, at |-> at]]
            /\ IsFree(p, RowsLocked[kind][at], kind)
    BY <2>0
  <2>2. write'[p].kind = write[p].kind /\ write[p].kind = kind
        /\ \A q \in Editor \ {p} : write'[q] = write[q]
    BY <2>1 DEF EditorialInv, EditorialTypeOK
  <2>3. MayWrite(p, write[p].kind)
    BY <2>2 DEF SightInv, ChecksStillHold
  <2>4. MayWrite(p, write[p].kind)'
    BY <1>1, <2>2, <2>3 DEF MayWrite, Submittable
  <2>5. ChecksStillHold'
    BY <1>1, <2>2, <2>4, OthersStillMay
  <2> QED BY <2>1, <2>5, LockIsShared
<1>6. CASE RollBack(p)
  BY <1>1, <1>6, OthersStillMay, DoneSharesLocks DEF RollBack
<1> QED BY <1>4, <1>5, <1>6

(* The end of a write: what is left to show is what it wrote.              *)
LEMMA WriteShows ==
    ASSUME EditorialInv, SightInv, NEW p \in Editor,
           NEW kind \in DOMAIN RowsLocked \ {"nothing"}, Writes(p, kind), Done(p),
           ~Shares(kind) \/ UNCHANGED draft,
           \A q \in Editor \ {p} : page'[q] = page[q]
    PROVE  DraftLockExcludes' /\ ChecksStillHold'
<1>1. DraftLockExcludes' /\ write'[p].kind = "nothing" /\ \A q \in Editor \ {p} : write'[q] = write[q]
  BY DoneSharesLocks
<1>2. UNCHANGED draft \/ \A q \in Editor \ {p} : write[q].kind # "save"
  BY WriterIsAlone
<1>3. \A q \in Editor \ {p} : write[q].kind \notin {"submit", "decide"}
  BY WriterIsAlone
<1> QED BY <1>1, <1>2, <1>3, OthersStillMay

(* A version that is added.                                                *)
LEMMA AddedShows ==
    ASSUME EditorialInv, SightInv, NEW words \in Wording,
           draft.version < LastVersion, draft'.version = draft.version + 1,
           wording' = [wording EXCEPT ![draft.version + 1] = words]
    PROVE  /\ draft'.version \in Nat /\ draft.version <= draft'.version
           /\ \A v \in 1..draft.version : v \in DraftVersion /\ wording'[v] = wording[v]
           /\ draft'.version \in 1..draft'.version /\ wording'[draft'.version] = words
           /\ UNCHANGED published => PublishedExist'
<1>1. draft.version \in DraftVersion /\ wording \in [DraftVersion -> Wording]
  BY DEF EditorialInv, EditorialTypeOK
<1>2. draft.version + 1 \in DraftVersion
  BY <1>1, EditorialAssumption DEF DraftVersion
<1>3. \A v \in 1..draft.version : v \in DraftVersion /\ v # draft.version + 1
  BY <1>1, EditorialAssumption DEF DraftVersion
<1>4. draft'.version \in Nat /\ draft.version <= draft'.version /\ draft'.version \in 1..draft'.version
  BY <1>1 DEF DraftVersion
<1>5. UNCHANGED published => PublishedExist'
  <2>1. \A v \in DraftVersion : v <= draft.version => v <= draft'.version
    BY <1>1 DEF DraftVersion
  <2> QED BY <2>1 DEF SightInv, PublishedExist
<1> QED BY <1>1, <1>2, <1>3, <1>4, <1>5


LEMMA SavingShows ==
    ASSUME EditorialInv, SightInv, NEW p \in Editor, SaveDraft(p) \/ SaveFromBot(p)
    PROVE  SightInv'
<1> DEFINE shown == [NoPage EXCEPT !.medium = "bot", !.version = draft.version + 1]
<1>1. PICK words \in Wording :
          /\ draft.version < LastVersion /\ draft' = [draft EXCEPT !.version = @ + 1]
          /\ wording' = [wording EXCEPT ![draft.version + 1] = words]
  BY DEF SaveDraft, SaveFromBot, NextVersion
<1>2. /\ Done(p) /\ UNCHANGED published
      /\ workflow'.version = workflow.version + 1 /\ openRequest' = {}
  <2>1. workflow.state # "in_review" => openRequest = {}
    BY DEF EditorialInv, ReviewIsOfCurrentText
  <2>2. CASE SaveDraft(p)
    BY <2>1, <2>2 DEF SaveDraft, RecordRevision, Answered
  <2>3. CASE SaveFromBot(p)
    BY <2>3 DEF SaveFromBot
  <2> QED BY <2>2, <2>3
<1>3. PICK kind \in {"save", "botSave"} : Writes(p, kind)
  BY DEF SaveDraft, SaveFromBot
<1>4. kind \in DOMAIN RowsLocked \ {"nothing"} /\ ~Shares(kind)
  BY <1>3, RowsOfWrites DEF Shares
<1>5. draft.version \in Nat /\ workflow.version \in Nat
  BY DEF EditorialInv, EditorialTypeOK, DraftVersion, Flow
<1>6. draft'.version = draft.version + 1
  BY <1>1 DEF EditorialInv, EditorialTypeOK
<1>7. /\ draft'.version \in Nat /\ draft.version <= draft'.version
      /\ \A v \in 1..draft.version : v \in DraftVersion /\ wording'[v] = wording[v]
      /\ draft'.version \in 1..draft'.version /\ PublishedExist'
  BY <1>1, <1>2, <1>6, AddedShows
<1>8. /\ \A q \in Editor \ {p} : page'[q] = page[q]
      /\ page'[p] \in {page[p], NoPage, shown}
  <2>1. page' \in {page, [page EXCEPT ![p] = NoPage], [page EXCEPT ![p] = shown]}
    BY DEF SaveDraft, SaveFromBot, Answered
  <2> HIDE DEF shown
  <2> QED BY <2>1 DEF EditorialInv, EditorialTypeOK
<1>9. DraftLockExcludes' /\ ChecksStillHold'
  BY <1>2, <1>3, <1>4, <1>8, WriteShows
<1>10. page'[p] = shown => PageShows(page[p])'
  <2>1. shown.medium = "bot" /\ shown.version = draft'.version /\ shown.flow = 0 /\ shown.request = {}
    BY <1>6 DEF NoPage
  <2> HIDE DEF shown
  <2> QED BY <1>2, <1>5, <1>7, <2>1 DEF PageShows
<1> HIDE DEF shown
<1>11. workflow'.version \in Nat /\ workflow.version < workflow'.version
  BY <1>2, <1>5
<1>12. PagesShow'
  BY <1>5, <1>7, <1>8, <1>10, <1>11, PagesStillShow
<1> QED BY <1>2, <1>7, <1>9, <1>12 DEF SightInv, OneRequest

LEMMA ChangingShows ==
    ASSUME EditorialInv, SightInv, NEW p \in Editor, AttestDraft(p) \/ DeleteDraft(p)
    PROVE  SightInv'
<1>1. /\ draft.version < LastVersion /\ write[p] = NoWrite
      /\ wording' = [wording EXCEPT ![draft.version + 1] = wording[draft.version]]
      /\ page' \in {page, [page EXCEPT ![p] = NoPage]}
      /\ UNCHANGED <<workflow, openRequest, published, write>>
  BY DEF AttestDraft, DeleteDraft, ChangesDraft
<1>2. draft'.version = draft.version + 1
  BY DEF AttestDraft, DeleteDraft, EditorialInv, EditorialTypeOK
<1>3. /\ draft.version \in Nat /\ workflow.version \in Nat /\ wording[draft.version] \in Wording
      /\ draft.version \in 1..draft.version
  BY DEF EditorialInv, EditorialTypeOK, DraftVersion, Flow
<1>4. /\ draft'.version \in Nat /\ draft.version <= draft'.version
      /\ \A v \in 1..draft.version : v \in DraftVersion /\ wording'[v] = wording[v]
      /\ draft'.version \in 1..draft'.version /\ wording'[draft'.version] = wording[draft.version]
      /\ PublishedExist'
  BY <1>1, <1>2, <1>3, AddedShows
<1>5. /\ \A q \in Editor \ {p} : page'[q] = page[q]
      /\ \A q \in Editor : page'[q] \in {page[q], NoPage}
  BY <1>1 DEF EditorialInv, EditorialTypeOK
<1>6. \A q \in Editor \ {p} : write[q].kind # "save"
  <2>1. IsFree(p, "draft", "save") \/ IsFree(p, "draft", "submit")
    BY DEF AttestDraft, DeleteDraft
  <2> QED BY <2>1, HoldsItsFirstRow DEF IsFree, Keeps, Shares
<1>7. ChecksStillHold'
  BY <1>1, <1>5, <1>6, OthersStillMay DEF NoWrite
<1>8. PagesShow'
  BY <1>1, <1>3, <1>4, <1>5, PagesStillShow
<1> QED BY <1>1, <1>4, <1>7, <1>8 DEF SightInv, DraftLockExcludes, Holding, OneRequest

(* The writes that leave the draft and its wording alone.                  *)
LEMMA ReviewWriteShows ==
    ASSUME EditorialInv, SightInv, NEW p \in Editor,
           NEW kind \in DOMAIN RowsLocked \ {"nothing"}, Writes(p, kind), Answered(p),
           UNCHANGED <<draft, wording>>,
           workflow'.version \in Nat, workflow.version <= workflow'.version
    PROVE  DraftLockExcludes' /\ ChecksStillHold' /\ PagesShow'
<1>1. /\ \A q \in Editor \ {p} : page'[q] = page[q]
      /\ \A q \in Editor : page'[q] \in {page[q], NoPage}
  BY DEF Answered, EditorialInv, EditorialTypeOK
<1>2. DraftLockExcludes' /\ ChecksStillHold'
  BY <1>1, WriteShows DEF Answered
<1>3. draft.version \in Nat
  BY DEF EditorialInv, EditorialTypeOK, DraftVersion
<1>4. PagesShow'
  BY <1>1, <1>3, PagesStillShow
<1> QED BY <1>2, <1>4

LEMMA ReviewingShows ==
    ASSUME EditorialInv, SightInv, NEW p \in Editor, SubmitDraft(p) \/ DecideRequest(p)
    PROVE  SightInv'
<1>1. /\ Answered(p) /\ UNCHANGED <<draft, wording, published>>
      /\ workflow.version < LastFlow
  BY DEF SubmitDraft, DecideRequest
<1>2. PICK kind \in {"submit", "decide"} : Writes(p, kind)
  BY DEF SubmitDraft, DecideRequest
<1>3. workflow'.version = workflow.version + 1 /\ workflow'.current = workflow.current
  BY DEF SubmitDraft, DecideRequest, EditorialInv, EditorialTypeOK
<1>4. workflow.version \in Nat /\ workflow.version + 1 \in Flow /\ workflow.current \in DraftVersion
  BY <1>1, EditorialAssumption DEF EditorialInv, EditorialTypeOK, Flow
<1>5. DraftLockExcludes' /\ ChecksStillHold' /\ PagesShow'
  <2>1. kind \in DOMAIN RowsLocked \ {"nothing"}
    BY <1>2, RowsOfWrites
  <2>2. workflow'.version \in Nat /\ workflow.version <= workflow'.version
    BY <1>3, <1>4
  <2> QED BY <1>1, <1>2, <2>1, <2>2, ReviewWriteShows
<1>6. OneRequest'
  <2>1. CASE SubmitDraft(p)
    <3> DEFINE r == [id |-> workflow.version + 1, version |-> workflow.current]
    <3>1. openRequest' = {r}
      BY <2>1 DEF SubmitDraft
    <3>2. r \in ReviewRequest /\ r.version = workflow'.current
      BY <1>3, <1>4 DEF ReviewRequest
    <3> HIDE DEF r
    <3> QED BY <3>1, <3>2 DEF OneRequest
  <2>2. CASE DecideRequest(p)
    BY <2>2 DEF DecideRequest, OneRequest
  <2> QED BY <2>1, <2>2
<1> QED BY <1>1, <1>5, <1>6 DEF SightInv, PublishedExist

LEMMA PublishingShows ==
    ASSUME EditorialInv, SightInv, NEW p \in Editor, PublishDraft(p) \/ PublishFromBot(p)
    PROVE  SightInv'
<1>1. /\ Answered(p) /\ UNCHANGED <<draft, wording>> /\ Writes(p, "publish")
  BY DEF PublishDraft, PublishFromBot
<1>2. /\ workflow'.version \in {workflow.version, workflow.version + 1}
      /\ workflow'.current = workflow.current
      /\ openRequest' \in {openRequest, {}}
  <2>1. CASE PublishDraft(p)
    BY <2>1 DEF PublishDraft
  <2>2. CASE PublishFromBot(p)
    <3>1. \/ UNCHANGED <<workflow, openRequest>>
          \/ /\ openRequest' = {}
             /\ workflow' = [workflow EXCEPT !.state = "approved", !.version = @ + 1,
                                             !.approved = workflow.current]
      BY <2>2 DEF PublishFromBot
    <3> QED BY <3>1 DEF EditorialInv, EditorialTypeOK
  <2> QED BY <2>1, <2>2
<1>3. workflow.version \in Nat
  BY DEF EditorialInv, EditorialTypeOK, Flow
<1>4. DraftLockExcludes' /\ ChecksStillHold' /\ PagesShow'
  <2>1. "publish" \in DOMAIN RowsLocked \ {"nothing"}
    BY RowsOfWrites
  <2>2. workflow'.version \in Nat /\ workflow.version <= workflow'.version
    BY <1>2, <1>3
  <2> QED BY <1>1, <2>1, <2>2, ReviewWriteShows
<1>5. OneRequest'
  BY <1>2 DEF SightInv, OneRequest
<1>6. PublishedExist'
  <2>1. PICK v \in {workflow.approved, workflow.current} : Publishes(p, v)
    BY DEF PublishDraft, PublishFromBot
  <2>2. v <= draft.version
    BY DEF EditorialInv, WordingIsSettled
  <2> QED BY <1>1, <2>1, <2>2 DEF Publishes, SightInv, PublishedExist, EditorialInv, EditorialTypeOK
<1> QED BY <1>4, <1>5, <1>6 DEF SightInv

LEMMA SightStutters ==
    ASSUME SightInv, UNCHANGED editorialVars
    PROVE  SightInv'
<1>1. DraftLockExcludes' /\ ChecksStillHold'
  BY DEF editorialVars, SightInv, DraftLockExcludes, Holding, ChecksStillHold, MayWrite, Submittable
<1>2. OneRequest' /\ PagesShow' /\ PublishedExist'
  BY DEF editorialVars, SightInv, OneRequest, PagesShow, PageShows, PublishedExist
<1> QED BY <1>1, <1>2 DEF SightInv

LEMMA SightInvariance == EditorialSpec => [](EditorialInv /\ SightInv)
<1>1. EditorialInv /\ SightInv /\ [EditorialNext]_editorialVars => SightInv'
  <2> SUFFICES ASSUME EditorialInv, SightInv, [EditorialNext]_editorialVars PROVE SightInv'
    OBVIOUS
  <2>1. ASSUME NEW p \in Editor, EditorStep(p) PROVE SightInv'
    BY <2>1, ReadingShows, LockingShows, SavingShows, ChangingShows, ReviewingShows,
       PublishingShows DEF EditorStep
  <2> QED BY <2>1, SightStutters DEF EditorialNext
<1> QED BY InitSight, EditorialInvariance, <1>1, PTL DEF EditorialSpec


-----------------------------------------------------------------------------
(* The steps, as EditorialPromise reads them.                              *)

DraftRead == [version |-> draft.version, words |-> wording[draft.version],
              deleted |-> draft.deleted]
SightOfAll == [p \in Editor |-> Sight(p)]
TextsReleased == {wording[v] : v \in {u \in DraftVersion : published[u] # "no"}}

LEMMA SightOfNoPage ==
    ASSUME NEW p \in Editor, page[p] = NoPage
    PROVE  Sight(p) = [medium |-> "none"]
BY DEF NoPage, Sight

(* The wording of a version that exists is settled, and so are the texts   *)
(* that were shown and those that were released.                           *)
LEMMA SightsStay ==
    ASSUME EditorialInv, SightInv, NEW p \in Editor,
           page' \in {page, [page EXCEPT ![p] = NoPage]},
           \A v \in 1..draft.version : wording'[v] = wording[v]
    PROVE  Promise!KeepsOrLeaves(p)
<1>1. ASSUME NEW q \in Editor, page'[q] = page[q] PROVE Sight(q)' = Sight(q)
  <2>1. page[q].medium # "none" => wording'[page[q].version] = wording[page[q].version]
    BY DEF SightInv, PagesShow, PageShows
  <2> QED BY <1>1, <2>1 DEF Sight
<1>2. CASE page' = page
  <2>1. SightOfAll' = SightOfAll
    BY <1>1, <1>2 DEF SightOfAll
  <2> QED BY <2>1 DEF SightOfAll, Promise!KeepsOrLeaves
<1>3. CASE page' = [page EXCEPT ![p] = NoPage]
  <2>1. page'[p] = NoPage /\ \A q \in Editor \ {p} : page'[q] = page[q]
    BY <1>3 DEF EditorialInv, EditorialTypeOK
  <2>2. Sight(p)' = [medium |-> "none"]
    BY <2>1, SightOfNoPage DEF NoPage, Sight
  <2>3. SightOfAll' = [SightOfAll EXCEPT ![p] = [medium |-> "none"]]
    BY <1>1, <2>1, <2>2 DEF SightOfAll
  <2> QED BY <2>3 DEF SightOfAll, Promise!KeepsOrLeaves, Promise!Nothing
<1> QED BY <1>2, <1>3

LEMMA ReleasedStays ==
    ASSUME EditorialInv, SightInv, UNCHANGED published,
           \A v \in 1..draft.version : wording'[v] = wording[v]
    PROVE  TextsReleased' = TextsReleased
<1>1. \A v \in DraftVersion : published[v] # "no" => v \in 1..draft.version
  BY DEF SightInv, PublishedExist, DraftVersion, EditorialInv, EditorialTypeOK
<1> QED BY <1>1 DEF TextsReleased

LEMMA InitRefines == EditorialInit => Promise!Init
<1> SUFFICES ASSUME EditorialInit PROVE Promise!Init
  OBVIOUS
<1> DEFINE preview == [NoPage EXCEPT !.medium = "bot", !.version = 1]
<1>1. DraftRead = [version |-> 1, words |-> "one", deleted |-> FALSE]
  <2>1. draft = [version |-> 1, deleted |-> FALSE] /\ wording = [v \in DraftVersion |-> "one"]
    BY DEF EditorialInit
  <2>2. 1 \in DraftVersion
    BY EditorialAssumption DEF DraftVersion
  <2> QED BY <2>1, <2>2 DEF DraftRead
<1>2. ASSUME NEW p \in Editor
      PROVE  Sight(p) \in {[medium |-> "none"],
                           [medium |-> "bot", version |-> 1, words |-> "one"]}
  <2>1. page[p] \in {NoPage, preview}
    BY DEF EditorialInit
  <2>2. NoPage.medium = "none" /\ preview.medium = "bot" /\ preview.version = 1
    BY DEF NoPage
  <2>3. wording[1] = "one"
    BY EditorialAssumption DEF EditorialInit, DraftVersion
  <2> HIDE DEF preview
  <2> QED BY <2>1, <2>2, <2>3 DEF Sight
<1>3. TextsReleased = {}
  BY DEF EditorialInit, TextsReleased
<1>4. SightOfAll \in [Editor -> {[medium |-> "none"],
                                 [medium |-> "bot", version |-> 1, words |-> "one"]}]
  BY <1>2 DEF SightOfAll
<1>5. workflow.state = "draft" /\ "one" \in Wording
  BY DEF EditorialInit, Wording
<1> QED BY <1>1, <1>3, <1>4, <1>5
        DEF DraftRead, SightOfAll, TextsReleased, Promise!Init, Promise!Nothing, Promise!Shown

(* Locks, and steps that change nothing.                                   *)
LEMMA LockingRefines ==
    ASSUME UNCHANGED <<draft, wording, workflow, published, page>>
    PROVE  UNCHANGED Promise!promiseVars
<1>1. \A p \in Editor : Sight(p)' = Sight(p)
  BY DEF Sight
<1>2. SightOfAll' = SightOfAll /\ DraftRead' = DraftRead /\ TextsReleased' = TextsReleased
  BY <1>1 DEF SightOfAll, DraftRead, TextsReleased
<1> QED BY <1>2 DEF SightOfAll, DraftRead, TextsReleased, Promise!promiseVars


(* One person looks; the others keep what they saw.                        *)
LEMMA OneLooks ==
    ASSUME EditorialInv, NEW p \in Editor, NEW shown, page' = [page EXCEPT ![p] = shown],
           UNCHANGED wording
    PROVE  page'[p] = shown /\ SightOfAll' = [SightOfAll EXCEPT ![p] = Sight(p)']
<1>1. page'[p] = shown /\ \A q \in Editor \ {p} : page'[q] = page[q]
  BY DEF EditorialInv, EditorialTypeOK
<1>2. \A q \in Editor \ {p} : Sight(q)' = Sight(q)
  BY <1>1 DEF Sight
<1> QED BY <1>1, <1>2 DEF SightOfAll

LEMMA OpenDraftRefines ==
    ASSUME EditorialInv, NEW p \in Editor, OpenDraft(p)
    PROVE  Promise!Look(p)
<1> DEFINE shown == [medium |-> "web", version |-> draft.version,
                     flow |-> workflow.version, request |-> openRequest]
<1>1. ~draft.deleted /\ page' = [page EXCEPT ![p] = shown]
      /\ UNCHANGED <<draft, wording, workflow, openRequest, published, write>>
  BY DEF OpenDraft
<1>2. page'[p] = shown /\ SightOfAll' = [SightOfAll EXCEPT ![p] = Sight(p)']
  BY <1>1, OneLooks
<1>3. Sight(p)' = [medium |-> "web", version |-> draft.version, words |-> wording[draft.version]]
  BY <1>1, <1>2 DEF Sight
<1>4. DraftRead' = DraftRead /\ TextsReleased' = TextsReleased /\ UNCHANGED workflow
  BY <1>1 DEF DraftRead, TextsReleased
<1>5. DraftRead.version = draft.version /\ DraftRead.words = wording[draft.version]
      /\ DraftRead.deleted = draft.deleted
  BY DEF DraftRead
<1>6. SightOfAll' = [SightOfAll EXCEPT ![p] = [medium |-> "web", version |-> DraftRead.version,
                                               words |-> DraftRead.words]]
  BY <1>2, <1>3, <1>5
<1> QED BY <1>1, <1>4, <1>5, <1>6
        DEF DraftRead, SightOfAll, TextsReleased, Promise!Look, Promise!Shown

LEMMA OpenListRefines ==
    ASSUME EditorialInv, SightInv, NEW p \in Editor, OpenList(p)
    PROVE  Promise!Look(p)
<1>1. PICK r \in openRequest, shown \in PageRow :
          /\ page' = [page EXCEPT ![p] = shown]
          /\ shown.medium = "list" /\ shown.version = r.version
  BY ListIsOpened
<1>2. UNCHANGED <<draft, wording, workflow, openRequest, published, write>>
  BY Zenon DEF OpenList
<1>3. page'[p] = shown /\ SightOfAll' = [SightOfAll EXCEPT ![p] = Sight(p)']
  BY <1>1, <1>2, OneLooks
<1>4. workflow.state = "in_review" /\ r.version = workflow.current
      /\ wording[workflow.current] = wording[draft.version]
  BY DEF EditorialInv, ReviewIsOfCurrentText, WordingIsSettled, SightInv, OneRequest
<1>5. Sight(p)' = [medium |-> "list", words |-> wording[draft.version]]
  BY <1>1, <1>2, <1>3, <1>4 DEF Sight
<1>6. DraftRead' = DraftRead /\ TextsReleased' = TextsReleased /\ UNCHANGED workflow
  BY <1>2 DEF DraftRead, TextsReleased
<1>7. DraftRead.words = wording[draft.version]
  BY DEF DraftRead
<1>8. SightOfAll' = [SightOfAll EXCEPT ![p] = [medium |-> "list", words |-> DraftRead.words]]
  BY <1>3, <1>5, <1>7
<1> QED BY <1>4, <1>6, <1>8
        DEF DraftRead, SightOfAll, TextsReleased, Promise!Look, Promise!Listed

(* What a person sees, by the page.                                        *)
LEMMA SightOfPage ==
    ASSUME NEW p \in Editor
    PROVE  /\ SightOfAll[p] = Sight(p)
           /\ Sight(p).medium = page[p].medium
           /\ page[p].medium \in {"web", "bot"} =>
                 Sight(p).version = page[p].version /\ Sight(p).words = wording[page[p].version]
           /\ page[p].medium = "list" => Sight(p).words = wording[page[p].version]
BY DEF SightOfAll, Sight

LEMMA SaveRefines ==
    ASSUME EditorialInv, SightInv, NEW p \in Editor, SaveDraft(p)
    PROVE  \E words \in Wording : Promise!Save(p, words)
<1>1. PICK words \in Wording : NextVersion(words) /\ RecordRevision(words)
  BY DEF SaveDraft
<1>2. page[p].medium = "web" /\ page[p].version = draft.version /\ ~draft.deleted
  <2>1. Writes(p, "save") /\ "save" \in DOMAIN RowsLocked \ {"nothing"}
    BY RowsOfWrites DEF SaveDraft
  <2>2. MayWrite(p, "save")
    BY <2>1, WriterIsAlone
  <2> QED BY <2>2 DEF MayWrite
<1>3. /\ draft.version < LastVersion /\ draft' = [draft EXCEPT !.version = @ + 1]
      /\ wording' = [wording EXCEPT ![draft.version + 1] = words]
  BY <1>1 DEF NextVersion
<1>4. draft'.version = draft.version + 1 /\ draft'.deleted = draft.deleted
  BY <1>3 DEF EditorialInv, EditorialTypeOK
<1>5. /\ \A v \in 1..draft.version : wording'[v] = wording[v]
      /\ wording'[draft'.version] = words
  BY <1>3, <1>4, AddedShows
<1>6. DraftRead' = [version |-> DraftRead.version + 1, words |-> words, deleted |-> FALSE]
  <2>1. draft.deleted = FALSE
    BY <1>2 DEF EditorialInv, EditorialTypeOK
  <2> QED BY <1>4, <1>5, <2>1 DEF DraftRead
<1>7. workflow'.state = IF (words # wording[draft.version] \/ workflow.state = "in_review")
                              /\ workflow.state # "changes_requested"
                        THEN "draft" ELSE workflow.state
  BY <1>1 DEF RecordRevision, EditorialInv, WordingIsSettled
<1>8. Promise!KeepsOrLeaves(p) /\ UNCHANGED published
  BY <1>5, SightsStay DEF SaveDraft, Answered
<1>9. TextsReleased' = TextsReleased
  BY <1>5, <1>8, ReleasedStays
<1>10. SightOfAll[p].medium = "web" /\ SightOfAll[p].version = DraftRead.version
       /\ ~DraftRead.deleted /\ DraftRead.words = wording[draft.version]
  BY <1>2, SightOfPage DEF DraftRead
<1>11. Promise!Save(p, words)
  BY <1>6, <1>7, <1>8, <1>9, <1>10
     DEF DraftRead, SightOfAll, TextsReleased, Promise!Save, Promise!NextVersion, Promise!SeesLatest
<1> QED BY <1>11


LEMMA BotSaveRefines ==
    ASSUME EditorialInv, SightInv, NEW p \in Editor, SaveFromBot(p)
    PROVE  \E words \in Wording : Promise!SaveFromBot(p, words)
<1> DEFINE shown == [NoPage EXCEPT !.medium = "bot", !.version = draft.version + 1]
<1>1. PICK words \in Wording : NextVersion(words)
  BY DEF SaveFromBot
<1>2. page[p].medium = "bot"
  <2>1. Writes(p, "botSave") /\ "botSave" \in DOMAIN RowsLocked \ {"nothing"}
    BY RowsOfWrites DEF SaveFromBot
  <2>2. MayWrite(p, "botSave")
    BY <2>1, WriterIsAlone
  <2> QED BY <2>2 DEF MayWrite
<1>3. /\ draft.version < LastVersion /\ draft' = [draft EXCEPT !.version = @ + 1]
      /\ wording' = [wording EXCEPT ![draft.version + 1] = words]
  BY <1>1 DEF NextVersion
<1>4. draft'.version = draft.version + 1 /\ draft'.deleted = draft.deleted
  BY <1>3 DEF EditorialInv, EditorialTypeOK
<1>5. /\ \A v \in 1..draft.version : wording'[v] = wording[v]
      /\ wording'[draft'.version] = words
  BY <1>3, <1>4, AddedShows
<1>6. DraftRead' = [version |-> DraftRead.version + 1, words |-> words,
                    deleted |-> DraftRead.deleted]
  BY <1>4, <1>5 DEF DraftRead
<1>7. workflow'.state = "draft" /\ UNCHANGED published /\ page' = [page EXCEPT ![p] = shown]
  BY DEF SaveFromBot
<1>8. shown.medium = "bot" /\ shown.version = draft.version + 1
  BY DEF NoPage
<1> HIDE DEF shown
<1>9. TextsReleased' = TextsReleased
  BY <1>5, <1>7, ReleasedStays
<1>10. page'[p] = shown /\ \A q \in Editor \ {p} : page'[q] = page[q]
  BY <1>7 DEF EditorialInv, EditorialTypeOK
<1>11. Sight(p)' = [medium |-> "bot", version |-> draft.version + 1, words |-> words]
  BY <1>4, <1>5, <1>8, <1>10 DEF Sight
<1>12. ASSUME NEW q \in Editor \ {p} PROVE Sight(q)' = Sight(q)
  <2>1. page[q].medium # "none" => page[q].version \in 1..draft.version
    BY DEF SightInv, PagesShow, PageShows
  <2> QED BY <1>5, <1>10, <2>1 DEF Sight
<1>13. SightOfAll' = [SightOfAll EXCEPT ![p] = [medium |-> "bot", version |-> DraftRead.version + 1,
                                                words |-> words]]
  BY <1>11, <1>12 DEF SightOfAll, DraftRead
<1>14. SightOfAll[p].medium = "bot"
  BY <1>2, SightOfPage
<1>15. Promise!SaveFromBot(p, words)
  BY <1>6, <1>7, <1>9, <1>13, <1>14
     DEF DraftRead, SightOfAll, TextsReleased, Promise!SaveFromBot, Promise!NextVersion
<1> QED BY <1>15

LEMMA ChangeRefines ==
    ASSUME EditorialInv, SightInv, NEW p \in Editor, AttestDraft(p) \/ DeleteDraft(p)
    PROVE  \E deletes \in BOOLEAN : Promise!Touch(p, deletes)
<1>1. /\ page[p].medium = "web" /\ page[p].version = draft.version /\ ~draft.deleted
      /\ draft.version < LastVersion
      /\ wording' = [wording EXCEPT ![draft.version + 1] = wording[draft.version]]
      /\ page' \in {page, [page EXCEPT ![p] = NoPage]}
      /\ UNCHANGED <<workflow, openRequest, published, write>>
  BY DEF AttestDraft, DeleteDraft, ChangesDraft
<1>2. PICK deletes \in BOOLEAN : draft'.version = draft.version + 1 /\ draft'.deleted = deletes
  <2>1. draft \in [version : DraftVersion, deleted : BOOLEAN]
    BY DEF EditorialInv, EditorialTypeOK
  <2>2. \/ draft' = [draft EXCEPT !.version = @ + 1]
        \/ draft' = [version |-> draft.version + 1, deleted |-> TRUE]
    BY DEF AttestDraft, DeleteDraft
  <2>3. draft'.version = draft.version + 1
    BY <2>1, <2>2
  <2>4. draft'.deleted = draft.deleted \/ draft'.deleted = TRUE
    BY <2>1, <2>2
  <2> QED BY <2>1, <2>3, <2>4
<1>3. wording[draft.version] \in Wording
  BY DEF EditorialInv, EditorialTypeOK
<1>4. /\ \A v \in 1..draft.version : wording'[v] = wording[v]
      /\ wording'[draft'.version] = wording[draft.version]
  BY <1>1, <1>2, <1>3, AddedShows
<1>5. DraftRead' = [version |-> DraftRead.version + 1, words |-> DraftRead.words, deleted |-> deletes]
  BY <1>2, <1>4 DEF DraftRead
<1>6. Promise!KeepsOrLeaves(p)
  BY <1>1, <1>4, SightsStay
<1>7. TextsReleased' = TextsReleased
  BY <1>1, <1>4, ReleasedStays
<1>8. SightOfAll[p].medium = "web" /\ SightOfAll[p].version = DraftRead.version
      /\ ~DraftRead.deleted
  BY <1>1, SightOfPage DEF DraftRead
<1>9. Promise!Touch(p, deletes)
  BY <1>1, <1>5, <1>6, <1>7, <1>8
     DEF DraftRead, SightOfAll, TextsReleased, Promise!Touch, Promise!NextVersion, Promise!SeesLatest
<1> QED BY <1>9

LEMMA SubmitRefines ==
    ASSUME EditorialInv, SightInv, NEW p \in Editor, SubmitDraft(p)
    PROVE  Promise!Submit(p)
<1>1. /\ Submittable
      /\ (page[p].medium = "web" /\ page[p].flow = workflow.version) \/ page[p].medium = "bot"
  <2>1. Writes(p, "submit") /\ "submit" \in DOMAIN RowsLocked \ {"nothing"}
    BY RowsOfWrites DEF SubmitDraft
  <2>2. MayWrite(p, "submit")
    BY <2>1, WriterIsAlone
  <2> QED BY <2>2 DEF MayWrite
<1>2. Answered(p) /\ UNCHANGED <<draft, wording, published>> /\ workflow'.state = "in_review"
  BY DEF SubmitDraft, EditorialInv, EditorialTypeOK
<1>3. Promise!KeepsOrLeaves(p)
  BY <1>2, SightsStay DEF Answered
<1>4. DraftRead' = DraftRead /\ TextsReleased' = TextsReleased
  BY <1>2 DEF DraftRead, TextsReleased
<1>5. \/ SightOfAll[p].medium = "web" /\ SightOfAll[p].words = DraftRead.words
      \/ SightOfAll[p].medium = "bot"
  <2>1. page[p].medium = "web" /\ page[p].flow = workflow.version
            => wording[page[p].version] = wording[draft.version]
    BY DEF SightInv, PagesShow, PageShows
  <2> QED BY <1>1, <2>1, SightOfPage DEF DraftRead
<1> QED BY <1>1, <1>2, <1>3, <1>4, <1>5
        DEF DraftRead, SightOfAll, TextsReleased, Submittable, Promise!Submit, Promise!SeesText

LEMMA DecideRefines ==
    ASSUME EditorialInv, SightInv, NEW p \in Editor, DecideRequest(p)
    PROVE  Promise!Decide(p)
<1>1. /\ workflow.state = "in_review"
      /\ page[p].request # {} /\ page[p].request = openRequest
      /\ page[p].medium = "web" => page[p].flow = workflow.version
  <2>1. Writes(p, "decide") /\ "decide" \in DOMAIN RowsLocked \ {"nothing"}
    BY RowsOfWrites DEF DecideRequest
  <2>2. MayWrite(p, "decide")
    BY <2>1, WriterIsAlone
  <2> QED BY <2>2 DEF MayWrite
<1>2. Answered(p) /\ UNCHANGED <<draft, wording, published>>
      /\ workflow'.state \in {"approved", "changes_requested"}
  BY DEF DecideRequest, EditorialInv, EditorialTypeOK
<1>3. Promise!KeepsOrLeaves(p)
  BY <1>2, SightsStay DEF Answered
<1>4. DraftRead' = DraftRead /\ TextsReleased' = TextsReleased
  BY <1>2 DEF DraftRead, TextsReleased
<1>5. PageShows(page[p]) /\ page[p].medium \in {"web", "list"}
  BY <1>1 DEF SightInv, PagesShow, PageShows, EditorialInv, EditorialTypeOK
<1>6. wording[page[p].version] = wording[draft.version]
  <2>1. CASE page[p].medium = "web"
    BY <1>1, <1>5, <2>1 DEF PageShows
  <2>2. CASE page[p].medium = "list"
    <3>1. PICK r \in ReviewRequest : openRequest = {r} /\ page[p].version = r.version
      BY <1>1, <1>5, <2>2 DEF PageShows
    <3>2. r.version = workflow.current
      BY <3>1 DEF SightInv, OneRequest
    <3> QED BY <3>1, <3>2 DEF EditorialInv, WordingIsSettled
  <2> QED BY <1>5, <2>1, <2>2
<1>7. SightOfAll[p].medium \in {"web", "list"} /\ SightOfAll[p].words = DraftRead.words
  BY <1>5, <1>6, SightOfPage DEF DraftRead
<1> QED BY <1>1, <1>2, <1>3, <1>4, <1>7
        DEF DraftRead, SightOfAll, TextsReleased, Promise!Decide, Promise!SeesText


(* What a click publishes is the latest text, and the only one released.   *)
LEMMA PublishReleases ==
    ASSUME EditorialInv, NEW p \in Editor, NEW v \in DraftVersion, Publishes(p, v),
           UNCHANGED wording, wording[v] = wording[draft.version]
    PROVE  TextsReleased' = TextsReleased \cup {wording[draft.version]}
<1>1. published'[v] # "no"
      /\ \A u \in DraftVersion \ {v} : published'[u] = published[u]
  BY DEF Publishes, EditorialInv, EditorialTypeOK
<1> QED BY <1>1 DEF TextsReleased

LEMMA PublishRefines ==
    ASSUME EditorialInv, SightInv, NEW p \in Editor, PublishDraft(p) \/ PublishFromBot(p)
    PROVE  Promise!Publish(p)
<1>1. Answered(p) /\ UNCHANGED <<draft, wording>> /\ page[p].version = draft.version
  BY DEF PublishDraft, PublishFromBot, MayPublish
<1>2. Promise!KeepsOrLeaves(p)
  BY <1>1, SightsStay DEF Answered
<1>3. PICK v \in DraftVersion : Publishes(p, v) /\ wording[v] = wording[draft.version]
  <2>1. CASE PublishDraft(p)
    <3>1. workflow.state = "approved" /\ Publishes(p, workflow.approved)
      BY <2>1 DEF PublishDraft, MayPublish, Approved
    <3>2. workflow.approved \in DraftVersion /\ wording[workflow.approved] = wording[workflow.current]
      BY <3>1 DEF EditorialInv, EditorialTypeOK, ReviewIsOfCurrentText, DraftVersion
    <3> QED BY <3>1, <3>2 DEF EditorialInv, WordingIsSettled
  <2>2. CASE PublishFromBot(p)
    BY <2>2 DEF PublishFromBot, EditorialInv, EditorialTypeOK
  <2> QED BY <2>1, <2>2
<1>4. TextsReleased' = TextsReleased \cup {DraftRead.words} /\ DraftRead' = DraftRead
  BY <1>1, <1>3, PublishReleases DEF DraftRead
<1>5. /\ ~draft.deleted /\ workflow'.state = "approved"
      /\ (page[p].medium = "web" /\ workflow.state = "approved") \/ page[p].medium = "bot"
  <2>1. CASE PublishDraft(p)
    <3>1. workflow.state = "approved" /\ page[p].medium = "web" /\ UNCHANGED workflow
      BY <2>1 DEF PublishDraft, MayPublish, Approved
    <3>2. ~draft.deleted
      BY <1>1, <3>1 DEF EditorialInv, EditorialTypeOK, PagesAreBehind, DraftVersion
    <3> QED BY <3>1, <3>2
  <2>2. CASE PublishFromBot(p)
    BY <2>2 DEF PublishFromBot, EditorialInv, EditorialTypeOK
  <2> QED BY <2>1, <2>2
<1>6. /\ SightOfAll[p].medium = page[p].medium
      /\ SightOfAll[p].version = DraftRead.version /\ SightOfAll[p].words = DraftRead.words
      /\ ~DraftRead.deleted
  BY <1>1, <1>5, SightOfPage DEF DraftRead
<1> QED BY <1>2, <1>4, <1>5, <1>6
        DEF DraftRead, SightOfAll, TextsReleased, Promise!Publish, Promise!SeesLatest,
            Promise!SeesText

(* Every act of the promise asks what its author was shown.                *)
LEMMA WhoActsWasShown ==
    ASSUME NEW p \in Editor, Promise!Acts(p)
    PROVE  Promise!Next
<1>1. Promise!WasShown(p)
  BY DEF Promise!Acts, Promise!WasShown, Promise!Save, Promise!SaveFromBot, Promise!Touch,
         Promise!Submit, Promise!Decide, Promise!Publish
<1> QED BY <1>1 DEF Promise!Next

(* Whatever is saved, reviewed and published while others do the same, it  *)
(* is as if each did it at once and alone, on the text that was shown.     *)
THEOREM EachActsOnWhatWasSeen == EditorialSpec => ActsOnWhatWasSeen
<1>1. EditorialInv /\ SightInv /\ [EditorialNext]_editorialVars => [Promise!Next]_(Promise!promiseVars)
  <2> SUFFICES ASSUME EditorialInv, SightInv, [EditorialNext]_editorialVars
               PROVE  Promise!Next \/ UNCHANGED Promise!promiseVars
    OBVIOUS
  <2>1. ASSUME NEW p \in Editor, EditorStep(p)
        PROVE  Promise!Next \/ UNCHANGED Promise!promiseVars
    <3>1. CASE OpenDraft(p) \/ OpenList(p)
      BY <3>1, OpenDraftRefines, OpenListRefines DEF Promise!Next
    <3>2. CASE StartWrite(p) \/ LockRow(p) \/ RollBack(p)
      BY <3>2, LockingRefines DEF StartWrite, LockRow, RollBack
    <3>3. CASE SaveDraft(p) \/ SaveFromBot(p)
      BY <3>3, SaveRefines, BotSaveRefines, WhoActsWasShown DEF Promise!Acts
    <3>4. CASE AttestDraft(p) \/ DeleteDraft(p)
      BY <3>4, ChangeRefines, WhoActsWasShown DEF Promise!Acts
    <3>5. CASE SubmitDraft(p) \/ DecideRequest(p)
      BY <3>5, SubmitRefines, DecideRefines, WhoActsWasShown DEF Promise!Acts
    <3>6. CASE PublishDraft(p) \/ PublishFromBot(p)
      BY <3>6, PublishRefines, WhoActsWasShown DEF Promise!Acts
    <3> QED BY <2>1, <3>1, <3>2, <3>3, <3>4, <3>5, <3>6 DEF EditorStep
  <2>2. CASE UNCHANGED editorialVars
    BY <2>2, LockingRefines DEF editorialVars
  <2> QED BY <2>1, <2>2 DEF EditorialNext
<1> QED BY <1>1, InitRefines, SightInvariance, PTL DEF EditorialSpec, ActsOnWhatWasSeen, Promise!Spec
=============================================================================
