------------------------ MODULE EditorialApproval ------------------------
(* One draft of a team: written in the web and in the bot, submitted,     *)
(* approved, and made a publication by whoever sees it approved.          *)
(*                                                                        *)
(* A writer is a transaction that locks rows one after the other and       *)
(* takes effect when it has them all; PostgreSQL may end it anywhere.      *)
(* "draft" is locked FOR UPDATE by all but a submission and a decision,    *)
(* which lock it FOR KEY SHARE, through the foreign key of the row they    *)
(* insert, after the workflow (and a deletion, which is one statement).    *)
(*                                                                        *)
(* Limits of the model:                                                   *)
(*  - What the hash covers is one of two wordings; every version has one,  *)
(*    whether or not it has a row in `draft_revisions`.                    *)
(*  - The text of a block changes without a version; it is left out, like  *)
(*    the version of the publication settings, which guards only them.     *)
(*  - A click repeated with its key is answered by the operation of its    *)
(*    revision; the comparison of key, schedule and fingerprint is left    *)
(*    out, and so are comments, the drafts of autopilot and AI review.     *)
(*  - A personal project's owner uses the bot; all may do everything.      *)
EXTENDS Naturals, FiniteSets, Sequences

CONSTANTS
    Editor,         \* the people, one transaction each
    LastVersion,    \* bound of the model on the versions of the draft
    LastFlow        \* bound of the model on the versions of the workflow

ASSUME EditorialAssumption == LastVersion \in Nat \ {0} /\ LastFlow \in Nat \ {0}

VARIABLES
    draft,          \* `drafts`
    wording,        \* the wording of every version of the draft
    workflow,       \* `draft_editorial_workflows`
    openRequest,    \* `draft_editorial_requests` with status "open"
    published,      \* `publication_operations`, by the version approved
    page,           \* what a person looks at
    write           \* the transaction of a person

editorialVars == <<draft, wording, workflow, openRequest, published, page, write>>

DraftVersion == 1..LastVersion
Wording == {"one", "two"}
Flow == 1..LastFlow
ReviewRequest == [id : Flow, version : DraftVersion]   \* id: the workflow version it made

(* The rows a transaction locks, in their order.                           *)
RowsLocked ==
    [nothing |-> <<>>,
     save    |-> <<"draft", "workflow", "request">>,
     botSave |-> <<"draft", "request", "workflow">>,
     submit  |-> <<"workflow", "draft">>,
     decide  |-> <<"workflow", "request", "draft">>,
     publish |-> <<"draft", "workflow", "request">>]

EditorialTypeOK ==
    /\ draft \in [version : DraftVersion, deleted : BOOLEAN]
    /\ wording \in [DraftVersion -> Wording]
    /\ workflow \in [state : {"draft", "in_review", "changes_requested", "approved"},
                     version : Flow, current : DraftVersion, approved : 0..LastVersion]
    /\ openRequest \subseteq ReviewRequest /\ Cardinality(openRequest) <= 1   \* its unique index
    /\ published \in [DraftVersion -> {"no", "asSeen", "unseen"}]
    /\ page \in [Editor -> [medium : {"none", "web", "bot", "list"}, version : 0..LastVersion,
                            flow : 0..LastFlow, request : SUBSET ReviewRequest]]
    /\ write \in [Editor -> [kind : DOMAIN RowsLocked, at : 0..3]]

NoPage == [medium |-> "none", version |-> 0, flow |-> 0, request |-> {}]
NoWrite == [kind |-> "nothing", at |-> 0]

(* A draft just made, in the web or by somebody who has its preview in the *)
(* bot.                                                                    *)
EditorialInit ==
    /\ draft = [version |-> 1, deleted |-> FALSE]
    /\ wording = [v \in DraftVersion |-> "one"]
    /\ workflow = [state |-> "draft", version |-> 1, current |-> 1, approved |-> 0]
    /\ openRequest = {}
    /\ published = [v \in DraftVersion |-> "no"]
    /\ write = [p \in Editor |-> NoWrite]
    /\ page \in {[p \in Editor |-> IF p \in Q THEN [NoPage EXCEPT !.medium = "bot", !.version = 1]
                                              ELSE NoPage] :
                    Q \in {R \in SUBSET Editor : Cardinality(R) <= 1}}

-----------------------------------------------------------------------------
(* Rows and transactions.                                                  *)

Holding(p) == {RowsLocked[write[p].kind][i] : i \in 1..write[p].at}
Locking(p) == {RowsLocked[write[p].kind][i] : i \in {write[p].at + 1} \cap DOMAIN RowsLocked[write[p].kind]}

\* A defect ActsOnWhatWasSeen excludes: a save reads its draft without the
\* lock FOR UPDATE, and replaces what was saved since.
SharesWhenSaving(kind) == kind \in {"submit", "decide", "save"}

Shares(kind) == kind \in {"submit", "decide"}

(* A request is only locked while there is an open one.                    *)
Keeps(q, row, kind) ==
    /\ row \in Holding(q)
    /\ row = "draft" => ~(Shares(kind) /\ Shares(write[q].kind))
    /\ row = "request" => openRequest # {}

IsFree(p, row, kind) == \A q \in Editor \ {p} : ~Keeps(q, row, kind)

WaitsFor(p, q) == p # q /\ \E row \in Locking(p) : Keeps(q, row, write[p].kind)

Writes(p, kind) == write[p].kind = kind /\ write[p].at = Len(RowsLocked[kind])

(* The end of a transaction; its answer may be lost, and the page stays.    *)
Done(p) == write' = [write EXCEPT ![p] = NoWrite]
Answered(p) == Done(p) /\ page' \in {page, [page EXCEPT ![p] = NoPage]}

Submittable == workflow.state \in {"draft", "changes_requested"}

(* What a transaction checks under its first lock.  The bot submits what   *)
(* is current, and decides on the request it listed.                       *)
MayWrite(p, kind) ==
    CASE kind = "save"    -> page[p].medium = "web" /\ page[p].version = draft.version /\ ~draft.deleted
      [] kind = "botSave" -> page[p].medium = "bot"
      [] kind = "submit"  -> /\ Submittable
                             /\ \/ page[p].medium = "web" /\ page[p].flow = workflow.version
                                \/ page[p].medium = "bot"
      [] kind = "decide"  -> /\ workflow.state = "in_review"
                             /\ page[p].request # {} /\ page[p].request = openRequest
                             /\ page[p].medium = "web" => page[p].flow = workflow.version
      [] kind = "publish" -> page[p].medium \in {"web", "bot"}
      [] OTHER            -> FALSE

StartWrite(p) ==
    /\ write[p] = NoWrite
    /\ \E kind \in DOMAIN RowsLocked \ {"nothing"} :
          /\ IsFree(p, RowsLocked[kind][1], kind) /\ MayWrite(p, kind)
          /\ write' = [write EXCEPT ![p] = [kind |-> kind, at |-> 1]]
    /\ UNCHANGED <<draft, wording, workflow, openRequest, published, page>>

LockRow(p) ==
    /\ Locking(p) # {}
    /\ \A row \in Locking(p) : IsFree(p, row, write[p].kind)
    /\ write' = [write EXCEPT ![p].at = @ + 1]
    /\ UNCHANGED <<draft, wording, workflow, openRequest, published, page>>

(* A refusal, an error, or the victim of a deadlock.                        *)
RollBack(p) ==
    /\ write[p] # NoWrite
    /\ Done(p)
    /\ UNCHANGED <<draft, wording, workflow, openRequest, published, page>>

OpenDraft(p) ==
    /\ write[p] = NoWrite /\ ~draft.deleted
    /\ page' = [page EXCEPT ![p] = [medium |-> "web", version |-> draft.version,
                                    flow |-> workflow.version, request |-> openRequest]]
    /\ UNCHANGED <<draft, wording, workflow, openRequest, published, write>>

(* The list of approvals in the bot.                                       *)
OpenList(p) ==
    /\ write[p] = NoWrite
    /\ \E r \in openRequest :
          page' = [page EXCEPT ![p] = [NoPage EXCEPT !.medium = "list", !.version = r.version,
                                                     !.request = {r}]]
    /\ UNCHANGED <<draft, wording, workflow, openRequest, published, write>>

-----------------------------------------------------------------------------
(* Versions.                                                              *)

NextVersion(words) ==
    /\ draft.version < LastVersion
    /\ draft' = [draft EXCEPT !.version = @ + 1]
    /\ wording' = [wording EXCEPT ![draft.version + 1] = words]

\* A defect ReviewIsOfCurrentText excludes: a save that changes nothing the
\* hash covers keeps the request it has made impossible to answer.
RecordRevisionByHash(words) ==
    LET changed == wording[workflow.current] # words IN
    /\ workflow.version < LastFlow
    /\ openRequest' = IF changed THEN {} ELSE openRequest
    /\ workflow' = [state    |-> IF changed /\ workflow.state # "changes_requested" THEN "draft"
                                                                               ELSE workflow.state,
                    version  |-> workflow.version + 1,
                    current  |-> draft.version + 1,
                    approved |-> IF changed THEN 0 ELSE workflow.approved]

(* recordDraftRevisionInTransaction.                                       *)
RecordRevision(words) ==
    LET workflowMustReset == wording[workflow.current] # words \/ workflow.state = "in_review" IN
    /\ workflow.version < LastFlow
    /\ openRequest' = IF workflowMustReset THEN {} ELSE openRequest
    /\ workflow' = [state    |-> IF workflowMustReset /\ workflow.state # "changes_requested"
                                 THEN "draft" ELSE workflow.state,
                    version  |-> workflow.version + 1,
                    current  |-> draft.version + 1,
                    approved |-> IF workflowMustReset THEN 0 ELSE workflow.approved]

(* Another text, another date or the same one again, other settings.       *)
SaveDraft(p) ==
    /\ Writes(p, "save")
    /\ \E words \in Wording : NextVersion(words) /\ RecordRevision(words)
    /\ Answered(p)
    /\ UNCHANGED published

(* The bot does not look at the version it replaces.                       *)
SaveFromBot(p) ==
    /\ Writes(p, "botSave")
    /\ workflow.version < LastFlow
    /\ \E words \in Wording : NextVersion(words)
    /\ openRequest' = {}
    /\ workflow' = [state |-> "draft", version |-> workflow.version + 1,
                    current |-> draft.version + 1, approved |-> 0]
    /\ page' = [page EXCEPT ![p] = [NoPage EXCEPT !.medium = "bot", !.version = draft.version + 1]]
    /\ Done(p)
    /\ UNCHANGED published

(* What changes the draft alone: a version without a revision.             *)
ChangesDraft(p) ==
    /\ write[p] = NoWrite
    /\ page[p].medium = "web" /\ page[p].version = draft.version /\ ~draft.deleted
    /\ draft.version < LastVersion
    /\ wording' = [wording EXCEPT ![draft.version + 1] = wording[draft.version]]
    /\ page' \in {page, [page EXCEPT ![p] = NoPage]}
    /\ UNCHANGED <<workflow, openRequest, published, write>>

AttestDraft(p) ==
    ChangesDraft(p) /\ IsFree(p, "draft", "save") /\ draft' = [draft EXCEPT !.version = @ + 1]

(* The draft stays, as a source nobody lists: an update, which waits for    *)
(* nobody who locks the row FOR KEY SHARE.                                 *)
DeleteDraft(p) ==
    /\ ChangesDraft(p) /\ IsFree(p, "draft", "submit")
    /\ draft' = [version |-> draft.version + 1, deleted |-> TRUE]

-----------------------------------------------------------------------------
(* Review and publication.                                                *)

SubmitDraft(p) ==
    /\ Writes(p, "submit")
    /\ openRequest = {} /\ workflow.version < LastFlow
    /\ openRequest' = {[id |-> workflow.version + 1, version |-> workflow.current]}
    /\ workflow' = [workflow EXCEPT !.state = "in_review", !.version = @ + 1, !.approved = 0]
    /\ Answered(p)
    /\ UNCHANGED <<draft, wording, published>>

DecideRequest(p) ==
    /\ Writes(p, "decide") /\ workflow.version < LastFlow
    /\ \/ workflow' = [workflow EXCEPT !.state = "approved", !.version = @ + 1, !.approved = workflow.current]
       \/ workflow' = [workflow EXCEPT !.state = "changes_requested", !.version = @ + 1]
    /\ openRequest' = {}
    /\ Answered(p)
    /\ UNCHANGED <<draft, wording, published>>

(* requireExactDraftApproval.                                              *)
Approved == workflow.state = "approved" /\ wording[workflow.current] = wording[workflow.approved]

\* A defect PublishedAsSeen excludes: what is approved now is published,
\* whichever version was on the page.
MayPublishWhatIsApproved(p) == Approved

(* `draftVersion` of the request names what was on the page.               *)
MayPublish(p) == Approved /\ draft.version = page[p].version

(* The operation of a revision, once: the second click gets the first one. *)
Publishes(p, v) ==
    published' = [published EXCEPT ![v] =
        IF @ # "no" THEN @
        ELSE IF wording[v] = wording[page[p].version] /\ ~draft.deleted THEN "asSeen" ELSE "unseen"]

PublishDraft(p) ==
    /\ Writes(p, "publish") /\ page[p].medium = "web"
    /\ MayPublish(p)
    /\ Publishes(p, workflow.approved)
    /\ Answered(p)
    /\ UNCHANGED <<draft, wording, workflow, openRequest>>

(* The owner's click approves the very revision of the preview, through a  *)
(* request that is open for it or a new one.                               *)
PublishFromBot(p) ==
    /\ Writes(p, "publish") /\ page[p].medium = "bot"
    /\ page[p].version = draft.version /\ workflow.current = draft.version /\ ~draft.deleted
    /\ \A r \in openRequest : r.version = workflow.current
    /\ IF workflow.state = "approved" /\ workflow.approved = workflow.current
       THEN UNCHANGED <<workflow, openRequest>>
       ELSE /\ workflow.version < LastFlow
            /\ workflow' = [workflow EXCEPT !.state = "approved", !.version = @ + 1,
                                            !.approved = workflow.current]
            /\ openRequest' = {}
    /\ Publishes(p, workflow.current)
    /\ Answered(p)
    /\ UNCHANGED <<draft, wording>>

EditorStep(p) ==
    \/ OpenDraft(p) \/ OpenList(p) \/ StartWrite(p) \/ LockRow(p) \/ RollBack(p)
    \/ SaveDraft(p) \/ SaveFromBot(p) \/ AttestDraft(p) \/ DeleteDraft(p)
    \/ SubmitDraft(p) \/ DecideRequest(p) \/ PublishDraft(p) \/ PublishFromBot(p)

EditorialNext == \E p \in Editor : EditorStep(p)

EditorialSpec == EditorialInit /\ [][EditorialNext]_editorialVars

-----------------------------------------------------------------------------
(* What is in review or approved is the current text, however saves,       *)
(* submissions, decisions and the bot interleave: one request is open, for *)
(* the current revision, exactly while the draft is in review, so that     *)
(* somebody can decide it; and the approved text is the current one.       *)
ReviewIsOfCurrentText ==
    /\ workflow.state = "in_review" => \E r \in openRequest : r.version = workflow.current
    /\ openRequest # {} => workflow.state = "in_review"
    /\ workflow.state = "approved" <=> workflow.approved # 0
    /\ workflow.state = "approved" => wording[workflow.approved] = wording[workflow.current]

(* A click publishes the text its page showed, and of no deleted draft,    *)
(* whatever was saved and approved after the page was read.                *)
PublishedAsSeen == \A v \in DraftVersion : published[v] # "unseen"

(* Each transaction takes effect as if it were alone and at once, on the   *)
(* text its author saw: no save is lost, and nobody submits, decides or    *)
(* publishes a text that was replaced meanwhile, whatever locks the others *)
(* hold or wait for (EditorialPromise, with this reading of the rows).     *)
Sight(p) ==
    CASE page[p].medium = "none" -> [medium |-> "none"]
      [] page[p].medium = "list" -> [medium |-> "list", words |-> wording[page[p].version]]
      [] OTHER -> [medium |-> page[p].medium, version |-> page[p].version,
                   words |-> wording[page[p].version]]

Promise == INSTANCE EditorialPromise
    WITH Person   <- Editor,
         draft    <- [version |-> draft.version, words |-> wording[draft.version],
                      deleted |-> draft.deleted],
         review   <- workflow.state,
         seen     <- [p \in Editor |-> Sight(p)],
         released <- {wording[v] : v \in {u \in DraftVersion : published[u] # "no"}}

ActsOnWhatWasSeen == Promise!Spec

(* "All editorial writers take locks in workflow -> request order. Keeping *)
(* one order prevents an edit that invalidates an approval from            *)
(* deadlocking a reviewer" (editorial-approval.ts:981).                     *)
EditNeverDeadlocksReviewer ==
    \A p, q \in Editor : write[p].kind = "save" /\ write[q].kind = "decide"
                            => ~(WaitsFor(p, q) /\ WaitsFor(q, p))
=============================================================================
