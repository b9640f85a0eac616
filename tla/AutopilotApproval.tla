------------------------ MODULE AutopilotApproval ------------------------
(* The confirmation of one autopilot plan: people preview it and confirm  *)
(* what they saw, in the web or in the bot; the one whose claim wins      *)
(* turns the items into scheduled posts one transaction at a time, then   *)
(* closes the plan; whoever finds a plan without a heartbeat for 300 s    *)
(* takes it back.                                                         *)
(*                                                                        *)
(* A post, its row of `autopilot_schedule_outbox` and the item's postId   *)
(* commit together.  The id of the operation fences a claim that was lost. *)
(*                                                                        *)
(* Limits of the model:                                                   *)
(*  - One plan, confirmed whole (no `selectedIndexes`), in one channel    *)
(*    that stays active; everybody keeps the right to publish.            *)
(*  - A revision only matters as "unchanged since my preview".            *)
(*  - A text is one of two versions, an edit goes to the other; quality,  *)
(*    drafts and monthly campaigns are left out.                          *)
(*  - Telling the queue, after the commit and again by the reconciler, is  *)
(*    left to PublicationQueue.tla, which has the same hand-over.         *)
(*  - A scheduled post is not moved or rewritten (the routes that do it    *)
(*    change the post, the item and the row in one transaction).          *)
EXTENDS Naturals, FiniteSets, FiniteSetsExt

CONSTANTS
    PlanItem,      \* the indexes of the plan's items
    Approver,      \* the confirmations of the plan, each with its key
    NoApprover

ASSUME ApprovalAssumption == PlanItem \subseteq Nat /\ NoApprover \notin Approver

VARIABLES
    plan,        \* `autopilot_plan` but for its items
    item,        \* `autopilot_plan.items`
    past,        \* the items whose hour has come, while that matters
    approval,    \* `autopilot_approval_operations.status`, by confirmation
    planPost,    \* `posts` by idempotency key, which names the item
    planRow,     \* `autopilot_schedule_outbox`, by item: the operation of the row
    approver,    \* the local state of the confirmations
    unanswered   \* items whose commit was made and reported as an error

approvalVars == <<plan, item, past, approval, planPost, planRow, approver, unanswered>>

Version == {"one", "two"}
Item == [status : {"pending", "expired", "rejected", "approved"}, text : Version, post : BOOLEAN]

NoPost == [status |-> "none", asSeen |-> TRUE]

ApprovalTypeOK ==
    /\ plan \in [status : {"pending", "approving", "approved"},
                 op : Approver \cup {NoApprover}, fresh : BOOLEAN]
    /\ item \in [PlanItem -> Item]
    /\ past \subseteq PlanItem
    /\ approval \in [Approver -> {"none", "processing", "completed", "partial", "failed"}]
    /\ planPost \in [PlanItem -> [status : {"none", "scheduled", "published"}, asSeen : BOOLEAN]]
    /\ planRow \in [PlanItem -> Approver \cup {NoApprover}]   \* none: no row
    /\ unanswered \subseteq PlanItem
    /\ approver \in [Approver ->
          [at : {"idle", "seen", "inserted", "refusing", "working", "erring", "aborting", "done"},
           kind : {"web", "bot"},
           current : BOOLEAN,               \* the plan has the revision of the preview
           seen : [PlanItem -> Version],    \* the texts of the preview
           copy : [PlanItem -> Item],       \* the items it works on, and closes the plan with
           made : SUBSET PlanItem]]         \* `scheduled`

Unused == [at |-> "idle", kind |-> "web", current |-> FALSE, seen |-> [i \in PlanItem |-> "one"],
           copy |-> [i \in PlanItem |-> [status |-> "pending", text |-> "one", post |-> FALSE]],
           made |-> {}]

(* A plan just built.                                                     *)
ApprovalInit ==
    /\ plan = [status |-> "pending", op |-> NoApprover, fresh |-> FALSE]
    /\ item = Unused.copy
    /\ past = {}
    /\ approval = [a \in Approver |-> "none"]
    /\ planPost = [i \in PlanItem |-> NoPost]
    /\ planRow = [i \in PlanItem |-> NoApprover]
    /\ unanswered = {}
    /\ approver = [a \in Approver |-> Unused]

-----------------------------------------------------------------------------
Open(items) == {i \in PlanItem : items[i].status \in {"pending", "expired"}}
Resolved(items) == IF Open(items) = {} THEN "approved" ELSE "pending"   \* resolvedAutopilotPlanStatus

(* evaluateAutopilotItem.                                                 *)
Actionable(items) == {i \in PlanItem : items[i].status = "pending" /\ ~items[i].post}
Annotated(items) ==
    [i \in PlanItem |-> IF i \in Actionable(items) \cap past
                        THEN [items[i] EXCEPT !.status = "expired"] ELSE items[i]]

(* `complete` of buildAutopilotApprovalPreview: nothing of the plan is      *)
(* left out of it.                                                        *)
Complete(items) ==
    \A i \in PlanItem : \/ i \in Actionable(items) \ past
                        \/ items[i].status = "approved" /\ items[i].post

AsOf(a, at) == [approver EXCEPT ![a].at = at]
Ended(a) == [approver EXCEPT ![a] = [Unused EXCEPT !.at = "done"]]
Refusing(a) == [approver EXCEPT ![a] = [Unused EXCEPT !.at = "refusing"]]
Aborting(a) == [approver EXCEPT ![a] = [Unused EXCEPT !.at = "aborting", !.kind = approver[a].kind,
                                                      !.made = approver[a].made]]
ApproverAt(a, at) == approver[a].at = at

(* `revision = revision + 1`: every preview of the plan is stale.          *)
Revised(as) == [b \in Approver |-> [as[b] EXCEPT !.current = FALSE]]

(* The condition of every write of a confirmation after its claim.         *)
Holds(a) == plan.status = "approving" /\ plan.op = a /\ approval[a] = "processing"

Left(status) == [status |-> status, op |-> NoApprover, fresh |-> FALSE]

RowsOf(a) == {i \in PlanItem : planRow[i] = a}
CutShort(scheduled) == IF scheduled # {} THEN "partial" ELSE "failed"

-----------------------------------------------------------------------------
(* From the preview to the claim.                                          *)

Preview(a) ==
    /\ ApproverAt(a, "idle") /\ plan.status = "pending"
    /\ \E kind \in {"web", "bot"} :
          /\ kind = "bot" => Actionable(item) \ past # {}
          /\ approver' = [approver EXCEPT ![a] =
                [@ EXCEPT !.at = "seen", !.kind = kind, !.current = TRUE,
                          !.seen = [i \in PlanItem |-> item[i].text]]]
    /\ UNCHANGED <<plan, item, past, approval, planPost, planRow, unanswered>>

(* The checks before the operation is recorded; the plan may change        *)
(* between them and the claim.                                            *)
Confirm(a) ==
    /\ ApproverAt(a, "seen")
    /\ IF plan.status = "pending" /\ approver[a].current /\ (approver[a].kind = "web" => Complete(item))
       THEN /\ approval' = [approval EXCEPT ![a] = "processing"]
            /\ approver' = AsOf(a, "inserted")
       ELSE UNCHANGED approval /\ approver' = Ended(a)
    /\ UNCHANGED <<plan, item, past, planPost, planRow, unanswered>>

\* A defect ScheduledAsSeen excludes: the claim does not compare the revision.
MayClaimAnyRevision(a) == plan.status = "pending"

(* claimAutopilotPlan.                                                     *)
MayClaim(a) == plan.status = "pending" /\ approver[a].current

(* The claim, its answer, which may be lost, and what follows it: the web  *)
(* takes nothing but a complete plan, the bot what is eligible.            *)
ClaimPlan(a) ==
    /\ ApproverAt(a, "inserted") /\ MayClaim(a)
    /\ plan' = [status |-> "approving", op |-> a, fresh |-> TRUE]
    /\ \/ approver' = Revised(IF approver[a].kind = "web" /\ ~Complete(item) THEN Aborting(a)
                               ELSE [AsOf(a, "working") EXCEPT ![a].copy = Annotated(item)])
       \/ approver' = Revised(IF approver[a].kind = "web" THEN Refusing(a) ELSE Ended(a))
    /\ UNCHANGED <<item, past, approval, planPost, planRow, unanswered>>

ClaimRefused(a) ==
    /\ ApproverAt(a, "inserted") /\ ~MayClaim(a)
    /\ approver' = Refusing(a)
    /\ UNCHANGED <<plan, item, past, approval, planPost, planRow, unanswered>>

(* finishOperation, of a confirmation that does not know of a claim.       *)
FinishUnclaimed(a) ==
    /\ ApproverAt(a, "refusing")
    /\ approval' \in {approval, [approval EXCEPT ![a] = "failed"]}
    /\ approver' = Ended(a)
    /\ UNCHANGED <<plan, item, past, planPost, planRow, unanswered>>

-----------------------------------------------------------------------------
(* The posts.                                                              *)

ToSchedule(a) == Actionable(approver[a].copy)
NextItem(a) == Min(ToSchedule(a))

(* The transaction of scheduleAutopilotItem: a row that is there already   *)
(* is taken over, with its post.  The web compares the text it read at    *)
(* its claim.                                                              *)
Scheduled(a, i) ==
    /\ IF planRow[i] # NoApprover THEN UNCHANGED <<planPost, planRow>>
       ELSE /\ planPost' = [planPost EXCEPT ![i] =
                  [status |-> "scheduled", asSeen |-> item[i].text = approver[a].seen[i]]]
            /\ planRow' = [planRow EXCEPT ![i] = a]
    /\ item' = [item EXCEPT ![i].post = TRUE, ![i].status = "approved"]
    /\ plan' = [plan EXCEPT !.fresh = TRUE]

Acknowledged(a, i) ==
    [approver EXCEPT ![a] = [@ EXCEPT !.copy[i].post = TRUE, !.copy[i].status = "approved",
                                      !.made = approver[a].made \cup {i}]]

\* A defect PlanMatchesCalendar excludes: any claim of the plan will do.
MayScheduleUnderAnyClaim(a, i) == plan.status = "approving"

MaySchedule(a, i) ==
    /\ Holds(a)
    /\ approver[a].kind = "web" => item[i].text = approver[a].copy[i].text

ScheduleItem(a) ==
    /\ ApproverAt(a, "working") /\ ToSchedule(a) # {}
    /\ LET i == NextItem(a) IN
       IF MaySchedule(a, i)
       THEN /\ Scheduled(a, i)
            /\ \/ approver' = Revised(Acknowledged(a, i)) /\ UNCHANGED unanswered
               \/ approver' = Revised(AsOf(a, "erring")) /\ unanswered' = unanswered \cup {i}
       ELSE /\ approver' = AsOf(a, "erring")
            /\ UNCHANGED <<plan, item, planPost, planRow, unanswered>>
    /\ UNCHANGED <<past, approval>>

(* The database, or a check of the item, stops the transaction.            *)
ScheduleFails(a) ==
    /\ ApproverAt(a, "working") /\ ToSchedule(a) # {}
    /\ approver' = AsOf(a, "erring")
    /\ UNCHANGED <<plan, item, past, approval, planPost, planRow, unanswered>>

-----------------------------------------------------------------------------
(* The end of a confirmation.                                              *)

\* A defect PlanMatchesCalendar excludes: the close is not bound to the claim.
FinalizeUnfenced(a, planStatus, status) ==
    /\ plan.status = "approving"
    /\ item' = approver[a].copy
    /\ plan' = Left(planStatus)
    /\ approval' = [approval EXCEPT ![a] = status]
    /\ approver' \in {Revised(Ended(a)), Revised(Aborting(a))}

(* finalizeAutopilotApproval: the plan gets the copy.                      *)
Finalize(a, planStatus, status) ==
    /\ Holds(a)
    /\ item' = approver[a].copy
    /\ plan' = Left(planStatus)
    /\ approval' = [approval EXCEPT ![a] = status]
    /\ approver' \in {Revised(Ended(a)), Revised(Aborting(a))}   \* the answer may be lost

FinishPlan(a) ==
    /\ ApproverAt(a, "working") /\ ToSchedule(a) = {}
    /\ Finalize(a, Resolved(approver[a].copy), "completed")
    /\ UNCHANGED <<past, planPost, planRow, unanswered>>

(* The web closes what failed in the middle the same way, but pending;     *)
(* the bot goes to the abort.                                              *)
FinishFailed(a) ==
    /\ ApproverAt(a, "erring") /\ approver[a].kind = "web"
    /\ Finalize(a, "pending", CutShort(approver[a].made))
    /\ UNCHANGED <<past, planPost, planRow, unanswered>>

(* The fence, or the database, stops the close.                            *)
GiveUp(a) ==
    /\ \/ ApproverAt(a, "erring")
       \/ ApproverAt(a, "working") /\ ToSchedule(a) = {}
    /\ approver' = Aborting(a)
    /\ UNCHANGED <<plan, item, past, approval, planPost, planRow, unanswered>>

(* What the abort reports: the fallback of the web counts nothing itself.  *)
Reported(a) == RowsOf(a) \cup (IF approver[a].kind = "bot" THEN approver[a].made ELSE {})

AbortApproval(a) ==
    /\ ApproverAt(a, "aborting")
    /\ \/ /\ Holds(a)
          /\ plan' = Left(Resolved(item))
          /\ approval' = [approval EXCEPT ![a] = CutShort(Reported(a))]
          /\ approver' = Revised(Ended(a))
       \/ UNCHANGED <<plan, approval>> /\ approver' = Ended(a)
    /\ UNCHANGED <<item, past, planPost, planRow, unanswered>>

ApproverDies(a) ==
    /\ approver[a].at \notin {"idle", "done"}
    /\ approver' = Ended(a)
    /\ UNCHANGED <<plan, item, past, approval, planPost, planRow, unanswered>>

-----------------------------------------------------------------------------
(* Those who come later.                                                   *)

LeaseAges ==
    /\ plan.status = "approving" /\ plan.fresh
    /\ plan' = [plan EXCEPT !.fresh = FALSE]
    /\ UNCHANGED <<item, past, approval, planPost, planRow, approver, unanswered>>

(* reclaimStaleAutopilotApprovals.                                         *)
Reclaim ==
    /\ plan.status = "approving" /\ ~plan.fresh
    /\ plan' = Left(Resolved(item))
    /\ approval' = [approval EXCEPT ![plan.op] =
                       IF @ = "processing" THEN CutShort(RowsOf(plan.op)) ELSE @]
    /\ approver' = Revised(approver)
    /\ UNCHANGED <<item, past, planPost, planRow, unanswered>>

ItemsChange(i, status, text) ==
    /\ plan.status \in {"pending", "approved"}
    /\ item' = [item EXCEPT ![i].status = status, ![i].text = text]
    /\ approver' = Revised(approver)
    /\ UNCHANGED <<plan, approval, unanswered>>

EditItem(i) ==
    /\ item[i].status = "pending" /\ ~item[i].post
    /\ \E text \in Version \ {item[i].text} : ItemsChange(i, "pending", text)
    /\ UNCHANGED <<past, planPost, planRow>>

MoveItem(i) ==
    /\ item[i].status \in {"pending", "expired"} /\ ~item[i].post
    /\ ItemsChange(i, "pending", item[i].text)
    /\ past' = past \ {i}
    /\ UNCHANGED <<planPost, planRow>>

(* "reject" takes a scheduled post with it, and its row by cascade.        *)
RejectItem(i) ==
    /\ item[i].status # "rejected"
    /\ item[i].post => planPost[i].status = "scheduled"
    /\ ItemsChange(i, "rejected", item[i].text)
    /\ IF item[i].post
       THEN /\ planPost' = [planPost EXCEPT ![i] = NoPost]
            /\ planRow' = [planRow EXCEPT ![i] = NoApprover]
       ELSE UNCHANGED <<planPost, planRow>>
    /\ past' = past \ {i}

HourComes(i) ==
    /\ i \notin past
    /\ item[i].status \in {"pending", "expired"} \/ planPost[i].status = "scheduled"
    /\ past' = past \cup {i}
    /\ UNCHANGED <<plan, item, approval, planPost, planRow, approver, unanswered>>

(* The handler of "publish" (Publication.tla).                             *)
PublishPost(i) ==
    /\ i \in past /\ planPost[i].status = "scheduled"
    /\ planPost' = [planPost EXCEPT ![i].status = "published"]
    /\ past' = past \ {i}
    /\ UNCHANGED <<plan, item, approval, planRow, approver, unanswered>>

ApproverStep(a) ==
    \/ Preview(a) \/ Confirm(a) \/ ClaimPlan(a) \/ ClaimRefused(a) \/ FinishUnclaimed(a)
    \/ ScheduleItem(a) \/ ScheduleFails(a)
    \/ FinishPlan(a) \/ FinishFailed(a) \/ GiveUp(a) \/ AbortApproval(a) \/ ApproverDies(a)

ItemStep(i) ==
    \/ EditItem(i) \/ MoveItem(i) \/ RejectItem(i) \/ HourComes(i)
    \/ PublishPost(i)

ApprovalNext ==
    \/ \E a \in Approver : ApproverStep(a)
    \/ \E i \in PlanItem : ItemStep(i)
    \/ LeaseAges \/ Reclaim

ApprovalSpec == ApprovalInit /\ [][ApprovalNext]_approvalVars

-----------------------------------------------------------------------------
(* No post of a plan has another text than the one its confirmation        *)
(* previewed, whatever is edited, claimed or taken back in between.        *)
ScheduledAsSeen == \A i \in PlanItem : planPost[i].asSeen

(* The plan and the calendar name the same posts: nothing the plan shows   *)
(* as open is on its way to the channel, and nothing it shows as approved  *)
(* is missing; a confirmation that failed has put nothing there.  A commit *)
(* reported as an error is the exception: the web closes the plan with a   *)
(* copy that does not know of it, and counts the answers it got.           *)
PlanMatchesCalendar ==
    /\ \A i \in PlanItem \ unanswered : item[i].status = "approved" <=> planRow[i] # NoApprover
    /\ \A a \in Approver : approval[a] = "failed" => RowsOf(a) \subseteq unanswered
=============================================================================
