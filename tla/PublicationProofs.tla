------------------------ MODULE PublicationProofs ------------------------
(* Proofs, for every number of posts and handlers and without the bounds  *)
(* of the model-checked instances, of the safety properties of            *)
(* Publication.  The argument: IInv is inductive and implies them.        *)
(*                                                                        *)
(* Most steps change rows and make handlers leave, and touch neither the  *)
(* network nor a handler that is calling it: lemma RowStep treats them    *)
(* all, and what is left to show of such a step is that each row moved in *)
(* a Harmless way.                                                        *)
EXTENDS PublicationInvariant, TLAPS

(* Nothing is published for p, on its way, or about to be sent.           *)
Unsent(p) ==
    accepted[p] = 0 /\ orphans[p] = 0 /\ \A w \in Worker : ~Calls(w, p)

(* A step that does not authorise a call for p, and reopens p only when   *)
(* nothing was sent.                                                      *)
Harmless(p) ==
    /\ post'[p].lease = NoLease <=> post'[p].status # "publishing"
    /\ Quiet(p)' => Quiet(p) \/ Unsent(p)'
    /\ post'[p].status = "publishing" =>
          /\ post[p].status = "publishing"
          /\ post'[p].lease = post[p].lease
          /\ post'[p].started = post[p].started
    /\ post'[p].status = "published" => accepted[p] = 1

-----------------------------------------------------------------------------
(* Types.                                                                 *)

LEMMA InitTyped == Init => TypeOK /\ SlotOK
BY DEF Init, TypeOK, SlotOK, PostRow, Status, Pending, Stopped, Settled,
       NewPost, IdleSlot, Slot, Request

LEMMA Counters ==
    ASSUME NEW row \in PostRow
    PROVE  row.rev \in Nat /\ row.rev + 1 \in Nat /\ row.attempts + 1 \in Nat
BY DEF PostRow

(* A row put in the place of another, and a handler that leaves or goes   *)
(* on, keep their types.                                                  *)
LEMMA PutTyped ==
    ASSUME post \in [Post -> PostRow], NEW p, NEW row \in PostRow, Put(p, row)
    PROVE  post' \in [Post -> PostRow]
BY DEF Put

LEMMA LeaveTyped ==
    ASSUME slot \in [Worker -> Slot], SlotOK, NEW w \in Worker, Leave(w)
    PROVE  slot' \in [Worker -> Slot] /\ SlotOK'
BY DEF Leave, IdleSlot, Slot, SlotOK

LEMMA GotoTyped ==
    ASSUME slot \in [Worker -> Slot], SlotOK, NEW w \in Worker, slot[w].pc # "idle",
           NEW pc \in {"identity", "calling", "retrying"}, Goto(w, pc)
    PROVE  slot' \in [Worker -> Slot] /\ SlotOK'
BY DEF Goto, Slot, SlotOK

LEMMA RecordTyped ==
    ASSUME post \in [Post -> PostRow], NEW w \in Worker, NEW row \in PostRow, Record(w, row)
    PROVE  post' \in [Post -> PostRow]
BY PutTyped DEF Record

(* The actions of a handler in three groups: those up to the call, the    *)
(* answers of the network, and the writes of a result.                    *)
LEMMA CallTyped ==
    ASSUME TypeOK, SlotOK, NEW w \in Worker,
           \/ \E p \in Post, r \in 1..(MaxRevision + 1) : Claim(w, p, r)
           \/ BeginProviderCall(w)
           \/ SaveVkIdentity(w)
    PROVE  TypeOK' /\ SlotOK'
<1>1. ASSUME NEW p \in Post, NEW r \in 1..(MaxRevision + 1), Claim(w, p, r)
      PROVE  TypeOK' /\ SlotOK'
  <2>1. post[p] \in PostRow
    BY DEF TypeOK
  <2>2. [post[p] EXCEPT !.status = "publishing", !.lease = w,
                        !.started = FALSE, !.stuck = FALSE] \in PostRow
    BY <2>1 DEF PostRow, Status
  <2>3. post' \in [Post -> PostRow]
    BY <1>1, <2>2, PutTyped DEF Claim, TypeOK
  <2>4. slot' \in [Worker -> Slot] /\ SlotOK'
    BY <1>1, BoundAssumption, <2>1 DEF Claim, Slot, SlotOK, PostRow, TypeOK
  <2> QED BY <1>1, <2>3, <2>4 DEF Claim, TypeOK
<1>2. ASSUME BeginProviderCall(w) PROVE TypeOK' /\ SlotOK'
  <2> DEFINE row == post[slot[w].post]
  <2>1. row \in PostRow /\ slot[w].post \in Post /\ slot[w].pc # "idle"
    BY <1>2 DEF BeginProviderCall, TypeOK, SlotOK
  <2>2. [row EXCEPT !.started = TRUE] \in PostRow
    BY <2>1, Counters DEF PostRow, Status
  <2>3. post' \in [Post -> PostRow]
    BY <1>2, <2>2, PutTyped DEF BeginProviderCall, TypeOK
  <2>4. slot' \in [Worker -> Slot] /\ SlotOK'
    BY <1>2, <2>1, LeaveTyped, GotoTyped DEF BeginProviderCall, TypeOK
  <2> QED BY <1>2, <2>3, <2>4 DEF BeginProviderCall, TypeOK
<1>3. ASSUME SaveVkIdentity(w) PROVE TypeOK' /\ SlotOK'
  <2> DEFINE row == post[slot[w].post]
  <2>1. row \in PostRow /\ slot[w].post \in Post /\ slot[w].pc # "idle"
    BY <1>3 DEF SaveVkIdentity, TypeOK, SlotOK
  <2>2. [row EXCEPT !.recon = "none"] \in PostRow
    BY <2>1, Counters DEF PostRow, Status
  <2>3. post' \in [Post -> PostRow]
    BY <1>3, <2>2, PutTyped DEF SaveVkIdentity, TypeOK
  <2>4. slot' \in [Worker -> Slot] /\ SlotOK'
    BY <1>3, <2>1, LeaveTyped, GotoTyped DEF SaveVkIdentity, TypeOK
  <2> QED BY <1>3, <2>3, <2>4 DEF SaveVkIdentity, TypeOK
<1> QED BY <1>1, <1>2, <1>3

LEMMA AnswerTyped ==
    ASSUME TypeOK, SlotOK, NEW w \in Worker,
           NetworkAccepts(w) \/ NetworkRefuses(w) \/ ReplyIsLost(w) \/ Crash(w)
    PROVE  TypeOK' /\ SlotOK'
<1>1. slot' \in [Worker -> Slot] /\ SlotOK'
  BY LeaveTyped DEF NetworkAccepts, NetworkRefuses, ReplyIsLost, Crash, Answered,
                    Slot, SlotOK, TypeOK
<1>2. accepted' \in [Post -> Nat] /\ orphans' \in [Post -> Nat]
  BY DEF NetworkAccepts, NetworkRefuses, ReplyIsLost, Crash, TypeOK
<1> QED BY <1>1, <1>2 DEF NetworkAccepts, NetworkRefuses, ReplyIsLost, Crash, TypeOK

LEMMA ResultTyped ==
    ASSUME TypeOK, SlotOK, NEW w \in Worker,
           \/ BlockUnsupported(w) \/ BlockDisconnected(w)
           \/ RecordAuthFailure(w) \/ RecordUnknown(w) \/ RecordPublished(w)
           \/ RecordRetry(w) \/ RecordGiveUp(w)
    PROVE  TypeOK' /\ SlotOK'
<1>1. ASSUME BlockUnsupported(w) PROVE TypeOK' /\ SlotOK'
  <2> DEFINE row == post[slot[w].post]
  <2>1. row \in PostRow /\ slot[w].post \in Post /\ slot[w].pc # "idle"
    BY <1>1 DEF BlockUnsupported, TypeOK, SlotOK
  <2>2. [row EXCEPT !.status = "failed", !.attempts = row.attempts + 1,
                   !.lease = NoLease, !.retryAt = "none", !.recon = "none"] \in PostRow
    BY <2>1, Counters DEF PostRow, Status, Stopped
  <2>3. post' \in [Post -> PostRow]
    BY <1>1, <2>2, RecordTyped DEF BlockUnsupported, TypeOK
  <2>4. slot' \in [Worker -> Slot] /\ SlotOK'
    BY <1>1, <2>1, LeaveTyped DEF BlockUnsupported, TypeOK
  <2> QED BY <1>1, <2>3, <2>4 DEF BlockUnsupported, TypeOK
<1>2. ASSUME BlockDisconnected(w) PROVE TypeOK' /\ SlotOK'
  <2> DEFINE row == post[slot[w].post]
  <2>1. row \in PostRow /\ slot[w].post \in Post /\ slot[w].pc # "idle"
    BY <1>2 DEF BlockDisconnected, TypeOK, SlotOK
  <2>2. [row EXCEPT !.status = "failed", !.lease = NoLease] \in PostRow
    BY <2>1, Counters DEF PostRow, Status, Stopped
  <2>3. post' \in [Post -> PostRow]
    BY <1>2, <2>2, RecordTyped DEF BlockDisconnected, TypeOK
  <2>4. slot' \in [Worker -> Slot] /\ SlotOK'
    BY <1>2, <2>1, LeaveTyped DEF BlockDisconnected, TypeOK
  <2> QED BY <1>2, <2>3, <2>4 DEF BlockDisconnected, TypeOK
<1>3. ASSUME RecordAuthFailure(w) PROVE TypeOK' /\ SlotOK'
  <2> DEFINE row == post[slot[w].post]
  <2>1. row \in PostRow /\ slot[w].post \in Post /\ slot[w].pc # "idle"
    BY <1>3 DEF RecordAuthFailure, TypeOK, SlotOK
  <2>2. [row EXCEPT !.status = "failed", !.attempts = row.attempts + 1,
                   !.lease = NoLease, !.retryAt = "none"] \in PostRow
    BY <2>1, Counters DEF PostRow, Status, Stopped
  <2>3. post' \in [Post -> PostRow]
    BY <1>3, <2>2, RecordTyped DEF RecordAuthFailure, TypeOK
  <2>4. slot' \in [Worker -> Slot] /\ SlotOK'
    BY <1>3, <2>1, LeaveTyped DEF RecordAuthFailure, TypeOK
  <2> QED BY <1>3, <2>3, <2>4 DEF RecordAuthFailure, TypeOK
<1>4. ASSUME RecordUnknown(w) PROVE TypeOK' /\ SlotOK'
  <2> DEFINE row == post[slot[w].post]
  <2>1. row \in PostRow /\ slot[w].post \in Post /\ slot[w].pc # "idle"
    BY <1>4 DEF RecordUnknown, TypeOK, SlotOK
  <2>2. [row EXCEPT !.status = "published_unverified",
                   !.attempts = row.attempts + 1, !.recon = "pending",
                   !.lease = NoLease, !.retryAt = "none"] \in PostRow
    BY <2>1, Counters DEF PostRow, Status, Settled
  <2>3. post' \in [Post -> PostRow]
    BY <1>4, <2>2, RecordTyped DEF RecordUnknown, TypeOK
  <2>4. slot' \in [Worker -> Slot] /\ SlotOK'
    BY <1>4, <2>1, LeaveTyped DEF RecordUnknown, TypeOK
  <2> QED BY <1>4, <2>3, <2>4 DEF RecordUnknown, TypeOK
<1>5. ASSUME RecordPublished(w) PROVE TypeOK' /\ SlotOK'
  <2> DEFINE row == post[slot[w].post]
  <2>1. row \in PostRow /\ slot[w].post \in Post /\ slot[w].pc # "idle"
    BY <1>5 DEF RecordPublished, TypeOK, SlotOK
  <2>2. [row EXCEPT !.status = "published", !.attempts = row.attempts + 1,
                   !.recon = "confirmed", !.lease = NoLease, !.retryAt = "none"] \in PostRow
    BY <2>1, Counters DEF PostRow, Status, Settled
  <2>3. post' \in [Post -> PostRow]
    BY <1>5, <2>2, RecordTyped DEF RecordPublished, TypeOK
  <2>4. slot' \in [Worker -> Slot] /\ SlotOK'
    BY <1>5, <2>1, LeaveTyped DEF RecordPublished, TypeOK
  <2> QED BY <1>5, <2>3, <2>4 DEF RecordPublished, TypeOK
<1>6. ASSUME RecordRetry(w) PROVE TypeOK' /\ SlotOK'
  <2> DEFINE row == post[slot[w].post]
  <2>1. row \in PostRow /\ slot[w].post \in Post /\ slot[w].pc # "idle"
    BY <1>6 DEF RecordRetry, TypeOK, SlotOK
  <2>2. ASSUME NEW n \in Nat
        PROVE  [row EXCEPT !.status = "failed_retry", !.attempts = n,
                        !.lease = NoLease, !.retryAt = "later"] \in PostRow
    BY <2>1 DEF PostRow, Status, Pending
  <2>3. slot[w].attempts + 1 \in Nat
    BY DEF TypeOK, Slot
  <2>4. post' \in [Post -> PostRow]
    BY <1>6, <2>2, <2>3, RecordTyped DEF RecordRetry, TypeOK
  <2>5. slot' \in [Worker -> Slot] /\ SlotOK'
    BY <1>6, <2>1, GotoTyped DEF RecordRetry, TypeOK
  <2> QED BY <1>6, <2>4, <2>5 DEF RecordRetry, TypeOK
<1>7. ASSUME RecordGiveUp(w) PROVE TypeOK' /\ SlotOK'
  <2> DEFINE row == post[slot[w].post]
  <2>1. row \in PostRow /\ slot[w].post \in Post /\ slot[w].pc # "idle"
    BY <1>7 DEF RecordGiveUp, TypeOK, SlotOK
  <2>2. ASSUME NEW n \in Nat
        PROVE  [row EXCEPT !.status = "failed", !.attempts = n,
                        !.lease = NoLease] \in PostRow
    BY <2>1 DEF PostRow, Status, Stopped
  <2>3. slot[w].attempts + 1 \in Nat
    BY DEF TypeOK, Slot
  <2>4. post' \in [Post -> PostRow]
    BY <1>7, <2>2, <2>3, RecordTyped DEF RecordGiveUp, TypeOK
  <2>5. slot' \in [Worker -> Slot] /\ SlotOK'
    BY <1>7, <2>1, LeaveTyped DEF RecordGiveUp, TypeOK
  <2> QED BY <1>7, <2>4, <2>5 DEF RecordGiveUp, TypeOK
<1> QED BY <1>1, <1>2, <1>3, <1>4, <1>5, <1>6, <1>7

LEMMA RetryJobTyped ==
    ASSUME TypeOK, SlotOK, NEW w \in Worker, RetryEnqueued(w) \/ RetryQueueDown(w)
    PROVE  TypeOK' /\ SlotOK'
<1> DEFINE row == post[slot[w].post]
<1>1. /\ row \in PostRow /\ slot[w].post \in Post
      /\ <<slot[w].post, slot[w].rev>> \in Post \X Nat
  BY DEF RetryEnqueued, RetryQueueDown, TypeOK, SlotOK, Slot
<1>2. [row EXCEPT !.status = "failed", !.retryAt = "none"] \in PostRow
  BY <1>1 DEF PostRow, Status, Stopped
<1>3. post' \in [Post -> PostRow]
  BY <1>2, PutTyped DEF RetryEnqueued, RetryQueueDown, TypeOK
<1>4. jobs' \in SUBSET (Post \X Nat)
  BY <1>1 DEF RetryEnqueued, RetryQueueDown, TypeOK
<1>5. slot' \in [Worker -> Slot] /\ SlotOK'
  BY LeaveTyped DEF RetryEnqueued, RetryQueueDown, TypeOK
<1> QED BY <1>3, <1>4, <1>5 DEF RetryEnqueued, RetryQueueDown, TypeOK

LEMMA HandlerTyped ==
    ASSUME TypeOK, SlotOK, NEW w \in Worker, HandlerStep(w)
    PROVE  TypeOK' /\ SlotOK'
BY CallTyped, AnswerTyped, ResultTyped, RetryJobTyped DEF HandlerStep

LEMMA TimerTyped ==
    ASSUME TypeOK, SlotOK, NEW p \in Post, TimerStep(p)
    PROVE  TypeOK' /\ SlotOK'
<1> post[p] \in PostRow
  BY DEF TypeOK
<1>1. ASSUME ReclaimUnsent(p) PROVE post' \in [Post -> PostRow]
  <2>1. [post[p] EXCEPT !.status = "quarantined", !.rev = post[p].rev + 1,
                        !.lease = NoLease, !.stuck = FALSE] \in PostRow
    BY Counters DEF PostRow, Status, Stopped
  <2> QED BY <1>1, <2>1, PutTyped DEF ReclaimUnsent, TypeOK
<1>2. ASSUME ReclaimUnknown(p) PROVE post' \in [Post -> PostRow]
  <2>1. [post[p] EXCEPT !.status = "published_unverified", !.lease = NoLease] \in PostRow
    BY Counters DEF PostRow, Status, Settled
  <2> QED BY <1>2, <2>1, PutTyped DEF ReclaimUnknown, TypeOK
<1>3. ASSUME QuarantineOverdue(p) PROVE post' \in [Post -> PostRow]
  <2>1. [post[p] EXCEPT !.status = "quarantined", !.retryAt = "none"] \in PostRow
    BY Counters DEF PostRow, Status, Stopped
  <2> QED BY <1>3, <2>1, PutTyped DEF QuarantineOverdue, TypeOK
<1>4. ASSUME ReconcileVk(p) PROVE post' \in [Post -> PostRow]
  <2>1. /\ [post[p] EXCEPT !.status = "published", !.recon = "confirmed"] \in PostRow
        /\ [post[p] EXCEPT !.recon = "unresolved"] \in PostRow
    BY DEF PostRow, Status, Settled
  <2> QED BY <1>4, <2>1, PutTyped DEF ReconcileVk, TypeOK
<1>5. ASSUME TimePasses(p) PROVE post' \in [Post -> PostRow]
  <2>1. /\ [post[p] EXCEPT !.due = IF @ = "early" THEN "window" ELSE "overdue"] \in PostRow
        /\ [post[p] EXCEPT !.retryAt = "due"] \in PostRow
        /\ [post[p] EXCEPT !.stuck = TRUE] \in PostRow
    BY DEF PostRow, Status
  <2> QED BY <1>5, <2>1, PutTyped DEF TimePasses, TypeOK
<1>6. CASE Dispatch(p)
  <2>1. post[p].rev \in Nat
    BY Counters
  <2> QED BY <1>6, <2>1 DEF Dispatch, TypeOK, SlotOK
<1>7. CASE OrphanAccepted(p)
  BY <1>7 DEF OrphanAccepted, TypeOK, SlotOK
<1>8. CASE \/ ReclaimUnsent(p) \/ ReclaimUnknown(p) \/ QuarantineOverdue(p)
           \/ ReconcileVk(p) \/ TimePasses(p)
  <2>1. post' \in [Post -> PostRow]
    BY <1>1, <1>2, <1>3, <1>4, <1>5, <1>8
  <2>2. UNCHANGED <<operation, jobs, requests, slot, accepted, orphans>>
    BY <1>8 DEF ReclaimUnsent, ReclaimUnknown, QuarantineOverdue, ReconcileVk, TimePasses
  <2> QED BY <2>1, <2>2 DEF TypeOK, SlotOK
<1> QED BY <1>6, <1>7, <1>8 DEF TimerStep

LEMMA OperationTyped ==
    ASSUME TypeOK, SlotOK, NEW r \in 1..(MaxRevision - 1),
           CancelOperation(r) \/ RescheduleOperation(r)
    PROVE  TypeOK' /\ SlotOK'
<1>1. operation.rev + 1 \in Nat
  BY DEF TypeOK
<1>2. ASSUME NEW p \in Post, NEW n \in Nat
      PROVE  /\ [post[p] EXCEPT !.status = "cancelled", !.rev = n, !.lease = NoLease,
                    !.started = FALSE, !.stuck = FALSE, !.retryAt = "none"] \in PostRow
             /\ [post[p] EXCEPT !.status = "scheduled", !.rev = n, !.attempts = 0,
                    !.lease = NoLease, !.started = FALSE, !.stuck = FALSE,
                    !.due = "early", !.retryAt = "none", !.recon = "none"] \in PostRow
  <2>1. post[p] \in PostRow
    BY DEF TypeOK
  <2>2. [post[p] EXCEPT !.status = "cancelled", !.rev = n, !.lease = NoLease,
             !.started = FALSE, !.stuck = FALSE, !.retryAt = "none"] \in PostRow
    BY <2>1 DEF PostRow, Status, Stopped
  <2>3. [post[p] EXCEPT !.status = "scheduled", !.rev = n, !.attempts = 0,
             !.lease = NoLease, !.started = FALSE, !.stuck = FALSE,
             !.due = "early", !.retryAt = "none", !.recon = "none"] \in PostRow
    BY <2>1 DEF PostRow, Status, Pending
  <2> QED BY <2>2, <2>3
<1>3. CASE CancelOperation(r)
  <2>1. post' \in [Post -> PostRow]
    BY <1>1, <1>2, <1>3 DEF CancelOperation
  <2>2. operation' \in [rev : Nat, cancelled : BOOLEAN]
    BY <1>1, <1>3 DEF CancelOperation
  <2> QED BY <1>3, <2>1, <2>2 DEF CancelOperation, TypeOK, SlotOK
<1>4. CASE RescheduleOperation(r)
  <2>1. post' \in [Post -> PostRow]
    BY <1>1, <1>2, <1>4 DEF RescheduleOperation
  <2>2. operation' \in [rev : Nat, cancelled : BOOLEAN]
    BY <1>1, <1>4 DEF RescheduleOperation
  <2> QED BY <1>4, <2>1, <2>2 DEF RescheduleOperation, TypeOK, SlotOK
<1> QED BY <1>3, <1>4

(* The requests about one post, which write its row and may leave a job   *)
(* to be added.                                                           *)
LEMMA RequestTyped ==
    ASSUME TypeOK, SlotOK, NEW p \in Post,
           \/ \E k \in RetryKey : RetryFromSite(p, k) \/ RetryFromBot(p, k)
           \/ RetryByAdmin(p) \/ RescheduleByAdmin(p) \/ CancelByAdmin(p)
    PROVE  TypeOK' /\ SlotOK'
<1> USE DEF Status, Pending, Stopped
<1>0. /\ post[p] \in PostRow /\ post[p].rev + 1 \in Nat
      /\ UNCHANGED <<operation, jobs, slot, accepted, orphans>>
  BY Counters DEF TypeOK, RetryFromSite, RetryFromBot, RetryByAdmin, RescheduleByAdmin,
                  MoveByAdmin, CancelByAdmin
<1>1. ASSUME NEW k \in RetryKey, RetryFromSite(p, k)
      PROVE  TypeOK' /\ SlotOK'
  <2>1. [post[p] EXCEPT !.status = "scheduled", !.key = k, !.due = "early",
            !.retryAt = "none", !.rev = post[p].rev + 1, !.recon = "none"] \in PostRow
    BY <1>0 DEF PostRow
  <2>2. requests' \in SUBSET Request
    <3>1. [kind |-> "site", post |-> p, rev |-> post[p].rev + 1,
           from |-> post[p].status, key |-> k] \in Request
      BY <1>0, <1>1 DEF RetryFromSite, Request
    <3> QED BY <1>1, <3>1 DEF RetryFromSite, TypeOK
  <2> QED BY <1>0, <1>1, <2>1, <2>2, PutTyped DEF RetryFromSite, TypeOK, SlotOK
<1>2. ASSUME NEW k \in RetryKey, RetryFromBot(p, k)
      PROVE  TypeOK' /\ SlotOK'
  <2>1. [post[p] EXCEPT !.status = "scheduled", !.key = k] \in PostRow
    BY <1>0 DEF PostRow
  <2>2. requests' \in SUBSET Request
    <3>1. [kind |-> "bot", post |-> p, rev |-> 1, from |-> "failed", key |-> k] \in Request
      BY DEF Request
    <3> QED BY <1>2, <3>1 DEF RetryFromBot, TypeOK
  <2> QED BY <1>0, <1>2, <2>1, <2>2, PutTyped DEF RetryFromBot, TypeOK, SlotOK
<1>3. CASE RetryByAdmin(p) \/ RescheduleByAdmin(p)
  <2>1. PICK allowed \in SUBSET {"scheduled", "failed", "quarantined", "failed_retry"},
             due \in {"early", "window"} : MoveByAdmin(p, allowed, due)
    BY <1>3 DEF RetryByAdmin, RescheduleByAdmin
  <2>2. [post[p] EXCEPT !.status = "scheduled", !.due = due,
            !.rev = post[p].rev + 1, !.retryAt = "none"] \in PostRow
    BY <1>0 DEF PostRow
  <2>3. requests' \in SUBSET Request
    BY <1>0, <2>1 DEF MoveByAdmin, Request, TypeOK
  <2> QED BY <1>0, <2>1, <2>2, <2>3, PutTyped DEF MoveByAdmin, TypeOK, SlotOK
<1>4. CASE CancelByAdmin(p)
  <2>1. [post[p] EXCEPT !.status = "cancelled", !.rev = post[p].rev + 1,
                        !.retryAt = "none"] \in PostRow
    BY <1>0 DEF PostRow
  <2> QED BY <1>0, <1>4, <2>1, PutTyped DEF CancelByAdmin, TypeOK, SlotOK
<1> QED BY <1>1, <1>2, <1>3, <1>4

LEMMA RequestEndTyped ==
    ASSUME TypeOK, SlotOK, NEW q \in requests,
           RetryJobAdded(q) \/ RetryJobRefused(q) \/ RequestDies(q)
    PROVE  TypeOK' /\ SlotOK'
<1>1. q \in Request /\ <<q.post, q.rev>> \in Post \X Nat /\ post[q.post] \in PostRow
  BY DEF TypeOK, Request
<1>2. Compensated(q) \in PostRow
  <2>1. ASSUME NEW row \in PostRow
        PROVE  /\ [row EXCEPT !.status = "failed", !.key = NoKey] \in PostRow
               /\ [row EXCEPT !.retryAt = "none", !.status =
                      IF q.from = "failed_retry" THEN "failed" ELSE q.from] \in PostRow
    <3>1. (IF q.from = "failed_retry" THEN "failed" ELSE q.from) \in Status
      BY <1>1 DEF Request, Status, Stopped, Pending
    <3>2. [row EXCEPT !.status = "failed", !.key = NoKey] \in PostRow
      BY DEF PostRow, Status, Stopped
    <3>3. [row EXCEPT !.retryAt = "none", !.status =
              IF q.from = "failed_retry" THEN "failed" ELSE q.from] \in PostRow
      BY <3>1 DEF PostRow
    <3> QED BY <3>2, <3>3
  <2>2. q.kind \in {"site", "admin", "bot"}
    BY <1>1 DEF Request
  <2> QED BY <1>1, <2>1, <2>2 DEF Compensated
<1>3. post' \in [Post -> PostRow]
  BY <1>2, PutTyped DEF RetryJobAdded, RetryJobRefused, RequestDies, TypeOK
<1>4. jobs' \in SUBSET (Post \X Nat)
  BY <1>1 DEF RetryJobAdded, RetryJobRefused, RequestDies, TypeOK
<1> QED BY <1>3, <1>4 DEF RetryJobAdded, RetryJobRefused, RequestDies, TypeOK, SlotOK

LEMMA NextTyped ==
    ASSUME TypeOK, SlotOK, [Next]_vars
    PROVE  TypeOK' /\ SlotOK'
<1>1. CASE UNCHANGED vars
  BY <1>1 DEF vars, TypeOK, SlotOK
<1>2. CASE \E w \in Worker : HandlerStep(w)
  BY <1>2, HandlerTyped
<1>3. CASE \E p \in Post : TimerStep(p)
  BY <1>3, TimerTyped
<1>4. CASE PersonStep
  <2>1. CASE \E r \in 1..(MaxRevision - 1) : CancelOperation(r) \/ RescheduleOperation(r)
    BY <2>1, OperationTyped
  <2>2. CASE \E p \in Post, k \in RetryKey : RetryFromSite(p, k) \/ RetryFromBot(p, k)
    BY <2>2, RequestTyped
  <2>3. CASE \E p \in Post : RetryByAdmin(p) \/ RescheduleByAdmin(p) \/ CancelByAdmin(p)
    BY <2>3, RequestTyped
  <2>4. CASE \E q \in requests : RetryJobAdded(q) \/ RetryJobRefused(q) \/ RequestDies(q)
    BY <2>4, RequestEndTyped
  <2> QED BY <1>4, <2>1, <2>2, <2>3, <2>4 DEF PersonStep
<1> QED BY <1>1, <1>2, <1>3, <1>4 DEF Next

(* Rows, handlers, requests and jobs have their types in every reachable  *)
(* state: in particular no counter of the network ever goes below zero    *)
(* and a handler that is under way is always under way for a real post.   *)
THEOREM TypesHold == Spec => []TypeOK
<1>1. Init => TypeOK /\ SlotOK
  BY InitTyped
<1>2. TypeOK /\ SlotOK /\ [Next]_vars => (TypeOK /\ SlotOK)'
  BY NextTyped
<1> QED BY <1>1, <1>2, PTL DEF Spec

-----------------------------------------------------------------------------
(* Agreement is inductive.                                                *)

LEMMA RowStep ==
    ASSUME IInv, SlotOK', UNCHANGED <<accepted, orphans>>,
           \A w \in Worker : slot'[w] = slot[w] \/ slot'[w].pc \in {"idle", "retrying"},
           \A p \in Post : Harmless(p)
    PROVE  Agreement'
<1> USE DEF IInv, Agreement
<1>0. \A w \in Worker, p \in Post : Calls(w, p)' => Calls(w, p) /\ slot'[w] = slot[w]
  BY DEF Calls
<1>1. LeaseOK'
  BY DEF Harmless, LeaseOK
<1>2. ClaimOK'
  <2> SUFFICES ASSUME NEW w \in Worker, NEW p \in Post, slot'[w].post = p,
                      slot'[w].pc = "claimed", post'[p].lease = w
               PROVE  ~post'[p].started
    BY DEF ClaimOK
  <2>1. slot'[w] = slot[w] /\ post'[p].status = "publishing"
    BY WorkerAssumption DEF Harmless
  <2> QED BY <2>1 DEF Harmless, ClaimOK
<1>3. UnsentOK'
  BY <1>0 DEF UnsentOK, Harmless, Unsent
<1>4. CallerOK'
  BY <1>0 DEF CallerOK, Harmless
<1>5. AnswerOK'
  BY <1>0 DEF AnswerOK
<1>6. CountOK'
  BY DEF CountOK
<1>7. PublishedIsReal'
  BY DEF PublishedIsReal, Harmless
<1> QED BY <1>1, <1>2, <1>3, <1>4, <1>5, <1>6, <1>7

LEMMA Unmoved ==
    ASSUME IInv, NEW p \in Post, post'[p] = post[p]
    PROVE  Harmless(p)
BY DEF IInv, Agreement, LeaseOK, PublishedIsReal, Harmless, Quiet

(* A step that writes one row and changes nothing else that counts.       *)
LEMMA PutStep ==
    ASSUME IInv, UNCHANGED <<slot, accepted, orphans>>, NEW p \in Post, NEW row, Put(p, row),
           row.status # "publishing", row.lease = NoLease,
           row.status \in Pending \cup Stopped => Quiet(p),
           row.status = "published" => accepted[p] = 1
    PROVE  Agreement'
<1>1. post'[p] = row /\ \A q \in Post \ {p} : post'[q] = post[q]
  BY DEF IInv, TypeOK, Put
<1>2. Harmless(p)
  BY <1>1 DEF Harmless, Quiet
<1>3. \A q \in Post : Harmless(q)
  BY <1>1, <1>2, Unmoved
<1>4. SlotOK'
  BY DEF IInv, SlotOK
<1> QED BY <1>3, <1>4, RowStep

(* A handler writes a result, if the row is still its own, and calls no   *)
(* more.                                                                  *)
LEMMA RecordStep ==
    ASSUME IInv, SlotOK', UNCHANGED <<accepted, orphans>>,
           NEW w \in Worker, NEW p \in Post, slot[w].post = p,
           Leave(w) \/ Goto(w, "retrying"),
           NEW row, Record(w, row), row.status # "publishing", row.lease = NoLease,
           Holds(w) /\ row.status \in Pending \cup Stopped => Quiet(p) \/ Unsent(p)',
           Holds(w) /\ row.status = "published" => accepted[p] = 1
    PROVE  Agreement'
<1>1. \A v \in Worker : slot'[v] = slot[v] \/ slot'[v].pc \in {"idle", "retrying"}
  BY DEF IInv, TypeOK, Leave, Goto, IdleSlot, Slot
<1>2. CASE Holds(w)
  <2>1. post'[p] = row /\ \A q \in Post \ {p} : post'[q] = post[q]
    BY <1>2 DEF IInv, TypeOK, Record, Put
  <2>2. Harmless(p)
    BY <1>2, <2>1 DEF Harmless, Quiet
  <2> QED BY <1>1, <2>1, <2>2, Unmoved, RowStep
<1>3. CASE ~Holds(w)
  BY <1>1, <1>3, Unmoved, RowStep DEF Record
<1> QED BY <1>2, <1>3

(* A handler that holds its lease before the fence has sent nothing; one  *)
(* that was refused leaves nothing sent behind.                           *)
LEMMA ClaimedIsQuiet ==
    ASSUME IInv, NEW w \in Worker, slot[w].pc = "claimed", Holds(w)
    PROVE  Quiet(slot[w].post)
BY WorkerAssumption DEF IInv, Agreement, SlotOK, LeaseOK, ClaimOK, Holds, Quiet

LEMMA RefusedIsUnsent ==
    ASSUME IInv, NEW w \in Worker, NEW p \in Post, slot[w].post = p,
           slot[w].pc = "answered", slot[w].answer \in {"refused", "auth_failed"},
           Leave(w) \/ Goto(w, "retrying"), UNCHANGED <<accepted, orphans>>
    PROVE  Unsent(p)'
<1>1. Calls(w, p)
  BY DEF Calls
<1>2. accepted[p] = 0 /\ orphans[p] = 0
  BY <1>1 DEF IInv, Agreement, AnswerOK
<1>3. \A v \in Worker \ {w} : slot'[v] = slot[v] /\ ~Calls(v, p)
  BY <1>1 DEF IInv, Agreement, TypeOK, CallerOK, Leave, Goto
<1>4. slot'[w].pc \in {"idle", "retrying"}
  BY DEF IInv, TypeOK, Leave, Goto, IdleSlot, Slot
<1> QED BY <1>2, <1>3, <1>4 DEF Unsent, Calls

LEMMA ResultAgrees ==
    ASSUME IInv, SlotOK', NEW w \in Worker,
           \/ BlockUnsupported(w) \/ BlockDisconnected(w)
           \/ RecordAuthFailure(w) \/ RecordUnknown(w) \/ RecordPublished(w)
           \/ RecordRetry(w) \/ RecordGiveUp(w)
    PROVE  Agreement'
<1>0. PICK p \in Post : slot[w].post = p /\ post[p] \in PostRow
  BY DEF IInv, TypeOK, SlotOK, BlockUnsupported, BlockDisconnected, RecordAuthFailure,
         RecordUnknown, RecordPublished, RecordRetry, RecordGiveUp
<1>1. CASE BlockUnsupported(w)
  <2>1. Holds(w) => Quiet(p)
    BY <1>0, <1>1, ClaimedIsQuiet DEF BlockUnsupported
  <2> QED BY <1>0, <1>1, <2>1, RecordStep DEF BlockUnsupported, PostRow
<1>2. CASE BlockDisconnected(w)
  <2>1. Holds(w) => Quiet(p)
    BY <1>0, <1>2, ClaimedIsQuiet DEF BlockDisconnected
  <2> QED BY <1>0, <1>2, <2>1, RecordStep DEF BlockDisconnected, PostRow
<1>3. CASE RecordAuthFailure(w)
  <2>1. Unsent(p)'
    BY <1>0, <1>3, RefusedIsUnsent DEF RecordAuthFailure
  <2> QED BY <1>0, <1>3, <2>1, RecordStep DEF RecordAuthFailure, PostRow
<1>4. CASE RecordUnknown(w)
  <2> DEFINE row == [post[p] EXCEPT !.status = "published_unverified",
                        !.attempts = post[p].attempts + 1, !.recon = "pending",
                        !.lease = NoLease, !.retryAt = "none"]
  <2>1. row.status = "published_unverified" /\ row.lease = NoLease
    BY <1>0 DEF PostRow
  <2>2. Record(w, row) /\ Leave(w) /\ UNCHANGED <<accepted, orphans>>
    BY <1>0, <1>4 DEF RecordUnknown
  <2> HIDE DEF row
  <2> QED BY <1>0, <2>1, <2>2, RecordStep DEF Pending, Stopped
<1>5. CASE RecordPublished(w)
  <2>1. accepted[p] = 1
    BY <1>0, <1>5 DEF IInv, Agreement, AnswerOK, Calls, RecordPublished
  <2> DEFINE row == [post[p] EXCEPT !.status = "published",
                        !.attempts = post[p].attempts + 1, !.recon = "confirmed",
                        !.lease = NoLease, !.retryAt = "none"]
  <2>2. row.status = "published" /\ row.lease = NoLease
    BY <1>0 DEF PostRow
  <2>3. Record(w, row) /\ Leave(w) /\ UNCHANGED <<accepted, orphans>>
    BY <1>0, <1>5 DEF RecordPublished
  <2> HIDE DEF row
  <2> QED BY <1>0, <2>1, <2>2, <2>3, RecordStep DEF Pending, Stopped
<1>6. CASE RecordRetry(w)
  <2>1. Unsent(p)'
    BY <1>0, <1>6, RefusedIsUnsent DEF RecordRetry
  <2> QED BY <1>0, <1>6, <2>1, RecordStep DEF RecordRetry, PostRow
<1>7. CASE RecordGiveUp(w)
  <2>1. Unsent(p)'
    BY <1>0, <1>7, RefusedIsUnsent DEF RecordGiveUp
  <2> QED BY <1>0, <1>7, <2>1, RecordStep DEF RecordGiveUp, PostRow
<1> QED BY <1>1, <1>2, <1>3, <1>4, <1>5, <1>6, <1>7

LEMMA RetryJobAgrees ==
    ASSUME IInv, SlotOK', NEW w \in Worker, RetryEnqueued(w) \/ RetryQueueDown(w)
    PROVE  Agreement'
<1>1. \A v \in Worker : slot'[v] = slot[v] \/ slot'[v].pc \in {"idle", "retrying"}
  BY DEF RetryEnqueued, RetryQueueDown, Leave, IdleSlot, IInv, TypeOK
<1>2. ASSUME NEW p \in Post PROVE Harmless(p)
  <2>1. CASE post'[p] = post[p]
    BY <2>1, Unmoved
  <2>2. CASE post'[p] # post[p]
    <3>1. /\ post[p].status = "failed_retry" /\ post[p] \in PostRow
          /\ post'[p] = [post[p] EXCEPT !.status = "failed", !.retryAt = "none"]
      BY <2>2 DEF RetryEnqueued, RetryQueueDown, Put, IInv, TypeOK
    <3>2. post'[p].status = "failed" /\ post'[p].lease = post[p].lease /\ Quiet(p)
      BY <3>1 DEF PostRow, Quiet, Pending
    <3> QED BY <3>1, <3>2 DEF Harmless, IInv, Agreement, LeaseOK
  <2> QED BY <2>1, <2>2
<1> QED BY <1>1, <1>2, RowStep DEF RetryEnqueued, RetryQueueDown

LEMMA CallAgrees ==
    ASSUME IInv, NEW w \in Worker,
           \/ \E p \in Post, r \in 1..(MaxRevision + 1) : Claim(w, p, r)
           \/ BeginProviderCall(w)
           \/ SaveVkIdentity(w)
    PROVE  Agreement'
<1> USE DEF IInv, Agreement
<1>1. ASSUME NEW p \in Post, NEW r \in 1..(MaxRevision + 1), Claim(w, p, r)
      PROVE  Agreement'
  <2>1. /\ Quiet(p) /\ post[p] \in PostRow /\ w # NoLease
        /\ slot[w].pc = "idle" /\ slot'[w].pc = "claimed" /\ slot'[w].post = p
        /\ \A v \in Worker \ {w} : slot'[v] = slot[v]
        /\ \A q \in Post \ {p} : post'[q] = post[q]
        /\ accepted' = accepted /\ orphans' = orphans
    BY <1>1, WorkerAssumption DEF Claim, Claimable, Put, Quiet, Pending, TypeOK
  <2>2. /\ post'[p].status = "publishing" /\ post'[p].lease = w /\ post'[p].started = FALSE
    BY <1>1, <2>1 DEF Claim, Put, TypeOK, PostRow
  <2>3. \A v \in Worker, q \in Post : Calls(v, q)' => Calls(v, q) /\ v # w /\ q # p
    BY <2>1 DEF Calls, UnsentOK
  <2>4. \A q \in Post : Quiet(q)' => Quiet(q)
    BY <2>1 DEF Quiet
  <2>5. LeaseOK'
    BY <2>1, <2>2 DEF LeaseOK
  <2>6. ClaimOK'
    BY <2>1, <2>2 DEF ClaimOK
  <2>7. UnsentOK'
    BY <2>1, <2>3, <2>4 DEF UnsentOK
  <2>8. CallerOK'
    BY <2>1, <2>3 DEF CallerOK
  <2>9. AnswerOK'
    BY <2>1, <2>3 DEF AnswerOK
  <2>10. CountOK' /\ PublishedIsReal'
    BY <2>1, <2>2 DEF CountOK, PublishedIsReal
  <2> QED BY <2>5, <2>6, <2>7, <2>8, <2>9, <2>10
<1>2. ASSUME NEW p \in Post, slot[w].post = p, slot[w].pc # "idle", Leave(w),
             UNCHANGED <<post, accepted, orphans>>
      PROVE  Agreement'
  <2>1. \A v \in Worker : slot'[v] = slot[v] \/ slot'[v].pc \in {"idle", "retrying"}
    BY <1>2 DEF Leave, IdleSlot, TypeOK
  <2>2. SlotOK'
    BY <1>2 DEF Leave, IdleSlot, TypeOK, SlotOK
  <2> QED BY <1>2, <2>1, <2>2, Unmoved, RowStep
<1>3. CASE BeginProviderCall(w) \/ SaveVkIdentity(w)
  <2>1. PICK p \in Post : slot[w].post = p
    BY <1>3 DEF BeginProviderCall, SaveVkIdentity, SlotOK
  <2>2. CASE Leave(w) /\ UNCHANGED post
    BY <1>2, <1>3, <2>1, <2>2 DEF BeginProviderCall, SaveVkIdentity
  <2>3. CASE ~(Leave(w) /\ UNCHANGED post)
    <3>1. /\ Holds(w) /\ post[p].lease = w /\ post[p].status = "publishing"
          /\ slot[w].pc \in {"claimed", "identity"}
          /\ slot[w].pc = "claimed" => Quiet(p)
          /\ slot[w].pc = "identity" => Calls(w, p)
          /\ \E pc \in {"identity", "calling"} : Goto(w, pc)
          /\ \/ Put(p, [post[p] EXCEPT !.started = TRUE])
             \/ Put(p, [post[p] EXCEPT !.recon = "none"]) /\ slot[w].pc = "identity"
          /\ accepted' = accepted /\ orphans' = orphans
      BY <1>3, <2>1, <2>3, WorkerAssumption
         DEF BeginProviderCall, SaveVkIdentity, Holds, LeaseOK, Calls, Quiet
    <3>2. /\ slot'[w].post = p /\ slot'[w].pc \in {"identity", "calling"}
          /\ \A v \in Worker \ {w} : slot'[v] = slot[v]
      BY <2>1, <3>1 DEF Goto, TypeOK, Slot
    <3>3. /\ post'[p].status = "publishing" /\ post'[p].lease = w
          /\ post'[p].started = TRUE
          /\ \A q \in Post \ {p} : post'[q] = post[q]
      BY <3>1 DEF Put, TypeOK, PostRow, UnsentOK, Quiet
    <3>4. accepted[p] = 0 /\ orphans[p] = 0 /\ \A v \in Worker \ {w} : ~Calls(v, p)
      BY <3>1 DEF UnsentOK, AnswerOK, CallerOK
    <3>5. /\ Calls(w, p)' /\ ~Quiet(p)'
          /\ \A v \in Worker, q \in Post : Calls(v, q)' => (v = w /\ q = p) \/ (Calls(v, q) /\ v # w /\ q # p)
      BY <3>2, <3>3, <3>4 DEF Calls, Quiet, Pending, Stopped
    <3>6. \A q \in Post \ {p} : Quiet(q)' => Quiet(q)
      BY <3>3 DEF Quiet
    <3>7. LeaseOK'
      BY <3>3, WorkerAssumption DEF LeaseOK
    <3>8. ClaimOK'
      BY <3>2, <3>3, WorkerAssumption DEF ClaimOK
    <3>9. UnsentOK'
      BY <3>1, <3>5, <3>6 DEF UnsentOK
    <3>10. CallerOK'
      BY <3>3, <3>5 DEF CallerOK
    <3>11. AnswerOK'
      BY <3>1, <3>2, <3>4, <3>5 DEF AnswerOK
    <3>12. CountOK' /\ PublishedIsReal'
      BY <3>1, <3>3 DEF CountOK, PublishedIsReal
    <3> QED BY <3>7, <3>8, <3>9, <3>10, <3>11, <3>12
  <2> QED BY <2>2, <2>3
<1> QED BY <1>1, <1>3

LEMMA AnswerAgrees ==
    ASSUME IInv, SlotOK', NEW w \in Worker,
           NetworkAccepts(w) \/ NetworkRefuses(w) \/ ReplyIsLost(w) \/ Crash(w)
    PROVE  Agreement'
<1> USE DEF IInv, Agreement
<1>1. CASE Crash(w) /\ slot[w].pc # "calling"
  <2>1. \A v \in Worker : slot'[v] = slot[v] \/ slot'[v].pc \in {"idle", "retrying"}
    BY <1>1 DEF Crash, Leave, IdleSlot, TypeOK
  <2> QED BY <1>1, <2>1, Unmoved, RowStep DEF Crash
<1>2. CASE slot[w].pc = "calling"
  <2>1. PICK p \in Post : slot[w].post = p
    BY <1>2 DEF SlotOK
  <2>2. Calls(w, p) /\ ~Quiet(p) /\ accepted[p] = 0 /\ orphans[p] = 0
    BY <1>2, <2>1 DEF Calls, UnsentOK, AnswerOK
  <2>3. post[p].status # "published" /\ post' = post
    BY <1>2, <2>2 DEF PublishedIsReal, NetworkAccepts, NetworkRefuses, ReplyIsLost, Crash
  <2>4. /\ \A v \in Worker \ {w} : slot'[v] = slot[v]
        /\ slot'[w].pc # "idle" => slot'[w].post = p /\ slot'[w].pc = "answered"
    BY <1>2, <2>1 DEF NetworkAccepts, NetworkRefuses, ReplyIsLost, Crash, Answered, Leave,
                      IdleSlot, TypeOK, Slot
  <2>5. /\ \A q \in Post \ {p} : accepted'[q] = accepted[q] /\ orphans'[q] = orphans[q]
        /\ \/ accepted'[p] = 1 /\ orphans'[p] = 0
              /\ slot'[w].answer \in {"ok", "no_id"}
           \/ accepted'[p] = 0 /\ orphans'[p] = 0
              /\ slot'[w].answer \in {"refused", "auth_failed"}
           \/ accepted'[p] = 0 /\ orphans'[p] = 1
              /\ slot'[w].answer \in {"none", "unknown"}
    BY <1>2, <2>1, <2>2 DEF NetworkAccepts, NetworkRefuses, ReplyIsLost, Crash, Answered,
                            Leave, IdleSlot, TypeOK, Slot
  <2>6. \A q \in Post : Quiet(q)' => Quiet(q) /\ q # p
    BY <2>2, <2>3 DEF Quiet
  <2>7. \A v \in Worker, q \in Post : Calls(v, q)' =>
            Calls(v, q) /\ ((v = w /\ q = p) \/ (v # w /\ q # p /\ slot'[v] = slot[v]))
    <3>1. \A v \in Worker : Calls(v, p) => v = w
      BY <2>2 DEF CallerOK
    <3>2. \A q \in Post : Calls(w, q)' => q = p
      BY <2>4 DEF Calls
    <3>3. \A v \in Worker \ {w}, q \in Post : Calls(v, q)' => Calls(v, q)
      BY <2>4 DEF Calls
    <3> SUFFICES ASSUME NEW v \in Worker, NEW q \in Post, Calls(v, q)'
                 PROVE  Calls(v, q) /\ ((v = w /\ q = p) \/ (v # w /\ q # p /\ slot'[v] = slot[v]))
      OBVIOUS
    <3>4. CASE v = w
      <4>1. q = p
        BY <2>4, <3>4 DEF Calls
      <4> QED BY <2>2, <3>4, <4>1 DEF Calls
    <3>5. CASE v # w
      BY <2>4, <3>1, <3>3, <3>5
    <3> QED BY <3>4, <3>5
  <2>8. LeaseOK' /\ ClaimOK'
    BY <2>1, <2>3, <2>4 DEF LeaseOK, ClaimOK
  <2>9. UnsentOK'
    BY <2>5, <2>6, <2>7 DEF UnsentOK
  <2>10. CallerOK'
    BY <2>3, <2>7 DEF CallerOK
  <2>11. AnswerOK'
    BY <2>4, <2>5, <2>7 DEF AnswerOK, Calls
  <2>12. CountOK'
    BY <2>5 DEF CountOK
  <2>13. PublishedIsReal'
    BY <2>3, <2>5 DEF PublishedIsReal
  <2> QED BY <2>8, <2>9, <2>10, <2>11, <2>12, <2>13
<1> QED BY <1>1, <1>2 DEF NetworkAccepts, NetworkRefuses, ReplyIsLost

LEMMA OrphanAgrees ==
    ASSUME IInv, NEW p \in Post, OrphanAccepted(p)
    PROVE  Agreement'
<1> USE DEF IInv, Agreement
<1>1. accepted[p] = 0 /\ orphans[p] = 1
  <2>1. accepted[p] \in Nat /\ orphans[p] \in Nat
    BY DEF TypeOK
  <2>2. accepted[p] + orphans[p] <= 1 /\ orphans[p] > 0
    BY DEF OrphanAccepted, CountOK
  <2> HIDE DEF IInv, Agreement
  <2> QED BY <2>1, <2>2
<1>2. /\ accepted'[p] = 1 /\ orphans'[p] = 0
      /\ \A q \in Post \ {p} : accepted'[q] = accepted[q] /\ orphans'[q] = orphans[q]
  BY <1>1 DEF OrphanAccepted, TypeOK
<1>3. ~Quiet(p) /\ post[p].status # "published" /\ post' = post /\ slot' = slot
  BY <1>1 DEF UnsentOK, PublishedIsReal, OrphanAccepted
<1>4. \A w \in Worker : Calls(w, p) =>
          slot[w].pc = "answered" /\ slot[w].answer \notin {"ok", "no_id", "refused", "auth_failed"}
  BY <1>1 DEF AnswerOK, Calls
<1>5. LeaseOK' /\ ClaimOK' /\ CallerOK'
  BY <1>3 DEF LeaseOK, ClaimOK, CallerOK, Calls
<1>6. UnsentOK'
  BY <1>2, <1>3 DEF UnsentOK, Quiet, Calls
<1>7. AnswerOK'
  BY <1>2, <1>3, <1>4 DEF AnswerOK, Calls
<1>8. CountOK' /\ PublishedIsReal'
  BY <1>2, <1>3 DEF CountOK, PublishedIsReal
<1> QED BY <1>5, <1>6, <1>7, <1>8

LEMMA HandlerAgrees ==
    ASSUME IInv, NEW w \in Worker, HandlerStep(w)
    PROVE  Agreement'
<1>1. SlotOK'
  BY HandlerTyped DEF IInv
<1> QED BY <1>1, CallAgrees, AnswerAgrees, ResultAgrees, RetryJobAgrees DEF HandlerStep

LEMMA TimerAgrees ==
    ASSUME IInv, NEW p \in Post, TimerStep(p)
    PROVE  Agreement'
<1>0. post[p] \in PostRow /\ SlotOK'
  BY TimerTyped DEF IInv, TypeOK
<1>1. CASE Dispatch(p)
  BY <1>0, <1>1, Unmoved, RowStep DEF Dispatch
<1>2. CASE OrphanAccepted(p)
  BY <1>2, OrphanAgrees
<1>3. CASE ReclaimUnsent(p)
  <2>1. Quiet(p)
    BY <1>3 DEF ReclaimUnsent, Quiet
  <2> QED BY <1>0, <1>3, <2>1, PutStep DEF ReclaimUnsent, PostRow
<1>4. CASE ReclaimUnknown(p)
  BY <1>0, <1>4, PutStep DEF ReclaimUnknown, PostRow, Pending, Stopped
<1>5. CASE QuarantineOverdue(p)
  <2>1. Quiet(p) /\ post[p].lease = NoLease
    BY <1>5 DEF QuarantineOverdue, Quiet, Pending, IInv, Agreement, LeaseOK
  <2> QED BY <1>0, <1>5, <2>1, PutStep DEF QuarantineOverdue, PostRow
<1>6. CASE ReconcileVk(p)
  <2>1. post[p].lease = NoLease /\ (accepted[p] > 0 => accepted[p] = 1)
    <3>1. accepted[p] \in Nat /\ orphans[p] \in Nat /\ accepted[p] + orphans[p] <= 1
      BY DEF IInv, TypeOK, Agreement, CountOK
    <3>2. accepted[p] > 0 => accepted[p] = 1
      BY <3>1
    <3> QED BY <1>6, <3>2 DEF ReconcileVk, IInv, Agreement, LeaseOK
  <2>2. /\ UNCHANGED <<slot, accepted, orphans>>
        /\ \/ accepted[p] = 1
              /\ Put(p, [post[p] EXCEPT !.status = "published", !.recon = "confirmed"])
           \/ Put(p, [post[p] EXCEPT !.recon = "unresolved"])
              /\ post[p].status = "published_unverified"
    BY <1>6, <2>1 DEF ReconcileVk
  <2>3. CASE Put(p, [post[p] EXCEPT !.status = "published", !.recon = "confirmed"])
             /\ accepted[p] = 1
    BY <1>0, <2>1, <2>2, <2>3, PutStep DEF PostRow, Pending, Stopped
  <2>4. CASE Put(p, [post[p] EXCEPT !.recon = "unresolved"])
             /\ post[p].status = "published_unverified"
    BY <1>0, <2>1, <2>2, <2>4, PutStep DEF PostRow, Pending, Stopped
  <2> QED BY <2>2, <2>3, <2>4
<1>7. CASE TimePasses(p)
  <2>1. /\ post'[p].status = post[p].status /\ post'[p].lease = post[p].lease
        /\ post'[p].started = post[p].started
        /\ \A q \in Post \ {p} : post'[q] = post[q]
    BY <1>0, <1>7 DEF TimePasses, Put, PostRow, IInv, TypeOK
  <2>2. Harmless(p)
    BY <2>1 DEF Harmless, Quiet, IInv, Agreement, LeaseOK, PublishedIsReal
  <2> QED BY <1>0, <1>7, <2>1, <2>2, Unmoved, RowStep DEF TimePasses
<1> QED BY <1>1, <1>2, <1>3, <1>4, <1>5, <1>6, <1>7 DEF TimerStep

(* Behind an open fence every post is quiet.                              *)
LEMMA FenceOpenIsQuiet ==
    ASSUME IInv, DeliveryFenceOpen, NEW p \in Post
    PROVE  Quiet(p)
BY DEF DeliveryFenceOpen, Quiet, Status, PostRow, IInv, TypeOK

LEMMA PersonAgrees ==
    ASSUME IInv, SlotOK', PersonStep
    PROVE  Agreement'
<1>0. /\ UNCHANGED <<slot, accepted, orphans>>
      /\ \A p \in Post : post[p] \in PostRow
  BY DEF IInv, TypeOK, PersonStep, CancelOperation, RescheduleOperation, RetryFromSite,
         RetryFromBot, RetryByAdmin, RescheduleByAdmin, MoveByAdmin, CancelByAdmin,
         RetryJobAdded, RetryJobRefused, RequestDies
<1>1. ASSUME NEW r \in 1..(MaxRevision - 1), CancelOperation(r) \/ RescheduleOperation(r)
      PROVE  Agreement'
  <2>1. ASSUME NEW p \in Post PROVE Harmless(p)
    <3>1. Quiet(p)
      BY <1>1, FenceOpenIsQuiet DEF CancelOperation, RescheduleOperation
    <3>2. post'[p].status \in {"cancelled", "scheduled"} /\ post'[p].lease = NoLease
      <4>1. CASE CancelOperation(r)
        BY <1>0, <4>1 DEF CancelOperation, PostRow
      <4>2. CASE RescheduleOperation(r)
        BY <1>0, <4>2 DEF RescheduleOperation, PostRow
      <4> QED BY <1>1, <4>1, <4>2
    <3> QED BY <3>1, <3>2 DEF Harmless
  <2> QED BY <1>0, <2>1, RowStep
<1>2. ASSUME NEW p \in Post, NEW row, Put(p, row), Quiet(p), row.lease = NoLease,
             row.status # "publishing", row.status # "published"
      PROVE  Agreement'
  BY <1>0, <1>2, PutStep
<1>3. ASSUME NEW p \in Post, post[p].status \in Pending \cup Stopped
      PROVE  Quiet(p) /\ post[p].lease = NoLease
  BY <1>3 DEF Quiet, Pending, Stopped, IInv, Agreement, LeaseOK
<1>4. ASSUME NEW p \in Post, NEW k \in RetryKey, RetryFromSite(p, k) PROVE Agreement'
  <2>1. post[p].status \in Pending \cup Stopped
    BY <1>4 DEF RetryFromSite, Stopped
  <2> QED BY <1>0, <1>2, <1>3, <1>4, <2>1 DEF RetryFromSite, PostRow
<1>5. ASSUME NEW p \in Post, NEW k \in RetryKey, RetryFromBot(p, k) PROVE Agreement'
  <2>1. post[p].status \in Pending \cup Stopped
    BY <1>5 DEF RetryFromBot, Stopped
  <2> QED BY <1>0, <1>2, <1>3, <1>5, <2>1 DEF RetryFromBot, PostRow
<1>6. ASSUME NEW p \in Post, RetryByAdmin(p) \/ RescheduleByAdmin(p) PROVE Agreement'
  <2>1. PICK allowed \in SUBSET {"scheduled", "failed", "quarantined", "failed_retry"},
             due \in {"early", "window"} : MoveByAdmin(p, allowed, due)
    BY <1>6 DEF RetryByAdmin, RescheduleByAdmin
  <2>2. post[p].status \in Pending \cup Stopped
    BY <2>1 DEF MoveByAdmin, Pending, Stopped
  <2> DEFINE row == [post[p] EXCEPT !.status = "scheduled", !.due = due,
                        !.rev = post[p].rev + 1, !.retryAt = "none"]
  <2>3. Put(p, row)
    BY <2>1 DEF MoveByAdmin
  <2>4. row.status = "scheduled" /\ row.lease = NoLease
    BY <1>0, <2>1 DEF MoveByAdmin, PostRow
  <2> HIDE DEF row
  <2> QED BY <1>2, <1>3, <2>2, <2>3, <2>4
<1>7. ASSUME NEW p \in Post, CancelByAdmin(p) PROVE Agreement'
  <2>1. post[p].status \in Pending \cup Stopped
    BY <1>7 DEF CancelByAdmin, Pending, Stopped
  <2> QED BY <1>0, <1>2, <1>3, <1>7, <2>1 DEF CancelByAdmin, PostRow
<1>8. ASSUME NEW q \in requests, RetryJobAdded(q) \/ RetryJobRefused(q) \/ RequestDies(q)
      PROVE  Agreement'
  <2>1. q \in Request /\ q.post \in Post
    BY DEF IInv, TypeOK, Request
  <2>2. CASE UNCHANGED post
    BY <1>0, <2>2, Unmoved, RowStep DEF IInv
  <2>3. CASE ~UNCHANGED post
    <3>1. Put(q.post, Compensated(q)) /\ post[q.post].status = "scheduled"
      BY <1>8, <2>3 DEF RetryJobAdded, RetryJobRefused, RequestDies
    <3>2. /\ Compensated(q).lease = post[q.post].lease
          /\ Compensated(q).status \in {"scheduled", "failed", "quarantined"}
      BY <1>0, <2>1, <3>1 DEF Compensated, Request, PostRow
    <3> QED BY <1>2, <1>3, <2>1, <3>1, <3>2 DEF Pending
  <2> QED BY <2>2, <2>3
<1> QED BY <1>1, <1>4, <1>5, <1>6, <1>7, <1>8 DEF PersonStep

-----------------------------------------------------------------------------
(* What a step may do to the status of a row.                             *)

(* A delivered or unknown row stays one; a stopped row is at most put back *)
(* in the plan; and a cancelled row stays cancelled unless the operation   *)
(* is rescheduled.                                                        *)
Sticks(p) ==
    /\ post[p].status \in Settled => post'[p].status \in Settled
    /\ post[p].status \in Stopped => post'[p].status \in Pending \cup Stopped
    /\ post[p].status = "cancelled" =>
          post'[p].status = "cancelled" \/ ~operation'.cancelled

LEMMA SameStatusSticks ==
    ASSUME NEW p \in Post, post'[p].status = post[p].status
    PROVE  Sticks(p)
BY DEF Sticks

(* Of a row that is leased or waiting Sticks says nothing.                *)
LEMMA OpenRowSticks ==
    ASSUME NEW p \in Post, post[p].status \in Pending \cup {"publishing"}
    PROVE  Sticks(p)
BY DEF Sticks, Pending, Stopped, Settled

LEMMA HandlerSticks ==
    ASSUME IInv, NEW w \in Worker, HandlerStep(w), NEW p \in Post
    PROVE  Sticks(p)
<1>1. CASE post'[p] = post[p]
  BY <1>1, SameStatusSticks
<1>2. CASE post'[p] # post[p]
  <2>1. CASE \E q \in Post, r \in 1..(MaxRevision + 1) : Claim(w, q, r)
    <3>1. post[p].status \in Pending
      BY <1>2, <2>1 DEF Claim, Claimable, Put, Pending, IInv, TypeOK
    <3> QED BY <3>1, OpenRowSticks
  <2>2. CASE Holds(w) /\ slot[w].post = p
    <3>1. post[p].status = "publishing"
      BY <2>2, WorkerAssumption DEF Holds, IInv, Agreement, LeaseOK
    <3> QED BY <3>1, OpenRowSticks DEF Pending
  <2>3. CASE RetryQueueDown(w)
    <3>1. post[p].status = "failed_retry"
      BY <1>2, <2>3 DEF RetryQueueDown, Put, IInv, TypeOK
    <3> QED BY <3>1, OpenRowSticks DEF Pending
  <2>4. \/ \E q \in Post, r \in 1..(MaxRevision + 1) : Claim(w, q, r)
        \/ Holds(w) /\ slot[w].post = p
        \/ RetryQueueDown(w)
    BY <1>2 DEF HandlerStep, BlockUnsupported, BlockDisconnected, BeginProviderCall,
        SaveVkIdentity, NetworkAccepts, NetworkRefuses, ReplyIsLost, RecordAuthFailure,
        RecordUnknown, RecordPublished, RecordRetry, RetryEnqueued, RecordGiveUp, Crash,
        Record, Put, IInv, TypeOK
  <2> QED BY <2>1, <2>2, <2>3, <2>4
<1> QED BY <1>1, <1>2

LEMMA TimerSticks ==
    ASSUME IInv, NEW q \in Post, TimerStep(q), NEW p \in Post
    PROVE  Sticks(p)
<1>1. CASE post'[p] = post[p]
  BY <1>1, SameStatusSticks
<1>2. CASE post'[p] # post[p] /\ TimePasses(q)
  <2>1. post'[p].status = post[p].status
    BY <1>2 DEF TimePasses, Put, PostRow, IInv, TypeOK
  <2> QED BY <2>1, SameStatusSticks
<1>3. CASE post'[p] # post[p] /\ ReconcileVk(q)
  <2>1. p = q /\ post[p].status = "published_unverified" /\ post[p] \in PostRow
    BY <1>3 DEF ReconcileVk, Put, IInv, TypeOK
  <2>2. \/ post'[p] = [post[p] EXCEPT !.status = "published", !.recon = "confirmed"]
        \/ post'[p] = [post[p] EXCEPT !.recon = "unresolved"]
    BY <1>3, <2>1 DEF ReconcileVk, Put, IInv, TypeOK
  <2>3. post'[p].status \in Settled
    BY <2>1, <2>2 DEF PostRow, Settled
  <2> QED BY <2>1, <2>3 DEF Sticks, Stopped
<1>4. CASE post'[p] # post[p] /\ (ReclaimUnsent(q) \/ ReclaimUnknown(q) \/ QuarantineOverdue(q))
  <2>1. post[p].status \in {"publishing", "scheduled"}
    BY <1>4 DEF ReclaimUnsent, ReclaimUnknown, QuarantineOverdue, Put, IInv, TypeOK
  <2> QED BY <2>1, OpenRowSticks DEF Pending
<1> QED BY <1>1, <1>2, <1>3, <1>4 DEF TimerStep, Dispatch, OrphanAccepted

LEMMA PersonSticks ==
    ASSUME IInv, PersonStep, NEW p \in Post
    PROVE  Sticks(p)
<1>1. CASE \E r \in 1..(MaxRevision - 1) : CancelOperation(r)
  <2>1. PICK r \in 1..(MaxRevision - 1) : CancelOperation(r)
    BY <1>1
  <2>2. post[p].status \notin Settled
    BY <2>1 DEF CancelOperation, DeliveryFenceOpen
  <2>3. post[p] \in PostRow
    BY DEF IInv, TypeOK
  <2>4. post'[p].status = "cancelled"
    BY <2>1, <2>3 DEF CancelOperation, PostRow
  <2> QED BY <2>2, <2>4 DEF Sticks, Stopped
<1>2. CASE \E r \in 1..(MaxRevision - 1) : RescheduleOperation(r)
  <2>0. PICK r \in 1..(MaxRevision - 1) : RescheduleOperation(r)
    BY <1>2
  <2>1. post[p].status \notin Settled /\ ~operation'.cancelled
    BY <2>0 DEF RescheduleOperation, DeliveryFenceOpen
  <2>2. post[p] \in PostRow
    BY DEF IInv, TypeOK
  <2>3. post'[p].status = "scheduled"
    BY <2>0, <2>2 DEF RescheduleOperation, PostRow
  <2> QED BY <2>1, <2>3 DEF Sticks, Pending
<1>3. CASE post'[p] = post[p]
  BY <1>3, SameStatusSticks
<1>4. ASSUME NEW q \in Post, NEW row, Put(q, row),
             post[q].status \in Pending \cup {"failed", "quarantined"},
             row.status \in Pending \cup Stopped
      PROVE  Sticks(p)
  BY <1>3, <1>4 DEF Sticks, Put, Pending, Settled, Stopped, IInv, TypeOK
<1>5. \A q \in Post : post[q] \in PostRow
  BY DEF IInv, TypeOK
<1>6. ASSUME NEW q \in Post, NEW k \in RetryKey, RetryFromSite(q, k) PROVE Sticks(p)
  BY <1>4, <1>5, <1>6 DEF RetryFromSite, PostRow, Pending
<1>7. ASSUME NEW q \in Post, NEW k \in RetryKey, RetryFromBot(q, k) PROVE Sticks(p)
  BY <1>4, <1>5, <1>7 DEF RetryFromBot, PostRow, Pending
<1>8. ASSUME NEW q \in Post, RetryByAdmin(q) \/ RescheduleByAdmin(q) PROVE Sticks(p)
  <2>1. PICK allowed \in SUBSET {"scheduled", "failed", "quarantined", "failed_retry"},
             due \in {"early", "window"} : MoveByAdmin(q, allowed, due)
    BY <1>8 DEF RetryByAdmin, RescheduleByAdmin
  <2> QED BY <1>4, <1>5, <2>1 DEF MoveByAdmin, PostRow, Pending
<1>9. ASSUME NEW q \in Post, CancelByAdmin(q) PROVE Sticks(p)
  BY <1>4, <1>5, <1>9 DEF CancelByAdmin, PostRow, Pending, Stopped
<1>10. ASSUME NEW q \in requests, RetryJobAdded(q) \/ RetryJobRefused(q) \/ RequestDies(q)
       PROVE  Sticks(p)
  <2>1. q \in Request /\ q.post \in Post
    BY DEF IInv, TypeOK, Request
  <2>2. CASE UNCHANGED post
    BY <1>3, <2>2
  <2>3. CASE ~UNCHANGED post
    <3>1. Put(q.post, Compensated(q)) /\ post[q.post].status = "scheduled"
      BY <1>10, <2>3 DEF RetryJobAdded, RetryJobRefused, RequestDies
    <3>2. Compensated(q).status \in Pending \cup Stopped
      BY <1>5, <2>1, <3>1 DEF Compensated, Request, PostRow, Pending, Stopped
    <3> QED BY <1>4, <2>1, <3>1, <3>2 DEF Pending
  <2> QED BY <2>2, <2>3
<1> QED BY <1>1, <1>2, <1>6, <1>7, <1>8, <1>9, <1>10 DEF PersonStep

LEMMA StatusStep ==
    ASSUME IInv, [Next]_vars, NEW p \in Post
    PROVE  Sticks(p)
<1>1. CASE UNCHANGED vars
  BY <1>1, SameStatusSticks DEF vars
<1> QED BY <1>1, HandlerSticks, TimerSticks, PersonSticks DEF Next

(* The row of the operation moves only behind an open fence.              *)
LEMMA OperationStep ==
    ASSUME IInv, [Next]_vars, operation' # operation
    PROVE  /\ DeliveryFenceOpen
           /\ operation'.cancelled => \A p \in Post : post'[p].status = "cancelled"
<1>1. PICK r \in 1..(MaxRevision - 1) : CancelOperation(r) \/ RescheduleOperation(r)
  <2>1. PersonStep
    BY DEF vars, Next, HandlerStep, TimerStep, Claim, BlockUnsupported, BlockDisconnected,
        BeginProviderCall, SaveVkIdentity, NetworkAccepts, NetworkRefuses, ReplyIsLost,
        RecordAuthFailure, RecordUnknown, RecordPublished, RecordRetry, RetryEnqueued,
        RetryQueueDown, RecordGiveUp, Crash, Dispatch, ReclaimUnsent, ReclaimUnknown,
        QuarantineOverdue, ReconcileVk, TimePasses, OrphanAccepted
  <2> QED BY <2>1 DEF PersonStep, RetryFromSite, RetryFromBot, RetryByAdmin,
        RescheduleByAdmin, MoveByAdmin, CancelByAdmin, RetryJobAdded, RetryJobRefused,
        RequestDies
<1>2. CASE CancelOperation(r)
  <2>1. \A p \in Post : post[p] \in PostRow
    BY DEF IInv, TypeOK
  <2> QED BY <1>2, <2>1 DEF CancelOperation, PostRow
<1>3. CASE RescheduleOperation(r)
  BY <1>3 DEF RescheduleOperation
<1> QED BY <1>1, <1>2, <1>3

-----------------------------------------------------------------------------
(* The inductive invariant.                                               *)

LEMMA InitInv == Init => IInv
<1> SUFFICES ASSUME Init PROVE IInv
  OBVIOUS
<1>1. TypeOK /\ SlotOK
  BY InitTyped
<1>2. Agreement
  BY DEF Init, NewPost, IdleSlot, Agreement, LeaseOK, ClaimOK, UnsentOK, CallerOK, AnswerOK,
         CountOK, PublishedIsReal, Calls
<1>3. CancelSticks
  BY DEF Init, CancelSticks
<1> QED BY <1>1, <1>2, <1>3 DEF IInv

LEMMA NextInv ==
    ASSUME IInv, [Next]_vars
    PROVE  IInv'
<1>1. TypeOK' /\ SlotOK'
  BY NextTyped DEF IInv
<1>2. Agreement'
  <2>1. CASE UNCHANGED vars
    BY <1>1, <2>1, Unmoved, RowStep DEF vars
  <2> QED BY <1>1, <2>1, HandlerAgrees, TimerAgrees, PersonAgrees DEF Next
<1>3. CancelSticks'
  <2> SUFFICES ASSUME operation'.cancelled, NEW p \in Post
               PROVE  post'[p].status = "cancelled" /\ accepted'[p] = 0
    BY DEF CancelSticks
  <2>1. post'[p].status = "cancelled"
    BY StatusStep, OperationStep DEF IInv, CancelSticks, Sticks
  <2> QED BY <1>2, <2>1 DEF Agreement, UnsentOK, Quiet, Stopped
<1> QED BY <1>1, <1>2, <1>3 DEF IInv

(* What handlers, rows and network know of each other stays consistent in *)
(* every reachable state, for any number of posts, handlers, attempts,    *)
(* revisions and retry requests.                                          *)
THEOREM InvariantHolds == Spec => []IInv
<1>1. IInv /\ [Next]_vars => IInv'
  BY NextInv
<1> QED BY InitInv, <1>1, PTL DEF Spec

-----------------------------------------------------------------------------
(* The properties.                                                        *)

LEMMA InvImplies ==
    ASSUME IInv
    PROVE  /\ AtMostOneDelivery /\ RetryableIsUnsent /\ InFlightIsProtected
           /\ PublishedIsReal /\ CancelSticks
<1> USE DEF IInv, Agreement
<1>1. AtMostOneDelivery
  <2> SUFFICES ASSUME NEW p \in Post PROVE accepted[p] <= 1
    BY DEF AtMostOneDelivery
  <2>1. accepted[p] \in Nat /\ orphans[p] \in Nat
    BY DEF TypeOK
  <2>2. accepted[p] + orphans[p] <= 1
    BY DEF CountOK
  <2> HIDE DEF IInv, Agreement
  <2> QED BY <2>1, <2>2
<1>2. RetryableIsUnsent
  BY DEF RetryableIsUnsent, UnsentOK, Quiet, Calls
<1>3. InFlightIsProtected
  <2> SUFFICES ASSUME NEW w \in Worker, slot[w].pc \in {"identity", "calling", "answered"}
               PROVE  LET p == slot[w].post IN
                      \/ post[p].status = "publishing" /\ post[p].started /\ Holds(w)
                      \/ post[p].status \in Settled
    BY DEF InFlightIsProtected
  <2>1. PICK p \in Post : slot[w].post = p
    BY DEF SlotOK
  <2>2. Calls(w, p) /\ ~Quiet(p)
    BY <2>1 DEF Calls, UnsentOK
  <2>3. post[p].status \in Settled \cup {"publishing"}
    BY <2>2 DEF Quiet, TypeOK, PostRow, Status
  <2>4. CASE post[p].status = "publishing"
    BY <2>1, <2>2, <2>4 DEF Quiet, CallerOK, Holds, TypeOK, PostRow
  <2> QED BY <2>1, <2>3, <2>4
<1> QED BY <1>1, <1>2, <1>3

(* No post is published twice, whatever crashes, is delivered twice, is   *)
(* retried, rescheduled or reclaimed.                                     *)
THEOREM NoSecondDelivery == Spec => []AtMostOneDelivery
BY InvariantHolds, InvImplies, PTL

(* Nothing is published, being sent or on the wire for a row that may be  *)
(* tried again or that tells its author nothing went out.                 *)
THEOREM RetryIsSafe == Spec => []RetryableIsUnsent
BY InvariantHolds, InvImplies, PTL

(* No request takes the row away from a handler that is calling the       *)
(* network: it is the handler's own, or closed as delivered-or-unknown.   *)
THEOREM FlightIsProtected == Spec => []InFlightIsProtected
BY InvariantHolds, InvImplies, PTL

(* "published" is shown only for what the network published.              *)
THEOREM PublishedMeansPublished == Spec => []PublishedIsReal
BY InvariantHolds, InvImplies, PTL

(* A cancelled operation stays cancelled, and unpublished, until somebody *)
(* reschedules it.                                                        *)
THEOREM CancelIsRespected == Spec => []CancelSticks
BY InvariantHolds, InvImplies, PTL

(* No step takes a delivered or unknown post back to a state from which   *)
(* it could be sent again.                                                *)
THEOREM SettledStaysSettled == Spec => SettledIsFinal
<1>1. IInv /\ [Next]_vars =>
          [\A p \in Post : post[p].status \in Settled => post'[p].status \in Settled]_vars
  BY StatusStep DEF Sticks
<1> QED BY <1>1, InvariantHolds, PTL DEF Spec, SettledIsFinal

(* From the moment one destination has the message the operation can be   *)
(* neither cancelled nor rescheduled.                                     *)
THEOREM DeliveredOperationIsFixed == Spec => DeliveryFixesOperation
<1>1. IInv /\ [Next]_vars =>
          [(\E p \in Post : accepted[p] > 0) => operation' = operation]_vars
  <2> SUFFICES ASSUME IInv, [Next]_vars, NEW p \in Post, accepted[p] > 0, operation' # operation
               PROVE  FALSE
    OBVIOUS
  <2>1. Quiet(p)
    BY OperationStep, FenceOpenIsQuiet
  <2> QED BY <2>1 DEF IInv, Agreement, UnsentOK
<1> QED BY <1>1, InvariantHolds, PTL DEF Spec, DeliveryFixesOperation

-----------------------------------------------------------------------------
(* Publication implements DeliveryPromise.                                *)

(* Outside the two decisions about the whole operation, a step moves at   *)
(* most one row, or the network publishes one message.                    *)
OneRow ==
    /\ accepted' = accepted
    /\ \/ post' = post
       \/ \E p \in Post : \A q \in Post \ {p} : post'[q] = post[q]

OneMessage ==
    \E p \in Post : post' = post /\ accepted' = [accepted EXCEPT ![p] = @ + 1]

LEMMA PutIsOneRow ==
    ASSUME IInv, NEW p \in Post, NEW row, Put(p, row), accepted' = accepted
    PROVE  OneRow
BY DEF OneRow, Put, IInv, TypeOK

LEMMA HandlerShape ==
    ASSUME IInv, NEW w \in Worker, HandlerStep(w)
    PROVE  OneRow \/ OneMessage
<1>1. ASSUME NEW p \in Post, NEW r \in 1..(MaxRevision + 1), Claim(w, p, r) PROVE OneRow
  BY <1>1, PutIsOneRow DEF Claim
<1>2. ASSUME slot[w].pc # "idle" PROVE slot[w].post \in Post
  BY <1>2 DEF IInv, SlotOK
<1>3. CASE NetworkAccepts(w)
  BY <1>2, <1>3 DEF NetworkAccepts, OneMessage
<1>4. CASE NetworkRefuses(w) \/ ReplyIsLost(w) \/ RetryEnqueued(w) \/ Crash(w)
  BY <1>4 DEF NetworkRefuses, ReplyIsLost, RetryEnqueued, Crash, OneRow
<1>5. CASE BeginProviderCall(w) \/ SaveVkIdentity(w) \/ RetryQueueDown(w)
  <2>1. slot[w].post \in Post /\ accepted' = accepted
    BY <1>2, <1>5 DEF BeginProviderCall, SaveVkIdentity, RetryQueueDown
  <2>2. post' = post \/ \E row : Put(slot[w].post, row)
    BY <1>5 DEF BeginProviderCall, SaveVkIdentity, RetryQueueDown
  <2> QED BY <2>1, <2>2, PutIsOneRow DEF OneRow
<1>6. CASE \/ BlockUnsupported(w) \/ BlockDisconnected(w) \/ RecordAuthFailure(w)
           \/ RecordUnknown(w) \/ RecordPublished(w) \/ RecordRetry(w) \/ RecordGiveUp(w)
  <2>1. slot[w].post \in Post /\ accepted' = accepted
    BY <1>2, <1>6 DEF BlockUnsupported, BlockDisconnected, RecordAuthFailure, RecordUnknown,
                      RecordPublished, RecordRetry, RecordGiveUp
  <2>2. \E row : Record(w, row)
    BY <1>6 DEF BlockUnsupported, BlockDisconnected, RecordAuthFailure, RecordUnknown,
                RecordPublished, RecordRetry, RecordGiveUp
  <2> QED BY <2>1, <2>2, PutIsOneRow DEF Record, OneRow
<1> QED BY <1>1, <1>3, <1>4, <1>5, <1>6 DEF HandlerStep

LEMMA TimerShape ==
    ASSUME IInv, NEW p \in Post, TimerStep(p)
    PROVE  OneRow \/ OneMessage
<1>1. CASE OrphanAccepted(p)
  BY <1>1 DEF OrphanAccepted, OneMessage
<1>2. CASE Dispatch(p)
  BY <1>2 DEF Dispatch, OneRow
<1>3. CASE ~OrphanAccepted(p) /\ ~Dispatch(p)
  <2>1. accepted' = accepted /\ \E row : Put(p, row)
    BY <1>3 DEF TimerStep, ReclaimUnsent, ReclaimUnknown, QuarantineOverdue, ReconcileVk,
                TimePasses
  <2> QED BY <2>1, PutIsOneRow
<1> QED BY <1>1, <1>2, <1>3

LEMMA PersonShape ==
    ASSUME IInv, PersonStep,
           ~\E r \in 1..(MaxRevision - 1) : CancelOperation(r) \/ RescheduleOperation(r)
    PROVE  OneRow
<1>1. \A q \in requests : q.post \in Post
  BY DEF IInv, TypeOK, Request
<1>2. accepted' = accepted /\ (post' = post \/ \E p \in Post : \E row : Put(p, row))
  BY <1>1 DEF PersonStep, RetryFromSite, RetryFromBot, RetryByAdmin, RescheduleByAdmin,
      MoveByAdmin, CancelByAdmin, RetryJobAdded, RetryJobRefused, RequestDies
<1> QED BY <1>2, PutIsOneRow DEF OneRow

(* A post that is not out is quiet, and a stopped one does not go out.    *)
LEMMA PhaseIsQuiet ==
    ASSUME NEW p \in Post, post[p] \in PostRow
    PROVE  /\ PhaseOf(p) \in {"waiting", "withdrawn", "out"}
           /\ PhaseOf(p) # "out" <=> Quiet(p)
           /\ PhaseOf(p) = "withdrawn" <=> post[p].status \in Stopped
BY DEF PhaseOf, Quiet, PostRow, Status, Pending, Stopped, Settled

LEMMA PhaseIsQuietNext ==
    ASSUME NEW p \in Post, post'[p] \in PostRow
    PROVE  /\ PhaseOf(p)' \in {"waiting", "withdrawn", "out"}
           /\ PhaseOf(p)' # "out" <=> Quiet(p)'
           /\ PhaseOf(p)' = "withdrawn" <=> post'[p].status \in Stopped
BY DEF PhaseOf, Quiet, PostRow, Status, Pending, Stopped, Settled

LEMMA PromiseInit == Init => Promise!Init
<1> SUFFICES ASSUME Init PROVE Promise!Init
  OBVIOUS
<1>1. ASSUME NEW p \in Post PROVE PhaseOf(p) = "waiting"
  <2>1. post[p].status = "scheduled"
    BY DEF Init, NewPost
  <2> QED BY <2>1 DEF PhaseOf, Pending, Stopped
<1> QED BY <1>1 DEF Init, Promise!Init

LEMMA PromiseStep ==
    ASSUME IInv, IInv', [Next]_vars
    PROVE  [Promise!Next]_(Promise!promiseVars)
<1>0. \A p \in Post : /\ post[p] \in PostRow /\ post'[p] \in PostRow
                     /\ accepted[p] \in Nat /\ orphans[p] \in Nat
                     /\ accepted'[p] \in Nat /\ orphans'[p] \in Nat
  BY DEF IInv, TypeOK
<1>1. \A p \in Post : /\ Quiet(p) => accepted[p] = 0
                     /\ Quiet(p)' => accepted'[p] = 0
  BY DEF IInv, Agreement, UnsentOK
<1>2. ASSUME accepted' = accepted, \A p \in Post : PhaseOf(p)' = PhaseOf(p)
      PROVE  [Promise!Next]_(Promise!promiseVars)
  BY <1>2 DEF Promise!promiseVars
<1>3. CASE \E r \in 1..(MaxRevision - 1) : CancelOperation(r) \/ RescheduleOperation(r)
  <2>1. PICK r \in 1..(MaxRevision - 1) : CancelOperation(r) \/ RescheduleOperation(r)
    BY <1>3
  <2>2. \A p \in Post : PhaseOf(p) # "out"
    BY <1>0, <2>1, FenceOpenIsQuiet, PhaseIsQuiet DEF CancelOperation, RescheduleOperation
  <2>3. accepted' = accepted
    BY <2>1 DEF CancelOperation, RescheduleOperation
  <2>4. ASSUME CancelOperation(r), NEW p \in Post PROVE PhaseOf(p)' = "withdrawn"
    <3>0. post[p] \in PostRow
      BY <1>0
    <3>1. post'[p].status = "cancelled"
      BY <2>4, <3>0 DEF CancelOperation, PostRow
    <3> QED BY <3>1 DEF PhaseOf, Pending, Stopped
  <2>5. ASSUME RescheduleOperation(r), NEW p \in Post PROVE PhaseOf(p)' = "waiting"
    <3>0. post[p] \in PostRow
      BY <1>0
    <3>1. post'[p].status = "scheduled"
      BY <2>5, <3>0 DEF RescheduleOperation, PostRow
    <3> QED BY <3>1 DEF PhaseOf, Pending, Stopped
  <2>6. \E to \in {"waiting", "withdrawn"} : \A p \in Post : PhaseOf(p)' = to
    BY <2>1, <2>4, <2>5
  <2>7. PICK to \in {"waiting", "withdrawn"} : \A p \in Post : PhaseOf(p)' = to
    BY <2>6
  <2>8. Promise!Decide(Post, to)
    BY <2>2, <2>3, <2>7 DEF Promise!Decide
  <2> QED BY <2>8 DEF Promise!Next
<1>4. CASE post' = post /\ accepted' = accepted
  BY <1>2, <1>4 DEF PhaseOf
<1>5. ASSUME NEW p \in Post, \A q \in Post \ {p} : post'[q] = post[q], accepted' = accepted
      PROVE  [Promise!Next]_(Promise!promiseVars)
  <2>1. \A q \in Post \ {p} : PhaseOf(q)' = PhaseOf(q)
    BY <1>5 DEF PhaseOf
  <2>2. /\ PhaseOf(p) \in {"waiting", "withdrawn", "out"}
        /\ PhaseOf(p)' \in {"waiting", "withdrawn", "out"}
    BY <1>0, PhaseIsQuiet, PhaseIsQuietNext
  <2>3. CASE PhaseOf(p) = PhaseOf(p)'
    BY <1>2, <1>5, <2>1, <2>3
  <2>4. CASE PhaseOf(p) = "withdrawn" /\ PhaseOf(p)' = "out"
    <3>1. post[p].status \in Stopped /\ post'[p].status \in Pending \cup Stopped
      BY <1>0, <2>4, PhaseIsQuiet, StatusStep DEF Sticks
    <3> QED BY <2>4, <3>1 DEF PhaseOf
  <2>5. CASE PhaseOf(p) = "waiting" /\ PhaseOf(p)' = "out"
    <3>1. Promise!Start(p)
      BY <1>5, <2>1, <2>5 DEF Promise!Start
    <3> QED BY <3>1 DEF Promise!Next
  <2>6. CASE PhaseOf(p) = "out" /\ PhaseOf(p)' # "out"
    <3>1. Quiet(p)'
      BY <1>0, <2>6, PhaseIsQuietNext
    <3>2. accepted'[p] = 0
      BY <3>1 DEF IInv, Agreement, UnsentOK, Quiet
    <3>3. PICK to \in {"waiting", "withdrawn"} : PhaseOf(p)' = to
      BY <2>2, <2>6
    <3>4. Promise!Refuse(p, to)
      BY <1>5, <2>1, <2>6, <3>2, <3>3 DEF Promise!Refuse
    <3> QED BY <3>4 DEF Promise!Next
  <2>7. CASE PhaseOf(p) # "out" /\ PhaseOf(p)' # "out"
    <3>1. PICK to \in {"waiting", "withdrawn"} : PhaseOf(p)' = to
      BY <2>2, <2>7
    <3>2. Promise!Decide({p}, to)
      BY <1>5, <2>1, <2>7, <3>1 DEF Promise!Decide
    <3> QED BY <3>2 DEF Promise!Next
  <2> QED BY <2>2, <2>3, <2>4, <2>5, <2>6, <2>7
<1>6. ASSUME NEW p \in Post, post' = post, accepted' = [accepted EXCEPT ![p] = @ + 1]
      PROVE  [Promise!Next]_(Promise!promiseVars)
  <2>1. accepted'[p] = accepted[p] + 1
    BY <1>6 DEF IInv, TypeOK
  <2>2. accepted'[p] + orphans'[p] <= 1
    BY DEF IInv, Agreement, CountOK
  <2>3. accepted[p] = 0
    BY <1>0, <2>1, <2>2
  <2>4. ~Quiet(p)'
    BY <1>1, <2>1, <2>3
  <2>5. PhaseOf(p) = "out" /\ \A q \in Post : PhaseOf(q)' = PhaseOf(q)
    BY <1>0, <1>6, <2>4, PhaseIsQuiet DEF PhaseOf, Quiet
  <2>6. Promise!Accept(p)
    BY <1>6, <2>3, <2>5 DEF Promise!Accept
  <2> QED BY <2>6 DEF Promise!Next
<1>7. CASE OneRow \/ OneMessage
  BY <1>4, <1>5, <1>6, <1>7 DEF OneRow, OneMessage
<1>8. CASE UNCHANGED vars
  BY <1>4, <1>8 DEF vars
<1> QED BY <1>3, <1>7, <1>8, HandlerShape, TimerShape, PersonShape DEF Next

(* Every behaviour of rows, handlers, timers, requests and networks is a  *)
(* behaviour of the promise: a post goes out at most once, only from      *)
(* waiting, and comes back only after a certain refusal.                  *)
THEOREM PromiseIsKept == Spec => KeepsPromise
<1>1. IInv /\ IInv' /\ [Next]_vars => [Promise!Next]_(Promise!promiseVars)
  BY PromiseStep
<1> QED BY PromiseInit, <1>1, InvariantHolds, PTL DEF Spec, KeepsPromise, Promise!Spec
=============================================================================
