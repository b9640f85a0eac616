--------------------------- MODULE Publication ---------------------------
(* The life of the posts of one publication operation: the rows of the    *)
(* `posts` table, the handlers of the BullMQ queue "publish" that claim    *)
(* them under a lease and call the social network, the timers that repair  *)
(* what a dead worker left, and every request of a person that moves a     *)
(* post (cancel, reschedule, retry, from the site, the bot or the admin    *)
(* console).                                                              *)
(*                                                                        *)
(* One action is one committed SQL statement or transaction, or one answer *)
(* of an external system; between two of them anything else may happen.   *)
(*                                                                        *)
(* Operators introduced by "Mutant:" are no part of the model: each is the *)
(* form a plausible bug would give the operator that follows it, kept to  *)
(* show that the properties below notice the difference.                  *)
(*                                                                        *)
(* Limits of the model:                                                   *)
(*  - Wall-clock time is reduced to where a timestamp lies relative to    *)
(*    now (`due`, `retryAt`, `stuck`); PublicationQueue.tla has a clock.   *)
(*  - The queue may deliver any job it was ever given, at any time and    *)
(*    any number of times, or never.                                      *)
(*  - A lease token (a hash of post, job, attempt and time) is named by    *)
(*    the handler that drew it: a handler holds at most one at a time.    *)
(*  - A network's refusal is truthful: what it refused it did not publish. *)
EXTENDS Naturals, FiniteSets

CONSTANTS
    Post,           \* the destinations of the operation, one post each
    Vk,             \* those that go to VK
    Worker,         \* the concurrent handlers of the queue "publish"
    RetryKey,       \* idempotency keys and callback ids of retry requests
    NoLease, NoPost, NoKey,
    MaxAttempts,    \* MAX_ATTEMPTS
    MaxRevision,    \* bound of the model on revisions made by requests
    MaxRequests     \* bound of the model on unfinished retry requests

ASSUME PostAssumption == NoPost \notin Post /\ Vk \subseteq Post
ASSUME WorkerAssumption == NoLease \notin Worker
ASSUME KeyAssumption == NoKey \notin RetryKey
ASSUME BoundAssumption == MaxAttempts \in Nat \ {0} /\ MaxRevision \in Nat \ {0} /\ MaxRequests \in Nat

VARIABLES
    post,       \* the rows of `posts`
    operation,  \* the row of `publication_operations`
    jobs,       \* <<post, revision>> the queue was ever given
    requests,   \* retry requests between their commit and their queue.add
    slot,       \* the local variables of the handlers
    accepted,   \* messages the network has published for a post
    orphans     \* requests on the wire whose sender no longer listens

vars == <<post, operation, jobs, requests, slot, accepted, orphans>>

Pending == {"scheduled", "failed_retry"}
Stopped == {"failed", "quarantined", "cancelled"}
(* TERMINAL_DELIVERY_STATUSES; "missing" and "deleted_external" are set    *)
(* by the statistics jobs, which this module leaves out.                  *)
Settled == {"published", "published_unverified"}
Status  == Pending \cup Stopped \cup Settled \cup {"publishing"}

PostRow ==
    [status   : Status,
     rev      : Nat,                             \* schedule_revision
     attempts : Nat,
     lease    : Worker \cup {NoLease},           \* publish_lease_token
     started  : BOOLEAN,                         \* provider_started_at is not null
     stuck    : BOOLEAN,                         \* publish_started_at older than 15 minutes
     due      : {"early", "window", "overdue"},  \* scheduled_at against the claim window
     retryAt  : {"none", "later", "due"},        \* next_attempt_at
     recon    : {"none", "pending", "unresolved", "confirmed"},
     key      : RetryKey \cup {NoKey}]           \* last_retry_key

Request ==
    [kind : {"site", "admin", "bot"}, post : Post, rev : Nat,
     from : {"scheduled", "failed_retry", "failed", "quarantined"},
     key  : RetryKey \cup {NoKey}]

Slot ==
    [pc       : {"idle", "claimed", "identity", "calling", "answered", "retrying"},
     post     : Post \cup {NoPost},
     rev      : Nat,
     attempts : Nat,
     answer   : {"none", "ok", "no_id", "unknown", "refused", "auth_failed"}]

IdleSlot == [pc |-> "idle", post |-> NoPost, rev |-> 0, attempts |-> 0, answer |-> "none"]

TypeOK ==
    /\ post \in [Post -> PostRow]
    /\ operation \in [rev : Nat, cancelled : BOOLEAN]
    /\ jobs \in SUBSET (Post \X Nat)
    /\ requests \in SUBSET Request
    /\ slot \in [Worker -> Slot]
    /\ accepted \in [Post -> Nat]
    /\ orphans \in [Post -> Nat]

-----------------------------------------------------------------------------
(* POST /api/publication-operations has committed: the operation, its     *)
(* posts and their outbox rows exist; nothing has been enqueued yet.      *)
NewPost ==
    [status |-> "scheduled", rev |-> 1, attempts |-> 0, lease |-> NoLease,
     started |-> FALSE, stuck |-> FALSE, due |-> "early", retryAt |-> "none",
     recon |-> "none", key |-> NoKey]

Init ==
    /\ post = [p \in Post |-> NewPost]
    /\ operation = [rev |-> 1, cancelled |-> FALSE]
    /\ jobs = {}
    /\ requests = {}
    /\ slot = [w \in Worker |-> IdleSlot]
    /\ accepted = [p \in Post |-> 0]
    /\ orphans = [p \in Post |-> 0]

Put(p, row) == post' = [post EXCEPT ![p] = row]

-----------------------------------------------------------------------------
(* The publish handler.                                                   *)

(* The two conditional updates of claimPublicationLease.                  *)
Claimable(p, r) ==
    /\ post[p].rev = r
    /\ \/ post[p].status = "scheduled" /\ post[p].due = "window"
       \/ post[p].status = "failed_retry" /\ post[p].retryAt = "due"

(* A handler takes a job and claims its post.  A job whose post is not    *)
(* claimable ends with no effect.                                         *)
Claim(w, p, r) ==
    /\ slot[w].pc = "idle"
    /\ <<p, r>> \in jobs
    /\ Claimable(p, r)
    /\ Put(p, [post[p] EXCEPT !.status = "publishing", !.lease = w,
                              !.started = FALSE, !.stuck = FALSE])
    /\ slot' = [slot EXCEPT ![w] =
                   [pc |-> "claimed", post |-> p, rev |-> r,
                    attempts |-> post[p].attempts, answer |-> "none"]]
    /\ UNCHANGED <<operation, jobs, requests, accepted, orphans>>

(* Mutant: results are written by post id alone.                          *)
HoldsById(w) == post[slot[w].post].status \in Status

(* Every write of a result ends in `and publish_lease_token = $n`.        *)
Holds(w) == post[slot[w].post].lease = w

Record(w, row) ==
    IF Holds(w) THEN Put(slot[w].post, row) ELSE UNCHANGED post

Leave(w) == slot' = [slot EXCEPT ![w] = IdleSlot]

Goto(w, pc) == slot' = [slot EXCEPT ![w].pc = pc]

(* The network of the channel cannot be written to: a terminal failure    *)
(* before any external call.                                              *)
BlockUnsupported(w) ==
    /\ slot[w].pc = "claimed"
    /\ LET row == post[slot[w].post] IN
       Record(w, [row EXCEPT !.status = "failed", !.attempts = row.attempts + 1,
                             !.lease = NoLease, !.retryAt = "none", !.recon = "none"])
    /\ Leave(w)
    /\ UNCHANGED <<operation, jobs, requests, accepted, orphans>>

(* The channel is inactive or lacks the fields its network needs.         *)
BlockDisconnected(w) ==
    /\ slot[w].pc = "claimed"
    /\ Record(w, [post[slot[w].post] EXCEPT !.status = "failed", !.lease = NoLease])
    /\ Leave(w)
    /\ UNCHANGED <<operation, jobs, requests, accepted, orphans>>

(* Mutant: the handler trusts its claim and marks the call unconditionally.*)
BeginUnfenced(w) ==
    LET p == slot[w].post IN
    /\ slot[w].pc = "claimed"
    /\ Put(p, [post[p] EXCEPT !.started = TRUE])
    /\ Goto(w, IF p \in Vk THEN "identity" ELSE "calling")
    /\ UNCHANGED <<operation, jobs, requests, accepted, orphans>>

(* beginProviderCall: the last fence before the first external byte.  VK  *)
(* saves the identity of the call first.                                  *)
BeginProviderCall(w) ==
    LET p == slot[w].post IN
    /\ slot[w].pc = "claimed"
    /\ IF /\ post[p].status = "publishing"
          /\ post[p].rev = slot[w].rev
          /\ Holds(w)
          /\ ~post[p].started
       THEN /\ Put(p, [post[p] EXCEPT !.started = TRUE])
            /\ Goto(w, IF p \in Vk THEN "identity" ELSE "calling")
       ELSE /\ Leave(w)
            /\ UNCHANGED post
    /\ UNCHANGED <<operation, jobs, requests, accepted, orphans>>

(* provider_operation_id is saved under the lease and the revision, or    *)
(* the handler returns without calling VK.                                *)
SaveVkIdentity(w) ==
    LET p == slot[w].post IN
    /\ slot[w].pc = "identity"
    /\ IF Holds(w) /\ post[p].rev = slot[w].rev
       THEN /\ Put(p, [post[p] EXCEPT !.recon = "none"])
            /\ Goto(w, "calling")
       ELSE /\ Leave(w)
            /\ UNCHANGED post
    /\ UNCHANGED <<operation, jobs, requests, accepted, orphans>>

Answered(w, answer) ==
    slot' = [slot EXCEPT ![w].pc = "answered", ![w].answer = answer]

(* The network published the message and its reply arrived, with or       *)
(* without an identifier.                                                 *)
NetworkAccepts(w) ==
    LET p == slot[w].post IN
    /\ slot[w].pc = "calling"
    /\ accepted' = [accepted EXCEPT ![p] = @ + 1]
    /\ \E answer \in {"ok", "no_id"} : Answered(w, answer)
    /\ UNCHANGED <<post, operation, jobs, requests, orphans>>

(* The network refused: a confirmed client error, or credentials it does  *)
(* not take.                                                              *)
NetworkRefuses(w) ==
    /\ slot[w].pc = "calling"
    /\ \E answer \in {"refused", "auth_failed"} : Answered(w, answer)
    /\ UNCHANGED <<post, operation, jobs, requests, accepted, orphans>>

(* No usable reply came back (timeout, reset, 5xx, an exception of the    *)
(* adapter); the request may still be on its way.                         *)
ReplyIsLost(w) ==
    LET p == slot[w].post IN
    /\ slot[w].pc = "calling"
    /\ Answered(w, "unknown")
    /\ orphans' = [orphans EXCEPT ![p] = @ + 1]
    /\ UNCHANGED <<post, operation, jobs, requests, accepted>>

(* The network publishes a request nobody waits for any more.             *)
OrphanAccepted(p) ==
    /\ orphans[p] > 0
    /\ orphans' = [orphans EXCEPT ![p] = @ - 1]
    /\ accepted' = [accepted EXCEPT ![p] = @ + 1]
    /\ UNCHANGED <<post, operation, jobs, requests, slot>>

RecordAuthFailure(w) ==
    /\ slot[w].pc = "answered"
    /\ slot[w].answer = "auth_failed"
    /\ LET row == post[slot[w].post] IN
       Record(w, [row EXCEPT !.status = "failed", !.attempts = row.attempts + 1,
                             !.lease = NoLease, !.retryAt = "none"])
    /\ Leave(w)
    /\ UNCHANGED <<operation, jobs, requests, accepted, orphans>>

(* Mutant: a timeout is recorded as a failure that may be tried again.    *)
RecordUnknownAsFailure(w) ==
    /\ slot[w].pc = "answered"
    /\ slot[w].answer \in {"unknown", "no_id"}
    /\ LET row == post[slot[w].post] IN
       Record(w, [row EXCEPT !.status = "failed", !.attempts = row.attempts + 1,
                             !.lease = NoLease, !.retryAt = "none"])
    /\ Leave(w)
    /\ UNCHANGED <<operation, jobs, requests, accepted, orphans>>

(* The result is unknown, or a success without an identifier.             *)
RecordUnknown(w) ==
    /\ slot[w].pc = "answered"
    /\ slot[w].answer \in {"unknown", "no_id"}
    /\ LET row == post[slot[w].post] IN
       Record(w, [row EXCEPT !.status = "published_unverified",
                             !.attempts = row.attempts + 1, !.recon = "pending",
                             !.lease = NoLease, !.retryAt = "none"])
    /\ Leave(w)
    /\ UNCHANGED <<operation, jobs, requests, accepted, orphans>>

RecordPublished(w) ==
    /\ slot[w].pc = "answered"
    /\ slot[w].answer = "ok"
    /\ LET row == post[slot[w].post] IN
       Record(w, [row EXCEPT !.status = "published", !.attempts = row.attempts + 1,
                             !.recon = "confirmed", !.lease = NoLease, !.retryAt = "none"])
    /\ Leave(w)
    /\ UNCHANGED <<operation, jobs, requests, accepted, orphans>>

(* A refusal with attempts left: the row waits for its next attempt, and  *)
(* the retry job is added whether or not the row was still ours.          *)
RecordRetry(w) ==
    LET attempts == slot[w].attempts + 1 IN
    /\ slot[w].pc = "answered"
    /\ slot[w].answer = "refused"
    /\ attempts < MaxAttempts
    /\ Record(w, [post[slot[w].post] EXCEPT !.status = "failed_retry",
                       !.attempts = attempts, !.lease = NoLease, !.retryAt = "later"])
    /\ Goto(w, "retrying")
    /\ UNCHANGED <<operation, jobs, requests, accepted, orphans>>

RetryEnqueued(w) ==
    /\ slot[w].pc = "retrying"
    /\ jobs' = jobs \cup {<<slot[w].post, slot[w].rev>>}
    /\ Leave(w)
    /\ UNCHANGED <<post, operation, requests, accepted, orphans>>

(* queue.add threw, although Redis may have taken the job: the row fails, *)
(* if it (still, or again) waits for a retry.                             *)
RetryQueueDown(w) ==
    LET p == slot[w].post IN
    /\ slot[w].pc = "retrying"
    /\ IF post[p].status = "failed_retry"
       THEN Put(p, [post[p] EXCEPT !.status = "failed", !.retryAt = "none"])
       ELSE UNCHANGED post
    /\ \E landed \in SUBSET {<<p, slot[w].rev>>} : jobs' = jobs \cup landed
    /\ Leave(w)
    /\ UNCHANGED <<operation, requests, accepted, orphans>>

RecordGiveUp(w) ==
    LET attempts == slot[w].attempts + 1 IN
    /\ slot[w].pc = "answered"
    /\ slot[w].answer = "refused"
    /\ attempts >= MaxAttempts
    /\ Record(w, [post[slot[w].post] EXCEPT !.status = "failed",
                       !.attempts = attempts, !.lease = NoLease])
    /\ Leave(w)
    /\ UNCHANGED <<operation, jobs, requests, accepted, orphans>>

(* The process dies, or a statement of the handler throws.  A request     *)
(* already sent stays on the wire.                                        *)
Crash(w) ==
    LET p == slot[w].post IN
    /\ slot[w].pc # "idle"
    /\ orphans' = IF slot[w].pc = "calling" THEN [orphans EXCEPT ![p] = @ + 1] ELSE orphans
    /\ Leave(w)
    /\ UNCHANGED <<post, operation, jobs, requests, accepted>>

HandlerStep(w) ==
    \/ \E p \in Post, r \in 1..(MaxRevision + 1) : Claim(w, p, r)
    \/ BlockUnsupported(w) \/ BlockDisconnected(w)
    \/ BeginProviderCall(w) \/ SaveVkIdentity(w)
    \/ NetworkAccepts(w) \/ NetworkRefuses(w) \/ ReplyIsLost(w)
    \/ RecordAuthFailure(w) \/ RecordUnknown(w) \/ RecordPublished(w)
    \/ RecordRetry(w) \/ RetryEnqueued(w) \/ RetryQueueDown(w) \/ RecordGiveUp(w)
    \/ Crash(w)

-----------------------------------------------------------------------------
(* Timers of the worker.                                                  *)

(* The outbox and the schedule reconciler hand the queue a job for the    *)
(* revision the row has.                                                  *)
Dispatch(p) ==
    /\ <<p, post[p].rev>> \notin jobs
    /\ jobs' = jobs \cup {<<p, post[p].rev>>}
    /\ UNCHANGED <<post, operation, requests, slot, accepted, orphans>>

(* reclaimStuckPosts, first statement: nothing was sent; a person decides.*)
ReclaimUnsent(p) ==
    /\ post[p].status = "publishing"
    /\ ~post[p].started
    /\ post[p].stuck
    /\ Put(p, [post[p] EXCEPT !.status = "quarantined", !.rev = post[p].rev + 1,
                              !.lease = NoLease, !.stuck = FALSE])
    /\ UNCHANGED <<operation, jobs, requests, slot, accepted, orphans>>

(* Mutant: the second statement repeats the condition of the first.       *)
ReclaimOnlyUnsent(p) ==
    /\ post[p].status = "publishing"
    /\ ~post[p].started
    /\ post[p].stuck
    /\ Put(p, [post[p] EXCEPT !.status = "published_unverified", !.lease = NoLease])
    /\ UNCHANGED <<operation, jobs, requests, slot, accepted, orphans>>

(* Mutant: a started call that hangs is put before a person like the rest.*)
ReclaimAsQuarantined(p) ==
    /\ post[p].status = "publishing"
    /\ post[p].started
    /\ post[p].stuck
    /\ Put(p, [post[p] EXCEPT !.status = "quarantined", !.lease = NoLease])
    /\ UNCHANGED <<operation, jobs, requests, slot, accepted, orphans>>

(* Mutant: the word of the verification column lands in the status.      *)
ReclaimAsUnverified(p) ==
    /\ post[p].status = "publishing"
    /\ post[p].started
    /\ post[p].stuck
    /\ Put(p, [post[p] EXCEPT !.status = "unverified", !.lease = NoLease])
    /\ UNCHANGED <<operation, jobs, requests, slot, accepted, orphans>>

(* Second statement: something may have been sent.                        *)
ReclaimUnknown(p) ==
    /\ post[p].status = "publishing"
    /\ post[p].started
    /\ post[p].stuck
    /\ Put(p, [post[p] EXCEPT !.status = "published_unverified", !.lease = NoLease])
    /\ UNCHANGED <<operation, jobs, requests, slot, accepted, orphans>>

(* Mutant: only posts never tried before are looked at.                   *)
QuarantineUntried(p) ==
    /\ post[p].status = "scheduled"
    /\ post[p].due = "overdue"
    /\ post[p].attempts = 0
    /\ Put(p, [post[p] EXCEPT !.status = "quarantined", !.retryAt = "none"])
    /\ UNCHANGED <<operation, jobs, requests, slot, accepted, orphans>>

QuarantineOverdue(p) ==
    /\ post[p].status = "scheduled"
    /\ post[p].due = "overdue"
    /\ Put(p, [post[p] EXCEPT !.status = "quarantined", !.retryAt = "none"])
    /\ UNCHANGED <<operation, jobs, requests, slot, accepted, orphans>>

(* Mutant: an unknown post is confirmed whatever the wall shows.          *)
ReconcileVkBlindly(p) ==
    /\ p \in Vk
    /\ post[p].status = "published_unverified"
    /\ post[p].recon \in {"pending", "unresolved"}
    /\ post[p].started
    /\ Put(p, [post[p] EXCEPT !.status = "published", !.recon = "confirmed"])
    /\ UNCHANGED <<operation, jobs, requests, slot, accepted, orphans>>

(* The daily VK job looks for an unknown post on the community wall.      *)
ReconcileVk(p) ==
    /\ p \in Vk
    /\ post[p].status = "published_unverified"
    /\ post[p].recon \in {"pending", "unresolved"}
    /\ post[p].started
    /\ \/ /\ accepted[p] > 0
          /\ Put(p, [post[p] EXCEPT !.status = "published", !.recon = "confirmed"])
       \/ Put(p, [post[p] EXCEPT !.recon = "unresolved"])
    /\ UNCHANGED <<operation, jobs, requests, slot, accepted, orphans>>

(* Time moves a timestamp of the row into its next zone.                  *)
TimePasses(p) ==
    /\ \/ /\ post[p].due # "overdue"
          /\ Put(p, [post[p] EXCEPT !.due = IF @ = "early" THEN "window" ELSE "overdue"])
       \/ /\ post[p].retryAt = "later"
          /\ Put(p, [post[p] EXCEPT !.retryAt = "due"])
       \/ /\ post[p].status = "publishing"
          /\ ~post[p].stuck
          /\ Put(p, [post[p] EXCEPT !.stuck = TRUE])
    /\ UNCHANGED <<operation, jobs, requests, slot, accepted, orphans>>

TimerStep(p) ==
    \/ Dispatch(p) \/ ReclaimUnsent(p) \/ ReclaimUnknown(p)
    \/ QuarantineOverdue(p) \/ ReconcileVk(p)
    \/ TimePasses(p) \/ OrphanAccepted(p)

-----------------------------------------------------------------------------
(* Requests of people.                                                    *)

(* Mutant: the fence looks at delivered posts only.                       *)
FenceOnDeliveredOnly == \A p \in Post : post[p].status \notin Settled

(* deliveryFenceFailure finds neither a started call nor a delivered post.*)
DeliveryFenceOpen ==
    \A p \in Post :
        /\ ~(post[p].status = "publishing" /\ post[p].started)
        /\ post[p].status \notin Settled

(* Both mutations of the operation lock it, then every post of it, and    *)
(* refuse a caller who read another revision.                             *)
CancelOperation(expectedRevision) ==
    LET revision == operation.rev + 1 IN
    /\ operation.rev = expectedRevision
    /\ DeliveryFenceOpen
    /\ operation' = [rev |-> revision, cancelled |-> TRUE]
    /\ post' = [p \in Post |-> [post[p] EXCEPT
                   !.status = "cancelled", !.rev = revision, !.lease = NoLease,
                   !.started = FALSE, !.stuck = FALSE, !.retryAt = "none"]]
    /\ UNCHANGED <<jobs, requests, slot, accepted, orphans>>

RescheduleOperation(expectedRevision) ==
    LET revision == operation.rev + 1 IN
    /\ operation.rev = expectedRevision
    /\ DeliveryFenceOpen
    /\ operation' = [rev |-> revision, cancelled |-> FALSE]
    /\ post' = [p \in Post |-> [post[p] EXCEPT
                   !.status = "scheduled", !.rev = revision, !.attempts = 0,
                   !.lease = NoLease, !.started = FALSE, !.stuck = FALSE,
                   !.due = "early", !.retryAt = "none", !.recon = "none"]]
    /\ UNCHANGED <<jobs, requests, slot, accepted, orphans>>

(* Room for one more request, and one more revision, in the model.        *)
RoomFor(p) ==
    /\ Cardinality(requests) < MaxRequests
    /\ post[p].rev < MaxRevision

(* POST /api/posts/:id/retry                                              *)
RetryFromSite(p, k) ==
    /\ RoomFor(p)
    /\ post[p].status \in {"failed", "quarantined"}
    /\ Put(p, [post[p] EXCEPT !.status = "scheduled", !.key = k, !.due = "early",
                  !.retryAt = "none", !.rev = post[p].rev + 1, !.recon = "none"])
    /\ requests' = requests \cup
          {[kind |-> "site", post |-> p, rev |-> post[p].rev + 1,
            from |-> post[p].status, key |-> k]}
    /\ UNCHANGED <<operation, jobs, slot, accepted, orphans>>

(* The button of the bot's failure notice.  Neither the revision nor the  *)
(* time of the post changes.                                              *)
RetryFromBot(p, k) ==
    /\ Cardinality(requests) < MaxRequests
    /\ post[p].attempts <= MaxAttempts       \* bound of the model
    /\ post[p].status = "failed"
    /\ Put(p, [post[p] EXCEPT !.status = "scheduled", !.key = k])
    /\ requests' = requests \cup
          {[kind |-> "bot", post |-> p, rev |-> 1, from |-> "failed", key |-> k]}
    /\ UNCHANGED <<operation, jobs, slot, accepted, orphans>>

(* moveAdminPublication, for "retry now" and for "reschedule".            *)
MoveByAdmin(p, allowed, due) ==
    /\ RoomFor(p)
    /\ post[p].lease = NoLease
    /\ post[p].status \in allowed
    /\ Put(p, [post[p] EXCEPT !.status = "scheduled", !.due = due,
                  !.rev = post[p].rev + 1, !.retryAt = "none"])
    /\ requests' = requests \cup
          {[kind |-> "admin", post |-> p, rev |-> post[p].rev + 1,
            from |-> post[p].status, key |-> NoKey]}
    /\ UNCHANGED <<operation, jobs, slot, accepted, orphans>>

RetryByAdmin(p) == MoveByAdmin(p, {"failed", "quarantined", "failed_retry"}, "window")

RescheduleByAdmin(p) ==
    \E due \in {"early", "window"} :
        MoveByAdmin(p, {"scheduled", "failed", "quarantined", "failed_retry"}, due)

CancelByAdmin(p) ==
    /\ post[p].rev < MaxRevision             \* bound of the model
    /\ post[p].lease = NoLease
    /\ post[p].status \in {"scheduled", "failed_retry", "failed", "quarantined"}
    /\ Put(p, [post[p] EXCEPT !.status = "cancelled", !.rev = post[p].rev + 1,
                              !.retryAt = "none"])
    /\ UNCHANGED <<operation, jobs, requests, slot, accepted, orphans>>

(* queue.add of a retry request succeeds.  The bot's job carries no       *)
(* revision, which duePublicationRevision reads as 1.                     *)
RetryJobAdded(q) ==
    /\ jobs' = jobs \cup {<<q.post, q.rev>>}
    /\ requests' = requests \ {q}
    /\ UNCHANGED <<post, operation, slot, accepted, orphans>>

(* queue.add throws, and the request takes its own transition back, if    *)
(* the row is still as it left it.                                        *)
Compensated(q) ==
    LET row == post[q.post] IN
    CASE q.kind = "site"  -> IF row.rev = q.rev /\ row.key = q.key
                             THEN [row EXCEPT !.status = "failed", !.key = NoKey]
                             ELSE row
      [] q.kind = "bot"   -> IF row.key = q.key
                             THEN [row EXCEPT !.status = "failed", !.key = NoKey]
                             ELSE row
      [] q.kind = "admin" -> IF row.rev = q.rev
                             THEN [row EXCEPT !.retryAt = "none", !.status =
                                     IF q.from = "failed_retry" THEN "failed" ELSE q.from]
                             ELSE row

RetryJobRefused(q) ==
    /\ IF post[q.post].status = "scheduled"
       THEN Put(q.post, Compensated(q))
       ELSE UNCHANGED post
    /\ \E landed \in SUBSET {<<q.post, q.rev>>} : jobs' = jobs \cup landed
    /\ requests' = requests \ {q}
    /\ UNCHANGED <<operation, slot, accepted, orphans>>

(* The process that serves the request dies before queue.add.             *)
RequestDies(q) ==
    /\ requests' = requests \ {q}
    /\ UNCHANGED <<post, operation, jobs, slot, accepted, orphans>>

PersonStep ==
    \/ \E r \in 1..(MaxRevision - 1) : CancelOperation(r) \/ RescheduleOperation(r)
    \/ \E p \in Post, k \in RetryKey : RetryFromSite(p, k) \/ RetryFromBot(p, k)
    \/ \E p \in Post : RetryByAdmin(p) \/ RescheduleByAdmin(p) \/ CancelByAdmin(p)
    \/ \E q \in requests : RetryJobAdded(q) \/ RetryJobRefused(q) \/ RequestDies(q)

-----------------------------------------------------------------------------
Next ==
    \/ \E w \in Worker : HandlerStep(w)
    \/ \E p \in Post : TimerStep(p)
    \/ PersonStep

Spec == Init /\ [][Next]_vars

(* What runs by itself: time, the repair timers (every 60 s).  No         *)
(* fairness of the queue, of the handlers or of people is assumed.        *)
Fairness ==
    \A p \in Post :
        /\ WF_vars(TimePasses(p))
        /\ WF_vars(ReclaimUnsent(p))
        /\ WF_vars(ReclaimUnknown(p))
        /\ WF_vars(QuarantineOverdue(p))

FairSpec == Spec /\ Fairness

-----------------------------------------------------------------------------
(* What the pipeline must guarantee.                                      *)

(* No post is published twice, whatever crashes, is delivered twice, is   *)
(* retried, rescheduled or reclaimed: the claim, the provider fence and   *)
(* the lease on every result write together keep the network at one.      *)
AtMostOneDelivery == \A p \in Post : accepted[p] <= 1

(* A row that may be tried again, or that tells its author nothing went   *)
(* out, belongs to a post of which nothing is published and no request    *)
(* is still on the wire.                                                  *)
RetryableIsUnsent ==
    \A p \in Post : post[p].status \in Pending \cup Stopped =>
        /\ accepted[p] = 0
        /\ orphans[p] = 0
        /\ \A w \in Worker : ~(slot[w].pc = "calling" /\ slot[w].post = p)

(* While a handler talks to the network, no cancel, reschedule, retry or  *)
(* second claim gets hold of its post: the row is still its own, or the   *)
(* repair timer has closed it as delivered-or-unknown.                    *)
InFlightIsProtected ==
    \A w \in Worker : slot[w].pc \in {"identity", "calling", "answered"} =>
        LET p == slot[w].post IN
        \/ post[p].status = "publishing" /\ post[p].started /\ Holds(w)
        \/ post[p].status \in Settled

(* The calendar shows "published" only for what the network published.    *)
PublishedIsReal ==
    \A p \in Post : post[p].status = "published" => accepted[p] = 1

(* Once an operation is cancelled nothing of it is ever published and     *)
(* every post of it stays cancelled, until the operation is rescheduled:  *)
(* no handler that was under way, no late compensation of a retry and no  *)
(* timer revives one of them.                                             *)
CancelSticks ==
    operation.cancelled =>
        \A p \in Post : post[p].status = "cancelled" /\ accepted[p] = 0

(* From the moment one destination has the message, even before anybody   *)
(* recorded it, the operation can be neither cancelled nor rescheduled.   *)
DeliveryFixesOperation ==
    [][(\E p \in Post : accepted[p] > 0) => operation' = operation]_vars

(* No step of the system, automatic or human, takes a delivered or        *)
(* unknown post back to a state from which it could be sent again.        *)
SettledIsFinal ==
    [][\A p \in Post : post[p].status \in Settled => post'[p].status \in Settled]_vars

(* A post does not hang in "publishing" when its handler dies.            *)
PublishingEnds ==
    \A p \in Post : post[p].status = "publishing" ~> post[p].status # "publishing"

(* A scheduled time is not an indefinite authorisation: a post is taken   *)
(* up in its window or is put before a person.                            *)
ScheduledEnds ==
    \A p \in Post : post[p].status = "scheduled" ~> post[p].status # "scheduled"

(* The bot's own rule: "Unknown publication outcomes (`publishing` and     *)
(* `published_unverified`) must go through reconciliation instead of      *)
(* another send" - an unknown VK post is in the state the daily           *)
(* reconciliation selects.                                                *)
UnknownReachesReconciliation ==
    \A p \in Vk : post[p].status = "published_unverified" =>
        post[p].recon \in {"pending", "unresolved"}

(* The promise of DeliveryPromise, with this reading of a row.            *)
PhaseOf(p) ==
    CASE post[p].status \in Pending -> "waiting"
      [] post[p].status \in Stopped -> "withdrawn"
      [] post[p].status = "publishing" /\ ~post[p].started -> "waiting"
      [] OTHER -> "out"

Promise == INSTANCE DeliveryPromise
              WITH phase <- [p \in Post |-> PhaseOf(p)], sent <- accepted

KeepsPromise == Promise!Spec
=============================================================================
