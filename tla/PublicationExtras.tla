------------------------- MODULE PublicationExtras -------------------------
(* What follows a published post: a first comment, then a pin.  Each is a *)
(* row with an outbox row of its own; a worker runs it under a lease of   *)
(* two minutes that nobody renews.  Telegram has no idempotency key for a *)
(* comment, so the row remembers that the request was begun, and a        *)
(* comment begun once is not sent again unless a person has looked.       *)
(*                                                                        *)
(* Limits of the model:                                                   *)
(*  - One published Telegram post.  configure_comments and unpin take the *)
(*    same path as the pin, and the comment of VK has a guid.              *)
(*  - A dispatch, from the taken outbox row to the recorded answer, is one *)
(*    step; its own lease is that of ProjectExport.                        *)
(*  - A job once added may be delivered at any time, any number of times, *)
(*    or never, and any attempt may be its last.  A lease may lapse at any *)
(*    time.                                                               *)
EXTENDS Naturals

CONSTANTS
    ExtraWorker,
    NoExtraWorker,
    LastConfirmation    \* bound of the model on the times a person confirms an absence

ASSUME ExtrasAssumption == NoExtraWorker \notin ExtraWorker /\ LastConfirmation \in Nat

Extra == {"comment", "pin"}     \* kinds, in the order of sequence_index

VARIABLES
    extra,        \* publication_extra_operations
    extraOutbox,  \* publication_extra_outbox.status
    queuedExtra,  \* the kinds whose job is in the queue
    extraWorker,  \* the attempts under way
    comments,     \* ghost: comments in the discussion
    confirmed     \* ghost: times a person said that no comment is there

extrasVars == <<extra, extraOutbox, queuedExtra, extraWorker, comments, confirmed>>

ExtraRow ==
    [status  : {"waiting", "pending", "queued", "running", "failed_retry", "failed", "succeeded"},
     lease   : ExtraWorker \cup {NoExtraWorker},
     started : BOOLEAN,                        \* provider_started_at is set
     unsure  : BOOLEAN]                        \* last_error_code is one of the two "delivery unknown"

ExtraAttempt ==
    [pc   : {"idle", "claimed", "begun", "ok", "error", "unknown", "refused", "done"},
     kind : Extra,
     seen : BOOLEAN]                           \* until the call: provider_started_at as the claim returned it

ExtrasTypeOK ==
    /\ extra \in [Extra -> ExtraRow]
    /\ extraOutbox \in [Extra -> {"absent", "pending", "enqueued", "failed", "completed"}]
    /\ queuedExtra \subseteq Extra /\ extraWorker \in [ExtraWorker -> ExtraAttempt]
    /\ comments \in Nat /\ confirmed \in 0..LastConfirmation

IdleAttempt == [pc |-> "idle", kind |-> "comment", seen |-> FALSE]

ExtrasInit ==
    /\ extra = [k \in Extra |-> [status |-> "waiting", lease |-> NoExtraWorker,
                                 started |-> FALSE, unsure |-> FALSE]]
    /\ extraOutbox = [k \in Extra |-> "absent"] /\ queuedExtra = {}
    /\ extraWorker = [w \in ExtraWorker |-> IdleAttempt]
    /\ comments = 0 /\ confirmed = 0

Over(k) == extra[k].status \in {"failed", "succeeded"}
Runnable == {"pending", "queued", "failed_retry"}

(* The row leaves its worker.                                              *)
Released(k, status, unsure) ==
    [extra[k] EXCEPT !.status = status, !.lease = NoExtraWorker, !.unsure = unsure]

--------------------------------------------------------------------------
(* The order, and the queue.                                               *)
NextInOrder(k) ==
    /\ extra[k].status \in {"waiting"} \cup Runnable
    /\ k = "pin" => Over("comment")

(* activateNextPublicationExtra, on the outbox rows given: the first       *)
(* unfinished extra whose earlier ones are over, if there is one.          *)
ActivateNext(rows) ==
    \/ \E k \in Extra :
         /\ NextInOrder(k)
         /\ extra' = [extra EXCEPT ![k].status = IF @ = "waiting" THEN "pending" ELSE @]
         /\ extraOutbox' = [rows EXCEPT ![k] = IF @ \in {"absent", "failed"} THEN "pending" ELSE @]
    \/ ~(\E k \in Extra : NextInOrder(k)) /\ extraOutbox' = rows /\ UNCHANGED extra

(* After the publication, and by the timer.                                *)
RuntimeActivates ==
    ActivateNext(extraOutbox) /\ UNCHANGED <<queuedExtra, extraWorker, comments, confirmed>>

DispatchExtra(k) ==
    /\ extra[k].status \in Runnable /\ extraOutbox[k] \in {"pending", "failed", "enqueued"}
    /\ \/ /\ extraOutbox' = [extraOutbox EXCEPT ![k] = "enqueued"] /\ queuedExtra' = queuedExtra \cup {k}
          /\ extra' = [extra EXCEPT ![k].status = "queued", ![k].unsure = FALSE]
       \/ /\ extraOutbox' = [extraOutbox EXCEPT ![k] = "failed"] /\ UNCHANGED queuedExtra
          /\ extra' = [extra EXCEPT ![k].status = "failed_retry", ![k].unsure = FALSE]
       \/ /\ extraOutbox' = [extraOutbox EXCEPT ![k] = "completed"] /\ UNCHANGED queuedExtra
          /\ extra' = [extra EXCEPT ![k].status = "failed", ![k].unsure = FALSE]
    /\ UNCHANGED <<extraWorker, comments, confirmed>>

--------------------------------------------------------------------------
(* One attempt.                                                            *)
Proceeds(w, pc) == extraWorker' = [extraWorker EXCEPT ![w].pc = pc, ![w].seen = FALSE]

ClaimExtra(w, k) ==
    /\ extraWorker[w].pc = "idle" /\ k \in queuedExtra /\ extra[k].status \in Runnable
    /\ extra' = [extra EXCEPT ![k].status = "running", ![k].lease = w]
    /\ extraWorker' = [extraWorker EXCEPT ![w] =
                         [pc |-> "claimed", kind |-> k, seen |-> extra[k].started]]
    /\ UNCHANGED <<extraOutbox, queuedExtra, comments, confirmed>>

HoldsExtra(w) == extra[extraWorker[w].kind].status = "running" /\ extra[extraWorker[w].kind].lease = w

\* A defect CommentNeedsConfirmation excludes: only the reclaimed row tells a begun comment.
BegunBeforeIgnored(w) == FALSE

(* A comment that some attempt began.                                      *)
BegunBefore(w) == extraWorker[w].kind = "comment" /\ extraWorker[w].seen

(* The checks before the call; the discussion may not be known yet.  The   *)
(* mark is written under the lease, and nobody calls without it; that of a *)
(* Telegram pin is read by nobody and left out.                           *)
BeginCall(w) ==
    LET k == extraWorker[w].kind IN
    /\ extraWorker[w].pc = "claimed"
    /\ \/ BegunBefore(w) /\ Proceeds(w, "unknown") /\ UNCHANGED extra
       \/ ~BegunBefore(w) /\ Proceeds(w, "error") /\ UNCHANGED extra      \* also: the lease is gone
       \/ /\ ~BegunBefore(w) /\ HoldsExtra(w)
          /\ extra' = [extra EXCEPT ![k].started = (k = "comment")] /\ Proceeds(w, "begun")
    /\ UNCHANGED <<extraOutbox, queuedExtra, comments, confirmed>>

(* The provider carries out the call or refuses it; what is lost on the way *)
(* back counts as unknown for a comment and as an error for a pin.         *)
CallExtraProvider(w) ==
    /\ extraWorker[w].pc = "begun"
    /\ \/ /\ comments' = IF extraWorker[w].kind = "comment" THEN comments + 1 ELSE comments
          /\ Proceeds(w, "ok") \/ Proceeds(w, IF extraWorker[w].kind = "comment" THEN "unknown" ELSE "error")
       \/ /\ Proceeds(w, "refused") \/ Proceeds(w, IF extraWorker[w].kind = "comment" THEN "unknown" ELSE "error")
          /\ UNCHANGED comments
    /\ UNCHANGED <<extra, extraOutbox, queuedExtra, confirmed>>

(* The result under the lease.  Without it, or when the database fails,    *)
(* the attempt ends as an error.                                          *)
SaveExtra(w) ==
    LET k == extraWorker[w].kind IN
    /\ extraWorker[w].pc = "ok"
    /\ \/ HoldsExtra(w) /\ extra' = [extra EXCEPT ![k] = Released(k, "succeeded", FALSE)] /\ Proceeds(w, "done")
       \/ Proceeds(w, "error") /\ UNCHANGED extra
    /\ UNCHANGED <<extraOutbox, queuedExtra, comments, confirmed>>

(* markTerminalAndContinue up to its first statement.  An error is tried   *)
(* again unless it was the last attempt.                                   *)
FailExtra(w) ==
    LET k == extraWorker[w].kind IN
    /\ extraWorker[w].pc \in {"error", "unknown", "refused"}
    /\ \/ /\ HoldsExtra(w) /\ extraWorker[w].pc = "error"
          /\ extra' = [extra EXCEPT ![k] = Released(k, "failed_retry", FALSE)]
          /\ extraWorker' = [extraWorker EXCEPT ![w] = IdleAttempt]
       \/ /\ HoldsExtra(w) /\ Proceeds(w, "done")
          /\ extra' = [extra EXCEPT ![k] = Released(k, "failed", extraWorker[w].pc = "unknown")]
       \/ /\ ~HoldsExtra(w) /\ extraWorker' = [extraWorker EXCEPT ![w] = IdleAttempt]
          /\ UNCHANGED extra
    /\ UNCHANGED <<extraOutbox, queuedExtra, comments, confirmed>>

(* The rest of both: the outbox row is completed, the next extra begins.   *)
(* What a death between the two leaves out, the timer does.                *)
ContinueOrder(w) ==
    /\ extraWorker[w].pc = "done" /\ extraWorker' = [extraWorker EXCEPT ![w] = IdleAttempt]
    /\ ActivateNext([extraOutbox EXCEPT ![extraWorker[w].kind] = "completed"])
    /\ UNCHANGED <<queuedExtra, comments, confirmed>>

ExtraWorkerDies(w) ==
    /\ extraWorker[w].pc # "idle" /\ extraWorker' = [extraWorker EXCEPT ![w] = IdleAttempt]
    /\ UNCHANGED <<extra, extraOutbox, queuedExtra, comments, confirmed>>

(* The timer, after two minutes: a comment that was begun is failed        *)
(* visibly, the rest is tried again.                                       *)
ReclaimExtra(k) ==
    LET ambiguous == k = "comment" /\ extra[k].started IN
    /\ extra[k].status = "running"
    /\ extra' = [extra EXCEPT ![k] = Released(k, IF ambiguous THEN "failed" ELSE "failed_retry", ambiguous)]
    /\ extraOutbox' = [extraOutbox EXCEPT ![k] = IF ambiguous THEN "completed" ELSE "failed"]
    /\ UNCHANGED <<queuedExtra, extraWorker, comments, confirmed>>

--------------------------------------------------------------------------
(* A person asks to try again; after an unknown delivery only by saying    *)
(* that the comment is not there, which clears the mark.                   *)
RetryExtra(k) ==
    LET ambiguous == k = "comment" /\ extra[k].started /\ extra[k].unsure IN
    /\ extra[k].status \in {"failed", "failed_retry"}
    /\ ambiguous => confirmed < LastConfirmation
    /\ confirmed' = IF ambiguous THEN confirmed + 1 ELSE confirmed
    /\ extra' = [extra EXCEPT ![k] = [Released(k, "pending", FALSE) EXCEPT !.started = @ /\ ~ambiguous]]
    /\ extraOutbox' = [extraOutbox EXCEPT ![k] = "pending"]
    /\ UNCHANGED <<queuedExtra, extraWorker, comments>>

ExtrasNext ==
    \/ RuntimeActivates
    \/ \E k \in Extra : DispatchExtra(k) \/ ReclaimExtra(k) \/ RetryExtra(k)
    \/ \E w \in ExtraWorker : \/ \E k \in Extra : ClaimExtra(w, k)
                              \/ BeginCall(w) \/ CallExtraProvider(w) \/ SaveExtra(w) \/ FailExtra(w)
                              \/ ContinueOrder(w) \/ ExtraWorkerDies(w)

ExtrasSpec == ExtrasInit /\ [][ExtrasNext]_extrasVars

(* Lost answers, lapsed leases, repeated jobs and retries never post a     *)
(* second first comment by themselves: each one beyond the first needed a  *)
(* person's word that none is there (publication-extra-worker.mjs:309).    *)
CommentNeedsConfirmation == comments <= 1 + confirmed
============================================================================
