------------------------- MODULE PublicationQueue -------------------------
(* Does a scheduled post reach the network in time?  One post, the outbox  *)
(* row and the timers that put its jobs into Redis, and a queue that       *)
(* identifies jobs by name, under a clock that counts minutes.            *)
(*                                                                        *)
(* Publication.tla lets the queue deliver anything at any time and asks   *)
(* that nothing goes wrong then.  Here the queue is the one BullMQ is,    *)
(* and the question is whether what should happen does.  The work of the  *)
(* publish handler is one action: its interleavings are Publication's     *)
(* subject, and a post is never in "publishing" here.                     *)
(*                                                                        *)
(* What the code does in seconds happens here within one minute: the 30 s *)
(* of a dispatch lease end by the next minute, and a row touched during   *)
(* one run of a one-minute timer is older than five minutes at the sixth  *)
(* run after it, not at the fifth.                                        *)
EXTENDS Naturals, FiniteSets

CONSTANTS
    Horizon,      \* bound of the model on the clock
    FirstTime,    \* the minute the operation is scheduled for
    Times,        \* the minutes a person may choose later
    Grace,        \* PUBLICATION_OVERDUE_GRACE_MS, in minutes
    Patience,     \* age at which an enqueued outbox row is replayed
    RetryDelay,   \* RETRY_DELAYS_MS, in minutes, by attempt
    MaxAttempts,
    SiteDelay,    \* how far ahead the retry button of the site schedules
    Requests,     \* who makes requests: "operation", "admin", "site", "bot"
    MaxAsks,      \* bound of the model on requests
    Faults,       \* what fails: "job_lost", "queue_down", "job_throws", "dispatcher_dies"
    MaxFaults,    \* bound of the model on failures
    Prompt        \* TRUE: timers and due jobs run within their minute

ASSUME TimesAssumption ==
    /\ Horizon \in Nat /\ FirstTime \in 1..Horizon /\ Times \subseteq 1..Horizon
    /\ Grace \in Nat /\ Patience \in Nat /\ SiteDelay \in Nat
ASSUME AttemptsAssumption ==
    MaxAttempts \in Nat \ {0} /\ RetryDelay \in [1..(MaxAttempts - 1) -> Nat \ {0}]
ASSUME BoundsAssumption == MaxAsks \in Nat /\ MaxFaults \in Nat

VARIABLES
    now,
    row,        \* the row of `posts`
    opRev,      \* schedule_revision of the operation
    outbox,     \* the row of `publication_outbox`
    sending,    \* dispatchers between their lease and their queue.add
    queue,      \* jobs Redis holds, by name
    asks,       \* requests made so far
    faults,     \* failures so far
    lastLoss,   \* the last minute in which something failed
    decided,    \* the minute the last decision about the post named
    wentOut     \* the minute of the provider call, 0 before it

vars == <<now, row, opRev, outbox, sending, queue, asks, faults, lastLoss, decided, wentOut>>
history == <<asks, faults, lastLoss, decided>>

Waiting == {"scheduled", "failed_retry"}

JobName == {"main", "manual", "bot"} \X Nat \X {0} \cup {"retry"} \X Nat \X Nat

TypeOK ==
    /\ now \in 1..Horizon
    /\ row \in [status : Waiting \cup {"failed", "quarantined", "cancelled",
                                       "published", "published_unverified"},
                rev : Nat, at : Nat, attempts : Nat, nextAt : Nat]
    /\ opRev \in Nat
    /\ outbox \in [status : {"pending", "dispatching", "enqueued", "failed", "cancelled"},
                   attempts : Nat, nextAt : Nat, touched : Nat]
    /\ sending \in SUBSET [rev : Nat, at : Nat, owns : BOOLEAN]
    /\ queue \in SUBSET [name : JobName, rev : Nat, runAt : Nat, state : {"waiting", "failed"}]
    /\ asks \in 0..MaxAsks /\ faults \in 0..MaxFaults
    /\ lastLoss \in Nat /\ decided \in Nat /\ wentOut \in Nat

(* POST /api/publication-operations has committed.                        *)
Init ==
    /\ now = 1
    /\ row = [status |-> "scheduled", rev |-> 1, at |-> FirstTime, attempts |-> 0, nextAt |-> 0]
    /\ opRev = 1
    /\ outbox = [status |-> "pending", attempts |-> 0, nextAt |-> 1, touched |-> 1]
    /\ sending = {} /\ queue = {}
    /\ asks = 0 /\ faults = 0 /\ lastLoss = 0
    /\ decided = FirstTime
    /\ wentOut = 0

Later(a, b) == IF a > b THEN a ELSE b

Fails(kind) ==
    /\ kind \in Faults
    /\ faults < MaxFaults
    /\ faults' = faults + 1
    /\ lastLoss' = now

-----------------------------------------------------------------------------
(* The queue.                                                             *)

(* queue.add with a name the queue already holds changes nothing, whether *)
(* that job waits or has failed and is kept (removeOnFail).               *)
Add(jobs, name, rev, runAt) ==
    IF \E j \in jobs : j.name = name
    THEN jobs
    ELSE jobs \cup {[name |-> name, rev |-> rev, runAt |-> runAt, state |-> "waiting"]}

Due(j) == j.state = "waiting" /\ j.runAt <= now

(* Redis forgets a job (a restart without persistence, an eviction).      *)
JobLost(j) ==
    /\ Fails("job_lost")
    /\ j.state = "waiting"
    /\ queue' = queue \ {j}
    /\ UNCHANGED <<now, row, opRev, outbox, sending, asks, decided, wentOut>>

-----------------------------------------------------------------------------
(* The publish handler, from job to result.                               *)

(* Mutant: the revision alone decides whether a job still counts.         *)
ClaimableByRevision(j) ==
    /\ row.rev = j.rev
    /\ \/ row.status = "scheduled"
       \/ row.status = "failed_retry" /\ row.nextAt <= now

(* claimPublicationLease: the row is at the revision of the job, and in   *)
(* its window.                                                            *)
Claimable(j) ==
    /\ row.rev = j.rev
    /\ \/ row.status = "scheduled" /\ row.at <= now /\ now <= row.at + Grace
       \/ row.status = "failed_retry" /\ row.nextAt <= now

(* A job that claims nothing completes and is removed.                    *)
JobIgnored(j) ==
    /\ Due(j)
    /\ ~Claimable(j)
    /\ queue' = queue \ {j}
    /\ UNCHANGED <<now, row, opRev, outbox, sending, history, wentOut>>

(* The network took the post, or nobody knows whether it did.             *)
JobDelivers(j) ==
    /\ Due(j)
    /\ Claimable(j)
    /\ \E status \in {"published", "published_unverified"} :
           row' = [row EXCEPT !.status = status, !.attempts = @ + 1, !.nextAt = 0]
    /\ wentOut' = now
    /\ queue' = queue \ {j}
    /\ UNCHANGED <<now, opRev, outbox, sending, history>>

(* The network refused: the next attempt is planned under a name of its   *)
(* own, or the post has failed.                                           *)
JobRefused(j) ==
    LET attempts == row.attempts + 1
        nextAt   == now + RetryDelay[attempts]
    IN
    /\ Due(j)
    /\ Claimable(j)
    /\ IF attempts < MaxAttempts
       THEN /\ row' = [row EXCEPT !.status = "failed_retry", !.attempts = attempts,
                                  !.nextAt = nextAt]
            /\ queue' = Add(queue, <<"retry", j.rev, attempts>>, j.rev, nextAt) \ {j}
       ELSE /\ row' = [row EXCEPT !.status = "failed", !.attempts = attempts]
            /\ queue' = queue \ {j}
    /\ UNCHANGED <<now, opRev, outbox, sending, history, wentOut>>

(* A retry that cannot be added fails the row and the job.                *)
RetryQueueDown(j) ==
    /\ Due(j)
    /\ Claimable(j)
    /\ row.attempts + 1 < MaxAttempts
    /\ Fails("queue_down")
    /\ row' = [row EXCEPT !.status = "failed", !.attempts = @ + 1, !.nextAt = 0]
    /\ queue' = (queue \ {j}) \cup {[j EXCEPT !.state = "failed"]}
    /\ UNCHANGED <<now, opRev, outbox, sending, asks, decided, wentOut>>

(* A statement before the claim throws: jobs have one attempt, and failed *)
(* jobs are kept.                                                         *)
JobThrows(j) ==
    /\ Due(j)
    /\ Fails("job_throws")
    /\ queue' = (queue \ {j}) \cup {[j EXCEPT !.state = "failed"]}
    /\ UNCHANGED <<now, row, opRev, outbox, sending, asks, decided, wentOut>>

JobStep ==
    \E j \in queue : \/ JobIgnored(j) \/ JobDelivers(j) \/ JobRefused(j)
                     \/ RetryQueueDown(j) \/ JobThrows(j) \/ JobLost(j)

-----------------------------------------------------------------------------
(* The timers of the worker.                                              *)

Overdue == row.status = "scheduled" /\ now > row.at + Grace

QuarantineOverdue ==
    /\ Overdue
    /\ row' = [row EXCEPT !.status = "quarantined", !.nextAt = 0]
    /\ UNCHANGED <<now, opRev, outbox, sending, queue, history, wentOut>>

(* Mutant: a row that was enqueued once is never looked at again.         *)
DispatchableOnce ==
    outbox.status \in {"pending", "failed"} /\ outbox.nextAt <= now

(* Mutant: the replay forgets posts between two attempts.                 *)
DispatchableScheduled ==
    \/ outbox.status \in {"pending", "failed"} /\ outbox.nextAt <= now
    \/ outbox.status = "enqueued" /\ outbox.touched + Patience < now /\ row.status = "scheduled"

(* What reconcilePublicationOutbox selects: rows that were not enqueued,  *)
(* and, against jobs lost in Redis, rows enqueued a while ago whose post  *)
(* still needs its job.                                                   *)
Dispatchable ==
    \/ outbox.status \in {"pending", "failed"} /\ outbox.nextAt <= now
    \/ outbox.status = "enqueued" /\ outbox.touched + Patience < now /\ row.status \in Waiting

LeaseOutbox ==
    /\ Dispatchable
    /\ outbox' = [outbox EXCEPT !.status = "dispatching", !.touched = now]
    /\ sending' = sending \cup {[rev |-> row.rev, at |-> row.at, owns |-> TRUE]}
    /\ UNCHANGED <<now, row, opRev, queue, history, wentOut>>

Disowned == {[d EXCEPT !.owns = FALSE] : d \in sending}

(* The lease of a dispatcher that died, or is slow, expires.              *)
ExpireLease ==
    /\ outbox.status = "dispatching"
    /\ outbox.touched < now
    /\ outbox' = [outbox EXCEPT !.status = "failed", !.nextAt = now, !.touched = now]
    /\ sending' = Disowned
    /\ UNCHANGED <<now, row, opRev, queue, history, wentOut>>

(* The job is added under the revision and the time read with the lease.  *)
EnqueueJob(d) ==
    /\ queue' = Add(queue, <<"main", d.rev, 0>>, d.rev, Later(d.at, now))
    /\ outbox' = IF d.owns
                 THEN [outbox EXCEPT !.status = "enqueued", !.attempts = @ + 1, !.touched = now]
                 ELSE outbox
    /\ sending' = sending \ {d}
    /\ UNCHANGED <<now, row, opRev, history, wentOut>>

(* retryDelaySeconds, in minutes: 2^attempts, but no more than an hour.    *)
Backoff(attempts) == <<1, 2, 4, 8, 16, 32, 60>>[IF attempts < 6 THEN attempts + 1 ELSE 7]

(* Neither add nor getJob answers; the job may have landed nevertheless.  *)
EnqueueFails(d) ==
    /\ Fails("queue_down")
    /\ \E landed \in BOOLEAN :
           queue' = IF landed THEN Add(queue, <<"main", d.rev, 0>>, d.rev, Later(d.at, now))
                              ELSE queue
    /\ outbox' = IF d.owns
                 THEN [outbox EXCEPT !.status = "failed", !.attempts = @ + 1,
                                     !.nextAt = now + Backoff(outbox.attempts), !.touched = now]
                 ELSE outbox
    /\ sending' = sending \ {d}
    /\ UNCHANGED <<now, row, opRev, asks, decided, wentOut>>

DispatcherDies(d) ==
    /\ Fails("dispatcher_dies")
    /\ sending' = sending \ {d}
    /\ UNCHANGED <<now, row, opRev, outbox, queue, asks, decided, wentOut>>

TimerStep ==
    \/ QuarantineOverdue \/ LeaseOutbox \/ ExpireLease
    \/ \E d \in sending : EnqueueJob(d) \/ EnqueueFails(d) \/ DispatcherDies(d)

-----------------------------------------------------------------------------
(* Requests of people.                                                    *)

Asks(kind) ==
    /\ kind \in Requests
    /\ asks < MaxAsks
    /\ asks' = asks + 1

Unsettled == row.status \notin {"published", "published_unverified"}

(* bestEffortRemoveJobs looks for one name only.                          *)
RemoveMainJob(rev) ==
    \E removed \in SUBSET {j \in queue : j.name = <<"main", rev, 0>>} :
        queue' = queue \ removed

(* Mutant: the new time is written under the old revision.                *)
RescheduleInPlace(at) ==
    /\ Asks("operation")
    /\ at > now
    /\ Unsettled
    /\ row' = [status |-> "scheduled", rev |-> opRev, at |-> at, attempts |-> 0, nextAt |-> 0]
    /\ outbox' = [status |-> "pending", attempts |-> 0, nextAt |-> now, touched |-> now]
    /\ sending' = Disowned
    /\ RemoveMainJob(opRev)
    /\ decided' = at
    /\ UNCHANGED <<now, opRev, faults, lastLoss, wentOut>>

(* The revision of the post becomes that of the operation plus one.       *)
RescheduleOperation(at) ==
    /\ Asks("operation")
    /\ at > now
    /\ Unsettled
    /\ opRev' = opRev + 1
    /\ row' = [status |-> "scheduled", rev |-> opRev + 1, at |-> at, attempts |-> 0, nextAt |-> 0]
    /\ outbox' = [status |-> "pending", attempts |-> 0, nextAt |-> now, touched |-> now]
    /\ sending' = Disowned
    /\ RemoveMainJob(opRev)
    /\ decided' = at
    /\ UNCHANGED <<now, faults, lastLoss, wentOut>>

CancelOperation ==
    /\ Asks("operation")
    /\ Unsettled
    /\ opRev' = opRev + 1
    /\ row' = [row EXCEPT !.status = "cancelled", !.rev = opRev + 1, !.nextAt = 0]
    /\ outbox' = [outbox EXCEPT !.status = "cancelled", !.touched = now]
    /\ sending' = Disowned
    /\ RemoveMainJob(opRev)
    /\ UNCHANGED <<now, faults, lastLoss, decided, wentOut>>

(* moveAdminPublication touches neither the operation nor the outbox.     *)
MoveByAdmin(at) ==
    /\ Asks("admin")
    /\ at >= now
    /\ row.status \in {"scheduled", "failed", "quarantined", "failed_retry"}
    /\ row' = [row EXCEPT !.status = "scheduled", !.at = at, !.rev = @ + 1, !.nextAt = 0]
    /\ queue' = Add(queue, <<"main", row.rev + 1, 0>>, row.rev + 1, at)
    /\ decided' = at
    /\ UNCHANGED <<now, opRev, outbox, sending, faults, lastLoss, wentOut>>

CancelByAdmin ==
    /\ Asks("admin")
    /\ row.status \in {"scheduled", "failed_retry", "failed", "quarantined"}
    /\ row' = [row EXCEPT !.status = "cancelled", !.rev = @ + 1, !.nextAt = 0]
    /\ UNCHANGED <<now, opRev, outbox, sending, queue, faults, lastLoss, decided, wentOut>>

RetryFromSite ==
    /\ Asks("site")
    /\ row.status \in {"failed", "quarantined"}
    /\ row' = [row EXCEPT !.status = "scheduled", !.at = now + SiteDelay, !.rev = @ + 1, !.nextAt = 0]
    /\ queue' = Add(queue, <<"manual", row.rev + 1, 0>>, row.rev + 1, now + SiteDelay)
    /\ decided' = now + SiteDelay
    /\ UNCHANGED <<now, opRev, outbox, sending, faults, lastLoss, wentOut>>

(* The job of the bot names no revision, which is read as 1; the time and *)
(* the revision of the post stay as they are.                             *)
RetryFromBot ==
    /\ Asks("bot")
    /\ row.status = "failed"
    /\ row' = [row EXCEPT !.status = "scheduled"]
    /\ queue' = Add(queue, <<"bot", asks, 0>>, 1, now)
    /\ UNCHANGED <<now, opRev, outbox, sending, faults, lastLoss, decided, wentOut>>

PersonStep ==
    \/ \E at \in Times : RescheduleOperation(at) \/ MoveByAdmin(at)
    \/ CancelOperation \/ CancelByAdmin \/ RetryFromSite \/ RetryFromBot

-----------------------------------------------------------------------------
Busy ==
    \/ \E j \in queue : Due(j)
    \/ sending # {}
    \/ Overdue \/ Dispatchable
    \/ outbox.status = "dispatching" /\ outbox.touched < now

Tick ==
    /\ now < Horizon
    /\ Prompt => ~Busy
    /\ now' = now + 1
    /\ UNCHANGED <<row, opRev, outbox, sending, queue, history, wentOut>>

Next == JobStep \/ TimerStep \/ PersonStep \/ Tick

Spec == Init /\ [][Next]_vars

-----------------------------------------------------------------------------
(* No job, however old and whatever revision it carries, makes a post go  *)
(* out before the time its author, or an administrator, named last: the   *)
(* revision of a post can come back to a number an older job still        *)
(* carries, and only the window in the claim holds that job off.          *)
NoEarlyPublication == wentOut # 0 => wentOut >= decided

(* A job lost in Redis before the minute it was due is replaced early     *)
(* enough: a post is put before a person for being overdue only if        *)
(* something failed in or after its very minute.                          *)
LossIsRepaired == row.status = "quarantined" => lastLoss >= row.at

(* An attempt that was promised for a minute happens then, or within one  *)
(* replay of the outbox after its job was lost.                           *)
RetryIsPrompt ==
    row.status = "failed_retry" => now <= Later(row.nextAt, lastLoss) + Patience + 1

(* When the outbox records a row as enqueued, the queue holds a job that  *)
(* will fire for this revision before the window of the post closes: a    *)
(* job that was there before under the same name does no harm.            *)
DispatchArms ==
    [][\A d \in sending :
          /\ outbox.status = "dispatching" /\ outbox'.status = "enqueued"
          /\ d.owns /\ d \notin sending'
          => \E j \in queue' : /\ j.rev = d.rev /\ j.state = "waiting"
                               /\ j.runAt <= Later(d.at, now) + Grace]_vars

(* "Queued - trying again now": the post a person retries with the bot's  *)
(* button is tried again, and not put aside as overdue.                   *)
BotRetryIsTried ==
    [][\A j \in queue :
          j.name[1] = "bot" /\ j \notin queue' /\ row.status = "scheduled"
          => row'.attempts > row.attempts]_vars
=============================================================================
