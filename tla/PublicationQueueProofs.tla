------------------------ MODULE PublicationQueueProofs ------------------------
(* Proofs about the timing of one post (PublicationQueue): for every       *)
(* horizon, every choice of minutes, any number of requests and failures.  *)
(*                                                                        *)
(* That no job makes a post go out too early holds whatever fails and      *)
(* whoever asks.  That a lost job is replaced in time is a race between    *)
(* the replay of the outbox and the window of the post; it is proved for   *)
(* the world of its run (Timely).  TLC refutes it without any part of      *)
(* Timely, and with SiteDelay one minute above its bound.                  *)
EXTENDS PublicationQueue, TLAPS

(* The timers run within their minute; posts are moved as operations and   *)
(* retried with the button of the site; jobs are lost and dispatchers die; *)
(* the replay is no slower than the window of a post, and the site looks   *)
(* ahead, but not beyond the next replay.                                 *)
Timely ==
    /\ Prompt
    /\ Requests \subseteq {"operation", "site"}
    /\ Faults \subseteq {"job_lost", "dispatcher_dies"}
    /\ SiteDelay \in 1..(Patience + 1)
    /\ Patience <= Grace

(* The last decision about a post is behind it once it was tried.          *)
DecisionIsPast ==
    /\ row.status = "scheduled" => decided <= row.at \/ decided <= now
    /\ row.status \in {"failed_retry", "failed"} => decided <= now

OutIsOut == wentOut # 0 => row.status \in {"published", "published_unverified"}

EarlyInv ==
    /\ TypeOK
    /\ DecisionIsPast
    /\ OutIsOut
    /\ NoEarlyPublication

-----------------------------------------------------------------------------
IsMain(j) == j.name = <<"main", j.rev, 0>>

JobsAreNamed ==
    \A j \in queue : j.state = "waiting" /\ (j.name[1] = "main" => IsMain(j))

ClockIsAhead ==
    /\ outbox.touched <= now /\ lastLoss <= now
    /\ outbox.status \in {"pending", "failed"} => outbox.nextAt <= now

CancelsTogether == row.status = "cancelled" <=> outbox.status = "cancelled"

(* Only the site raises the revision of the post alone, and it schedules   *)
(* near.                                                                   *)
RowIsNear == row.rev >= opRev /\ (row.rev > opRev => row.at <= now + SiteDelay)

(* A revision may come back, so a job of the site may stand where a job of *)
(* the operation is needed; but none fires long after that one would.      *)
Near(rev, time) ==
    /\ rev > opRev => time <= now + SiteDelay
    /\ rev = row.rev /\ row.status # "cancelled" => time <= row.at + Patience \/ time <= now
    /\ \A d \in sending : d.owns /\ d.rev = rev => time <= d.at + Patience \/ time <= now

PlansAreNear ==
    /\ \A j \in queue : IsMain(j) => Near(j.rev, j.runAt)
    /\ \A d \in sending : Near(d.rev, d.at)

(* Who holds the lease of the outbox read the row as it is, or the site    *)
(* has just moved the post into the future.                               *)
OwnerIsCurrent ==
    \A d \in sending : d.owns =>
        /\ outbox.status = "dispatching"
        /\ \A e \in sending : e.owns => e = d
        /\ \/ d.rev = row.rev /\ d.at = row.at /\ row.status # "cancelled"
           \/ row.status = "scheduled" /\ row.at > now

LeaseIsHeld ==
    outbox.status = "dispatching" => (\E d \in sending : d.owns) \/ lastLoss >= outbox.touched

(* A row recorded as enqueued when its post was due has a job, or the job  *)
(* was lost after that.                                                    *)
DueAt == IF row.status = "scheduled" THEN row.at ELSE row.nextAt

EnqueuedIsArmed ==
    outbox.status = "enqueued" /\ row.status \in Waiting /\ ~Overdue /\ outbox.touched >= DueAt =>
        (\E j \in queue : IsMain(j) /\ j.rev = row.rev) \/ lastLoss >= outbox.touched

OverdueHasLoss == Overdue => lastLoss >= row.at

RetryIsAfter == row.status = "failed_retry" => row.at <= row.nextAt

QueueInv ==
    /\ TypeOK
    /\ JobsAreNamed
    /\ ClockIsAhead
    /\ CancelsTogether
    /\ RowIsNear
    /\ PlansAreNear
    /\ OwnerIsCurrent
    /\ LeaseIsHeld
    /\ EnqueuedIsArmed
    /\ OverdueHasLoss
    /\ RetryIsAfter
    /\ LossIsRepaired
    /\ RetryIsPrompt

-----------------------------------------------------------------------------
(* What is written keeps its type.                                         *)

RowType == [status : Waiting \cup {"failed", "quarantined", "cancelled",
                                   "published", "published_unverified"},
            rev : Nat, at : Nat, attempts : Nat, nextAt : Nat]
OutboxType == [status : {"pending", "dispatching", "enqueued", "failed", "cancelled"},
               attempts : Nat, nextAt : Nat, touched : Nat]
Sender == [rev : Nat, at : Nat, owns : BOOLEAN]
Job == [name : JobName, rev : Nat, runAt : Nat, state : {"waiting", "failed"}]

LEMMA Typed ==
    ASSUME TypeOK
    PROVE  /\ now \in Nat /\ now \in 1..Horizon /\ row \in RowType /\ opRev \in Nat /\ outbox \in OutboxType
           /\ sending \subseteq Sender /\ queue \subseteq Job
           /\ lastLoss \in Nat /\ decided \in Nat /\ wentOut \in Nat
           /\ asks \in 0..MaxAsks /\ faults \in 0..MaxFaults
           /\ Horizon \in Nat /\ Times \subseteq Nat /\ Grace \in Nat /\ Patience \in Nat /\ SiteDelay \in Nat
BY TimesAssumption DEF TypeOK, RowType, OutboxType, Sender, Job

LEMMA TypesAgain ==
    ASSUME now' \in 1..Horizon, row' \in RowType, opRev' \in Nat, outbox' \in OutboxType,
           sending' \subseteq Sender, queue' \subseteq Job,
           asks' \in 0..MaxAsks, faults' \in 0..MaxFaults,
           lastLoss' \in Nat, decided' \in Nat, wentOut' \in Nat
    PROVE  TypeOK'
BY DEF TypeOK, RowType, OutboxType, Sender, Job

LEMMA LaterTyped ==
    ASSUME NEW a \in Nat, NEW b \in Nat
    PROVE  Later(a, b) \in Nat /\ Later(a, b) >= a /\ Later(a, b) >= b /\ Later(a, b) \in {a, b}
BY DEF Later

LEMMA BackoffTyped == ASSUME NEW attempts \in Nat PROVE Backoff(attempts) \in Nat
<1> DEFINE k == IF attempts < 6 THEN attempts + 1 ELSE 7
<1>1. k \in {1, 2, 3, 4, 5, 6, 7}
  OBVIOUS
<1> HIDE DEF k
<1>2. <<1, 2, 4, 8, 16, 32, 60>>[k] \in Nat
  BY <1>1
<1> QED BY <1>2 DEF Backoff, k

(* A job that is added is there, or one of its name was.                   *)
LEMMA Added ==
    ASSUME NEW jobs, NEW name, NEW rev, NEW runAt,
           jobs \subseteq Job, name \in JobName, rev \in Nat, runAt \in Nat
    PROVE  LET new == [name |-> name, rev |-> rev, runAt |-> runAt, state |-> "waiting"]
           IN  /\ new \in Job
               /\ Add(jobs, name, rev, runAt) \in {jobs, jobs \cup {new}}
               /\ new \in Add(jobs, name, rev, runAt) \/ \E j \in jobs : j.name = name
BY DEF Add, Job

LEMMA AddTyped ==
    ASSUME NEW jobs, NEW name, NEW rev, NEW runAt,
           jobs \subseteq Job, name \in JobName, rev \in Nat, runAt \in Nat
    PROVE  Add(jobs, name, rev, runAt) \subseteq Job
<1>1. [name |-> name, rev |-> rev, runAt |-> runAt, state |-> "waiting"] \in Job
  BY DEF Job
<1> QED BY <1>1 DEF Add

LEMMA Names ==
    /\ \A rev \in Nat : /\ <<"main", rev, 0>> \in JobName /\ <<"manual", rev, 0>> \in JobName
                        /\ <<"bot", rev, 0>> \in JobName
    /\ \A rev, attempts \in Nat : <<"retry", rev, attempts>> \in JobName
BY DEF JobName

LEMMA FailsTyped ==
    ASSUME TypeOK, NEW kind, Fails(kind)
    PROVE  faults' \in 0..MaxFaults /\ lastLoss' \in Nat /\ lastLoss' = now
BY Typed, BoundsAssumption DEF Fails

LEMMA AsksTyped == ASSUME TypeOK, NEW kind, Asks(kind) PROVE asks' \in 0..MaxAsks /\ asks \in Nat
BY Typed, BoundsAssumption DEF Asks

LEMMA RowsTyped ==
    ASSUME TypeOK
    PROVE  /\ \A status \in {"published", "published_unverified", "failed"}, attempts, nextAt \in Nat :
                 [row EXCEPT !.status = status, !.attempts = attempts, !.nextAt = nextAt] \in RowType
           /\ \A attempts, nextAt \in Nat :
                 [row EXCEPT !.status = "failed_retry", !.attempts = attempts, !.nextAt = nextAt] \in RowType
           /\ \A attempts \in Nat : [row EXCEPT !.status = "failed", !.attempts = attempts] \in RowType
           /\ [row EXCEPT !.status = "quarantined", !.nextAt = 0] \in RowType
           /\ [row EXCEPT !.status = "scheduled"] \in RowType
           /\ \A rev \in Nat : [row EXCEPT !.status = "cancelled", !.rev = rev, !.nextAt = 0] \in RowType
           /\ \A rev, at \in Nat :
                 /\ [row EXCEPT !.status = "scheduled", !.at = at, !.rev = rev, !.nextAt = 0] \in RowType
                 /\ [status |-> "scheduled", rev |-> rev, at |-> at, attempts |-> 0, nextAt |-> 0] \in RowType
BY Typed DEF RowType, Waiting

LEMMA OutboxesTyped ==
    ASSUME TypeOK
    PROVE  /\ [outbox EXCEPT !.status = "dispatching", !.touched = now] \in OutboxType
           /\ [outbox EXCEPT !.status = "failed", !.nextAt = now, !.touched = now] \in OutboxType
           /\ [outbox EXCEPT !.status = "cancelled", !.touched = now] \in OutboxType
           /\ \A attempts \in Nat :
                 [outbox EXCEPT !.status = "enqueued", !.attempts = attempts, !.touched = now] \in OutboxType
           /\ \A attempts, nextAt \in Nat :
                 [outbox EXCEPT !.status = "failed", !.attempts = attempts,
                                !.nextAt = nextAt, !.touched = now] \in OutboxType
           /\ [status |-> "pending", attempts |-> 0, nextAt |-> now, touched |-> now] \in OutboxType
BY Typed DEF OutboxType

LEMMA DisownedTyped ==
    ASSUME TypeOK
    PROVE  /\ Disowned \subseteq Sender
           /\ \A e \in Disowned : ~e.owns /\ \E d \in sending : e.rev = d.rev /\ e.at = d.at
<1> SUFFICES ASSUME NEW d \in sending
             PROVE  LET e == [d EXCEPT !.owns = FALSE]
                    IN  e \in Sender /\ ~e.owns /\ e.rev = d.rev /\ e.at = d.at
  BY DEF Disowned
<1>1. d \in Sender
  BY Typed
<1> QED BY <1>1 DEF Sender

LEMMA Fields ==
    ASSUME TypeOK
    PROVE  /\ row.rev \in Nat /\ row.at \in Nat /\ row.attempts \in Nat /\ row.nextAt \in Nat
           /\ outbox.attempts \in Nat /\ outbox.nextAt \in Nat /\ outbox.touched \in Nat
           /\ \A d \in sending : d \in Sender /\ d.rev \in Nat /\ d.at \in Nat /\ d.owns \in BOOLEAN
           /\ \A j \in queue : j \in Job /\ j.name \in JobName /\ j.rev \in Nat /\ j.runAt \in Nat
BY Typed DEF RowType, OutboxType, Sender, Job

(* The next attempt is planned for later.                                  *)
LEMMA RetryIsLater ==
    ASSUME TypeOK, row.attempts + 1 < MaxAttempts
    PROVE  RetryDelay[row.attempts + 1] \in Nat /\ RetryDelay[row.attempts + 1] > 0
<1>1. row.attempts + 1 \in 1..(MaxAttempts - 1)
  <2>1. row.attempts \in Nat
    BY Fields
  <2>2. MaxAttempts \in Nat
    BY AttemptsAssumption
  <2> QED BY <2>1, <2>2
<1>2. RetryDelay[row.attempts + 1] \in Nat \ {0}
  BY <1>1, AttemptsAssumption
<1> QED BY <1>2

-----------------------------------------------------------------------------
LEMMA JobStepTypes == ASSUME TypeOK, JobStep PROVE TypeOK'
<1>1. PICK j \in queue : \/ JobIgnored(j) \/ JobDelivers(j) \/ JobRefused(j)
                         \/ RetryQueueDown(j) \/ JobThrows(j) \/ JobLost(j)
  BY DEF JobStep
<1>2. /\ j \in Job /\ j.rev \in Nat /\ queue \ {j} \subseteq Job
      /\ (queue \ {j}) \cup {[j EXCEPT !.state = "failed"]} \subseteq Job
  BY Typed DEF Job
<1>3. row.attempts + 1 \in Nat /\ 0 \in Nat
  BY Fields
<1>4. CASE JobIgnored(j)
  BY <1>2, <1>4, Typed, TypesAgain DEF JobIgnored, history
<1>5. CASE JobDelivers(j)
  <2>1. PICK status \in {"published", "published_unverified"} :
            row' = [row EXCEPT !.status = status, !.attempts = row.attempts + 1, !.nextAt = 0]
    BY <1>5 DEF JobDelivers
  <2>2. row' \in RowType
    BY <1>3, <2>1, RowsTyped
  <2> QED BY <1>2, <1>5, <2>2, Typed, TypesAgain DEF JobDelivers, history
<1>6. CASE JobRefused(j)
  <2> DEFINE attempts == row.attempts + 1
  <2> DEFINE nextAt == now + RetryDelay[attempts]
  <2>1. UNCHANGED <<now, opRev, outbox, sending, history, wentOut>>
    BY <1>6 DEF JobRefused
  <2>2. CASE attempts < MaxAttempts
    <3>1. nextAt \in Nat /\ attempts \in Nat
      BY <1>3, <2>2, RetryIsLater, Typed
    <3>2. <<"retry", j.rev, attempts>> \in JobName
      BY <1>2, <3>1, Names
    <3>3. Add(queue, <<"retry", j.rev, attempts>>, j.rev, nextAt) \subseteq Job
      BY <1>2, <3>1, <3>2, Typed, AddTyped
    <3>4. /\ row' = [row EXCEPT !.status = "failed_retry", !.attempts = attempts, !.nextAt = nextAt]
          /\ queue' = Add(queue, <<"retry", j.rev, attempts>>, j.rev, nextAt) \ {j}
      BY <1>6, <2>2 DEF JobRefused
    <3> HIDE DEF attempts, nextAt
    <3> QED BY <2>1, <3>1, <3>3, <3>4, RowsTyped, Typed, TypesAgain DEF history
  <2>3. CASE ~(attempts < MaxAttempts)
    <3>1. row' \in RowType /\ queue' = queue \ {j}
      BY <1>3, <1>6, <2>3, RowsTyped DEF JobRefused
    <3> QED BY <1>2, <2>1, <3>1, Typed, TypesAgain DEF history
  <2> QED BY <2>2, <2>3
<1>7. CASE RetryQueueDown(j)
  <2>1. row' \in RowType
    BY <1>3, <1>7, RowsTyped DEF RetryQueueDown
  <2> QED BY <1>2, <1>7, <2>1, FailsTyped, Typed, TypesAgain DEF RetryQueueDown
<1>8. CASE JobThrows(j)
  BY <1>2, <1>8, FailsTyped, Typed, TypesAgain DEF JobThrows
<1>9. CASE JobLost(j)
  BY <1>2, <1>9, FailsTyped, Typed, TypesAgain DEF JobLost
<1> QED BY <1>1, <1>4, <1>5, <1>6, <1>7, <1>8, <1>9

LEMMA TimerStepTypes == ASSUME TypeOK, TimerStep PROVE TypeOK'
<1>1. CASE QuarantineOverdue
  BY <1>1, RowsTyped, Typed, TypesAgain DEF QuarantineOverdue, history
<1>2. CASE LeaseOutbox
  <2>1. [rev |-> row.rev, at |-> row.at, owns |-> TRUE] \in Sender
    BY Fields DEF Sender
  <2>2. sending' \subseteq Sender
    BY <1>2, <2>1, Typed DEF LeaseOutbox
  <2> QED BY <1>2, <2>2, OutboxesTyped, Typed, TypesAgain DEF LeaseOutbox, history
<1>3. CASE ExpireLease
  BY <1>3, DisownedTyped, OutboxesTyped, Typed, TypesAgain DEF ExpireLease, history
<1>4. ASSUME NEW d \in sending, EnqueueJob(d) \/ EnqueueFails(d) \/ DispatcherDies(d)
      PROVE  TypeOK'
  <2>1. d.rev \in Nat /\ d.at \in Nat /\ sending \ {d} \subseteq Sender
    BY Fields, Typed
  <2>2. Later(d.at, now) \in Nat /\ <<"main", d.rev, 0>> \in JobName
    BY <2>1, Typed, LaterTyped, Names
  <2>3. Add(queue, <<"main", d.rev, 0>>, d.rev, Later(d.at, now)) \subseteq Job
    BY <2>1, <2>2, Typed, AddTyped
  <2>4. outbox.attempts + 1 \in Nat /\ now + Backoff(outbox.attempts) \in Nat
    BY Fields, Typed, BackoffTyped
  <2>5. CASE EnqueueJob(d)
    <3>1. outbox' \in OutboxType
      BY <2>4, <2>5, OutboxesTyped, Typed DEF EnqueueJob
    <3> QED BY <2>1, <2>3, <2>5, <3>1, Typed, TypesAgain DEF EnqueueJob, history
  <2>6. CASE EnqueueFails(d)
    <3>1. outbox' \in OutboxType
      BY <2>4, <2>6, OutboxesTyped, Typed DEF EnqueueFails
    <3>2. queue' \subseteq Job
      BY <2>3, <2>6, Typed DEF EnqueueFails
    <3> QED BY <2>1, <2>6, <3>1, <3>2, FailsTyped, Typed, TypesAgain DEF EnqueueFails
  <2>7. CASE DispatcherDies(d)
    BY <2>1, <2>7, FailsTyped, Typed, TypesAgain DEF DispatcherDies
  <2> QED BY <1>4, <2>5, <2>6, <2>7
<1> QED BY <1>1, <1>2, <1>3, <1>4 DEF TimerStep

LEMMA PersonStepTypes == ASSUME TypeOK, PersonStep PROVE TypeOK'
<1>1. /\ opRev + 1 \in Nat /\ row.rev + 1 \in Nat /\ now + SiteDelay \in Nat /\ 1 \in Nat
      /\ \A at \in Times : at \in Nat
  BY Fields, Typed
<1>2. \A rev \in Nat : RemoveMainJob(rev) => queue' \subseteq Job
  BY Typed DEF RemoveMainJob
<1>3. ASSUME NEW at \in Times, RescheduleOperation(at) PROVE TypeOK'
  BY <1>1, <1>2, <1>3, AsksTyped, RowsTyped, OutboxesTyped, DisownedTyped, Typed, TypesAgain
     DEF RescheduleOperation
<1>4. CASE CancelOperation
  BY <1>1, <1>2, <1>4, AsksTyped, RowsTyped, OutboxesTyped, DisownedTyped, Typed, TypesAgain
     DEF CancelOperation
<1>5. ASSUME NEW at \in Times, MoveByAdmin(at) PROVE TypeOK'
  <2>1. queue' \subseteq Job
    BY <1>1, <1>5, Names, Typed, AddTyped DEF MoveByAdmin
  <2> QED BY <1>1, <1>5, <2>1, AsksTyped, RowsTyped, Typed, TypesAgain DEF MoveByAdmin
<1>6. CASE CancelByAdmin
  BY <1>1, <1>6, AsksTyped, RowsTyped, Typed, TypesAgain DEF CancelByAdmin
<1>7. CASE RetryFromSite
  <2>1. queue' \subseteq Job
    BY <1>1, <1>7, Names, Typed, AddTyped DEF RetryFromSite
  <2> QED BY <1>1, <1>7, <2>1, AsksTyped, RowsTyped, Typed, TypesAgain DEF RetryFromSite
<1>8. CASE RetryFromBot
  <2>1. asks \in Nat
    BY <1>8, AsksTyped DEF RetryFromBot
  <2>2. queue' \subseteq Job
    BY <1>1, <1>8, <2>1, Names, Typed, AddTyped DEF RetryFromBot
  <2> QED BY <1>8, <2>2, AsksTyped, RowsTyped, Typed, TypesAgain DEF RetryFromBot
<1> QED BY <1>3, <1>4, <1>5, <1>6, <1>7, <1>8 DEF PersonStep

LEMMA TickTypes == ASSUME TypeOK, Tick PROVE TypeOK'
<1>1. now' \in 1..Horizon
  BY Typed DEF Tick
<1> QED BY <1>1, Typed, TypesAgain DEF Tick, history

LEMMA StepTypes == ASSUME TypeOK, [Next]_vars PROVE TypeOK'
<1>1. CASE UNCHANGED vars
  BY <1>1 DEF TypeOK, vars
<1> QED BY <1>1, JobStepTypes, TimerStepTypes, PersonStepTypes, TickTypes DEF Next

LEMMA QueueStarts == ASSUME Init PROVE TypeOK
BY TimesAssumption, BoundsAssumption DEF Init, TypeOK, Waiting

THEOREM QueueTypes == Spec => []TypeOK
<1>1. Init => TypeOK
  BY QueueStarts
<1>2. TypeOK /\ [Next]_vars => TypeOK'
  BY StepTypes
<1> QED BY <1>1, <1>2, PTL DEF Spec

-----------------------------------------------------------------------------
(* Never too early.                                                        *)

LEMMA ClaimedIsDecided ==
    ASSUME EarlyInv, NEW j, Claimable(j)
    PROVE  /\ decided <= now /\ now > 0 /\ wentOut = 0
           /\ decided \in Nat /\ now \in Nat /\ row \in RowType
<1>1. row.at \in Nat /\ decided \in Nat /\ now \in Nat /\ now > 0 /\ row \in RowType
  BY Fields, Typed DEF EarlyInv
<1>2. row.status \in {"scheduled", "failed_retry"}
  BY DEF Claimable
<1>3. decided <= now
  BY <1>1 DEF Claimable, EarlyInv, DecisionIsPast
<1> QED BY <1>1, <1>2, <1>3 DEF EarlyInv, OutIsOut

LEMMA EarlyJobStep ==
    ASSUME EarlyInv, JobStep
    PROVE  DecisionIsPast' /\ OutIsOut' /\ NoEarlyPublication'
<1>1. PICK j \in queue : \/ JobIgnored(j) \/ JobDelivers(j) \/ JobRefused(j)
                         \/ RetryQueueDown(j) \/ JobThrows(j) \/ JobLost(j)
  BY DEF JobStep
<1>2. CASE JobIgnored(j) \/ JobThrows(j) \/ JobLost(j)
  <2>1. UNCHANGED <<now, row, decided, wentOut>>
    BY <1>2 DEF JobIgnored, JobThrows, JobLost, history
  <2> QED BY <2>1 DEF EarlyInv, DecisionIsPast, OutIsOut, NoEarlyPublication
<1>3. CASE JobDelivers(j)
  <2>1. PICK status \in {"published", "published_unverified"} :
            row' = [row EXCEPT !.status = status, !.attempts = @ + 1, !.nextAt = 0]
    BY <1>3 DEF JobDelivers
  <2>2. decided <= now /\ row \in RowType
    BY <1>3, ClaimedIsDecided DEF JobDelivers
  <2>3. row'.status \in {"published", "published_unverified"}
    BY <2>1, <2>2 DEF RowType
  <2>4. wentOut' = now /\ UNCHANGED <<now, decided>>
    BY <1>3 DEF JobDelivers, history
  <2> QED BY <2>2, <2>3, <2>4, ClaimedIsDecided, <1>3 DEF JobDelivers, DecisionIsPast, OutIsOut, NoEarlyPublication
<1>4. CASE JobRefused(j) \/ RetryQueueDown(j)
  <2>1. decided <= now /\ wentOut = 0
    BY <1>4, ClaimedIsDecided DEF JobRefused, RetryQueueDown
  <2>2. row \in RowType
    BY Typed DEF EarlyInv
  <2>3. row'.status \in {"failed_retry", "failed"}
    BY <1>4, <2>2 DEF JobRefused, RetryQueueDown, RowType
  <2>4. UNCHANGED <<now, decided, wentOut>>
    BY <1>4 DEF JobRefused, RetryQueueDown, history
  <2> QED BY <2>1, <2>3, <2>4 DEF DecisionIsPast, OutIsOut, NoEarlyPublication
<1> QED BY <1>1, <1>2, <1>3, <1>4

LEMMA EarlyTimerStep ==
    ASSUME EarlyInv, TimerStep
    PROVE  DecisionIsPast' /\ OutIsOut' /\ NoEarlyPublication'
<1>1. UNCHANGED <<now, decided, wentOut>>
  BY DEF TimerStep, QuarantineOverdue, LeaseOutbox, ExpireLease, EnqueueJob, EnqueueFails, DispatcherDies, history
<1>2. CASE QuarantineOverdue
  <2>1. row.status = "scheduled" /\ row'.status = "quarantined"
    BY <1>2, Typed DEF EarlyInv, QuarantineOverdue, Overdue, RowType
  <2> QED BY <1>1, <2>1 DEF EarlyInv, DecisionIsPast, OutIsOut, NoEarlyPublication
<1>3. CASE UNCHANGED row
  BY <1>1, <1>3 DEF EarlyInv, DecisionIsPast, OutIsOut, NoEarlyPublication
<1> QED BY <1>2, <1>3 DEF TimerStep, LeaseOutbox, ExpireLease, EnqueueJob, EnqueueFails, DispatcherDies

LEMMA EarlyPersonStep ==
    ASSUME EarlyInv, PersonStep
    PROVE  DecisionIsPast' /\ OutIsOut' /\ NoEarlyPublication'
<1>1. row \in RowType /\ UNCHANGED <<now, wentOut>>
  BY Typed DEF EarlyInv, PersonStep, RescheduleOperation, MoveByAdmin, CancelOperation, CancelByAdmin,
                RetryFromSite, RetryFromBot
<1>2. row.status \notin {"published", "published_unverified"}
  BY DEF PersonStep, RescheduleOperation, MoveByAdmin, CancelOperation, CancelByAdmin,
         RetryFromSite, RetryFromBot, Unsettled
<1>3. wentOut' = 0
  BY <1>1, <1>2 DEF EarlyInv, OutIsOut
<1>4. DecisionIsPast'
  <2>1. ASSUME NEW at \in Times, RescheduleOperation(at) \/ MoveByAdmin(at) PROVE DecisionIsPast'
    <3>1. row'.status = "scheduled" /\ row'.at = at /\ decided' = at
      <4>1. CASE RescheduleOperation(at)
        BY <4>1 DEF RescheduleOperation
      <4>2. CASE MoveByAdmin(at)
        <5> DEFINE new == [row EXCEPT !.status = "scheduled", !.at = at, !.rev = @ + 1, !.nextAt = 0]
        <5>1. new.status = "scheduled" /\ new.at = at
          BY <1>1 DEF RowType
        <5> QED BY <4>2, <5>1 DEF MoveByAdmin
      <4> QED BY <2>1, <4>1, <4>2
    <3>2. at \in Nat
      BY Typed DEF EarlyInv
    <3> QED BY <3>1, <3>2 DEF DecisionIsPast
  <2>2. CASE CancelOperation \/ CancelByAdmin
    <3>1. row'.status = "cancelled"
      BY <1>1, <2>2 DEF CancelOperation, CancelByAdmin, RowType
    <3> QED BY <3>1 DEF DecisionIsPast
  <2>3. CASE RetryFromSite
    <3>1. row'.status = "scheduled" /\ row'.at = now + SiteDelay /\ decided' = now + SiteDelay
      BY <1>1, <2>3 DEF RetryFromSite, RowType
    <3>2. now + SiteDelay \in Nat
      BY Typed DEF EarlyInv
    <3> QED BY <3>1, <3>2 DEF DecisionIsPast
  <2>4. CASE RetryFromBot
    <3>1. row'.status = "scheduled" /\ row.status = "failed" /\ UNCHANGED decided
      BY <1>1, <2>4 DEF RetryFromBot, RowType
    <3> QED BY <1>1, <3>1 DEF EarlyInv, DecisionIsPast
  <2> QED BY <2>1, <2>2, <2>3, <2>4 DEF PersonStep
<1> QED BY <1>3, <1>4 DEF OutIsOut, NoEarlyPublication

LEMMA EarlySteps == ASSUME EarlyInv, [Next]_vars PROVE EarlyInv'
<1>1. TypeOK'
  BY StepTypes DEF EarlyInv
<1>2. CASE Tick
  <2>1. UNCHANGED <<row, decided, wentOut>> /\ now' = now + 1
    BY <1>2 DEF Tick, history
  <2>2. now \in Nat /\ decided \in Nat
    BY Typed DEF EarlyInv
  <2>3. DecisionIsPast' /\ OutIsOut' /\ NoEarlyPublication'
    BY <2>1, <2>2 DEF EarlyInv, DecisionIsPast, OutIsOut, NoEarlyPublication
  <2> QED BY <1>1, <2>3 DEF EarlyInv
<1>3. CASE UNCHANGED vars
  BY <1>1, <1>3 DEF vars, EarlyInv, DecisionIsPast, OutIsOut, NoEarlyPublication
<1> QED BY <1>1, <1>2, <1>3, EarlyJobStep, EarlyTimerStep, EarlyPersonStep DEF Next, EarlyInv

(* No job, however old and whatever revision it carries, makes a post go   *)
(* out before the time named last (the window in claimPublicationLease):   *)
(* whoever asks, whatever fails, however slow the timers are.              *)
THEOREM NothingIsEarly == Spec => []NoEarlyPublication
<1>1. Init => EarlyInv
  <2>1. Init => DecisionIsPast /\ OutIsOut /\ NoEarlyPublication
    BY TimesAssumption DEF Init, DecisionIsPast, OutIsOut, NoEarlyPublication
  <2> QED BY <2>1, QueueStarts DEF EarlyInv
<1>2. EarlyInv /\ [Next]_vars => EarlyInv'
  BY EarlySteps
<1>3. EarlyInv => NoEarlyPublication
  BY DEF EarlyInv
<1> QED BY <1>1, <1>2, <1>3, PTL DEF Spec

-----------------------------------------------------------------------------
(* In time.                                                                *)

LEMMA Numbers ==
    ASSUME TypeOK, Timely
    PROVE  /\ now \in Nat /\ opRev \in Nat /\ lastLoss \in Nat
           /\ row.rev \in Nat /\ row.at \in Nat /\ row.nextAt \in Nat
           /\ outbox.touched \in Nat /\ outbox.nextAt \in Nat
           /\ Grace \in Nat /\ Patience \in Nat /\ SiteDelay \in Nat /\ SiteDelay > 0
           /\ SiteDelay <= Patience + 1 /\ Patience <= Grace
           /\ \A d \in sending : d.rev \in Nat /\ d.at \in Nat
           /\ \A j \in queue : j.rev \in Nat /\ j.runAt \in Nat
BY Typed, Fields DEF Timely

LEMMA NextNumbers ==
    ASSUME TypeOK'
    PROVE  /\ now' \in Nat /\ opRev' \in Nat /\ lastLoss' \in Nat
           /\ row'.rev \in Nat /\ row'.at \in Nat /\ row'.nextAt \in Nat
           /\ outbox'.touched \in Nat /\ outbox'.nextAt \in Nat
           /\ \A d \in sending' : d.rev \in Nat /\ d.at \in Nat
           /\ \A j \in queue' : j.rev \in Nat /\ j.runAt \in Nat
BY TimesAssumption DEF TypeOK

LEMMA StillSooner ==
    ASSUME NEW time \in Nat, NEW old \in Nat, NEW new \in Nat, NEW delay \in Nat,
           new >= old, time <= old + delay
    PROVE  time <= new + delay
OBVIOUS

(* What is planned stays near while the post keeps its revision and time.  *)
LEMMA NearStays ==
    ASSUME TypeOK, TypeOK', Timely, NEW rev \in Nat, NEW time \in Nat, Near(rev, time),
           UNCHANGED opRev, row'.rev = row.rev, row'.at = row.at, now' >= now,
           row.status = "cancelled" => row'.status = "cancelled",
           \A d \in sending' : d.owns => d \in sending
    PROVE  Near(rev, time)'
<1>1. /\ now \in Nat /\ now' \in Nat /\ SiteDelay \in Nat /\ Patience \in Nat /\ row.at \in Nat /\ opRev \in Nat
      /\ \A d \in sending : d.at \in Nat
  BY Numbers, NextNumbers
<1>2. ASSUME rev > opRev' PROVE time <= now' + SiteDelay
  <2>1. rev > opRev
    BY <1>2
  <2>2. time <= now + SiteDelay
    BY <2>1 DEF Near
  <2>3. now \in Nat /\ now' \in Nat /\ SiteDelay \in Nat
    BY <1>1
  <2> QED BY <2>2, <2>3, StillSooner
<1>3. rev = row'.rev /\ row'.status # "cancelled" => time <= row'.at + Patience \/ time <= now'
  BY <1>1 DEF Near
<1>4. \A d \in sending' : d.owns /\ d.rev = rev => time <= d.at + Patience \/ time <= now'
  BY <1>1 DEF Near
<1> QED BY <1>2, <1>3, <1>4 DEF Near

(* A post that a job may take is not cancelled, and no owner of the outbox *)
(* has been passed by the site.                                            *)
LEMMA TakenIsCurrent ==
    ASSUME QueueInv, Timely, NEW j, Claimable(j)
    PROVE  /\ row.status # "cancelled" /\ outbox.status # "cancelled"
           /\ ~Overdue
           /\ \A d \in sending : d.owns => d.rev = row.rev /\ d.at = row.at
<1>1. row.status \in {"scheduled", "failed_retry"} /\ (row.status = "scheduled" => row.at <= now)
  BY DEF Claimable
<1>2. now \in Nat /\ row.at \in Nat /\ Grace \in Nat
  BY Numbers DEF QueueInv
<1>3. ~Overdue
  BY <1>2 DEF Overdue, Claimable
<1> QED BY <1>1, <1>2, <1>3 DEF QueueInv, CancelsTogether, OwnerIsCurrent

(* The steps of a job that change nothing but the queue.                   *)
LEMMA JobGoesKeeps ==
    ASSUME QueueInv, TypeOK', Timely, NEW j \in queue, JobIgnored(j) \/ JobLost(j)
    PROVE  QueueInv'
<1>1. /\ queue' = queue \ {j} /\ lastLoss' \in {lastLoss, now}
      /\ UNCHANGED <<now, row, opRev, outbox, sending>>
  BY DEF JobIgnored, JobLost, Fails, history
<1>2. TypeOK
  BY DEF QueueInv
<1>3. lastLoss' >= lastLoss /\ lastLoss' <= now /\ lastLoss' \in Nat
  BY <1>1, <1>2, Numbers DEF QueueInv, ClockIsAhead
<1>4. JobsAreNamed' /\ ClockIsAhead' /\ CancelsTogether' /\ RowIsNear' /\ OwnerIsCurrent'
  BY <1>1, <1>3 DEF QueueInv, JobsAreNamed, IsMain, ClockIsAhead, CancelsTogether, RowIsNear, OwnerIsCurrent
<1>5. PlansAreNear'
  BY <1>1 DEF QueueInv, PlansAreNear, Near, IsMain
<1>6. LeaseIsHeld' /\ OverdueHasLoss' /\ LossIsRepaired' /\ RetryIsAfter'
  BY <1>1, <1>2, <1>3, Numbers DEF QueueInv, LeaseIsHeld, OverdueHasLoss, LossIsRepaired, Overdue, RetryIsAfter
<1>7. RetryIsPrompt'
  BY <1>1, <1>2, <1>3, Numbers DEF QueueInv, RetryIsPrompt, Later
<1>8. EnqueuedIsArmed'
  <2> SUFFICES ASSUME outbox.status = "enqueued", row.status \in Waiting, ~Overdue,
                      outbox.touched >= DueAt
               PROVE  (\E k \in queue' : IsMain(k) /\ k.rev = row.rev) \/ lastLoss' >= outbox.touched
    BY <1>1 DEF EnqueuedIsArmed, DueAt, Overdue
  <2>1. CASE JobLost(j)
    BY <2>1 DEF JobLost, Fails, QueueInv, ClockIsAhead
  <2>2. CASE JobIgnored(j)
    <3>1. CASE j.rev = row.rev
      <4>1. outbox.touched <= now /\ DueAt <= now /\ DueAt \in Nat
        BY <1>2, Numbers DEF QueueInv, ClockIsAhead, DueAt
      <4>2. Claimable(j)
        BY <1>2, <3>1, <4>1, Numbers DEF Claimable, DueAt, Waiting, Overdue
      <4> QED BY <2>2, <4>2 DEF JobIgnored
    <3>2. CASE j.rev # row.rev
      BY <1>1, <1>3, <3>2, <1>2, Numbers DEF QueueInv, EnqueuedIsArmed
    <3> QED BY <3>1, <3>2
  <2> QED BY <2>1, <2>2
<1> QED BY <1>4, <1>5, <1>6, <1>7, <1>8 DEF QueueInv

(* The steps of a job that took its post.                                  *)
LEMMA JobTakesKeeps ==
    ASSUME QueueInv, TypeOK', Timely, NEW j \in queue, JobDelivers(j) \/ JobRefused(j)
    PROVE  QueueInv'
<1>1. TypeOK /\ row \in RowType
  BY Typed DEF QueueInv
<1>2. UNCHANGED <<now, opRev, outbox, sending, lastLoss>>
  BY DEF JobDelivers, JobRefused, history
<1>3. Claimable(j)
  BY DEF JobDelivers, JobRefused
<1>4. /\ row'.rev = row.rev /\ row'.at = row.at
      /\ row'.status \in {"published", "published_unverified", "failed_retry", "failed"}
      /\ row'.status = "failed_retry" => row'.nextAt > now
  <2>1. CASE JobDelivers(j)
    BY <1>1, <2>1 DEF JobDelivers, RowType
  <2>2. CASE JobRefused(j) /\ row.attempts + 1 < MaxAttempts
    <3> DEFINE new == [row EXCEPT !.status = "failed_retry", !.attempts = row.attempts + 1,
                                  !.nextAt = now + RetryDelay[row.attempts + 1]]
    <3>1. /\ new.rev = row.rev /\ new.at = row.at /\ new.status = "failed_retry"
          /\ new.nextAt = now + RetryDelay[row.attempts + 1]
      BY <1>1 DEF RowType
    <3>2. row' = new
      BY <2>2 DEF JobRefused
    <3>3. now + RetryDelay[row.attempts + 1] > now
      BY <1>1, <2>2, RetryIsLater, Typed
    <3> QED BY <3>1, <3>2, <3>3
  <2>3. CASE JobRefused(j) /\ ~(row.attempts + 1 < MaxAttempts)
    BY <1>1, <2>3 DEF JobRefused, RowType
  <2> QED BY <2>1, <2>2, <2>3
<1>5. \A k \in queue' : k \in queue \/ (k.state = "waiting" /\ k.name[1] = "retry")
  <2>1. queue' \subseteq queue \/ \E attempts, runAt :
           queue' = Add(queue, <<"retry", j.rev, attempts>>, j.rev, runAt) \ {j}
    BY DEF JobDelivers, JobRefused
  <2> QED BY <2>1 DEF Add
<1>6. JobsAreNamed' /\ \A k \in queue' : IsMain(k) => k \in queue
  BY <1>5 DEF QueueInv, JobsAreNamed, IsMain
<1>7. ClockIsAhead' /\ RowIsNear' /\ LeaseIsHeld'
  BY <1>2, <1>4 DEF QueueInv, ClockIsAhead, RowIsNear, LeaseIsHeld
<1>8. CancelsTogether' /\ OwnerIsCurrent'
  BY <1>2, <1>3, <1>4, TakenIsCurrent DEF QueueInv, CancelsTogether, OwnerIsCurrent
<1>9. PlansAreNear'
  <2>1. \A rev, time \in Nat : Near(rev, time) => Near(rev, time)'
    BY <1>1, <1>2, <1>3, <1>4, NearStays, TakenIsCurrent, Numbers
  <2>2. \A k \in queue' : IsMain(k) => k \in queue /\ Near(k.rev, k.runAt)'
    BY <1>1, <1>6, <2>1, Numbers DEF QueueInv, PlansAreNear
  <2>3. \A d \in sending' : Near(d.rev, d.at)'
    BY <1>1, <1>2, <2>1, Numbers DEF QueueInv, PlansAreNear
  <2> QED BY <2>2, <2>3 DEF PlansAreNear, IsMain
<1>10. OverdueHasLoss' /\ LossIsRepaired' /\ RetryIsAfter'
  <2>1. row.at <= now
    BY <1>1, <1>3, Numbers DEF QueueInv, RetryIsAfter, Claimable
  <2>2. RetryIsAfter'
    BY <1>1, <1>4, <2>1, Numbers, NextNumbers DEF RetryIsAfter
  <2> QED BY <1>4, <2>2 DEF OverdueHasLoss, Overdue, LossIsRepaired
<1>11. EnqueuedIsArmed' /\ RetryIsPrompt'
  <2>1. now' \in Nat /\ row'.nextAt \in Nat /\ lastLoss' \in Nat /\ outbox'.touched \in Nat /\ Patience \in Nat
    BY Numbers, <1>1, NextNumbers
  <2>2. outbox'.touched <= now'
    BY <1>7 DEF ClockIsAhead
  <2> QED BY <1>2, <1>4, <2>1, <2>2 DEF EnqueuedIsArmed, RetryIsPrompt, Waiting, DueAt, Later
<1> QED BY <1>6, <1>7, <1>8, <1>9, <1>10, <1>11 DEF QueueInv

LEMMA QuarantineKeeps == ASSUME QueueInv, TypeOK', Timely, QuarantineOverdue PROVE QueueInv'
<1>1. TypeOK /\ row \in RowType
  BY Typed DEF QueueInv
<1>2. UNCHANGED <<now, opRev, outbox, sending, queue, lastLoss>>
  BY DEF QuarantineOverdue, history
<1>3. /\ row'.rev = row.rev /\ row'.at = row.at
      /\ row'.status = "quarantined" /\ row.status = "scheduled"
  BY <1>1 DEF QuarantineOverdue, Overdue, RowType
<1>4. row.at <= now
  BY <1>1, Numbers DEF QuarantineOverdue, Overdue
<1>5. JobsAreNamed' /\ ClockIsAhead' /\ CancelsTogether' /\ RowIsNear' /\ LeaseIsHeld'
  BY <1>2, <1>3 DEF QueueInv, JobsAreNamed, IsMain, ClockIsAhead, CancelsTogether, RowIsNear, LeaseIsHeld
<1>6. OwnerIsCurrent'
  BY <1>1, <1>2, <1>3, <1>4, Numbers DEF QueueInv, OwnerIsCurrent
<1>7. PlansAreNear'
  <2>1. \A rev, time \in Nat : Near(rev, time) => Near(rev, time)'
    BY <1>1, <1>2, <1>3, NearStays, Numbers
  <2> QED BY <1>1, <1>2, <2>1, Numbers DEF QueueInv, PlansAreNear, IsMain
<1>8. OverdueHasLoss' /\ EnqueuedIsArmed' /\ RetryIsPrompt' /\ RetryIsAfter'
  BY <1>3 DEF OverdueHasLoss, Overdue, EnqueuedIsArmed, RetryIsPrompt, RetryIsAfter, Waiting
<1>9. LossIsRepaired'
  BY <1>2, <1>3 DEF QueueInv, QuarantineOverdue, OverdueHasLoss, LossIsRepaired
<1> QED BY <1>5, <1>6, <1>7, <1>8, <1>9 DEF QueueInv

(* The row of the post and the clock stand still.                          *)
LEMMA PostStays ==
    ASSUME QueueInv, TypeOK', Timely, UNCHANGED <<now, row>>, lastLoss' >= lastLoss
    PROVE  OverdueHasLoss' /\ LossIsRepaired' /\ RetryIsPrompt' /\ RetryIsAfter'
<1>1. /\ now \in Nat /\ lastLoss \in Nat /\ lastLoss' \in Nat /\ row.at \in Nat /\ row.nextAt \in Nat
      /\ Patience \in Nat /\ Grace \in Nat
  BY Numbers, NextNumbers DEF QueueInv
<1>2. OverdueHasLoss' /\ LossIsRepaired' /\ RetryIsAfter'
  BY <1>1 DEF QueueInv, OverdueHasLoss, LossIsRepaired, Overdue, RetryIsAfter
<1>3. RetryIsPrompt'
  <2> DEFINE before == Later(row.nextAt, lastLoss)
  <2> DEFINE after == Later(row.nextAt, lastLoss')
  <2>1. after >= before /\ after \in Nat /\ before \in Nat
    BY <1>1 DEF Later
  <2>2. row.status = "failed_retry" => now <= before + Patience + 1
    BY DEF QueueInv, RetryIsPrompt
  <2> HIDE DEF before, after
  <2>3. row.status = "failed_retry" => now <= after + Patience + 1
    BY <1>1, <2>1, <2>2
  <2>4. row'.status = "failed_retry" => now' <= Later(row'.nextAt, lastLoss') + Patience + 1
    BY <2>3 DEF after
  <2> QED BY <2>4 DEF RetryIsPrompt
<1> QED BY <1>2, <1>3

LEMMA LeaseKeeps == ASSUME QueueInv, TypeOK', Timely, LeaseOutbox PROVE QueueInv'
<1> DEFINE new == [rev |-> row.rev, at |-> row.at, owns |-> TRUE]
<1>1. TypeOK /\ outbox \in OutboxType
  BY Typed DEF QueueInv
<1>2. UNCHANGED <<now, row, opRev, queue, lastLoss>> /\ sending' = sending \cup {new}
  BY DEF LeaseOutbox, history
<1>3. outbox'.status = "dispatching" /\ outbox'.touched = now
  BY <1>1 DEF LeaseOutbox, OutboxType
<1>4. outbox.status # "cancelled" /\ row.status # "cancelled" /\ \A d \in sending : ~d.owns
  BY DEF LeaseOutbox, Dispatchable, QueueInv, CancelsTogether, OwnerIsCurrent
<1>5. new.rev = row.rev /\ new.at = row.at /\ new.owns
  OBVIOUS
<1> HIDE DEF new
<1>6. JobsAreNamed' /\ ClockIsAhead' /\ CancelsTogether' /\ RowIsNear'
  BY <1>1, <1>2, <1>3, <1>4, Numbers DEF QueueInv, JobsAreNamed, IsMain, ClockIsAhead, CancelsTogether, RowIsNear
<1>7. OwnerIsCurrent' /\ LeaseIsHeld' /\ EnqueuedIsArmed'
  BY <1>2, <1>3, <1>4, <1>5 DEF OwnerIsCurrent, LeaseIsHeld, EnqueuedIsArmed
<1>8. PlansAreNear'
  <2>1. ASSUME NEW rev \in Nat, NEW time \in Nat, Near(rev, time)
        PROVE  Near(rev, time)'
    BY <1>2, <1>4, <1>5, <2>1 DEF Near
  <2>2. Near(row.rev, row.at)
    <3>1. row.rev > opRev => row.at <= now + SiteDelay
      BY DEF QueueInv, RowIsNear
    <3>2. row.at <= row.at + Patience
      BY <1>1, Numbers
    <3> QED BY <1>4, <3>1, <3>2 DEF Near
  <2>3. \A d \in sending' : Near(d.rev, d.at)'
    BY <1>1, <1>2, <1>5, <2>1, <2>2, Numbers DEF QueueInv, PlansAreNear
  <2>4. \A j \in queue' : IsMain(j) => Near(j.rev, j.runAt)'
    BY <1>1, <1>2, <2>1, Numbers DEF QueueInv, PlansAreNear
  <2> QED BY <2>3, <2>4 DEF PlansAreNear, IsMain
<1>9. lastLoss' >= lastLoss
  BY <1>1, <1>2, Numbers
<1> QED BY <1>2, <1>6, <1>7, <1>8, <1>9, PostStays DEF QueueInv

LEMMA ExpireKeeps == ASSUME QueueInv, TypeOK', Timely, ExpireLease PROVE QueueInv'
<1>1. TypeOK /\ outbox \in OutboxType
  BY Typed DEF QueueInv
<1>2. UNCHANGED <<now, row, opRev, queue, lastLoss>> /\ sending' = Disowned
  BY DEF ExpireLease, history
<1>3. /\ outbox'.status = "failed" /\ outbox'.touched = now /\ outbox'.nextAt = now
      /\ outbox.status = "dispatching"
  BY <1>1 DEF ExpireLease, OutboxType
<1>4. \A e \in sending' : ~e.owns /\ \E d \in sending : e.rev = d.rev /\ e.at = d.at
  BY <1>1, <1>2, DisownedTyped
<1>5. JobsAreNamed' /\ ClockIsAhead' /\ CancelsTogether' /\ RowIsNear'
  BY <1>1, <1>2, <1>3, Numbers DEF QueueInv, JobsAreNamed, IsMain, ClockIsAhead, CancelsTogether, RowIsNear
<1>6. OwnerIsCurrent' /\ LeaseIsHeld' /\ EnqueuedIsArmed'
  BY <1>3, <1>4 DEF OwnerIsCurrent, LeaseIsHeld, EnqueuedIsArmed
<1>7. PlansAreNear'
  <2>1. ASSUME NEW rev \in Nat, NEW time \in Nat, Near(rev, time)
        PROVE  Near(rev, time)'
    BY <1>2, <1>4, <2>1 DEF Near
  <2>2. \A e \in sending' : Near(e.rev, e.at)'
    BY <1>1, <1>4, <2>1, Numbers DEF QueueInv, PlansAreNear
  <2>3. \A j \in queue' : IsMain(j) => Near(j.rev, j.runAt)'
    BY <1>1, <1>2, <2>1, Numbers DEF QueueInv, PlansAreNear
  <2> QED BY <2>2, <2>3 DEF PlansAreNear, IsMain
<1>8. lastLoss' >= lastLoss
  BY <1>1, <1>2, Numbers
<1> QED BY <1>2, <1>5, <1>6, <1>7, <1>8, PostStays DEF QueueInv

LEMMA DispatcherDiesKeeps ==
    ASSUME QueueInv, TypeOK', Timely, NEW d \in sending, DispatcherDies(d)
    PROVE  QueueInv'
<1>1. TypeOK
  BY DEF QueueInv
<1>2. /\ UNCHANGED <<now, row, opRev, outbox, queue>> /\ sending' = sending \ {d} /\ lastLoss' = now
  BY DEF DispatcherDies, Fails
<1>3. lastLoss' >= lastLoss /\ now <= now
  BY <1>1, <1>2, Numbers DEF QueueInv, ClockIsAhead
<1>4. JobsAreNamed' /\ ClockIsAhead' /\ CancelsTogether' /\ RowIsNear'
  BY <1>2, <1>3 DEF QueueInv, JobsAreNamed, IsMain, ClockIsAhead, CancelsTogether, RowIsNear
<1>5. OwnerIsCurrent' /\ LeaseIsHeld' /\ EnqueuedIsArmed'
  BY <1>2 DEF QueueInv, ClockIsAhead, OwnerIsCurrent, LeaseIsHeld, EnqueuedIsArmed
<1>6. PlansAreNear'
  <2>1. ASSUME NEW rev \in Nat, NEW time \in Nat, Near(rev, time)
        PROVE  Near(rev, time)'
    BY <1>2, <2>1 DEF Near
  <2> QED BY <1>1, <1>2, <2>1, Numbers DEF QueueInv, PlansAreNear, IsMain
<1> QED BY <1>2, <1>3, <1>4, <1>5, <1>6, PostStays DEF QueueInv

(* What a dispatcher adds: a main job of its revision is in the queue.     *)
LEMMA EnqueuedIsThere ==
    ASSUME QueueInv, Timely, NEW d \in sending, EnqueueJob(d)
    PROVE  /\ \A j \in queue : j \in queue'
           /\ \A j \in queue' : j \in queue \/ (j.state = "waiting" /\ IsMain(j)
                                                /\ j.rev = d.rev /\ j.runAt = Later(d.at, now))
           /\ \E j \in queue' : IsMain(j) /\ j.rev = d.rev /\ j.state = "waiting"
<1> DEFINE name == <<"main", d.rev, 0>>
<1> DEFINE new == [name |-> name, rev |-> d.rev, runAt |-> Later(d.at, now), state |-> "waiting"]
<1>1. /\ new.state = "waiting" /\ IsMain(new) /\ new.rev = d.rev /\ new.runAt = Later(d.at, now)
  BY DEF IsMain
<1>2. queue' = IF \E j \in queue : j.name = name THEN queue ELSE queue \cup {new}
  BY DEF EnqueueJob, Add
<1> HIDE DEF new
<1>3. CASE \E j \in queue : j.name = name
  <2>1. PICK j \in queue : j.name = name
    BY <1>3
  <2>2. j.name[1] = "main" /\ j.state = "waiting" /\ IsMain(j)
    BY <2>1 DEF QueueInv, JobsAreNamed
  <2>3. j.rev = d.rev
    BY <2>1, <2>2 DEF IsMain
  <2> QED BY <1>2, <1>3, <2>2, <2>3
<1>4. CASE ~\E j \in queue : j.name = name
  BY <1>1, <1>2, <1>4
<1> QED BY <1>3, <1>4

LEMMA EnqueueKeeps ==
    ASSUME QueueInv, TypeOK', Timely, NEW d \in sending, EnqueueJob(d)
    PROVE  QueueInv'
<1>1. TypeOK /\ outbox \in OutboxType /\ d.rev \in Nat /\ d.at \in Nat /\ d.owns \in BOOLEAN
  BY Typed, Fields DEF QueueInv
<1>2. UNCHANGED <<now, row, opRev, lastLoss>> /\ sending' = sending \ {d}
  BY DEF EnqueueJob, history
<1>3. ASSUME d.owns PROVE ClockIsAhead' /\ CancelsTogether' /\ OwnerIsCurrent' /\ LeaseIsHeld' /\ EnqueuedIsArmed'
  <2>1. outbox'.status = "enqueued" /\ outbox'.touched = now
    BY <1>1, <1>3 DEF EnqueueJob, OutboxType
  <2>2. /\ \A e \in sending' : ~e.owns
        /\ outbox.status = "dispatching"
        /\ d.rev = row.rev \/ (row.status = "scheduled" /\ row.at > now)
    BY <1>2, <1>3 DEF QueueInv, OwnerIsCurrent
  <2>3. row.status # "cancelled"
    BY <2>2 DEF QueueInv, CancelsTogether
  <2>4. ClockIsAhead' /\ CancelsTogether' /\ OwnerIsCurrent' /\ LeaseIsHeld'
    BY <1>1, <1>2, <2>1, <2>2, <2>3, Numbers DEF QueueInv, ClockIsAhead, CancelsTogether, OwnerIsCurrent, LeaseIsHeld
  <2>5. EnqueuedIsArmed'
    <3>1. CASE d.rev = row.rev
      BY <1>2, <3>1, EnqueuedIsThere DEF EnqueuedIsArmed
    <3>2. CASE row.status = "scheduled" /\ row.at > now
      BY <1>1, <1>2, <2>1, <3>2, Numbers DEF EnqueuedIsArmed, DueAt
    <3> QED BY <2>2, <3>1, <3>2
  <2> QED BY <2>4, <2>5
<1>4. ASSUME ~d.owns PROVE ClockIsAhead' /\ CancelsTogether' /\ OwnerIsCurrent' /\ LeaseIsHeld' /\ EnqueuedIsArmed'
  <2>1. UNCHANGED outbox
    BY <1>4 DEF EnqueueJob
  <2>2. ClockIsAhead' /\ CancelsTogether' /\ OwnerIsCurrent' /\ LeaseIsHeld'
    BY <1>2, <1>4, <2>1 DEF QueueInv, ClockIsAhead, CancelsTogether, OwnerIsCurrent, LeaseIsHeld
  <2>3. EnqueuedIsArmed'
    BY <1>2, <2>1, EnqueuedIsThere DEF QueueInv, EnqueuedIsArmed, DueAt, Overdue, IsMain
  <2> QED BY <2>2, <2>3
<1>5. JobsAreNamed' /\ RowIsNear'
  BY <1>2, EnqueuedIsThere DEF QueueInv, JobsAreNamed, IsMain, RowIsNear
<1>6. PlansAreNear'
  <2>1. ASSUME NEW rev \in Nat, NEW time \in Nat, Near(rev, time)
        PROVE  Near(rev, time)'
    BY <1>2, <2>1 DEF Near
  <2>2. Later(d.at, now) \in Nat /\ Near(d.rev, Later(d.at, now))
    <3>1. Later(d.at, now) \in {d.at, now} /\ Later(d.at, now) \in Nat
      BY <1>1, Numbers, LaterTyped
    <3>2. Near(d.rev, d.at)
      BY DEF QueueInv, PlansAreNear
    <3>3. Near(d.rev, now)
      BY <1>1, Numbers DEF Near
    <3> QED BY <3>1, <3>2, <3>3
  <2>3. \A j \in queue' : IsMain(j) => Near(j.rev, j.runAt)
    BY <2>2, EnqueuedIsThere DEF QueueInv, PlansAreNear
  <2>4. \A j \in queue' : j.rev \in Nat /\ j.runAt \in Nat
    BY NextNumbers
  <2>5. \A e \in sending' : Near(e.rev, e.at)'
    BY <1>1, <1>2, <2>1, Numbers DEF QueueInv, PlansAreNear
  <2> QED BY <2>1, <2>3, <2>4, <2>5 DEF PlansAreNear, IsMain
<1>7. lastLoss' >= lastLoss
  BY <1>1, <1>2, Numbers
<1> QED BY <1>2, <1>3, <1>4, <1>5, <1>6, <1>7, PostStays DEF QueueInv

-----------------------------------------------------------------------------
(* Requests.                                                               *)

(* The operation writes the row under a revision that was not its own.     *)
LEMMA OperationNear ==
    ASSUME QueueInv, TypeOK', Timely, opRev' = opRev + 1, UNCHANGED now,
           row'.rev = opRev + 1, row'.status = "cancelled" \/ row'.at > now,
           sending' = Disowned, queue' \subseteq queue
    PROVE  PlansAreNear'
<1>1. /\ TypeOK /\ opRev \in Nat /\ now \in Nat /\ row'.at \in Nat
      /\ SiteDelay \in Nat /\ Patience \in Nat /\ SiteDelay <= Patience + 1
  BY Numbers, NextNumbers DEF QueueInv
<1>2. \A e \in sending' : ~e.owns /\ \E d \in sending : e.rev = d.rev /\ e.at = d.at
  BY <1>1, DisownedTyped
<1>3. ASSUME NEW rev \in Nat, NEW time \in Nat, Near(rev, time)
      PROVE  Near(rev, time)'
  <2>1. rev > opRev => time <= now + SiteDelay
    BY <1>3 DEF Near
  <2>2. rev > opRev' => time <= now' + SiteDelay
    BY <1>1, <2>1
  <2>3. rev = row'.rev /\ row'.status # "cancelled" => time <= row'.at + Patience
    BY <1>1, <2>1
  <2>4. \A d \in sending' : ~d.owns
    BY <1>2
  <2> QED BY <2>2, <2>3, <2>4 DEF Near
<1>4. \A e \in sending' : Near(e.rev, e.at)'
  BY <1>1, <1>2, <1>3, Numbers DEF QueueInv, PlansAreNear
<1>5. \A j \in queue' : IsMain(j) => Near(j.rev, j.runAt)'
  BY <1>1, <1>3, Numbers DEF QueueInv, PlansAreNear
<1> QED BY <1>4, <1>5 DEF PlansAreNear, IsMain

LEMMA RescheduleKeeps ==
    ASSUME QueueInv, TypeOK', Timely, NEW at \in Times, RescheduleOperation(at)
    PROVE  QueueInv'
<1>1. TypeOK /\ at \in Nat
  BY Typed DEF QueueInv
<1>2. /\ row'.status = "scheduled" /\ row'.rev = opRev + 1 /\ row'.at = at /\ at > now
      /\ outbox'.status = "pending" /\ outbox'.nextAt = now /\ outbox'.touched = now
      /\ opRev' = opRev + 1 /\ sending' = Disowned /\ UNCHANGED <<now, lastLoss>>
  BY DEF RescheduleOperation
<1>3. queue' \subseteq queue
  BY DEF RescheduleOperation, RemoveMainJob
<1>4. row'.at > now
  BY <1>2
<1>5. \A e \in sending' : ~e.owns
  BY <1>1, <1>2, DisownedTyped
<1>6. JobsAreNamed' /\ ClockIsAhead' /\ CancelsTogether' /\ RowIsNear'
  BY <1>1, <1>2, <1>3, Numbers DEF QueueInv, JobsAreNamed, IsMain, ClockIsAhead, CancelsTogether, RowIsNear
<1>7. OwnerIsCurrent' /\ LeaseIsHeld' /\ EnqueuedIsArmed'
  BY <1>2, <1>5 DEF OwnerIsCurrent, LeaseIsHeld, EnqueuedIsArmed
<1>8. PlansAreNear'
  BY <1>1, <1>2, <1>3, <1>4, OperationNear, Numbers
<1>9. OverdueHasLoss' /\ LossIsRepaired' /\ RetryIsPrompt' /\ RetryIsAfter'
  BY <1>1, <1>2, Numbers DEF OverdueHasLoss, Overdue, LossIsRepaired, RetryIsPrompt, RetryIsAfter
<1> QED BY <1>6, <1>7, <1>8, <1>9 DEF QueueInv

LEMMA CancelKeeps == ASSUME QueueInv, TypeOK', Timely, CancelOperation PROVE QueueInv'
<1>1. TypeOK /\ row \in RowType /\ outbox \in OutboxType
  BY Typed DEF QueueInv
<1>2. /\ row'.status = "cancelled" /\ row'.rev = opRev + 1
  BY <1>1 DEF CancelOperation, RowType
<1>3. /\ outbox'.status = "cancelled" /\ outbox'.touched = now
      /\ opRev' = opRev + 1 /\ sending' = Disowned /\ UNCHANGED <<now, lastLoss>>
  BY <1>1 DEF CancelOperation, OutboxType
<1>4. queue' \subseteq queue
  BY DEF CancelOperation, RemoveMainJob
<1>5. \A e \in sending' : ~e.owns
  BY <1>1, <1>3, DisownedTyped
<1>6. JobsAreNamed' /\ ClockIsAhead' /\ CancelsTogether' /\ RowIsNear'
  BY <1>1, <1>2, <1>3, <1>4, Numbers DEF QueueInv, JobsAreNamed, IsMain, ClockIsAhead, CancelsTogether, RowIsNear
<1>7. OwnerIsCurrent' /\ LeaseIsHeld' /\ EnqueuedIsArmed'
  BY <1>3, <1>5 DEF OwnerIsCurrent, LeaseIsHeld, EnqueuedIsArmed
<1>8. PlansAreNear'
  BY <1>2, <1>3, <1>4, OperationNear
<1>9. OverdueHasLoss' /\ LossIsRepaired' /\ RetryIsPrompt' /\ RetryIsAfter'
  BY <1>2 DEF OverdueHasLoss, Overdue, LossIsRepaired, RetryIsPrompt, RetryIsAfter
<1> QED BY <1>6, <1>7, <1>8, <1>9 DEF QueueInv

LEMMA SiteKeeps == ASSUME QueueInv, TypeOK', Timely, RetryFromSite PROVE QueueInv'
<1>1. TypeOK /\ row \in RowType
  BY Typed DEF QueueInv
<1>2. UNCHANGED <<now, opRev, outbox, sending, lastLoss>> /\ row.status \in {"failed", "quarantined"}
  BY DEF RetryFromSite
<1>3. row'.status = "scheduled" /\ row'.at = now + SiteDelay /\ row'.rev = row.rev + 1
  BY <1>1 DEF RetryFromSite, RowType
<1>4. row'.at > now /\ row'.rev > opRev
  BY <1>1, <1>3, Numbers DEF QueueInv, RowIsNear
<1>5. \A j \in queue' : j \in queue \/ (j.state = "waiting" /\ j.name[1] = "manual")
  BY DEF RetryFromSite, Add
<1>6. JobsAreNamed' /\ \A j \in queue' : IsMain(j) => j \in queue
  BY <1>5 DEF QueueInv, JobsAreNamed, IsMain
<1>7. ClockIsAhead' /\ CancelsTogether' /\ RowIsNear' /\ LeaseIsHeld'
  BY <1>1, <1>2, <1>3, <1>4, Numbers DEF QueueInv, ClockIsAhead, CancelsTogether, RowIsNear, LeaseIsHeld
<1>8. OwnerIsCurrent'
  BY <1>2, <1>3, <1>4 DEF QueueInv, OwnerIsCurrent
<1>9. EnqueuedIsArmed'
  BY <1>1, <1>2, <1>3, <1>4, <1>7, Numbers DEF EnqueuedIsArmed, DueAt, ClockIsAhead
<1>10. PlansAreNear'
  <2>1. ASSUME NEW rev \in Nat, NEW time \in Nat, Near(rev, time)
        PROVE  Near(rev, time)'
    <3>1. rev > opRev => time <= now + SiteDelay
      BY <2>1 DEF Near
    <3>2. rev = row'.rev => time <= row'.at + Patience
      BY <1>1, <1>3, <1>4, <3>1, Numbers
    <3> QED BY <1>2, <2>1, <3>2 DEF Near
  <2>2. \A j \in queue' : IsMain(j) => j \in queue /\ Near(j.rev, j.runAt)'
    BY <1>1, <1>6, <2>1, Numbers DEF QueueInv, PlansAreNear
  <2>3. \A d \in sending' : Near(d.rev, d.at)'
    BY <1>1, <1>2, <2>1, Numbers DEF QueueInv, PlansAreNear
  <2> QED BY <2>2, <2>3 DEF PlansAreNear, IsMain
<1>11. OverdueHasLoss' /\ LossIsRepaired' /\ RetryIsPrompt' /\ RetryIsAfter'
  BY <1>1, <1>2, <1>3, <1>4, Numbers DEF OverdueHasLoss, Overdue, LossIsRepaired, RetryIsPrompt, RetryIsAfter
<1> QED BY <1>6, <1>7, <1>8, <1>9, <1>10, <1>11 DEF QueueInv

-----------------------------------------------------------------------------
(* The clock.  A minute ends only when there is nothing left to do in it:  *)
(* the outbox of a waiting post was then recorded as enqueued within its   *)
(* patience, or its dispatcher died this minute.                           *)
LEMMA QuietMinute ==
    ASSUME QueueInv, Timely, ~Busy, row.status \in Waiting
    PROVE  /\ sending = {} /\ ~Overdue
           /\ \/ lastLoss >= now
              \/ outbox.status = "enqueued" /\ outbox.touched + Patience >= now
           /\ outbox.status = "enqueued" /\ outbox.touched >= DueAt =>
                 lastLoss >= outbox.touched \/ row.at + Patience > now
<1>1. TypeOK /\ outbox \in OutboxType /\ queue \subseteq Job
  BY Typed DEF QueueInv
<1>2. sending = {} /\ ~Overdue /\ ~Dispatchable
      /\ ~(outbox.status = "dispatching" /\ outbox.touched < now)
  BY DEF Busy
<1>3. outbox.status # "cancelled"
  BY DEF QueueInv, CancelsTogether, Waiting
<1>4. CASE outbox.status \in {"pending", "failed"}
  BY <1>2, <1>4 DEF Dispatchable, QueueInv, ClockIsAhead
<1>5. CASE outbox.status = "dispatching"
  <2>1. outbox.touched >= now /\ lastLoss >= outbox.touched
    BY <1>1, <1>2, <1>5, Numbers DEF QueueInv, LeaseIsHeld
  <2> QED BY <1>1, <1>2, <1>5, <2>1, Numbers
<1>6. CASE outbox.status = "enqueued"
  <2>1. outbox.touched + Patience >= now
    BY <1>1, <1>2, <1>6, Numbers DEF Dispatchable
  <2>2. ASSUME outbox.touched >= DueAt, ~(lastLoss >= outbox.touched)
        PROVE  row.at + Patience > now
    <3>1. PICK j \in queue : IsMain(j) /\ j.rev = row.rev
      BY <1>2, <1>6, <2>2 DEF QueueInv, EnqueuedIsArmed
    <3>2. j.state = "waiting" /\ ~Due(j)
      BY DEF QueueInv, JobsAreNamed, Busy
    <3>3. j.runAt > now
      BY <1>1, <3>2, Numbers DEF Due
    <3>4. Near(j.rev, j.runAt)
      BY <3>1 DEF QueueInv, PlansAreNear
    <3>5. j.runAt <= row.at + Patience \/ j.runAt <= now
      BY <3>1, <3>4 DEF Near, Waiting
    <3> QED BY <1>1, <3>3, <3>5, Numbers
  <2> QED BY <1>2, <1>6, <2>1, <2>2
<1> QED BY <1>1, <1>3, <1>4, <1>5, <1>6 DEF OutboxType

LEMMA TickKeeps == ASSUME QueueInv, TypeOK', Timely, Tick PROVE QueueInv'
<1>1. TypeOK
  BY DEF QueueInv
<1>2. now' = now + 1 /\ UNCHANGED <<row, opRev, outbox, sending, queue, lastLoss>> /\ ~Busy
  BY DEF Tick, history, Timely
<1>3. sending = {}
  BY <1>2 DEF Busy
<1>4. JobsAreNamed' /\ ClockIsAhead' /\ CancelsTogether' /\ RowIsNear' /\ OwnerIsCurrent' /\ LeaseIsHeld'
      /\ LossIsRepaired' /\ RetryIsAfter'
  <2>1. JobsAreNamed' /\ CancelsTogether' /\ LeaseIsHeld' /\ LossIsRepaired' /\ RetryIsAfter'
    BY <1>2 DEF QueueInv, JobsAreNamed, IsMain, CancelsTogether, LeaseIsHeld, LossIsRepaired, RetryIsAfter
  <2>2. ClockIsAhead' /\ RowIsNear'
    BY <1>1, <1>2, Numbers DEF QueueInv, ClockIsAhead, RowIsNear
  <2>3. OwnerIsCurrent'
    BY <1>2, <1>3 DEF OwnerIsCurrent
  <2> QED BY <2>1, <2>2, <2>3
<1>5. PlansAreNear'
  <2>1. now' >= now
    BY <1>1, <1>2, Numbers
  <2>2. \A rev, time \in Nat : Near(rev, time) => Near(rev, time)'
    BY <1>1, <1>2, <2>1, NearStays
  <2> QED BY <1>1, <1>2, <2>2, Numbers DEF QueueInv, PlansAreNear, IsMain
<1>6. EnqueuedIsArmed'
  <2>1. Overdue => Overdue'
    BY <1>1, <1>2, Numbers DEF Overdue
  <2> QED BY <1>2, <2>1 DEF QueueInv, EnqueuedIsArmed, DueAt, IsMain
<1>7. OverdueHasLoss'
  <2> SUFFICES ASSUME Overdue' PROVE lastLoss >= row.at
    BY <1>2 DEF OverdueHasLoss
  <2>1. row.status = "scheduled" /\ now + 1 > row.at + Grace /\ DueAt = row.at /\ row.status \in Waiting
    BY <1>2 DEF Overdue, DueAt, Waiting
  <2> QED BY <1>1, <1>2, <2>1, QuietMinute, Numbers
<1>8. RetryIsPrompt'
  <2> SUFFICES ASSUME row.status = "failed_retry"
               PROVE  now + 1 <= Later(row.nextAt, lastLoss) + Patience + 1
    BY <1>2 DEF RetryIsPrompt
  <2> DEFINE last == Later(row.nextAt, lastLoss)
  <2>1. last \in Nat /\ last >= row.nextAt /\ last >= lastLoss
    BY <1>1, Numbers, LaterTyped
  <2>2. DueAt = row.nextAt /\ row.status \in Waiting /\ row.at <= row.nextAt
    BY DEF DueAt, Waiting, QueueInv, RetryIsAfter
  <2> HIDE DEF last
  <2>3. now <= last + Patience
    BY <1>1, <1>2, <2>1, <2>2, QuietMinute, Numbers
  <2> QED BY <1>1, <2>1, <2>3, Numbers DEF last
<1> QED BY <1>4, <1>5, <1>6, <1>7, <1>8 DEF QueueInv

-----------------------------------------------------------------------------
LEMMA InTimeStarts == ASSUME Init, Timely PROVE QueueInv
<1>1. TypeOK
  BY QueueStarts
<1>2. /\ JobsAreNamed /\ ClockIsAhead /\ CancelsTogether /\ RowIsNear /\ PlansAreNear /\ OwnerIsCurrent
      /\ LeaseIsHeld /\ EnqueuedIsArmed
  BY DEF Init, JobsAreNamed, ClockIsAhead, CancelsTogether, RowIsNear, PlansAreNear, OwnerIsCurrent,
         LeaseIsHeld, EnqueuedIsArmed
<1>3. /\ OverdueHasLoss /\ RetryIsAfter /\ LossIsRepaired /\ RetryIsPrompt
  BY TimesAssumption DEF Init, OverdueHasLoss, Overdue, RetryIsAfter, LossIsRepaired, RetryIsPrompt
<1> QED BY <1>1, <1>2, <1>3 DEF QueueInv

LEMMA InTimeSteps == ASSUME QueueInv, Timely, [Next]_vars PROVE QueueInv'
<1>1. TypeOK'
  BY StepTypes DEF QueueInv
<1>2. CASE UNCHANGED vars
  BY <1>1, <1>2 DEF vars, QueueInv, JobsAreNamed, ClockIsAhead, CancelsTogether, RowIsNear, PlansAreNear, Near,
      OwnerIsCurrent, LeaseIsHeld, EnqueuedIsArmed, OverdueHasLoss, RetryIsAfter, LossIsRepaired,
      RetryIsPrompt, DueAt, Overdue, IsMain
<1>3. CASE JobStep
  <2>1. PICK j \in queue : \/ JobIgnored(j) \/ JobDelivers(j) \/ JobRefused(j)
                           \/ RetryQueueDown(j) \/ JobThrows(j) \/ JobLost(j)
    BY <1>3 DEF JobStep
  <2>2. ~RetryQueueDown(j) /\ ~JobThrows(j)
    BY DEF RetryQueueDown, JobThrows, Fails, Timely
  <2> QED BY <1>1, <2>1, <2>2, JobGoesKeeps, JobTakesKeeps
<1>4. CASE TimerStep
  <2>1. \A d \in sending : ~EnqueueFails(d)
    BY DEF EnqueueFails, Fails, Timely
  <2> QED BY <1>1, <1>4, <2>1, QuarantineKeeps, LeaseKeeps, ExpireKeeps, EnqueueKeeps, DispatcherDiesKeeps
          DEF TimerStep
<1>5. CASE PersonStep
  <2>1. ~CancelByAdmin /\ ~RetryFromBot /\ \A at \in Times : ~MoveByAdmin(at)
    BY DEF CancelByAdmin, RetryFromBot, MoveByAdmin, Asks, Timely
  <2> QED BY <1>1, <1>5, <2>1, RescheduleKeeps, CancelKeeps, SiteKeeps DEF PersonStep
<1> QED BY <1>1, <1>2, <1>3, <1>4, <1>5, TickKeeps DEF Next

(* The inductive invariant of the timely world.                            *)
THEOREM QueueInvariance == ASSUME Timely PROVE Spec => []QueueInv
<1>1. Init => QueueInv
  BY InTimeStarts
<1>2. QueueInv /\ [Next]_vars => QueueInv'
  BY InTimeSteps
<1> QED BY <1>1, <1>2, PTL DEF Spec

(* A post is put before a person as overdue only if something failed in or *)
(* after its very minute: a job lost earlier is replaced in time by the    *)
(* replay of reconcilePublicationOutbox.                                   *)
THEOREM LossesAreRepaired == ASSUME Timely PROVE Spec => []LossIsRepaired
<1>1. QueueInv => LossIsRepaired
  BY DEF QueueInv
<1> QED BY <1>1, QueueInvariance, PTL

(* An attempt that was promised for a minute happens then, or within one   *)
(* replay of the outbox after its job was lost.                            *)
THEOREM RetriesArePrompt == ASSUME Timely PROVE Spec => []RetryIsPrompt
<1>1. QueueInv => RetryIsPrompt
  BY DEF QueueInv
<1> QED BY <1>1, QueueInvariance, PTL

LEMMA EnqueuedFires ==
    ASSUME QueueInv, TypeOK', Timely, Next, NEW d \in sending,
           outbox.status = "dispatching", outbox'.status = "enqueued", d.owns, d \notin sending'
    PROVE  \E j \in queue' : /\ j.rev = d.rev /\ j.state = "waiting"
                              /\ j.runAt <= Later(d.at, now) + Grace
<1>1. TypeOK /\ outbox \in OutboxType /\ row \in RowType
  BY Typed DEF QueueInv
<1>2. PICK e \in sending : EnqueueJob(e)
  <2>1. UNCHANGED outbox => FALSE
    OBVIOUS
  <2>2. ~JobStep /\ ~Tick
    BY <2>1 DEF JobStep, JobIgnored, JobDelivers, JobRefused, RetryQueueDown, JobThrows, JobLost, Tick
  <2>3. ~PersonStep
    <3>1. \A at \in Times : ~RescheduleOperation(at) /\ ~MoveByAdmin(at)
      BY <2>1 DEF RescheduleOperation, MoveByAdmin
    <3>2. ~CancelOperation
      <4>1. [outbox EXCEPT !.status = "cancelled", !.touched = now].status = "cancelled"
        BY <1>1 DEF OutboxType
      <4> QED BY <4>1 DEF CancelOperation
    <3> QED BY <2>1, <3>1, <3>2 DEF PersonStep, CancelByAdmin, RetryFromSite, RetryFromBot
  <2>4. ~QuarantineOverdue /\ ~LeaseOutbox /\ ~ExpireLease
    <3>1. ~QuarantineOverdue /\ ~LeaseOutbox
      BY <2>1 DEF QuarantineOverdue, LeaseOutbox, Dispatchable
    <3>2. [outbox EXCEPT !.status = "failed", !.nextAt = now, !.touched = now].status = "failed"
      BY <1>1 DEF OutboxType
    <3> QED BY <3>1, <3>2 DEF ExpireLease
  <2>5. \A e \in sending : ~EnqueueFails(e) /\ ~DispatcherDies(e)
    BY <2>1 DEF EnqueueFails, DispatcherDies, Fails, Timely
  <2> QED BY <2>2, <2>3, <2>4, <2>5 DEF Next, TimerStep
<1>3. e = d
  BY <1>2 DEF EnqueueJob
<1>4. PICK j \in queue' : IsMain(j) /\ j.rev = d.rev /\ j.state = "waiting"
  BY <1>2, <1>3, EnqueuedIsThere
<1>5. /\ d.at \in Nat /\ now \in Nat /\ j.runAt \in Nat /\ Grace \in Nat
      /\ Patience \in Nat /\ Patience <= Grace
  BY <1>1, Numbers, NextNumbers
<1>6. Later(d.at, now) \in Nat /\ Later(d.at, now) >= d.at /\ Later(d.at, now) >= now
  BY <1>5, LaterTyped
<1>7. j.runAt <= Later(d.at, now) \/ j.runAt <= d.at + Patience
  <2>1. CASE j \in queue
    <3>1. Near(j.rev, j.runAt)
      BY <1>4, <2>1 DEF QueueInv, PlansAreNear
    <3>2. j.runAt <= d.at + Patience \/ j.runAt <= now
      BY <1>4, <3>1 DEF Near
    <3> QED BY <1>5, <1>6, <3>2
  <2>2. CASE j \notin queue
    BY <1>2, <1>3, <1>5, <1>6, <2>2, EnqueuedIsThere
  <2> QED BY <2>1, <2>2
<1>8. j.runAt <= Later(d.at, now) + Grace
  BY <1>5, <1>6, <1>7
<1> QED BY <1>4, <1>8

(* When the outbox records a row as enqueued, the queue holds a job that   *)
(* will fire for its revision within the window: a job that was there      *)
(* under the same name does no harm (queue.add is a no-op then).           *)
THEOREM DispatchIsArmed == ASSUME Timely PROVE Spec => DispatchArms
<1>1. QueueInv /\ QueueInv' /\ [Next]_vars =>
        [\A d \in sending :
          /\ outbox.status = "dispatching" /\ outbox'.status = "enqueued"
          /\ d.owns /\ d \notin sending'
          => \E j \in queue' : /\ j.rev = d.rev /\ j.state = "waiting"
                               /\ j.runAt <= Later(d.at, now) + Grace]_vars
  <2>1. QueueInv' => TypeOK'
    BY DEF QueueInv
  <2> QED BY <2>1, EnqueuedFires
<1> QED BY <1>1, QueueInvariance, PTL DEF Spec, DispatchArms
=============================================================================
