----------------------------- MODULE AiUsage -----------------------------
(* The ledger of paid AI generations of one account: which requests hold a *)
(* place under the daily limit, which were charged, and how the result of  *)
(* a generation survives until the browser has it.                        *)
(*                                                                        *)
(* A row of `ai_usage` is reserved before the provider is called.  Web     *)
(* requests name the attempt that holds the row (`operation_id`), store    *)
(* their result in it and are charged when the browser acknowledges the    *)
(* result.  Tasks of the worker (the reply to a client of the bot) keep    *)
(* their row alive with a heartbeat and are charged in the transaction     *)
(* that saves their result; their row does not name an attempt.           *)
(*                                                                        *)
(* Limits of the model: one day (`usage_date`), one account, one           *)
(* fingerprint per key, and an attempt id is used once.                   *)
EXTENDS Naturals, FiniteSets

CONSTANTS
    WebKey,       \* idempotency keys of web requests
    TaskKey,      \* keys of worker tasks
    Attempt,      \* runs of a handler, each with its own request id
    NoAttempt, NoUsageKey,
    DailyLimit    \* AI_DAILY_LIMIT

UsageKey == WebKey \cup TaskKey

ASSUME UsageAssumption ==
    /\ WebKey \cap TaskKey = {} /\ NoUsageKey \notin UsageKey /\ NoAttempt \notin Attempt
    /\ DailyLimit \in Nat /\ IsFiniteSet(UsageKey)

VARIABLES
    usage,        \* the rows of `ai_usage`
    generation,   \* the rows of `generation_operations`, web keys only
    reply,        \* tasks whose reply is saved
    attempt,      \* the local state of the handlers
    told,         \* keys whose browser has received the terminal `done`
    late          \* keys acknowledged after their reservation had lapsed

usageVars == <<usage, generation, reply, attempt, told, late>>

UsageRow ==
    [status : {"none", "reserved", "committed", "released", "expired"},
     lease  : {"recent", "old", "lapsed"},  \* old: reserved_at allows a worker to reclaim; lapsed: expires_at <= now()
     op     : Attempt \cup {NoAttempt},
     result : BOOLEAN]

GenerationRow ==
    [status  : {"none", "running", "retryable_failed", "failed", "pending_ack", "acknowledged"},
     request : Attempt \cup {NoAttempt}]

AttemptState ==
    [pc  : {"idle", "recovering", "looked", "acquired", "calling", "staged", "failing", "releasing", "done"},
     key : UsageKey \cup {NoUsageKey}]

UsageTypeOK ==
    /\ usage \in [UsageKey -> UsageRow]
    /\ generation \in [WebKey -> GenerationRow]
    /\ reply \subseteq TaskKey
    /\ attempt \in [Attempt -> AttemptState]
    /\ told \subseteq WebKey /\ late \subseteq WebKey

NoUsage == [status |-> "none", lease |-> "lapsed", op |-> NoAttempt, result |-> FALSE]
NoGeneration == [status |-> "none", request |-> NoAttempt]

(* One key may still have what the former two-transaction staging left: an *)
(* artifact that waits for its acknowledgement, and no result to replay.  *)
UsageInit ==
    /\ \E old \in {{}} \cup {{k} : k \in WebKey} :
        /\ usage = [k \in UsageKey |->
                      IF k \in old THEN [NoUsage EXCEPT !.status = "expired"] ELSE NoUsage]
        /\ generation = [k \in WebKey |->
                      IF k \in old THEN [NoGeneration EXCEPT !.status = "pending_ack"] ELSE NoGeneration]
    /\ reply = {}
    /\ attempt = [a \in Attempt |-> [pc |-> "idle", key |-> NoUsageKey]]
    /\ told = {} /\ late = {}

-----------------------------------------------------------------------------
Fresh(row) == row.status = "reserved" /\ row.lease # "lapsed"
Lapsed(row) == row.status = "reserved" /\ row.lease = "lapsed"

(* The cleanup at the head of both acquisitions, and of the cron job.     *)
Swept(rows) == [k \in UsageKey |-> IF Lapsed(rows[k]) THEN [rows[k] EXCEPT !.status = "expired"] ELSE rows[k]]

(* case when expires_at <= now() then 'expired' else target end           *)
Closed(row, target) == [row EXCEPT !.status = IF row.lease = "lapsed" THEN "expired" ELSE target]

Counts(row) == row.status = "committed" \/ Fresh(row)

(* Mutant: only what was charged counts.                                  *)
RoomIgnoringReserved(k) ==
    Cardinality({j \in UsageKey \ {k} : usage[j].status = "committed"}) < DailyLimit

(* One more reservation fits.  The row of the user is locked, so that two *)
(* requests of one account count one after the other.                     *)
Room(k) == Cardinality({j \in UsageKey \ {k} : Counts(usage[j])}) < DailyLimit

At(a, pc) == attempt[a].pc = pc
KeyOf(a) == attempt[a].key
Moves(a, pc) == attempt' = [attempt EXCEPT ![a].pc = pc]

-----------------------------------------------------------------------------
(* POST /api/ai/generate.                                                 *)

AfterLookup(k) ==
    IF generation[k].status = "failed" \/ usage[k].result \/ Fresh(usage[k]) THEN "done"
    ELSE IF usage[k].status = "none" THEN "looked" ELSE "recovering"

(* The read-only probes: a failure that is final, a result to replay, a   *)
(* request in progress, or a way to the next step.                        *)
Lookup(a, k) ==
    /\ At(a, "idle") /\ k \in WebKey
    /\ attempt' = [attempt EXCEPT ![a] = [pc |-> AfterLookup(k), key |-> k]]
    /\ told' = IF generation[k].status # "failed" /\ usage[k].result THEN told \cup {k} ELSE told
    /\ UNCHANGED <<usage, generation, reply, late>>

(* recoverPendingGenerationResult: an artifact without a replay payload    *)
(* gives it back to the row.                                              *)
Recover(a) ==
    LET k == KeyOf(a) IN
    /\ At(a, "recovering")
    /\ IF generation[k].status = "pending_ack"
       THEN /\ usage' = [usage EXCEPT ![k].result = TRUE,
                           ![k].status = IF @ = "committed" \/ Fresh(usage[k]) THEN @ ELSE "expired"]
            /\ told' = told \cup {k}
            /\ Moves(a, "done")
       ELSE /\ Moves(a, IF usage[k].status = "committed" THEN "done" ELSE "looked")
            /\ UNCHANGED <<usage, told>>
    /\ UNCHANGED <<generation, reply, late>>

Reserve(k, op) ==
    usage' = [Swept(usage) EXCEPT ![k] =
                [status |-> "reserved", lease |-> IF k \in TaskKey THEN "recent" ELSE "old",
                 op |-> op, result |-> FALSE]]

(* Mutant: a result does not outlive the reservation it was stored in.    *)
AcquireIgnoringExpiredResult(a) ==
    LET k == KeyOf(a) row == Swept(usage)[k] IN
    /\ At(a, "looked")
    /\ \/ /\ row.status = "committed" \/ row.status = "reserved"
          /\ usage' = Swept(usage)
          /\ told' = IF row.result THEN told \cup {k} ELSE told
          /\ Moves(a, "done")
       \/ /\ row.status \in {"none", "released", "expired"} /\ ~Room(k)
          /\ Moves(a, "done") /\ UNCHANGED <<usage, told>>
       \/ /\ row.status \in {"none", "released", "expired"} /\ Room(k)
          /\ Reserve(k, a) /\ Moves(a, "acquired") /\ UNCHANGED told
    /\ UNCHANGED <<generation, reply, late>>

(* acquireAiUsageRequest, one transaction: replay, refuse, or reserve.    *)
Acquire(a) ==
    LET k == KeyOf(a) row == Swept(usage)[k] IN
    /\ At(a, "looked")
    /\ \/ /\ row.result \/ row.status \in {"committed", "reserved"}
          /\ usage' = Swept(usage)
          /\ told' = IF row.result THEN told \cup {k} ELSE told
          /\ Moves(a, "done")
       \/ /\ ~row.result /\ row.status \in {"none", "released", "expired"} /\ ~Room(k)
          /\ Moves(a, "done") /\ UNCHANGED <<usage, told>>           \* rollback
       \/ /\ ~row.result /\ row.status \in {"none", "released", "expired"} /\ Room(k)
          /\ Reserve(k, a) /\ Moves(a, "acquired") /\ UNCHANGED told
    /\ UNCHANGED <<generation, reply, late>>

(* beginGenerationOperation: the generation now belongs to this attempt,  *)
(* unless it has a result or has failed for good.                         *)
Begin(a) ==
    LET k == KeyOf(a) IN
    /\ At(a, "acquired")
    /\ IF generation[k].status \in {"none", "running", "retryable_failed"}
       THEN /\ generation' = [generation EXCEPT ![k] = [status |-> "running", request |-> a]]
            /\ Moves(a, "calling")
       ELSE /\ Moves(a, "releasing") /\ UNCHANGED generation
    /\ UNCHANGED <<usage, reply, told, late>>

(* stageGenerationResult: the provider has answered; artifact and replay  *)
(* payload are stored together, or neither is.                            *)
Stage(a) ==
    LET k == KeyOf(a) IN
    /\ At(a, "calling") /\ k \in WebKey
    /\ IF /\ generation[k].request = a /\ generation[k].status \in {"running", "pending_ack"}
          /\ usage[k].op = a /\ Fresh(usage[k])
       THEN /\ generation' = [generation EXCEPT ![k].status = "pending_ack"]
            /\ usage' = [usage EXCEPT ![k].result = TRUE]
            /\ Moves(a, "staged")
       ELSE /\ Moves(a, "failing") /\ UNCHANGED <<usage, generation>>
    /\ UNCHANGED <<reply, told, late>>

(* The provider fails or its answer is refused; or the browser has gone,  *)
(* and the generation stays "running".                                    *)
ProviderFails(a) ==
    /\ At(a, "calling") /\ KeyOf(a) \in WebKey
    /\ \/ Moves(a, "failing")
       \/ Moves(a, "releasing")
    /\ UNCHANGED <<usage, generation, reply, told, late>>

(* The terminal `done` reaches the browser, or the connection is closed.  *)
Deliver(a) ==
    /\ At(a, "staged")
    /\ \/ told' = told \cup {KeyOf(a)} /\ Moves(a, "done")
       \/ UNCHANGED told /\ Moves(a, "releasing")
    /\ UNCHANGED <<usage, generation, reply, late>>

(* Mutant: the failure is written for the key of the request.             *)
FailByKey(a) ==
    LET k == KeyOf(a) IN
    /\ At(a, "failing")
    /\ \E status \in {"retryable_failed", "failed"} :
        generation' = [generation EXCEPT ![k].status =
                         IF generation[k].status = "running" THEN status ELSE @]
    /\ Moves(a, "releasing")
    /\ UNCHANGED <<usage, reply, told, late>>

(* failGenerationOperation, bound to the id of the attempt.               *)
Fail(a) ==
    LET k == KeyOf(a) IN
    /\ At(a, "failing")
    /\ \E status \in {"retryable_failed", "failed"} :
        generation' = [generation EXCEPT ![k].status =
                         IF generation[k].request = a /\ @ = "running" THEN status ELSE @]
    /\ Moves(a, "releasing")
    /\ UNCHANGED <<usage, reply, told, late>>

(* releaseAiUsageRequest: its own reservation, and only without a result. *)
Release(a) ==
    LET k == KeyOf(a) IN
    /\ At(a, "releasing") /\ k \in WebKey
    /\ usage' = IF usage[k].op = a /\ usage[k].status = "reserved" /\ ~usage[k].result
                THEN [usage EXCEPT ![k] = Closed(@, "released")] ELSE usage
    /\ Moves(a, "done")
    /\ UNCHANGED <<generation, reply, told, late>>

(* The handler dies, or a statement of its cleanup fails.                 *)
AttemptDies(a) ==
    /\ attempt[a].pc \notin {"idle", "done"}
    /\ Moves(a, "done")
    /\ UNCHANGED <<usage, generation, reply, told, late>>

-----------------------------------------------------------------------------
(* POST /api/ai/generate/ack: two statements; the browser may repeat it.  *)

AcknowledgeUsage(k) ==
    /\ k \in told
    /\ usage[k].result /\ usage[k].status \in {"reserved", "expired"}
    /\ usage' = [usage EXCEPT ![k].status = "committed"]
    /\ late' = IF Fresh(usage[k]) THEN late ELSE late \cup {k}
    /\ UNCHANGED <<generation, reply, attempt, told>>

AcknowledgeArtifact(k) ==
    /\ k \in told
    /\ usage[k].status = "committed" /\ generation[k].status = "pending_ack"
    /\ generation' = [generation EXCEPT ![k].status = "acknowledged"]
    /\ UNCHANGED <<usage, reply, attempt, told, late>>

-----------------------------------------------------------------------------
(* Tasks of the worker.                                                   *)

(* acquireWorkerAiUsage: a row that was not renewed for a while belongs to *)
(* a dead worker and is taken over.                                       *)
TaskAcquire(a, k) ==
    LET row == Swept(usage)[k] IN
    /\ At(a, "idle") /\ k \in TaskKey \ reply
    /\ IF row.status = "committed" \/ (Fresh(row) /\ row.lease = "recent")
       THEN usage' = Swept(usage) /\ attempt' = [attempt EXCEPT ![a] = [pc |-> "done", key |-> k]]
       ELSE IF Room(k)
            THEN /\ Reserve(k, NoAttempt)
                 /\ attempt' = [attempt EXCEPT ![a] = [pc |-> "calling", key |-> k]]
            ELSE UNCHANGED usage /\ attempt' = [attempt EXCEPT ![a] = [pc |-> "done", key |-> k]]
    /\ UNCHANGED <<generation, reply, told, late>>

Heartbeat(a) ==
    LET k == KeyOf(a) IN
    /\ At(a, "calling") /\ k \in TaskKey
    /\ usage[k].lease = "old" /\ usage[k].status = "reserved"
    /\ usage' = [usage EXCEPT ![k].lease = "recent"]
    /\ UNCHANGED <<generation, reply, attempt, told, late>>

(* Mutant: the reply is saved although its charge was refused.            *)
TaskCommitsLoosely(a) ==
    LET k == KeyOf(a) IN
    /\ At(a, "calling") /\ k \in TaskKey
    /\ IF k \notin reply
       THEN /\ usage' = IF usage[k].status = "reserved" THEN [usage EXCEPT ![k] = Closed(@, "committed")] ELSE usage
            /\ reply' = reply \cup {k} /\ Moves(a, "done")
       ELSE Moves(a, "releasing") /\ UNCHANGED <<usage, reply>>
    /\ UNCHANGED <<generation, told, late>>

(* The reply and its charge are one transaction: without a live           *)
(* reservation, or over a reply that is there, it is rolled back.         *)
TaskCommits(a) ==
    LET k == KeyOf(a) IN
    /\ At(a, "calling") /\ k \in TaskKey
    /\ IF k \notin reply /\ Fresh(usage[k])
       THEN /\ usage' = [usage EXCEPT ![k].status = "committed"]
            /\ reply' = reply \cup {k} /\ Moves(a, "done")
       ELSE Moves(a, "releasing") /\ UNCHANGED <<usage, reply>>
    /\ UNCHANGED <<generation, told, late>>

TaskFails(a) ==
    /\ At(a, "calling") /\ KeyOf(a) \in TaskKey
    /\ Moves(a, "releasing")
    /\ UNCHANGED <<usage, generation, reply, told, late>>

(* finalizeWorkerAiUsage knows the row and not who holds it.              *)
TaskReleases(a) ==
    LET k == KeyOf(a) IN
    /\ At(a, "releasing") /\ k \in TaskKey
    /\ usage' = IF usage[k].status = "reserved" THEN [usage EXCEPT ![k] = Closed(@, "released")] ELSE usage
    /\ Moves(a, "done")
    /\ UNCHANGED <<generation, reply, told, late>>

-----------------------------------------------------------------------------
ReservationAges(k) ==
    /\ Fresh(usage[k])
    /\ usage' = [usage EXCEPT ![k].lease = IF @ = "recent" THEN "old" ELSE "lapsed"]
    /\ UNCHANGED <<generation, reply, attempt, told, late>>

ExpireReservations ==
    /\ \E k \in UsageKey : Lapsed(usage[k])
    /\ usage' = Swept(usage)
    /\ UNCHANGED <<generation, reply, attempt, told, late>>

UsageNext ==
    \/ \E a \in Attempt :
        \/ \E k \in WebKey : Lookup(a, k)
        \/ Recover(a) \/ Acquire(a) \/ Begin(a) \/ Stage(a) \/ ProviderFails(a)
        \/ Deliver(a) \/ Fail(a) \/ Release(a) \/ AttemptDies(a)
        \/ \E k \in TaskKey : TaskAcquire(a, k)
        \/ Heartbeat(a) \/ TaskCommits(a) \/ TaskFails(a) \/ TaskReleases(a)
    \/ \E k \in WebKey : AcknowledgeUsage(k) \/ AcknowledgeArtifact(k)
    \/ \E k \in UsageKey : ReservationAges(k)
    \/ ExpireReservations

UsageSpec == UsageInit /\ [][UsageNext]_usageVars

-----------------------------------------------------------------------------
(* The account never holds more places under the daily limit than there   *)
(* are, counting what was charged and what is reserved; only results that *)
(* were acknowledged after their reservation had lapsed come on top.      *)
LimitHolds == Cardinality({k \in UsageKey : Counts(usage[k])} \ late) <= DailyLimit

(* A result that was stored is never lost, and the provider is not called *)
(* again for its key: not by an attempt that had looked before, not after *)
(* the reservation has expired, not by the cleanup of another attempt.    *)
PaidResultIsKept ==
    [][\A k \in WebKey : usage[k].result =>
         /\ usage'[k].result
         /\ \A a \in Attempt : attempt'[a] = [pc |-> "calling", key |-> k] => At(a, "calling")]_usageVars

Live(a) ==
    LET k == KeyOf(a) IN
    /\ At(a, "calling") /\ k \in WebKey
    /\ usage[k].op = a /\ Fresh(usage[k])
    /\ generation[k] = [status |-> "running", request |-> a]

(* While an attempt calls the provider under a reservation that is alive, *)
(* nobody but time takes the reservation or the generation from it: not   *)
(* the late failure, release or result of an earlier attempt.  An earlier *)
(* attempt that only now begins does take the generation: that step does  *)
(* not look at its reservation (generation-artifacts.ts:298-306).         *)
LiveAttemptIsLeftAlone ==
    [][\A a \in Attempt :
         LET k == KeyOf(a) IN
         Live(a) /\ attempt'[a] = attempt[a] =>
           /\ usage'[k] \in {usage[k], [usage[k] EXCEPT !.lease = "lapsed"]}
           /\ \/ generation'[k] = generation[k]
              \/ \E b \in Attempt \ {a} : KeyOf(b) = k /\ At(b, "acquired") /\ generation'[k].request = b]_usageVars

(* The reply of a task is saved exactly when it was charged, although a   *)
(* stalled worker and its successor finish the same row in any order.     *)
ReplyIsCharged == \A k \in TaskKey : k \in reply <=> usage[k].status = "committed"
=============================================================================
