------------------------- MODULE MediaGeneration -------------------------
(* One paid image or video: the request that creates the row and hands it  *)
(* to the queue "media-generation", the workers that claim it under a      *)
(* lease, call the provider and save the file, and the two repairs of     *)
(* what stopped on the way.                                               *)
(*                                                                        *)
(* A worker proves its ownership with a token drawn at its claim; every   *)
(* write of the store locks the row and compares the token first.  A       *)
(* heartbeat of 5 s keeps the lease and the place under the daily limit   *)
(* alive in one transaction.                                              *)
(*                                                                        *)
(* Limits of the model:                                                   *)
(*  - The queue may give any job it was ever given to any worker, at any  *)
(*    time, or never, and any attempt may be its last.                    *)
(*  - A token is named by the worker that drew it, which gives it up      *)
(*    before it can draw another.                                         *)
(*  - The row of `ai_usage` is reduced to its status and whether it has   *)
(*    lapsed; AiUsage.tla has the ledger.                                 *)
EXTENDS Naturals, FiniteSets

CONSTANTS
    MediaWorker,   \* the handlers of the queue "media-generation"
    NoOwner

ASSUME MediaAssumption == NoOwner \notin MediaWorker

VARIABLES
    media,    \* the row of `media_generations`
    place,    \* its row of `ai_usage`
    poster,   \* POST /api/media/generations, after its insert
    maker     \* the local state of the workers

mediaVars == <<media, place, poster, maker>>

Active == {"queued", "submitting", "generating", "saving"}

MediaTypeOK ==
    /\ media \in [status : Active \cup {"ready", "failed"},
                  confirmed : BOOLEAN,                    \* queue_confirmed_at is not null
                  token : MediaWorker \cup {NoOwner},     \* worker_lease_token
                  job : BOOLEAN,                          \* provider_job_id is not null
                  age : {"fresh", "stale", "dead"}]       \* of the last heartbeat: 2 and 15 minutes
    /\ place \in [status : {"reserved", "committed", "released", "expired"}, lapsed : BOOLEAN]
    /\ poster \in {"adding", "added", "compensating", "releasing", "done", "gone"}
    /\ maker \in [MediaWorker ->
          [pc : {"idle", "handoff", "claimed", "rejected", "ready_to_create", "creating", "created",
                 "polling", "persisting", "saving", "failing"},
           token : MediaWorker \cup {NoOwner},   \* of the row it read
           job : BOOLEAN,
           again : BOOLEAN]]                     \* a retryable error, and not of the last attempt

Resting == [pc |-> "idle", token |-> NoOwner, job |-> FALSE, again |-> FALSE]

(* The insert has committed, next to a fresh reservation.                 *)
MediaInit ==
    /\ media = [status |-> "queued", confirmed |-> FALSE, token |-> NoOwner, job |-> FALSE, age |-> "fresh"]
    /\ place = [status |-> "reserved", lapsed |-> FALSE]
    /\ poster = "adding"
    /\ maker = [w \in MediaWorker |-> Resting]

-----------------------------------------------------------------------------
(* finalizeWorkerAiUsage and its twin in ai-usage.ts: a lapsed row is      *)
(* closed as expired, a closed row is left alone.                         *)
Finalized(target) ==
    IF place.status # "reserved" THEN place
    ELSE [place EXCEPT !.status = IF place.lapsed THEN "expired" ELSE target]

FailedRow == [media EXCEPT !.status = "failed", !.token = NoOwner]

Turns(w, pc) == maker' = [maker EXCEPT ![w].pc = pc]
Rests(w) == maker' = [maker EXCEPT ![w] = Resting]
Errs(w, again) == maker' = [maker EXCEPT ![w].pc = "failing", ![w].again = again]
IsAt(w, pc) == maker[w].pc = pc

-----------------------------------------------------------------------------
(* The request, from its insert to its answer.                            *)

(* enqueueMediaGeneration; a queue that does not answer may have taken    *)
(* the job all the same.                                                  *)
EnqueueMedia ==
    /\ poster = "adding"
    /\ poster' \in {"added", "compensating"}
    /\ UNCHANGED <<media, place, maker>>

(* Without its one row, or without an answer of the database, the          *)
(* confirmation counts as a failed hand-off.                              *)
ConfirmHandoff ==
    /\ poster = "added"
    /\ IF media.status = "queued" /\ ~media.confirmed
       THEN /\ media' = [media EXCEPT !.confirmed = TRUE, !.age = "fresh"]
            /\ poster' \in {"done", "compensating"}
       ELSE UNCHANGED media /\ poster' = "compensating"
    /\ UNCHANGED <<place, maker>>

(* Only a row no worker may claim is taken back, and only then its        *)
(* reservation is released.                                               *)
CompensateHandoff ==
    /\ poster = "compensating"
    /\ IF media.status = "queued" /\ ~media.confirmed
       THEN media' = [media EXCEPT !.status = "failed"] /\ poster' = "releasing"
       ELSE UNCHANGED media /\ poster' = "done"
    /\ UNCHANGED <<place, maker>>

ReleaseAfterHandoff ==
    /\ poster = "releasing"
    /\ place' = Finalized("released")
    /\ poster' = "done"
    /\ UNCHANGED <<media, maker>>

PosterDies ==
    /\ poster \in {"adding", "added", "compensating", "releasing"}
    /\ poster' = "gone"
    /\ UNCHANGED <<media, place, maker>>

-----------------------------------------------------------------------------
(* The worker.                                                            *)

Eligible ==
    /\ media.confirmed /\ media.status \in Active
    /\ media.status = "queued" \/ media.age # "fresh"
    /\ media.token = NoOwner \/ media.age # "fresh"

(* Mutant: an interrupted submission is taken up again.                   *)
MayStartAgain == media.age # "dead" /\ place.status = "reserved" /\ ~place.lapsed

(* A claimed row is worked on, unless it has waited for 15 minutes, its   *)
(* submission may have reached the provider unnoticed, or it is not paid. *)
MayStart ==
    /\ media.age # "dead"
    /\ media.status = "queued" \/ media.job
    /\ place.status = "reserved" /\ ~place.lapsed

(* One job is delivered; the claim and the reading of its row.            *)
ClaimMedia(w) ==
    /\ IsAt(w, "idle") /\ poster # "adding"
    /\ \/ /\ Eligible
          /\ media' = [media EXCEPT !.status = "submitting", !.token = w, !.age = "fresh"]
          /\ maker' = [maker EXCEPT ![w] = [pc |-> IF MayStart THEN "claimed" ELSE "rejected",
                                            token |-> w, job |-> media.job, again |-> FALSE]]
       \/ /\ media.status = "queued" /\ ~media.confirmed
          /\ UNCHANGED media
          /\ maker' = [maker EXCEPT ![w] = [Resting EXCEPT !.pc = "handoff"]]
    /\ UNCHANGED <<place, poster>>

(* The row stays unconfirmed: after 10 s the worker ends it, or looks     *)
(* once more and finds it confirmed.                                      *)
HandoffEnds(w) ==
    /\ IsAt(w, "handoff")
    /\ \/ Turns(w, "rejected")
       \/ (media.confirmed \/ media.status = "failed") /\ Rests(w)     \* the next delivery claims it, or leaves it alone
    /\ UNCHANGED <<media, place, poster>>

(* The database does not answer the claim of a last attempt: a row nobody *)
(* has claimed is ended with its reservation.                             *)
FailByJobIdentity(w) ==
    /\ IsAt(w, "idle") /\ poster # "adding"
    /\ media.confirmed /\ media.status = "queued" /\ media.token = NoOwner
    /\ media' = [media EXCEPT !.status = "failed"]
    /\ place' = Finalized("released")
    /\ UNCHANGED <<poster, maker>>

Owns(w) == media.token = maker[w].token
Paid == place.status = "reserved" /\ ~place.lapsed

(* startTaskHeartbeat and every assertActive: row and reservation are     *)
(* renewed together, or the lease is lost.                                *)
Pulse(w, next) ==
    IF Owns(w) /\ Paid
    THEN media' = [media EXCEPT !.age = "fresh"] /\ Turns(w, next)
    ELSE UNCHANGED media /\ Errs(w, FALSE)

StartLease(w) ==
    /\ IsAt(w, "claimed")
    /\ Pulse(w, "ready_to_create")
    /\ UNCHANGED <<place, poster>>

(* The second assertion, then the call; a known job is polled instead.    *)
CallProvider(w) ==
    /\ IsAt(w, "ready_to_create")
    /\ IF maker[w].job
       THEN /\ IF Owns(w) /\ media.status = "submitting"
               THEN media' = [media EXCEPT !.status = "generating"] /\ Turns(w, "polling")
               ELSE UNCHANGED media /\ Errs(w, FALSE)
       ELSE Pulse(w, "creating")
    /\ UNCHANGED <<place, poster>>

(* The answer to the creation: a finished file, a job id, or an error     *)
(* that may be tried again (429, 500, 502, 503) or not.                   *)
CreateAnswered(w) ==
    /\ IsAt(w, "creating")
    /\ \/ Pulse(w, "persisting")
       \/ Pulse(w, "created")
       \/ \E again \in BOOLEAN : UNCHANGED media /\ Errs(w, again)
    /\ UNCHANGED <<place, poster>>

MarkGenerating(w) ==
    /\ IsAt(w, "created")
    /\ IF Owns(w) /\ media.status = "submitting"
       THEN media' = [media EXCEPT !.status = "generating", !.job = TRUE] /\ Turns(w, "polling")
       ELSE UNCHANGED media /\ Errs(w, FALSE)
    /\ UNCHANGED <<place, poster>>

(* One round of the poll: the file is there, or polling ends with an      *)
(* error; transient failures and "pending" go on.                         *)
Poll(w) ==
    /\ IsAt(w, "polling")
    /\ \/ Pulse(w, "persisting")
       \/ \E again \in BOOLEAN : UNCHANGED media /\ Errs(w, again)
    /\ UNCHANGED <<place, poster>>

StartSaving(w) ==
    /\ IsAt(w, "persisting")
    /\ IF Owns(w) /\ media.status \in {"submitting", "generating"}
       THEN media' = [media EXCEPT !.status = "saving"] /\ Turns(w, "saving")
       ELSE UNCHANGED media /\ IF media.status = "ready" THEN Rests(w) ELSE Errs(w, FALSE)
    /\ UNCHANGED <<place, poster>>

(* Mutant: the file is kept although its place could not be charged.      *)
SaveUncharged(w) ==
    /\ IsAt(w, "saving")
    /\ IF Owns(w) /\ media.status = "saving"
       THEN /\ media' = [media EXCEPT !.status = "ready", !.token = NoOwner]
            /\ place' = Finalized("committed")
            /\ Rests(w)
       ELSE UNCHANGED <<media, place>> /\ Errs(w, FALSE)
    /\ UNCHANGED poster

(* The file, the row and its charge in one transaction; or the download   *)
(* or the storage fails.                                                  *)
Save(w) ==
    /\ IsAt(w, "saving")
    /\ \/ IF Owns(w) /\ media.status = "saving" /\ Paid
          THEN /\ media' = [media EXCEPT !.status = "ready", !.token = NoOwner]
               /\ place' = [place EXCEPT !.status = "committed"]
               /\ Rests(w)
          ELSE UNCHANGED <<media, place>> /\ Errs(w, FALSE)
       \/ \E again \in BOOLEAN : UNCHANGED <<media, place>> /\ Errs(w, again)
    /\ UNCHANGED poster

Requeue(w) ==
    /\ IsAt(w, "failing") /\ maker[w].again
    /\ media' = IF Owns(w) /\ media.status \in Active
                THEN [media EXCEPT !.status = "queued", !.token = NoOwner, !.age = "fresh"] ELSE media
    /\ Rests(w)
    /\ UNCHANGED <<place, poster>>

Ends(w) == IsAt(w, "rejected") \/ (IsAt(w, "failing") /\ ~maker[w].again)

(* Mutant: a failed attempt ends the row without proving it is its own.   *)
FailAnyRow(w) ==
    /\ Ends(w)
    /\ IF media.status \in Active
       THEN media' = FailedRow /\ place' = Finalized("released")
       ELSE UNCHANGED <<media, place>>
    /\ Rests(w)
    /\ UNCHANGED poster

(* failAndRelease.                                                        *)
FailAndRelease(w) ==
    /\ Ends(w)
    /\ IF Owns(w) /\ media.status \in Active
       THEN media' = FailedRow /\ place' = Finalized("released")
       ELSE UNCHANGED <<media, place>>
    /\ Rests(w)
    /\ UNCHANGED poster

(* The timer of the heartbeat; a lost lease aborts what the worker does.  *)
Beat(w) ==
    /\ maker[w].pc \in {"ready_to_create", "creating", "created", "polling", "persisting", "saving"}
    /\ IF Owns(w) /\ Paid
       THEN media.age # "fresh" /\ media' = [media EXCEPT !.age = "fresh"] /\ UNCHANGED maker
       ELSE UNCHANGED media /\ Errs(w, FALSE)
    /\ UNCHANGED <<place, poster>>

WorkerDies(w) ==
    /\ ~IsAt(w, "idle")
    /\ Rests(w)
    /\ UNCHANGED <<media, place, poster>>

-----------------------------------------------------------------------------
(* reconcileStaleMediaGeneration (whoever looks at the generation) and    *)
(* the head of the next request of the user.                              *)
CleanStale ==
    /\ media.status \in Active /\ media.age = "dead"
    /\ media' = FailedRow
    /\ place' = IF place.status = "reserved" THEN [place EXCEPT !.status = "released"] ELSE place
    /\ UNCHANGED <<poster, maker>>

(* 2 and 15 minutes without a heartbeat; the hour of the reservation,     *)
(* which a heartbeat would have renewed.                                  *)
MediaAges ==
    /\ media.status \in Active \cup {"failed"}
    /\ \/ media.age = "fresh" /\ media' = [media EXCEPT !.age = "stale"] /\ UNCHANGED place
       \/ media.age = "stale" /\ media' = [media EXCEPT !.age = "dead"] /\ UNCHANGED place
       \/ /\ media.age = "dead" /\ ~place.lapsed /\ place' = [place EXCEPT !.lapsed = TRUE] /\ UNCHANGED media
    /\ UNCHANGED <<poster, maker>>

PlaceExpires ==
    /\ place.status = "reserved" /\ place.lapsed
    /\ place' = [place EXCEPT !.status = "expired"]
    /\ UNCHANGED <<media, poster, maker>>

MediaNext ==
    \/ EnqueueMedia \/ ConfirmHandoff \/ CompensateHandoff \/ ReleaseAfterHandoff \/ PosterDies
    \/ \E w \in MediaWorker :
        \/ ClaimMedia(w) \/ HandoffEnds(w) \/ FailByJobIdentity(w) \/ StartLease(w) \/ CallProvider(w)
        \/ CreateAnswered(w) \/ MarkGenerating(w) \/ Poll(w) \/ StartSaving(w) \/ Save(w)
        \/ Requeue(w) \/ FailAndRelease(w) \/ Beat(w) \/ WorkerDies(w)
    \/ CleanStale \/ MediaAges \/ PlaceExpires

MediaSpec == MediaInit /\ [][MediaNext]_mediaVars

-----------------------------------------------------------------------------
(* A generation is ready exactly when it was charged; a failed one holds  *)
(* no place under the limit, unless the request died between taking its   *)
(* row back and releasing its place.                                      *)
OutcomeIsCharged ==
    /\ media.status = "ready" <=> place.status = "committed"
    /\ media.status = "failed" /\ place.status = "reserved" => poster \in {"releasing", "gone"}

(* The provider is never asked to create the same generation by two       *)
(* workers at once, nor again after its job is known: a worker that        *)
(* stalled inside the call is not doubled by the one that replaces it.    *)
OneCreationAtATime ==
    \A w \in MediaWorker : IsAt(w, "creating") =>
        ~media.job /\ \A v \in MediaWorker \ {w} : ~IsAt(v, "creating")

(* "An older worker cannot fail or release the reservation of its         *)
(* successor" (media-generation-store.mjs): while a worker owns the row   *)
(* with a fresh heartbeat and a live place, nobody else writes to it.     *)
OlderWorkerIsHarmless ==
    [][\A w \in MediaWorker :
         ~IsAt(w, "idle") /\ maker'[w] = maker[w] /\ media.token = w /\ media.age = "fresh" =>
             /\ media' \in {media, [media EXCEPT !.age = "stale"]}
             /\ place' = place \/ place.lapsed]_mediaVars
=============================================================================
