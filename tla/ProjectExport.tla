-------------------------- MODULE ProjectExport --------------------------
(* One export of a project: a file rendered from a stored snapshot.  The  *)
(* request and a row of an outbox are written together; dispatchers (the  *)
(* timer of a worker, or the request itself) turn the row into a job with *)
(* a fixed id; the worker, and for a small export the web server, renders *)
(* and stores the file.  A render carries no token: what keeps two of     *)
(* them apart is that they produce the same bytes.                        *)
(*                                                                        *)
(* Limits of the model:                                                   *)
(*  - 30 minutes of rendering, 30 s of a dispatcher's lease, the waits of  *)
(*    the outbox and the 24 h of a file may be over at any moment.         *)
(*  - Attempts are not counted: any of a job (3) or of the outbox (10) may *)
(*    be the last, and a job may stall more than once.                     *)
(*  - Download tokens are left out: a download asks for status ready.      *)
CONSTANTS
    Renderer,            \* runs of processProjectExportOperation, in the worker or the web server
    Dispatcher,          \* runs of reconcileProjectExportOutbox
    Nobody

ASSUME ExportAssumption == Nobody \notin Renderer \cup Dispatcher

VARIABLES
    operation,   \* project_export_operations.status
    outbox,      \* the row of project_export_outbox
    exportJob,   \* the job in BullMQ
    file,        \* TRUE while project_export_artifacts has its row
    renderer, dispatcher

exportVars == <<operation, outbox, exportJob, file, renderer, dispatcher>>

OutboxRow ==
    [status : {"absent", "pending", "dispatching", "enqueued", "retryable_failed", "failed", "cancelled"},
     lease  : Dispatcher \cup {Nobody}]

ExportJob ==
    [state : {"none", "waiting", "active", "completed", "failed"}, by : Renderer \cup {Nobody}]

RendererState ==
    [pc  : {"idle", "rendering", "failed", "last", "marked"},   \* last: and not to be tried again
     job : BOOLEAN]

DispatcherPc == {"idle", "taken", "added", "refused", "enqueued", "retry", "giveUp"}

ExportTypeOK ==
    /\ operation \in {"absent", "pending", "queued", "rendering", "retryable_failed", "failed", "ready", "expired"}
    /\ outbox \in OutboxRow /\ exportJob \in ExportJob /\ file \in BOOLEAN
    /\ renderer \in [Renderer -> RendererState] /\ dispatcher \in [Dispatcher -> DispatcherPc]

NoJob == [state |-> "none", by |-> Nobody]
IdleRenderer == [pc |-> "idle", job |-> FALSE]

ExportInit ==
    /\ operation = "absent" /\ file = FALSE /\ exportJob = NoJob
    /\ outbox = [status |-> "absent", lease |-> Nobody]
    /\ renderer = [r \in Renderer |-> IdleRenderer]
    /\ dispatcher = [d \in Dispatcher |-> "idle"]

CreateExport ==
    /\ operation = "absent" /\ operation' = "pending" /\ outbox' = [outbox EXCEPT !.status = "pending"]
    /\ UNCHANGED <<exportJob, file, renderer, dispatcher>>

Undone == {"pending", "queued", "retryable_failed"}

--------------------------------------------------------------------------
(* Rendering.                                                              *)

(* How the job of renderer r ends, unless the queue has taken it away.     *)
JobEnds(r, state) ==
    exportJob' = IF renderer[r].job /\ exportJob.state = "active" /\ exportJob.by = r
                   THEN [state |-> state, by |-> Nobody] ELSE exportJob

(* The worker takes the job.  A render that is done, or that someone else  *)
(* is at, completes it; an error before the answer counts as a failure.    *)
RunJob(r) ==
    /\ exportJob.state = "waiting" /\ renderer[r].pc = "idle"
    /\ \/ /\ operation \in Undone /\ operation' = "rendering"
          /\ exportJob' = [state |-> "active", by |-> r]
          /\ \E pc \in {"rendering", "failed", "last"} :
               renderer' = [renderer EXCEPT ![r] = [pc |-> pc, job |-> TRUE]]
       \/ /\ operation \notin Undone /\ exportJob' = [exportJob EXCEPT !.state = "completed"]
          /\ UNCHANGED <<operation, renderer>>
       \/ /\ exportJob' = [state |-> "active", by |-> r]
          /\ \E pc \in {"failed", "last"} :
               renderer' = [renderer EXCEPT ![r] = [pc |-> pc, job |-> TRUE]]
          /\ UNCHANGED operation
    /\ UNCHANGED <<outbox, file, dispatcher>>

(* The web server renders a small export itself, also when its request is  *)
(* repeated.                                                               *)
RenderAtOnce(r) ==
    /\ operation \in Undone /\ renderer[r].pc = "idle" /\ operation' = "rendering"
    /\ renderer' = [renderer EXCEPT ![r] = [pc |-> "rendering", job |-> FALSE]]
    /\ UNCHANGED <<outbox, exportJob, file, dispatcher>>

RenderFails(r) ==
    /\ renderer[r].pc = "rendering"
    /\ \E pc \in {"failed", "last"} : renderer' = [renderer EXCEPT ![r].pc = pc]
    /\ UNCHANGED <<operation, outbox, exportJob, file, dispatcher>>

\* A defect ExportOutcomeHolds excludes: the file is stored whatever became of the export.
KeepsOutNobody == FALSE

(* What the locked row forbids.                                            *)
KeepsOut == operation = "expired"

(* The file, the status and the outbox in one transaction.                 *)
PersistArtifact(r) ==
    /\ renderer[r].pc = "rendering"
    /\ IF KeepsOut THEN UNCHANGED <<operation, outbox, file>>
       ELSE /\ file' = TRUE /\ operation' = "ready"
            /\ outbox' = [outbox EXCEPT !.status = "cancelled", !.lease = Nobody]
    /\ \/ renderer' = [renderer EXCEPT ![r] = IdleRenderer] /\ JobEnds(r, "completed")
       \/ /\ \E pc \in {"failed", "last"} : renderer' = [renderer EXCEPT ![r].pc = pc]
          /\ UNCHANGED exportJob                                        \* the answer is lost
    /\ UNCHANGED dispatcher

MayFail == {"pending", "queued", "rendering", "retryable_failed"}

(* markFailure: two updates, and an error of either is swallowed.          *)
MarkFailure(r) ==
    /\ renderer[r].pc \in {"failed", "last"}
    /\ \/ /\ operation \in MayFail
          /\ operation' = IF renderer[r].pc = "last" THEN "failed" ELSE "retryable_failed"
       \/ UNCHANGED operation
    /\ IF renderer[r].pc = "last" THEN renderer' = [renderer EXCEPT ![r].pc = "marked"] /\ UNCHANGED exportJob
       ELSE renderer' = [renderer EXCEPT ![r] = IdleRenderer] /\ JobEnds(r, "waiting")
    /\ UNCHANGED <<outbox, file, dispatcher>>

MarkOutbox(r) ==
    /\ renderer[r].pc = "marked"
    /\ \/ outbox.status # "cancelled" /\ outbox' = [outbox EXCEPT !.status = "failed", !.lease = Nobody]
       \/ UNCHANGED outbox
    /\ renderer' = [renderer EXCEPT ![r] = IdleRenderer] /\ JobEnds(r, "failed")
    /\ UNCHANGED <<operation, file, dispatcher>>

RendererDies(r) ==
    /\ renderer[r].pc # "idle" /\ renderer' = [renderer EXCEPT ![r] = IdleRenderer]
    /\ UNCHANGED <<operation, outbox, exportJob, file, dispatcher>>

(* BullMQ gives a job whose lock lapsed to another worker, or gives it up. *)
JobStalls ==
    /\ exportJob.state = "active"
    /\ \E state \in {"waiting", "failed"} : exportJob' = [state |-> state, by |-> Nobody]
    /\ UNCHANGED <<operation, outbox, file, renderer, dispatcher>>

(* Redis loses the job, or drops the record of a finished one.             *)
JobForgotten ==
    /\ exportJob.state # "none" /\ exportJob' = NoJob
    /\ UNCHANGED <<operation, outbox, file, renderer, dispatcher>>

--------------------------------------------------------------------------
(* The outbox.                                                             *)

(* Thirty minutes of rendering stand for a death.                          *)
ReclaimRender ==
    /\ operation = "rendering" /\ outbox.status \notin {"failed", "cancelled"}
    /\ operation' = "retryable_failed"
    /\ outbox' = [outbox EXCEPT !.status = "retryable_failed", !.lease = Nobody]
    /\ UNCHANGED <<exportJob, file, renderer, dispatcher>>

DispatchLapses ==
    /\ outbox.status = "dispatching"
    /\ outbox' = [outbox EXCEPT !.status = "retryable_failed", !.lease = Nobody]
    /\ UNCHANGED <<operation, exportJob, file, renderer, dispatcher>>

Dispatches(d, pc) == dispatcher' = [dispatcher EXCEPT ![d] = pc]

TakeRow(d) ==
    /\ dispatcher[d] = "idle" /\ operation \in Undone
    /\ outbox.status \in {"pending", "retryable_failed", "enqueued"}
    /\ outbox' = [outbox EXCEPT !.status = "dispatching", !.lease = d]
    /\ Dispatches(d, "taken")
    /\ UNCHANGED <<operation, exportJob, file, renderer>>

(* The job has a fixed id, so adding it again changes nothing.  The queue  *)
(* may take it and not be able to say so.                                  *)
AddJob(d) ==
    /\ dispatcher[d] = "taken"
    /\ \/ /\ exportJob' = IF exportJob.state = "none" THEN [state |-> "waiting", by |-> Nobody] ELSE exportJob
          /\ Dispatches(d, "added") \/ Dispatches(d, "refused")
       \/ Dispatches(d, "refused") /\ UNCHANGED exportJob
    /\ UNCHANGED <<operation, outbox, file, renderer>>

HoldsRow(d) == outbox.status = "dispatching" /\ outbox.lease = d

(* The row first, under its token, and the export in a second statement.   *)
RecordDispatch(d) ==
    /\ dispatcher[d] \in {"added", "refused"}
    /\ \E end \in IF dispatcher[d] = "added" THEN {"enqueued"} ELSE {"retry", "giveUp"} :
         IF HoldsRow(d)
           THEN /\ outbox' = [status |-> CASE end = "enqueued" -> "enqueued"
                                          [] end = "retry"    -> "retryable_failed"
                                          [] end = "giveUp"   -> "failed",
                              lease  |-> Nobody]
                /\ Dispatches(d, end)
           ELSE Dispatches(d, "idle") /\ UNCHANGED outbox
    /\ UNCHANGED <<operation, exportJob, file, renderer>>

FinishDispatch(d) ==
    /\ dispatcher[d] \in {"enqueued", "retry", "giveUp"}
    /\ operation' = IF operation \notin Undone THEN operation
                    ELSE CASE dispatcher[d] = "enqueued" -> "queued"
                           [] dispatcher[d] = "retry"    -> "retryable_failed"
                           [] dispatcher[d] = "giveUp"   -> "failed"
    /\ Dispatches(d, "idle")
    /\ UNCHANGED <<outbox, exportJob, file, renderer>>

DispatcherDies(d) ==
    /\ dispatcher[d] # "idle" /\ Dispatches(d, "idle")
    /\ UNCHANGED <<operation, outbox, exportJob, file, renderer>>

--------------------------------------------------------------------------
(* The end of an export: its owner revokes it, or 24 hours pass.           *)
RevokeExport ==
    /\ operation \notin {"absent", "expired"} /\ operation' = "expired"
    /\ outbox' = [outbox EXCEPT !.status = "cancelled", !.lease = Nobody]
    /\ UNCHANGED <<exportJob, file, renderer, dispatcher>>

ExpireArtifact ==
    /\ file /\ file' = FALSE /\ operation' = IF operation = "ready" THEN "expired" ELSE operation
    /\ UNCHANGED <<outbox, exportJob, renderer, dispatcher>>

ExportNext ==
    \/ CreateExport \/ ReclaimRender \/ DispatchLapses \/ JobStalls \/ JobForgotten
    \/ RevokeExport \/ ExpireArtifact
    \/ \E r \in Renderer : \/ RunJob(r) \/ RenderAtOnce(r) \/ RenderFails(r) \/ PersistArtifact(r)
                           \/ MarkFailure(r) \/ MarkOutbox(r) \/ RendererDies(r)
    \/ \E d \in Dispatcher : \/ TakeRow(d) \/ AddJob(d) \/ RecordDispatch(d) \/ FinishDispatch(d)
                             \/ DispatcherDies(d)

ExportSpec == ExportInit /\ [][ExportNext]_exportVars

(* However many renders and dispatchers run late, an export that is ready  *)
(* has its file and stays ready until it expires, and one that expired or  *)
(* was revoked is over (project-export-operation.mjs:37-65, 75-146).       *)
ExportOutcomeHolds ==
    [][/\ operation' = "ready" => file'
       /\ operation = "ready" => operation' \in {"ready", "expired"}
       /\ operation = "expired" => operation' = "expired"]_exportVars
============================================================================
