-------------------------- MODULE AutopilotBuild --------------------------
(* The building of one channel's weekly plan.  A click or the Sunday tick  *)
(* writes a row with status `building`, the placeholder, and queues a job;  *)
(* its handler writes the posts, then commits a second row, the result, and *)
(* closes the placeholder.  A build that falls short is kept as `partial`   *)
(* and goes on in a continuation, a job with an id of its own.  Every 30 s  *)
(* a reconciler queues again what the rows say is unfinished.               *)
(*                                                                        *)
(* Limits of the model:                                                   *)
(*  - The job of a placeholder, and the one of the continuation its row     *)
(*    names, may run at any time, any number of times, or never.  Telling    *)
(*    the queue therefore changes nothing, and ids of jobs, attempts and    *)
(*    backoff do not appear.                                              *)
(*  - Builds are created in the order of their numbers; a result is newer  *)
(*    than every build there was when it was committed, and stays the       *)
(*    channel's plan (pending, approving or approved) until the next one.   *)
(*  - Left out: repairs a person asks for, monthly campaigns, the posts     *)
(*    and their quality, the ledger (AiUsage.tla) but for its answers, and  *)
(*    the approval of a result (AutopilotApproval.tla).                    *)
(*  - The page may give a build up at any time, and a click whose job was   *)
(*    refused may say so late; heartbeats of a live handler make the first   *)
(*    rare.                                                                *)
EXTENDS Naturals, FiniteSetsExt

CONSTANTS
    LastBuild,      \* bound: placeholders
    LastRecovery,   \* bound: continuations given an id
    Builder         \* runs of processAutopilotPlanJob

ASSUME BuildAssumption == LastBuild \in Nat \ {0} /\ LastRecovery \in Nat

Build == 1..LastBuild
Recovery == 0..LastRecovery   \* zero: none

VARIABLES
    enabled,     \* `autopilot_settings.enabled`
    lastBuild,   \* placeholders inserted so far
    lastCont,    \* continuations given an id so far
    build,       \* the placeholders
    result,      \* the row the channel shows, and the last placeholder before it
    made,        \* results ever committed for a placeholder
    unset,       \* partial rows without `recoveryState` that somebody has read
    builder      \* the local state of the handlers

buildVars == <<enabled, lastBuild, lastCont, build, result, made, unset, builder>>

NoBuild == [status |-> "none", state |-> "unset", next |-> 0, human |-> FALSE]
IdleBuilder == [pc |-> "idle", build |-> 0, next |-> 0, known |-> 0]

BuildTypeOK ==
    /\ enabled \in BOOLEAN /\ lastBuild \in 0..LastBuild /\ lastCont \in Recovery
    /\ build \in [Build -> [status : {"none", "building", "partial", "error", "done"},
                            state : {"unset", "auto", "running", "waiting", "paused", "by_user"},
                            next : Recovery, human : BOOLEAN]]
    /\ result \in [of : 0..LastBuild, at : 0..LastBuild]
    /\ made \in [Build -> 0..2]
    /\ unset \subseteq Build
    /\ builder \in [Builder -> [pc : {"idle", "claimed", "working", "failing"}, build : 0..LastBuild,
                                next : Recovery,        \* `build_report` as it read it
                                known : 0..LastBuild]]  \* the result there was when it began

BuildInit ==
    /\ enabled \in BOOLEAN /\ lastBuild = 0 /\ lastCont = 0
    /\ build = [b \in Build |-> NoBuild]
    /\ result = [of |-> 0, at |-> 0] /\ made = [b \in Build |-> 0]
    /\ unset = {}
    /\ builder = [w \in Builder |-> IdleBuilder]

-----------------------------------------------------------------------------
InStatus(S) == {b \in Build : build[b].status \in S}
IsBuilding(b) == build[b].status = "building"

\* A defect LateBuildDeliversNothing excludes: a build is compared with its own result only.
ResultOf(b) == result.of = b

(* committedAutopilotResultExistsSql.                                      *)
ResultAfter(b) == result.of # 0 /\ b <= result.at

(* The settings allow an automatic continuation.                           *)
MayRecover(b) == enabled \/ build[b].human

(* autopilotAutoRecoveryReport: a continuation with a new id.               *)
Recovering(b, state) == [build[b] EXCEPT !.status = "partial", !.state = state, !.next = lastCont + 1]
NewRecovery(b) == lastCont < LastRecovery /\ lastCont' = lastCont + 1

Insert(human) ==
    /\ lastBuild < LastBuild /\ lastBuild' = lastBuild + 1
    /\ build' = [b \in Build |->
          IF b = lastBuild + 1 THEN [NoBuild EXCEPT !.status = "building", !.human = human]
          ELSE IF ~human \/ ~IsBuilding(b) THEN build[b]
          ELSE IF b = Max(InStatus({"building"})) THEN [build[b] EXCEPT !.status = "error"]
          ELSE NoBuild]

-----------------------------------------------------------------------------
(* People.                                                                 *)

(* The button: the newest build under way is cancelled, others are deleted. *)
Generate ==
    /\ Insert(TRUE)
    /\ UNCHANGED <<enabled, lastCont, result, made, unset, builder>>

(* The compensation of a click whose job the queue refused; it comes when it *)
(* comes.                                                                 *)
GenerateRefused(b) ==
    /\ IsBuilding(b) /\ build[b].human
    /\ build' = [build EXCEPT ![b].status = "error"]
    /\ UNCHANGED <<enabled, lastBuild, lastCont, result, made, unset, builder>>

(* Stop: the row decides; taking the jobs away is not certain to succeed.   *)
Pause ==
    LET unfinished == InStatus({"building", "partial"}) IN
    /\ unfinished # {}
    /\ build' = [build EXCEPT ![Max(unfinished)] = [@ EXCEPT !.status = "partial", !.state = "by_user"]]
    /\ UNCHANGED <<enabled, lastBuild, lastCont, result, made, unset, builder>>

(* The switch, on: resumeAutopilotPartialPlan may fail after it.            *)
Enable ==
    /\ enabled' = TRUE
    /\ \/ LET partial == InStatus({"partial"}) IN
          /\ partial # {} /\ NewRecovery(Max(partial))
          /\ build' = [build EXCEPT ![Max(partial)] = Recovering(Max(partial), "auto")]
       \/ UNCHANGED <<lastCont, build>>
    /\ UNCHANGED <<lastBuild, result, made, unset, builder>>

(* The switch, off; the second statement only makes it visible.             *)
Disable ==
    /\ enabled' = FALSE
    /\ build' \in {build, [b \in Build |->
          IF build[b].status = "partial" /\ build[b].next # 0 /\ ~build[b].human
          THEN [build[b] EXCEPT !.state = "paused"] ELSE build[b]]}
    /\ UNCHANGED <<lastBuild, lastCont, result, made, unset, builder>>

(* The page gives up the attempt it shows, if there was no progress.        *)
PageGivesUp ==
    LET attempts == InStatus({"building", "partial", "error"}) IN
    /\ attempts # {} /\ IsBuilding(Max(attempts))
    /\ build' = [build EXCEPT ![Max(attempts)].status = "error"]
    /\ UNCHANGED <<enabled, lastBuild, lastCont, result, made, unset, builder>>

-----------------------------------------------------------------------------
(* Timers.                                                                 *)

(* A partial row without a state is given one in a second statement; one    *)
(* that has a state is only queued again.                                  *)
Resume(b) == build[b].state = "unset" /\ unset' = unset \cup {b}

(* reconcileBuildingAutopilotPlans, for one row.                            *)
Reconcile(b) ==
    /\ \/ IsBuilding(b) /\ ResultAfter(b)
          /\ build' = [build EXCEPT ![b].status = "done"] /\ UNCHANGED unset
       \/ build[b].status = "partial" /\ MayRecover(b) /\ Resume(b) /\ UNCHANGED build
    /\ UNCHANGED <<enabled, lastBuild, lastCont, result, made, builder>>

(* ensurePartialRecoveryState: the row is still partial, whatever else      *)
(* became of it.                                                          *)
SetRecovery(b) ==
    /\ b \in unset /\ unset' = unset \ {b}
    /\ IF build[b].status = "partial"
       THEN NewRecovery(b) /\ build' = [build EXCEPT ![b] = Recovering(b, "auto")]
       ELSE UNCHANGED <<lastCont, build>>
    /\ UNCHANGED <<enabled, lastBuild, result, made, builder>>

(* enqueueWeeklyAutopilotPlan: the newest plan of the channel decides.      *)
WeeklyTick ==
    LET unfinished == {b \in InStatus({"building", "partial"}) : ~ResultAfter(b)}
    IN  /\ enabled
        /\ \/ unfinished = {} /\ Insert(FALSE) /\ UNCHANGED unset
           \/ /\ unfinished # {} /\ build[Max(unfinished)].status = "partial"
              /\ Resume(Max(unfinished)) /\ UNCHANGED <<lastBuild, build>>
        /\ UNCHANGED <<enabled, lastCont, result, made, builder>>

-----------------------------------------------------------------------------
(* The handler of a job.                                                   *)
Leaves(w) == builder' = [builder EXCEPT ![w] = IdleBuilder]
Fails(w) == builder' = [builder EXCEPT ![w].pc = "failing"]
Own(w) == builder[w].build
BuilderAt(w, pc) == builder[w].pc = pc

Claimable(b) ==
    /\ MayRecover(b)
    /\ \/ build[b].status = "partial" /\ build[b].state = "auto"
       \/ build[b].status = "building" /\ build[b].state \in {"running", "waiting"}

(* claimAutopilotContinuationJob; the job of a placeholder has no claim, and *)
(* a continuation the row does not name has no effect.                     *)
TakeBuild(w, b, cont) ==
    /\ BuilderAt(w, "idle") /\ b <= lastBuild /\ cont \in {0, build[b].next}
    /\ IF cont = 0 \/ Claimable(b)
       THEN /\ builder' = [builder EXCEPT ![w] = [IdleBuilder EXCEPT !.pc = "claimed", !.build = b]]
            /\ build' = IF cont # 0 /\ build[b].status = "partial"
                        THEN [build EXCEPT ![b] = [@ EXCEPT !.status = "building", !.state = "running"]]
                        ELSE build
       ELSE /\ UNCHANGED builder
            /\ build[b].status \in {"building", "partial"} /\ ~MayRecover(b)
            /\ build' = [build EXCEPT ![b] = [@ EXCEPT !.status = "partial", !.state = "paused"]]
    /\ UNCHANGED <<enabled, lastBuild, lastCont, result, made, unset>>

(* The job is obsolete: its plan is not under way.  Before the quota that   *)
(* is an error, later the handler just stops, at a checkpoint it is one.    *)
Superseded(w) ==
    /\ builder[w].pc \in {"claimed", "working"} /\ ~IsBuilding(Own(w))
    /\ Leaves(w) \/ Fails(w)
    /\ UNCHANGED <<enabled, lastBuild, lastCont, build, result, made, unset>>

(* The build is under way: its result is there already, or it begins.       *)
BeginBuild(w) ==
    /\ BuilderAt(w, "claimed") /\ IsBuilding(Own(w))
    /\ IF ResultAfter(Own(w))
       THEN build' = [build EXCEPT ![Own(w)].status = "done"] /\ Leaves(w)
       ELSE /\ UNCHANGED build
            /\ builder' = [builder EXCEPT ![w] = [@ EXCEPT !.pc = "working",
                              !.next = build[Own(w)].next, !.known = result.of]]
    /\ UNCHANGED <<enabled, lastBuild, lastCont, result, made, unset>>

(* The daily limit: the plan waits for tomorrow.                           *)
QuotaEnds(w) ==
    LET b == Own(w) IN
    /\ BuilderAt(w, "claimed") /\ IsBuilding(b) /\ NewRecovery(b) /\ Leaves(w)
    /\ build' = [build EXCEPT ![b] = Recovering(b, IF enabled THEN "auto" ELSE "paused")]
    /\ UNCHANGED <<enabled, lastBuild, result, made, unset>>

(* The provider does not answer: the report is written back as it was read, *)
(* and the job tries again or has failed.                                  *)
ProviderWaits(w) ==
    /\ BuilderAt(w, "working") /\ IsBuilding(Own(w))
    /\ \E next \in {build[Own(w)].next, builder[w].next} :
          build' = [build EXCEPT ![Own(w)] = [@ EXCEPT !.state = "waiting", !.next = next]]
    /\ Leaves(w) \/ Fails(w)
    /\ UNCHANGED <<enabled, lastBuild, lastCont, result, made, unset>>

(* Too few posts are ready: a continuation, a pause because nothing gets     *)
(* better or nobody wants it, or a report without any plan to go on.        *)
SavePartial(w) ==
    LET b == Own(w) IN
    /\ BuilderAt(w, "working") /\ IsBuilding(b) /\ Leaves(w)
    /\ \/ /\ NewRecovery(b)
          /\ \E state \in {"auto", "paused"} : build' = [build EXCEPT ![b] = Recovering(b, state)]
       \/ /\ build' = [build EXCEPT ![b] = [@ EXCEPT !.status = "partial", !.state = "unset", !.next = 0]]
          /\ UNCHANGED lastCont
    /\ UNCHANGED <<enabled, lastBuild, result, made, unset>>

\* A defect OneResultPerBuild excludes: the placeholder is left to the reconciler.
LeftOpen(b) == build[b]

(* finalizeAutopilotBuildPlaceholder, in the transaction of the result.      *)
FinalizedBuild(b) == [build[b] EXCEPT !.status = "done"]

(* The result, if no newer build is under way; earlier attempts are history. *)
CommitResult(w) ==
    LET b == Own(w) IN
    /\ BuilderAt(w, "working") /\ IsBuilding(b)
    /\ IF b = Max(InStatus({"building"}))
       THEN /\ result' = [of |-> b, at |-> lastBuild] /\ made' = [made EXCEPT ![b] = @ + 1]
            /\ build' = [c \in Build |->
                  IF c = b THEN FinalizedBuild(b)
                  ELSE IF c \in InStatus({"error", "partial"}) THEN [build[c] EXCEPT !.status = "done"]
                  ELSE build[c]]
            /\ Leaves(w) \/ Fails(w)                                    \* the answer is lost
       ELSE UNCHANGED <<build, result, made>> /\ Leaves(w)
    /\ UNCHANGED <<enabled, lastBuild, lastCont, unset>>

(* Any other error, and a worker that dies.                                 *)
BuildThrows(w) ==
    /\ builder[w].pc \in {"claimed", "working"} /\ (Leaves(w) \/ Fails(w))
    /\ UNCHANGED <<enabled, lastBuild, lastCont, build, result, made, unset>>

(* The last attempt is over: the handler says so, then recoverFailed-       *)
(* AutopilotPlan again; either write may be lost.                          *)
MarkFailed(w) ==
    /\ BuilderAt(w, "failing") /\ (Leaves(w) \/ UNCHANGED builder)
    /\ \/ IsBuilding(Own(w)) /\ build' = [build EXCEPT ![Own(w)].status = "error"]
       \/ UNCHANGED build
    /\ UNCHANGED <<enabled, lastBuild, lastCont, result, made, unset>>

-----------------------------------------------------------------------------
BuildNext ==
    \/ Generate \/ Pause \/ Enable \/ Disable \/ PageGivesUp \/ WeeklyTick
    \/ \E b \in Build : GenerateRefused(b) \/ Reconcile(b) \/ SetRecovery(b)
    \/ \E w \in Builder :
          \/ \E b \in Build, cont \in Recovery : TakeBuild(w, b, cont)
          \/ Superseded(w) \/ BeginBuild(w) \/ QuotaEnds(w) \/ ProviderWaits(w)
          \/ SavePartial(w) \/ CommitResult(w) \/ BuildThrows(w) \/ MarkFailed(w)

BuildSpec == BuildInit /\ [][BuildNext]_buildVars

-----------------------------------------------------------------------------
(* However many jobs, continuations and workers a build has had, its week   *)
(* is delivered once (autopilot-build-finalize.mjs:2-11).                   *)
OneResultPerBuild == \A b \in Build : made[b] <= 1

(* A plan gives way to the one of an older build only if that build was at  *)
(* work when the plan came: an old build that is started or continued       *)
(* afterwards finds the plan and stops (worker.mjs:6422-6428).              *)
LateBuildDeliversNothing ==
    [][result'.of < result.of =>
         \E w \in Builder : BuilderAt(w, "working") /\ Own(w) = result'.of
                            /\ builder[w].known # result.of]_buildVars
=============================================================================
