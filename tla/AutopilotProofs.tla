--------------------------- MODULE AutopilotProofs ---------------------------
(* Proofs, for any number of items, confirmations, builds and workers, of  *)
(* what the autopilot promises.                                            *)
(*                                                                        *)
(* The approval.  While a plan is being approved only its holder writes    *)
(* items, so the holder saw the texts it schedules (every change of them    *)
(* made its preview stale) and closes the plan with a copy that lacks       *)
(* nothing but the commits reported as errors (Knows).  The count it keeps  *)
(* covers its rows but for those (Counts), which is what a confirmation     *)
(* that says "failed" rests on.                                            *)
(*                                                                        *)
(* The build.  A build that has delivered is done and nothing revives it;   *)
(* whoever works on a build looked for a result after it when it began,     *)
(* and no result ever comes back (WorkersLooked).                          *)
EXTENDS AutopilotApproval, AutopilotBuild, FiniteSetTheorems, WellFoundedInduction, TLAPS

(* The confirmation that has the plan.                                     *)
HasPlan(a) == plan.status = "approving" /\ plan.op = a

ClaimHasOwner == plan.status = "approving" => plan.op \in Approver

(* A preview that still counts shows the texts of the plan.                *)
Shows(state) ==
    state.current /\ state.at \in {"seen", "inserted"} =>
        \A i \in PlanItem : state.seen[i] = item[i].text

(* Who has the plan saw its texts, and its copy differs from the plan only *)
(* in what a lost answer hid from it.                                      *)
Knows(state) ==
    \A i \in PlanItem :
        /\ state.seen[i] = item[i].text /\ state.copy[i].text = item[i].text
        /\ i \notin unanswered =>
              /\ state.copy[i].status = "approved" <=> item[i].status = "approved"
              /\ state.copy[i].post = item[i].post

AtWork == {"working", "erring"}

(* What a confirmation put into the calendar it counted, unless it never   *)
(* got the answer.                                                         *)
Counts(a, state) ==
    /\ state.at \in {"idle", "seen", "inserted", "refusing"} => RowsOf(a) = {}
    /\ state.at \in AtWork => RowsOf(a) \subseteq unanswered \cup state.made

PreviewIsCurrent == \A a \in Approver : Shows(approver[a])
HolderKnowsPlan == \A a \in Approver : HasPlan(a) /\ approver[a].at \in AtWork => Knows(approver[a])
RowsAreCounted == \A a \in Approver : Counts(a, approver[a])

(* An item is approved with its post.                                      *)
ApprovedHasPost ==
    \A i \in PlanItem \ unanswered : item[i].status = "approved" => item[i].post

ApprovalInv ==
    /\ ApprovalTypeOK
    /\ ClaimHasOwner
    /\ PreviewIsCurrent
    /\ HolderKnowsPlan
    /\ ApprovedHasPost
    /\ RowsAreCounted
    /\ ScheduledAsSeen
    /\ PlanMatchesCalendar

-----------------------------------------------------------------------------
(* A result is of a build the channel had when it came.                    *)
ResultIsOfItsTime == result.of <= result.at /\ (result.of # 0 => made[result.of] = 1)

(* A build that has delivered is over.                                     *)
DeliveredIsDone == \A b \in Build : made[b] = 0 \/ (made[b] = 1 /\ build[b].status = "done")

NoneYet == \A b \in Build : b > lastBuild => build[b].status = "none"

(* Whoever works on a build found no result that came after it.             *)
HasBuild(state) == state.pc # "idle" => state.build # 0
WorkersLooked ==
    \A w \in Builder :
        /\ HasBuild(builder[w])
        /\ BuilderAt(w, "working") =>
            /\ builder[w].known # 0 => made[builder[w].known] = 1
            /\ builder[w].known = result.of /\ result.of # 0 => result.at < Own(w)

BuildInv ==
    /\ BuildTypeOK
    /\ ResultIsOfItsTime
    /\ DeliveredIsDone
    /\ NoneYet
    /\ WorkersLooked

-----------------------------------------------------------------------------
(* The build of a week.  All actions but the commit of a result leave what  *)
(* was delivered alone; what they may do to rows and workers is this.       *)
BuildRow == [status : {"none", "building", "partial", "error", "done"},
             state : {"unset", "auto", "running", "waiting", "paused", "by_user"},
             next : Recovery, human : BOOLEAN]
BuilderState == [pc : {"idle", "claimed", "working", "failing"}, build : 0..LastBuild,
                 next : Recovery, known : 0..LastBuild]

DeliversNothing ==
    /\ BuildTypeOK'
    /\ result' = result /\ made' = made
    /\ \A b \in Build : build[b].status = "done" => build'[b].status = "done"
    /\ NoneYet'
    /\ \A w \in Builder :
          /\ HasBuild(builder'[w])
          /\ builder'[w].pc = "working" =>
                \/ builder'[w] = builder[w]
                \/ /\ builder'[w].known = result.of
                   /\ result.of # 0 => result.at < builder'[w].build

(* A worker that writes nothing more.                                      *)
Rests(state) == state.pc # "working" /\ HasBuild(state)

LEMMA DeliveryIsKept ==
    ASSUME BuildInv, DeliversNothing
    PROVE  BuildInv'
<1>1. BuildTypeOK' /\ NoneYet'
  BY DEF DeliversNothing
<1>2. ResultIsOfItsTime'
  BY DEF DeliversNothing, BuildInv, ResultIsOfItsTime
<1>3. DeliveredIsDone'
  BY DEF DeliversNothing, BuildInv, DeliveredIsDone
<1>4. WorkersLooked'
  BY DEF DeliversNothing, BuildInv, WorkersLooked, ResultIsOfItsTime, BuilderAt, Own
<1> QED
  BY <1>1, <1>2, <1>3, <1>4 DEF BuildInv

(* An action that only changes rows that are not done, and keeps those that *)
(* were never written.                                                     *)
LEMMA RowsChange ==
    ASSUME BuildInv,
           enabled' \in BOOLEAN, lastCont' \in Recovery, unset' \subseteq Build,
           lastBuild' = lastBuild, result' = result, made' = made,
           build' \in [Build -> BuildRow],
           \A b \in Build : build'[b] = build[b] \/ build[b].status \notin {"none", "done"}
                                                \/ build'[b].status = build[b].status,
           builder' \in [Builder -> BuilderState],
           \A w \in Builder : builder'[w] = builder[w] \/ Rests(builder'[w])
    PROVE  BuildInv'
<1>1. BuildTypeOK'
  BY DEF BuildInv, BuildTypeOK, BuildRow, BuilderState
<1>2. NoneYet'
  BY DEF BuildInv, NoneYet
<1>3. \A w \in Builder : HasBuild(builder'[w])
  BY DEF BuildInv, WorkersLooked, Rests
<1>4. DeliversNothing
  BY <1>1, <1>2, <1>3 DEF DeliversNothing, Rests
<1> QED
  BY <1>4, DeliveryIsKept

LEMMA BuildTypes ==
    ASSUME BuildInv
    PROVE  /\ enabled \in BOOLEAN /\ lastCont \in Recovery /\ unset \subseteq Build
           /\ lastBuild \in 0..LastBuild /\ LastBuild \in Nat
           /\ build \in [Build -> BuildRow] /\ builder \in [Builder -> BuilderState]
           /\ made \in [Build -> 0..2] /\ result \in [of : 0..LastBuild, at : 0..LastBuild]
           /\ \A b \in Build : b \in Nat /\ b # 0
  BY BuildAssumption DEF BuildInv, BuildTypeOK, BuildRow, BuilderState, Build

LEMMA NextRecovery ==
    ASSUME BuildInv, NEW b, NewRecovery(b)
    PROVE  lastCont' = lastCont + 1 /\ lastCont' \in Recovery
  BY BuildTypes, BuildAssumption DEF NewRecovery, Recovery

(* A worker that goes, or fails, works on nothing.                         *)
LEMMA WorkerLeaves ==
    ASSUME BuildInv, NEW v \in Builder, builder[v].pc # "idle", Leaves(v) \/ Fails(v)
    PROVE  /\ builder' \in [Builder -> BuilderState]
           /\ \A w \in Builder : builder'[w] = builder[w] \/ Rests(builder'[w])
<1>1. IdleBuilder \in BuilderState
  BY BuildTypes, BuildAssumption DEF IdleBuilder, BuilderState, Recovery
<1>2. builder[v] \in BuilderState /\ builder[v].build # 0
  BY BuildTypes DEF BuildInv, WorkersLooked, HasBuild
<1> DEFINE fails == [builder[v] EXCEPT !.pc = "failing"]
<1>3. fails \in BuilderState /\ Rests(fails)
  BY <1>2 DEF BuilderState, Rests, HasBuild
<1>4. Rests(IdleBuilder)
  BY DEF IdleBuilder, Rests, HasBuild
<1>5. builder' = [builder EXCEPT ![v] = IdleBuilder] \/ builder' = [builder EXCEPT ![v] = fails]
  BY BuildTypes DEF Leaves, Fails
<1> HIDE DEF fails
<1> QED
  BY <1>1, <1>3, <1>4, <1>5, BuildTypes

(* A row under way or given up is rewritten.                               *)
LEMMA RowIsRewritten ==
    ASSUME BuildInv, NEW b \in Build, NEW r \in BuildRow,
           build[b].status \notin {"none", "done"}, build' = [build EXCEPT ![b] = r],
           enabled' \in BOOLEAN, lastCont' \in Recovery, unset' \subseteq Build,
           lastBuild' = lastBuild, result' = result, made' = made,
           builder' \in [Builder -> BuilderState],
           \A w \in Builder : builder'[w] = builder[w] \/ Rests(builder'[w])
    PROVE  BuildInv'
<1>1. build' \in [Build -> BuildRow]
  BY BuildTypes
<1>2. \A c \in Build : build'[c] = build[c] \/ build[c].status \notin {"none", "done"}
  BY BuildTypes
<1> QED
  BY <1>1, <1>2, RowsChange

LEMMA RowsTyped ==
    ASSUME BuildInv, NEW b \in Build, build[b].status \notin {"none", "done"}
    PROVE  /\ [build[b] EXCEPT !.status = "error"] \in BuildRow
           /\ [build[b] EXCEPT !.status = "done"] \in BuildRow
           /\ \A state \in {"paused", "by_user"} :
                 [build[b] EXCEPT !.status = "partial", !.state = state] \in BuildRow
           /\ [build[b] EXCEPT !.status = "partial", !.state = "unset", !.next = 0] \in BuildRow
           /\ [build[b] EXCEPT !.status = "building", !.state = "running"] \in BuildRow
           /\ \A next \in Recovery : [build[b] EXCEPT !.state = "waiting", !.next = next] \in BuildRow
           /\ lastCont + 1 \in Recovery =>
                 \A state \in {"auto", "paused"} : Recovering(b, state) \in BuildRow
<1>1. build[b] \in BuildRow
  BY BuildTypes
<1>2. 0 \in Recovery
  BY BuildAssumption DEF Recovery
<1> QED
  BY <1>1, <1>2 DEF BuildRow, Recovering

LEMMA LeastOfSet ==
    ASSUME NEW S \in SUBSET Nat, S # {}
    PROVE  \E x \in S : \A y \in S : x <= y
<1> DEFINE Less == OpToRel(<, Nat)
<1>1. IsWellFoundedOn(Less, Nat)
  BY NatLessThanWellFounded, Zenon
<1>2. PICK x \in S : \A y \in S : <<y, x>> \notin Less
  <2> HIDE DEF Less
  <2> QED BY <1>1, WFMin
<1>3. \A y \in S : x <= y
  <2> TAKE y \in S
  <2>1. ~(y < x)
    BY <1>2 DEF OpToRel
  <2> QED BY <2>1
<1> QED BY <1>3

(* The newest of some builds is one of them.                               *)
LEMMA NewestIsOne ==
    ASSUME NEW S \in SUBSET Build, S # {}
    PROVE  Max(S) \in S /\ \A x \in S : x <= Max(S)
<1> DEFINE T == {LastBuild - x : x \in S}
<1>1. LastBuild \in Nat /\ \A x \in S : x \in Nat /\ x <= LastBuild /\ LastBuild - x \in Nat
  BY BuildAssumption DEF Build
<1>2. T \in SUBSET Nat /\ T # {} /\ \A x \in S : LastBuild - x \in T
  BY <1>1
<1>3. PICK t \in T : \A y \in T : t <= y
  <2> HIDE DEF T
  <2> QED BY <1>2, LeastOfSet
<1>4. PICK m \in S : t = LastBuild - m
  BY <1>3
<1>5. \A x \in S : m >= x
  <2> TAKE x \in S
  <2>1. t <= LastBuild - x
    <3> HIDE DEF T
    <3> QED BY <1>2, <1>3
  <2> QED BY <1>1, <1>4, <2>1
<1> QED BY <1>1, <1>5 DEF Max

LEMMA InsertIsQuiet ==
    ASSUME BuildInv, NEW human \in BOOLEAN, Insert(human),
           UNCHANGED <<enabled, lastCont, result, made, builder>>, unset' \subseteq Build
    PROVE  BuildInv'
<1> DEFINE fresh == [NoBuild EXCEPT !.status = "building", !.human = human]
           newest == Max(InStatus({"building"}))
<1>1. fresh \in BuildRow /\ NoBuild \in BuildRow /\ NoBuild.status = "none"
  <2>1. 0 \in Recovery
    BY BuildAssumption DEF Recovery
  <2>2. NoBuild \in BuildRow /\ NoBuild.status = "none"
    BY <2>1 DEF NoBuild, BuildRow
  <2> QED BY <2>2 DEF BuildRow
<1>2. \A b \in Build : IsBuilding(b) => [build[b] EXCEPT !.status = "error"] \in BuildRow
  BY RowsTyped DEF IsBuilding
<1>3. /\ lastBuild' = lastBuild + 1 /\ lastBuild' \in 0..LastBuild
      /\ build' = [b \in Build |->
            IF b = lastBuild + 1 THEN fresh
            ELSE IF ~human \/ ~IsBuilding(b) THEN build[b]
            ELSE IF b = newest THEN [build[b] EXCEPT !.status = "error"]
            ELSE NoBuild]
  BY BuildTypes DEF Insert
<1> HIDE DEF fresh, newest
<1>4. /\ build' \in [Build -> BuildRow]
      /\ \A b \in Build : b # lastBuild + 1 =>
            \/ build'[b] = build[b] \/ build[b].status = "building"
  BY <1>1, <1>2, <1>3, BuildTypes DEF IsBuilding
<1>5. BuildTypeOK'
  BY <1>3, <1>4, BuildTypes DEF BuildTypeOK, BuildRow, BuilderState
<1>6. NoneYet'
  <2>1. NoneYet
    BY DEF BuildInv
  <2>2. SUFFICES ASSUME NEW b \in Build, b > lastBuild'
                 PROVE  build'[b].status = "none"
    BY DEF NoneYet
  <2>3. b > lastBuild /\ b # lastBuild + 1
    BY <2>2, <1>3, BuildTypes
  <2>4. build[b].status = "none"
    BY <2>1, <2>3 DEF NoneYet
  <2> QED BY <1>4, <2>3, <2>4
<1>7. \A b \in Build : build[b].status = "done" => build'[b].status = "done"
  <2>1. NoneYet
    BY DEF BuildInv
  <2>2. lastBuild + 1 \in Build => build[lastBuild + 1].status = "none"
    BY <2>1, BuildTypes DEF NoneYet
  <2> QED BY <1>4, <2>2
<1>8. DeliversNothing
  BY <1>5, <1>6, <1>7 DEF DeliversNothing, BuildInv, WorkersLooked
<1> QED
  BY <1>8, DeliveryIsKept

LEMMA PauseIsQuiet ==
    ASSUME BuildInv, Pause
    PROVE  BuildInv'
<1> DEFINE unfinished == InStatus({"building", "partial"})
           b == Max(unfinished)
           r == [build[b] EXCEPT !.status = "partial", !.state = "by_user"]
<1>1. b \in Build /\ build[b].status \in {"building", "partial"}
  BY NewestIsOne DEF Pause, InStatus
<1>2. r \in BuildRow /\ build' = [build EXCEPT ![b] = r]
  BY <1>1, RowsTyped DEF Pause
<1> HIDE DEF b, r
<1>3. UNCHANGED <<enabled, lastBuild, lastCont, result, made, unset, builder>>
  BY DEF Pause
<1> QED
  BY <1>1, <1>2, <1>3, BuildTypes, RowIsRewritten

LEMMA EnableIsQuiet ==
    ASSUME BuildInv, Enable
    PROVE  BuildInv'
<1>1. /\ enabled' \in BOOLEAN /\ UNCHANGED <<lastBuild, result, made, unset, builder>>
  BY DEF Enable
<1>2. CASE UNCHANGED <<lastCont, build>>
  BY <1>1, <1>2, BuildTypes, RowsChange
<1>3. CASE ~ UNCHANGED <<lastCont, build>>
  <2> DEFINE partial == InStatus({"partial"})
             b == Max(partial)
             r == Recovering(b, "auto")
  <2>1. partial # {} /\ NewRecovery(b) /\ build' = [build EXCEPT ![b] = r]
    BY <1>3 DEF Enable
  <2>2. b \in Build /\ build[b].status = "partial"
    BY <2>1, NewestIsOne DEF InStatus
  <2>3. lastCont' = lastCont + 1 /\ lastCont' \in Recovery
    BY <2>1, NextRecovery
  <2>4. r \in BuildRow
    BY <2>2, <2>3, RowsTyped
  <2> HIDE DEF b, r
  <2> QED
    BY <1>1, <2>1, <2>2, <2>3, <2>4, BuildTypes, RowIsRewritten
<1> QED BY <1>2, <1>3

LEMMA DisableIsQuiet ==
    ASSUME BuildInv, Disable
    PROVE  BuildInv'
<1>1. /\ enabled' \in BOOLEAN /\ UNCHANGED <<lastBuild, lastCont, result, made, unset, builder>>
  BY DEF Disable
<1>2. \A b \in Build : [build[b] EXCEPT !.state = "paused"] \in BuildRow
  BY BuildTypes DEF BuildRow
<1>3. \A b \in Build :
        build'[b] = build[b] \/ (build[b].status = "partial" /\ build'[b] \in BuildRow)
  BY <1>2 DEF Disable
<1>4. build' \in [Build -> BuildRow]
  <2>1. build' = [b \in Build |-> build'[b]]
    BY BuildTypes DEF Disable
  <2> QED BY <1>3, <2>1, BuildTypes
<1> QED
  BY <1>1, <1>3, <1>4, BuildTypes, RowsChange

LEMMA PageIsQuiet ==
    ASSUME BuildInv, PageGivesUp
    PROVE  BuildInv'
<1> DEFINE b == Max(InStatus({"building", "partial", "error"}))
           r == [build[b] EXCEPT !.status = "error"]
<1>1. b \in Build /\ build[b].status = "building"
  BY NewestIsOne DEF PageGivesUp, InStatus, IsBuilding
<1>2. r \in BuildRow /\ build' = [build EXCEPT ![b] = r]
  BY <1>1, RowsTyped DEF PageGivesUp
<1> HIDE DEF b, r
<1>3. UNCHANGED <<enabled, lastBuild, lastCont, result, made, unset, builder>>
  BY DEF PageGivesUp
<1> QED
  BY <1>1, <1>2, <1>3, BuildTypes, RowIsRewritten

LEMMA RefusalIsQuiet ==
    ASSUME BuildInv, NEW b \in Build, GenerateRefused(b)
    PROVE  BuildInv'
<1> DEFINE r == [build[b] EXCEPT !.status = "error"]
<1>1. build[b].status = "building"
  BY DEF GenerateRefused, IsBuilding
<1>2. r \in BuildRow /\ build' = [build EXCEPT ![b] = r]
  BY <1>1, RowsTyped DEF GenerateRefused
<1> HIDE DEF r
<1>3. UNCHANGED <<enabled, lastBuild, lastCont, result, made, unset, builder>>
  BY DEF GenerateRefused
<1> QED
  BY <1>1, <1>2, <1>3, BuildTypes, RowIsRewritten

LEMMA ReconcileIsQuiet ==
    ASSUME BuildInv, NEW b \in Build, Reconcile(b)
    PROVE  BuildInv'
<1>1. UNCHANGED <<enabled, lastBuild, lastCont, result, made, builder>>
  BY DEF Reconcile
<1>2. CASE build[b].status = "partial" /\ Resume(b) /\ UNCHANGED build
  BY <1>1, <1>2, BuildTypes, RowsChange DEF Resume
<1>3. CASE IsBuilding(b) /\ build' = [build EXCEPT ![b].status = "done"] /\ UNCHANGED unset
  <2> DEFINE r == [build[b] EXCEPT !.status = "done"]
  <2>1. build[b].status = "building"
    BY <1>3 DEF IsBuilding
  <2>2. r \in BuildRow /\ build' = [build EXCEPT ![b] = r]
    BY <1>3, <2>1, RowsTyped
  <2> HIDE DEF r
  <2> QED
    BY <1>1, <1>3, <2>1, <2>2, BuildTypes, RowIsRewritten
<1> QED BY <1>2, <1>3 DEF Reconcile

LEMMA SetRecoveryIsQuiet ==
    ASSUME BuildInv, NEW b \in Build, SetRecovery(b)
    PROVE  BuildInv'
<1>1. unset' \subseteq Build /\ UNCHANGED <<enabled, lastBuild, result, made, builder>>
  BY BuildTypes DEF SetRecovery
<1>2. CASE build[b].status # "partial"
  BY <1>1, <1>2, BuildTypes, RowsChange DEF SetRecovery
<1>3. CASE build[b].status = "partial"
  <2> DEFINE r == Recovering(b, "auto")
  <2>1. NewRecovery(b) /\ build' = [build EXCEPT ![b] = r]
    BY <1>3 DEF SetRecovery
  <2>2. lastCont' = lastCont + 1 /\ lastCont' \in Recovery
    BY <2>1, NextRecovery
  <2>3. r \in BuildRow
    BY <1>3, <2>2, RowsTyped
  <2> HIDE DEF r
  <2> QED
    BY <1>1, <1>3, <2>1, <2>2, <2>3, BuildTypes, RowIsRewritten
<1> QED BY <1>2, <1>3

LEMMA TickIsQuiet ==
    ASSUME BuildInv, WeeklyTick
    PROVE  BuildInv'
<1> DEFINE unfinished == {b \in InStatus({"building", "partial"}) : ~ResultAfter(b)}
           newest == Max(unfinished)
<1>1. UNCHANGED <<enabled, lastCont, result, made, builder>>
  BY DEF WeeklyTick
<1>2. CASE Insert(FALSE) /\ UNCHANGED unset
  BY <1>1, <1>2, BuildTypes, InsertIsQuiet
<1>3. CASE unfinished # {} /\ Resume(newest) /\ UNCHANGED <<lastBuild, build>>
  <2>1. newest \in Build
    BY <1>3, NewestIsOne DEF InStatus
  <2>2. unset' \subseteq Build
    BY <1>3, <2>1, BuildTypes DEF Resume
  <2> QED
    BY <1>1, <1>3, <2>2, BuildTypes, RowsChange
<1> QED BY <1>2, <1>3 DEF WeeklyTick

-----------------------------------------------------------------------------
(* The steps of a worker.                                                  *)
LEMMA TakeIsQuiet ==
    ASSUME BuildInv, NEW w \in Builder, NEW b \in Build, NEW cont \in Recovery, TakeBuild(w, b, cont)
    PROVE  BuildInv'
<1>1. UNCHANGED <<enabled, lastBuild, lastCont, result, made, unset>>
  BY DEF TakeBuild
<1> DEFINE claimed == [IdleBuilder EXCEPT !.pc = "claimed", !.build = b]
           runs == [build[b] EXCEPT !.status = "building", !.state = "running"]
           waits == [build[b] EXCEPT !.status = "partial", !.state = "paused"]
<1>2. claimed \in BuilderState /\ Rests(claimed)
  <2>1. IdleBuilder \in BuilderState
    BY BuildAssumption DEF IdleBuilder, BuilderState, Recovery
  <2>2. b \in 0..LastBuild /\ b # 0
    BY BuildAssumption DEF Build
  <2> QED BY <2>1, <2>2 DEF BuilderState, Rests, HasBuild
<1>3. build[b].status \in {"building", "partial"} => runs \in BuildRow /\ waits \in BuildRow
  BY RowsTyped
<1>4. CASE /\ builder' = [builder EXCEPT ![w] = claimed]
           /\ build' = IF cont # 0 /\ build[b].status = "partial"
                       THEN [build EXCEPT ![b] = runs] ELSE build
  <2>1. /\ builder' \in [Builder -> BuilderState]
        /\ \A v \in Builder : builder'[v] = builder[v] \/ Rests(builder'[v])
    <3> HIDE DEF claimed
    <3> QED BY <1>2, <1>4, BuildTypes
  <2>2. CASE UNCHANGED build
    BY <1>1, <2>1, <2>2, BuildTypes, RowsChange
  <2>3. CASE build[b].status = "partial" /\ build' = [build EXCEPT ![b] = runs]
    <3> HIDE DEF runs
    <3> QED BY <1>1, <1>3, <2>1, <2>3, BuildTypes, RowIsRewritten
  <2> QED BY <1>4, <2>2, <2>3
<1>5. CASE /\ UNCHANGED builder /\ build[b].status \in {"building", "partial"}
           /\ build' = [build EXCEPT ![b] = waits]
  <2> HIDE DEF waits
  <2> QED BY <1>1, <1>3, <1>5, BuildTypes, RowIsRewritten
<1> QED BY <1>4, <1>5 DEF TakeBuild

(* A worker that does not rest has a build, and where that is under way it *)
(* was inserted.                                                           *)
LEMMA OwnIsBuild ==
    ASSUME BuildInv, NEW w \in Builder, builder[w].pc # "idle"
    PROVE  /\ Own(w) \in Build
           /\ IsBuilding(Own(w)) => build[Own(w)].status = "building" /\ Own(w) <= lastBuild
<1>1. Own(w) \in Build
  BY BuildTypes, BuildAssumption DEF BuildInv, WorkersLooked, HasBuild, BuilderState, Own, Build
<1>2. NoneYet
  BY DEF BuildInv
<1> QED BY <1>1, <1>2, BuildTypes DEF IsBuilding, NoneYet

LEMMA BeginIsQuiet ==
    ASSUME BuildInv, NEW w \in Builder, BeginBuild(w)
    PROVE  BuildInv'
<1> DEFINE b == Own(w)
           ends == [build[b] EXCEPT !.status = "done"]
           begins == [builder[w] EXCEPT !.pc = "working", !.next = build[b].next, !.known = result.of]
<1>1. /\ builder[w].pc = "claimed" /\ IsBuilding(b)
      /\ UNCHANGED <<enabled, lastBuild, lastCont, result, made, unset>>
  BY DEF BeginBuild, BuilderAt
<1>2. b \in Build /\ build[b].status = "building"
  BY <1>1, OwnIsBuild
<1>3. CASE ResultAfter(b)
  <2>1. build' = [build EXCEPT ![b] = ends] /\ Leaves(w)
    BY <1>3 DEF BeginBuild
  <2>2. ends \in BuildRow
    BY <1>2, RowsTyped
  <2>3. /\ builder' \in [Builder -> BuilderState]
        /\ \A v \in Builder : builder'[v] = builder[v] \/ Rests(builder'[v])
    BY <1>1, <2>1, WorkerLeaves
  <2> HIDE DEF ends, b
  <2> QED BY <1>1, <1>2, <2>1, <2>2, <2>3, BuildTypes, RowIsRewritten
<1>4. CASE ~ ResultAfter(b)
  <2>1. UNCHANGED build /\ builder' = [builder EXCEPT ![w] = begins]
    BY <1>4 DEF BeginBuild
  <2>2. /\ begins \in BuilderState /\ begins.known = result.of /\ begins.build = b
        /\ begins.pc = "working"
    <3>1. builder[w] \in BuilderState /\ build[b] \in BuildRow
      BY <1>2, BuildTypes
    <3>2. build[b].next \in Recovery /\ result.of \in 0..LastBuild
      BY <3>1, BuildTypes DEF BuildRow
    <3> QED BY <3>1, <3>2 DEF BuilderState, Own
  <2>3. result.of # 0 => result.at < b
    BY <1>2, <1>4, BuildTypes DEF ResultAfter
  <2>4. HasBuild(begins)
    BY <1>2, <2>2, BuildTypes DEF HasBuild
  <2> HIDE DEF begins, b
  <2>5. BuildTypeOK'
    BY <1>1, <2>1, <2>2, BuildTypes DEF BuildTypeOK, BuildRow, BuilderState
  <2>6. NoneYet' /\ \A c \in Build : build[c].status = "done" => build'[c].status = "done"
    BY <1>1, <2>1 DEF BuildInv, NoneYet
  <2>7. \A v \in Builder :
          /\ HasBuild(builder'[v])
          /\ builder'[v].pc = "working" =>
                \/ builder'[v] = builder[v]
                \/ /\ builder'[v].known = result.of
                   /\ result.of # 0 => result.at < builder'[v].build
    <3>1. \A v \in Builder : HasBuild(builder[v])
      BY DEF BuildInv, WorkersLooked
    <3> QED BY <2>1, <2>2, <2>3, <2>4, <3>1, BuildTypes
  <2>8. DeliversNothing
    BY <1>1, <2>5, <2>6, <2>7 DEF DeliversNothing
  <2> QED BY <2>8, DeliveryIsKept
<1> QED BY <1>3, <1>4

LEMMA QuotaIsQuiet ==
    ASSUME BuildInv, NEW w \in Builder, QuotaEnds(w)
    PROVE  BuildInv'
<1> DEFINE b == Own(w)
           r == Recovering(b, IF enabled THEN "auto" ELSE "paused")
<1>1. /\ builder[w].pc = "claimed" /\ IsBuilding(b) /\ NewRecovery(b) /\ Leaves(w)
      /\ build' = [build EXCEPT ![b] = r]
      /\ UNCHANGED <<enabled, lastBuild, result, made, unset>>
  BY DEF QuotaEnds, BuilderAt
<1>2. b \in Build /\ build[b].status = "building"
  BY <1>1, OwnIsBuild
<1>3. lastCont' = lastCont + 1 /\ lastCont' \in Recovery
  BY <1>1, NextRecovery
<1>4. r \in BuildRow
  BY <1>2, <1>3, RowsTyped
<1>5. /\ builder' \in [Builder -> BuilderState]
      /\ \A v \in Builder : builder'[v] = builder[v] \/ Rests(builder'[v])
  BY <1>1, WorkerLeaves
<1> HIDE DEF b, r
<1> QED
  BY <1>1, <1>2, <1>3, <1>4, <1>5, BuildTypes, RowIsRewritten

LEMMA WaitIsQuiet ==
    ASSUME BuildInv, NEW w \in Builder, ProviderWaits(w)
    PROVE  BuildInv'
<1>1. /\ builder[w].pc = "working" /\ IsBuilding(Own(w)) /\ (Leaves(w) \/ Fails(w))
      /\ UNCHANGED <<enabled, lastBuild, lastCont, result, made, unset>>
  BY DEF ProviderWaits, BuilderAt
<1>2. Own(w) \in Build /\ build[Own(w)].status = "building"
  BY <1>1, OwnIsBuild
<1>3. PICK next \in {build[Own(w)].next, builder[w].next} :
        build' = [build EXCEPT ![Own(w)] = [@ EXCEPT !.state = "waiting", !.next = next]]
  BY DEF ProviderWaits
<1>4. next \in Recovery
  BY <1>2, <1>3, BuildTypes DEF BuildRow, BuilderState
<1> DEFINE b == Own(w)
           r == [build[b] EXCEPT !.state = "waiting", !.next = next]
<1>5. r \in BuildRow /\ build' = [build EXCEPT ![b] = r]
  BY <1>2, <1>3, <1>4, RowsTyped
<1>6. /\ builder' \in [Builder -> BuilderState]
      /\ \A v \in Builder : builder'[v] = builder[v] \/ Rests(builder'[v])
  BY <1>1, WorkerLeaves
<1> HIDE DEF b, r
<1> QED
  BY <1>1, <1>2, <1>5, <1>6, BuildTypes, RowIsRewritten DEF b

LEMMA SaveIsQuiet ==
    ASSUME BuildInv, NEW w \in Builder, SavePartial(w)
    PROVE  BuildInv'
<1> DEFINE b == Own(w)
           kept == [build[b] EXCEPT !.status = "partial", !.state = "unset", !.next = 0]
<1>1. /\ builder[w].pc = "working" /\ IsBuilding(b) /\ Leaves(w)
      /\ UNCHANGED <<enabled, lastBuild, result, made, unset>>
  BY DEF SavePartial, BuilderAt
<1>2. b \in Build /\ build[b].status = "building"
  BY <1>1, OwnIsBuild
<1>3. /\ builder' \in [Builder -> BuilderState]
      /\ \A v \in Builder : builder'[v] = builder[v] \/ Rests(builder'[v])
  BY <1>1, WorkerLeaves
<1>4. CASE build' = [build EXCEPT ![b] = kept] /\ UNCHANGED lastCont
  <2>1. kept \in BuildRow
    BY <1>2, RowsTyped
  <2> HIDE DEF b, kept
  <2> QED BY <1>1, <1>2, <1>3, <1>4, <2>1, BuildTypes, RowIsRewritten
<1>5. CASE /\ NewRecovery(b)
           /\ \E state \in {"auto", "paused"} : build' = [build EXCEPT ![b] = Recovering(b, state)]
  <2>1. PICK state \in {"auto", "paused"} : build' = [build EXCEPT ![b] = Recovering(b, state)]
    BY <1>5
  <2>2. lastCont' = lastCont + 1 /\ lastCont' \in Recovery
    BY <1>5, NextRecovery
  <2>3. Recovering(b, state) \in BuildRow
    BY <1>2, <2>2, RowsTyped
  <2> HIDE DEF b
  <2> QED BY <1>1, <1>2, <1>3, <2>1, <2>2, <2>3, BuildTypes, RowIsRewritten
<1> QED BY <1>4, <1>5 DEF SavePartial

LEMMA StopIsQuiet ==
    ASSUME BuildInv, NEW w \in Builder, Superseded(w) \/ BuildThrows(w) \/ MarkFailed(w)
    PROVE  BuildInv'
<1> DEFINE b == Own(w)
           r == [build[b] EXCEPT !.status = "error"]
<1>1. /\ builder[w].pc # "idle"
      /\ UNCHANGED <<enabled, lastBuild, lastCont, result, made, unset>>
      /\ Leaves(w) \/ Fails(w) \/ UNCHANGED builder
      /\ UNCHANGED build \/ (IsBuilding(b) /\ build' = [build EXCEPT ![b] = r])
  BY DEF Superseded, BuildThrows, MarkFailed, BuilderAt
<1>2. b \in Build /\ (IsBuilding(b) => build[b].status = "building")
  BY <1>1, OwnIsBuild
<1>3. /\ builder' \in [Builder -> BuilderState]
      /\ \A v \in Builder : builder'[v] = builder[v] \/ Rests(builder'[v])
  BY <1>1, BuildTypes, WorkerLeaves
<1>4. CASE UNCHANGED build
  BY <1>1, <1>3, <1>4, BuildTypes, RowsChange
<1>5. CASE IsBuilding(b) /\ build' = [build EXCEPT ![b] = r]
  <2>1. r \in BuildRow
    BY <1>2, <1>5, RowsTyped
  <2> HIDE DEF r
  <2>2. build[b].status = "building"
    BY <1>2, <1>5
  <2> HIDE DEF b
  <2> QED BY <1>1, <1>2, <1>3, <1>5, <2>1, <2>2, BuildTypes, RowIsRewritten
<1> QED BY <1>1, <1>4, <1>5

(* The commit of a result: the build it is of had none, and nobody else     *)
(* works with that result in mind.                                         *)
LEMMA CommitKeepsBuildInv ==
    ASSUME BuildInv, NEW w \in Builder, CommitResult(w)
    PROVE  BuildInv'
<1> DEFINE b == Own(w)
           row(c) == IF c = b THEN [build[b] EXCEPT !.status = "done"]
                     ELSE IF c \in InStatus({"error", "partial"}) THEN [build[c] EXCEPT !.status = "done"]
                     ELSE build[c]
<1>1. /\ builder[w].pc = "working" /\ IsBuilding(b)
      /\ UNCHANGED <<enabled, lastBuild, lastCont, unset>>
  BY DEF CommitResult, BuilderAt
<1>2. b \in Build /\ build[b].status = "building" /\ b <= lastBuild /\ b # 0 /\ b \in Nat
  BY <1>1, OwnIsBuild, BuildTypes
<1>3. CASE UNCHANGED <<build, result, made>> /\ Leaves(w)
  <2>1. /\ builder' \in [Builder -> BuilderState]
        /\ \A v \in Builder : builder'[v] = builder[v] \/ Rests(builder'[v])
    BY <1>1, <1>3, WorkerLeaves
  <2> QED BY <1>1, <1>3, <2>1, BuildTypes, RowsChange
<1>4. CASE /\ result' = [of |-> b, at |-> lastBuild] /\ made' = [made EXCEPT ![b] = @ + 1]
           /\ build' = [c \in Build |-> row(c)]
           /\ Leaves(w) \/ Fails(w)
  <2>1. /\ builder' \in [Builder -> BuilderState]
        /\ \A v \in Builder : builder'[v] = builder[v] \/ Rests(builder'[v])
    BY <1>1, <1>4, WorkerLeaves
  <2>2. made[b] = 0
    BY <1>2 DEF BuildInv, DeliveredIsDone
  <2>3. /\ made' \in [Build -> 0..2] /\ made'[b] = 1
        /\ \A c \in Build : c # b => made'[c] = made[c]
    BY <1>2, <1>4, <2>2, BuildTypes
  <2>4. \A c \in Build :
          /\ row(c) \in BuildRow
          /\ row(c) = build[c] \/ (row(c).status = "done" /\ build[c].status # "none")
          /\ c = b => row(c).status = "done"
    <3> TAKE c \in Build
    <3>1. build[c] \in BuildRow /\ build[b] \in BuildRow
      BY <1>2, BuildTypes
    <3> QED BY <1>2, <3>1 DEF BuildRow, InStatus
  <2> HIDE DEF row
  <2>5. /\ build' \in [Build -> BuildRow] /\ build'[b].status = "done"
        /\ \A c \in Build :
              build'[c] = build[c] \/ (build'[c].status = "done" /\ build[c].status # "none")
    BY <1>2, <1>4, <2>4
  <2> HIDE DEF b
  <2>6. result'.of = b /\ result'.at = lastBuild /\ result' \in [of : 0..LastBuild, at : 0..LastBuild]
    <3>1. b \in 0..LastBuild
      BY <1>2, BuildTypes
    <3> QED BY <1>4, <3>1, BuildTypes
  <2>7. BuildTypeOK'
    BY <1>1, <2>1, <2>3, <2>5, <2>6, BuildTypes DEF BuildTypeOK, BuildRow, BuilderState
  <2>8. ResultIsOfItsTime'
    BY <1>1, <1>2, <2>3, <2>6 DEF ResultIsOfItsTime
  <2>9. DeliveredIsDone'
    <3>1. DeliveredIsDone
      BY DEF BuildInv
    <3> QED BY <2>3, <2>5, <3>1 DEF DeliveredIsDone
  <2>10. NoneYet'
    <3>1. NoneYet
      BY DEF BuildInv
    <3> QED BY <1>1, <2>5, <3>1 DEF NoneYet
  <2>11. WorkersLooked'
    <3>1. WorkersLooked
      BY DEF BuildInv
    <3>2. SUFFICES ASSUME NEW v \in Builder
                   PROVE  /\ HasBuild(builder'[v])
                          /\ builder'[v].pc = "working" =>
                               /\ builder'[v].known # 0 => made'[builder'[v].known] = 1
                               /\ builder'[v].known # b
      BY <2>6 DEF WorkersLooked, BuilderAt, Own
    <3>3. CASE Rests(builder'[v])
      BY <3>3 DEF Rests
    <3>4. CASE builder'[v] = builder[v] /\ builder[v].pc = "working"
      <4>1. builder[v].known # 0 => made[builder[v].known] = 1 /\ builder[v].known \in Build
        BY <3>1, <3>4, BuildTypes, BuildAssumption DEF WorkersLooked, BuilderAt, BuilderState, Build
      <4>2. builder[v].known # b
        BY <1>2, <2>2, <4>1
      <4>3. HasBuild(builder[v])
        BY <3>1 DEF WorkersLooked
      <4> QED BY <2>3, <3>4, <4>1, <4>2, <4>3
    <3>5. CASE builder'[v] = builder[v] /\ builder[v].pc # "working"
      BY <3>1, <3>5 DEF WorkersLooked
    <3> QED BY <2>1, <3>3, <3>4, <3>5
  <2> QED BY <2>7, <2>8, <2>9, <2>10, <2>11 DEF BuildInv
<1> QED BY <1>3, <1>4 DEF CommitResult, FinalizedBuild

LEMMA BuildStep ==
    ASSUME BuildInv, BuildNext
    PROVE  BuildInv'
<1>1. CASE Generate
  BY <1>1, InsertIsQuiet, BuildTypes DEF Generate
<1>2. CASE Pause
  BY <1>2, PauseIsQuiet
<1>3. CASE Enable
  BY <1>3, EnableIsQuiet
<1>4. CASE Disable
  BY <1>4, DisableIsQuiet
<1>5. CASE PageGivesUp
  BY <1>5, PageIsQuiet
<1>6. CASE WeeklyTick
  BY <1>6, TickIsQuiet
<1>7. ASSUME NEW b \in Build, GenerateRefused(b) \/ Reconcile(b) \/ SetRecovery(b)
      PROVE  BuildInv'
  BY <1>7, RefusalIsQuiet, ReconcileIsQuiet, SetRecoveryIsQuiet
<1>8. ASSUME NEW w \in Builder, NEW b \in Build, NEW cont \in Recovery, TakeBuild(w, b, cont)
      PROVE  BuildInv'
  BY <1>8, TakeIsQuiet
<1>9. ASSUME NEW w \in Builder,
             \/ Superseded(w) \/ BeginBuild(w) \/ QuotaEnds(w) \/ ProviderWaits(w)
             \/ SavePartial(w) \/ CommitResult(w) \/ BuildThrows(w) \/ MarkFailed(w)
      PROVE  BuildInv'
  BY <1>9, StopIsQuiet, BeginIsQuiet, QuotaIsQuiet, WaitIsQuiet, SaveIsQuiet, CommitKeepsBuildInv
<1> QED
  BY <1>1, <1>2, <1>3, <1>4, <1>5, <1>6, <1>7, <1>8, <1>9 DEF BuildNext

LEMMA BuildStart == BuildInit => BuildInv
<1> SUFFICES ASSUME BuildInit PROVE BuildInv
  OBVIOUS
<1>1. 0 \in Recovery /\ 0 \in 0..LastBuild /\ 0 \in 0..2
  BY BuildAssumption DEF Recovery
<1>2. NoBuild \in BuildRow /\ NoBuild.status = "none"
  BY <1>1 DEF NoBuild, BuildRow
<1>3. IdleBuilder \in BuilderState /\ IdleBuilder.pc = "idle"
  BY <1>1 DEF IdleBuilder, BuilderState
<1>4. BuildTypeOK
  BY <1>1, <1>2, <1>3 DEF BuildInit, BuildTypeOK, BuildRow, BuilderState
<1>5. ResultIsOfItsTime /\ DeliveredIsDone /\ NoneYet
  BY <1>2 DEF BuildInit, ResultIsOfItsTime, DeliveredIsDone, NoneYet
<1>6. WorkersLooked
  BY <1>3 DEF BuildInit, WorkersLooked, HasBuild, BuilderAt
<1> QED
  BY <1>4, <1>5, <1>6 DEF BuildInv

LEMMA BuildStutter ==
    ASSUME BuildInv, UNCHANGED buildVars
    PROVE  BuildInv'
  BY DEF BuildInv, buildVars, BuildTypeOK, ResultIsOfItsTime, DeliveredIsDone, NoneYet,
         WorkersLooked, BuilderAt, Own, HasBuild, IsBuilding

(* The invariant of the building of plans, for any number of builds,        *)
(* continuations and workers: what was delivered is over, and nobody works  *)
(* on a build that a plan has overtaken without having begun before it.     *)
THEOREM BuildInvariance == BuildSpec => []BuildInv
<1>1. BuildInv /\ [BuildNext]_buildVars => BuildInv'
  BY BuildStep, BuildStutter
<1> QED
  BY BuildStart, <1>1, PTL DEF BuildSpec

(* The rows and the workers of a channel's builds keep their types.         *)
THEOREM BuildTyping == BuildSpec => []BuildTypeOK
<1>1. BuildInv => BuildTypeOK
  BY DEF BuildInv
<1> QED
  BY BuildInvariance, <1>1, PTL

(* A week is delivered once, however many jobs, continuations and workers   *)
(* its build has had.                                                      *)
THEOREM WeekIsDeliveredOnce == BuildSpec => []OneResultPerBuild
<1>1. BuildInv => OneResultPerBuild
  BY DEF BuildInv, DeliveredIsDone, OneResultPerBuild
<1> QED
  BY BuildInvariance, <1>1, PTL

(* A plan only gives way to the one of an older build if that was at work   *)
(* when the plan came.                                                     *)
THEOREM NewerPlanStays == BuildSpec => LateBuildDeliversNothing
<1> DEFINE Excused ==
        result'.of < result.of =>
           \E w \in Builder : BuilderAt(w, "working") /\ Own(w) = result'.of
                              /\ builder[w].known # result.of
<1>1. ASSUME BuildInv, NEW w \in Builder, CommitResult(w)
      PROVE  Excused
  <2>1. SUFFICES ASSUME result'.of < result.of, builder[w].known = result.of
                 PROVE  FALSE
    <3>1. CASE UNCHANGED result
      BY <1>1, <3>1, BuildTypes
    <3>2. CASE result' = [of |-> Own(w), at |-> lastBuild]
      BY <1>1, <2>1, <3>2 DEF CommitResult
    <3> QED BY <1>1, <3>1, <3>2 DEF CommitResult
  <2>2. result.of \in Nat /\ result.at \in Nat
    BY <1>1, BuildTypes
  <2>3. builder[w].pc = "working"
    BY <1>1 DEF CommitResult, BuilderAt
  <2>4. Own(w) \in Build /\ Own(w) \in Nat
    BY <1>1, <2>3, OwnIsBuild, BuildTypes
  <2>5. result'.of = Own(w)
    BY <1>1, <2>1, <2>2 DEF CommitResult
  <2>6. result.of # 0
    BY <2>1, <2>2, <2>4, <2>5
  <2>7. result.at < Own(w) /\ result.of <= result.at
    BY <1>1, <2>1, <2>3, <2>6 DEF BuildInv, WorkersLooked, BuilderAt, ResultIsOfItsTime
  <2> QED BY <2>1, <2>2, <2>4, <2>5, <2>7
<1>2. ASSUME BuildInv, BuildNext, \A w \in Builder : ~CommitResult(w)
      PROVE  result' = result
  BY <1>2 DEF BuildNext, Generate, Pause, Enable, Disable, PageGivesUp, WeeklyTick, GenerateRefused,
              Reconcile, SetRecovery, TakeBuild, Superseded, BeginBuild, QuotaEnds, ProviderWaits,
              SavePartial, BuildThrows, MarkFailed
<1>3. BuildInv /\ [BuildNext]_buildVars =>
        [result'.of < result.of =>
           \E w \in Builder : BuilderAt(w, "working") /\ Own(w) = result'.of
                              /\ builder[w].known # result.of]_buildVars
  <2>1. ASSUME BuildInv, BuildNext, \A w \in Builder : ~CommitResult(w)
        PROVE  Excused
    BY <2>1, <1>2, BuildTypes
  <2> QED BY <1>1, <2>1
<1> QED
  BY BuildInvariance, <1>3, PTL DEF BuildSpec, LateBuildDeliversNothing

-----------------------------------------------------------------------------
(* The confirmation of a plan.                                             *)
PlanState == [status : {"pending", "approving", "approved"},
              op : Approver \cup {NoApprover}, fresh : BOOLEAN]
PostState == [status : {"none", "scheduled", "published"}, asSeen : BOOLEAN]
Answer == {"none", "processing", "completed", "partial", "failed"}
AtStage == {"idle", "seen", "inserted", "refusing", "working", "erring", "aborting", "done"}
ApproverState == [at : AtStage, kind : {"web", "bot"}, current : BOOLEAN,
                  seen : [PlanItem -> Version], copy : [PlanItem -> Item], made : SUBSET PlanItem]

LEMMA ApprovalTypes ==
    ASSUME ApprovalTypeOK
    PROVE  /\ plan \in PlanState /\ item \in [PlanItem -> Item] /\ past \subseteq PlanItem
           /\ approval \in [Approver -> Answer] /\ planPost \in [PlanItem -> PostState]
           /\ planRow \in [PlanItem -> Approver \cup {NoApprover}] /\ unanswered \subseteq PlanItem
           /\ approver \in [Approver -> ApproverState]
           /\ PlanItem \subseteq Nat /\ NoApprover \notin Approver
  BY ApprovalAssumption
     DEF ApprovalTypeOK, PlanState, PostState, Answer, ApproverState, AtStage

LEMMA ApprovalTyping ==
    ASSUME plan' \in PlanState, item' \in [PlanItem -> Item], past' \subseteq PlanItem,
           approval' \in [Approver -> Answer], planPost' \in [PlanItem -> PostState],
           planRow' \in [PlanItem -> Approver \cup {NoApprover}], unanswered' \subseteq PlanItem,
           approver' \in [Approver -> ApproverState]
    PROVE  ApprovalTypeOK'
  BY DEF ApprovalTypeOK, PlanState, PostState, Answer, ApproverState, AtStage

(* The same confirmation, its preview perhaps stale.                       *)
Same(new, old) ==
    /\ new.at = old.at /\ new.kind = old.kind /\ new.seen = old.seen /\ new.copy = old.copy
    /\ new.made = old.made /\ (new.current => old.current)

LEMMA RevisedStates ==
    ASSUME NEW as \in [Approver -> ApproverState]
    PROVE  /\ Revised(as) \in [Approver -> ApproverState]
           /\ \A b \in Approver : Same(Revised(as)[b], as[b]) /\ Revised(as)[b].current = FALSE
<1>1. \A b \in Approver :
        /\ [as[b] EXCEPT !.current = FALSE] \in ApproverState
        /\ Same([as[b] EXCEPT !.current = FALSE], as[b])
        /\ [as[b] EXCEPT !.current = FALSE].current = FALSE
  <2> TAKE b \in Approver
  <2>1. as[b] \in ApproverState
    OBVIOUS
  <2> QED BY <2>1 DEF ApproverState, Same
<1> QED BY <1>1 DEF Revised

LEMMA UnusedIsState ==
    /\ Unused \in ApproverState /\ Unused.copy \in [PlanItem -> Item]
    /\ Unused.made = {} /\ Unused.at = "idle" /\ Unused.current = FALSE
    /\ \A i \in PlanItem : Unused.copy[i] = [status |-> "pending", text |-> "one", post |-> FALSE]
<1> DEFINE first == [status |-> "pending", text |-> "one", post |-> FALSE]
<1>1. first \in Item /\ "one" \in Version
  BY DEF Item, Version
<1> HIDE DEF first
<1>2. [i \in PlanItem |-> first] \in [PlanItem -> Item] /\ [i \in PlanItem |-> "one"] \in [PlanItem -> Version]
  BY <1>1
<1> QED BY <1>2 DEF Unused, ApproverState, AtStage, first

-----------------------------------------------------------------------------
(* What a step leaves to one confirmation.                                 *)
MindOf(a) ==
    /\ Shows(approver[a])
    /\ HasPlan(a) /\ approver[a].at \in AtWork => Knows(approver[a])
    /\ Counts(a, approver[a])

LEMMA MindsOfAll ==
    (\A a \in Approver : MindOf(a)) <=> (PreviewIsCurrent /\ HolderKnowsPlan /\ RowsAreCounted)
  BY DEF MindOf, PreviewIsCurrent, HolderKnowsPlan, RowsAreCounted

LEMMA ApprovalFacts ==
    ASSUME ApprovalInv
    PROVE  ApprovalTypeOK /\ ClaimHasOwner /\ \A a \in Approver : MindOf(a)
  BY MindsOfAll DEF ApprovalInv

(* A confirmation that stays where it is, with its preview if the texts     *)
(* stay, and with the plan only if the items do.                           *)
LEMMA SameMind ==
    ASSUME ApprovalInv, NEW b \in Approver, Same(approver'[b], approver[b]),
           item' = item \/ approver'[b].current = FALSE,
           HasPlan(b)' => HasPlan(b) /\ item' = item /\ unanswered' = unanswered,
           unanswered \subseteq unanswered', RowsOf(b)' \subseteq RowsOf(b)
    PROVE  MindOf(b)'
<1>1. MindOf(b)
  BY ApprovalFacts
<1>2. Shows(approver[b])'
  BY <1>1 DEF MindOf, Shows, Same
<1>3. (HasPlan(b) /\ approver[b].at \in AtWork => Knows(approver[b]))'
  BY <1>1 DEF MindOf, Knows, Same, AtWork
<1>4. Counts(b, approver[b])'
  BY <1>1 DEF MindOf, Counts, Same, AtWork
<1> QED
  BY <1>2, <1>3, <1>4 DEF MindOf

LEMMA LeftMind ==
    ASSUME NEW b \in Approver,
           \/ approver'[b].at \in {"aborting", "done"}
           \/ approver'[b].at = "refusing" /\ RowsOf(b)' = {}
    PROVE  MindOf(b)'
  BY DEF MindOf, Shows, Counts, AtWork

(* Steps that leave the items and the calendar alone.                      *)
LEMMA CalendarIsKept ==
    ASSUME ApprovalInv, UNCHANGED <<item, planPost, planRow, unanswered>>,
           plan' \in PlanState, past' \subseteq PlanItem, approval' \in [Approver -> Answer],
           approver' \in [Approver -> ApproverState],
           plan'.status = "approving" => plan'.op \in Approver,
           \A b \in Approver : approval'[b] = "failed" =>
                approval[b] = "failed" \/ RowsOf(b) \subseteq unanswered,
           \A b \in Approver : MindOf(b)'
    PROVE  ApprovalInv'
<1>1. ApprovalTypeOK'
  BY ApprovalFacts, ApprovalTypes, ApprovalTyping
<1>2. ClaimHasOwner'
  BY DEF ClaimHasOwner
<1>3. PreviewIsCurrent' /\ HolderKnowsPlan' /\ RowsAreCounted'
  BY DEF MindOf, PreviewIsCurrent, HolderKnowsPlan, RowsAreCounted
<1>4. ApprovedHasPost' /\ ScheduledAsSeen'
  BY DEF ApprovalInv, ApprovedHasPost, ScheduledAsSeen
<1>5. PlanMatchesCalendar'
  BY DEF ApprovalInv, PlanMatchesCalendar, RowsOf
<1> QED
  BY <1>1, <1>2, <1>3, <1>4, <1>5 DEF ApprovalInv

(* The states of the others, when one confirmation moves.                  *)
Steps(a, as) ==
    as \in [Approver -> ApproverState] /\ \A b \in Approver \ {a} : Same(as[b], approver[b])

LEMMA LeavingSteps ==
    ASSUME ApprovalInv, NEW a \in Approver
    PROVE  /\ Steps(a, Ended(a)) /\ Ended(a)[a].at = "done"
           /\ Steps(a, Refusing(a)) /\ Refusing(a)[a].at = "refusing"
           /\ Steps(a, Aborting(a)) /\ Aborting(a)[a].at = "aborting"
<1>1. approver \in [Approver -> ApproverState] /\ approver[a] \in ApproverState
  BY ApprovalFacts, ApprovalTypes
<1>2. /\ [Unused EXCEPT !.at = "done"] \in ApproverState /\ [Unused EXCEPT !.at = "done"].at = "done"
      /\ [Unused EXCEPT !.at = "refusing"] \in ApproverState
      /\ [Unused EXCEPT !.at = "refusing"].at = "refusing"
  BY UnusedIsState DEF ApproverState, AtStage
<1> DEFINE aborts == [Unused EXCEPT !.at = "aborting", !.kind = approver[a].kind, !.made = approver[a].made]
<1>3. aborts \in ApproverState /\ aborts.at = "aborting"
  BY <1>1, UnusedIsState DEF ApproverState, AtStage
<1> HIDE DEF aborts
<1>4. Aborting(a) = [approver EXCEPT ![a] = aborts]
  BY DEF Aborting, aborts
<1>5. \A b \in Approver : Same(approver[b], approver[b])
  BY DEF Same
<1> QED
  BY <1>1, <1>2, <1>3, <1>4, <1>5 DEF Steps, Ended, Refusing

LEMMA MovingSteps ==
    ASSUME ApprovalInv, NEW a \in Approver, NEW at \in AtStage
    PROVE  /\ Steps(a, AsOf(a, at)) /\ AsOf(a, at)[a].at = at
           /\ AsOf(a, at)[a].seen = approver[a].seen /\ AsOf(a, at)[a].copy = approver[a].copy
           /\ AsOf(a, at)[a].made = approver[a].made /\ AsOf(a, at)[a].current = approver[a].current
<1>1. approver \in [Approver -> ApproverState] /\ approver[a] \in ApproverState
  BY ApprovalFacts, ApprovalTypes
<1> DEFINE new == [approver[a] EXCEPT !.at = at]
<1>2. /\ new \in ApproverState /\ new.at = at /\ new.seen = approver[a].seen
      /\ new.copy = approver[a].copy /\ new.made = approver[a].made /\ new.current = approver[a].current
  BY <1>1 DEF ApproverState
<1>3. AsOf(a, at) = [approver EXCEPT ![a] = new]
  BY DEF AsOf
<1> HIDE DEF new
<1>4. \A b \in Approver : Same(approver[b], approver[b])
  BY DEF Same
<1> QED
  BY <1>1, <1>2, <1>3, <1>4 DEF Steps

LEMMA RevisedSteps ==
    ASSUME NEW a \in Approver, NEW as, Steps(a, as)
    PROVE  /\ Steps(a, Revised(as)) /\ Same(Revised(as)[a], as[a])
           /\ \A b \in Approver : Revised(as)[b].current = FALSE
<1>1. \A b \in Approver : Same(Revised(as)[b], as[b]) /\ Revised(as)[b].current = FALSE
  BY RevisedStates DEF Steps
<1>2. ASSUME NEW b \in Approver \ {a} PROVE Same(Revised(as)[b], approver[b])
  <2>1. Same(Revised(as)[b], as[b]) /\ Same(as[b], approver[b])
    BY <1>1 DEF Steps
  <2> HIDE DEF Revised
  <2> QED BY <2>1, Zenon DEF Same
<1> QED
  BY <1>1, <1>2, RevisedStates DEF Steps

(* One confirmation moves and leaves the items and the calendar alone.      *)
LEMMA OneMoves ==
    ASSUME ApprovalInv, NEW a \in Approver, Steps(a, approver'), MindOf(a)',
           UNCHANGED <<item, past, planPost, planRow, unanswered>>,
           plan' \in PlanState, approval' \in [Approver -> Answer],
           plan'.status = "approving" => plan'.op \in Approver,
           \A b \in Approver : approval'[b] = "failed" =>
                approval[b] = "failed" \/ RowsOf(b) \subseteq unanswered,
           \A b \in Approver \ {a} : HasPlan(b)' => HasPlan(b)
    PROVE  ApprovalInv'
<1>1. ASSUME NEW b \in Approver \ {a}
      PROVE  MindOf(b)'
  <2>1. Same(approver'[b], approver[b])
    BY DEF Steps
  <2>2. RowsOf(b)' \subseteq RowsOf(b)
    BY DEF RowsOf
  <2> QED BY <2>1, <2>2, SameMind
<1>2. \A b \in Approver : MindOf(b)'
  BY <1>1
<1>3. approver' \in [Approver -> ApproverState] /\ past' \subseteq PlanItem
  BY ApprovalFacts, ApprovalTypes DEF Steps
<1> QED
  BY <1>2, <1>3, CalendarIsKept

LEMMA PreviewKeepsInv ==
    ASSUME ApprovalInv, NEW a \in Approver, Preview(a)
    PROVE  ApprovalInv'
<1>1. /\ approver[a].at = "idle"
      /\ UNCHANGED <<plan, item, past, approval, planPost, planRow, unanswered>>
  BY DEF Preview, ApproverAt
<1>2. PICK kind \in {"web", "bot"} :
        approver' = [approver EXCEPT ![a] =
                [@ EXCEPT !.at = "seen", !.kind = kind, !.current = TRUE,
                          !.seen = [i \in PlanItem |-> item[i].text]]]
  BY DEF Preview
<1>3. approver \in [Approver -> ApproverState] /\ item \in [PlanItem -> Item]
  BY ApprovalFacts, ApprovalTypes
<1> DEFINE new == [approver[a] EXCEPT !.at = "seen", !.kind = kind, !.current = TRUE,
                                      !.seen = [i \in PlanItem |-> item[i].text]]
<1>4. /\ new \in ApproverState /\ new.at = "seen" /\ \A i \in PlanItem : new.seen[i] = item[i].text
  <2>1. [i \in PlanItem |-> item[i].text] \in [PlanItem -> Version]
    BY <1>3 DEF Item
  <2>2. approver[a] \in ApproverState
    BY <1>3
  <2> QED BY <2>1, <2>2 DEF ApproverState, AtStage
<1> HIDE DEF new
<1>5. Steps(a, approver') /\ approver'[a] = new
  <2>1. \A b \in Approver : Same(approver[b], approver[b])
    BY DEF Same
  <2> QED BY <1>2, <1>3, <1>4, <2>1 DEF Steps, new
<1>6. MindOf(a)'
  <2>1. RowsOf(a) = {}
    BY <1>1, ApprovalFacts DEF MindOf, Counts
  <2> QED BY <1>1, <1>4, <1>5, <2>1 DEF MindOf, Shows, Counts, AtWork, RowsOf
<1>7. /\ plan \in PlanState /\ approval \in [Approver -> Answer]
      /\ plan.status = "approving" => plan.op \in Approver
  BY ApprovalFacts, ApprovalTypes DEF ClaimHasOwner
<1>8. \A b \in Approver \ {a} : HasPlan(b)' => HasPlan(b)
  BY <1>1 DEF HasPlan
<1> QED
  BY <1>1, <1>5, <1>6, <1>7, <1>8, OneMoves

(* A confirmation gives up, and tells its caller or not.                   *)
Withdraws(a) ==
    \/ approver' \in {Ended(a), Aborting(a), Revised(Ended(a)), Revised(Aborting(a))}
    \/ approver' \in {Refusing(a), Revised(Refusing(a))} /\ approver[a].at = "inserted"

LEMMA Withdrawal ==
    ASSUME ApprovalInv, NEW a \in Approver, Withdraws(a), planRow' = planRow
    PROVE  Steps(a, approver') /\ MindOf(a)'
<1>1. PICK as \in {Ended(a), Aborting(a), Refusing(a)} : approver' \in {as, Revised(as)}
  BY DEF Withdraws
<1>2. Steps(a, as) /\ as[a].at \in {"aborting", "done", "refusing"}
  BY <1>1, LeavingSteps
<1>3. Steps(a, Revised(as)) /\ Same(Revised(as)[a], as[a])
  BY <1>2, RevisedSteps
<1>4. Steps(a, approver') /\ approver'[a].at = as[a].at
  BY <1>1, <1>2, <1>3 DEF Same
<1>5. CASE as[a].at = "refusing"
  <2>2. CASE approver[a].at = "inserted"
    <3>1. RowsOf(a) = {}
      BY <2>2, ApprovalFacts DEF MindOf, Counts
    <3>2. RowsOf(a)' = {}
      BY <3>1 DEF RowsOf
    <3> QED BY <1>4, <1>5, <3>2, LeftMind
  <2>3. CASE approver[a].at # "inserted"
    <3>1. PICK out \in {Ended(a), Aborting(a)} : approver' \in {out, Revised(out)}
      BY <2>3 DEF Withdraws
    <3>2. Steps(a, out) /\ out[a].at # "refusing"
      BY <3>1, LeavingSteps
    <3>3. Same(Revised(out)[a], out[a])
      BY <3>2, RevisedSteps
    <3> QED BY <1>4, <1>5, <3>1, <3>2, <3>3 DEF Same
  <2> QED BY <2>2, <2>3
<1>6. CASE as[a].at \in {"aborting", "done"}
  <2>1. approver'[a].at \in {"aborting", "done"}
    BY <1>4, <1>6
  <2>2. MindOf(a)'
    BY <2>1, LeftMind
  <2> QED BY <1>4, <2>2
<1> QED BY <1>2, <1>4, <1>5, <1>6

LEMMA LeavingKeepsInv ==
    ASSUME ApprovalInv, NEW a \in Approver,
           ClaimRefused(a) \/ FinishUnclaimed(a) \/ GiveUp(a) \/ ApproverDies(a)
    PROVE  ApprovalInv'
<1>1. /\ UNCHANGED <<plan, item, past, planPost, planRow, unanswered>>
      /\ Withdraws(a)
      /\ \/ UNCHANGED approval
         \/ approver[a].at = "refusing" /\ approval' = [approval EXCEPT ![a] = "failed"]
  BY DEF ClaimRefused, FinishUnclaimed, GiveUp, ApproverDies, ApproverAt, Withdraws
<1>2. Steps(a, approver') /\ MindOf(a)'
  BY <1>1, Withdrawal
<1>3. /\ plan \in PlanState /\ approval \in [Approver -> Answer]
      /\ plan.status = "approving" => plan.op \in Approver
  BY ApprovalFacts, ApprovalTypes DEF ClaimHasOwner
<1>4. approver[a].at = "refusing" => RowsOf(a) = {}
  BY ApprovalFacts DEF MindOf, Counts
<1>5. /\ approval' \in [Approver -> Answer]
      /\ \A b \in Approver : approval'[b] = "failed" =>
              approval[b] = "failed" \/ RowsOf(b) \subseteq unanswered
  BY <1>1, <1>3, <1>4 DEF Answer
<1>6. \A b \in Approver \ {a} : HasPlan(b)' => HasPlan(b)
  BY <1>1 DEF HasPlan
<1> QED
  BY <1>1, <1>2, <1>3, <1>5, <1>6, OneMoves

LEMMA ConfirmKeepsInv ==
    ASSUME ApprovalInv, NEW a \in Approver, Confirm(a)
    PROVE  ApprovalInv'
<1>1. /\ UNCHANGED <<plan, item, past, planPost, planRow, unanswered>>
      /\ approver[a].at = "seen"
      /\ \/ approver' = Ended(a) /\ UNCHANGED approval
         \/ approver' = AsOf(a, "inserted") /\ approval' = [approval EXCEPT ![a] = "processing"]
  BY DEF Confirm, ApproverAt
<1>2. /\ plan \in PlanState /\ approval \in [Approver -> Answer]
      /\ plan.status = "approving" => plan.op \in Approver
  BY ApprovalFacts, ApprovalTypes DEF ClaimHasOwner
<1>3. \A b \in Approver \ {a} : HasPlan(b)' => HasPlan(b)
  BY <1>1 DEF HasPlan
<1>4. /\ approval' \in [Approver -> Answer]
      /\ \A b \in Approver : approval'[b] = "failed" => approval[b] = "failed"
  BY <1>1, <1>2 DEF Answer
<1>5. CASE approver' = Ended(a)
  <2>1. Steps(a, approver') /\ MindOf(a)'
    BY <1>1, <1>5, Withdrawal DEF Withdraws
  <2> QED BY <1>1, <1>2, <1>3, <1>4, <2>1, OneMoves
<1>6. CASE approver' = AsOf(a, "inserted")
  <2>1. /\ Steps(a, approver') /\ approver'[a].at = "inserted"
        /\ approver'[a].seen = approver[a].seen /\ approver'[a].current = approver[a].current
    BY <1>6, MovingSteps DEF AtStage
  <2>2. MindOf(a)
    BY ApprovalFacts
  <2>3. MindOf(a)'
    BY <1>1, <2>1, <2>2 DEF MindOf, Shows, Counts, AtWork, RowsOf
  <2> QED BY <1>1, <1>2, <1>3, <1>4, <2>1, <2>3, OneMoves
<1> QED BY <1>1, <1>5, <1>6

(* Who claims the plan saw the texts it takes with it.                     *)
LEMMA ClaimKeepsInv ==
    ASSUME ApprovalInv, NEW a \in Approver, ClaimPlan(a)
    PROVE  ApprovalInv'
<1>1. /\ UNCHANGED <<item, past, approval, planPost, planRow, unanswered>>
      /\ approver[a].at = "inserted" /\ approver[a].current
      /\ plan' = [status |-> "approving", op |-> a, fresh |-> TRUE]
  BY DEF ClaimPlan, MayClaim, ApproverAt
<1>2. /\ plan' \in PlanState /\ plan'.op = a
      /\ \A b \in Approver \ {a} : ~HasPlan(b)'
  BY <1>1 DEF PlanState, HasPlan
<1>3. approval \in [Approver -> Answer] /\ approver \in [Approver -> ApproverState]
      /\ item \in [PlanItem -> Item]
  BY ApprovalFacts, ApprovalTypes
<1>4. CASE Withdraws(a)
  <2>1. Steps(a, approver') /\ MindOf(a)'
    BY <1>1, <1>4, Withdrawal
  <2> QED BY <1>1, <1>2, <1>3, <2>1, OneMoves
<1>5. CASE approver' = Revised([AsOf(a, "working") EXCEPT ![a].copy = Annotated(item)])
  <2> DEFINE as == [AsOf(a, "working") EXCEPT ![a].copy = Annotated(item)]
             new == [approver[a] EXCEPT !.at = "working", !.copy = Annotated(item)]
  <2>1. /\ Annotated(item) \in [PlanItem -> Item]
        /\ \A i \in PlanItem :
              /\ Annotated(item)[i].text = item[i].text /\ Annotated(item)[i].post = item[i].post
              /\ Annotated(item)[i].status = "approved" <=> item[i].status = "approved"
    <3>1. \A i \in PlanItem :
            LET expired == [item[i] EXCEPT !.status = "expired"] IN
            /\ expired \in Item /\ expired.text = item[i].text /\ expired.post = item[i].post
            /\ expired.status = "expired"
      BY <1>3 DEF Item
    <3>2. \A i \in Actionable(item) : item[i].status = "pending"
      BY DEF Actionable
    <3> QED BY <1>3, <3>1, <3>2 DEF Annotated
  <2>2. /\ new \in ApproverState /\ new.at = "working" /\ new.seen = approver[a].seen
        /\ new.copy = Annotated(item)
    <3>1. approver[a] \in ApproverState
      BY <1>3
    <3> QED BY <2>1, <3>1 DEF ApproverState, AtStage
  <2>3. as = [approver EXCEPT ![a] = new]
    BY <1>3 DEF AsOf, ApproverState
  <2> HIDE DEF new
  <2>4. Steps(a, as) /\ as[a] = new
    <3>1. \A b \in Approver : Same(approver[b], approver[b])
      BY DEF Same
    <3> HIDE DEF as
    <3> QED BY <1>3, <2>2, <2>3, <3>1 DEF Steps
  <2> HIDE DEF as
  <2>5. Steps(a, approver') /\ Same(approver'[a], new) /\ approver'[a].current = FALSE
    BY <1>5, <2>4, RevisedSteps DEF as
  <2>6. MindOf(a)'
    <3>1. RowsOf(a) = {} /\ \A i \in PlanItem : approver[a].seen[i] = item[i].text
      BY <1>1, ApprovalFacts DEF MindOf, Counts, Shows
    <3>2. Knows(approver[a])'
      BY <1>1, <2>1, <2>2, <2>5, <3>1 DEF Knows, Same
    <3> QED BY <1>1, <2>2, <2>5, <3>1, <3>2 DEF MindOf, Shows, Counts, Same, RowsOf
  <2> QED BY <1>1, <1>2, <1>3, <2>5, <2>6, OneMoves
<1> QED BY <1>1, <1>4, <1>5 DEF ClaimPlan, Withdraws

LEMMA CountsTyped ==
    /\ \A S : CutShort(S) \in Answer /\ (CutShort(S) = "failed" => S = {})
    /\ \A items : Resolved(items) \in {"pending", "approved"}
    /\ \A status \in {"pending", "approved"} :
          Left(status) \in PlanState /\ Left(status).status = status
  BY DEF CutShort, Answer, Resolved, Left, PlanState

LEMMA AbortKeepsInv ==
    ASSUME ApprovalInv, NEW a \in Approver, AbortApproval(a)
    PROVE  ApprovalInv'
<1>1. UNCHANGED <<item, past, planPost, planRow, unanswered>> /\ Withdraws(a)
  BY DEF AbortApproval, Withdraws
<1>2. Steps(a, approver') /\ MindOf(a)'
  BY <1>1, Withdrawal
<1>3. /\ plan \in PlanState /\ approval \in [Approver -> Answer]
      /\ plan.status = "approving" => plan.op \in Approver
  BY ApprovalFacts, ApprovalTypes DEF ClaimHasOwner
<1>4. CASE UNCHANGED <<plan, approval>>
  <2>1. \A b \in Approver \ {a} : HasPlan(b)' => HasPlan(b)
    BY <1>4 DEF HasPlan
  <2> QED BY <1>1, <1>2, <1>3, <1>4, <2>1, OneMoves
<1>5. CASE /\ plan' = Left(Resolved(item))
           /\ approval' = [approval EXCEPT ![a] = CutShort(Reported(a))]
  <2>1. plan' \in PlanState /\ plan'.status # "approving"
    BY <1>5, CountsTyped
  <2>2. \A b \in Approver \ {a} : ~HasPlan(b)'
    BY <2>1 DEF HasPlan
  <2>3. CutShort(Reported(a)) \in Answer /\ (CutShort(Reported(a)) = "failed" => RowsOf(a) = {})
    BY CountsTyped DEF Reported
  <2>4. /\ approval' \in [Approver -> Answer]
        /\ \A b \in Approver : approval'[b] = "failed" =>
                approval[b] = "failed" \/ RowsOf(b) \subseteq unanswered
    BY <1>3, <1>5, <2>3
  <2> QED BY <1>1, <1>2, <2>1, <2>2, <2>4, OneMoves
<1> QED BY <1>4, <1>5 DEF AbortApproval

(* A plan without a heartbeat is taken back, or soon will be.              *)
LEMMA LeaseKeepsInv ==
    ASSUME ApprovalInv, LeaseAges \/ Reclaim
    PROVE  ApprovalInv'
<1>1. /\ plan \in PlanState /\ approval \in [Approver -> Answer]
      /\ approver \in [Approver -> ApproverState]
      /\ plan.status = "approving" => plan.op \in Approver
      /\ past \subseteq PlanItem
  BY ApprovalFacts, ApprovalTypes DEF ClaimHasOwner
<1>2. CASE LeaseAges
  <2>1. UNCHANGED <<item, past, approval, planPost, planRow, approver, unanswered>>
    BY <1>2 DEF LeaseAges
  <2>2. plan' \in PlanState /\ plan'.status = plan.status /\ plan'.op = plan.op
    BY <1>1, <1>2 DEF LeaseAges, PlanState
  <2>3. ASSUME NEW b \in Approver
        PROVE  MindOf(b)'
    <3>1. Same(approver'[b], approver[b]) /\ RowsOf(b)' = RowsOf(b)
      BY <2>1 DEF Same, RowsOf
    <3>2. HasPlan(b)' => HasPlan(b)
      BY <2>2 DEF HasPlan
    <3> QED BY <2>1, <3>1, <3>2, SameMind
  <2> QED BY <1>1, <2>1, <2>2, <2>3, CalendarIsKept
<1>3. CASE Reclaim
  <2>1. /\ UNCHANGED <<item, past, planPost, planRow, unanswered>>
        /\ plan.op \in Approver /\ plan' = Left(Resolved(item)) /\ approver' = Revised(approver)
        /\ approval' = [approval EXCEPT ![plan.op] =
                            IF @ = "processing" THEN CutShort(RowsOf(plan.op)) ELSE @]
    BY <1>1, <1>3 DEF Reclaim
  <2>2. plan' \in PlanState /\ plan'.status # "approving"
    BY <2>1, CountsTyped
  <2>3. /\ approver' \in [Approver -> ApproverState]
        /\ \A b \in Approver : Same(approver'[b], approver[b])
    BY <1>1, <2>1, RevisedStates
  <2>4. ASSUME NEW b \in Approver
        PROVE  MindOf(b)'
    <3>1. ~HasPlan(b)' /\ RowsOf(b)' = RowsOf(b)
      BY <2>1, <2>2 DEF HasPlan, RowsOf
    <3> QED BY <2>1, <2>3, <3>1, SameMind
  <2> DEFINE cut == CutShort(RowsOf(plan.op))
  <2>5. cut \in Answer /\ (cut = "failed" => RowsOf(plan.op) = {})
    BY CountsTyped
  <2>6. approval' = [approval EXCEPT ![plan.op] =
                        IF approval[plan.op] = "processing" THEN cut ELSE approval[plan.op]]
    BY <1>1, <2>1
  <2> HIDE DEF cut
  <2>7. /\ approval' \in [Approver -> Answer]
        /\ \A b \in Approver : approval'[b] = "failed" =>
                approval[b] = "failed" \/ RowsOf(b) \subseteq unanswered
    BY <1>1, <2>1, <2>5, <2>6
  <2> QED BY <1>1, <2>1, <2>2, <2>3, <2>4, <2>7, CalendarIsKept
<1> QED BY <1>2, <1>3

LEMMA FailureKeepsInv ==
    ASSUME ApprovalInv, NEW a \in Approver, approver[a].at = "working", approver' = AsOf(a, "erring"),
           UNCHANGED <<plan, item, past, approval, planPost, planRow, unanswered>>
    PROVE  ApprovalInv'
<1>1. /\ Steps(a, approver') /\ approver'[a].at = "erring"
      /\ approver'[a].seen = approver[a].seen /\ approver'[a].copy = approver[a].copy
      /\ approver'[a].made = approver[a].made
  BY MovingSteps DEF AtStage
<1>2. MindOf(a)
  BY ApprovalFacts
<1>3. MindOf(a)'
  BY <1>1, <1>2 DEF MindOf, Shows, Knows, Counts, AtWork, RowsOf, HasPlan
<1>4. /\ plan \in PlanState /\ approval \in [Approver -> Answer]
      /\ plan.status = "approving" => plan.op \in Approver
  BY ApprovalFacts, ApprovalTypes DEF ClaimHasOwner
<1>5. \A b \in Approver \ {a} : HasPlan(b)' => HasPlan(b)
  BY DEF HasPlan
<1> QED
  BY <1>1, <1>3, <1>4, <1>5, OneMoves

LEMMA NextItemIsOne ==
    ASSUME ApprovalInv, NEW a \in Approver, ToSchedule(a) # {}
    PROVE  /\ NextItem(a) \in PlanItem
           /\ approver[a].copy[NextItem(a)].status = "pending" /\ ~approver[a].copy[NextItem(a)].post
<1>1. ToSchedule(a) \subseteq PlanItem /\ PlanItem \subseteq Nat
  BY ApprovalAssumption DEF ToSchedule, Actionable
<1>2. PICK m \in ToSchedule(a) : \A y \in ToSchedule(a) : m <= y
  <2>1. ToSchedule(a) \in SUBSET Nat
    BY <1>1
  <2> QED BY <2>1, LeastOfSet
<1>3. NextItem(a) \in ToSchedule(a)
  BY <1>2 DEF NextItem, Min
<1> QED
  BY <1>1, <1>3 DEF ToSchedule, Actionable

(* The commit of one post: of the text the confirmation saw, and counted    *)
(* or left to the exception.                                               *)
LEMMA ScheduleKeepsInv ==
    ASSUME ApprovalInv, NEW a \in Approver, ScheduleItem(a)
    PROVE  ApprovalInv'
<1> DEFINE i == NextItem(a)
<1>1. approver[a].at = "working" /\ UNCHANGED <<past, approval>>
  BY DEF ScheduleItem, ApproverAt
<1>2. CASE ~MaySchedule(a, i)
  <2>1. approver' = AsOf(a, "erring") /\ UNCHANGED <<plan, item, planPost, planRow, unanswered>>
    BY <1>2 DEF ScheduleItem
  <2> QED BY <1>1, <2>1, FailureKeepsInv
<1>3. CASE MaySchedule(a, i)
  <2>1. /\ i \in PlanItem
        /\ approver[a].copy[i].status = "pending" /\ ~approver[a].copy[i].post
    BY NextItemIsOne DEF ScheduleItem
  <2>2. /\ Scheduled(a, i)
        /\ \/ approver' = Revised(Acknowledged(a, i)) /\ UNCHANGED unanswered
           \/ approver' = Revised(AsOf(a, "erring")) /\ unanswered' = unanswered \cup {i}
    BY <1>3 DEF ScheduleItem
  <2> HIDE DEF i
  <2>3. HasPlan(a) /\ approval[a] = "processing"
    BY <1>3 DEF MaySchedule, Holds, HasPlan
  <2>4. MindOf(a) /\ Knows(approver[a])
    BY <1>1, <2>3, ApprovalFacts DEF MindOf, AtWork
  <2>5. /\ plan \in PlanState /\ item \in [PlanItem -> Item]
        /\ past \subseteq PlanItem /\ approval \in [Approver -> Answer]
        /\ planPost \in [PlanItem -> PostState]
        /\ planRow \in [PlanItem -> Approver \cup {NoApprover}] /\ unanswered \subseteq PlanItem
        /\ approver \in [Approver -> ApproverState] /\ approver[a] \in ApproverState
        /\ NoApprover \notin Approver
    BY ApprovalFacts, ApprovalTypes
  (* What the items and the calendar become. *)
  <2>6. /\ item' \in [PlanItem -> Item]
        /\ item'[i].post /\ item'[i].status = "approved" /\ item'[i].text = item[i].text
        /\ \A j \in PlanItem \ {i} : item'[j] = item[j]
    <3> DEFINE new == [item[i] EXCEPT !.post = TRUE, !.status = "approved"]
    <3>1. new \in Item /\ new.post /\ new.status = "approved" /\ new.text = item[i].text
      BY <2>1, <2>5 DEF Item
    <3>2. item' = [item EXCEPT ![i] = new]
      BY <2>2 DEF Scheduled
    <3> HIDE DEF new
    <3> QED BY <2>1, <2>5, <3>1, <3>2
  <2>7. /\ plan' \in PlanState /\ plan'.status = plan.status /\ plan'.op = plan.op
    BY <2>2, <2>5 DEF Scheduled, PlanState
  <2>8. i \notin unanswered => planRow[i] = NoApprover
    <3>1. i \notin unanswered => item[i].status # "approved"
      BY <2>1, <2>4 DEF Knows
    <3> QED BY <2>1, <3>1 DEF ApprovalInv, PlanMatchesCalendar
  <2>9. /\ planRow' \in [PlanItem -> Approver \cup {NoApprover}]
        /\ planPost' \in [PlanItem -> PostState]
        /\ planRow'[i] # NoApprover /\ (planRow[i] = NoApprover => planRow'[i] = a)
        /\ planRow[i] # NoApprover => planRow'[i] = planRow[i]
        /\ \A j \in PlanItem \ {i} : planRow'[j] = planRow[j]
        /\ \A j \in PlanItem : planPost'[j].asSeen
    <3>1. \A j \in PlanItem : planPost[j].asSeen
      BY DEF ApprovalInv, ScheduledAsSeen
    <3>2. item[i].text = approver[a].seen[i]
      BY <2>1, <2>4 DEF Knows
    <3> DEFINE new == [status |-> "scheduled", asSeen |-> item[i].text = approver[a].seen[i]]
    <3>3. new \in PostState /\ new.asSeen
      BY <3>2 DEF PostState
    <3>4. CASE planRow[i] # NoApprover
      BY <2>2, <2>5, <3>1, <3>4 DEF Scheduled
    <3>5. CASE planRow[i] = NoApprover
      <4>1. planPost' = [planPost EXCEPT ![i] = new] /\ planRow' = [planRow EXCEPT ![i] = a]
        BY <2>2, <3>5 DEF Scheduled
      <4> HIDE DEF new
      <4> QED BY <2>1, <2>5, <3>1, <3>3, <3>5, <4>1
    <3> QED BY <3>4, <3>5
  <2>10. /\ RowsOf(a)' \subseteq RowsOf(a) \cup {i}
         /\ \A b \in Approver \ {a} : RowsOf(b)' = RowsOf(b)
    BY <2>1, <2>5, <2>9 DEF RowsOf
  <2>11. unanswered \subseteq unanswered' /\ unanswered' \subseteq unanswered \cup {i}
         /\ unanswered' \subseteq PlanItem
    BY <2>1, <2>2, <2>5
  (* What the confirmation knows. *)
  <2>12. /\ Steps(a, approver') /\ approver'[a].current = FALSE
         /\ MindOf(a)'
         /\ \A b \in Approver : approver'[b].current = FALSE
    <3>1. CASE approver' = Revised(Acknowledged(a, i)) /\ UNCHANGED unanswered
      <4> DEFINE new == [approver[a] EXCEPT !.copy[i].post = TRUE, !.copy[i].status = "approved",
                                            !.made = @ \cup {i}]
      <4>1. approver[a].copy \in [PlanItem -> Item] /\ approver[a].made \subseteq PlanItem
        BY <2>5 DEF ApproverState
      <4>2. Acknowledged(a, i) = [approver EXCEPT ![a] = new]
        BY DEF Acknowledged
      <4>3. /\ new.at = "working" /\ new.seen = approver[a].seen /\ new.kind = approver[a].kind
            /\ new.current = approver[a].current /\ new.made = approver[a].made \cup {i}
            /\ new.copy[i].post /\ new.copy[i].status = "approved"
            /\ new.copy[i].text = approver[a].copy[i].text
            /\ \A j \in PlanItem \ {i} : new.copy[j] = approver[a].copy[j]
        BY <1>1, <2>1, <2>5, <4>1 DEF ApproverState, Item
      <4>4. new \in ApproverState
        <5> DEFINE first == [approver[a] EXCEPT !.copy[i].post = TRUE]
                   second == [first EXCEPT !.copy[i].status = "approved"]
        <5>1. first \in ApproverState
          <6>1. [approver[a].copy EXCEPT ![i].post = TRUE] \in [PlanItem -> Item]
            BY <2>1, <4>1 DEF Item
          <6> QED BY <2>5, <6>1 DEF ApproverState
        <5>2. second \in ApproverState
          <6> HIDE DEF first
          <6>1. [first.copy EXCEPT ![i].status = "approved"] \in [PlanItem -> Item]
            BY <2>1, <5>1 DEF ApproverState, Item
          <6> QED BY <5>1, <6>1 DEF ApproverState
        <5>3. approver[a].made \cup {i} \in SUBSET PlanItem
          BY <2>1, <4>1
        <5>4. new = [second EXCEPT !.made = approver[a].made \cup {i}]
          OBVIOUS
        <5> HIDE DEF second, new
        <5> QED BY <5>2, <5>3, <5>4 DEF ApproverState
      <4> HIDE DEF new
      <4>5. Steps(a, Acknowledged(a, i)) /\ Acknowledged(a, i)[a] = new
        <5>1. \A b \in Approver : Same(approver[b], approver[b])
          BY DEF Same
        <5> QED BY <2>5, <4>2, <4>4, <5>1 DEF Steps
      <4>6. /\ Steps(a, approver') /\ Same(approver'[a], new)
            /\ \A b \in Approver : approver'[b].current = FALSE
        BY <3>1, <4>5, RevisedSteps
      <4>7. Knows(approver[a])'
        <5>1. SUFFICES ASSUME NEW j \in PlanItem
                       PROVE  /\ new.seen[j] = item'[j].text /\ new.copy[j].text = item'[j].text
                              /\ j \notin unanswered =>
                                    /\ new.copy[j].status = "approved" <=> item'[j].status = "approved"
                                    /\ new.copy[j].post = item'[j].post
          BY <3>1, <4>6 DEF Knows, Same
        <5>2. CASE j = i
          BY <2>1, <2>4, <2>6, <4>3, <5>2 DEF Knows
        <5>3. CASE j # i
          BY <2>4, <2>6, <4>3, <5>3 DEF Knows
        <5> QED BY <5>2, <5>3
      <4>8. RowsOf(a)' \subseteq unanswered' \cup approver'[a].made
        BY <1>1, <2>4, <2>10, <3>1, <4>3, <4>6 DEF MindOf, Counts, AtWork, Same
      <4> QED BY <4>3, <4>6, <4>7, <4>8 DEF MindOf, Shows, Counts, Same
    <3>2. CASE approver' = Revised(AsOf(a, "erring")) /\ unanswered' = unanswered \cup {i}
      <4>1. /\ Steps(a, AsOf(a, "erring")) /\ AsOf(a, "erring")[a].at = "erring"
            /\ AsOf(a, "erring")[a].seen = approver[a].seen
            /\ AsOf(a, "erring")[a].copy = approver[a].copy
            /\ AsOf(a, "erring")[a].made = approver[a].made
        BY MovingSteps DEF AtStage
      <4>2. /\ Steps(a, approver') /\ approver'[a].at = "erring"
            /\ approver'[a].seen = approver[a].seen /\ approver'[a].copy = approver[a].copy
            /\ approver'[a].made = approver[a].made
            /\ \A b \in Approver : approver'[b].current = FALSE
        <5>1. /\ Steps(a, approver') /\ Same(approver'[a], AsOf(a, "erring")[a])
              /\ \A b \in Approver : approver'[b].current = FALSE
          BY <3>2, <4>1, RevisedSteps
        <5> QED BY <4>1, <5>1 DEF Same
      <4>3. Knows(approver[a])'
        BY <2>1, <2>4, <2>6, <3>2, <4>2 DEF Knows
      <4>4. RowsOf(a)' \subseteq unanswered' \cup approver'[a].made
        BY <1>1, <2>4, <2>10, <3>2, <4>2 DEF MindOf, Counts, AtWork
      <4> QED BY <4>2, <4>3, <4>4 DEF MindOf, Shows, Counts
    <3> QED BY <2>2, <3>1, <3>2
  <2>13. ASSUME NEW b \in Approver \ {a}
         PROVE  MindOf(b)'
    <3>1. ~HasPlan(b)'
      BY <2>3, <2>7 DEF HasPlan
    <3> QED BY <2>10, <2>11, <2>12, <3>1, SameMind DEF Steps
  <2>14. ApprovalTypeOK'
    BY <1>1, <2>5, <2>6, <2>7, <2>9, <2>11, <2>12, ApprovalTyping DEF Steps
  <2>15. ClaimHasOwner'
    BY <2>3, <2>7 DEF ClaimHasOwner, HasPlan
  <2>16. PreviewIsCurrent' /\ HolderKnowsPlan' /\ RowsAreCounted'
    BY <2>12, <2>13 DEF MindOf, PreviewIsCurrent, HolderKnowsPlan, RowsAreCounted
  <2>17. ApprovedHasPost'
    BY <2>6, <2>11 DEF ApprovalInv, ApprovedHasPost
  <2>18. ScheduledAsSeen'
    BY <2>9 DEF ScheduledAsSeen
  <2>19. PlanMatchesCalendar'
    <3>1. PlanMatchesCalendar
      BY DEF ApprovalInv
    <3>2. \A j \in PlanItem \ unanswered' : item'[j].status = "approved" <=> planRow'[j] # NoApprover
      BY <2>6, <2>9, <2>11, <3>1 DEF PlanMatchesCalendar
    <3>3. \A b \in Approver : approval'[b] = "failed" => RowsOf(b)' \subseteq unanswered'
      BY <1>1, <2>3, <2>10, <2>11, <3>1 DEF PlanMatchesCalendar
    <3> QED BY <3>2, <3>3 DEF PlanMatchesCalendar
  <2> QED BY <2>14, <2>15, <2>16, <2>17, <2>18, <2>19 DEF ApprovalInv
<1> QED BY <1>2, <1>3

(* The close gives the plan the copy, which differs from it in nothing the  *)
(* promises are about but the lost answers.                                *)
LEMMA FinalizeKeepsInv ==
    ASSUME ApprovalInv, NEW a \in Approver, NEW planStatus \in {"pending", "approved"},
           NEW status \in Answer, Finalize(a, planStatus, status), approver[a].at \in AtWork,
           status = "failed" => approver[a].made = {},
           UNCHANGED <<past, planPost, planRow, unanswered>>
    PROVE  ApprovalInv'
<1>1. /\ HasPlan(a) /\ item' = approver[a].copy /\ plan' = Left(planStatus)
      /\ approval' = [approval EXCEPT ![a] = status]
      /\ approver' \in {Revised(Ended(a)), Revised(Aborting(a))}
  BY DEF Finalize, Holds, HasPlan
<1>2. /\ approval \in [Approver -> Answer] /\ past \subseteq PlanItem
      /\ planPost \in [PlanItem -> PostState]
      /\ planRow \in [PlanItem -> Approver \cup {NoApprover}] /\ unanswered \subseteq PlanItem
      /\ approver[a] \in ApproverState
  BY ApprovalFacts, ApprovalTypes
<1>3. MindOf(a) /\ Knows(approver[a])
  BY <1>1, ApprovalFacts DEF MindOf
<1>4. item' \in [PlanItem -> Item] /\ approval' \in [Approver -> Answer]
  BY <1>1, <1>2 DEF ApproverState
<1>5. plan' \in PlanState /\ plan'.status # "approving"
  BY <1>1, CountsTyped
<1>6. /\ Steps(a, approver') /\ MindOf(a)'
      /\ \A b \in Approver : approver'[b].current = FALSE
  <2>1. Withdraws(a)
    BY <1>1 DEF Withdraws
  <2>2. Steps(a, Ended(a)) /\ Steps(a, Aborting(a))
    BY LeavingSteps
  <2>3. \A b \in Approver : approver'[b].current = FALSE
    BY <1>1, <2>2, RevisedSteps
  <2> QED BY <2>1, <2>3, Withdrawal
<1>7. ASSUME NEW b \in Approver \ {a}
      PROVE  MindOf(b)'
  <2>1. Same(approver'[b], approver[b]) /\ RowsOf(b)' = RowsOf(b)
    BY <1>6 DEF Steps, RowsOf
  <2>2. ~HasPlan(b)'
    BY <1>5 DEF HasPlan
  <2> QED BY <1>6, <2>1, <2>2, SameMind
<1>8. ApprovalTypeOK'
  BY <1>2, <1>4, <1>5, <1>6, ApprovalTyping DEF Steps
<1>9. ClaimHasOwner'
  BY <1>5 DEF ClaimHasOwner
<1>10. PreviewIsCurrent' /\ HolderKnowsPlan' /\ RowsAreCounted'
  BY <1>6, <1>7 DEF MindOf, PreviewIsCurrent, HolderKnowsPlan, RowsAreCounted
<1>11. ApprovedHasPost'
  <2>1. ApprovedHasPost
    BY DEF ApprovalInv
  <2> QED BY <1>1, <1>3, <2>1 DEF ApprovedHasPost, Knows
<1>12. ScheduledAsSeen'
  BY DEF ApprovalInv, ScheduledAsSeen
<1>13. PlanMatchesCalendar'
  <2>1. PlanMatchesCalendar
    BY DEF ApprovalInv
  <2>2. \A i \in PlanItem \ unanswered' : item'[i].status = "approved" <=> planRow'[i] # NoApprover
    BY <1>1, <1>3, <2>1 DEF PlanMatchesCalendar, Knows
  <2>3. \A b \in Approver : approval'[b] = "failed" => RowsOf(b)' \subseteq unanswered'
    <3>1. approver[a].made = {} => RowsOf(a) \subseteq unanswered
      BY <1>3 DEF MindOf, Counts
    <3>2. \A b \in Approver : RowsOf(b)' = RowsOf(b)
      BY DEF RowsOf
    <3> QED BY <1>1, <1>2, <2>1, <3>1, <3>2 DEF PlanMatchesCalendar
  <2> QED BY <2>2, <2>3 DEF PlanMatchesCalendar
<1> QED
  BY <1>8, <1>9, <1>10, <1>11, <1>12, <1>13 DEF ApprovalInv

LEMMA FinishKeepsInv ==
    ASSUME ApprovalInv, NEW a \in Approver, FinishPlan(a) \/ FinishFailed(a)
    PROVE  ApprovalInv'
<1>1. UNCHANGED <<past, planPost, planRow, unanswered>>
  BY DEF FinishPlan, FinishFailed
<1>2. CASE FinishPlan(a)
  <2>1. /\ Finalize(a, Resolved(approver[a].copy), "completed") /\ approver[a].at \in AtWork
        /\ Resolved(approver[a].copy) \in {"pending", "approved"} /\ "completed" \in Answer
    BY <1>2, CountsTyped DEF FinishPlan, ApproverAt, AtWork, Answer
  <2> QED BY <1>1, <2>1, FinalizeKeepsInv
<1>3. CASE FinishFailed(a)
  <2> DEFINE status == CutShort(approver[a].made)
  <2>1. /\ Finalize(a, "pending", status) /\ approver[a].at \in AtWork
        /\ status \in Answer /\ (status = "failed" => approver[a].made = {})
    BY <1>3, CountsTyped DEF FinishFailed, ApproverAt, AtWork
  <2> HIDE DEF status
  <2> QED BY <1>1, <2>1, FinalizeKeepsInv
<1> QED BY <1>2, <1>3

-----------------------------------------------------------------------------
(* A person changes an item: nobody has the plan, and every preview is      *)
(* stale afterwards.                                                       *)
LEMMA ChangeKeepsInv ==
    ASSUME ApprovalInv, NEW i \in PlanItem,
           NEW status \in {"pending", "rejected"}, NEW text \in Version,
           ItemsChange(i, status, text), past' \subseteq PlanItem,
           \/ UNCHANGED <<planPost, planRow>> /\ (i \notin unanswered => planRow[i] = NoApprover)
           \/ /\ planPost' = [planPost EXCEPT ![i] = NoPost]
              /\ planRow' = [planRow EXCEPT ![i] = NoApprover]
    PROVE  ApprovalInv'
<1>1. /\ plan.status \in {"pending", "approved"}
      /\ item' = [item EXCEPT ![i].status = status, ![i].text = text]
      /\ approver' = Revised(approver) /\ UNCHANGED <<plan, approval, unanswered>>
  BY DEF ItemsChange
<1>2. /\ plan \in PlanState /\ item \in [PlanItem -> Item]
      /\ approval \in [Approver -> Answer] /\ planPost \in [PlanItem -> PostState]
      /\ planRow \in [PlanItem -> Approver \cup {NoApprover}] /\ unanswered \subseteq PlanItem
      /\ approver \in [Approver -> ApproverState] /\ NoApprover \notin Approver
  BY ApprovalFacts, ApprovalTypes
<1>3. /\ item' \in [PlanItem -> Item] /\ item'[i].status = status
      /\ \A j \in PlanItem \ {i} : item'[j] = item[j]
  <2> DEFINE first == [item EXCEPT ![i].status = status]
  <2>1. /\ first \in [PlanItem -> Item] /\ first[i].status = status
        /\ \A j \in PlanItem \ {i} : first[j] = item[j]
    BY <1>2 DEF Item
  <2>2. item' = [first EXCEPT ![i].text = text]
    BY <1>1
  <2> HIDE DEF first
  <2> QED BY <2>1, <2>2 DEF Item
<1>4. /\ approver' \in [Approver -> ApproverState]
      /\ \A b \in Approver : Same(approver'[b], approver[b]) /\ approver'[b].current = FALSE
  BY <1>1, <1>2, RevisedStates
<1>5. NoPost \in PostState /\ NoPost.asSeen
  BY DEF NoPost, PostState
<1>6. /\ planRow' \in [PlanItem -> Approver \cup {NoApprover}] /\ planPost' \in [PlanItem -> PostState]
      /\ i \notin unanswered => planRow'[i] = NoApprover
      /\ \A j \in PlanItem : planRow'[j] # NoApprover => planRow'[j] = planRow[j]
      /\ \A j \in PlanItem \ {i} : planRow'[j] = planRow[j]
      /\ \A j \in PlanItem : planPost'[j] = planPost[j] \/ planPost'[j].asSeen
  BY <1>2, <1>5
<1>7. \A b \in Approver : RowsOf(b)' \subseteq RowsOf(b)
  BY <1>2, <1>6 DEF RowsOf
<1>8. ASSUME NEW b \in Approver
      PROVE  MindOf(b)'
  <2>1. ~HasPlan(b)'
    BY <1>1 DEF HasPlan
  <2> QED BY <1>1, <1>4, <1>7, <2>1, SameMind
<1>9. ApprovalTypeOK'
  BY <1>1, <1>2, <1>3, <1>4, <1>6, ApprovalTyping
<1>10. ClaimHasOwner'
  BY <1>1 DEF ClaimHasOwner
<1>11. PreviewIsCurrent' /\ HolderKnowsPlan' /\ RowsAreCounted'
  BY <1>8 DEF MindOf, PreviewIsCurrent, HolderKnowsPlan, RowsAreCounted
<1>12. ApprovedHasPost'
  <2>1. ApprovedHasPost
    BY DEF ApprovalInv
  <2> QED BY <1>1, <1>3, <2>1 DEF ApprovedHasPost
<1>13. ScheduledAsSeen'
  BY <1>6 DEF ApprovalInv, ScheduledAsSeen
<1>14. PlanMatchesCalendar'
  <2>1. PlanMatchesCalendar
    BY DEF ApprovalInv
  <2> QED BY <1>1, <1>3, <1>6, <1>7, <2>1 DEF PlanMatchesCalendar
<1> QED
  BY <1>9, <1>10, <1>11, <1>12, <1>13, <1>14 DEF ApprovalInv

LEMMA ItemKeepsInv ==
    ASSUME ApprovalInv, NEW i \in PlanItem, ItemStep(i)
    PROVE  ApprovalInv'
<1>1. /\ item \in [PlanItem -> Item] /\ past \subseteq PlanItem /\ planPost \in [PlanItem -> PostState]
      /\ plan \in PlanState /\ approval \in [Approver -> Answer]
      /\ approver \in [Approver -> ApproverState] /\ ClaimHasOwner
  BY ApprovalFacts, ApprovalTypes
<1>2. i \notin unanswered /\ item[i].status # "approved" => planRow[i] = NoApprover
  BY DEF ApprovalInv, PlanMatchesCalendar
<1>3. i \notin unanswered /\ ~item[i].post => item[i].status # "approved"
  BY DEF ApprovalInv, ApprovedHasPost
<1>4. item[i].text \in Version
  BY <1>1 DEF Item
<1>5. CASE EditItem(i)
  <2>1. PICK text \in Version : ItemsChange(i, "pending", text)
    BY <1>5 DEF EditItem
  <2> QED BY <1>1, <1>2, <1>5, <2>1, ChangeKeepsInv DEF EditItem
<1>6. CASE MoveItem(i)
  <2>1. past' \subseteq PlanItem
    BY <1>1, <1>6 DEF MoveItem
  <2> QED BY <1>2, <1>4, <1>6, <2>1, ChangeKeepsInv DEF MoveItem
<1>7. CASE RejectItem(i)
  <2>1. past' \subseteq PlanItem /\ ItemsChange(i, "rejected", item[i].text)
    BY <1>1, <1>7 DEF RejectItem
  <2>2. \/ UNCHANGED <<planPost, planRow>> /\ (i \notin unanswered => planRow[i] = NoApprover)
        \/ /\ planPost' = [planPost EXCEPT ![i] = NoPost]
           /\ planRow' = [planRow EXCEPT ![i] = NoApprover]
    BY <1>2, <1>3, <1>7 DEF RejectItem
  <2> QED BY <1>4, <2>1, <2>2, ChangeKeepsInv
<1>8. CASE HourComes(i)
  <2>1. /\ UNCHANGED <<plan, item, approval, planPost, planRow, approver, unanswered>>
        /\ past' \subseteq PlanItem
    BY <1>1, <1>8 DEF HourComes
  <2>2. \A b \in Approver : MindOf(b)
    BY ApprovalFacts
  <2>3. \A b \in Approver : MindOf(b)'
    BY <2>1, <2>2 DEF MindOf, Shows, Knows, Counts, HasPlan, RowsOf
  <2> QED BY <1>1, <2>1, <2>3, CalendarIsKept DEF ClaimHasOwner
<1>9. CASE PublishPost(i)
  <2>1. /\ UNCHANGED <<plan, item, approval, planRow, approver, unanswered>>
        /\ planPost' = [planPost EXCEPT ![i].status = "published"] /\ past' \subseteq PlanItem
    BY <1>1, <1>9 DEF PublishPost
  <2>2. /\ planPost' \in [PlanItem -> PostState]
        /\ \A j \in PlanItem : planPost'[j].asSeen = planPost[j].asSeen
    BY <1>1, <2>1 DEF PostState
  <2>3. ApprovalTypeOK'
    BY <1>1, <2>1, <2>2, ApprovalFacts, ApprovalTypes, ApprovalTyping
  <2>4. /\ ClaimHasOwner' /\ PreviewIsCurrent' /\ HolderKnowsPlan' /\ RowsAreCounted'
        /\ ApprovedHasPost' /\ PlanMatchesCalendar'
    BY <2>1 DEF ApprovalInv, ClaimHasOwner, PreviewIsCurrent, Shows, HolderKnowsPlan, HasPlan, Knows,
                RowsAreCounted, Counts, RowsOf, ApprovedHasPost, PlanMatchesCalendar
  <2>5. ScheduledAsSeen'
    BY <2>2 DEF ApprovalInv, ScheduledAsSeen
  <2> QED BY <2>3, <2>4, <2>5 DEF ApprovalInv
<1> QED BY <1>5, <1>6, <1>7, <1>8, <1>9 DEF ItemStep

-----------------------------------------------------------------------------
LEMMA ApprovalStep ==
    ASSUME ApprovalInv, ApprovalNext
    PROVE  ApprovalInv'
<1>1. ASSUME NEW a \in Approver, ApproverStep(a)
      PROVE  ApprovalInv'
  <2>1. CASE ScheduleFails(a)
    BY <2>1, FailureKeepsInv DEF ScheduleFails, ApproverAt
  <2> QED
    BY <1>1, <2>1, PreviewKeepsInv, ConfirmKeepsInv, ClaimKeepsInv, LeavingKeepsInv, ScheduleKeepsInv,
       FinishKeepsInv, AbortKeepsInv DEF ApproverStep
<1> QED
  BY <1>1, ItemKeepsInv, LeaseKeepsInv DEF ApprovalNext

LEMMA ApprovalStart == ApprovalInit => ApprovalInv
<1> SUFFICES ASSUME ApprovalInit PROVE ApprovalInv
  OBVIOUS
<1>1. NoPost \in PostState /\ NoPost.asSeen
  BY DEF NoPost, PostState
<1>2. /\ plan \in PlanState /\ plan.status = "pending"
      /\ approval \in [Approver -> Answer] /\ planPost \in [PlanItem -> PostState]
      /\ planRow \in [PlanItem -> Approver \cup {NoApprover}]
      /\ item \in [PlanItem -> Item] /\ approver \in [Approver -> ApproverState]
      /\ past = {} /\ unanswered = {}
  BY <1>1, UnusedIsState DEF ApprovalInit, PlanState, Answer
<1>3. ApprovalTypeOK
  BY <1>2 DEF ApprovalTypeOK, PlanState, PostState, Answer, ApproverState, AtStage
<1>4. /\ \A a \in Approver : RowsOf(a) = {} /\ approval[a] = "none"
      /\ \A a \in Approver : approver[a].at = "idle"
      /\ \A i \in PlanItem : item[i].status = "pending" /\ planRow[i] = NoApprover
  BY UnusedIsState, ApprovalAssumption DEF ApprovalInit, RowsOf
<1>5. ClaimHasOwner /\ HolderKnowsPlan
  BY <1>2 DEF ClaimHasOwner, HolderKnowsPlan, HasPlan
<1>6. PreviewIsCurrent /\ RowsAreCounted
  BY <1>4 DEF PreviewIsCurrent, Shows, RowsAreCounted, Counts
<1>7. ApprovedHasPost /\ PlanMatchesCalendar
  BY <1>4 DEF ApprovedHasPost, PlanMatchesCalendar
<1>8. ScheduledAsSeen
  BY <1>1 DEF ApprovalInit, ScheduledAsSeen
<1> QED
  BY <1>3, <1>5, <1>6, <1>7, <1>8 DEF ApprovalInv

LEMMA ApprovalStutter ==
    ASSUME ApprovalInv, UNCHANGED approvalVars
    PROVE  ApprovalInv'
  BY DEF ApprovalInv, approvalVars, ApprovalTypeOK, ClaimHasOwner, PreviewIsCurrent, Shows,
         HolderKnowsPlan, HasPlan, Knows, RowsAreCounted, Counts, RowsOf, ApprovedHasPost,
         ScheduledAsSeen, PlanMatchesCalendar

(* The invariant of a plan's confirmation, for any number of items and of   *)
(* confirmations: who has the plan works on the texts it saw, on a copy     *)
(* that only lacks the lost answers, and counts what it scheduled.         *)
THEOREM ApprovalInvariance == ApprovalSpec => []ApprovalInv
<1>1. ApprovalInv /\ [ApprovalNext]_approvalVars => ApprovalInv'
  BY ApprovalStep, ApprovalStutter
<1> QED
  BY ApprovalStart, <1>1, PTL DEF ApprovalSpec

(* The plan, its items, operations and rows keep their types.               *)
THEOREM ApprovalTypesHold == ApprovalSpec => []ApprovalTypeOK
<1>1. ApprovalInv => ApprovalTypeOK
  BY DEF ApprovalInv
<1> QED
  BY ApprovalInvariance, <1>1, PTL

(* No post of a plan has another text than the one that was previewed.      *)
THEOREM PlanIsScheduledAsSeen == ApprovalSpec => []ScheduledAsSeen
<1>1. ApprovalInv => ScheduledAsSeen
  BY DEF ApprovalInv
<1> QED
  BY ApprovalInvariance, <1>1, PTL

(* The plan and the calendar name the same posts, but for a commit that was *)
(* reported as an error.                                                   *)
THEOREM CalendarIsAsPlanned == ApprovalSpec => []PlanMatchesCalendar
<1>1. ApprovalInv => PlanMatchesCalendar
  BY DEF ApprovalInv
<1> QED
  BY ApprovalInvariance, <1>1, PTL
=============================================================================
