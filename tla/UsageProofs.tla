---------------------------- MODULE UsageProofs ----------------------------
(* Proofs, for any number of keys, handlers and workers and any limit, of  *)
(* what AiUsage and MediaGeneration promise about paid generations.        *)
(*                                                                        *)
(* The ledger.                                                             *)
(* Each step of the ledger sweeps what has lapsed and then changes one row *)
(* at most, so one lemma (RowMoves) says what such a step has to respect:  *)
(* a row that begins to count needs room, a task is charged with its       *)
(* reply, and a row of the web has a result only beside its artifact       *)
(* (ResultHasArtifact).  From the last follow the action properties: with  *)
(* an artifact there, no generation begins anew, and while a generation    *)
(* runs there is no result for anybody to charge or to give back.          *)
(*                                                                        *)
(* The image or video.  A claim may take the row from a worker that is     *)
(* still at work, so what keeps two workers from asking the provider at     *)
(* once is not the lease alone: a row whose submission began is taken up    *)
(* again only with its job, so from the call on nobody else owns the row as *)
(* one who may call (CreationIsSole); the worker that claims it meanwhile   *)
(* is turned away.                                                         *)
EXTENDS AiUsage, MediaGeneration, FiniteSetTheorems, TLAPS

Artifact == {"pending_ack", "acknowledged"}

(* A handler that has begun has a key, in the steps of the web one of the  *)
(* web.                                                                    *)
KeysAreKnown ==
    \A a \in Attempt :
        /\ attempt[a].pc # "idle" => attempt[a].key \in UsageKey
        /\ attempt[a].pc \in {"recovering", "looked", "acquired", "staged", "failing"} =>
              attempt[a].key \in WebKey

ResultHasArtifact == \A k \in WebKey : usage[k].result => generation[k].status \in Artifact

(* The reservations of the web are not renewed.                            *)
WebIsNotRenewed == \A k \in WebKey : usage[k].lease # "recent"

UsageInv ==
    /\ UsageTypeOK
    /\ KeysAreKnown
    /\ ResultHasArtifact
    /\ WebIsNotRenewed
    /\ ReplyIsCharged
    /\ LimitHolds

-----------------------------------------------------------------------------
LEMMA RowsTyped ==
    ASSUME UsageInv
    PROVE  /\ usage \in [UsageKey -> UsageRow] /\ generation \in [WebKey -> GenerationRow]
           /\ attempt \in [Attempt -> AttemptState] /\ reply \subseteq TaskKey
           /\ told \subseteq WebKey /\ late \subseteq WebKey
           /\ WebKey \subseteq UsageKey /\ TaskKey \subseteq UsageKey /\ WebKey \cap TaskKey = {}
BY UsageAssumption DEF UsageInv, UsageTypeOK, UsageKey

(* The sweep takes no place and frees none.                                *)
LEMMA SweepCountsNothing ==
    ASSUME UsageInv
    PROVE  /\ Swept(usage) \in [UsageKey -> UsageRow]
           /\ \A k \in UsageKey :
                 /\ Counts(Swept(usage)[k]) = Counts(usage[k])
                 /\ Swept(usage)[k].result = usage[k].result
                 /\ Swept(usage)[k].lease = usage[k].lease
                 /\ (Swept(usage)[k].status = "committed") = (usage[k].status = "committed")
                 /\ ~Lapsed(usage[k]) => Swept(usage)[k] = usage[k]
                 /\ Swept(usage)[k].status = "reserved" => Fresh(usage[k])
<1>1. usage \in [UsageKey -> UsageRow]
  BY RowsTyped
<1>2. \A k \in UsageKey : [usage[k] EXCEPT !.status = "expired"] \in UsageRow
  BY <1>1 DEF UsageRow
<1>3. Swept(usage) \in [UsageKey -> UsageRow]
  BY <1>1, <1>2 DEF Swept
<1>4. ASSUME NEW k \in UsageKey
      PROVE  /\ Counts(Swept(usage)[k]) = Counts(usage[k])
             /\ Swept(usage)[k].result = usage[k].result
             /\ Swept(usage)[k].lease = usage[k].lease
             /\ (Swept(usage)[k].status = "committed") = (usage[k].status = "committed")
             /\ ~Lapsed(usage[k]) => Swept(usage)[k] = usage[k]
             /\ Swept(usage)[k].status = "reserved" => Fresh(usage[k])
  <2> DEFINE expired == [usage[k] EXCEPT !.status = "expired"]
  <2>1. expired.status = "expired" /\ expired.result = usage[k].result /\ expired.lease = usage[k].lease
    BY <1>1 DEF UsageRow
  <2>2. Swept(usage)[k] = IF Lapsed(usage[k]) THEN expired ELSE usage[k]
    BY DEF Swept
  <2> HIDE DEF expired
  <2> QED BY <2>1, <2>2 DEF Counts, Fresh, Lapsed
<1> QED BY <1>3, <1>4

LEMMA HeldIsFinite ==
    ASSUME NEW S, S \subseteq UsageKey
    PROVE  IsFiniteSet(S) /\ Cardinality(S) \in Nat
BY UsageAssumption, FS_Subset, FS_CardinalityType

(* What a step that changes the row of k has to respect.                   *)
LEMMA RowMoves ==
    ASSUME UsageInv, NEW k \in UsageKey, NEW rows \in {usage, Swept(usage)}, NEW row \in UsageRow,
           usage' = [rows EXCEPT ![k] = row],
           generation' \in [WebKey -> GenerationRow],
           attempt' \in [Attempt -> AttemptState], KeysAreKnown',
           told' \subseteq WebKey, late' \subseteq WebKey, late \subseteq late',
           reply' \subseteq TaskKey, reply' \ {k} = reply \ {k},
           \A j \in WebKey : generation[j].status \in Artifact => generation'[j].status \in Artifact,
           k \in WebKey /\ row.result => generation'[k].status \in Artifact,
           k \in WebKey => row.lease # "recent",
           k \in TaskKey => (k \in reply' <=> row.status = "committed"),
           Counts(row) => Counts(usage[k]) \/ Room(k) \/ k \in late'
    PROVE  UsageInv'
<1>1. /\ rows \in [UsageKey -> UsageRow]
      /\ \A j \in UsageKey :
            /\ Counts(rows[j]) = Counts(usage[j])
            /\ rows[j].result = usage[j].result /\ rows[j].lease = usage[j].lease
            /\ (rows[j].status = "committed") = (usage[j].status = "committed")
  BY RowsTyped, SweepCountsNothing
<1>2. usage'[k] = row /\ \A j \in UsageKey \ {k} : usage'[j] = rows[j]
  BY <1>1
<1>3. UsageTypeOK'
  BY <1>1 DEF UsageTypeOK
<1>4. ResultHasArtifact' /\ WebIsNotRenewed'
  BY <1>1, <1>2, RowsTyped DEF UsageInv, ResultHasArtifact, WebIsNotRenewed
<1>5. ReplyIsCharged'
  BY <1>1, <1>2, RowsTyped DEF UsageInv, ReplyIsCharged
<1>6. LimitHolds'
  <2> DEFINE held == {j \in UsageKey : Counts(usage[j])} \ late
  <2> DEFINE next == {j \in UsageKey : Counts(usage'[j])} \ late'
  <2> DEFINE others == {j \in UsageKey \ {k} : Counts(usage[j])}
  <2>1. IsFiniteSet(held) /\ IsFiniteSet(others) /\ Cardinality(held) <= DailyLimit
    BY HeldIsFinite DEF UsageInv, LimitHolds
  <2>2. \A j \in UsageKey \ {k} : j \in next => j \in held /\ j \in others
    BY <1>1, <1>2
  <2>3. CASE k \notin next \/ Counts(usage[k])
    <3>1. next \subseteq held
      BY <2>2, <2>3
    <3> QED BY <2>1, <3>1, FS_Subset, HeldIsFinite, UsageAssumption DEF LimitHolds
  <2>4. CASE k \in next /\ ~Counts(usage[k])
    <3>1. Room(k)
      BY <1>2, <2>4
    <3>2. Cardinality(others) < DailyLimit
      BY <3>1 DEF Room
    <3>3. next \subseteq others \cup {k}
      BY <2>2
    <3>4. IsFiniteSet(others \cup {k}) /\ Cardinality(others \cup {k}) = Cardinality(others) + 1
      BY <2>1, FS_AddElement
    <3>5. Cardinality(next) <= Cardinality(others \cup {k})
      BY <3>3, <3>4, FS_Subset
    <3> HIDE DEF next, others
    <3>6. Cardinality(next) \in Nat /\ Cardinality(others) \in Nat /\ DailyLimit \in Nat
      BY HeldIsFinite, UsageAssumption DEF next, others
    <3>7. Cardinality(next) <= DailyLimit
      BY <3>2, <3>4, <3>5, <3>6
    <3> QED BY <3>7 DEF LimitHolds, next
  <2> QED BY <2>3, <2>4
<1> QED BY <1>3, <1>4, <1>5, <1>6 DEF UsageInv

(* A step that only sweeps, or leaves the ledger alone.                    *)
LEMMA RowsStay ==
    ASSUME UsageInv, usage' \in {usage, Swept(usage)},
           generation' \in [WebKey -> GenerationRow],
           attempt' \in [Attempt -> AttemptState], KeysAreKnown',
           told' \subseteq WebKey, UNCHANGED <<reply, late>>,
           \A j \in WebKey : generation[j].status \in Artifact => generation'[j].status \in Artifact
    PROVE  UsageInv'
<1>1. /\ usage' \in [UsageKey -> UsageRow]
      /\ \A j \in UsageKey :
            /\ Counts(usage'[j]) = Counts(usage[j])
            /\ usage'[j].result = usage[j].result /\ usage'[j].lease = usage[j].lease
            /\ (usage'[j].status = "committed") = (usage[j].status = "committed")
  BY RowsTyped, SweepCountsNothing
<1>2. UsageTypeOK'
  BY <1>1 DEF UsageInv, UsageTypeOK
<1>3. ResultHasArtifact' /\ WebIsNotRenewed' /\ ReplyIsCharged'
  BY <1>1, RowsTyped DEF UsageInv, ResultHasArtifact, WebIsNotRenewed, ReplyIsCharged
<1>4. {j \in UsageKey : Counts(usage'[j])} = {j \in UsageKey : Counts(usage[j])}
  BY <1>1
<1>5. LimitHolds'
  BY <1>4 DEF UsageInv, LimitHolds
<1> QED BY <1>2, <1>3, <1>5 DEF UsageInv

LEMMA HandlerMoves ==
    ASSUME UsageInv, NEW a \in Attempt,
           \/ \E pc \in {"looked", "acquired", "calling", "staged", "failing", "releasing", "done"} :
                 /\ Moves(a, pc) /\ attempt[a].pc # "idle"
                 /\ pc \in {"looked", "acquired", "staged", "failing"} => attempt[a].key \in WebKey
           \/ \E k \in UsageKey, pc \in {"recovering", "looked", "calling", "done"} :
                 /\ attempt' = [attempt EXCEPT ![a] = [pc |-> pc, key |-> k]]
                 /\ pc \in {"recovering", "looked"} => k \in WebKey
           \/ UNCHANGED attempt
    PROVE  attempt' \in [Attempt -> AttemptState] /\ KeysAreKnown'
<1>1. attempt \in [Attempt -> AttemptState] /\ KeysAreKnown
  BY RowsTyped DEF UsageInv
<1>2. CASE UNCHANGED attempt
  BY <1>1, <1>2 DEF KeysAreKnown
<1>3. ASSUME NEW new \in AttemptState, attempt' = [attempt EXCEPT ![a] = new],
             new.key \in UsageKey,
             new.pc \in {"recovering", "looked", "acquired", "staged", "failing"} => new.key \in WebKey
      PROVE  attempt' \in [Attempt -> AttemptState] /\ KeysAreKnown'
  <2>1. attempt'[a] = new /\ \A b \in Attempt \ {a} : attempt'[b] = attempt[b]
    BY <1>1, <1>3
  <2> QED BY <1>1, <1>3, <2>1 DEF KeysAreKnown
<1>4. ASSUME NEW pc \in {"looked", "acquired", "calling", "staged", "failing", "releasing", "done"},
             Moves(a, pc), attempt[a].pc # "idle",
             pc \in {"looked", "acquired", "staged", "failing"} => attempt[a].key \in WebKey
      PROVE  attempt' \in [Attempt -> AttemptState] /\ KeysAreKnown'
  <2> DEFINE new == [attempt[a] EXCEPT !.pc = pc]
  <2>1. new \in AttemptState /\ new.pc = pc /\ new.key = attempt[a].key
    BY <1>1 DEF AttemptState
  <2>2. attempt' = [attempt EXCEPT ![a] = new]
    BY <1>4 DEF Moves
  <2> HIDE DEF new
  <2> QED BY <1>1, <1>3, <1>4, <2>1, <2>2 DEF KeysAreKnown
<1>5. ASSUME NEW k \in UsageKey, NEW pc \in {"recovering", "looked", "calling", "done"},
             attempt' = [attempt EXCEPT ![a] = [pc |-> pc, key |-> k]],
             pc \in {"recovering", "looked"} => k \in WebKey
      PROVE  attempt' \in [Attempt -> AttemptState] /\ KeysAreKnown'
  <2>1. [pc |-> pc, key |-> k] \in AttemptState
    BY DEF AttemptState
  <2> QED BY <1>3, <1>5, <2>1
<1> QED BY <1>2, <1>4, <1>5

-----------------------------------------------------------------------------
(* The steps of the web.                                                   *)

LEMMA RowsOf ==
    ASSUME UsageInv, NEW k \in UsageKey, NEW target \in {"released", "expired"}
    PROVE  /\ Closed(usage[k], target) \in UsageRow
           /\ Closed(usage[k], target).status \in {"released", "expired"}
           /\ Closed(usage[k], target).result = usage[k].result
           /\ Closed(usage[k], target).lease = usage[k].lease
BY RowsTyped DEF Closed, UsageRow

LEMMA LookupKeeps ==
    ASSUME UsageInv, NEW a \in Attempt, NEW k \in WebKey, Lookup(a, k)
    PROVE  UsageInv'
<1>1. AfterLookup(k) \in {"recovering", "looked", "done"}
  BY DEF AfterLookup
<1>2. attempt' \in [Attempt -> AttemptState] /\ KeysAreKnown'
  BY <1>1, RowsTyped, HandlerMoves DEF Lookup
<1>3. told' \subseteq WebKey /\ UNCHANGED <<usage, generation, reply, late>>
  BY RowsTyped DEF Lookup
<1> QED BY <1>2, <1>3, RowsTyped, RowsStay

LEMMA RecoverKeeps ==
    ASSUME UsageInv, NEW a \in Attempt, Recover(a)
    PROVE  UsageInv'
<1> DEFINE k == KeyOf(a)
<1>1. k \in WebKey /\ k \in UsageKey
  BY RowsTyped DEF UsageInv, KeysAreKnown, Recover, At, KeyOf
<1>2. UNCHANGED <<generation, reply, late>> /\ told' \subseteq WebKey
  BY <1>1, RowsTyped DEF Recover
<1>3. attempt' \in [Attempt -> AttemptState] /\ KeysAreKnown'
  <2>1. \E pc \in {"looked", "done"} : Moves(a, pc) /\ attempt[a].pc # "idle"
    BY DEF Recover, At
  <2> QED BY <1>1, <2>1, HandlerMoves DEF KeyOf
<1> HIDE DEF k
<1>4. CASE generation[k].status = "pending_ack"
  <2> DEFINE status == IF usage[k].status = "committed" \/ Fresh(usage[k]) THEN usage[k].status
                       ELSE "expired"
  <2> DEFINE row == [usage[k] EXCEPT !.result = TRUE, !.status = status]
  <2>1. usage' = [usage EXCEPT ![k] = row]
    BY <1>4 DEF Recover, k
  <2>2. status \in {"none", "reserved", "committed", "released", "expired"}
    BY <1>1, RowsTyped DEF UsageRow
  <2>3. /\ (status = "committed") = (usage[k].status = "committed")
        /\ status = "reserved" => usage[k].status = "reserved"
    BY DEF Fresh
  <2> HIDE DEF status
  <2>4. /\ row \in UsageRow /\ row.lease = usage[k].lease /\ row.status = status
    BY <1>1, <2>2, RowsTyped DEF UsageRow
  <2> HIDE DEF row
  <2>5. Counts(row) => Counts(usage[k])
    BY <2>3, <2>4 DEF Counts, Fresh
  <2> QED BY <1>1, <1>2, <1>3, <1>4, <2>1, <2>4, <2>5, RowMoves, RowsTyped
          DEF UsageInv, WebIsNotRenewed, Artifact
<1>5. CASE generation[k].status # "pending_ack"
  BY <1>2, <1>3, <1>5, RowsStay, RowsTyped DEF Recover, k
<1> QED BY <1>4, <1>5

LEMMA ReserveKeeps ==
    ASSUME UsageInv, NEW k \in UsageKey, NEW op \in Attempt \cup {NoAttempt}, Reserve(k, op), Room(k),
           k \in TaskKey => k \notin reply,
           attempt' \in [Attempt -> AttemptState], KeysAreKnown',
           UNCHANGED <<generation, reply, told, late>>
    PROVE  UsageInv'
<1> DEFINE row == [status |-> "reserved", lease |-> IF k \in TaskKey THEN "recent" ELSE "old",
                   op |-> op, result |-> FALSE]
<1>1. /\ row \in UsageRow /\ row.result = FALSE /\ row.status # "committed"
      /\ k \in WebKey => row.lease # "recent"
  BY RowsTyped DEF UsageRow
<1>2. usage' = [Swept(usage) EXCEPT ![k] = row]
  BY DEF Reserve
<1> HIDE DEF row
<1> QED BY <1>1, <1>2, RowMoves, RowsTyped

LEMMA AcquireKeeps ==
    ASSUME UsageInv, NEW a \in Attempt, Acquire(a)
    PROVE  UsageInv'
<1> DEFINE k == KeyOf(a)
<1>1. k \in WebKey /\ k \in UsageKey /\ k \notin TaskKey
  BY RowsTyped DEF UsageInv, KeysAreKnown, Acquire, At, KeyOf
<1>2. UNCHANGED <<generation, reply, late>> /\ told' \subseteq WebKey
      /\ attempt[a].pc # "idle"
      /\ \/ usage' \in {usage, Swept(usage)} /\ Moves(a, "done")
         \/ Room(k) /\ Reserve(k, a) /\ Moves(a, "acquired") /\ UNCHANGED told
  BY <1>1, RowsTyped DEF Acquire, At
<1>3. attempt' \in [Attempt -> AttemptState] /\ KeysAreKnown'
  BY <1>1, <1>2, HandlerMoves DEF KeyOf
<1> HIDE DEF k
<1>4. CASE usage' \in {usage, Swept(usage)}
  BY <1>2, <1>3, <1>4, RowsStay, RowsTyped
<1>5. CASE Room(k) /\ Reserve(k, a) /\ UNCHANGED told
  BY <1>1, <1>2, <1>3, <1>5, ReserveKeeps
<1> QED BY <1>2, <1>4, <1>5

LEMMA BeginKeeps ==
    ASSUME UsageInv, NEW a \in Attempt, Begin(a)
    PROVE  UsageInv'
<1> DEFINE k == KeyOf(a)
<1>1. k \in WebKey
  BY DEF UsageInv, KeysAreKnown, Begin, At, KeyOf
<1>2. UNCHANGED <<usage, reply, told, late>> /\ attempt[a].pc # "idle"
      /\ \E pc \in {"calling", "releasing"} : Moves(a, pc)
  BY DEF Begin, At
<1>3. attempt' \in [Attempt -> AttemptState] /\ KeysAreKnown'
  BY <1>2, HandlerMoves
<1>4. /\ generation' \in [WebKey -> GenerationRow]
      /\ \A j \in WebKey : generation[j].status \in Artifact => generation'[j].status \in Artifact
  <2>1. [status |-> "running", request |-> a] \in GenerationRow
    BY DEF GenerationRow
  <2> QED BY <1>1, <2>1, RowsTyped DEF Begin, Artifact
<1> QED BY <1>2, <1>3, <1>4, RowsStay, RowsTyped

LEMMA StageKeeps ==
    ASSUME UsageInv, NEW a \in Attempt, Stage(a)
    PROVE  UsageInv'
<1> DEFINE k == KeyOf(a)
<1>1. k \in WebKey /\ k \in UsageKey /\ k \notin TaskKey
  BY RowsTyped DEF Stage
<1>2. UNCHANGED <<reply, told, late>> /\ attempt[a].pc # "idle"
      /\ \E pc \in {"staged", "failing"} : Moves(a, pc)
  BY DEF Stage, At
<1>3. attempt' \in [Attempt -> AttemptState] /\ KeysAreKnown'
  BY <1>1, <1>2, HandlerMoves DEF KeyOf
<1> HIDE DEF k
<1>4. CASE UNCHANGED <<usage, generation>>
  BY <1>2, <1>3, <1>4, RowsStay, RowsTyped
<1>5. CASE /\ generation' = [generation EXCEPT ![k].status = "pending_ack"]
           /\ usage' = [usage EXCEPT ![k].result = TRUE]
  <2> DEFINE row == [usage[k] EXCEPT !.result = TRUE]
  <2> DEFINE new == [generation[k] EXCEPT !.status = "pending_ack"]
  <2>0. row \in UsageRow /\ row.lease = usage[k].lease /\ row.status = usage[k].status
    BY <1>1, RowsTyped DEF UsageRow
  <2>1. new \in GenerationRow /\ new.status = "pending_ack"
    BY <1>1, RowsTyped DEF GenerationRow
  <2>2. usage' = [usage EXCEPT ![k] = row] /\ generation' = [generation EXCEPT ![k] = new]
    BY <1>5
  <2> HIDE DEF row, new
  <2>3. Counts(row) => Counts(usage[k])
    BY <2>0 DEF Counts, Fresh
  <2>4. generation' \in [WebKey -> GenerationRow] /\ generation'[k].status \in Artifact
        /\ \A j \in WebKey : generation[j].status \in Artifact => generation'[j].status \in Artifact
    BY <1>1, <2>1, <2>2, RowsTyped DEF Artifact
  <2> QED BY <1>1, <1>2, <1>3, <2>0, <2>2, <2>3, <2>4, RowMoves, RowsTyped
          DEF UsageInv, WebIsNotRenewed
<1> QED BY <1>4, <1>5 DEF Stage, k

(* Steps that change no row of the ledger, and only time or an answer.     *)
LEMMA HandlerOnlyKeeps ==
    ASSUME UsageInv, NEW a \in Attempt,
           ProviderFails(a) \/ Deliver(a) \/ AttemptDies(a) \/ TaskFails(a)
    PROVE  UsageInv'
<1>1. UNCHANGED <<usage, generation, reply, late>> /\ attempt[a].pc # "idle"
  BY DEF ProviderFails, Deliver, AttemptDies, TaskFails, At
<1>2. told' \subseteq WebKey
  BY RowsTyped DEF UsageInv, KeysAreKnown, ProviderFails, Deliver, AttemptDies, TaskFails, At, KeyOf
<1>3. \E pc \in {"failing", "releasing", "done"} :
          Moves(a, pc) /\ (pc = "failing" => attempt[a].key \in WebKey)
  BY DEF ProviderFails, Deliver, AttemptDies, TaskFails, KeyOf
<1>4. attempt' \in [Attempt -> AttemptState] /\ KeysAreKnown'
  BY <1>1, <1>3, HandlerMoves
<1> QED BY <1>1, <1>2, <1>4, RowsStay, RowsTyped

LEMMA FailKeeps ==
    ASSUME UsageInv, NEW a \in Attempt, Fail(a)
    PROVE  UsageInv'
<1> DEFINE k == KeyOf(a)
<1>1. k \in WebKey
  BY DEF UsageInv, KeysAreKnown, Fail, At, KeyOf
<1>2. UNCHANGED <<usage, reply, told, late>> /\ attempt[a].pc # "idle" /\ Moves(a, "releasing")
  BY DEF Fail, At
<1>3. attempt' \in [Attempt -> AttemptState] /\ KeysAreKnown'
  BY <1>2, HandlerMoves
<1>4. PICK target \in {"retryable_failed", "failed"} :
          generation' = [generation EXCEPT ![k].status =
                           IF generation[k].request = a /\ @ = "running" THEN target ELSE @]
  BY DEF Fail
<1> HIDE DEF k
<1> DEFINE status == IF generation[k].request = a /\ generation[k].status = "running" THEN target
                     ELSE generation[k].status
<1> DEFINE new == [generation[k] EXCEPT !.status = status]
<1>5. /\ status \in {"none", "running", "retryable_failed", "failed", "pending_ack", "acknowledged"}
      /\ generation[k].status \in Artifact => status \in Artifact
  BY <1>1, RowsTyped DEF GenerationRow, Artifact
<1>6. generation' = [generation EXCEPT ![k] = new]
  BY <1>4
<1> HIDE DEF status
<1>7. new \in GenerationRow /\ new.status = status
  BY <1>1, <1>5, RowsTyped DEF GenerationRow
<1> HIDE DEF new
<1>8. generation' \in [WebKey -> GenerationRow]
      /\ \A j \in WebKey : generation[j].status \in Artifact => generation'[j].status \in Artifact
  BY <1>1, <1>5, <1>6, <1>7, RowsTyped
<1> QED BY <1>2, <1>3, <1>8, RowsStay, RowsTyped

LEMMA ReleaseKeeps ==
    ASSUME UsageInv, NEW a \in Attempt, Release(a) \/ TaskReleases(a)
    PROVE  UsageInv'
<1> DEFINE k == KeyOf(a)
<1>1. k \in UsageKey
  BY RowsTyped DEF Release, TaskReleases
<1>2. UNCHANGED <<generation, reply, told, late>> /\ attempt[a].pc # "idle" /\ Moves(a, "done")
  BY DEF Release, TaskReleases, At
<1>3. attempt' \in [Attempt -> AttemptState] /\ KeysAreKnown'
  BY <1>2, HandlerMoves
<1> HIDE DEF k
<1>4. CASE UNCHANGED usage
  BY <1>2, <1>3, <1>4, RowsStay, RowsTyped
<1>5. CASE usage[k].status = "reserved" /\ usage' = [usage EXCEPT ![k] = Closed(usage[k], "released")]
  <2> DEFINE row == Closed(usage[k], "released")
  <2>1. /\ row \in UsageRow /\ row.status \in {"released", "expired"}
        /\ row.result = usage[k].result /\ row.lease = usage[k].lease
    BY <1>1, RowsOf
  <2> HIDE DEF row
  <2>2. usage' = [usage EXCEPT ![k] = row]
    BY <1>5 DEF row
  <2>3. ~Counts(row)
    BY <2>1 DEF Counts, Fresh
  <2>4. k \in TaskKey => k \notin reply
    BY <1>5 DEF UsageInv, ReplyIsCharged
  <2>5. k \in WebKey /\ row.result => generation'[k].status \in Artifact
    BY <1>2, <2>1 DEF UsageInv, ResultHasArtifact
  <2>6. k \in WebKey => row.lease # "recent"
    BY <2>1 DEF UsageInv, WebIsNotRenewed
  <2>7. k \in TaskKey => (k \in reply' <=> row.status = "committed")
    BY <1>2, <2>1, <2>4
  <2> QED BY <1>1, <1>2, <1>3, <2>1, <2>2, <2>3, <2>5, <2>6, <2>7, RowMoves, RowsTyped
<1> QED BY <1>4, <1>5 DEF Release, TaskReleases, k

(* A result that was told is charged; beyond its reservation only as late. *)
LEMMA AcknowledgeKeeps ==
    ASSUME UsageInv, NEW k \in WebKey, AcknowledgeUsage(k)
    PROVE  UsageInv'
<1> DEFINE row == [usage[k] EXCEPT !.status = "committed"]
<1>1. k \in UsageKey /\ k \notin TaskKey
  BY RowsTyped
<1>2. row \in UsageRow /\ row.result = usage[k].result /\ row.lease = usage[k].lease
  BY <1>1, RowsTyped DEF UsageRow
<1>3. /\ usage' = [usage EXCEPT ![k] = row] /\ UNCHANGED <<generation, reply, attempt, told>>
      /\ late \subseteq late' /\ late' \subseteq WebKey
      /\ ~Fresh(usage[k]) => k \in late'
  BY RowsTyped DEF AcknowledgeUsage
<1> HIDE DEF row
<1>4. Counts(row) => Counts(usage[k]) \/ k \in late'
  BY <1>3 DEF Counts
<1>5. /\ row.result => generation'[k].status \in Artifact
      /\ row.lease # "recent"
  BY <1>2, <1>3 DEF UsageInv, ResultHasArtifact, WebIsNotRenewed
<1>6. attempt' \in [Attempt -> AttemptState] /\ KeysAreKnown'
  BY <1>3, RowsTyped DEF UsageInv, KeysAreKnown
<1> QED BY <1>1, <1>2, <1>3, <1>4, <1>5, <1>6, RowMoves, RowsTyped

LEMMA ArtifactKeeps ==
    ASSUME UsageInv, NEW k \in WebKey, AcknowledgeArtifact(k)
    PROVE  UsageInv'
<1> DEFINE new == [generation[k] EXCEPT !.status = "acknowledged"]
<1>1. new \in GenerationRow /\ new.status = "acknowledged"
  BY RowsTyped DEF GenerationRow
<1>2. generation' = [generation EXCEPT ![k] = new] /\ UNCHANGED <<usage, reply, attempt, told, late>>
  BY DEF AcknowledgeArtifact
<1> HIDE DEF new
<1>3. generation' \in [WebKey -> GenerationRow]
      /\ \A j \in WebKey : generation[j].status \in Artifact => generation'[j].status \in Artifact
  BY <1>1, <1>2, RowsTyped DEF Artifact
<1>4. attempt' \in [Attempt -> AttemptState] /\ KeysAreKnown'
  BY <1>2, RowsTyped DEF UsageInv, KeysAreKnown
<1> QED BY <1>2, <1>3, <1>4, RowsStay, RowsTyped

-----------------------------------------------------------------------------
(* The steps of tasks, and time.                                           *)

LEMMA TaskAcquireKeeps ==
    ASSUME UsageInv, NEW a \in Attempt, NEW k \in TaskKey, TaskAcquire(a, k)
    PROVE  UsageInv'
<1>1. k \in UsageKey /\ k \notin reply
  BY RowsTyped DEF TaskAcquire
<1>2. UNCHANGED <<generation, reply, told, late>>
      /\ \E pc \in {"calling", "done"} : attempt' = [attempt EXCEPT ![a] = [pc |-> pc, key |-> k]]
      /\ \/ usage' \in {usage, Swept(usage)}
         \/ Room(k) /\ Reserve(k, NoAttempt)
  BY DEF TaskAcquire
<1>3. attempt' \in [Attempt -> AttemptState] /\ KeysAreKnown'
  BY <1>1, <1>2, HandlerMoves
<1>4. CASE usage' \in {usage, Swept(usage)}
  BY <1>2, <1>3, <1>4, RowsStay, RowsTyped
<1>5. CASE Room(k) /\ Reserve(k, NoAttempt)
  BY <1>1, <1>2, <1>3, <1>5, ReserveKeeps
<1> QED BY <1>2, <1>4, <1>5

LEMMA TaskCommitsKeeps ==
    ASSUME UsageInv, NEW a \in Attempt, TaskCommits(a)
    PROVE  UsageInv'
<1> DEFINE k == KeyOf(a)
<1>1. k \in TaskKey /\ k \in UsageKey /\ k \notin WebKey
  BY RowsTyped DEF TaskCommits
<1>2. UNCHANGED <<generation, told, late>> /\ attempt[a].pc # "idle"
      /\ \E pc \in {"done", "releasing"} : Moves(a, pc)
  BY DEF TaskCommits, At
<1>3. attempt' \in [Attempt -> AttemptState] /\ KeysAreKnown'
  BY <1>2, HandlerMoves
<1> HIDE DEF k
<1>4. CASE UNCHANGED <<usage, reply>>
  BY <1>2, <1>3, <1>4, RowsStay, RowsTyped
<1>5. CASE /\ Fresh(usage[k]) /\ reply' = reply \cup {k}
           /\ usage' = [usage EXCEPT ![k].status = "committed"]
  <2> DEFINE row == [usage[k] EXCEPT !.status = "committed"]
  <2>1. row \in UsageRow /\ row.status = "committed"
    BY <1>1, RowsTyped DEF UsageRow
  <2>2. usage' = [usage EXCEPT ![k] = row]
    BY <1>5
  <2> HIDE DEF row
  <2>3. Counts(usage[k])
    BY <1>5 DEF Counts
  <2>4. reply' \subseteq TaskKey /\ reply' \ {k} = reply \ {k} /\ k \in reply'
    BY <1>1, <1>5, RowsTyped
  <2> QED BY <1>1, <1>2, <1>3, <2>1, <2>2, <2>3, <2>4, RowMoves, RowsTyped
<1> QED BY <1>4, <1>5 DEF TaskCommits, k

LEMMA LeaseKeeps ==
    ASSUME UsageInv, NEW k \in UsageKey, NEW lease \in {"recent", "old", "lapsed"},
           usage[k].status = "reserved", k \in WebKey => lease # "recent",
           usage[k].lease = "lapsed" => lease = "lapsed",
           usage' = [usage EXCEPT ![k].lease = lease],
           UNCHANGED <<generation, reply, attempt, told, late>>
    PROVE  UsageInv'
<1> DEFINE row == [usage[k] EXCEPT !.lease = lease]
<1>1. row \in UsageRow /\ row.status = "reserved" /\ row.lease = lease /\ row.result = usage[k].result
  BY RowsTyped DEF UsageRow
<1>2. usage' = [usage EXCEPT ![k] = row]
  OBVIOUS
<1> HIDE DEF row
<1>3. Counts(row) => Counts(usage[k])
  BY <1>1 DEF Counts, Fresh
<1>4. k \in TaskKey => k \notin reply
  BY DEF UsageInv, ReplyIsCharged
<1>5. k \in WebKey /\ row.result => generation'[k].status \in Artifact
  BY <1>1 DEF UsageInv, ResultHasArtifact
<1>6. attempt' \in [Attempt -> AttemptState] /\ KeysAreKnown'
  BY RowsTyped DEF UsageInv, KeysAreKnown
<1> QED BY <1>1, <1>2, <1>3, <1>4, <1>5, <1>6, RowMoves, RowsTyped

LEMMA TimeKeeps ==
    ASSUME UsageInv,
           \/ \E a \in Attempt : Heartbeat(a)
           \/ \E k \in UsageKey : ReservationAges(k)
           \/ ExpireReservations
    PROVE  UsageInv'
<1>1. ASSUME NEW a \in Attempt, Heartbeat(a) PROVE UsageInv'
  <2>1. KeyOf(a) \in UsageKey /\ KeyOf(a) \notin WebKey
    BY <1>1, RowsTyped DEF Heartbeat
  <2>2. /\ usage[KeyOf(a)].status = "reserved" /\ usage[KeyOf(a)].lease = "old"
        /\ usage' = [usage EXCEPT ![KeyOf(a)].lease = "recent"]
        /\ UNCHANGED <<generation, reply, attempt, told, late>>
    BY <1>1 DEF Heartbeat
  <2> QED BY <2>1, <2>2, LeaseKeeps
<1>2. ASSUME NEW k \in UsageKey, ReservationAges(k) PROVE UsageInv'
  <2>1. PICK lease \in {"old", "lapsed"} : usage' = [usage EXCEPT ![k].lease = lease]
    BY <1>2 DEF ReservationAges
  <2>2. usage[k].status = "reserved" /\ usage[k].lease # "lapsed"
        /\ UNCHANGED <<generation, reply, attempt, told, late>>
    BY <1>2 DEF ReservationAges, Fresh
  <2> QED BY <2>1, <2>2, LeaseKeeps
<1>3. CASE ExpireReservations
  <2>1. attempt' \in [Attempt -> AttemptState] /\ KeysAreKnown'
    BY <1>3, RowsTyped DEF ExpireReservations, UsageInv, KeysAreKnown
  <2> QED BY <1>3, <2>1, RowsStay, RowsTyped DEF ExpireReservations
<1> QED BY <1>1, <1>2, <1>3

-----------------------------------------------------------------------------
(* The theorems.                                                           *)

LEMMA LedgerInit == UsageInit => UsageInv
<1> SUFFICES ASSUME UsageInit PROVE UsageInv
  OBVIOUS
<1>1. PICK old \in {{}} \cup {{k} : k \in WebKey} :
        /\ usage = [k \in UsageKey |->
                      IF k \in old THEN [NoUsage EXCEPT !.status = "expired"] ELSE NoUsage]
        /\ generation = [k \in WebKey |->
                      IF k \in old THEN [NoGeneration EXCEPT !.status = "pending_ack"] ELSE NoGeneration]
  BY DEF UsageInit
<1>2. reply = {} /\ attempt = [a \in Attempt |-> [pc |-> "idle", key |-> NoUsageKey]]
      /\ told = {} /\ late = {}
  BY DEF UsageInit
<1>3. /\ NoUsage \in UsageRow /\ [NoUsage EXCEPT !.status = "expired"] \in UsageRow
      /\ NoGeneration \in GenerationRow
      /\ [NoGeneration EXCEPT !.status = "pending_ack"] \in GenerationRow
      /\ [pc |-> "idle", key |-> NoUsageKey] \in AttemptState
  BY DEF NoUsage, NoGeneration, UsageRow, GenerationRow, AttemptState
<1>4. UsageTypeOK
  BY <1>1, <1>2, <1>3 DEF UsageTypeOK
<1>5. \A k \in UsageKey : /\ usage[k].status \in {"none", "expired"} /\ ~usage[k].result
                          /\ usage[k].lease = "lapsed"
  BY <1>1 DEF NoUsage
<1>6. {k \in UsageKey : Counts(usage[k])} \ late = {}
  BY <1>5 DEF Counts, Fresh
<1>7. LimitHolds
  BY <1>6, FS_EmptySet, UsageAssumption DEF LimitHolds
<1>8. WebKey \subseteq UsageKey /\ TaskKey \subseteq UsageKey
  BY DEF UsageKey
<1>9. KeysAreKnown /\ ResultHasArtifact /\ WebIsNotRenewed /\ ReplyIsCharged
  BY <1>2, <1>5, <1>8 DEF KeysAreKnown, ResultHasArtifact, WebIsNotRenewed, ReplyIsCharged
<1> QED BY <1>4, <1>7, <1>9 DEF UsageInv

LEMMA LedgerStep == UsageInv /\ [UsageNext]_usageVars => UsageInv'
<1> SUFFICES ASSUME UsageInv, [UsageNext]_usageVars PROVE UsageInv'
  OBVIOUS
<1>1. CASE UNCHANGED usageVars
  BY <1>1 DEF usageVars, UsageInv, UsageTypeOK, KeysAreKnown, ResultHasArtifact, WebIsNotRenewed,
     ReplyIsCharged, LimitHolds
<1>2. CASE UsageNext
  BY <1>2, LookupKeeps, RecoverKeeps, AcquireKeeps, BeginKeeps, StageKeeps, HandlerOnlyKeeps, FailKeeps,
     ReleaseKeeps, AcknowledgeKeeps, ArtifactKeeps, TaskAcquireKeeps, TaskCommitsKeeps, TimeKeeps
  DEF UsageNext
<1> QED BY <1>1, <1>2

(* The invariant of the ledger.                                            *)
THEOREM UsageInvariance == UsageSpec => []UsageInv
<1> QED BY LedgerInit, LedgerStep, PTL DEF UsageSpec

(* The rows and the handlers keep their types.                             *)
THEOREM UsageTypes == UsageSpec => []UsageTypeOK
<1>1. UsageInv => UsageTypeOK
  BY DEF UsageInv
<1> QED BY <1>1, UsageInvariance, PTL

(* However many requests and tasks of an account race, the places they     *)
(* hold never exceed the daily limit.                                      *)
THEOREM LimitIsKept == UsageSpec => []LimitHolds
<1>1. UsageInv => LimitHolds
  BY DEF UsageInv
<1> QED BY <1>1, UsageInvariance, PTL

(* The reply of a task is saved exactly when it was charged.               *)
THEOREM RepliesAreCharged == UsageSpec => []ReplyIsCharged
<1>1. UsageInv => ReplyIsCharged
  BY DEF UsageInv
<1> QED BY <1>1, UsageInvariance, PTL

-----------------------------------------------------------------------------
(* What a step may do to the row and to the generation of a key of the web.*)

LEMMA WebRowMoves ==
    ASSUME UsageInv, UsageNext, NEW k \in WebKey
    PROVE  \/ usage'[k] \in {usage[k], Swept(usage)[k]}
           \/ usage'[k].result /\ generation[k].status = "pending_ack"
           \/ Swept(usage)[k].status \notin {"reserved", "committed"} /\ ~usage[k].result
           \/ \E a \in Attempt : /\ At(a, "calling") /\ ~At(a, "calling")' /\ usage[k].op = a
                                 /\ usage'[k].result
           \/ \E a \in Attempt : /\ At(a, "releasing") /\ KeyOf(a) = k /\ usage[k].op = a
                                 /\ ~usage[k].result
           \/ usage[k].result /\ usage'[k].result
           \/ usage'[k] = [usage[k] EXCEPT !.lease = "lapsed"]
<1> DEFINE Goal == usage'[k] \in {usage[k], Swept(usage)[k]}
<1>1. k \in UsageKey /\ k \notin TaskKey /\ usage \in [UsageKey -> UsageRow]
      /\ Swept(usage) \in [UsageKey -> UsageRow] /\ attempt \in [Attempt -> AttemptState]
  BY RowsTyped, SweepCountsNothing
<1>2. ASSUME NEW a \in Attempt, Recover(a)
      PROVE  Goal \/ (usage'[k].result /\ generation[k].status = "pending_ack")
  <2>1. CASE KeyOf(a) = k /\ generation[k].status = "pending_ack"
    <3> DEFINE status == IF usage[k].status = "committed" \/ Fresh(usage[k]) THEN usage[k].status
                         ELSE "expired"
    <3>1. usage' = [usage EXCEPT ![k] = [usage[k] EXCEPT !.result = TRUE, !.status = status]]
      BY <1>2, <2>1 DEF Recover
    <3> HIDE DEF status
    <3>2. usage'[k].result
      BY <1>1, <3>1 DEF UsageRow
    <3> QED BY <2>1, <3>2
  <2>2. CASE ~(KeyOf(a) = k /\ generation[k].status = "pending_ack")
    BY <1>1, <1>2, <2>2 DEF Recover
  <2> QED BY <2>1, <2>2
<1>3. ASSUME NEW a \in Attempt, Acquire(a)
      PROVE  Goal \/ (Swept(usage)[k].status \notin {"reserved", "committed"} /\ ~usage[k].result)
  <2>1. CASE KeyOf(a) = k
    BY <1>1, <1>3, <2>1, SweepCountsNothing DEF Acquire
  <2>2. CASE KeyOf(a) # k
    BY <1>1, <1>3, <2>2 DEF Acquire, Reserve
  <2> QED BY <2>1, <2>2
<1>4. ASSUME NEW a \in Attempt, Stage(a)
      PROVE  Goal \/ (/\ At(a, "calling") /\ ~At(a, "calling")' /\ usage[k].op = a /\ usage'[k].result)
  <2>1. CASE KeyOf(a) = k /\ usage' = [usage EXCEPT ![k].result = TRUE]
    <3>1. usage'[k].result
      BY <1>1, <2>1 DEF UsageRow
    <3>2. usage[k].op = a \/ UNCHANGED usage
      BY <1>4, <2>1 DEF Stage
    <3>3. At(a, "calling") /\ ~At(a, "calling")'
      BY <1>1, <1>4 DEF Stage, At, Moves, AttemptState
    <3> QED BY <3>1, <3>2, <3>3
  <2>2. CASE ~(KeyOf(a) = k /\ usage' = [usage EXCEPT ![k].result = TRUE])
    BY <1>1, <1>4, <2>2 DEF Stage
  <2> QED BY <2>1, <2>2
<1>5. ASSUME NEW a \in Attempt, Release(a)
      PROVE  Goal \/ (/\ At(a, "releasing") /\ KeyOf(a) = k /\ usage[k].op = a /\ ~usage[k].result)
  BY <1>1, <1>5 DEF Release
<1>6. ASSUME NEW j \in WebKey, AcknowledgeUsage(j)
      PROVE  Goal \/ (usage[k].result /\ usage'[k].result)
  <2>1. CASE j = k
    BY <1>1, <1>6, <2>1 DEF AcknowledgeUsage, UsageRow
  <2>2. CASE j # k
    BY <1>1, <1>6, <2>2 DEF AcknowledgeUsage
  <2> QED BY <2>1, <2>2
<1>7. ASSUME NEW j \in UsageKey, ReservationAges(j)
      PROVE  Goal \/ usage'[k] = [usage[k] EXCEPT !.lease = "lapsed"]
  <2>1. usage[k].lease # "recent"
    BY DEF UsageInv, WebIsNotRenewed
  <2> QED BY <1>1, <1>7, <2>1 DEF ReservationAges
<1>8. ASSUME \/ \E a \in Attempt : \/ \E j \in WebKey : Lookup(a, j)
                                   \/ Begin(a) \/ ProviderFails(a) \/ Deliver(a) \/ Fail(a)
                                   \/ AttemptDies(a) \/ TaskFails(a)
             \/ \E j \in WebKey : AcknowledgeArtifact(j)
             \/ ExpireReservations
      PROVE  Goal
  BY <1>8 DEF Lookup, Begin, ProviderFails, Deliver, Fail, AttemptDies, TaskFails, AcknowledgeArtifact,
     ExpireReservations
<1>9. ASSUME NEW a \in Attempt,
             (\E j \in TaskKey : TaskAcquire(a, j)) \/ Heartbeat(a) \/ TaskCommits(a) \/ TaskReleases(a)
      PROVE  Goal
  BY <1>1, <1>9 DEF TaskAcquire, Reserve, Heartbeat, TaskCommits, TaskReleases
<1> HIDE DEF Goal
<1>10. Goal => usage'[k] \in {usage[k], Swept(usage)[k]}
  BY DEF Goal
<1> QED BY <1>2, <1>3, <1>4, <1>5, <1>6, <1>7, <1>8, <1>9, <1>10 DEF UsageNext

LEMMA WebGenerationMoves ==
    ASSUME UsageInv, UsageNext, NEW k \in WebKey
    PROVE  \/ generation'[k] = generation[k]
           \/ \E b \in Attempt : KeyOf(b) = k /\ At(b, "acquired") /\ generation'[k].request = b
           \/ \E b \in Attempt : At(b, "calling") /\ ~At(b, "calling")' /\ generation[k].request = b
           \/ \E b \in Attempt : At(b, "failing") /\ generation[k].request = b
           \/ generation[k].status = "pending_ack"
<1>1. generation \in [WebKey -> GenerationRow] /\ attempt \in [Attempt -> AttemptState]
  BY RowsTyped
<1>2. ASSUME NEW b \in Attempt, Begin(b)
      PROVE  \/ generation'[k] = generation[k]
             \/ KeyOf(b) = k /\ At(b, "acquired") /\ generation'[k].request = b
  BY <1>1, <1>2 DEF Begin
<1>3. ASSUME NEW b \in Attempt, Stage(b)
      PROVE  \/ generation'[k] = generation[k]
             \/ At(b, "calling") /\ ~At(b, "calling")' /\ generation[k].request = b
  <2>1. At(b, "calling") /\ ~At(b, "calling")'
    BY <1>1, <1>3 DEF Stage, At, Moves, AttemptState
  <2> QED BY <1>1, <1>3, <2>1 DEF Stage
<1>4. ASSUME NEW b \in Attempt, Fail(b)
      PROVE  generation'[k] = generation[k] \/ (At(b, "failing") /\ generation[k].request = b)
  <2>1. CASE KeyOf(b) = k /\ generation[k].request # b
    <3>1. PICK status \in {"retryable_failed", "failed"} :
              generation' = [generation EXCEPT ![k].status =
                               IF generation[k].request = b /\ @ = "running" THEN status ELSE @]
      BY <1>4, <2>1 DEF Fail
    <3>2. generation' = [generation EXCEPT ![k].status = generation[k].status]
      BY <2>1, <3>1
    <3> QED BY <1>1, <3>2 DEF GenerationRow
  <2>2. CASE KeyOf(b) # k
    BY <1>1, <1>4, <2>2 DEF Fail
  <2>3. At(b, "failing")
    BY <1>4 DEF Fail
  <2> QED BY <2>1, <2>2, <2>3
<1>5. ASSUME NEW j \in WebKey, AcknowledgeArtifact(j)
      PROVE  generation'[k] = generation[k] \/ generation[k].status = "pending_ack"
  BY <1>1, <1>5 DEF AcknowledgeArtifact
<1>6. ASSUME ~(\E b \in Attempt : Begin(b) \/ Stage(b) \/ Fail(b)),
             ~(\E j \in WebKey : AcknowledgeArtifact(j))
      PROVE  generation'[k] = generation[k]
  BY <1>6 DEF UsageNext, Lookup, Recover, Acquire, ProviderFails, Deliver, Release, AttemptDies,
     TaskAcquire, Heartbeat, TaskCommits, TaskFails, TaskReleases, AcknowledgeUsage, ReservationAges,
     ExpireReservations
<1> QED BY <1>2, <1>3, <1>4, <1>5, <1>6

(* A stored result stays, and its key is not paid for again: whoever had    *)
(* looked before finds it, and no attempt begins beside an artifact.        *)
THEOREM PaidResultStays == UsageSpec => PaidResultIsKept
<1>1. ASSUME UsageInv, [UsageNext]_usageVars, NEW k \in WebKey, usage[k].result
      PROVE  /\ usage'[k].result
             /\ \A a \in Attempt : attempt'[a] = [pc |-> "calling", key |-> k] => At(a, "calling")
  <2>1. CASE UNCHANGED usageVars
    BY <1>1, <2>1 DEF usageVars, At
  <2>2. CASE UsageNext
    <3>1. usage'[k].result
      <4>1. Swept(usage)[k].result
        BY <1>1, SweepCountsNothing, RowsTyped
      <4>2. [usage[k] EXCEPT !.lease = "lapsed"].result
        BY <1>1, RowsTyped DEF UsageRow
      <4> QED BY <1>1, <2>2, <4>1, <4>2, WebRowMoves
    <3>2. ASSUME NEW a \in Attempt, attempt'[a] = [pc |-> "calling", key |-> k], ~At(a, "calling")
          PROVE  FALSE
      <4>1. attempt \in [Attempt -> AttemptState] /\ k \notin TaskKey
        BY <1>1, RowsTyped
      <4>2. attempt'[a].pc = "calling" /\ attempt'[a].key = k
        BY <3>2
      <4>3. attempt' # attempt
        BY <3>2, <4>2 DEF At
      <4>4. ~(\E b \in Attempt, j \in TaskKey : TaskAcquire(b, j))
        BY <3>2, <4>1, <4>2 DEF TaskAcquire, At
      <4>5. ~(\E b \in Attempt, j \in WebKey : Lookup(b, j))
        BY <3>2, <4>1, <4>2 DEF Lookup, AfterLookup, At
      <4>6. ~(\E b \in Attempt : \/ Recover(b) \/ Acquire(b) \/ Stage(b) \/ ProviderFails(b) \/ Deliver(b)
                                 \/ Fail(b) \/ Release(b) \/ AttemptDies(b) \/ TaskCommits(b)
                                 \/ TaskFails(b) \/ TaskReleases(b))
        <5>1. ASSUME NEW b \in Attempt,
                     NEW pc \in {"looked", "acquired", "done", "staged", "failing", "releasing"},
                     Moves(b, pc)
              PROVE  FALSE
          BY <3>2, <4>1, <4>2, <5>1 DEF Moves, At, AttemptState
        <5> QED BY <5>1 DEF Recover, Acquire, Stage, ProviderFails, Deliver, Fail, Release,
                AttemptDies, TaskCommits, TaskFails, TaskReleases
      <4>7. PICK b \in Attempt : Begin(b)
        BY <2>2, <4>3, <4>4, <4>5, <4>6 DEF UsageNext, Heartbeat, AcknowledgeUsage, AcknowledgeArtifact,
           ReservationAges, ExpireReservations
      <4>8. b = a /\ KeyOf(a) = k /\ generation[k].status \notin Artifact
        BY <3>2, <4>1, <4>2, <4>7 DEF Begin, Moves, At, KeyOf, AttemptState, Artifact
      <4> QED BY <1>1, <4>8 DEF UsageInv, ResultHasArtifact
    <3> QED BY <3>1, <3>2
  <2> QED BY <1>1, <2>1, <2>2
<1>2. UsageInv /\ [UsageNext]_usageVars =>
          [\A k \in WebKey : usage[k].result =>
              /\ usage'[k].result
              /\ \A a \in Attempt : attempt'[a] = [pc |-> "calling", key |-> k]
                                      => At(a, "calling")]_usageVars
  BY <1>1
<1> QED BY <1>2, UsageInvariance, PTL DEF UsageSpec, PaidResultIsKept

(* Nobody but time and a late beginner takes anything from an attempt that *)
(* calls the provider under a live reservation.                            *)
THEOREM LiveAttemptKeepsItsPlace == UsageSpec => LiveAttemptIsLeftAlone
<1>1. ASSUME UsageInv, [UsageNext]_usageVars, NEW a \in Attempt, Live(a), attempt'[a] = attempt[a],
             NEW k, k = KeyOf(a)
      PROVE  /\ usage'[k] \in {usage[k], [usage[k] EXCEPT !.lease = "lapsed"]}
             /\ \/ generation'[k] = generation[k]
                \/ \E b \in Attempt \ {a} :
                      KeyOf(b) = k /\ At(b, "acquired") /\ generation'[k].request = b
  <2>1. /\ k \in WebKey /\ usage[k].op = a /\ Fresh(usage[k]) /\ At(a, "calling") /\ At(a, "calling")'
        /\ generation[k].status = "running" /\ generation[k].request = a
    BY <1>1 DEF Live, At
  <2>2. CASE UNCHANGED usageVars
    BY <1>1, <2>2 DEF usageVars
  <2>3. CASE UsageNext
    <3>1. Swept(usage)[k] = usage[k] /\ usage[k].status = "reserved"
      BY <1>1, <2>1, SweepCountsNothing, RowsTyped DEF Fresh, Lapsed
    <3>2. ~usage[k].result
      BY <1>1, <2>1 DEF UsageInv, ResultHasArtifact, Artifact
    <3>3. usage'[k] \in {usage[k], [usage[k] EXCEPT !.lease = "lapsed"]}
      <4>1. ~(\E b \in Attempt : At(b, "releasing") /\ usage[k].op = b)
        BY <2>1 DEF At
      <4>2. ~(\E b \in Attempt : At(b, "calling") /\ ~At(b, "calling")' /\ usage[k].op = b)
        BY <2>1
      <4>3. \/ usage'[k] \in {usage[k], Swept(usage)[k]}
            \/ usage'[k] = [usage[k] EXCEPT !.lease = "lapsed"]
        BY <1>1, <2>1, <2>3, <3>1, <3>2, <4>1, <4>2, WebRowMoves
      <4> QED BY <3>1, <4>3
    <3>4. \/ generation'[k] = generation[k]
          \/ \E b \in Attempt : KeyOf(b) = k /\ At(b, "acquired") /\ generation'[k].request = b
      BY <1>1, <2>1, <2>3, WebGenerationMoves DEF At
    <3> QED BY <2>1, <3>3, <3>4 DEF At
  <2> QED BY <1>1, <2>2, <2>3
<1>2. UsageInv /\ [UsageNext]_usageVars =>
        [\A a \in Attempt :
         LET k == KeyOf(a) IN
         Live(a) /\ attempt'[a] = attempt[a] =>
           /\ usage'[k] \in {usage[k], [usage[k] EXCEPT !.lease = "lapsed"]}
           /\ \/ generation'[k] = generation[k]
              \/ \E b \in Attempt \ {a} :
                    KeyOf(b) = k /\ At(b, "acquired") /\ generation'[k].request = b]_usageVars
  BY <1>1
<1> QED BY <1>2, UsageInvariance, PTL DEF UsageSpec, LiveAttemptIsLeftAlone

-----------------------------------------------------------------------------
(* MediaGeneration.                                                        *)

MediaRow == [status : Active \cup {"ready", "failed"}, confirmed : BOOLEAN,
             token : MediaWorker \cup {NoOwner}, job : BOOLEAN, age : {"fresh", "stale", "dead"}]
PlaceRow == [status : {"reserved", "committed", "released", "expired"}, lapsed : BOOLEAN]
MakerPc == {"idle", "handoff", "claimed", "rejected", "ready_to_create", "creating", "created",
            "polling", "persisting", "saving", "failing"}
MakerState == [pc : MakerPc, token : MediaWorker \cup {NoOwner}, job : BOOLEAN, again : BOOLEAN]

(* A worker between its claim and its end holds the token it drew.         *)
Working == {"claimed", "ready_to_create", "creating", "created", "polling", "persisting", "saving",
            "failing"}

TokenIsOwn ==
    \A w \in MediaWorker :
        /\ maker[w].token \in {w, NoOwner}
        /\ maker[w].pc \in Working => maker[w].token = w

(* A row that has an owner is neither queued nor ended.                    *)
UnderWay == {"submitting", "generating", "saving"}
OwnedIsUnderWay == media.token # NoOwner => media.status \in UnderWay

(* The place is given back by the request only after the row.              *)
ReleasedIsFailed == poster = "releasing" => media.status = "failed"

(* Until its creation is recorded, the owner knows the row as it is.       *)
KnowsStatus == {"claimed", "ready_to_create", "creating", "created"}
KnowsJob == {"claimed", "ready_to_create"}
OwnerKnowsRow ==
    \A w \in MediaWorker : media.token = w =>
        /\ maker[w].pc \in KnowsStatus => media.status = "submitting"
        /\ maker[w].pc \in KnowsJob => maker[w].job = media.job

(* While a provider creates, the row waits for nobody, and whoever owns it *)
(* is the creator or a worker that was turned away.                        *)
CreationIsSole ==
    \A w \in MediaWorker : maker[w].pc = "creating" =>
        /\ media.status \in {"submitting", "failed"} /\ ~media.job
        /\ \A v \in MediaWorker \ {w} :
              maker[v].pc # "creating" /\ (maker[v].pc \in Working => media.token # v)

MediaInv ==
    /\ MediaTypeOK
    /\ OutcomeIsCharged
    /\ TokenIsOwn
    /\ OwnedIsUnderWay
    /\ ReleasedIsFailed
    /\ OwnerKnowsRow
    /\ CreationIsSole

-----------------------------------------------------------------------------
LEMMA MediaTyped ==
    ASSUME MediaInv
    PROVE  /\ media \in MediaRow /\ place \in PlaceRow /\ maker \in [MediaWorker -> MakerState]
           /\ NoOwner \notin MediaWorker
BY MediaAssumption DEF MediaInv, MediaTypeOK, MediaRow, PlaceRow, MakerState, MakerPc

LEMMA FinalizedIsClosed ==
    ASSUME MediaInv, NEW target \in {"committed", "released"}
    PROVE  /\ Finalized(target) \in PlaceRow
           /\ Finalized(target).status # "reserved"
           /\ target = "released" =>
                 (Finalized(target).status = "committed" <=> place.status = "committed")
BY MediaTyped DEF Finalized, PlaceRow

(* The rows a step may write.                                              *)
LEMMA RowsWritten ==
    ASSUME MediaInv
    PROVE  /\ \A status \in Active \cup {"failed"}, job \in BOOLEAN :
                 LET row == [media EXCEPT !.status = status]
                     known == [media EXCEPT !.status = status, !.job = job]
                     free == [media EXCEPT !.status = status, !.token = NoOwner]
                     waiting == [media EXCEPT !.status = status, !.token = NoOwner, !.age = "fresh"]
                 IN  /\ row \in MediaRow /\ row.status = status
                     /\ row.token = media.token /\ row.job = media.job
                     /\ known \in MediaRow /\ known.status = status
                     /\ known.token = media.token /\ known.job = job
                     /\ free \in MediaRow /\ free.status = status
                     /\ free.token = NoOwner /\ free.job = media.job
                     /\ waiting \in MediaRow /\ waiting.status = status
                     /\ waiting.token = NoOwner /\ waiting.job = media.job
           /\ \A age \in {"fresh", "stale", "dead"} :
                 LET row == [media EXCEPT !.age = age]
                 IN  /\ row \in MediaRow /\ row.status = media.status
                     /\ row.token = media.token /\ row.job = media.job
<1>1. media \in MediaRow
  BY MediaTyped
<1>2. ASSUME NEW status \in Active \cup {"failed"}, NEW job \in BOOLEAN
      PROVE  LET row == [media EXCEPT !.status = status]
                 known == [media EXCEPT !.status = status, !.job = job]
                 free == [media EXCEPT !.status = status, !.token = NoOwner]
                 waiting == [media EXCEPT !.status = status, !.token = NoOwner, !.age = "fresh"]
             IN  /\ row \in MediaRow /\ row.status = status
                 /\ row.token = media.token /\ row.job = media.job
                 /\ known \in MediaRow /\ known.status = status
                 /\ known.token = media.token /\ known.job = job
                 /\ free \in MediaRow /\ free.status = status
                 /\ free.token = NoOwner /\ free.job = media.job
                 /\ waiting \in MediaRow /\ waiting.status = status
                 /\ waiting.token = NoOwner /\ waiting.job = media.job
  BY <1>1 DEF MediaRow, Active
<1>3. ASSUME NEW age \in {"fresh", "stale", "dead"}
      PROVE  LET row == [media EXCEPT !.age = age]
             IN  /\ row \in MediaRow /\ row.status = media.status
                 /\ row.token = media.token /\ row.job = media.job
  BY <1>1 DEF MediaRow
<1> QED BY <1>2, <1>3

LEMMA WorkerWritten ==
    ASSUME MediaInv, NEW w \in MediaWorker
    PROVE  /\ \A pc \in MakerPc :
                 LET new == [maker[w] EXCEPT !.pc = pc]
                 IN  /\ new \in MakerState /\ new.pc = pc
                     /\ new.token = maker[w].token /\ new.job = maker[w].job
           /\ \A again \in BOOLEAN :
                 LET new == [maker[w] EXCEPT !.pc = "failing", !.again = again]
                 IN  new \in MakerState /\ new.pc = "failing" /\ new.token = maker[w].token
           /\ Resting \in MakerState /\ Resting.pc = "idle" /\ Resting.token = NoOwner
BY MediaTyped DEF MakerState, MakerPc, Resting

-----------------------------------------------------------------------------
(* What a step that moves no worker has to respect.                        *)
LEMMA MediaMoves ==
    ASSUME MediaInv, UNCHANGED maker,
           media' \in MediaRow, place' \in PlaceRow,
           poster' \in {"adding", "added", "compensating", "releasing", "done", "gone"},
           OutcomeIsCharged',
           media'.job = media.job, media'.status \in {media.status, "failed"},
           media'.token \in {media.token, NoOwner},
           media'.token # NoOwner => media'.status = media.status,
           poster' = "releasing" => media'.status = "failed"
    PROVE  MediaInv'
<1>1. MediaTypeOK'
  BY MediaTyped DEF MediaTypeOK, MediaRow, PlaceRow, MakerState, MakerPc
<1>2. TokenIsOwn' /\ OwnedIsUnderWay' /\ ReleasedIsFailed'
  BY DEF MediaInv, TokenIsOwn, OwnedIsUnderWay, ReleasedIsFailed
<1>3. OwnerKnowsRow'
  BY MediaTyped DEF MediaInv, OwnerKnowsRow
<1>4. CreationIsSole'
  BY MediaTyped DEF MediaInv, CreationIsSole
<1> QED BY <1>1, <1>2, <1>3, <1>4 DEF MediaInv

(* What a step of the worker w has to respect.                             *)
LEMMA WorkerMoves ==
    ASSUME MediaInv, NEW w \in MediaWorker, NEW new \in MakerState,
           maker' = [maker EXCEPT ![w] = new],
           media' \in MediaRow, place' \in PlaceRow, UNCHANGED poster,
           OutcomeIsCharged',
           new.token \in {w, NoOwner}, new.pc \in Working => new.token = w,
           media.status = "failed" => media'.status = "failed",
           media'.token # NoOwner => media'.status \in UnderWay,
           \A v \in MediaWorker \ {w} : media'.token = v =>
               media.token = v /\ media'.status = media.status /\ media'.job = media.job,
           media'.token = w =>
               /\ new.pc \in KnowsStatus => media'.status = "submitting"
               /\ new.pc \in KnowsJob => new.job = media'.job,
           \A v \in MediaWorker \ {w} : maker[v].pc = "creating" =>
               /\ media'.status \in {"submitting", "failed"} /\ ~media'.job
               /\ new.pc # "creating" /\ (new.pc \in Working => media'.token # w),
           new.pc = "creating" =>
               /\ media'.status \in {"submitting", "failed"} /\ ~media'.job
               /\ \A v \in MediaWorker \ {w} : maker[v].pc \in Working => media'.token # v
    PROVE  MediaInv'
<1>1. maker'[w] = new /\ \A v \in MediaWorker \ {w} : maker'[v] = maker[v]
  BY MediaTyped
<1>2. MediaTypeOK'
  <2>1. maker' \in [MediaWorker -> MakerState]
    BY MediaTyped
  <2> QED BY <2>1 DEF MediaInv, MediaTypeOK, MediaRow, PlaceRow, MakerState, MakerPc
<1>3. TokenIsOwn'
  BY <1>1 DEF MediaInv, TokenIsOwn
<1>4. OwnedIsUnderWay' /\ ReleasedIsFailed'
  BY DEF MediaInv, OwnedIsUnderWay, ReleasedIsFailed
<1>5. OwnerKnowsRow'
  <2> SUFFICES ASSUME NEW v \in MediaWorker, media'.token = v
               PROVE  /\ maker'[v].pc \in KnowsStatus => media'.status = "submitting"
                      /\ maker'[v].pc \in KnowsJob => maker'[v].job = media'.job
    BY DEF OwnerKnowsRow
  <2>1. CASE v = w
    BY <1>1, <2>1
  <2>2. CASE v # w
    BY <1>1, <2>2 DEF MediaInv, OwnerKnowsRow
  <2> QED BY <2>1, <2>2
<1>6. CreationIsSole'
  <2> SUFFICES ASSUME NEW v \in MediaWorker, maker'[v].pc = "creating"
               PROVE  /\ media'.status \in {"submitting", "failed"} /\ ~media'.job
                      /\ \A u \in MediaWorker \ {v} :
                            maker'[u].pc # "creating" /\ (maker'[u].pc \in Working => media'.token # u)
    BY DEF CreationIsSole
  <2>1. CASE v = w
    BY <1>1, <2>1
  <2>2. CASE v # w
    <3>1. maker[v].pc = "creating" /\ maker'[v] = maker[v]
      BY <1>1, <2>2
    <3>2. \A u \in MediaWorker \ {v, w} :
             maker[u].pc # "creating" /\ (maker[u].pc \in Working => media.token # u)
      BY <3>1 DEF MediaInv, CreationIsSole
    <3> QED BY <1>1, <2>2, <3>1, <3>2
  <2> QED BY <2>1, <2>2
<1> QED BY <1>2, <1>3, <1>4, <1>5, <1>6 DEF MediaInv

-----------------------------------------------------------------------------
(* The request.                                                            *)

LEMMA RequestKeeps ==
    ASSUME MediaInv, EnqueueMedia \/ ConfirmHandoff \/ CompensateHandoff \/ PosterDies
    PROVE  MediaInv'
<1>1. CASE EnqueueMedia
  BY <1>1, MediaTyped, MediaMoves DEF EnqueueMedia, MediaInv, OutcomeIsCharged
<1>2. CASE ConfirmHandoff
  <2>1. CASE media.status = "queued" /\ ~media.confirmed
    <3> DEFINE row == [media EXCEPT !.confirmed = TRUE, !.age = "fresh"]
    <3>1. row \in MediaRow /\ row.status = media.status /\ row.token = media.token /\ row.job = media.job
      BY MediaTyped DEF MediaRow
    <3>2. media' = row /\ poster' \in {"done", "compensating"} /\ UNCHANGED <<place, maker>>
      BY <1>2, <2>1 DEF ConfirmHandoff
    <3>3. OutcomeIsCharged'
      BY <2>1, <3>1, <3>2 DEF MediaInv, OutcomeIsCharged
    <3> HIDE DEF row
    <3> QED BY <3>1, <3>2, <3>3, MediaTyped, MediaMoves
  <2>2. CASE ~(media.status = "queued" /\ ~media.confirmed)
    BY <1>2, <2>2, MediaTyped, MediaMoves DEF ConfirmHandoff, MediaInv, OutcomeIsCharged
  <2> QED BY <2>1, <2>2
<1>3. CASE CompensateHandoff
  <2>1. CASE media.status = "queued" /\ ~media.confirmed
    <3> DEFINE row == [media EXCEPT !.status = "failed"]
    <3>1. row \in MediaRow /\ row.status = "failed" /\ row.token = media.token /\ row.job = media.job
      BY RowsWritten
    <3>2. media' = row /\ poster' = "releasing" /\ UNCHANGED <<place, maker>>
      BY <1>3, <2>1 DEF CompensateHandoff
    <3>3. media.token = NoOwner
      BY <2>1 DEF MediaInv, OwnedIsUnderWay, UnderWay
    <3>4. OutcomeIsCharged'
      BY <2>1, <3>1, <3>2 DEF MediaInv, OutcomeIsCharged
    <3> HIDE DEF row
    <3> QED BY <3>1, <3>2, <3>3, <3>4, MediaTyped, MediaMoves
  <2>2. CASE ~(media.status = "queued" /\ ~media.confirmed)
    BY <1>3, <2>2, MediaTyped, MediaMoves DEF CompensateHandoff, MediaInv, OutcomeIsCharged
  <2> QED BY <2>1, <2>2
<1>4. CASE PosterDies
  BY <1>4, MediaTyped, MediaMoves DEF PosterDies, MediaInv, OutcomeIsCharged, ReleasedIsFailed
<1> QED BY <1>1, <1>2, <1>3, <1>4

LEMMA MediaReleaseKeeps == ASSUME MediaInv, ReleaseAfterHandoff PROVE MediaInv'
<1>1. media.status = "failed"
  BY DEF ReleaseAfterHandoff, MediaInv, ReleasedIsFailed
<1>2. OutcomeIsCharged'
  BY <1>1, FinalizedIsClosed DEF ReleaseAfterHandoff, MediaInv, OutcomeIsCharged
<1>3. place' \in PlaceRow
  BY FinalizedIsClosed DEF ReleaseAfterHandoff
<1> QED BY <1>1, <1>2, <1>3, MediaTyped, MediaMoves DEF ReleaseAfterHandoff, MediaInv, OwnedIsUnderWay, UnderWay

-----------------------------------------------------------------------------
(* The worker.                                                             *)

(* Who owns the row at work is the only one who may be in the call.        *)
LEMMA OwnerIsAlone ==
    ASSUME MediaInv, NEW w \in MediaWorker, maker[w].pc \in Working, Owns(w)
    PROVE  /\ media.token = w /\ maker[w].token = w /\ media.status \in UnderWay
           /\ place.status # "committed"
           /\ maker[w].pc \in KnowsStatus => media.status = "submitting"
           /\ maker[w].pc \in KnowsJob => maker[w].job = media.job
           /\ \A v \in MediaWorker \ {w} : maker[v].pc # "creating"
<1>1. media.token = w /\ maker[w].token = w
  BY DEF MediaInv, TokenIsOwn, Owns
<1>2. media.status \in UnderWay
  BY <1>1, MediaTyped DEF MediaInv, OwnedIsUnderWay
<1> QED BY <1>1, <1>2 DEF MediaInv, OwnerKnowsRow, CreationIsSole, OutcomeIsCharged, UnderWay

(* A worker stops or errs and leaves the row as it is.                     *)
LEMMA LeavesKeeps ==
    ASSUME MediaInv, NEW w \in MediaWorker, UNCHANGED <<media, place, poster>>,
           \/ Rests(w)
           \/ Turns(w, "rejected")
           \/ maker[w].pc \in Working /\ \E again \in BOOLEAN : Errs(w, again)
    PROVE  MediaInv'
<1>1. PICK new \in MakerState :
         /\ maker' = [maker EXCEPT ![w] = new]
         /\ new.pc \in {"idle", "rejected", "failing"}
         /\ new.token \in {w, NoOwner} /\ (new.pc = "failing" => new.token = w /\ maker[w].pc \in Working)
  <2>1. maker[w].token \in {w, NoOwner} /\ (maker[w].pc \in Working => maker[w].token = w)
    BY DEF MediaInv, TokenIsOwn
  <2>2. CASE Rests(w)
    BY <2>2, WorkerWritten DEF Rests
  <2>3. CASE Turns(w, "rejected")
    <3>1. "rejected" \in MakerPc
      BY DEF MakerPc
    <3> QED BY <2>1, <2>3, <3>1, WorkerWritten DEF Turns
  <2>4. ASSUME maker[w].pc \in Working, NEW again \in BOOLEAN, Errs(w, again)
        PROVE  \E new \in MakerState :
                  /\ maker' = [maker EXCEPT ![w] = new]
                  /\ new.pc \in {"idle", "rejected", "failing"}
                  /\ new.token \in {w, NoOwner} /\ (new.pc = "failing" => new.token = w /\ maker[w].pc \in Working)
    <3> DEFINE new == [maker[w] EXCEPT !.pc = "failing", !.again = again]
    <3>1. new \in MakerState /\ new.pc = "failing" /\ new.token = maker[w].token
      BY WorkerWritten
    <3>2. maker' = [maker EXCEPT ![w] = new]
      BY <2>4 DEF Errs
    <3> HIDE DEF new
    <3> QED BY <2>1, <2>4, <3>1, <3>2
  <2> QED BY <2>2, <2>3, <2>4
<1>2. OutcomeIsCharged'
  BY DEF MediaInv, OutcomeIsCharged
<1>3. media'.token # NoOwner => media'.status \in UnderWay
  BY DEF MediaInv, OwnedIsUnderWay
<1>4. \A v \in MediaWorker \ {w} : maker[v].pc = "creating" =>
          /\ media'.status \in {"submitting", "failed"} /\ ~media'.job
          /\ new.pc # "creating" /\ (new.pc \in Working => media'.token # w)
  BY <1>1 DEF MediaInv, CreationIsSole, Working
<1> QED BY <1>1, <1>2, <1>3, <1>4, MediaTyped, WorkerMoves DEF KnowsStatus, KnowsJob, Working

(* The owner goes on and keeps the row.                                    *)
LEMMA OwnerMoves ==
    ASSUME MediaInv, NEW w \in MediaWorker, maker[w].pc \in Working, Owns(w),
           NEW next \in Working, Turns(w, next), UNCHANGED <<place, poster>>,
           media' \in MediaRow, media'.token = w, media'.status \in UnderWay,
           next \in KnowsStatus => media'.status = "submitting",
           next \in KnowsJob => maker[w].job = media'.job,
           next = "creating" => ~media'.job
    PROVE  MediaInv'
<1> DEFINE new == [maker[w] EXCEPT !.pc = next]
<1>1. next \in MakerPc
  BY DEF Working, MakerPc
<1>2. /\ new \in MakerState /\ new.pc = next
      /\ new.token = maker[w].token /\ new.job = maker[w].job
  BY <1>1, WorkerWritten
<1>3. maker' = [maker EXCEPT ![w] = new]
  BY DEF Turns
<1>4. OutcomeIsCharged'
  BY OwnerIsAlone DEF OutcomeIsCharged, UnderWay
<1>5. media.status # "failed"
  BY OwnerIsAlone DEF UnderWay
<1>6. next = "creating" => media'.status \in {"submitting", "failed"}
  BY DEF KnowsStatus
<1>7. \A v \in MediaWorker \ {w} : media'.token # v
  OBVIOUS
<1>8. maker[w].token = w /\ \A v \in MediaWorker \ {w} : maker[v].pc # "creating"
  BY OwnerIsAlone
<1>9. place' \in PlaceRow
  BY MediaTyped
<1> HIDE DEF new
<1> QED BY <1>2, <1>3, <1>4, <1>5, <1>6, <1>7, <1>8, <1>9, WorkerMoves

LEMMA PulseKeeps ==
    ASSUME MediaInv, NEW w \in MediaWorker, maker[w].pc \in Working,
           NEW next \in Working, Pulse(w, next), UNCHANGED <<place, poster>>,
           next \in KnowsStatus => maker[w].pc \in KnowsStatus,
           next \in KnowsJob => maker[w].pc \in KnowsJob,
           next = "creating" => maker[w].pc \in KnowsJob /\ ~maker[w].job
    PROVE  MediaInv'
<1>1. CASE Owns(w) /\ Paid
  <2> DEFINE row == [media EXCEPT !.age = "fresh"]
  <2>1. row \in MediaRow /\ row.status = media.status /\ row.token = media.token /\ row.job = media.job
    BY RowsWritten
  <2>2. media' = row /\ Turns(w, next)
    BY <1>1 DEF Pulse
  <2> HIDE DEF row
  <2> QED BY <1>1, <2>1, <2>2, OwnerIsAlone, OwnerMoves
<1>2. CASE ~(Owns(w) /\ Paid)
  BY <1>2, LeavesKeeps DEF Pulse
<1> QED BY <1>1, <1>2

LEMMA ClaimKeeps ==
    ASSUME MediaInv, NEW w \in MediaWorker, ClaimMedia(w)
    PROVE  MediaInv'
<1>1. CASE media.status = "queued" /\ ~media.confirmed /\ UNCHANGED media
           /\ maker' = [maker EXCEPT ![w] = [Resting EXCEPT !.pc = "handoff"]]
  <2> DEFINE new == [Resting EXCEPT !.pc = "handoff"]
  <2>1. new \in MakerState /\ new.pc = "handoff" /\ new.token = NoOwner
    BY DEF Resting, MakerState, MakerPc
  <2>2. maker' = [maker EXCEPT ![w] = new] /\ UNCHANGED <<media, place, poster>>
    BY <1>1 DEF ClaimMedia
  <2>3. OutcomeIsCharged' /\ media.token = NoOwner
    BY <1>1, <2>2 DEF MediaInv, OutcomeIsCharged, OwnedIsUnderWay, UnderWay
  <2>4. \A v \in MediaWorker : maker[v].pc # "creating"
    BY <1>1 DEF MediaInv, CreationIsSole
  <2>5. \A v \in MediaWorker : media'.token # v
    BY <2>2, <2>3, MediaTyped
  <2>6. media' \in MediaRow /\ place' \in PlaceRow
    BY <2>2, MediaTyped
  <2>7. new.pc \notin Working
    BY <2>1 DEF Working
  <2> HIDE DEF new
  <2> QED BY <1>1, <2>1, <2>2, <2>3, <2>4, <2>5, <2>6, <2>7, WorkerMoves
<1>2. CASE Eligible
           /\ media' = [media EXCEPT !.status = "submitting", !.token = w, !.age = "fresh"]
           /\ maker' = [maker EXCEPT ![w] = [pc |-> IF MayStart THEN "claimed" ELSE "rejected",
                                             token |-> w, job |-> media.job, again |-> FALSE]]
  <2> DEFINE new == [pc |-> IF MayStart THEN "claimed" ELSE "rejected",
                     token |-> w, job |-> media.job, again |-> FALSE]
  <2> DEFINE row == [media EXCEPT !.status = "submitting", !.token = w, !.age = "fresh"]
  <2>1. /\ row \in MediaRow /\ row.status = "submitting" /\ row.token = w /\ row.job = media.job
    BY MediaTyped DEF MediaRow, Active
  <2>2. /\ new \in MakerState /\ new.token = w /\ new.job = media.job
        /\ new.pc = IF MayStart THEN "claimed" ELSE "rejected"
    BY MediaTyped DEF MakerState, MakerPc, MediaRow
  <2>3. maker' = [maker EXCEPT ![w] = new] /\ media' = row /\ UNCHANGED <<place, poster>>
    BY <1>2 DEF ClaimMedia
  <2> HIDE DEF new, row
  <2>4. media.status \in Active
    BY <1>2 DEF Eligible
  <2>5. OutcomeIsCharged'
    BY <2>1, <2>3, <2>4 DEF MediaInv, OutcomeIsCharged, Active
  <2>6. \A v \in MediaWorker \ {w} : maker[v].pc = "creating" =>
            ~media.job /\ new.pc = "rejected"
    BY <2>2, <2>4 DEF MediaInv, CreationIsSole, MayStart, Active
  <2>7. \A v \in MediaWorker \ {w} : media'.token # v
    BY <2>1, <2>3
  <2>8. /\ media' \in MediaRow /\ place' \in PlaceRow /\ UNCHANGED poster
        /\ media'.status = "submitting" /\ media'.token = w /\ media'.job = media.job
    BY <2>1, <2>3, MediaTyped
  <2>9. media.status # "failed" /\ media'.status \in UnderWay
    BY <2>4, <2>8 DEF Active, UnderWay
  <2>10. new.pc # "creating" /\ new.token \in {w, NoOwner}
    BY <2>2
  <2>11. ASSUME NEW v \in MediaWorker \ {w}, maker[v].pc = "creating"
         PROVE  /\ media'.status \in {"submitting", "failed"} /\ ~media'.job
                /\ new.pc # "creating" /\ (new.pc \in Working => media'.token # w)
    <3>1. ~media.job /\ new.pc = "rejected"
      BY <2>6, <2>11
    <3> QED BY <2>8, <3>1 DEF Working
  <2>12. /\ new.pc \in Working => new.token = w
         /\ new.pc \in KnowsStatus => media'.status = "submitting"
         /\ new.pc \in KnowsJob => new.job = media'.job
    BY <2>2, <2>8
  <2> QED BY <2>2, <2>3, <2>5, <2>7, <2>8, <2>9, <2>10, <2>11, <2>12, WorkerMoves
<1> QED BY <1>1, <1>2 DEF ClaimMedia

LEMMA HandoffEndsKeeps == ASSUME MediaInv, NEW w \in MediaWorker, HandoffEnds(w) PROVE MediaInv'
BY LeavesKeeps DEF HandoffEnds

LEMMA FailByIdentityKeeps ==
    ASSUME MediaInv, NEW w \in MediaWorker, FailByJobIdentity(w)
    PROVE  MediaInv'
<1> DEFINE row == [media EXCEPT !.status = "failed"]
<1>1. row \in MediaRow /\ row.status = "failed" /\ row.token = media.token /\ row.job = media.job
  BY RowsWritten
<1>2. /\ media' = row /\ place' = Finalized("released") /\ UNCHANGED <<poster, maker>>
      /\ media.token = NoOwner /\ media.status = "queued"
  BY DEF FailByJobIdentity
<1> HIDE DEF row
<1>3. OutcomeIsCharged'
  BY <1>1, <1>2, FinalizedIsClosed DEF MediaInv, OutcomeIsCharged
<1> QED BY <1>1, <1>2, <1>3, FinalizedIsClosed, MediaMoves DEF MediaInv, MediaTypeOK

LEMMA StartLeaseKeeps == ASSUME MediaInv, NEW w \in MediaWorker, StartLease(w) PROVE MediaInv'
BY PulseKeeps DEF StartLease, IsAt, Working, KnowsStatus, KnowsJob

LEMMA CallKeeps == ASSUME MediaInv, NEW w \in MediaWorker, CallProvider(w) PROVE MediaInv'
<1>1. maker[w].pc = "ready_to_create" /\ maker[w].pc \in Working /\ UNCHANGED <<place, poster>>
  BY DEF CallProvider, IsAt, Working
<1>2. CASE maker[w].job
  <2>1. CASE Owns(w) /\ media.status = "submitting"
    <3> DEFINE row == [media EXCEPT !.status = "generating"]
    <3>1. row \in MediaRow /\ row.status = "generating" /\ row.token = media.token /\ row.job = media.job
      BY RowsWritten DEF Active
    <3>2. media' = row /\ Turns(w, "polling")
      BY <1>2, <2>1 DEF CallProvider
    <3> HIDE DEF row
    <3> QED BY <1>1, <2>1, <3>1, <3>2, OwnerIsAlone, OwnerMoves DEF Working, KnowsStatus, KnowsJob, UnderWay
  <2>2. CASE ~(Owns(w) /\ media.status = "submitting")
    BY <1>1, <1>2, <2>2, LeavesKeeps DEF CallProvider
  <2> QED BY <2>1, <2>2
<1>3. CASE ~maker[w].job
  <2>1. Pulse(w, "creating")
    BY <1>3 DEF CallProvider
  <2> QED BY <1>1, <1>3, <2>1, PulseKeeps DEF Working, KnowsStatus, KnowsJob
<1> QED BY <1>2, <1>3

LEMMA CreateAnsweredKeeps == ASSUME MediaInv, NEW w \in MediaWorker, CreateAnswered(w) PROVE MediaInv'
<1>1. maker[w].pc = "creating" /\ maker[w].pc \in Working /\ UNCHANGED <<place, poster>>
  BY DEF CreateAnswered, IsAt, Working
<1>2. CASE Pulse(w, "persisting") \/ Pulse(w, "created")
  BY <1>1, <1>2, PulseKeeps DEF Working, KnowsStatus, KnowsJob
<1>3. CASE \E again \in BOOLEAN : UNCHANGED media /\ Errs(w, again)
  BY <1>1, <1>3, LeavesKeeps
<1> QED BY <1>2, <1>3 DEF CreateAnswered

LEMMA MarkKeeps == ASSUME MediaInv, NEW w \in MediaWorker, MarkGenerating(w) PROVE MediaInv'
<1>1. maker[w].pc = "created" /\ maker[w].pc \in Working /\ UNCHANGED <<place, poster>>
  BY DEF MarkGenerating, IsAt, Working
<1>2. CASE Owns(w) /\ media.status = "submitting"
  <2> DEFINE row == [media EXCEPT !.status = "generating", !.job = TRUE]
  <2>1. row \in MediaRow /\ row.status = "generating" /\ row.token = media.token /\ row.job = TRUE
    BY RowsWritten DEF Active
  <2>2. media' = row /\ Turns(w, "polling")
    BY <1>2 DEF MarkGenerating
  <2> HIDE DEF row
  <2> QED BY <1>1, <1>2, <2>1, <2>2, OwnerIsAlone, OwnerMoves DEF Working, KnowsStatus, KnowsJob, UnderWay
<1>3. CASE ~(Owns(w) /\ media.status = "submitting")
  BY <1>1, <1>3, LeavesKeeps DEF MarkGenerating
<1> QED BY <1>2, <1>3

LEMMA PollKeeps == ASSUME MediaInv, NEW w \in MediaWorker, Poll(w) PROVE MediaInv'
<1>1. maker[w].pc = "polling" /\ maker[w].pc \in Working /\ UNCHANGED <<place, poster>>
  BY DEF Poll, IsAt, Working
<1>2. CASE Pulse(w, "persisting")
  BY <1>1, <1>2, PulseKeeps DEF Working, KnowsStatus, KnowsJob
<1>3. CASE \E again \in BOOLEAN : UNCHANGED media /\ Errs(w, again)
  BY <1>1, <1>3, LeavesKeeps
<1> QED BY <1>2, <1>3 DEF Poll

LEMMA StartSavingKeeps == ASSUME MediaInv, NEW w \in MediaWorker, StartSaving(w) PROVE MediaInv'
<1>1. maker[w].pc = "persisting" /\ maker[w].pc \in Working /\ UNCHANGED <<place, poster>>
  BY DEF StartSaving, IsAt, Working
<1>2. CASE Owns(w) /\ media.status \in {"submitting", "generating"}
  <2> DEFINE row == [media EXCEPT !.status = "saving"]
  <2>1. row \in MediaRow /\ row.status = "saving" /\ row.token = media.token /\ row.job = media.job
    BY RowsWritten DEF Active
  <2>2. media' = row /\ Turns(w, "saving")
    BY <1>2 DEF StartSaving
  <2> HIDE DEF row
  <2> QED BY <1>1, <1>2, <2>1, <2>2, OwnerIsAlone, OwnerMoves DEF Working, KnowsStatus, KnowsJob, UnderWay
<1>3. CASE ~(Owns(w) /\ media.status \in {"submitting", "generating"})
  BY <1>1, <1>3, LeavesKeeps DEF StartSaving
<1> QED BY <1>2, <1>3

(* A worker rests, and the row has no owner any more.                      *)
LEMMA EndsKeeps ==
    ASSUME MediaInv, NEW w \in MediaWorker, Rests(w), UNCHANGED poster,
           media' \in MediaRow, place' \in PlaceRow, OutcomeIsCharged',
           media'.token = NoOwner, media'.job = media.job,
           media.status = "failed" => media'.status = "failed",
           media'.status = "failed" \/ \A v \in MediaWorker \ {w} : maker[v].pc # "creating"
    PROVE  MediaInv'
<1>1. maker' = [maker EXCEPT ![w] = Resting] /\ Resting \in MakerState
      /\ Resting.pc = "idle" /\ Resting.token = NoOwner
  BY WorkerWritten DEF Rests
<1>2. Resting.pc \notin Working /\ \A v \in MediaWorker : media'.token # v
  BY <1>1, MediaTyped DEF Working
<1>3. \A v \in MediaWorker \ {w} : maker[v].pc = "creating" =>
          media'.status \in {"submitting", "failed"} /\ ~media'.job
  BY DEF MediaInv, CreationIsSole
<1> QED BY <1>1, <1>2, <1>3, WorkerMoves

LEMMA SaveKeeps == ASSUME MediaInv, NEW w \in MediaWorker, Save(w) PROVE MediaInv'
<1>1. maker[w].pc = "saving" /\ maker[w].pc \in Working /\ UNCHANGED poster
  BY DEF Save, IsAt, Working
<1>2. CASE /\ Owns(w) /\ media.status = "saving" /\ Paid
           /\ media' = [media EXCEPT !.status = "ready", !.token = NoOwner]
           /\ place' = [place EXCEPT !.status = "committed"]
           /\ Rests(w)
  <2> DEFINE row == [media EXCEPT !.status = "ready", !.token = NoOwner]
  <2>1. row \in MediaRow /\ row.status = "ready" /\ row.token = NoOwner /\ row.job = media.job
    BY MediaTyped DEF MediaRow
  <2>2. place' \in PlaceRow /\ place'.status = "committed"
    BY <1>2, MediaTyped DEF PlaceRow
  <2>3. media' = row
    BY <1>2
  <2> HIDE DEF row
  <2>4. OutcomeIsCharged'
    BY <2>1, <2>2, <2>3 DEF OutcomeIsCharged
  <2>5. \A v \in MediaWorker \ {w} : maker[v].pc # "creating"
    BY <1>1, <1>2, OwnerIsAlone
  <2> QED BY <1>1, <1>2, <2>1, <2>2, <2>3, <2>4, <2>5, EndsKeeps
<1>3. CASE UNCHANGED <<media, place>> /\ \E again \in BOOLEAN : Errs(w, again)
  BY <1>1, <1>3, LeavesKeeps
<1> QED BY <1>2, <1>3 DEF Save

LEMMA RequeueKeeps == ASSUME MediaInv, NEW w \in MediaWorker, Requeue(w) PROVE MediaInv'
<1>1. CASE Owns(w) /\ media.status \in Active
  <2> DEFINE row == [media EXCEPT !.status = "queued", !.token = NoOwner, !.age = "fresh"]
  <2>1. row \in MediaRow /\ row.status = "queued" /\ row.token = NoOwner /\ row.job = media.job
    BY RowsWritten DEF Active
  <2>2. media' = row /\ UNCHANGED <<place, poster>> /\ Rests(w)
    BY <1>1 DEF Requeue
  <2> HIDE DEF row
  <2>3. \A v \in MediaWorker \ {w} : maker[v].pc # "creating"
    BY <1>1, OwnerIsAlone DEF Requeue, IsAt, Working
  <2>4. OutcomeIsCharged' /\ media.status # "failed"
    BY <1>1, <2>1, <2>2 DEF MediaInv, OutcomeIsCharged, Active
  <2> QED BY <2>1, <2>2, <2>3, <2>4, MediaTyped, EndsKeeps
<1>2. CASE ~(Owns(w) /\ media.status \in Active)
  BY <1>2, LeavesKeeps DEF Requeue
<1> QED BY <1>1, <1>2

LEMMA MediaFailKeeps == ASSUME MediaInv, NEW w \in MediaWorker, FailAndRelease(w) PROVE MediaInv'
<1>1. CASE Owns(w) /\ media.status \in Active
  <2>1. FailedRow \in MediaRow /\ FailedRow.status = "failed" /\ FailedRow.token = NoOwner
        /\ FailedRow.job = media.job
    BY RowsWritten DEF FailedRow
  <2>2. media' = FailedRow /\ place' = Finalized("released") /\ UNCHANGED poster /\ Rests(w)
    BY <1>1 DEF FailAndRelease
  <2>3. OutcomeIsCharged'
    BY <1>1, <2>1, <2>2, FinalizedIsClosed DEF MediaInv, OutcomeIsCharged, Active
  <2> QED BY <2>1, <2>2, <2>3, FinalizedIsClosed, EndsKeeps
<1>2. CASE ~(Owns(w) /\ media.status \in Active)
  BY <1>2, LeavesKeeps DEF FailAndRelease
<1> QED BY <1>1, <1>2

LEMMA BeatKeeps == ASSUME MediaInv, NEW w \in MediaWorker, Beat(w) PROVE MediaInv'
<1>1. maker[w].pc \in Working /\ UNCHANGED <<place, poster>>
  BY DEF Beat, Working
<1>2. CASE Owns(w) /\ Paid
  <2> DEFINE row == [media EXCEPT !.age = "fresh"]
  <2>1. row \in MediaRow /\ row.status = media.status /\ row.token = media.token /\ row.job = media.job
    BY RowsWritten
  <2>2. media' = row /\ UNCHANGED maker
    BY <1>2 DEF Beat
  <2> HIDE DEF row
  <2>3. OutcomeIsCharged' /\ (poster' = "releasing" => media'.status = "failed")
    BY <1>1, <2>1, <2>2 DEF MediaInv, OutcomeIsCharged, ReleasedIsFailed
  <2> QED BY <1>1, <2>1, <2>2, <2>3, MediaTyped, MediaMoves DEF MediaInv, MediaTypeOK
<1>3. CASE ~(Owns(w) /\ Paid)
  BY <1>1, <1>3, LeavesKeeps DEF Beat
<1> QED BY <1>2, <1>3

LEMMA DiesKeeps == ASSUME MediaInv, NEW w \in MediaWorker, WorkerDies(w) PROVE MediaInv'
BY LeavesKeeps DEF WorkerDies

-----------------------------------------------------------------------------
(* The repairs and the time.                                               *)

LEMMA CleanKeeps == ASSUME MediaInv, CleanStale PROVE MediaInv'
<1>1. FailedRow \in MediaRow /\ FailedRow.status = "failed" /\ FailedRow.token = NoOwner
      /\ FailedRow.job = media.job
  BY RowsWritten DEF FailedRow
<1>2. place' \in PlaceRow /\ place'.status # "reserved"
      /\ (place'.status = "committed" => place.status = "committed")
  BY MediaTyped DEF CleanStale, PlaceRow
<1>3. media' = FailedRow /\ UNCHANGED <<poster, maker>> /\ media.status \in Active
  BY DEF CleanStale
<1>4. OutcomeIsCharged'
  BY <1>1, <1>2, <1>3 DEF MediaInv, OutcomeIsCharged, Active
<1> QED BY <1>1, <1>2, <1>3, <1>4, MediaMoves DEF MediaInv, MediaTypeOK

LEMMA AgesKeep == ASSUME MediaInv, MediaAges PROVE MediaInv'
<1>1. /\ media' \in MediaRow /\ media'.status = media.status
      /\ media'.token = media.token /\ media'.job = media.job
  <2>1. \E age \in {"fresh", "stale", "dead"} : media' = [media EXCEPT !.age = age] \/ media' = media
    BY DEF MediaAges
  <2> QED BY <2>1, RowsWritten, MediaTyped
<1>2. place' \in PlaceRow /\ place'.status = place.status
  BY MediaTyped DEF MediaAges, PlaceRow
<1>3. UNCHANGED <<poster, maker>>
  BY DEF MediaAges
<1>4. OutcomeIsCharged' /\ (poster' = "releasing" => media'.status = "failed")
  BY <1>1, <1>2, <1>3 DEF MediaInv, OutcomeIsCharged, ReleasedIsFailed
<1> QED BY <1>1, <1>2, <1>3, <1>4, MediaMoves DEF MediaInv, MediaTypeOK

LEMMA ExpiresKeeps == ASSUME MediaInv, PlaceExpires PROVE MediaInv'
<1>1. place' \in PlaceRow /\ place'.status = "expired" /\ place.status = "reserved"
  BY MediaTyped DEF PlaceExpires, PlaceRow
<1>2. UNCHANGED <<media, poster, maker>>
  BY DEF PlaceExpires
<1>3. OutcomeIsCharged' /\ (poster' = "releasing" => media'.status = "failed")
  BY <1>1, <1>2 DEF MediaInv, OutcomeIsCharged, ReleasedIsFailed
<1> QED BY <1>1, <1>2, <1>3, MediaTyped, MediaMoves DEF MediaInv, MediaTypeOK

-----------------------------------------------------------------------------
LEMMA MediaStarts == ASSUME MediaInit PROVE MediaInv
<1>1. MediaTypeOK
  BY DEF MediaInit, MediaTypeOK, Resting, Active
<1>2. OutcomeIsCharged /\ OwnedIsUnderWay /\ ReleasedIsFailed
  BY DEF MediaInit, OutcomeIsCharged, OwnedIsUnderWay, ReleasedIsFailed
<1>3. TokenIsOwn /\ OwnerKnowsRow /\ CreationIsSole
  BY MediaAssumption DEF MediaInit, Resting, TokenIsOwn, OwnerKnowsRow, CreationIsSole, Working
<1> QED BY <1>1, <1>2, <1>3 DEF MediaInv

LEMMA MediaSteps == ASSUME MediaInv, [MediaNext]_mediaVars PROVE MediaInv'
<1>1. CASE EnqueueMedia \/ ConfirmHandoff \/ CompensateHandoff \/ ReleaseAfterHandoff \/ PosterDies
  BY <1>1, RequestKeeps, MediaReleaseKeeps
<1>2. ASSUME NEW w \in MediaWorker,
             \/ ClaimMedia(w) \/ HandoffEnds(w) \/ FailByJobIdentity(w) \/ StartLease(w) \/ CallProvider(w)
             \/ CreateAnswered(w) \/ MarkGenerating(w) \/ Poll(w) \/ StartSaving(w) \/ Save(w)
             \/ Requeue(w) \/ FailAndRelease(w) \/ Beat(w) \/ WorkerDies(w)
      PROVE  MediaInv'
  BY <1>2, ClaimKeeps, HandoffEndsKeeps, FailByIdentityKeeps, StartLeaseKeeps, CallKeeps,
     CreateAnsweredKeeps, MarkKeeps, PollKeeps, StartSavingKeeps, SaveKeeps, RequeueKeeps,
     MediaFailKeeps, BeatKeeps, DiesKeeps
<1>3. CASE CleanStale \/ MediaAges \/ PlaceExpires
  BY <1>3, CleanKeeps, AgesKeep, ExpiresKeeps
<1>4. CASE UNCHANGED mediaVars
  BY <1>4 DEF mediaVars, MediaInv, MediaTypeOK, OutcomeIsCharged, TokenIsOwn, OwnedIsUnderWay,
      ReleasedIsFailed, OwnerKnowsRow, CreationIsSole
<1> QED BY <1>1, <1>2, <1>3, <1>4 DEF MediaNext

(* The inductive invariant holds of every state of the generation.         *)
THEOREM MediaInvariance == MediaSpec => []MediaInv
<1>1. MediaInit => MediaInv
  BY MediaStarts
<1>2. MediaInv /\ [MediaNext]_mediaVars => MediaInv'
  BY MediaSteps
<1> QED BY <1>1, <1>2, PTL DEF MediaSpec

(* Row, place, request and workers keep their types.                       *)
THEOREM MediaTypes == MediaSpec => []MediaTypeOK
<1>1. MediaInv => MediaTypeOK
  BY DEF MediaInv
<1> QED BY <1>1, MediaInvariance, PTL

(* A generation is ready exactly when it was charged, and a failed one     *)
(* holds no place, but for a request that died (completeAndCommit,         *)
(* failAndRelease, compensation of the hand-off).                          *)
THEOREM ReadyIsCharged == MediaSpec => []OutcomeIsCharged
<1>1. MediaInv => OutcomeIsCharged
  BY DEF MediaInv
<1> QED BY <1>1, MediaInvariance, PTL

(* The provider is never asked by two workers at once for one generation,  *)
(* nor again once its job is known (claim of the media worker).            *)
THEOREM CreationIsNotDoubled == MediaSpec => []OneCreationAtATime
<1>1. MediaInv => OneCreationAtATime
  BY DEF MediaInv, CreationIsSole, OneCreationAtATime, IsAt
<1> QED BY <1>1, MediaInvariance, PTL

-----------------------------------------------------------------------------
(* What another step may do to the row of an owner with a fresh heartbeat. *)
LEMMA FreshRowIsLeftAlone ==
    ASSUME MediaInv, MediaNext, NEW w \in MediaWorker,
           ~IsAt(w, "idle"), maker'[w] = maker[w], media.token = w, media.age = "fresh"
    PROVE  /\ media' \in {media, [media EXCEPT !.age = "stale"]}
           /\ place' = place \/ place.lapsed
<1>1. media.status \in UnderWay /\ media.token # NoOwner
  BY MediaTyped DEF MediaInv, OwnedIsUnderWay
<1>2. CASE EnqueueMedia \/ ConfirmHandoff \/ CompensateHandoff \/ PosterDies
  BY <1>1, <1>2 DEF EnqueueMedia, ConfirmHandoff, CompensateHandoff, PosterDies, UnderWay
<1>3. CASE ReleaseAfterHandoff
  BY <1>1, <1>3 DEF ReleaseAfterHandoff, MediaInv, ReleasedIsFailed, UnderWay
<1>4. CASE CleanStale \/ MediaAges \/ PlaceExpires
  BY <1>4 DEF CleanStale, MediaAges, PlaceExpires
<1>5. ASSUME NEW v \in MediaWorker, v # w,
             \/ ClaimMedia(v) \/ HandoffEnds(v) \/ FailByJobIdentity(v) \/ StartLease(v) \/ CallProvider(v)
             \/ CreateAnswered(v) \/ MarkGenerating(v) \/ Poll(v) \/ StartSaving(v) \/ Save(v)
             \/ Requeue(v) \/ FailAndRelease(v) \/ Beat(v) \/ WorkerDies(v)
      PROVE  UNCHANGED <<media, place>>
  <2>1. ~Owns(v)
    BY <1>1, <1>5 DEF MediaInv, TokenIsOwn, Owns
  <2>2. ~Eligible
    BY <1>1 DEF Eligible, UnderWay
  <2>3. CASE ClaimMedia(v) \/ HandoffEnds(v) \/ FailByJobIdentity(v) \/ WorkerDies(v)
    BY <1>1, <2>2, <2>3 DEF ClaimMedia, HandoffEnds, FailByJobIdentity, WorkerDies
  <2>4. CASE StartLease(v) \/ CallProvider(v) \/ CreateAnswered(v) \/ MarkGenerating(v) \/ Poll(v)
             \/ StartSaving(v)
    BY <2>1, <2>4 DEF StartLease, CallProvider, CreateAnswered, MarkGenerating, Poll, StartSaving, Pulse
  <2>5. CASE Save(v) \/ Requeue(v) \/ FailAndRelease(v) \/ Beat(v)
    BY <2>1, <2>5 DEF Save, Requeue, FailAndRelease, Beat
  <2> QED BY <1>5, <2>3, <2>4, <2>5
<1>6. ASSUME \/ ClaimMedia(w) \/ HandoffEnds(w) \/ FailByJobIdentity(w) \/ StartLease(w) \/ CallProvider(w)
             \/ CreateAnswered(w) \/ MarkGenerating(w) \/ Poll(w) \/ StartSaving(w) \/ Save(w)
             \/ Requeue(w) \/ FailAndRelease(w) \/ Beat(w) \/ WorkerDies(w)
      PROVE  UNCHANGED <<media, place>>
  <2>1. maker[w].pc # "idle" /\ maker \in [MediaWorker -> MakerState]
    BY MediaTyped DEF IsAt
  <2>2. \A pc : Turns(w, pc) => maker[w].pc = pc
    BY <2>1 DEF Turns, MakerState
  <2>3. \A again \in BOOLEAN : Errs(w, again) => maker[w].pc = "failing"
    <3> SUFFICES ASSUME NEW again \in BOOLEAN, Errs(w, again) PROVE maker[w].pc = "failing"
      OBVIOUS
    <3> DEFINE new == [maker[w] EXCEPT !.pc = "failing", !.again = again]
    <3>1. new.pc = "failing"
      BY WorkerWritten
    <3>2. maker'[w] = new
      BY <2>1 DEF Errs
    <3> QED BY <3>1, <3>2
  <2>4. ~Rests(w)
    BY <2>1 DEF Rests, Resting
  <2>5. \A next : Pulse(w, next) => maker[w].pc \in {next, "failing"}
    BY <2>2, <2>3 DEF Pulse
  <2>6. CASE ClaimMedia(w) \/ HandoffEnds(w) \/ FailByJobIdentity(w) \/ WorkerDies(w)
    BY <2>1, <2>4, <2>6 DEF ClaimMedia, HandoffEnds, FailByJobIdentity, WorkerDies, IsAt
  <2>7. CASE StartLease(w) \/ CallProvider(w) \/ CreateAnswered(w) \/ Poll(w)
    <3>1. ~Pulse(w, "ready_to_create") \/ maker[w].pc \in {"ready_to_create", "failing"}
      BY <2>5
    <3>2. ~Pulse(w, "creating") \/ maker[w].pc \in {"creating", "failing"}
      BY <2>5
    <3>3. ~Pulse(w, "persisting") \/ maker[w].pc \in {"persisting", "failing"}
      BY <2>5
    <3>4. ~Pulse(w, "created") \/ maker[w].pc \in {"created", "failing"}
      BY <2>5
    <3>5. ~Turns(w, "polling") \/ maker[w].pc = "polling"
      BY <2>2
    <3> QED BY <2>3, <2>7, <3>1, <3>2, <3>3, <3>4, <3>5 DEF StartLease, CallProvider, CreateAnswered, Poll, IsAt
  <2>8. CASE MarkGenerating(w) \/ StartSaving(w) \/ Save(w)
    BY <2>2, <2>3, <2>4, <2>8 DEF MarkGenerating, StartSaving, Save, IsAt
  <2>9. CASE Requeue(w) \/ FailAndRelease(w)
    BY <2>4, <2>9 DEF Requeue, FailAndRelease
  <2>10. CASE Beat(w)
    BY <2>3, <2>10 DEF Beat
  <2> QED BY <1>6, <2>6, <2>7, <2>8, <2>9, <2>10
<1> QED BY <1>2, <1>3, <1>4, <1>5, <1>6 DEF MediaNext

(* "An older worker cannot fail or release the reservation of its          *)
(* successor": nobody else writes to the row of a worker whose heartbeat   *)
(* is fresh (locks and token checks of media-generation-store.mjs).        *)
THEOREM OlderWorkerHarmsNobody == MediaSpec => OlderWorkerIsHarmless
<1>1. MediaInv /\ [MediaNext]_mediaVars =>
         [\A w \in MediaWorker :
            ~IsAt(w, "idle") /\ maker'[w] = maker[w] /\ media.token = w /\ media.age = "fresh" =>
                /\ media' \in {media, [media EXCEPT !.age = "stale"]}
                /\ place' = place \/ place.lapsed]_mediaVars
  BY FreshRowIsLeftAlone
<1> QED BY <1>1, MediaInvariance, PTL DEF MediaSpec, OlderWorkerIsHarmless
=============================================================================
