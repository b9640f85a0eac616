--------------------------- MODULE PollingProofs ---------------------------
(* Proofs, for any number of worker processes and of updates, of what      *)
(* PollingLease promises about the commands people send.                   *)
(*                                                                        *)
(* The argument for NoUpdateLost: the offset a process asks for is one it  *)
(* read in the database, so Telegram forgets nothing that is not recorded; *)
(* and all before the update at hand has been carried out, by whichever    *)
(* process.  For RepetitionHasReason: what was carried out and has no      *)
(* excuse is behind the offset or in the hands of the owner of the lease,  *)
(* and the owner, who took the lease before it read the offset, has        *)
(* nothing of the kind before it.  CommandsInOrder needs, besides, that    *)
(* nothing is left before the update of a process that drains without the  *)
(* lease.                                                                  *)
EXTENDS PollingLease, TLAPS

CarriedOut(u) == u \in finished \cup skipped
Unexcused == finished \ excused

Fetched == {"answered", "batch", "handling", "handled", "failed", "recording"}
AtUpdate == {"batch", "handling", "handled", "failed", "recording", "stopping"}

(* The update at hand is one of the batch.                                 *)
PlaceIsKnown(p) ==
    /\ poller[p].pc \in {"asking"} \cup Fetched \cup AtUpdate => poller[p].next >= 1
    /\ poller[p].pc \in AtUpdate => poller[p].next <= poller[p].upto

(* The offset asked for is in the database.                                *)
OffsetIsDurable(p) == poller[p].pc = "asking" => poller[p].next <= lastUpdate + 1

(* What comes before the update at hand has been carried out.              *)
BatchIsNext(p) ==
    /\ poller[p].pc \in Fetched =>
          \A u \in UpdateId : u < poller[p].next => CarriedOut(u)
    /\ poller[p].pc \in {"handled", "recording"} => CarriedOut(poller[p].next)

(* Who has an update in hand without the lease has an excuse.              *)
LossIsExcused(p) ==
    /\ InHand(p) => leaseKey = p \/ poller[p].next \in excused
    /\ poller[p].pc = "stopping" => poller[p].next \in excused

(* The owner of the lease has before it nothing that was carried out, but  *)
(* for what has an excuse.                                                 *)
OwnerIsFirst(p) ==
    leaseKey = p =>
        /\ poller[p].pc \in {"asking", "answered", "batch", "handling", "failed"} =>
              \A u \in Unexcused : u < poller[p].next
        /\ poller[p].pc \in {"handled", "recording"} =>
              \A u \in Unexcused : u <= poller[p].next

PollerOK(p) ==
    /\ PlaceIsKnown(p)
    /\ OffsetIsDurable(p)
    /\ BatchIsNext(p)
    /\ LossIsExcused(p)
    /\ OwnerIsFirst(p)

(* The offset and what Telegram forgot are of updates carried out.         *)
OffsetIsCarriedOut ==
    /\ dropped <= lastUpdate
    /\ \A u \in UpdateId : u <= lastUpdate => CarriedOut(u)

(* What was carried out is recorded, excused, or about to be recorded by   *)
(* the owner of the lease.                                                 *)
DoneIsKept ==
    \A u \in Unexcused :
        \/ u <= lastUpdate
        \/ \E p \in Poller : /\ leaseKey = p /\ poller[p].next = u
                             /\ poller[p].pc \in {"handled", "recording"}

PollingInv ==
    /\ PollingTypeOK
    /\ \A p \in Poller : PollerOK(p)
    /\ OffsetIsCarriedOut
    /\ DoneIsKept
    /\ RepetitionHasReason

-----------------------------------------------------------------------------
LEMMA InitInv == PollingInit => PollingInv
<1> SUFFICES ASSUME PollingInit PROVE PollingInv
  OBVIOUS
<1>1. Started \in PollerState
  <2>1. 0 \in 0..LastUpdateId /\ 0 \in 0..(LastUpdateId + 1) /\ 0 \in 0..(UpdateMaxAttempts - 1)
    BY PollingAssumption
  <2> QED BY <2>1 DEF Started, PollerState
<1>2. PollingTypeOK
  BY <1>1, PollingAssumption DEF PollingInit, PollingTypeOK
<1>3. \A p \in Poller : PollerOK(p)
  BY PollingAssumption
     DEF PollingInit, Started, PollerOK, PlaceIsKnown, OffsetIsDurable, BatchIsNext, LossIsExcused,
         OwnerIsFirst, InHand, Fetched, AtUpdate
<1>4. OffsetIsCarriedOut /\ DoneIsKept /\ RepetitionHasReason
  BY DEF PollingInit, OffsetIsCarriedOut, DoneIsKept, Unexcused, RepetitionHasReason, UpdateId
<1> QED BY <1>2, <1>3, <1>4 DEF PollingInv

(* What is known of a process and of the offset, with their types.         *)
LEMMA Known ==
    ASSUME PollingInv, NEW p \in Poller
    PROVE  /\ poller \in [Poller -> PollerState]
           /\ poller[p].next \in 0..(LastUpdateId + 1) /\ poller[p].upto \in 0..LastUpdateId
           /\ poller[p].next \in Nat /\ poller[p].upto \in Nat
           /\ lastUpdate \in 0..LastUpdateId /\ dropped \in 0..LastUpdateId
           /\ lastUpdate \in Nat /\ dropped \in Nat /\ LastUpdateId \in Nat
           /\ finished \subseteq UpdateId /\ skipped \subseteq UpdateId
           /\ repeated \subseteq UpdateId /\ excused \subseteq UpdateId
           /\ UpdateId \subseteq Nat
           /\ poller[p].pc \in AtUpdate => poller[p].next \in UpdateId
<1>1. poller[p] \in PollerState /\ PlaceIsKnown(p)
  BY DEF PollingInv, PollingTypeOK, PollerOK
<1>2. poller[p].next \in 0..(LastUpdateId + 1) /\ poller[p].upto \in 0..LastUpdateId
  BY <1>1 DEF PollerState
<1>3. LastUpdateId \in Nat
  BY PollingAssumption
<1>4. poller[p].pc \in AtUpdate => poller[p].next \in UpdateId
  BY <1>1, <1>2, <1>3 DEF PlaceIsKnown, UpdateId
<1> QED BY <1>2, <1>3, <1>4 DEF PollingInv, PollingTypeOK, UpdateId

(* The others keep what holds of them.                                     *)
LEMMA OthersKeep ==
    ASSUME PollingInv, NEW q \in Poller, poller'[q] = poller[q],
           lastUpdate' \in Nat, lastUpdate <= lastUpdate',
           finished \subseteq finished', skipped \subseteq skipped', excused \subseteq excused',
           leaseKey' = q => leaseKey = q,
           leaseKey = q => leaseKey' = q \/ (InHand(q) => poller[q].next \in excused'),
           leaseKey = q => Unexcused' \subseteq Unexcused
    PROVE  PollerOK(q)'
<1>1. PollerOK(q) /\ poller[q].next \in Nat /\ lastUpdate \in Nat
  BY Known DEF PollingInv
<1>2. PlaceIsKnown(q)' /\ OffsetIsDurable(q)'
  BY <1>1 DEF PollerOK, PlaceIsKnown, OffsetIsDurable
<1>3. BatchIsNext(q)'
  BY <1>1 DEF PollerOK, BatchIsNext, CarriedOut
<1>4. LossIsExcused(q)'
  BY <1>1 DEF PollerOK, LossIsExcused, InHand
<1>5. OwnerIsFirst(q)'
  BY <1>1 DEF PollerOK, OwnerIsFirst
<1> QED BY <1>2, <1>3, <1>4, <1>5 DEF PollerOK

LEMMA DoneStaysKept ==
    ASSUME PollingInv, lastUpdate' \in Nat, lastUpdate <= lastUpdate',
           Unexcused' \subseteq Unexcused,
           \A p \in Poller :
               leaseKey = p /\ poller[p].pc \in {"handled", "recording"} =>
                   \/ poller[p].next \notin Unexcused'
                   \/ poller[p].next <= lastUpdate'
                   \/ /\ leaseKey' = p /\ poller'[p].next = poller[p].next
                      /\ poller'[p].pc \in {"handled", "recording"}
    PROVE  DoneIsKept'
<1>1. lastUpdate \in Nat /\ \A u \in Unexcused : u \in Nat
  BY PollingAssumption DEF PollingInv, PollingTypeOK, Unexcused, UpdateId
<1> QED BY <1>1 DEF PollingInv, DoneIsKept

LEMMA OffsetStaysCarriedOut ==
    ASSUME PollingInv, UNCHANGED <<dropped, lastUpdate>>,
           finished \subseteq finished', skipped \subseteq skipped'
    PROVE  OffsetIsCarriedOut'
BY DEF PollingInv, OffsetIsCarriedOut, CarriedOut

(* Where a process has no update and no offset in hand.                    *)
Rest == {"top", "arming", "opening", "fetching", "refused"}

LEMMA AtRest ==
    ASSUME NEW p \in Poller, poller'[p].pc \in Rest
    PROVE  PollerOK(p)'
BY DEF Rest, PollerOK, PlaceIsKnown, OffsetIsDurable, BatchIsNext, LossIsExcused, OwnerIsFirst,
       InHand, Fetched, AtUpdate

LEMMA ExcusesTyped ==
    ASSUME PollingInv, NEW p \in Poller, Excuses(p)
    PROVE  /\ excused' \subseteq UpdateId /\ excused \subseteq excused'
           /\ InHand(p) => poller[p].next \in excused'
<1>1. InHand(p) => poller[p].next \in UpdateId
  BY Known DEF InHand, AtUpdate
<1> QED BY <1>1 DEF Excuses, PollingInv, PollingTypeOK

(* A process comes to rest, and may take the lease when nobody has it, or   *)
(* give it back; what it had in hand is excused.                           *)
LEMMA ComesToRest ==
    ASSUME PollingInv, NEW p \in Poller,
           poller' \in [Poller -> PollerState], poller'[p].pc \in Rest,
           \A q \in Poller \ {p} : poller'[q] = poller[q],
           leaseKey' \in {leaseKey, p, NoPoller},
           leaseKey' = leaseKey \/ leaseKey \in {p, NoPoller},
           gate' \in BOOLEAN, UNCHANGED <<dropped, lastUpdate, finished, skipped, repeated>>,
           Excuses(p)
    PROVE  PollingInv'
<1>1. /\ excused' \subseteq UpdateId /\ excused \subseteq excused'
      /\ InHand(p) => poller[p].next \in excused'
  BY ExcusesTyped
<1>2. PollingTypeOK'
  BY <1>1 DEF PollingInv, PollingTypeOK
<1>3. Unexcused' \subseteq Unexcused
  BY <1>1 DEF Unexcused
<1>4. lastUpdate' \in Nat /\ lastUpdate <= lastUpdate'
  BY Known
<1>5. ASSUME NEW q \in Poller \ {p} PROVE PollerOK(q)'
  <2>1. leaseKey' = q => leaseKey = q
    BY PollingAssumption
  <2>2. leaseKey = q => leaseKey' = q
    BY PollingAssumption
  <2> QED BY <1>1, <1>3, <1>4, <2>1, <2>2, OthersKeep
<1>6. PollerOK(p)'
  BY AtRest
<1>7. DoneIsKept'
  <2>1. ASSUME NEW q \in Poller, leaseKey = q, poller[q].pc \in {"handled", "recording"}
        PROVE  \/ poller[q].next \notin Unexcused'
               \/ /\ leaseKey' = q /\ poller'[q].next = poller[q].next
                  /\ poller'[q].pc \in {"handled", "recording"}
    <3>1. CASE q = p
      BY <1>1, <2>1, <3>1 DEF InHand, Unexcused
    <3>2. CASE q # p
      BY <2>1, <3>2, PollingAssumption
    <3> QED BY <3>1, <3>2
  <2> QED BY <1>3, <1>4, <2>1, DoneStaysKept
<1>8. OffsetIsCarriedOut' /\ RepetitionHasReason'
  BY OffsetStaysCarriedOut DEF PollingInv, RepetitionHasReason
<1> QED BY <1>2, <1>5, <1>6, <1>7, <1>8 DEF PollingInv

(* How the local state of a process changes.                               *)
LEMMA BackRests ==
    ASSUME PollingInv, NEW p \in Poller, Back(p) \/ Unowned(p)
    PROVE  /\ poller' \in [Poller -> PollerState] /\ poller'[p].pc \in Rest
           /\ \A q \in Poller \ {p} : poller'[q] = poller[q]
<1>1. poller \in [Poller -> PollerState] /\ poller[p] \in PollerState
  BY DEF PollingInv, PollingTypeOK
<1>2. 0 \in 0..LastUpdateId /\ 0 \in 0..(LastUpdateId + 1)
  BY PollingAssumption
<1>3. CASE Back(p)
  <2> DEFINE new == [poller[p] EXCEPT !.pc = "top", !.next = 0, !.upto = 0]
  <2>1. new \in PollerState /\ new.pc = "top"
    BY <1>1, <1>2 DEF PollerState
  <2>2. poller' = [poller EXCEPT ![p] = new]
    BY <1>3 DEF Back
  <2> QED BY <1>1, <2>1, <2>2 DEF Rest
<1>4. CASE Unowned(p)
  <2> DEFINE new == [poller[p] EXCEPT !.pc = "top", !.next = 0, !.upto = 0,
                                      !.held = FALSE, !.open = FALSE]
  <2>1. new \in PollerState /\ new.pc = "top"
    BY <1>1, <1>2 DEF PollerState
  <2>2. poller' = [poller EXCEPT ![p] = new]
    BY <1>4 DEF Unowned
  <2> QED BY <1>1, <2>1, <2>2 DEF Rest
<1> QED BY <1>3, <1>4

LEMMA GoesOn ==
    ASSUME PollingInv, NEW p \in Poller,
           NEW pc \in {"opening", "fetching", "batch", "handling", "handled", "failed", "recording"},
           GoesTo(p, pc)
    PROVE  /\ poller' \in [Poller -> PollerState] /\ poller'[p].pc = pc
           /\ poller'[p].next = poller[p].next /\ poller'[p].upto = poller[p].upto
           /\ \A q \in Poller \ {p} : poller'[q] = poller[q]
<1>1. poller \in [Poller -> PollerState] /\ poller[p] \in PollerState
  BY DEF PollingInv, PollingTypeOK
<1> DEFINE new == [poller[p] EXCEPT !.pc = pc]
<1>2. new \in PollerState /\ new.pc = pc /\ new.next = poller[p].next /\ new.upto = poller[p].upto
  BY <1>1 DEF PollerState
<1>3. poller' = [poller EXCEPT ![p] = new]
  BY DEF GoesTo
<1> QED BY <1>1, <1>2, <1>3

-----------------------------------------------------------------------------
(* The lease, and the opening of the queue.                                *)

LEMMA LeaseKeeps ==
    ASSUME PollingInv, NEW p \in Poller,
           LeaseLost(p) \/ EnsureLease(p) \/ RenewalFails(p) \/ PollerDies(p)
    PROVE  PollingInv'
<1>1. poller \in [Poller -> PollerState] /\ poller[p] \in PollerState /\ gate \in BOOLEAN
  BY DEF PollingInv, PollingTypeOK
<1>2. CASE LeaseLost(p)
  BY <1>1, <1>2, BackRests, ComesToRest DEF LeaseLost
<1>3. CASE EnsureLease(p)
  <2>1. Does(p, "top") /\ UNCHANGED <<gate, dropped, lastUpdate, updateGhosts>>
    BY <1>3 DEF EnsureLease
  <2>2. Excuses(p)
    BY <2>1 DEF Excuses, InHand, Does, updateGhosts
  <2>3. CASE leaseKey \in {NoPoller, p} /\ (poller[p].held => leaseKey = p)
    <3> DEFINE new == [poller[p] EXCEPT !.held = TRUE,
                                        !.pc = IF poller[p].open THEN "fetching" ELSE "arming"]
    <3>1. new \in PollerState /\ new.pc \in Rest
      BY <1>1 DEF PollerState, Rest
    <3>2. poller' = [poller EXCEPT ![p] = new] /\ leaseKey' = p
      BY <1>3, <2>3 DEF EnsureLease
    <3> QED BY <1>1, <2>1, <2>2, <2>3, <3>1, <3>2, ComesToRest DEF updateGhosts
  <2>4. CASE ~(leaseKey \in {NoPoller, p} /\ (poller[p].held => leaseKey = p))
    <3>1. Unowned(p) /\ UNCHANGED leaseKey
      BY <1>3, <2>4 DEF EnsureLease
    <3> QED BY <1>1, <2>1, <2>2, <3>1, BackRests, ComesToRest DEF updateGhosts
  <2> QED BY <2>3, <2>4
<1>4. CASE RenewalFails(p)
  <2> DEFINE new == [poller[p] EXCEPT !.held = FALSE, !.open = FALSE]
  <2>1. new \in PollerState /\ new.pc = poller[p].pc
        /\ new.next = poller[p].next /\ new.upto = poller[p].upto
    BY <1>1 DEF PollerState
  <2>2. poller' = [poller EXCEPT ![p] = new]
        /\ UNCHANGED <<leaseKey, gate, dropped, lastUpdate, finished, skipped, excused, repeated>>
    BY <1>4 DEF RenewalFails, updateGhosts
  <2> HIDE DEF new
  <2>3. \A q \in Poller : poller'[q].pc = poller[q].pc /\ poller'[q].next = poller[q].next
                         /\ poller'[q].upto = poller[q].upto
    BY <1>1, <2>1, <2>2
  <2>4. PollingTypeOK'
    BY <1>1, <2>1, <2>2 DEF PollingInv, PollingTypeOK
  <2>5. \A q \in Poller : PollerOK(q)'
    BY <2>2, <2>3 DEF PollingInv, PollerOK, PlaceIsKnown, OffsetIsDurable, BatchIsNext, CarriedOut,
                      LossIsExcused, OwnerIsFirst, Unexcused, InHand
  <2>6. DoneIsKept' /\ OffsetIsCarriedOut' /\ RepetitionHasReason'
    BY <2>2, <2>3 DEF PollingInv, DoneIsKept, Unexcused, OffsetIsCarriedOut, CarriedOut,
                      RepetitionHasReason
  <2> QED BY <2>4, <2>5, <2>6 DEF PollingInv
<1>5. CASE PollerDies(p)
  <2>1. Started \in PollerState /\ Started.pc \in Rest
    <3>1. 0 \in 0..LastUpdateId /\ 0 \in 0..(LastUpdateId + 1) /\ 0 \in 0..(UpdateMaxAttempts - 1)
      BY PollingAssumption
    <3> QED BY <3>1 DEF Started, PollerState, Rest
  <2> QED BY <1>1, <1>5, <2>1, ComesToRest DEF PollerDies
<1> QED BY <1>2, <1>3, <1>4, <1>5

LEMMA KeyKeeps ==
    ASSUME PollingInv, KeyExpires
    PROVE  PollingInv'
<1>1. /\ leaseKey # NoPoller /\ leaseKey' = NoPoller
      /\ excused' = excused \cup {poller[p].next : p \in {q \in Poller : q = leaseKey /\ InHand(q)}}
      /\ UNCHANGED <<gate, dropped, lastUpdate, poller, finished, repeated, skipped>>
  BY DEF KeyExpires
<1>2. /\ excused \subseteq excused'
      /\ \A p \in Poller : leaseKey = p /\ InHand(p) => poller[p].next \in excused'
  BY <1>1
<1>3. \A p \in Poller : InHand(p) => poller[p].next \in UpdateId
  BY Known DEF InHand, AtUpdate
<1>4. PollingTypeOK'
  <2>1. excused' \subseteq UpdateId
    BY <1>1, <1>3 DEF PollingInv, PollingTypeOK
  <2> QED BY <1>1, <2>1 DEF PollingInv, PollingTypeOK
<1>5. Unexcused' \subseteq Unexcused /\ lastUpdate' \in Nat /\ lastUpdate <= lastUpdate'
  BY <1>1, <1>2, PollingAssumption DEF Unexcused, PollingInv, PollingTypeOK
<1>6. ASSUME NEW q \in Poller PROVE PollerOK(q)'
  <2>1. leaseKey' = q => leaseKey = q
    BY <1>1, PollingAssumption
  <2>2. leaseKey = q => (InHand(q) => poller[q].next \in excused')
    BY <1>2
  <2> QED BY <1>1, <1>2, <1>5, <2>1, <2>2, OthersKeep
<1>7. DoneIsKept'
  <2>1. \A p \in Poller : leaseKey = p /\ poller[p].pc \in {"handled", "recording"} =>
                              poller[p].next \notin Unexcused'
    BY <1>2 DEF InHand, Unexcused
  <2> QED BY <1>5, <2>1, DoneStaysKept
<1>8. OffsetIsCarriedOut' /\ RepetitionHasReason'
  BY <1>1, OffsetStaysCarriedOut DEF PollingInv, RepetitionHasReason
<1> QED BY <1>4, <1>6, <1>7, <1>8 DEF PollingInv

LEMMA OpeningKeeps ==
    ASSUME PollingInv, NEW p \in Poller, ArmGuard(p) \/ OpenQueue(p) \/ Refused(p)
    PROVE  PollingInv'
<1>1. poller \in [Poller -> PollerState] /\ poller[p] \in PollerState /\ gate \in BOOLEAN
  BY DEF PollingInv, PollingTypeOK
<1>2. UNCHANGED <<leaseKey, dropped, lastUpdate, finished, skipped, excused, repeated>>
      /\ poller[p].pc \in {"arming", "opening", "refused"} /\ gate' \in BOOLEAN
  BY <1>1 DEF ArmGuard, OpenQueue, Refused, updateGhosts, Does
<1>3. Excuses(p)
  BY <1>2 DEF Excuses, InHand
<1> SUFFICES /\ poller' \in [Poller -> PollerState] /\ poller'[p].pc \in Rest
             /\ \A q \in Poller \ {p} : poller'[q] = poller[q]
  BY <1>2, <1>3, ComesToRest
<1>4. CASE Back(p)
  BY <1>4, BackRests
<1>5. CASE GoesTo(p, "opening")
  BY <1>5, GoesOn DEF Rest
<1>6. CASE poller' = [poller EXCEPT ![p].open = TRUE, ![p].pc = "fetching"]
  <2> DEFINE new == [poller[p] EXCEPT !.open = TRUE, !.pc = "fetching"]
  <2>1. new \in PollerState /\ new.pc \in Rest
    BY <1>1 DEF PollerState, Rest
  <2>2. poller' = [poller EXCEPT ![p] = new]
    BY <1>6
  <2> QED BY <1>1, <2>1, <2>2
<1>7. CASE Refused(p)
  <2> DEFINE new == [poller[p] EXCEPT !.pc = "top", !.open = FALSE, !.next = 0, !.upto = 0]
  <2>1. new \in PollerState /\ new.pc \in Rest
    <3>1. 0 \in 0..LastUpdateId /\ 0 \in 0..(LastUpdateId + 1)
      BY PollingAssumption
    <3> QED BY <1>1, <3>1 DEF PollerState, Rest
  <2>2. poller' = [poller EXCEPT ![p] = new]
    BY <1>7 DEF Refused
  <2> QED BY <1>1, <2>1, <2>2
<1> QED BY <1>4, <1>5, <1>6, <1>7 DEF ArmGuard, OpenQueue

(* Only the batch of the process goes on: nothing is carried out, recorded  *)
(* or excused.                                                             *)
LEMMA OnlyMoves ==
    ASSUME PollingInv, NEW p \in Poller,
           poller' \in [Poller -> PollerState],
           \A q \in Poller \ {p} : poller'[q] = poller[q],
           UNCHANGED <<leaseKey, gate, lastUpdate, finished, skipped, excused, repeated>>,
           dropped' \in 0..LastUpdateId, dropped' <= lastUpdate,
           ~InHand(p), PollerOK(p)'
    PROVE  PollingInv'
<1>1. PollingTypeOK'
  BY DEF PollingInv, PollingTypeOK
<1>2. lastUpdate \in Nat /\ Unexcused' = Unexcused
  BY Known DEF Unexcused
<1>3. \A q \in Poller : PollerOK(q)'
  BY <1>2, OthersKeep
<1>4. DoneIsKept'
  BY <1>2, DoneStaysKept DEF InHand
<1>5. OffsetIsCarriedOut' /\ RepetitionHasReason'
  BY DEF PollingInv, OffsetIsCarriedOut, CarriedOut, RepetitionHasReason
<1> QED BY <1>1, <1>3, <1>4, <1>5 DEF PollingInv

-----------------------------------------------------------------------------
(* One round of getUpdates.                                                *)

LEMMA ReadKeeps ==
    ASSUME PollingInv, NEW p \in Poller, ReadOffset(p)
    PROVE  PollingInv'
<1>1. poller \in [Poller -> PollerState] /\ poller[p] \in PollerState
  BY DEF PollingInv, PollingTypeOK
<1>2. /\ lastUpdate \in 0..LastUpdateId /\ dropped \in 0..LastUpdateId
      /\ lastUpdate \in Nat /\ LastUpdateId \in Nat
  BY Known
<1> DEFINE fails == [u \in UpdateId |-> IF u > lastUpdate THEN poller[p].fails[u] ELSE 0]
<1> DEFINE new == [poller[p] EXCEPT !.pc = "asking", !.next = lastUpdate + 1, !.fails = fails]
<1>3. poller[p].pc = "fetching" /\ poller' = [poller EXCEPT ![p] = new]
      /\ UNCHANGED <<leaseKey, gate, dropped, lastUpdate, finished, skipped, excused, repeated>>
  BY DEF ReadOffset, Does, updateGhosts
<1>4. fails \in [UpdateId -> 0..(UpdateMaxAttempts - 1)]
  BY <1>1, PollingAssumption DEF PollerState
<1>5. lastUpdate + 1 \in 0..(LastUpdateId + 1)
  BY <1>2
<1> HIDE DEF fails
<1>6. new \in PollerState /\ new.pc = "asking" /\ new.next = lastUpdate + 1
  BY <1>1, <1>4, <1>5 DEF PollerState
<1> HIDE DEF new
<1>7. poller' \in [Poller -> PollerState] /\ poller'[p] = new
      /\ \A q \in Poller \ {p} : poller'[q] = poller[q]
  BY <1>1, <1>3, <1>6
<1>8. PlaceIsKnown(p)' /\ OffsetIsDurable(p)' /\ BatchIsNext(p)' /\ LossIsExcused(p)'
  BY <1>2, <1>3, <1>6, <1>7
     DEF PlaceIsKnown, OffsetIsDurable, BatchIsNext, LossIsExcused, InHand, Fetched, AtUpdate
<1>9. OwnerIsFirst(p)'
  <2>1. leaseKey = p => \A u \in Unexcused : u <= lastUpdate
    BY <1>3 DEF PollingInv, DoneIsKept
  <2>2. Unexcused' = Unexcused /\ \A u \in Unexcused : u \in Nat
    BY <1>2, <1>3 DEF Unexcused, PollingInv, PollingTypeOK, UpdateId
  <2> QED BY <1>2, <1>3, <1>6, <1>7, <2>1, <2>2 DEF OwnerIsFirst
<1>10. dropped' \in 0..LastUpdateId /\ dropped' <= lastUpdate /\ ~InHand(p)
  BY <1>2, <1>3 DEF PollingInv, OffsetIsCarriedOut, InHand
<1> QED BY <1>3, <1>7, <1>8, <1>9, <1>10, OnlyMoves DEF PollerOK

LEMMA AnswerKeeps ==
    ASSUME PollingInv, NEW p \in Poller, TelegramAnswers(p)
    PROVE  PollingInv'
<1>1. poller \in [Poller -> PollerState] /\ poller[p] \in PollerState /\ PollerOK(p)
      /\ OffsetIsCarriedOut
  BY DEF PollingInv, PollingTypeOK
<1>2. /\ lastUpdate \in 0..LastUpdateId /\ dropped \in 0..LastUpdateId
      /\ poller[p].next \in 0..(LastUpdateId + 1)
      /\ lastUpdate \in Nat /\ dropped \in Nat /\ poller[p].next \in Nat /\ LastUpdateId \in Nat
  BY Known
<1>3. poller[p].pc = "asking" /\ ~InHand(p)
      /\ UNCHANGED <<leaseKey, gate, lastUpdate, finished, skipped, excused, repeated>>
  BY DEF TelegramAnswers, Does, InHand, updateGhosts
<1>4. poller[p].next >= 1 /\ poller[p].next <= lastUpdate + 1 /\ dropped <= lastUpdate
  BY <1>1, <1>3 DEF PollerOK, PlaceIsKnown, OffsetIsDurable, OffsetIsCarriedOut
<1> DEFINE first == IF poller[p].next > dropped + 1 THEN poller[p].next ELSE dropped + 1
<1>5. CASE /\ dropped' = IF poller[p].next - 1 > dropped THEN poller[p].next - 1 ELSE dropped
           /\ \E upto \in (first - 1)..LastUpdateId :
                  poller' = [poller EXCEPT ![p].pc = "answered", ![p].next = first, ![p].upto = upto]
  <2>1. PICK upto \in (first - 1)..LastUpdateId :
            poller' = [poller EXCEPT ![p].pc = "answered", ![p].next = first, ![p].upto = upto]
    BY <1>5
  <2> DEFINE new == [poller[p] EXCEPT !.pc = "answered", !.next = first, !.upto = upto]
  <2>2. first >= 1 /\ first <= lastUpdate + 1 /\ first >= poller[p].next
        /\ first \in 0..(LastUpdateId + 1) /\ upto \in 0..LastUpdateId
    BY <1>2, <1>4
  <2> HIDE DEF first
  <2>3. new \in PollerState /\ new.pc = "answered" /\ new.next = first
    BY <1>1, <2>2 DEF PollerState
  <2>4. poller' = [poller EXCEPT ![p] = new]
    BY <2>1
  <2> HIDE DEF new
  <2>5. poller' \in [Poller -> PollerState] /\ poller'[p] = new
        /\ \A q \in Poller \ {p} : poller'[q] = poller[q]
    BY <1>1, <2>3, <2>4
  <2>6. PlaceIsKnown(p)' /\ OffsetIsDurable(p)' /\ LossIsExcused(p)'
    BY <2>2, <2>3, <2>5
       DEF PlaceIsKnown, OffsetIsDurable, LossIsExcused, InHand, Fetched, AtUpdate
  <2>7. BatchIsNext(p)'
    <3>1. \A u \in UpdateId : u < first => u <= lastUpdate
      BY <1>2, <2>2 DEF UpdateId
    <3> QED BY <1>1, <1>3, <2>3, <2>5, <3>1 DEF BatchIsNext, OffsetIsCarriedOut, CarriedOut
  <2>8. OwnerIsFirst(p)'
    <3>1. Unexcused' = Unexcused /\ \A u \in Unexcused : u \in Nat
      BY <1>2, <1>3 DEF Unexcused, PollingInv, PollingTypeOK, UpdateId
    <3>2. leaseKey = p => \A u \in Unexcused : u < poller[p].next
      BY <1>1, <1>3 DEF PollerOK, OwnerIsFirst
    <3>3. leaseKey = p => \A u \in Unexcused : u < first
      BY <1>2, <2>2, <3>1, <3>2
    <3> QED BY <1>3, <2>3, <2>5, <3>1, <3>3 DEF OwnerIsFirst
  <2>9. dropped' \in 0..LastUpdateId /\ dropped' <= lastUpdate
    BY <1>2, <1>4, <1>5
  <2> QED BY <1>3, <2>5, <2>6, <2>7, <2>8, <2>9, OnlyMoves DEF PollerOK
<1>6. CASE poller' = [poller EXCEPT ![p].pc = "refused", ![p].next = 0] /\ UNCHANGED dropped
  <2> DEFINE new == [poller[p] EXCEPT !.pc = "refused", !.next = 0]
  <2>1. 0 \in 0..(LastUpdateId + 1)
    BY <1>2
  <2>2. new \in PollerState /\ new.pc \in Rest
    BY <1>1, <2>1 DEF PollerState, Rest
  <2>3. poller' = [poller EXCEPT ![p] = new]
    BY <1>6
  <2>4. gate' \in BOOLEAN /\ Excuses(p)
    BY <1>3 DEF Excuses, PollingInv, PollingTypeOK
  <2> QED BY <1>1, <1>3, <1>6, <2>2, <2>3, <2>4, ComesToRest
<1> QED BY <1>5, <1>6 DEF TelegramAnswers

LEMMA BatchKeeps ==
    ASSUME PollingInv, NEW p \in Poller, AcceptBatch(p) \/ StartUpdate(p)
    PROVE  PollingInv'
<1>1. PollerOK(p) /\ OffsetIsCarriedOut /\ gate \in BOOLEAN
  BY DEF PollingInv, PollingTypeOK
<1>2. /\ poller[p].pc \in {"answered", "batch"} /\ ~InHand(p) /\ leaseKey = p
      /\ UNCHANGED <<leaseKey, gate, dropped, lastUpdate, finished, skipped, excused, repeated>>
      /\ \/ Back(p)
         \/ GoesTo(p, "batch") /\ poller[p].next <= poller[p].upto
         \/ GoesTo(p, "handling") /\ poller[p].pc = "batch"
  BY DEF AcceptBatch, StartUpdate, Does, Verified, InHand, updateGhosts
<1>3. CASE Back(p)
  BY <1>1, <1>2, <1>3, BackRests, ComesToRest DEF Excuses
<1>4. ASSUME NEW pc \in {"batch", "handling"}, GoesTo(p, pc),
             pc = "batch" => poller[p].next <= poller[p].upto,
             pc = "handling" => poller[p].pc = "batch"
      PROVE  PollingInv'
  <2>1. /\ poller' \in [Poller -> PollerState] /\ poller'[p].pc = pc
        /\ poller'[p].next = poller[p].next /\ poller'[p].upto = poller[p].upto
        /\ \A q \in Poller \ {p} : poller'[q] = poller[q]
    BY <1>4, GoesOn
  <2>2. PlaceIsKnown(p)' /\ OffsetIsDurable(p)' /\ LossIsExcused(p)'
    BY <1>1, <1>2, <1>4, <2>1
       DEF PollerOK, PlaceIsKnown, OffsetIsDurable, LossIsExcused, InHand, Fetched, AtUpdate
  <2>3. BatchIsNext(p)' /\ OwnerIsFirst(p)'
    BY <1>1, <1>2, <1>4, <2>1
       DEF PollerOK, BatchIsNext, OwnerIsFirst, CarriedOut, Unexcused, Fetched
  <2>4. dropped' \in 0..LastUpdateId /\ dropped' <= lastUpdate
    BY <1>1, <1>2, Known DEF OffsetIsCarriedOut
  <2> QED BY <1>2, <2>1, <2>2, <2>3, <2>4, OnlyMoves DEF PollerOK
<1> QED BY <1>2, <1>3, <1>4

-----------------------------------------------------------------------------
(* One update of the batch.                                                *)

(* It is carried out: the handler has the lease, or an excuse.             *)
LEMMA HandleKeeps ==
    ASSUME PollingInv, NEW p \in Poller, HandleUpdate(p)
    PROVE  PollingInv'
<1> DEFINE u == poller[p].next
<1>1. poller \in [Poller -> PollerState] /\ PollerOK(p)
  BY DEF PollingInv, PollingTypeOK
<1>2. poller[p].pc = "handling" /\ u \in UpdateId
      /\ UNCHANGED <<leaseKey, gate, dropped, lastUpdate, skipped, excused>>
      /\ \/ /\ GoesTo(p, "handled") /\ finished' = finished \cup {u}
            /\ repeated' = IF u \in finished \ excused THEN repeated \cup {u} ELSE repeated
         \/ GoesTo(p, "failed") /\ UNCHANGED <<finished, repeated>>
  BY Known DEF HandleUpdate, Does, AtUpdate
<1>3. PICK pc \in {"handled", "failed"} : GoesTo(p, pc) /\ (pc = "handled" => u \in finished')
                                          /\ (pc = "failed" => UNCHANGED finished)
  BY <1>2
<1>4. /\ poller' \in [Poller -> PollerState] /\ poller'[p].pc = pc
      /\ poller'[p].next = u /\ poller'[p].upto = poller[p].upto
      /\ \A q \in Poller \ {p} : poller'[q] = poller[q]
  BY <1>3, GoesOn
<1>5. u \notin Unexcused
  <2>1. leaseKey = p \/ u \in excused
    BY <1>1, <1>2 DEF PollerOK, LossIsExcused, InHand
  <2>2. leaseKey = p => \A v \in Unexcused : v < u
    BY <1>1, <1>2 DEF PollerOK, OwnerIsFirst
  <2>3. u \in Nat
    BY Known
  <2> QED BY <2>1, <2>2, <2>3 DEF Unexcused
<1>6. RepetitionHasReason'
  BY <1>2, <1>5 DEF PollingInv, RepetitionHasReason, Unexcused
<1>7. PollingTypeOK'
  BY <1>2, <1>4, <1>6 DEF PollingInv, PollingTypeOK, RepetitionHasReason
<1>8. /\ finished \subseteq finished' /\ finished' \subseteq finished \cup {u}
      /\ leaseKey = p \/ u \in excused
      /\ lastUpdate \in Nat /\ u \in Nat /\ UpdateId \subseteq Nat
  BY <1>1, <1>2, Known DEF PollerOK, LossIsExcused, InHand
<1>9. ASSUME NEW q \in Poller \ {p} PROVE PollerOK(q)'
  <2>1. leaseKey = q => Unexcused' \subseteq Unexcused
    BY <1>2, <1>8 DEF Unexcused
  <2> QED BY <1>2, <1>4, <1>8, <2>1, OthersKeep
<1>10. PlaceIsKnown(p)' /\ OffsetIsDurable(p)' /\ BatchIsNext(p)'
  BY <1>1, <1>2, <1>3, <1>4, <1>8
     DEF PollerOK, PlaceIsKnown, OffsetIsDurable, BatchIsNext, CarriedOut, Fetched, AtUpdate
<1>11. LossIsExcused(p)' /\ OwnerIsFirst(p)'
  <2>1. \A v \in Unexcused' : v \in Unexcused \/ v = u
    BY <1>2, <1>8 DEF Unexcused
  <2>2. leaseKey = p => \A v \in Unexcused : v < u
    BY <1>1, <1>2 DEF PollerOK, OwnerIsFirst
  <2>3. pc = "failed" => Unexcused' = Unexcused
    BY <1>2, <1>3 DEF Unexcused
  <2>4. leaseKey = p => \A v \in Unexcused' : v <= u
    BY <1>8, <2>1, <2>2 DEF Unexcused, PollingInv, PollingTypeOK
  <2> QED BY <1>2, <1>3, <1>4, <1>8, <2>2, <2>3, <2>4 DEF LossIsExcused, OwnerIsFirst, InHand
<1>12. DoneIsKept'
  <2>1. ASSUME NEW v \in Unexcused', v # u
        PROVE  \/ v <= lastUpdate
               \/ \E q \in Poller : /\ leaseKey = q /\ poller'[q].next = v
                                    /\ poller'[q].pc \in {"handled", "recording"}
    <3>1. v \in Unexcused
      BY <1>2, <1>8, <2>1 DEF Unexcused
    <3>2. CASE v <= lastUpdate
      BY <3>2
    <3>3. CASE \E q \in Poller : /\ leaseKey = q /\ poller[q].next = v
                                 /\ poller[q].pc \in {"handled", "recording"}
      BY <1>2, <1>4, <3>3
    <3> QED BY <3>1, <3>2, <3>3 DEF PollingInv, DoneIsKept
  <2>2. ASSUME u \in Unexcused' PROVE leaseKey = p /\ pc = "handled"
    BY <1>2, <1>3, <1>5, <1>8, <2>2 DEF Unexcused
  <2> QED BY <1>2, <1>4, <2>1, <2>2 DEF DoneIsKept
<1>13. OffsetIsCarriedOut'
  BY <1>2, <1>8, OffsetStaysCarriedOut
<1> QED BY <1>6, <1>7, <1>9, <1>10, <1>11, <1>12, <1>13 DEF PollingInv, PollerOK

LEMMA AfterKeeps ==
    ASSUME PollingInv, NEW p \in Poller, AfterUpdate(p)
    PROVE  PollingInv'
<1>1. PollerOK(p)
  BY DEF PollingInv
<1>2. poller[p].pc = "handled" /\ leaseKey = p /\ GoesTo(p, "recording")
      /\ UNCHANGED <<leaseKey, gate, dropped, lastUpdate, finished, skipped, excused, repeated>>
  BY DEF AfterUpdate, Does, Verified, updateGhosts
<1>3. /\ poller' \in [Poller -> PollerState] /\ poller'[p].pc = "recording"
      /\ poller'[p].next = poller[p].next /\ poller'[p].upto = poller[p].upto
      /\ \A q \in Poller \ {p} : poller'[q] = poller[q]
  BY <1>2, GoesOn
<1>4. PollingTypeOK'
  BY <1>2, <1>3 DEF PollingInv, PollingTypeOK
<1>5. Unexcused' = Unexcused /\ lastUpdate \in Nat
  BY <1>2, Known DEF Unexcused
<1>6. \A q \in Poller \ {p} : PollerOK(q)'
  BY <1>2, <1>3, <1>5, OthersKeep
<1>7. PlaceIsKnown(p)' /\ OffsetIsDurable(p)' /\ BatchIsNext(p)'
  BY <1>1, <1>2, <1>3
     DEF PollerOK, PlaceIsKnown, OffsetIsDurable, BatchIsNext, CarriedOut, Fetched, AtUpdate
<1>8. LossIsExcused(p)' /\ OwnerIsFirst(p)'
  BY <1>1, <1>2, <1>3, <1>5 DEF PollerOK, LossIsExcused, OwnerIsFirst, InHand
<1>9. DoneIsKept'
  BY <1>2, <1>3, <1>5, DoneStaysKept
<1>10. OffsetIsCarriedOut' /\ RepetitionHasReason'
  BY <1>2, OffsetStaysCarriedOut DEF PollingInv, RepetitionHasReason
<1> QED BY <1>4, <1>6, <1>7, <1>8, <1>9, <1>10 DEF PollingInv, PollerOK

LEMMA FailureKeeps ==
    ASSUME PollingInv, NEW p \in Poller, AfterFailure(p)
    PROVE  PollingInv'
<1> DEFINE u == poller[p].next
<1> DEFINE tries == poller[p].fails[u] + 1
<1>1. poller \in [Poller -> PollerState] /\ poller[p] \in PollerState /\ PollerOK(p)
      /\ gate \in BOOLEAN
  BY DEF PollingInv, PollingTypeOK
<1>2. poller[p].pc = "failed" /\ ~InHand(p) /\ u \in UpdateId /\ leaseKey = p
      /\ UNCHANGED <<leaseKey, gate, dropped, lastUpdate, finished, excused, repeated>>
  BY Known DEF AfterFailure, Does, Verified, InHand, AtUpdate
<1>3. poller[p].fails \in [UpdateId -> 0..(UpdateMaxAttempts - 1)]
  BY <1>1 DEF PollerState
<1>4. CASE tries < UpdateMaxAttempts
  <2> DEFINE fails == [poller[p].fails EXCEPT ![u] = tries]
  <2> DEFINE new == [poller[p] EXCEPT !.fails = fails, !.pc = "top", !.next = 0, !.upto = 0]
  <2>1. tries \in 0..(UpdateMaxAttempts - 1) /\ 0 \in 0..LastUpdateId /\ 0 \in 0..(LastUpdateId + 1)
    BY <1>2, <1>3, <1>4, PollingAssumption
  <2>2. fails \in [UpdateId -> 0..(UpdateMaxAttempts - 1)]
    BY <1>3, <2>1
  <2>3. poller' = [poller EXCEPT ![p] = new] /\ UNCHANGED skipped
    BY <1>4 DEF AfterFailure
  <2> HIDE DEF fails
  <2>4. new \in PollerState /\ new.pc \in Rest
    BY <1>1, <2>1, <2>2 DEF PollerState, Rest
  <2> QED BY <1>1, <1>2, <2>3, <2>4, ComesToRest DEF Excuses
<1>5. CASE ~(tries < UpdateMaxAttempts)
  <2> DEFINE fails == [poller[p].fails EXCEPT ![u] = 0]
  <2> DEFINE new == [poller[p] EXCEPT !.fails = fails, !.pc = "recording"]
  <2>1. fails \in [UpdateId -> 0..(UpdateMaxAttempts - 1)]
    <3>1. 0 \in 0..(UpdateMaxAttempts - 1)
      BY PollingAssumption
    <3> QED BY <1>3, <3>1
  <2>2. poller' = [poller EXCEPT ![p] = new] /\ skipped' = skipped \cup {u}
    BY <1>5 DEF AfterFailure
  <2> HIDE DEF fails
  <2>3. new \in PollerState /\ new.pc = "recording"
        /\ new.next = poller[p].next /\ new.upto = poller[p].upto
    BY <1>1, <2>1 DEF PollerState
  <2> HIDE DEF new
  <2>4. poller' \in [Poller -> PollerState] /\ poller'[p] = new
        /\ \A q \in Poller \ {p} : poller'[q] = poller[q]
    BY <1>1, <2>2, <2>3
  <2>5. PollingTypeOK'
    BY <1>2, <2>2, <2>4 DEF PollingInv, PollingTypeOK
  <2>6. Unexcused' = Unexcused /\ lastUpdate \in Nat /\ u \in Nat /\ Unexcused \subseteq Nat
    BY <1>2, Known DEF Unexcused
  <2>7. \A q \in Poller \ {p} : PollerOK(q)'
    BY <1>2, <2>2, <2>4, <2>6, OthersKeep
  <2>8. PlaceIsKnown(p)' /\ OffsetIsDurable(p)' /\ BatchIsNext(p)'
    BY <1>1, <1>2, <2>2, <2>3, <2>4
       DEF PollerOK, PlaceIsKnown, OffsetIsDurable, BatchIsNext, CarriedOut, Fetched, AtUpdate
  <2>9. LossIsExcused(p)' /\ OwnerIsFirst(p)'
    BY <1>1, <1>2, <2>3, <2>4, <2>6 DEF PollerOK, LossIsExcused, OwnerIsFirst, InHand
  <2>10. DoneIsKept'
    BY <1>2, <2>4, <2>6, DoneStaysKept
  <2>11. OffsetIsCarriedOut' /\ RepetitionHasReason'
    BY <1>2, <2>2, OffsetStaysCarriedOut DEF PollingInv, RepetitionHasReason
  <2> QED BY <2>5, <2>7, <2>8, <2>9, <2>10, <2>11 DEF PollingInv, PollerOK
<1> QED BY <1>4, <1>5

LEMMA RecordKeeps ==
    ASSUME PollingInv, NEW p \in Poller, RecordUpdate(p)
    PROVE  PollingInv'
<1> DEFINE u == poller[p].next
<1>1. poller \in [Poller -> PollerState] /\ poller[p] \in PollerState /\ PollerOK(p)
      /\ gate \in BOOLEAN /\ OffsetIsCarriedOut
  BY DEF PollingInv, PollingTypeOK
<1>2. poller[p].pc = "recording" /\ u \in UpdateId
      /\ UNCHANGED <<leaseKey, gate, dropped, finished, repeated, skipped>>
  BY Known DEF RecordUpdate, Does, AtUpdate
<1>3. /\ lastUpdate \in 0..LastUpdateId /\ u \in Nat /\ u <= LastUpdateId
      /\ dropped \in 0..LastUpdateId /\ poller[p].upto \in 0..LastUpdateId
      /\ lastUpdate \in Nat /\ dropped \in Nat /\ UpdateId \subseteq Nat /\ LastUpdateId \in Nat
  BY <1>2, Known DEF UpdateId
<1>4. CASE Back(p) /\ Excuses(p) /\ UNCHANGED lastUpdate
  BY <1>1, <1>2, <1>4, BackRests, ComesToRest
<1>5. CASE /\ lastUpdate' = IF u > lastUpdate THEN u ELSE lastUpdate
           /\ poller' = [poller EXCEPT ![p].fails[u] = 0,
                           ![p].next = IF u < poller[p].upto THEN u + 1 ELSE 0,
                           ![p].upto = IF u < poller[p].upto THEN @ ELSE 0,
                           ![p].pc = IF u < poller[p].upto THEN "batch" ELSE "top"]
           /\ UNCHANGED excused
  <2> DEFINE more == u < poller[p].upto
  <2> DEFINE fails == [poller[p].fails EXCEPT ![u] = 0]
  <2> DEFINE new == [poller[p] EXCEPT !.fails = fails,
                                      !.next = IF more THEN u + 1 ELSE 0,
                                      !.upto = IF more THEN @ ELSE 0,
                                      !.pc = IF more THEN "batch" ELSE "top"]
  <2>1. fails \in [UpdateId -> 0..(UpdateMaxAttempts - 1)]
    <3>1. 0 \in 0..(UpdateMaxAttempts - 1)
      BY PollingAssumption
    <3> QED BY <1>1, <3>1 DEF PollerState
  <2>2. poller' = [poller EXCEPT ![p] = new]
    BY <1>5
  <2>3. (IF more THEN u + 1 ELSE 0) \in 0..(LastUpdateId + 1) /\ 0 \in 0..LastUpdateId
    BY <1>3
  <2> HIDE DEF fails
  <2>4. /\ new \in PollerState
        /\ more => new.pc = "batch" /\ new.next = u + 1 /\ new.upto = poller[p].upto
        /\ ~more => new.pc = "top"
    BY <1>1, <2>1, <2>3 DEF PollerState
  <2> HIDE DEF new
  <2>5. poller' \in [Poller -> PollerState] /\ poller'[p] = new
        /\ \A q \in Poller \ {p} : poller'[q] = poller[q]
    BY <1>1, <2>2, <2>4
  <2>6. lastUpdate' \in 0..LastUpdateId /\ lastUpdate' \in Nat /\ lastUpdate <= lastUpdate'
        /\ u <= lastUpdate'
    BY <1>3, <1>5
  <2>7. PollingTypeOK'
    BY <1>2, <1>5, <2>5, <2>6 DEF PollingInv, PollingTypeOK
  <2>8. Unexcused' = Unexcused /\ Unexcused \subseteq Nat
    BY <1>2, <1>3, <1>5 DEF Unexcused, PollingInv, PollingTypeOK
  <2>9. \A q \in Poller \ {p} : PollerOK(q)'
    BY <1>2, <1>5, <2>5, <2>6, <2>8, OthersKeep
  <2>10. PollerOK(p)'
    <3>1. CASE more
      <4>1. PlaceIsKnown(p)' /\ OffsetIsDurable(p)' /\ LossIsExcused(p)'
        BY <1>3, <2>4, <2>5, <3>1
           DEF PlaceIsKnown, OffsetIsDurable, LossIsExcused, InHand, Fetched, AtUpdate
      <4>2. \A v \in UpdateId : v < u + 1 => CarriedOut(v)
        BY <1>1, <1>2, <1>3 DEF PollerOK, BatchIsNext, Fetched
      <4>3. BatchIsNext(p)'
        BY <1>2, <2>4, <2>5, <3>1, <4>2 DEF BatchIsNext, CarriedOut
      <4>4. OwnerIsFirst(p)'
        BY <1>1, <1>2, <1>3, <2>4, <2>5, <2>8, <3>1 DEF PollerOK, OwnerIsFirst
      <4> QED BY <4>1, <4>3, <4>4 DEF PollerOK
    <3>2. CASE ~more
      BY <2>4, <2>5, <3>2, AtRest DEF Rest
    <3> QED BY <3>1, <3>2
  <2>11. DoneIsKept'
    <3>1. \A q \in Poller : leaseKey = q => q = p \/ (leaseKey' = q /\ poller'[q] = poller[q])
      BY <1>2, <2>5
    <3> QED BY <2>6, <2>8, <3>1, DoneStaysKept
  <2>12. OffsetIsCarriedOut'
    <3>1. \A v \in UpdateId : v <= lastUpdate' => CarriedOut(v)
      BY <1>1, <1>2, <1>3, <1>5 DEF OffsetIsCarriedOut, PollerOK, BatchIsNext, Fetched
    <3>2. dropped' <= lastUpdate'
      BY <1>1, <1>2, <1>3, <2>6 DEF OffsetIsCarriedOut
    <3> QED BY <1>2, <3>1, <3>2 DEF OffsetIsCarriedOut, CarriedOut
  <2>13. RepetitionHasReason'
    BY <1>2 DEF PollingInv, RepetitionHasReason
  <2> QED BY <2>7, <2>9, <2>10, <2>11, <2>12, <2>13 DEF PollingInv
<1> QED BY <1>4, <1>5 DEF RecordUpdate

LEMMA ShutdownKeeps ==
    ASSUME PollingInv, NEW p \in Poller, Shutdown(p)
    PROVE  PollingInv'
<1>1. poller \in [Poller -> PollerState] /\ poller[p] \in PollerState /\ PollerOK(p)
      /\ gate \in BOOLEAN
  BY DEF PollingInv, PollingTypeOK
<1>2. leaseKey = p /\ leaseKey' = NoPoller /\ gate' \in BOOLEAN /\ Excuses(p)
      /\ UNCHANGED <<dropped, lastUpdate, finished, repeated, skipped>>
  BY <1>1 DEF Shutdown
<1>3. CASE poller[p].pc = "handling"
  <2> DEFINE new == [poller[p] EXCEPT !.pc = "stopping", !.held = FALSE, !.open = FALSE]
  <2>1. new \in PollerState /\ new.pc = "stopping"
        /\ new.next = poller[p].next /\ new.upto = poller[p].upto
    BY <1>1 DEF PollerState
  <2>2. poller' = [poller EXCEPT ![p] = new]
    BY <1>3 DEF Shutdown, Does
  <2> HIDE DEF new
  <2>3. poller' \in [Poller -> PollerState] /\ poller'[p] = new
        /\ \A q \in Poller \ {p} : poller'[q] = poller[q]
    BY <1>1, <2>1, <2>2
  <2>4. /\ excused' \subseteq UpdateId /\ excused \subseteq excused'
        /\ poller[p].next \in excused'
    BY <1>2, <1>3, ExcusesTyped DEF InHand
  <2>5. PollingTypeOK'
    BY <1>2, <2>3, <2>4 DEF PollingInv, PollingTypeOK
  <2>6. Unexcused' \subseteq Unexcused /\ lastUpdate' \in Nat /\ lastUpdate <= lastUpdate'
    BY <1>2, <2>4, Known DEF Unexcused
  <2>7. \A q \in Poller \ {p} : PollerOK(q)'
    BY <1>2, <2>3, <2>4, <2>6, OthersKeep, PollingAssumption
  <2>8. PlaceIsKnown(p)' /\ OffsetIsDurable(p)' /\ BatchIsNext(p)'
    BY <1>1, <1>3, <2>1, <2>3
       DEF PollerOK, PlaceIsKnown, OffsetIsDurable, BatchIsNext, Fetched, AtUpdate
  <2>9. LossIsExcused(p)' /\ OwnerIsFirst(p)'
    BY <2>1, <2>3, <2>4 DEF LossIsExcused, OwnerIsFirst, InHand
  <2>10. DoneIsKept'
    BY <1>2, <1>3, <2>6, DoneStaysKept
  <2>11. OffsetIsCarriedOut' /\ RepetitionHasReason'
    BY <1>2, OffsetStaysCarriedOut DEF PollingInv, RepetitionHasReason
  <2> QED BY <2>5, <2>7, <2>8, <2>9, <2>10, <2>11 DEF PollingInv, PollerOK
<1>4. CASE poller[p].pc # "handling"
  <2>1. Started \in PollerState /\ Started.pc \in Rest
    <3>1. 0 \in 0..LastUpdateId /\ 0 \in 0..(LastUpdateId + 1) /\ 0 \in 0..(UpdateMaxAttempts - 1)
      BY PollingAssumption
    <3> QED BY <3>1 DEF Started, PollerState, Rest
  <2>2. poller' = [poller EXCEPT ![p] = Started]
    BY <1>4 DEF Shutdown, Does
  <2> QED BY <1>1, <1>2, <2>1, <2>2, ComesToRest
<1> QED BY <1>3, <1>4

(* What a draining process carries out has an excuse already.              *)
LEMMA DrainKeeps ==
    ASSUME PollingInv, NEW p \in Poller, Drain(p)
    PROVE  PollingInv'
<1> DEFINE u == poller[p].next
<1>1. poller \in [Poller -> PollerState] /\ PollerOK(p)
  BY DEF PollingInv, PollingTypeOK
<1>2. poller[p].pc = "stopping" /\ u \in UpdateId /\ poller' = [poller EXCEPT ![p] = Started]
      /\ UNCHANGED <<leaseKey, gate, dropped, lastUpdate, skipped, excused>>
      /\ finished' \in {finished, finished \cup {u}}
      /\ repeated' \in {repeated, IF u \in finished \ excused THEN repeated \cup {u} ELSE repeated}
  BY Known DEF Drain, Does, AtUpdate
<1>3. u \in excused
  BY <1>1, <1>2 DEF PollerOK, LossIsExcused
<1>4. Started \in PollerState /\ Started.pc \in Rest
  <2>1. 0 \in 0..LastUpdateId /\ 0 \in 0..(LastUpdateId + 1) /\ 0 \in 0..(UpdateMaxAttempts - 1)
    BY PollingAssumption
  <2> QED BY <2>1 DEF Started, PollerState, Rest
<1>5. poller' \in [Poller -> PollerState] /\ poller'[p] = Started
      /\ \A q \in Poller \ {p} : poller'[q] = poller[q]
  BY <1>1, <1>2, <1>4
<1>6. RepetitionHasReason'
  BY <1>2, <1>3 DEF PollingInv, RepetitionHasReason
<1>7. PollingTypeOK'
  BY <1>2, <1>5, <1>6 DEF PollingInv, PollingTypeOK, RepetitionHasReason
<1>8. Unexcused' = Unexcused /\ finished \subseteq finished' /\ lastUpdate \in Nat
  BY <1>2, <1>3, Known DEF Unexcused
<1>9. \A q \in Poller \ {p} : PollerOK(q)'
  BY <1>2, <1>5, <1>8, OthersKeep
<1>10. PollerOK(p)'
  BY <1>4, <1>5, AtRest
<1>11. DoneIsKept'
  BY <1>2, <1>5, <1>8, DoneStaysKept
<1>12. OffsetIsCarriedOut'
  BY <1>2, <1>8, OffsetStaysCarriedOut
<1> QED BY <1>6, <1>7, <1>9, <1>10, <1>11, <1>12 DEF PollingInv

-----------------------------------------------------------------------------
LEMMA StutterKeeps ==
    ASSUME PollingInv, UNCHANGED pollingVars
    PROVE  PollingInv'
<1>1. UNCHANGED <<leaseKey, gate, dropped, lastUpdate, poller, finished, skipped, excused, repeated>>
  BY DEF pollingVars
<1>2. PollingTypeOK' /\ RepetitionHasReason' /\ OffsetIsCarriedOut' /\ DoneIsKept'
  BY <1>1 DEF PollingInv, PollingTypeOK, RepetitionHasReason, OffsetIsCarriedOut, CarriedOut,
              DoneIsKept, Unexcused
<1>3. \A p \in Poller : PollerOK(p)'
  BY <1>1, OthersKeep, Known DEF Unexcused
<1> QED BY <1>2, <1>3 DEF PollingInv

THEOREM PollingInvariance == PollingSpec => []PollingInv
<1>1. PollingInv /\ [PollingNext]_pollingVars => PollingInv'
  BY LeaseKeeps, KeyKeeps, OpeningKeeps, ReadKeeps, AnswerKeeps, BatchKeeps, HandleKeeps,
     AfterKeeps, FailureKeeps, RecordKeeps, ShutdownKeeps, DrainKeeps, StutterKeeps
     DEF PollingNext
<1> QED BY InitInv, <1>1, PTL DEF PollingSpec

(* The lease, the offset and every process keep their types; no counter of *)
(* failures passes the attempts an update has.                             *)
THEOREM PollingTypes == PollingSpec => []PollingTypeOK
<1>1. PollingInv => PollingTypeOK
  BY DEF PollingInv
<1> QED BY <1>1, PollingInvariance, PTL

(* No command is lost: what the offset has passed, or Telegram has         *)
(* forgotten, was carried out, or given up after its last attempt.         *)
THEOREM NothingIsLost == PollingSpec => []NoUpdateLost
<1>1. PollingInv => NoUpdateLost
  <2> SUFFICES ASSUME PollingInv, NEW u \in UpdateId, u <= lastUpdate \/ u <= dropped
               PROVE  u \in finished \cup skipped
    BY DEF NoUpdateLost
  <2>1. u \in Nat /\ lastUpdate \in Nat /\ dropped \in Nat
    BY PollingAssumption DEF PollingInv, PollingTypeOK, UpdateId
  <2> QED BY <2>1 DEF PollingInv, OffsetIsCarriedOut, CarriedOut
<1> QED BY <1>1, PollingInvariance, PTL

(* A command is carried out twice only if a fault met it in between.       *)
THEOREM RepetitionIsExcused == PollingSpec => []RepetitionHasReason
<1>1. PollingInv => RepetitionHasReason
  BY DEF PollingInv
<1> QED BY <1>1, PollingInvariance, PTL


-----------------------------------------------------------------------------
(* The order of the commands.  The steps that carry one out, or give it up, *)
(* have in hand an update before which nothing is left; for the process     *)
(* that drains this is an invariant of its own, since it has no lease that  *)
(* would keep others from going on meanwhile.                               *)
DrainsInOrder ==
    \A p \in Poller : poller[p].pc = "stopping" =>
        \A u \in UpdateId : u < poller[p].next => CarriedOut(u)

OrderInv == CommandsInOrder /\ DrainsInOrder

Held(p) == poller[p].pc \in {"handling", "failed", "stopping"}

LEMMA NothingIsLeftBefore ==
    ASSUME PollingInv, OrderInv, NEW p \in Poller, Held(p)
    PROVE  /\ poller[p].next \in UpdateId
           /\ \A u \in UpdateId : u < poller[p].next => CarriedOut(u)
<1>1. PollerOK(p) /\ poller[p].next \in UpdateId
  BY Known DEF PollingInv, Held, AtUpdate
<1>2. \A u \in UpdateId : u < poller[p].next => CarriedOut(u)
  BY <1>1 DEF Held, PollerOK, BatchIsNext, Fetched, OrderInv, DrainsInOrder
<1> QED BY <1>1, <1>2

(* A process drains only what it had in hand when it was told to stop.     *)
LEMMA OnlyHandlersDrain ==
    ASSUME PollingInv, PollingNext, NEW q \in Poller, poller'[q].pc = "stopping"
    PROVE  Held(q) /\ poller'[q].next = poller[q].next
<1>1. poller \in [Poller -> PollerState] /\ Started.pc # "stopping"
  BY DEF PollingInv, PollingTypeOK, Started
<1>2. CASE poller'[q] = poller[q]
  BY <1>2 DEF Held
<1>3. ASSUME NEW p \in Poller, Shutdown(p) PROVE Held(q) /\ poller'[q].next = poller[q].next
  <2> DEFINE new == [poller[p] EXCEPT !.pc = "stopping", !.held = FALSE, !.open = FALSE]
  <2>1. poller' = [poller EXCEPT ![p] = IF poller[p].pc = "handling" THEN new ELSE Started]
    BY <1>3 DEF Shutdown, Does
  <2>2. new.next = poller[p].next
    BY <1>1 DEF PollerState
  <2> HIDE DEF new
  <2>3. CASE q # p
    BY <1>1, <1>2, <2>1, <2>3
  <2>4. CASE q = p
    BY <1>1, <2>1, <2>2, <2>4 DEF Held
  <2> QED BY <2>3, <2>4
<1>4. ASSUME NEW p \in Poller, Drain(p) \/ PollerDies(p)
      PROVE  Held(q) /\ poller'[q].next = poller[q].next
  <2>1. poller' = [poller EXCEPT ![p] = Started]
    BY <1>4 DEF Drain, PollerDies
  <2> QED BY <1>1, <1>2, <2>1
<1>5. ASSUME NEW p \in Poller,
             \/ EnsureLease(p) \/ LeaseLost(p) \/ RenewalFails(p) \/ ArmGuard(p) \/ OpenQueue(p)
             \/ ReadOffset(p) \/ AcceptBatch(p) \/ Refused(p) \/ StartUpdate(p) \/ HandleUpdate(p)
             \/ AfterUpdate(p)
      PROVE  Held(q) /\ poller'[q].next = poller[q].next
  <2>1. CASE q # p
    BY <1>1, <1>2, <1>5, <2>1
       DEF EnsureLease, LeaseLost, RenewalFails, ArmGuard, OpenQueue, ReadOffset, AcceptBatch,
           Refused, StartUpdate, HandleUpdate, AfterUpdate, GoesTo, Back, Unowned
  <2>2. CASE q = p
    <3>1. CASE RenewalFails(p)
      BY <1>1, <2>2, <3>1 DEF RenewalFails, Held, PollerState
    <3>2. CASE ReadOffset(p)
      BY <1>1, <2>2, <3>2 DEF ReadOffset, Held, PollerState
    <3>3. CASE EnsureLease(p)
      BY <1>1, <2>2, <3>3 DEF EnsureLease, Unowned, PollerState
    <3>4. CASE LeaseLost(p)
      BY <1>1, <2>2, <3>4 DEF LeaseLost, Unowned, PollerState
    <3>5. CASE OpenQueue(p) /\ poller' = [poller EXCEPT ![p].open = TRUE, ![p].pc = "fetching"]
      BY <1>1, <2>2, <3>5 DEF PollerState
    <3>6. ASSUME Back(p) \/ \E pc \in {"opening", "batch", "handling", "handled", "failed", "recording"} :
                     GoesTo(p, pc)
          PROVE  FALSE
      BY <1>1, <2>2, <3>6 DEF GoesTo, Back, PollerState
    <3>7. CASE ArmGuard(p)
      BY <3>6, <3>7 DEF ArmGuard
    <3>8. CASE OpenQueue(p)
      BY <3>5, <3>6, <3>8 DEF OpenQueue
    <3>9. CASE AcceptBatch(p)
      BY <3>6, <3>9 DEF AcceptBatch
    <3>10. CASE HandleUpdate(p)
      BY <3>6, <3>10 DEF HandleUpdate
    <3>11. CASE StartUpdate(p) \/ AfterUpdate(p)
      BY <3>6, <3>11 DEF StartUpdate, AfterUpdate
    <3>12. CASE Refused(p)
      <4>1. poller' = [poller EXCEPT ![p].pc = "top", ![p].open = FALSE, ![p].next = 0, ![p].upto = 0]
        BY <3>12 DEF Refused
      <4> QED BY <1>1, <2>2, <4>1 DEF PollerState
    <3> QED BY <1>5, <3>1, <3>2, <3>3, <3>4, <3>7, <3>8, <3>9, <3>10, <3>11, <3>12
  <2> QED BY <2>1, <2>2
<1>6. ASSUME NEW p \in Poller, TelegramAnswers(p)
      PROVE  Held(q) /\ poller'[q].next = poller[q].next
  BY <1>1, <1>2, <1>6 DEF TelegramAnswers, PollerState
<1>7. ASSUME NEW p \in Poller, AfterFailure(p) \/ RecordUpdate(p)
      PROVE  Held(q) /\ poller'[q].next = poller[q].next
  <2>1. CASE q # p
    BY <1>1, <1>2, <1>7, <2>1 DEF AfterFailure, RecordUpdate, Back
  <2>2. CASE q = p
    BY <1>1, <1>7, <2>2 DEF AfterFailure, RecordUpdate, Back, PollerState
  <2> QED BY <2>1, <2>2
<1>8. CASE KeyExpires
  BY <1>2, <1>8 DEF KeyExpires
<1> QED BY <1>3, <1>4, <1>5, <1>6, <1>7, <1>8 DEF PollingNext

(* What a step adds is the update a process has in hand.                   *)
LEMMA OnlyTheNextIsAdded ==
    ASSUME PollingInv, PollingNext
    PROVE  /\ finished \subseteq finished' /\ skipped \subseteq skipped'
           /\ \A v \in (finished \cup skipped)' \ (finished \cup skipped) :
                  \E p \in Poller : Held(p) /\ v = poller[p].next
<1>1. CASE UNCHANGED <<finished, skipped>>
  BY <1>1
<1>2. ASSUME NEW p \in Poller, HandleUpdate(p) \/ AfterFailure(p) \/ Drain(p)
      PROVE  /\ finished \subseteq finished' /\ skipped \subseteq skipped'
             /\ \A v \in (finished \cup skipped)' \ (finished \cup skipped) :
                    Held(p) /\ v = poller[p].next
  BY <1>2 DEF HandleUpdate, AfterFailure, Drain, Does, Held
<1>3. ASSUME NEW p \in Poller,
             \/ EnsureLease(p) \/ LeaseLost(p) \/ RenewalFails(p) \/ ArmGuard(p) \/ OpenQueue(p)
             \/ ReadOffset(p) \/ TelegramAnswers(p) \/ AcceptBatch(p) \/ Refused(p)
             \/ StartUpdate(p) \/ AfterUpdate(p) \/ RecordUpdate(p) \/ Shutdown(p) \/ PollerDies(p)
      PROVE  UNCHANGED <<finished, skipped>>
  BY <1>3 DEF EnsureLease, LeaseLost, RenewalFails, ArmGuard, OpenQueue, ReadOffset,
              TelegramAnswers, AcceptBatch, Refused, StartUpdate, AfterUpdate, RecordUpdate,
              Shutdown, PollerDies, updateGhosts
<1>4. CASE KeyExpires
  BY <1>1, <1>4 DEF KeyExpires
<1> QED BY <1>1, <1>2, <1>3, <1>4 DEF PollingNext

LEMMA OrderKeeps ==
    ASSUME PollingInv, OrderInv, [PollingNext]_pollingVars
    PROVE  OrderInv'
<1>1. CASE UNCHANGED pollingVars
  BY <1>1 DEF pollingVars, OrderInv, CommandsInOrder, DrainsInOrder, CarriedOut
<1>2. CASE PollingNext
  <2>1. finished \subseteq finished' /\ skipped \subseteq skipped'
    BY <1>2, OnlyTheNextIsAdded
  <2>2. ASSUME NEW u \in (finished \cup skipped)', NEW before \in 1..(u - 1)
        PROVE  before \in finished \cup skipped
    <3>1. CASE u \in finished \cup skipped
      BY <3>1 DEF OrderInv, CommandsInOrder
    <3>2. CASE u \notin finished \cup skipped
      <4>1. PICK p \in Poller : Held(p) /\ u = poller[p].next
        BY <1>2, <2>2, <3>2, OnlyTheNextIsAdded
      <4>2. u \in UpdateId /\ LastUpdateId \in Nat
        BY <4>1, NothingIsLeftBefore, PollingAssumption
      <4>3. before \in UpdateId /\ before < u
        BY <4>2 DEF UpdateId
      <4> QED BY <4>1, <4>3, NothingIsLeftBefore DEF CarriedOut
    <3> QED BY <3>1, <3>2
  <2>3. CommandsInOrder'
    BY <2>1, <2>2 DEF CommandsInOrder
  <2>4. ASSUME NEW q \in Poller, poller'[q].pc = "stopping", NEW u \in UpdateId,
               u < poller'[q].next
        PROVE  CarriedOut(u)'
    BY <1>2, <2>1, <2>4, OnlyHandlersDrain, NothingIsLeftBefore DEF CarriedOut
  <2> QED BY <2>3, <2>4 DEF OrderInv, DrainsInOrder
<1> QED BY <1>1, <1>2

(* Commands are finished in the order in which people sent them: one is     *)
(* carried out, or given up, only when all before it are, whichever        *)
(* processes have them, and also by one that lost the lease meanwhile.     *)
THEOREM CommandsKeepTheirOrder == PollingSpec => []CommandsInOrder
<1>1. PollingInit => OrderInv
  BY DEF PollingInit, Started, OrderInv, CommandsInOrder, DrainsInOrder
<1>2. PollingInv /\ OrderInv /\ [PollingNext]_pollingVars => OrderInv'
  BY OrderKeeps
<1>3. OrderInv => CommandsInOrder
  BY DEF OrderInv
<1> QED BY <1>1, <1>2, <1>3, PollingInvariance, PTL DEF PollingSpec
=============================================================================
