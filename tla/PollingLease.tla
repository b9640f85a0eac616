--------------------------- MODULE PollingLease ---------------------------
(* Who reads the commands people send to the bot.  Several workers may run *)
(* (a deployment starts the new one before the old one has gone); one of   *)
(* them holds a key in Redis for 90 s, renews it, and reads Telegram's     *)
(* updates with getUpdates.  A webhook that leads nowhere is the gate that *)
(* cuts off pollers nobody knows of.  The offset of the last finished     *)
(* update is in PostgreSQL; asking for offset n tells Telegram to forget   *)
(* everything below n.                                                    *)
(*                                                                        *)
(* Limits of the model:                                                   *)
(*  - The key may expire or be evicted at any time, also while its owner   *)
(*    believes it has it.                                                 *)
(*  - A check of the lease and its answer are one step; renewals that run *)
(*    at the same time share their answer in the code.                    *)
(*  - The commands menu and the discussion chats are left out.            *)
EXTENDS Naturals, FiniteSets

CONSTANTS
    Poller,             \* worker processes
    NoPoller,
    LastUpdateId,       \* bound of the model on updates people send
    UpdateMaxAttempts   \* TELEGRAM_UPDATE_MAX_ATTEMPTS

ASSUME PollingAssumption ==
    /\ NoPoller \notin Poller
    /\ LastUpdateId \in Nat /\ UpdateMaxAttempts \in Nat \ {0}

UpdateId == 1..LastUpdateId

VARIABLES
    leaseKey,     \* the owner in Redis, NoPoller when the key is gone
    gate,         \* TRUE while the guard webhook is set
    dropped,      \* updates Telegram has forgotten
    lastUpdate,   \* bot_state.last_update
    poller,       \* the local state of the processes
    finished,     \* updates some process has carried out
    skipped,      \* updates given up after the last attempt
    excused,      \* updates whose handling met a fault before it was recorded
    repeated      \* updates carried out again without such a fault

pollingVars == <<leaseKey, gate, dropped, lastUpdate, poller, finished, skipped, excused, repeated>>
updateGhosts == <<finished, skipped, excused, repeated>>

PollerState ==
    [pc    : {"top", "arming", "opening", "fetching", "asking", "answered", "refused", "conflict",
              "batch", "handling", "handled", "failed", "recording", "stopping"},
     held  : BOOLEAN,                \* telegramPollingLeaseHeld
     open  : BOOLEAN,                \* telegramPollingQueueOpen
     next  : 0..(LastUpdateId + 1),  \* the offset asked for, then the update at hand
     upto  : 0..LastUpdateId,        \* the last update of the batch
     fails : [UpdateId -> 0..(UpdateMaxAttempts - 1)]]   \* updateFailures

PollingTypeOK ==
    /\ leaseKey \in Poller \cup {NoPoller} /\ gate \in BOOLEAN
    /\ dropped \in 0..LastUpdateId /\ lastUpdate \in 0..LastUpdateId
    /\ poller \in [Poller -> PollerState]
    /\ finished \subseteq UpdateId /\ repeated \subseteq UpdateId
    /\ skipped \subseteq UpdateId /\ excused \subseteq UpdateId

Started == [pc |-> "top", held |-> FALSE, open |-> FALSE, next |-> 0, upto |-> 0,
            fails |-> [u \in UpdateId |-> 0]]

PollingInit ==
    /\ leaseKey = NoPoller /\ gate \in BOOLEAN
    /\ dropped = 0 /\ lastUpdate = 0
    /\ poller = [p \in Poller |-> Started]
    /\ finished = {} /\ repeated = {} /\ skipped = {} /\ excused = {}

Does(p, pc) == poller[p].pc = pc
GoesTo(p, pc) == poller' = [poller EXCEPT ![p].pc = pc]
Back(p) == poller' = [poller EXCEPT ![p].pc = "top", ![p].next = 0, ![p].upto = 0]
Unowned(p) == poller' = [poller EXCEPT ![p].pc = "top", ![p].next = 0, ![p].upto = 0,
                                        ![p].held = FALSE, ![p].open = FALSE]
InHand(p) == poller[p].pc \in {"handling", "handled", "recording"}
Excuses(p) == excused' = IF InHand(p) THEN excused \cup {poller[p].next} ELSE excused

-----------------------------------------------------------------------------
(* The lease.                                                             *)

(* Mutant: the flag of the last renewal is believed.                      *)
VerifiedByFlag(p) == poller[p].held

(* verifyTelegramPollingLease: Redis is asked, not only the flag.         *)
Verified(p) == poller[p].held /\ leaseKey = p

(* Redis may also not answer: then the lease counts as lost.              *)
LeaseLost(p) ==
    /\ poller[p].pc \in {"arming", "opening", "answered", "refused", "batch", "handled", "failed"}
    /\ Unowned(p)
    /\ Excuses(p)
    /\ UNCHANGED <<leaseKey, gate, dropped, lastUpdate, finished, repeated, skipped>>

(* ensureTelegramPollingLease: set NX, or renewed when it is its own.     *)
EnsureLease(p) ==
    /\ Does(p, "top")
    /\ IF leaseKey \in {NoPoller, p} /\ (poller[p].held => leaseKey = p)
       THEN /\ leaseKey' = p
            /\ poller' = [poller EXCEPT ![p].held = TRUE,
                                         ![p].pc = IF poller[p].open THEN "fetching" ELSE "arming"]
       ELSE Unowned(p) /\ UNCHANGED leaseKey
    /\ UNCHANGED <<gate, dropped, lastUpdate, updateGhosts>>

(* The timer of 20 s finds the key gone or with another owner.            *)
RenewalFails(p) ==
    /\ poller[p].held /\ leaseKey # p
    /\ poller' = [poller EXCEPT ![p].held = FALSE, ![p].open = FALSE]
    /\ UNCHANGED <<leaseKey, gate, dropped, lastUpdate, updateGhosts>>

KeyExpires ==
    /\ leaseKey # NoPoller
    /\ leaseKey' = NoPoller
    /\ excused' = excused \cup {poller[p].next : p \in {q \in Poller : q = leaseKey /\ InHand(q)}}
    /\ UNCHANGED <<gate, dropped, lastUpdate, poller, finished, repeated, skipped>>

-----------------------------------------------------------------------------
(* Opening the queue: the guard, then its removal, each under the lease.  *)

ArmGuard(p) ==
    /\ Does(p, "arming") /\ Verified(p)
    /\ \/ gate' = TRUE /\ GoesTo(p, "opening")
       \/ gate' \in {gate, TRUE} /\ Back(p)           \* no answer
    /\ UNCHANGED <<leaseKey, dropped, lastUpdate, updateGhosts>>

OpenQueue(p) ==
    /\ Does(p, "opening") /\ Verified(p)
    /\ \/ /\ gate' = FALSE
          /\ poller' = [poller EXCEPT ![p].open = TRUE, ![p].pc = "fetching"]
       \/ gate' \in {gate, FALSE} /\ Back(p)
    /\ UNCHANGED <<leaseKey, dropped, lastUpdate, updateGhosts>>

-----------------------------------------------------------------------------
(* One round of getUpdates.                                               *)

(* Failures counted for updates the offset has passed are forgotten here: *)
(* no later batch of this process holds them.                             *)
ReadOffset(p) ==
    /\ Does(p, "fetching")
    /\ poller' = [poller EXCEPT ![p].pc = "asking", ![p].next = lastUpdate + 1,
                    ![p].fails = [u \in UpdateId |-> IF u > lastUpdate THEN @[u] ELSE 0]]
    /\ UNCHANGED <<leaseKey, gate, dropped, lastUpdate, updateGhosts>>

(* Telegram forgets what lies below the offset and sends what has arrived  *)
(* of the rest; with a webhook set, or another request open, it refuses.  *)
TelegramAnswers(p) ==
    /\ Does(p, "asking")
    /\ \/ /\ ~gate
          /\ dropped' = IF poller[p].next - 1 > dropped THEN poller[p].next - 1 ELSE dropped
          /\ LET first == IF poller[p].next > dropped + 1 THEN poller[p].next ELSE dropped + 1
             IN \E upto \in (first - 1)..LastUpdateId :
                    poller' = [poller EXCEPT ![p].pc = "answered", ![p].next = first, ![p].upto = upto]
       \/ /\ poller' = [poller EXCEPT ![p].pc = "refused", ![p].next = 0]
          /\ UNCHANGED dropped
    /\ UNCHANGED <<leaseKey, gate, lastUpdate, updateGhosts>>

(* The answer counts only while the lease is held: otherwise the batch is *)
(* thrown away, and the durable offset brings it back.                    *)
AcceptBatch(p) ==
    /\ Does(p, "answered") /\ Verified(p)
    /\ IF poller[p].next <= poller[p].upto THEN GoesTo(p, "batch") ELSE Back(p)
    /\ UNCHANGED <<leaseKey, gate, dropped, lastUpdate, updateGhosts>>

(* A conflict sets the guard before the pause, any other error does not.  *)
Refused(p) ==
    /\ Does(p, "refused") /\ Verified(p)
    /\ \/ gate' \in {gate, TRUE}
       \/ UNCHANGED gate
    /\ poller' = [poller EXCEPT ![p].pc = "top", ![p].open = FALSE, ![p].next = 0, ![p].upto = 0]
    /\ UNCHANGED <<leaseKey, dropped, lastUpdate, updateGhosts>>

-----------------------------------------------------------------------------
(* One update of the batch.                                               *)

StartUpdate(p) ==
    /\ Does(p, "batch") /\ Verified(p)
    /\ GoesTo(p, "handling")
    /\ UNCHANGED <<leaseKey, gate, dropped, lastUpdate, updateGhosts>>

(* handleUpdate: done, or asked to be tried again.                        *)
HandleUpdate(p) ==
    LET u == poller[p].next IN
    /\ Does(p, "handling")
    /\ \/ /\ GoesTo(p, "handled")
          /\ finished' = finished \cup {u}
          /\ repeated' = IF u \in finished \ excused THEN repeated \cup {u} ELSE repeated
       \/ GoesTo(p, "failed") /\ UNCHANGED <<finished, repeated>>
    /\ UNCHANGED <<leaseKey, gate, dropped, lastUpdate, skipped, excused>>

AfterUpdate(p) ==
    /\ Does(p, "handled") /\ Verified(p)
    /\ GoesTo(p, "recording")
    /\ UNCHANGED <<leaseKey, gate, dropped, lastUpdate, updateGhosts>>

(* Mutant: the rest of the batch is carried out while an update waits.    *)
AfterFailureGoesOn(p) ==
    LET u == poller[p].next tries == poller[p].fails[u] + 1 IN
    /\ Does(p, "failed") /\ Verified(p)
    /\ IF tries < UpdateMaxAttempts
       THEN /\ poller' = [poller EXCEPT ![p].fails[u] = tries, ![p].next = u + 1,
                                        ![p].pc = IF u < poller[p].upto THEN "batch" ELSE "top"]
            /\ UNCHANGED skipped
       ELSE GoesTo(p, "recording") /\ skipped' = skipped \cup {u}
    /\ UNCHANGED <<leaseKey, gate, dropped, lastUpdate, finished, repeated, excused>>

(* The offset stays before an update that failed, and the batch ends; the *)
(* third failure gives it up.                                             *)
AfterFailure(p) ==
    LET u == poller[p].next tries == poller[p].fails[u] + 1 IN
    /\ Does(p, "failed") /\ Verified(p)
    /\ IF tries < UpdateMaxAttempts
       THEN /\ poller' = [poller EXCEPT ![p].fails[u] = tries, ![p].pc = "top",
                                        ![p].next = 0, ![p].upto = 0]
            /\ UNCHANGED skipped
       ELSE /\ poller' = [poller EXCEPT ![p].fails[u] = 0, ![p].pc = "recording"]
            /\ skipped' = skipped \cup {u}
    /\ UNCHANGED <<leaseKey, gate, dropped, lastUpdate, finished, repeated, excused>>

(* last_update = greatest(last_update, u), or the database refuses and    *)
(* the round ends.                                                        *)
RecordUpdate(p) ==
    LET u == poller[p].next IN
    /\ Does(p, "recording")
    /\ \/ /\ lastUpdate' = IF u > lastUpdate THEN u ELSE lastUpdate
          /\ poller' = [poller EXCEPT ![p].fails[u] = 0,
                          ![p].next = IF u < poller[p].upto THEN u + 1 ELSE 0,
                          ![p].upto = IF u < poller[p].upto THEN @ ELSE 0,
                          ![p].pc = IF u < poller[p].upto THEN "batch" ELSE "top"]
          /\ UNCHANGED excused
       \/ Back(p) /\ Excuses(p) /\ UNCHANGED lastUpdate
    /\ UNCHANGED <<leaseKey, gate, dropped, finished, repeated, skipped>>

-----------------------------------------------------------------------------
(* SIGTERM: the guard goes up and the lease is given back at once; an      *)
(* update in hand is carried out while the process drains, and is not     *)
(* recorded.                                                              *)
Shutdown(p) ==
    /\ poller[p].held /\ leaseKey = p
    /\ gate' \in {gate, TRUE}
    /\ leaseKey' = NoPoller
    /\ Excuses(p)
    /\ poller' = [poller EXCEPT ![p] = IF Does(p, "handling")
                                       THEN [@ EXCEPT !.pc = "stopping", !.held = FALSE, !.open = FALSE]
                                       ELSE Started]
    /\ UNCHANGED <<dropped, lastUpdate, finished, repeated, skipped>>

Drain(p) ==
    LET u == poller[p].next IN
    /\ Does(p, "stopping")
    /\ \/ /\ finished' = finished \cup {u}
          /\ repeated' = IF u \in finished \ excused THEN repeated \cup {u} ELSE repeated
       \/ UNCHANGED <<finished, repeated>>
    /\ poller' = [poller EXCEPT ![p] = Started]
    /\ UNCHANGED <<leaseKey, gate, dropped, lastUpdate, skipped, excused>>

(* The process is killed; the one that follows draws a new owner id.  (The *)
(* key of a dead process stays until it expires, and keeps others out till *)
(* then; here it expires first.)                                          *)
PollerDies(p) ==
    /\ leaseKey # p /\ poller[p] # Started
    /\ Excuses(p)
    /\ poller' = [poller EXCEPT ![p] = Started]
    /\ UNCHANGED <<leaseKey, gate, dropped, lastUpdate, finished, repeated, skipped>>

PollingNext ==
    \/ \E p \in Poller :
        \/ EnsureLease(p) \/ LeaseLost(p) \/ RenewalFails(p) \/ ArmGuard(p) \/ OpenQueue(p)
        \/ ReadOffset(p) \/ TelegramAnswers(p) \/ AcceptBatch(p) \/ Refused(p)
        \/ StartUpdate(p) \/ HandleUpdate(p) \/ AfterUpdate(p) \/ AfterFailure(p) \/ RecordUpdate(p)
        \/ Shutdown(p) \/ Drain(p) \/ PollerDies(p)
    \/ KeyExpires

PollingSpec == PollingInit /\ [][PollingNext]_pollingVars

-----------------------------------------------------------------------------
(* No command is lost: what the offset has passed, or Telegram has         *)
(* forgotten, was carried out, or given up after its last attempt.        *)
NoUpdateLost ==
    \A u \in UpdateId : u <= lastUpdate \/ u <= dropped => u \in finished \cup skipped

(* Commands are finished in the order in which people sent them: one is     *)
(* carried out, or given up, only when all before it are, whichever        *)
(* processes have them, and also by one that lost the lease meanwhile.     *)
CommandsInOrder ==
    \A u \in finished \cup skipped : \A before \in 1..(u - 1) : before \in finished \cup skipped

(* A command is carried out twice only if a fault met it in between: its   *)
(* handler lost the lease, was stopped or died, or could not record it.   *)
(* Losing the lease anywhere else, or meeting another poller, repeats     *)
(* nothing.                                                               *)
RepetitionHasReason == repeated = {}
=============================================================================
