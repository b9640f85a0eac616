-------------------------- MODULE TelegramParts --------------------------
(* A Telegram post that does not fit one message: the rows of            *)
(* `publication_parts`, the loop that sends them one after the other (an  *)
(* album in one call, the text after it), and the statistics jobs that    *)
(* later read the public page of the channel and correct the post.        *)
(*                                                                        *)
(* The claim and the provider fence are one action here, and at most one  *)
(* handler sends for a post: Publication.tla shows why that is so.  A     *)
(* handler whose post was reclaimed goes on marking parts, which no lease *)
(* protects, and its final result is dropped, which the lease protects.   *)
(*                                                                        *)
(* Message ids grow in the order of the parts, and a page shows every     *)
(* message of the channel from some id on; pages that could not be read   *)
(* change neither status nor counter and are left out.                    *)
EXTENDS Naturals, FiniteSets, FiniteSetsExt

CONSTANTS
    NParts,         \* messages the post needs
    Album,          \* how many of them, from the first, are one album; 0: none
    MaxAttempts,
    Collector,      \* statistics jobs that may run side by side
    MaxAsks         \* bound of the model on requests of people

ASSUME PartsAssumption ==
    NParts \in Nat \ {0} /\ Album \in 0..NParts /\ MaxAttempts \in Nat \ {0} /\ MaxAsks \in Nat

VARIABLES
    post,       \* the row of `posts`
    parts,      \* send_status, by part
    sender,     \* the handler inside publishTg
    copies,     \* how often the network published each part
    wall,       \* the parts one can read in the channel
    orphans,    \* calls on the wire whose sender no longer listens
    collector,  \* the local variables of the statistics jobs
    outlived,   \* a post was reclaimed while its handler still ran
    asks

vars == <<post, parts, sender, copies, wall, orphans, collector, outlived, asks>>
network == <<copies, wall, orphans>>

Part == 1..NParts

(* The provider calls of the post, in order, and the parts each carries.  *)
Calls == IF Album = 0 THEN Part ELSE 1..(NParts - Album + 1)
PartsOf(c) ==
    IF Album = 0 THEN {c} ELSE IF c = 1 THEN 1..Album ELSE {c + Album - 1}

Unsent == {"pending", "failed"}
Waiting == {"pending", "failed", "cancelled"}

IdleSender == [pc |-> "idle", plan |-> [p \in Part |-> "pending"], call |-> 1,
               todo |-> {}, result |-> "none"]
IdleCollector == [pc |-> "idle", seen |-> {}, from |-> 1, sent |-> {}, misses |-> 0]

TypeOK ==
    /\ post \in [status : Waiting \cup {"publishing", "published", "unverified", "missing"},
                 attempts : Nat, misses : Nat]
    /\ parts \in [Part -> {"pending", "sending", "sent", "failed", "unknown"}]
    /\ sender \in [pc : {"idle", "walking", "marking", "calling",
                         "accepted", "refused", "lost", "done"},
                   plan : [Part -> {"pending", "sending", "sent", "failed", "unknown"}],
                   call : Calls \cup {Cardinality(Calls) + 1}, todo : SUBSET Part,
                   result : {"none", "ok", "refused", "unknown"}]
    /\ copies \in [Part -> Nat]
    /\ wall \subseteq Part /\ orphans \subseteq Calls
    /\ collector \in [Collector ->
           [pc : {"idle", "fetched", "picked"}, seen : SUBSET Part, from : 1..(NParts + 1),
            sent : SUBSET Part, misses : Nat]]
    /\ outlived \in BOOLEAN
    /\ asks \in 0..MaxAsks

Init ==
    /\ post = [status |-> "pending", attempts |-> 0, misses |-> 0]
    /\ parts = [p \in Part |-> "pending"]
    /\ sender = IdleSender
    /\ copies = [p \in Part |-> 0]
    /\ wall = {} /\ orphans = {}
    /\ collector = [c \in Collector |-> IdleCollector]
    /\ outlived = FALSE
    /\ asks = 0

-----------------------------------------------------------------------------
(* The handler.                                                           *)

(* The post is claimed, the fence is passed, and publishTg reads the plan.*)
Begin ==
    /\ sender.pc = "idle"
    /\ post.status = "pending"
    /\ post' = [post EXCEPT !.status = "publishing"]
    /\ sender' = [IdleSender EXCEPT !.pc = "walking", !.plan = parts]
    /\ UNCHANGED <<parts, network, collector, outlived, asks>>

Done(result) == [sender EXCEPT !.pc = "done", !.result = result, !.todo = {}]

(* Mutant: what was sent before is not remembered.                        *)
OpenAgain == {c \in Calls : c >= sender.call}

(* The calls that the plan, as it was read, still asks for.               *)
Open == {c \in Calls : c >= sender.call /\ \E p \in PartsOf(c) : sender.plan[p] # "sent"}

(* A part was left in doubt by an earlier process, or half of an album    *)
(* was: nothing more is sent.                                             *)
InDoubt(c) ==
    \/ \E p \in PartsOf(c) : sender.plan[p] \in {"sending", "unknown"}
    \/ /\ \E p \in PartsOf(c) : sender.plan[p] = "sent"
       /\ \E p \in PartsOf(c) : sender.plan[p] # "sent"

Walk ==
    /\ sender.pc = "walking"
    /\ sender' = IF Open = {} THEN Done("ok")
                 ELSE IF InDoubt(Min(Open)) THEN Done("unknown")
                 ELSE [sender EXCEPT !.pc = "marking", !.call = Min(Open),
                                     !.todo = PartsOf(Min(Open))]
    /\ UNCHANGED <<post, parts, network, collector, outlived, asks>>

(* Reading the plan or the media fails: for certain (an asset is gone, a  *)
(* payload does not match its hash), or with an exception.                *)
PrepareFails ==
    /\ sender.pc = "walking"
    /\ sender.call = 1
    /\ \E result \in {"refused", "unknown"} : sender' = Done(result)
    /\ UNCHANGED <<post, parts, network, collector, outlived, asks>>

(* The text of the call is too long: it is marked failed without a call.  *)
PayloadInvalid ==
    /\ sender.pc = "walking"
    /\ Open # {}
    /\ ~InDoubt(Min(Open))
    /\ sender' = [sender EXCEPT !.pc = "refused", !.call = Min(Open), !.todo = PartsOf(Min(Open))]
    /\ UNCHANGED <<post, parts, network, collector, outlived, asks>>

(* What each phase writes into a part.                                    *)
Mark(p) ==
    CASE sender.pc = "marking"  -> IF parts[p] \in Unsent THEN "sending" ELSE parts[p]
      [] sender.pc = "accepted" -> "sent"
      [] sender.pc = "refused"  -> "failed"
      [] sender.pc = "lost"     -> "unknown"

Marking == sender.pc \in {"marking", "accepted", "refused", "lost"}

(* Mutant: after a refusal the loop goes on with the next part.           *)
AfterMarkingNoReturn ==
    CASE sender.pc = "marking" -> [sender EXCEPT !.pc = "calling", !.todo = {}]
      [] sender.pc = "lost"    -> Done("unknown")
      [] OTHER -> [sender EXCEPT !.pc = "walking", !.todo = {}, !.call = @ + 1]

(* The last part of a call is marked: call, go on, or return.             *)
AfterMarking ==
    CASE sender.pc = "marking"  -> [sender EXCEPT !.pc = "calling", !.todo = {}]
      [] sender.pc = "accepted" -> [sender EXCEPT !.pc = "walking", !.todo = {}, !.call = @ + 1]
      [] sender.pc = "refused"  -> Done("refused")
      [] sender.pc = "lost"     -> Done("unknown")

(* One row is written; the receipts of an album are written in order.     *)
MarkPart(p) ==
    /\ Marking
    /\ p \in sender.todo
    /\ sender.pc = "accepted" => p = Min(sender.todo)
    /\ parts' = [parts EXCEPT ![p] = Mark(p)]
    /\ sender' = IF sender.todo = {p} THEN AfterMarking
                 ELSE [sender EXCEPT !.todo = @ \ {p}]
    /\ UNCHANGED <<post, network, collector, outlived, asks>>

(* A write throws: publishTg returns an unknown delivery.  Writes to the  *)
(* other parts of an album, under way at the same time, may get through.  *)
MarkingThrows ==
    /\ Marking
    /\ \E done \in SUBSET sender.todo :
           /\ sender.pc = "accepted" => done = {}
           /\ parts' = [p \in Part |-> IF p \in done THEN Mark(p) ELSE parts[p]]
    /\ sender' = Done("unknown")
    /\ UNCHANGED <<post, network, collector, outlived, asks>>

Publish(c) ==
    /\ copies' = [p \in Part |-> IF p \in PartsOf(c) THEN copies[p] + 1 ELSE copies[p]]
    /\ wall' = wall \cup PartsOf(c)

Heard(answer) == sender' = [sender EXCEPT !.pc = answer, !.todo = PartsOf(sender.call)]

(* Telegram publishes the call, and its reply does or does not name every *)
(* message.                                                               *)
NetworkAccepts ==
    /\ sender.pc = "calling"
    /\ Publish(sender.call)
    /\ \E answer \in {"accepted", "lost"} : Heard(answer)
    /\ UNCHANGED <<post, parts, orphans, collector, outlived, asks>>

NetworkRefuses ==
    /\ sender.pc = "calling"
    /\ Heard("refused")
    /\ UNCHANGED <<post, parts, network, collector, outlived, asks>>

(* Mutant: any reply that is not an acknowledgement counts as a refusal.  *)
ReplyIsLostAsRefusal ==
    /\ sender.pc = "calling"
    /\ Heard("refused")
    /\ orphans' = orphans \cup {sender.call}
    /\ UNCHANGED <<post, parts, copies, wall, collector, outlived, asks>>

(* A timeout or a 5xx: the request may still be on its way.               *)
ReplyIsLost ==
    /\ sender.pc = "calling"
    /\ Heard("lost")
    /\ orphans' = orphans \cup {sender.call}
    /\ UNCHANGED <<post, parts, copies, wall, collector, outlived, asks>>

OrphanAccepted(c) ==
    /\ c \in orphans
    /\ Publish(c)
    /\ orphans' = orphans \ {c}
    /\ UNCHANGED <<post, parts, sender, collector, outlived, asks>>

(* The result is recorded, if the lease still holds.  A refusal retries   *)
(* while attempts are left, and stops at once for lost credentials.       *)
Finish ==
    LET attempts == post.attempts + 1 IN
    /\ sender.pc = "done"
    /\ IF post.status = "publishing"
       THEN \E status \in CASE sender.result = "ok"      -> {"published"}
                            [] sender.result = "unknown" -> {"unverified"}
                            [] sender.result = "refused" ->
                                 IF attempts < MaxAttempts THEN {"pending", "failed"} ELSE {"failed"} :
                post' = [post EXCEPT !.status = status, !.attempts = attempts]
       ELSE UNCHANGED post
    /\ sender' = IdleSender
    /\ UNCHANGED <<parts, network, collector, outlived, asks>>

Crash ==
    /\ sender.pc # "idle"
    /\ orphans' = IF sender.pc = "calling" THEN orphans \cup {sender.call} ELSE orphans
    /\ sender' = IdleSender
    /\ UNCHANGED <<post, parts, copies, wall, collector, outlived, asks>>

(* After 15 minutes in "publishing".                                      *)
Reclaim ==
    /\ post.status = "publishing"
    /\ post' = [post EXCEPT !.status = "unverified"]
    /\ outlived' = (outlived \/ sender.pc # "idle")
    /\ UNCHANGED <<parts, sender, network, collector, asks>>

SenderStep ==
    \/ Begin \/ PrepareFails \/ Walk \/ PayloadInvalid \/ MarkingThrows
    \/ \E p \in Part : MarkPart(p)
    \/ NetworkAccepts \/ NetworkRefuses \/ ReplyIsLost
    \/ \E c \in Calls : OrphanAccepted(c)
    \/ Finish \/ Crash \/ Reclaim

-----------------------------------------------------------------------------
(* People.                                                                *)

Ask == asks < MaxAsks /\ asks' = asks + 1

(* Retry and reschedule, as far as the parts can tell.                    *)
Authorise ==
    /\ Ask
    /\ post.status \in Waiting
    /\ \E attempts \in {0, post.attempts} :
           post' = [post EXCEPT !.status = "pending", !.attempts = attempts]
    /\ UNCHANGED <<parts, sender, network, collector, outlived>>

Cancel ==
    /\ Ask
    /\ post.status \in Waiting
    /\ post' = [post EXCEPT !.status = "cancelled"]
    /\ UNCHANGED <<parts, sender, network, collector, outlived>>

(* An administrator of the channel deletes a message in Telegram.         *)
DeleteMessage(p) ==
    /\ p \in wall
    /\ wall' = wall \ {p}
    /\ UNCHANGED <<post, parts, sender, copies, orphans, collector, outlived, asks>>

PersonStep == Authorise \/ Cancel \/ \E p \in Part : DeleteMessage(p)

-----------------------------------------------------------------------------
(* The statistics jobs.                                                   *)

(* The public page is read: every message from some id on.                *)
FetchPage(c) ==
    /\ collector[c].pc = "idle"
    /\ \E from \in 1..(NParts + 1) :
           collector' = [collector EXCEPT ![c] =
               [IdleCollector EXCEPT !.pc = "fetched", !.from = from,
                                     !.seen = {p \in wall : p >= from}]]
    /\ UNCHANGED <<post, parts, sender, network, outlived, asks>>

(* Then the post is read, with the parts it has a message id for.         *)
PickPost(c) ==
    LET sent == {p \in Part : parts[p] = "sent"} IN
    /\ collector[c].pc = "fetched"
    /\ collector' = [collector EXCEPT ![c] =
           IF post.status \in {"published", "unverified"} /\ sent # {}
           THEN [@ EXCEPT !.pc = "picked", !.sent = sent, !.misses = post.misses]
           ELSE IdleCollector]
    /\ UNCHANGED <<post, parts, sender, network, outlived, asks>>

(* Mutant: a message older than the page counts as absent from it.        *)
AbsentFromPage(c) == collector[c].sent \ collector[c].seen

(* decideTelegramReconciliation: what is older than the page says nothing.*)
Absent(c) == {p \in collector[c].sent \ collector[c].seen : p >= collector[c].from}

ConfirmationsRequired == 2

(* decideTelegramAggregateReconciliation, and the unconditional update    *)
(* that follows it.                                                       *)
ApplyDecision(c) ==
    LET misses == collector[c].misses + 1 IN
    /\ collector[c].pc = "picked"
    /\ post' = IF Absent(c) # {}
               THEN [post EXCEPT !.misses = misses, !.status =
                        IF misses >= ConfirmationsRequired THEN "missing" ELSE @]
               ELSE IF collector[c].sent \subseteq collector[c].seen
               THEN [post EXCEPT !.misses = 0, !.status = "published"]
               ELSE post
    /\ collector' = [collector EXCEPT ![c] = IdleCollector]
    /\ UNCHANGED <<parts, sender, network, outlived, asks>>

CollectorStep(c) == FetchPage(c) \/ PickPost(c) \/ ApplyDecision(c)

Next == SenderStep \/ PersonStep \/ \E c \in Collector : CollectorStep(c)

Spec == Init /\ [][Next]_vars

-----------------------------------------------------------------------------
(* No message of the post appears twice in the channel, although a retry  *)
(* runs through all of its parts again and any write may be lost.         *)
NoPartTwice == \A p \in Part : copies[p] <= 1

(* A post that may be tried again, or that was stopped, knows of each of  *)
(* its parts whether it is in the channel; nothing of it is on the wire.  *)
RetryableIsCertain ==
    post.status \in Waiting =>
        /\ orphans = {}
        /\ \A p \in Part : parts[p] \in Unsent \cup {"sent"} /\ (parts[p] = "sent" <=> copies[p] > 0)

(* Readers get the parts in order: none is published before the one that  *)
(* precedes it, not even by a request that arrives late.                  *)
PartsInOrder == \A p, q \in Part : p < q /\ copies[q] > 0 => copies[p] > 0

(* A post is recorded as missing only if a message of it was deleted in   *)
(* the channel: one page read too early is not evidence enough.  (A       *)
(* handler that outlives the repair timer may be sending while pages are  *)
(* compared with its receipts; then nothing is promised.)                 *)
MissingIsGone ==
    post.status = "missing" /\ ~outlived =>
        \E p \in Part : copies[p] > 0 /\ p \notin wall

(* "Requires every publication part": a post counts as published when all *)
(* of its parts are in the channel, not when those that were confirmed    *)
(* are.                                                                   *)
PublishedIsWhole ==
    post.status = "published" /\ ~outlived =>
        \A p \in Part : copies[p] > 0

(* Each provider call of the post keeps the promise a post of one message *)
(* keeps: once begun, and unless refused for certain, it is not made      *)
(* again, however often the post is tried, and none is begun while the    *)
(* post is stopped and no handler is at work.                             *)
CallIsOut(c) ==
    \/ c \in orphans
    \/ sender.pc = "calling" /\ sender.call = c
    \/ \E p \in PartsOf(c) : copies[p] > 0

(* Where the calls are that are not out.                                  *)
RestOfCalls ==
    IF post.status = "pending" \/ sender.pc # "idle" THEN "waiting" ELSE "withdrawn"

CallPromise == INSTANCE DeliveryPromise
    WITH Post  <- Calls,
         phase <- [c \in Calls |-> IF CallIsOut(c) THEN "out" ELSE RestOfCalls],
         sent  <- [c \in Calls |-> copies[Min(PartsOf(c))]]

CallsKeepPromise == CallPromise!Spec
=============================================================================
