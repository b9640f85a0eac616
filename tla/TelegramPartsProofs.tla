------------------------ MODULE TelegramPartsProofs ------------------------
(* Proofs, for posts of any number of parts with or without an album, of   *)
(* what TelegramParts promises about the messages of a channel.            *)
(*                                                                        *)
(* The argument: a handler begins only when it is certain of every part,   *)
(* because a post with a doubt never waits again.  While it goes on, what  *)
(* is behind the call at hand is in the channel, what is ahead is as the   *)
(* plan says, and nothing is on the wire (SenderKnows); the call at hand   *)
(* is out of the channel until the network accepts it, and in the channel  *)
(* from then on (CallAtHand).  As soon as an answer is lost the handler    *)
(* stops, and the call that may still arrive is the only one.              *)
EXTENDS TelegramParts, FiniteSetTheorems, WellFoundedInduction, TLAPS

LastCall == Cardinality(Calls)

SenderRecord ==
    [pc : {"idle", "walking", "marking", "calling", "accepted", "refused", "lost", "done"},
     plan : [Part -> {"pending", "sending", "sent", "failed", "unknown"}],
     call : Calls \cup {LastCall + 1}, todo : SUBSET Part,
     result : {"none", "ok", "refused", "unknown"}]

PostRecord ==
    [status : Waiting \cup {"publishing", "published", "unverified", "missing"},
     attempts : Nat, misses : Nat]

CollectorRecord ==
    [pc : {"idle", "fetched", "picked"}, seen : SUBSET Part, from : 1..(NParts + 1),
     sent : SUBSET Part, misses : Nat]

-----------------------------------------------------------------------------
(* The calls share the parts among them, in order.                         *)

LEMMA CallsAreNumbered ==
    /\ LastCall \in Nat \ {0} /\ Calls = 1..LastCall
    /\ 1 \in Calls
    /\ \A c \in Calls : c \in Nat /\ c + 1 \in Calls \cup {LastCall + 1}
<1>1. NParts \in Nat \ {0} /\ Album \in 0..NParts
  BY PartsAssumption
<1>2. CASE Album = 0
  <2>1. Calls = 1..NParts
    BY <1>2 DEF Calls, Part
  <2>2. Cardinality(1..NParts) = NParts
    BY <1>1, FS_Interval
  <2> QED BY <1>1, <2>1, <2>2 DEF LastCall
<1>3. CASE Album # 0
  <2> DEFINE n == NParts - Album + 1
  <2>1. Calls = 1..n /\ n \in Nat \ {0}
    BY <1>1, <1>3 DEF Calls
  <2> HIDE DEF n
  <2>2. Cardinality(1..n) = n
    BY <2>1, FS_Interval
  <2> QED BY <2>1, <2>2 DEF LastCall
<1> QED BY <1>2, <1>3

LEMMA CallsShareParts ==
    /\ \A c \in Calls : PartsOf(c) \subseteq Part /\ PartsOf(c) # {}
    /\ \A c, d \in Calls : \A p \in PartsOf(c), q \in PartsOf(d) : c < d => p < q
    /\ \A c, d \in Calls : \A p \in PartsOf(c) : p \in PartsOf(d) => c = d
    /\ \A p \in Part : \E c \in Calls : p \in PartsOf(c)
<1>1. NParts \in Nat \ {0} /\ Album \in 0..NParts
  BY PartsAssumption
<1>2. \A c \in Calls : PartsOf(c) \subseteq Part /\ PartsOf(c) # {}
  <2> TAKE c \in Calls
  <2>1. CASE Album = 0
    BY <1>1, <2>1 DEF Calls, PartsOf, Part
  <2>2. CASE Album # 0 /\ c = 1
    <3>1. 1 \in 1..Album /\ 1..Album \subseteq 1..NParts
      BY <1>1, <2>2
    <3> QED BY <2>2, <3>1 DEF PartsOf, Part
  <2>3. CASE Album # 0 /\ c # 1
    BY <1>1, <2>3 DEF Calls, PartsOf, Part
  <2> QED BY <2>1, <2>2, <2>3
<1>3. \A c, d \in Calls : \A p \in PartsOf(c), q \in PartsOf(d) : c < d => p < q
  <2> SUFFICES ASSUME NEW c \in Calls, NEW d \in Calls, NEW p \in PartsOf(c), NEW q \in PartsOf(d),
                      c < d
               PROVE  p < q
    OBVIOUS
  <2>1. c \in Nat \ {0} /\ d \in Nat \ {0}
    BY CallsAreNumbered
  <2>2. CASE Album = 0
    BY <2>1, <2>2 DEF PartsOf
  <2>3. CASE Album # 0
    <3>1. q = d + Album - 1 /\ d >= 2
      BY <1>1, <2>1, <2>3 DEF PartsOf
    <3>2. p <= c + Album - 1 /\ p \in Nat
      BY <1>1, <2>1, <2>3 DEF PartsOf
    <3> QED BY <1>1, <2>1, <3>1, <3>2
  <2> QED BY <2>2, <2>3
<1>4. \A c, d \in Calls : \A p \in PartsOf(c) : p \in PartsOf(d) => c = d
  <2> SUFFICES ASSUME NEW c \in Calls, NEW d \in Calls, NEW p \in PartsOf(c), p \in PartsOf(d)
               PROVE  c = d
    OBVIOUS
  <2>1. c \in Nat /\ d \in Nat /\ p \in Nat
    BY <1>2, CallsAreNumbered DEF Part
  <2>2. ~(c < d) /\ ~(d < c)
    BY <1>3, <2>1
  <2> QED BY <2>1, <2>2
<1>5. \A p \in Part : \E c \in Calls : p \in PartsOf(c)
  <2> TAKE p \in Part
  <2>1. CASE Album = 0
    BY <2>1 DEF Calls, PartsOf
  <2>2. CASE Album # 0 /\ p <= Album
    BY <1>1, <2>2 DEF Calls, PartsOf, Part
  <2>3. CASE Album # 0 /\ p > Album
    <3> DEFINE c == p - Album + 1
    <3>1. c \in Calls /\ c # 1 /\ c + Album - 1 = p
      BY <1>1, <2>3 DEF Calls, Part
    <3> QED BY <2>3, <3>1 DEF PartsOf
  <2> QED BY <1>1, <2>1, <2>2, <2>3 DEF Part
<1> QED BY <1>2, <1>3, <1>4, <1>5

LEMMA LeastOfSet ==
    ASSUME NEW S \in SUBSET Nat, S # {}
    PROVE  Min(S) \in S /\ \A x \in S : Min(S) <= x
<1> DEFINE Less == OpToRel(<, Nat)
<1>1. IsWellFoundedOn(Less, Nat)
  BY NatLessThanWellFounded, Zenon
<1>2. PICK x \in S : \A y \in S : <<y, x>> \notin Less
  <2> HIDE DEF Less
  <2> QED BY <1>1, WFMin
<1>3. \A y \in S : x <= y
  <2> TAKE y \in S
  <2>1. ~(y < x)
    BY <1>2 DEF OpToRel
  <2> QED BY <2>1
<1> QED BY <1>3 DEF Min

-----------------------------------------------------------------------------
(* The inductive invariant.                                                *)

Going == sender.pc \in {"walking", "marking", "calling", "accepted", "refused"}
WasRefused == sender.pc = "done" /\ sender.result = "refused"

Certain(p) == parts[p] \in Unsent \cup {"sent"} /\ (parts[p] = "sent" <=> copies[p] > 0)

(* A call publishes its parts together and once, and a call on the wire    *)
(* has published nothing yet.                                              *)
CallsAreWhole ==
    \A c \in Calls : \A p \in PartsOf(c) :
        /\ copies[p] <= 1
        /\ c \in orphans => copies[p] = 0
        /\ \A q \in PartsOf(c) : copies[p] = copies[q]

(* A call is made after those before it have published.                    *)
CallsInOrder ==
    \A c, d \in Calls :
        c < d /\ (d \in orphans \/ \E q \in PartsOf(d) : copies[q] > 0)
        => \A p \in PartsOf(c) : copies[p] > 0

(* A post that waits has no handler and no doubts.                         *)
WaitingIsCertain ==
    post.status \in Waiting => sender.pc = "idle" /\ orphans = {} /\ \A p \in Part : Certain(p)

(* The handler knows everything but the call at hand, and so does the plan.*)
SenderKnows ==
    /\ sender.pc = "done" => sender.result # "none"
    /\ Going \/ WasRefused => orphans = {}
    /\ WasRefused => \A p \in Part : Certain(p)
    /\ Going =>
        \A c \in Calls : \A p \in PartsOf(c) :
            /\ c # sender.call \/ sender.pc = "walking" => Certain(p)
            /\ c < sender.call => parts[p] = "sent"
            /\ c > sender.call \/ (c = sender.call /\ sender.pc = "walking") =>
                  parts[p] = sender.plan[p]

(* The call at hand.                                                       *)
CallAtHand ==
    sender.pc \in {"marking", "calling", "accepted", "refused"} =>
        /\ sender.call \in Calls /\ sender.todo \subseteq PartsOf(sender.call)
        /\ \A p \in PartsOf(sender.call) :
              /\ copies[p] = IF sender.pc = "accepted" THEN 1 ELSE 0
              /\ sender.pc = "accepted" /\ p \notin sender.todo => parts[p] = "sent"
              /\ sender.pc = "refused" /\ p \notin sender.todo => parts[p] = "failed"

PartsInv ==
    /\ TypeOK
    /\ CallsAreWhole
    /\ CallsInOrder
    /\ WaitingIsCertain
    /\ SenderKnows
    /\ CallAtHand

(* What the statistics jobs may conclude while no handler outlived the      *)
(* repair timer.                                                            *)
Settled == post.status \in {"published", "unverified", "missing"}
Gone == \E p \in Part : copies[p] > 0 /\ p \notin wall
Receipts == {p \in Part : parts[p] = "sent"}

(* A receipt is of a message, and a settled post has no handler.           *)
ReceiptsAreKept ==
    /\ \A p \in Receipts : copies[p] > 0
    /\ Settled /\ ~outlived => sender.pc = "idle"

(* A job that picked the post works on what the post still is.             *)
PickedIsCurrent ==
    \A c \in Collector : collector[c].pc = "picked" =>
        /\ Settled
        /\ collector[c].misses = post.misses
        /\ ~outlived => collector[c].sent = Receipts

(* One page alone, read before the handler was done, may have missed a     *)
(* message; the page a job holds after that misses none that is there.     *)
OneMissAtMost ==
    ~outlived /\ ~Gone =>
        /\ post.status # "missing"
        /\ post.misses <= 1
        /\ post.misses = 1 =>
              /\ Settled
              /\ \A c \in Collector : collector[c].pc # "idle" =>
                    \A p \in Receipts : p >= collector[c].from => p \in collector[c].seen

EvidenceInv ==
    /\ ReceiptsAreKept
    /\ PickedIsCurrent
    /\ OneMissAtMost

-----------------------------------------------------------------------------
(* The steps of the handler.                                               *)

LEMMA TypesInParts ==
    ASSUME TypeOK
    PROVE  /\ post \in PostRecord /\ sender \in SenderRecord
           /\ parts \in [Part -> {"pending", "sending", "sent", "failed", "unknown"}]
           /\ copies \in [Part -> Nat] /\ wall \subseteq Part /\ orphans \subseteq Calls
           /\ collector \in [Collector -> CollectorRecord]
BY DEF TypeOK, PostRecord, SenderRecord, CollectorRecord, LastCall

(* A step that leaves the network, the post and the jobs alone and whose   *)
(* handler is at no call, and not sure of all parts.                       *)
LEMMA HandlerStops ==
    ASSUME PartsInv, UNCHANGED <<network, collector, outlived, asks, post>>,
           post.status \notin Waiting,
           parts' \in [Part -> {"pending", "sending", "sent", "failed", "unknown"}],
           sender' \in SenderRecord,
           \/ sender'.pc \in {"idle", "lost"}
           \/ sender'.pc = "done" /\ sender'.result \in {"ok", "unknown"}
    PROVE  PartsInv'
<1>1. TypeOK'
  BY DEF PartsInv, TypeOK, SenderRecord, LastCall, network
<1>2. CallsAreWhole' /\ CallsInOrder'
  BY DEF PartsInv, CallsAreWhole, CallsInOrder, network
<1>3. WaitingIsCertain' /\ SenderKnows' /\ CallAtHand'
  BY DEF WaitingIsCertain, SenderKnows, CallAtHand, Going, WasRefused
<1> QED BY <1>1, <1>2, <1>3 DEF PartsInv

LEMMA HandlerIsDone ==
    ASSUME TypeOK, NEW result \in {"ok", "unknown", "refused"}
    PROVE  Done(result) \in SenderRecord /\ Done(result).pc = "done" /\ Done(result).result = result
BY TypesInParts DEF Done, SenderRecord

LEMMA BeginKeeps == PartsInv /\ Begin => PartsInv'
<1> SUFFICES ASSUME PartsInv, Begin PROVE PartsInv'
  OBVIOUS
<1>1. /\ post \in PostRecord /\ parts \in [Part -> {"pending", "sending", "sent", "failed", "unknown"}]
  BY TypesInParts DEF PartsInv
<1>2. /\ post.status \in Waiting
      /\ UNCHANGED <<parts, copies, wall, orphans, collector, outlived, asks>>
      /\ sender'.pc = "walking" /\ sender'.plan = parts /\ sender'.call = 1
      /\ sender' \in SenderRecord
  BY <1>1, CallsAreNumbered DEF Begin, IdleSender, SenderRecord, Waiting, network
<1>3. post' \in PostRecord /\ post'.status = "publishing"
  BY <1>1 DEF Begin, PostRecord
<1>4. TypeOK'
  BY <1>2, <1>3 DEF PartsInv, TypeOK, PostRecord, SenderRecord, LastCall
<1>5. CallsAreWhole' /\ CallsInOrder'
  BY <1>2 DEF PartsInv, CallsAreWhole, CallsInOrder
<1>6. orphans' = {} /\ \A p \in Part : Certain(p)'
  BY <1>2 DEF PartsInv, WaitingIsCertain, Certain
<1>7. \A c \in Calls : ~(c < 1) /\ PartsOf(c) \subseteq Part
  BY CallsAreNumbered, CallsShareParts
<1>8. SenderKnows'
  BY <1>2, <1>6, <1>7 DEF SenderKnows, WasRefused
<1>9. WaitingIsCertain' /\ CallAtHand'
  BY <1>2, <1>3 DEF WaitingIsCertain, CallAtHand, Waiting
<1> QED BY <1>4, <1>5, <1>8, <1>9 DEF PartsInv

(* The next call is one that none of whose parts is in the channel.        *)
LEMMA NextCallKeeps ==
    ASSUME PartsInv, sender.pc = "walking", Open # {}, ~InDoubt(Min(Open)),
           NEW pc \in {"marking", "refused"},
           sender' = [sender EXCEPT !.pc = pc, !.call = Min(Open), !.todo = PartsOf(Min(Open))],
           UNCHANGED <<post, parts, network, collector, outlived, asks>>
    PROVE  PartsInv'
<1> DEFINE now == Min(Open)
<1>1. /\ sender \in SenderRecord /\ parts \in [Part -> {"pending", "sending", "sent", "failed", "unknown"}]
      /\ copies \in [Part -> Nat]
  BY TypesInParts DEF PartsInv
<1>2. now \in Open /\ \A c \in Open : now <= c
  BY LeastOfSet, CallsAreNumbered DEF Open
<1> HIDE DEF now
<1>3. /\ now \in Calls /\ now >= sender.call
      /\ \E p \in PartsOf(now) : sender.plan[p] # "sent"
  BY <1>2 DEF Open
<1>4. PartsOf(now) \subseteq Part
  BY <1>3, CallsShareParts
<1>5. /\ sender'.pc = pc /\ sender'.call = now /\ sender'.todo = PartsOf(now)
      /\ sender'.plan = sender.plan /\ sender' \in SenderRecord
  BY <1>1, <1>3, <1>4 DEF SenderRecord, now
<1>6. UNCHANGED <<post, parts, copies, wall, orphans, collector, outlived, asks>>
  BY DEF network
<1>7. sender.call \in Nat /\ \A c \in Calls : c \in Nat
  BY <1>1, CallsAreNumbered DEF SenderRecord
<1>8. /\ orphans = {}
      /\ \A c \in Calls : \A p \in PartsOf(c) :
            /\ Certain(p)
            /\ c < sender.call => parts[p] = "sent"
            /\ c >= sender.call => parts[p] = sender.plan[p]
  BY <1>7 DEF PartsInv, SenderKnows, Going
<1>9. \A p \in PartsOf(now) : copies[p] = 0
  <2> SUFFICES ASSUME NEW p \in PartsOf(now) PROVE copies[p] = 0
    OBVIOUS
  <2>1. sender.plan[p] # "sent"
    BY <1>3 DEF InDoubt, now
  <2>2. parts[p] # "sent" /\ Certain(p)
    BY <1>3, <1>8, <2>1
  <2> QED BY <1>1, <1>4, <2>2 DEF Certain
<1>10. TypeOK'
  BY <1>5, <1>6 DEF PartsInv, TypeOK, SenderRecord, LastCall
<1>11. CallsAreWhole' /\ CallsInOrder'
  BY <1>6 DEF PartsInv, CallsAreWhole, CallsInOrder
<1>12. \A c \in Calls : c < now => \A p \in PartsOf(c) : parts[p] = "sent"
  <2> SUFFICES ASSUME NEW c \in Calls, c < now, NEW p \in PartsOf(c), c >= sender.call
               PROVE  parts[p] = "sent"
    BY <1>7, <1>8
  <2>1. c \notin Open
    BY <1>2, <1>3, <1>7
  <2> QED BY <1>8, <2>1 DEF Open
<1>13. SenderKnows'
  <2>1. \A c \in Calls : \A p \in PartsOf(c) :
            /\ Certain(p)'
            /\ c < now => parts'[p] = "sent"
            /\ c > now => parts'[p] = sender'.plan[p]
    BY <1>3, <1>5, <1>6, <1>7, <1>8, <1>12 DEF Certain
  <2> QED BY <1>5, <1>6, <1>8, <2>1 DEF SenderKnows, WasRefused
<1>14. WaitingIsCertain' /\ CallAtHand'
  BY <1>3, <1>5, <1>6, <1>9 DEF PartsInv, WaitingIsCertain, CallAtHand
<1> QED BY <1>10, <1>11, <1>13, <1>14 DEF PartsInv

LEMMA WalkKeeps == PartsInv /\ (Walk \/ PrepareFails \/ PayloadInvalid) => PartsInv'
<1> SUFFICES ASSUME PartsInv, Walk \/ PrepareFails \/ PayloadInvalid PROVE PartsInv'
  OBVIOUS
<1>1. /\ sender.pc = "walking" /\ UNCHANGED <<post, parts, network, collector, outlived, asks>>
      /\ \/ \E result \in {"ok", "unknown"} : sender' = Done(result)
         \/ sender.call = 1 /\ sender' = Done("refused")
         \/ /\ Open # {} /\ ~InDoubt(Min(Open))
            /\ \E pc \in {"marking", "refused"} :
                  sender' = [sender EXCEPT !.pc = pc, !.call = Min(Open), !.todo = PartsOf(Min(Open))]
  BY DEF Walk, PrepareFails, PayloadInvalid
<1>2. post.status \notin Waiting
  BY <1>1 DEF PartsInv, WaitingIsCertain
<1>3. parts \in [Part -> {"pending", "sending", "sent", "failed", "unknown"}]
  BY TypesInParts DEF PartsInv
<1>4. ASSUME NEW result \in {"ok", "unknown"}, sender' = Done(result) PROVE PartsInv'
  <2>1. sender' \in SenderRecord /\ sender'.pc = "done" /\ sender'.result \in {"ok", "unknown"}
    BY <1>4, HandlerIsDone DEF PartsInv
  <2> QED BY <1>1, <1>2, <1>3, <2>1, HandlerStops
<1>5. ASSUME sender' = Done("refused") PROVE PartsInv'
  <2>1. sender' \in SenderRecord /\ sender'.pc = "done" /\ sender'.result = "refused"
    BY <1>5, HandlerIsDone DEF PartsInv
  <2>2. UNCHANGED <<post, parts, copies, wall, orphans, collector, outlived, asks>>
    BY <1>1 DEF network
  <2>3. TypeOK' /\ CallsAreWhole' /\ CallsInOrder'
    BY <2>1, <2>2 DEF PartsInv, TypeOK, SenderRecord, LastCall, CallsAreWhole, CallsInOrder
  <2>4. orphans = {} /\ \A p \in Part : Certain(p)
    BY <1>1, CallsShareParts DEF PartsInv, SenderKnows, Going
  <2>5. SenderKnows' /\ WaitingIsCertain' /\ CallAtHand'
    BY <1>2, <2>1, <2>2, <2>4 DEF SenderKnows, WaitingIsCertain, CallAtHand, Going, WasRefused, Certain
  <2> QED BY <2>3, <2>5 DEF PartsInv
<1> QED BY <1>1, <1>4, <1>5, NextCallKeeps

LEMMA MarkPartKeeps ==
    ASSUME PartsInv, NEW p \in Part, MarkPart(p)
    PROVE  PartsInv'
<1> DEFINE now == PartsOf(sender.call)
<1>1. /\ sender \in SenderRecord /\ parts \in [Part -> {"pending", "sending", "sent", "failed", "unknown"}]
      /\ copies \in [Part -> Nat]
  BY TypesInParts DEF PartsInv
<1>2. /\ p \in sender.todo /\ parts' = [parts EXCEPT ![p] = Mark(p)]
      /\ sender.pc \in {"marking", "accepted", "refused", "lost"}
      /\ UNCHANGED <<post, copies, wall, orphans, collector, outlived, asks>>
  BY DEF MarkPart, Marking, network
<1>3. /\ sender.pc = "accepted" => Mark(p) = "sent"
      /\ sender.pc = "refused" => Mark(p) = "failed"
      /\ Mark(p) \in {"pending", "sending", "sent", "failed", "unknown"}
  BY <1>1, <1>2 DEF Mark
<1>4. /\ parts' \in [Part -> {"pending", "sending", "sent", "failed", "unknown"}]
      /\ parts'[p] = Mark(p) /\ \A q \in Part \ {p} : parts'[q] = parts[q]
  BY <1>1, <1>2, <1>3
<1>5. post.status \notin Waiting
  BY <1>2 DEF PartsInv, WaitingIsCertain
<1>6. CASE sender.pc = "lost"
  <2>1. sender' \in SenderRecord
        /\ (sender'.pc = "lost" \/ (sender'.pc = "done" /\ sender'.result = "unknown"))
    <3>1. sender' = Done("unknown") \/ sender' = [sender EXCEPT !.todo = @ \ {p}]
      BY <1>6 DEF MarkPart, AfterMarking
    <3>2. [sender EXCEPT !.todo = @ \ {p}] \in SenderRecord
          /\ [sender EXCEPT !.todo = @ \ {p}].pc = sender.pc
      BY <1>1 DEF SenderRecord
    <3> QED BY <1>6, <3>1, <3>2, HandlerIsDone DEF PartsInv
  <2> QED BY <1>2, <1>4, <1>5, <2>1, HandlerStops DEF network
<1>7. CASE sender.pc \in {"marking", "accepted", "refused"}
  <2>1. /\ sender.call \in Calls /\ sender.todo \subseteq now
        /\ \A q \in now :
              /\ copies[q] = IF sender.pc = "accepted" THEN 1 ELSE 0
              /\ sender.pc = "accepted" /\ q \notin sender.todo => parts[q] = "sent"
              /\ sender.pc = "refused" /\ q \notin sender.todo => parts[q] = "failed"
    BY <1>7 DEF PartsInv, CallAtHand
  <2>2. /\ orphans = {}
        /\ \A c \in Calls : \A q \in PartsOf(c) :
              /\ c # sender.call => Certain(q)
              /\ c < sender.call => parts[q] = "sent"
              /\ c > sender.call => parts[q] = sender.plan[q]
    BY <1>7 DEF PartsInv, SenderKnows, Going
  <2>3. sender.call \in Nat /\ \A c \in Calls : c \in Nat
    BY <2>1, CallsAreNumbered
  <2>4. p \in now /\ now \subseteq Part
    BY <1>2, <2>1, CallsShareParts
  <2>5. \A c \in Calls : c # sender.call => \A q \in PartsOf(c) : q \in Part /\ q # p
    BY <2>1, <2>4, CallsShareParts
  <2>6. \A c \in Calls : \A q \in PartsOf(c) :
              /\ c # sender.call => Certain(q)'
              /\ c < sender.call => parts'[q] = "sent"
              /\ c > sender.call => parts'[q] = sender.plan[q]
    BY <1>2, <1>4, <2>2, <2>3, <2>5 DEF Certain
  <2>7. CASE sender.pc = "accepted" /\ sender.todo = {p}
    <3>1. /\ sender' \in SenderRecord /\ sender'.pc = "walking" /\ sender'.call = sender.call + 1
          /\ sender'.plan = sender.plan
      <4>1. sender' = [sender EXCEPT !.pc = "walking", !.todo = {}, !.call = sender.call + 1]
        BY <2>7 DEF MarkPart, AfterMarking
      <4>2. sender.call + 1 \in Calls \cup {LastCall + 1}
        BY <2>1, CallsAreNumbered
      <4> QED BY <1>1, <4>1, <4>2 DEF SenderRecord
    <3>2. \A q \in now : parts'[q] = "sent" /\ Certain(q)'
      BY <1>2, <1>3, <1>4, <2>1, <2>4, <2>7 DEF Certain
    <3>3. \A c \in Calls : \A q \in PartsOf(c) :
              /\ Certain(q)'
              /\ c < sender.call + 1 => parts'[q] = "sent"
              /\ c >= sender.call + 1 => parts'[q] = sender.plan[q]
      BY <2>3, <2>6, <3>2
    <3>4. SenderKnows'
      <4>1. sender'.call \in Nat
        BY <2>3, <3>1
      <4> QED BY <1>2, <2>2, <2>3, <3>1, <3>3, <4>1 DEF SenderKnows, WasRefused
    <3>5. WaitingIsCertain' /\ CallAtHand'
      BY <1>2, <1>5, <3>1 DEF WaitingIsCertain, CallAtHand
    <3>6. TypeOK' /\ CallsAreWhole' /\ CallsInOrder'
      BY <1>2, <1>4, <3>1 DEF PartsInv, TypeOK, SenderRecord, LastCall, CallsAreWhole, CallsInOrder
    <3> QED BY <3>4, <3>5, <3>6 DEF PartsInv
  <2>8. CASE sender.pc = "refused" /\ sender.todo = {p}
    <3>1. sender' \in SenderRecord /\ sender'.pc = "done" /\ sender'.result = "refused"
      BY <2>8, HandlerIsDone DEF PartsInv, MarkPart, AfterMarking
    <3>2. \A q \in now : parts'[q] = "failed" /\ copies'[q] = 0
      BY <1>2, <1>3, <1>4, <2>1, <2>4, <2>8
    <3>3. \A q \in Part : Certain(q)'
      BY <2>6, <3>2, CallsShareParts DEF Certain, Unsent
    <3>4. SenderKnows' /\ WaitingIsCertain' /\ CallAtHand'
      BY <1>2, <1>5, <2>2, <3>1, <3>3
      DEF SenderKnows, WaitingIsCertain, CallAtHand, Going, WasRefused
    <3>5. TypeOK' /\ CallsAreWhole' /\ CallsInOrder'
      BY <1>2, <1>4, <3>1 DEF PartsInv, TypeOK, SenderRecord, LastCall, CallsAreWhole, CallsInOrder
    <3> QED BY <3>4, <3>5 DEF PartsInv
  <2>9. CASE ~(sender.pc \in {"accepted", "refused"} /\ sender.todo = {p})
    <3>1. /\ sender' \in SenderRecord /\ sender'.call = sender.call /\ sender'.plan = sender.plan
          /\ \/ sender'.pc = sender.pc /\ sender'.todo = sender.todo \ {p}
             \/ sender.pc = "marking" /\ sender'.pc = "calling" /\ sender'.todo = {}
      <4>1. \/ sender' = [sender EXCEPT !.pc = "calling", !.todo = {}] /\ sender.pc = "marking"
            \/ sender' = [sender EXCEPT !.todo = @ \ {p}]
        BY <1>7, <2>9 DEF MarkPart, AfterMarking
      <4> QED BY <1>1, <4>1 DEF SenderRecord
    <3>2. SenderKnows'
      BY <1>2, <1>7, <2>2, <2>3, <2>6, <3>1 DEF SenderKnows, WasRefused
    <3>3. CallAtHand'
      BY <1>2, <1>3, <1>4, <1>7, <2>1, <2>4, <3>1 DEF CallAtHand
    <3>4. WaitingIsCertain'
      BY <1>2, <1>5 DEF WaitingIsCertain
    <3>5. TypeOK' /\ CallsAreWhole' /\ CallsInOrder'
      BY <1>2, <1>4, <3>1 DEF PartsInv, TypeOK, SenderRecord, LastCall, CallsAreWhole, CallsInOrder
    <3> QED BY <3>2, <3>3, <3>4, <3>5 DEF PartsInv
  <2> QED BY <1>7, <2>7, <2>8, <2>9
<1> QED BY <1>2, <1>6, <1>7

LEMMA MarkingThrowsKeeps == PartsInv /\ MarkingThrows => PartsInv'
<1> SUFFICES ASSUME PartsInv, MarkingThrows PROVE PartsInv'
  OBVIOUS
<1>1. /\ sender \in SenderRecord /\ parts \in [Part -> {"pending", "sending", "sent", "failed", "unknown"}]
  BY TypesInParts DEF PartsInv
<1>2. /\ sender.pc \in {"marking", "accepted", "refused", "lost"}
      /\ UNCHANGED <<post, network, collector, outlived, asks>> /\ sender' = Done("unknown")
  BY DEF MarkingThrows, Marking
<1>3. post.status \notin Waiting
  BY <1>2 DEF PartsInv, WaitingIsCertain
<1>4. \A p \in Part : Mark(p) \in {"pending", "sending", "sent", "failed", "unknown"}
  BY <1>1, <1>2 DEF Mark
<1>5. parts' \in [Part -> {"pending", "sending", "sent", "failed", "unknown"}]
  <2>1. PICK done \in SUBSET sender.todo :
            parts' = [p \in Part |-> IF p \in done THEN Mark(p) ELSE parts[p]]
    BY DEF MarkingThrows
  <2> QED BY <1>1, <1>4, <2>1
<1>6. sender' \in SenderRecord /\ sender'.pc = "done" /\ sender'.result = "unknown"
  BY <1>2, HandlerIsDone DEF PartsInv
<1> QED BY <1>2, <1>3, <1>5, <1>6, HandlerStops

-----------------------------------------------------------------------------
(* The steps of the network.                                               *)

(* The network carries out a call that published nothing yet, after those  *)
(* before it.                                                              *)
LEMMA PublishKeeps ==
    ASSUME PartsInv, NEW c \in Calls, Publish(c),
           orphans' \subseteq orphans, c \notin orphans',
           \A p \in PartsOf(c) : copies[p] = 0,
           \A d \in Calls : d < c => \A p \in PartsOf(d) : copies[p] > 0
    PROVE  /\ copies' \in [Part -> Nat] /\ wall' \subseteq Part
           /\ CallsAreWhole' /\ CallsInOrder'
           /\ \A p \in PartsOf(c) : copies'[p] = 1
           /\ \A p \in Part \ PartsOf(c) : copies'[p] = copies[p]
<1>1. copies \in [Part -> Nat] /\ wall \subseteq Part /\ orphans \subseteq Calls
  BY TypesInParts DEF PartsInv
<1>2. PartsOf(c) \subseteq Part
  BY CallsShareParts
<1>3. copies' \in [Part -> Nat] /\ wall' \subseteq Part
  BY <1>1, <1>2 DEF Publish
<1>4. /\ \A p \in PartsOf(c) : copies'[p] = 1
      /\ \A p \in Part \ PartsOf(c) : copies'[p] = copies[p]
  BY <1>1, <1>2 DEF Publish
<1>5. \A d \in Calls : d # c => \A p \in PartsOf(d) : p \in Part /\ copies'[p] = copies[p]
  BY <1>4, CallsShareParts
<1>6. CallsAreWhole'
  BY <1>4, <1>5 DEF PartsInv, CallsAreWhole
<1>7. CallsInOrder'
  <2> SUFFICES ASSUME NEW b \in Calls, NEW d \in Calls, b < d,
                      d \in orphans' \/ \E q \in PartsOf(d) : copies'[q] > 0,
                      NEW p \in PartsOf(b)
               PROVE  copies'[p] > 0
    BY DEF CallsInOrder
  <2>1. CASE b = c
    BY <1>4, <2>1
  <2>2. CASE b # c /\ d = c
    BY <1>5, <2>2
  <2>3. CASE b # c /\ d # c
    BY <1>5, <2>3 DEF PartsInv, CallsInOrder
  <2> QED BY <2>1, <2>2, <2>3
<1> QED BY <1>3, <1>4, <1>6, <1>7

(* What the handler knows of its call, and of those before it.             *)
LEMMA CallIsDue ==
    ASSUME PartsInv, sender.pc = "calling"
    PROVE  /\ sender.call \in Calls /\ orphans = {}
           /\ \A p \in PartsOf(sender.call) : copies[p] = 0
           /\ \A d \in Calls : d < sender.call => \A p \in PartsOf(d) : copies[p] > 0
<1>1. sender.call \in Calls /\ \A p \in PartsOf(sender.call) : copies[p] = 0
  BY DEF PartsInv, CallAtHand
<1>2. \A d \in Calls : d < sender.call => d # sender.call
  BY <1>1, CallsAreNumbered
<1>3. orphans = {} /\ \A d \in Calls : d < sender.call => \A p \in PartsOf(d) : copies[p] > 0
  BY <1>2 DEF PartsInv, SenderKnows, Going, Certain
<1> QED BY <1>1, <1>3

LEMMA AnswerIsHeard ==
    ASSUME PartsInv, sender.pc = "calling", NEW answer \in {"accepted", "refused", "lost"},
           Heard(answer)
    PROVE  /\ sender' \in SenderRecord /\ sender'.pc = answer /\ sender'.plan = sender.plan
           /\ sender'.call = sender.call /\ sender'.todo = PartsOf(sender.call)
<1>1. sender \in SenderRecord
  BY TypesInParts DEF PartsInv
<1>2. PartsOf(sender.call) \subseteq Part
  BY CallIsDue, CallsShareParts
<1> QED BY <1>1, <1>2 DEF Heard, SenderRecord

LEMMA AcceptKeeps == PartsInv /\ NetworkAccepts => PartsInv'
<1> SUFFICES ASSUME PartsInv, NetworkAccepts PROVE PartsInv'
  OBVIOUS
<1>1. /\ sender.pc = "calling" /\ Publish(sender.call)
      /\ UNCHANGED <<post, parts, orphans, collector, outlived, asks>>
  BY DEF NetworkAccepts
<1>2. /\ sender.call \in Calls /\ orphans = {}
      /\ copies' \in [Part -> Nat] /\ wall' \subseteq Part
      /\ CallsAreWhole' /\ CallsInOrder'
      /\ \A p \in PartsOf(sender.call) : copies'[p] = 1
      /\ \A p \in Part \ PartsOf(sender.call) : copies'[p] = copies[p]
  BY <1>1, CallIsDue, PublishKeeps
<1>3. PICK answer \in {"accepted", "lost"} : Heard(answer)
  BY DEF NetworkAccepts
<1>4. /\ sender' \in SenderRecord /\ sender'.pc = answer /\ sender'.plan = sender.plan
      /\ sender'.call = sender.call /\ sender'.todo = PartsOf(sender.call)
  BY <1>1, <1>3, AnswerIsHeard
<1>5. post.status \notin Waiting
  BY <1>1 DEF PartsInv, WaitingIsCertain
<1>6. TypeOK'
  BY <1>1, <1>2, <1>4 DEF PartsInv, TypeOK, SenderRecord, LastCall
<1>7. WaitingIsCertain' /\ CallAtHand'
  BY <1>1, <1>2, <1>4, <1>5 DEF WaitingIsCertain, CallAtHand
<1>8. SenderKnows'
  <2>1. \A c \in Calls : c # sender.call => \A p \in PartsOf(c) : p \in Part \ PartsOf(sender.call)
    BY <1>2, CallsShareParts
  <2>2. \A c \in Calls : \A p \in PartsOf(c) :
            /\ c # sender.call => Certain(p)'
            /\ c < sender.call => parts'[p] = "sent"
            /\ c > sender.call => parts'[p] = sender.plan[p]
    BY <1>1, <1>2, <2>1 DEF PartsInv, SenderKnows, Going, Certain
  <2>3. sender.call \in Nat
    BY <1>2, CallsAreNumbered
  <2> QED BY <1>1, <1>2, <1>4, <2>2, <2>3 DEF SenderKnows, WasRefused
<1> QED BY <1>2, <1>6, <1>7, <1>8 DEF PartsInv

LEMMA RefuseKeeps == PartsInv /\ NetworkRefuses => PartsInv'
<1> SUFFICES ASSUME PartsInv, NetworkRefuses PROVE PartsInv'
  OBVIOUS
<1>1. /\ sender.pc = "calling"
      /\ UNCHANGED <<post, parts, copies, wall, orphans, collector, outlived, asks>>
  BY DEF NetworkRefuses, network
<1>2. /\ sender' \in SenderRecord /\ sender'.pc = "refused" /\ sender'.plan = sender.plan
      /\ sender'.call = sender.call /\ sender'.todo = PartsOf(sender.call)
  BY <1>1, AnswerIsHeard DEF NetworkRefuses
<1>3. TypeOK' /\ CallsAreWhole' /\ CallsInOrder'
  BY <1>1, <1>2 DEF PartsInv, TypeOK, SenderRecord, LastCall, CallsAreWhole, CallsInOrder
<1>4. WaitingIsCertain' /\ CallAtHand'
  BY <1>1, <1>2, CallIsDue DEF PartsInv, WaitingIsCertain, CallAtHand
<1>5. \A c \in Calls : \A p \in PartsOf(c) :
          /\ c # sender.call => Certain(p)'
          /\ c < sender.call => parts'[p] = "sent"
          /\ c > sender.call => parts'[p] = sender.plan[p]
  BY <1>1 DEF PartsInv, SenderKnows, Going, Certain
<1>6. SenderKnows'
  BY <1>1, <1>2, <1>5, CallIsDue DEF SenderKnows, WasRefused
<1> QED BY <1>3, <1>4, <1>6 DEF PartsInv

(* A call is left on the wire: it has published nothing, those before it   *)
(* have, and the handler stops.                                            *)
LEMMA LostCallKeeps ==
    ASSUME PartsInv, sender.pc = "calling", orphans' = orphans \cup {sender.call},
           UNCHANGED <<post, parts, copies, wall, collector, outlived, asks>>,
           sender' \in SenderRecord, sender'.pc \in {"idle", "lost"}
    PROVE  PartsInv'
<1>1. post.status \notin Waiting
  BY DEF PartsInv, WaitingIsCertain
<1>2. TypeOK'
  BY CallIsDue DEF PartsInv, TypeOK, SenderRecord, LastCall
<1>3. CallsAreWhole' /\ CallsInOrder'
  BY CallIsDue DEF PartsInv, CallsAreWhole, CallsInOrder
<1>4. WaitingIsCertain' /\ SenderKnows' /\ CallAtHand'
  BY <1>1 DEF WaitingIsCertain, SenderKnows, CallAtHand, Going, WasRefused
<1> QED BY <1>2, <1>3, <1>4 DEF PartsInv

LEMMA IdleSenderTyped == IdleSender \in SenderRecord /\ IdleSender.pc = "idle"
BY CallsAreNumbered DEF IdleSender, SenderRecord

LEMMA LossKeeps == PartsInv /\ (ReplyIsLost \/ Crash) => PartsInv'
<1>1. ASSUME PartsInv, ReplyIsLost PROVE PartsInv'
  <2>1. sender' \in SenderRecord /\ sender'.pc = "lost"
    BY <1>1, AnswerIsHeard DEF ReplyIsLost
  <2> QED BY <1>1, <2>1, LostCallKeeps DEF ReplyIsLost
<1>2. ASSUME PartsInv, Crash PROVE PartsInv'
  <2>1. sender' \in SenderRecord /\ sender'.pc = "idle"
    BY <1>2, IdleSenderTyped DEF Crash
  <2>2. CASE sender.pc = "calling"
    BY <1>2, <2>1, <2>2, LostCallKeeps DEF Crash
  <2>3. CASE sender.pc # "calling"
    <3>1. post.status \notin Waiting
      BY <1>2 DEF Crash, PartsInv, WaitingIsCertain
    <3>2. parts' \in [Part -> {"pending", "sending", "sent", "failed", "unknown"}]
      BY <1>2, TypesInParts DEF Crash, PartsInv
    <3> QED BY <1>2, <2>1, <2>3, <3>1, <3>2, HandlerStops DEF Crash, network
  <2> QED BY <2>2, <2>3
<1> QED BY <1>1, <1>2

LEMMA OrphanKeeps ==
    ASSUME PartsInv, NEW c \in Calls, OrphanAccepted(c)
    PROVE  PartsInv'
<1>1. /\ c \in orphans /\ Publish(c) /\ orphans' = orphans \ {c}
      /\ UNCHANGED <<post, parts, sender, collector, outlived, asks>>
  BY DEF OrphanAccepted
<1>2. /\ \A p \in PartsOf(c) : copies[p] = 0
      /\ \A d \in Calls : d < c => \A p \in PartsOf(d) : copies[p] > 0
  BY <1>1 DEF PartsInv, CallsAreWhole, CallsInOrder
<1>3. copies' \in [Part -> Nat] /\ wall' \subseteq Part /\ CallsAreWhole' /\ CallsInOrder'
  BY <1>1, <1>2, PublishKeeps
<1>4. ~Going /\ ~WasRefused /\ post.status \notin Waiting
  BY <1>1 DEF PartsInv, SenderKnows, WaitingIsCertain
<1>5. TypeOK'
  BY <1>1, <1>3 DEF PartsInv, TypeOK
<1>6. WaitingIsCertain' /\ SenderKnows' /\ CallAtHand'
  BY <1>1, <1>4 DEF PartsInv, WaitingIsCertain, SenderKnows, CallAtHand, Going, WasRefused
<1> QED BY <1>3, <1>5, <1>6 DEF PartsInv

-----------------------------------------------------------------------------
(* The steps that change the post.                                         *)

(* The post moves among the statuses with no way back to waiting, or was   *)
(* waiting already.                                                        *)
LEMMA PostMoves ==
    ASSUME PartsInv, post' \in PostRecord, UNCHANGED <<parts, sender, copies, orphans>>,
           wall' \subseteq wall, outlived' \in BOOLEAN, asks' \in 0..MaxAsks,
           collector' \in [Collector -> CollectorRecord],
           post'.status \in Waiting => post.status \in Waiting
    PROVE  PartsInv'
<1>1. TypeOK'
  BY DEF PartsInv, TypeOK, PostRecord, CollectorRecord
<1>2. CallsAreWhole' /\ CallsInOrder' /\ SenderKnows' /\ CallAtHand'
  BY DEF PartsInv, CallsAreWhole, CallsInOrder, SenderKnows, CallAtHand, Going, WasRefused, Certain
<1>3. WaitingIsCertain'
  BY DEF PartsInv, WaitingIsCertain, Certain
<1> QED BY <1>1, <1>2, <1>3 DEF PartsInv

LEMMA FinishKeeps == PartsInv /\ Finish => PartsInv'
<1> SUFFICES ASSUME PartsInv, Finish PROVE PartsInv'
  OBVIOUS
<1>1. /\ sender.pc = "done" /\ sender' = IdleSender
      /\ UNCHANGED <<parts, copies, wall, orphans, collector, outlived, asks>>
  BY DEF Finish, network
<1>2. post \in PostRecord /\ sender \in SenderRecord
  BY TypesInParts DEF PartsInv
<1>3. post.status \notin Waiting
  BY <1>1 DEF PartsInv, WaitingIsCertain
<1>4. post' \in PostRecord /\ (post'.status \in Waiting => WasRefused)
  <2>1. CASE post.status # "publishing"
    BY <1>2, <1>3, <2>1 DEF Finish
  <2>2. CASE post.status = "publishing"
    <3>1. sender.result \in {"ok", "unknown", "refused"}
      BY <1>1, <1>2 DEF PartsInv, SenderKnows, SenderRecord
    <3>2. PICK status \in {"published", "unverified", "pending", "failed"} :
              /\ post' = [post EXCEPT !.status = status, !.attempts = post.attempts + 1]
              /\ status \in {"pending", "failed"} => sender.result = "refused"
      BY <2>2, <3>1 DEF Finish
    <3>3. post.attempts + 1 \in Nat
      BY <1>2 DEF PostRecord
    <3>4. post' \in PostRecord /\ post'.status = status
      BY <1>2, <3>2, <3>3 DEF PostRecord, Waiting
    <3> QED BY <1>1, <3>2, <3>4 DEF Waiting, WasRefused
  <2> QED BY <2>1, <2>2
<1>5. sender' \in SenderRecord /\ sender'.pc = "idle"
  BY <1>1, IdleSenderTyped
<1>6. TypeOK' /\ CallsAreWhole' /\ CallsInOrder'
  BY <1>1, <1>4, <1>5
  DEF PartsInv, TypeOK, PostRecord, SenderRecord, LastCall, CallsAreWhole, CallsInOrder
<1>7. SenderKnows' /\ CallAtHand'
  BY <1>5 DEF SenderKnows, CallAtHand, Going, WasRefused
<1>8. WaitingIsCertain'
  BY <1>1, <1>4, <1>5 DEF PartsInv, SenderKnows, WaitingIsCertain, Certain
<1> QED BY <1>6, <1>7, <1>8 DEF PartsInv

LEMMA CollectorMoves ==
    ASSUME TypeOK, NEW c \in Collector, CollectorStep(c)
    PROVE  /\ collector' \in [Collector -> CollectorRecord]
           /\ post' \in PostRecord
           /\ post'.status = post.status \/ post'.status \in {"published", "missing"}
           /\ UNCHANGED <<parts, sender, copies, wall, orphans, outlived, asks>>
<1>1. /\ collector \in [Collector -> CollectorRecord] /\ post \in PostRecord /\ wall \subseteq Part
      /\ NParts \in Nat
  BY TypesInParts, PartsAssumption
<1>2. IdleCollector \in CollectorRecord
  BY <1>1 DEF IdleCollector, CollectorRecord
<1>3. CASE FetchPage(c)
  <2>1. PICK from \in 1..(NParts + 1) :
            collector' = [collector EXCEPT ![c] =
               [IdleCollector EXCEPT !.pc = "fetched", !.from = from,
                                     !.seen = {p \in wall : p >= from}]]
    BY <1>3 DEF FetchPage
  <2> DEFINE new == [IdleCollector EXCEPT !.pc = "fetched", !.from = from,
                                          !.seen = {p \in wall : p >= from}]
  <2>2. new \in CollectorRecord
    BY <1>1, <1>2 DEF CollectorRecord
  <2> HIDE DEF new
  <2>3. collector' \in [Collector -> CollectorRecord]
    BY <1>1, <2>1, <2>2 DEF new
  <2> QED BY <1>1, <1>3, <2>3 DEF FetchPage, network
<1>4. CASE PickPost(c)
  <2> DEFINE sent == {p \in Part : parts[p] = "sent"}
  <2> DEFINE new == [collector[c] EXCEPT !.pc = "picked", !.sent = sent, !.misses = post.misses]
  <2>1. new \in CollectorRecord
    BY <1>1 DEF CollectorRecord, PostRecord
  <2>2. \/ collector' = [collector EXCEPT ![c] = new]
        \/ collector' = [collector EXCEPT ![c] = IdleCollector]
    BY <1>4 DEF PickPost
  <2> HIDE DEF new
  <2>3. collector' \in [Collector -> CollectorRecord]
    BY <1>1, <1>2, <2>1, <2>2
  <2> QED BY <1>1, <1>4, <2>3 DEF PickPost, network
<1>5. CASE ApplyDecision(c)
  <2>1. collector' \in [Collector -> CollectorRecord]
    BY <1>1, <1>2, <1>5 DEF ApplyDecision
  <2> DEFINE misses == collector[c].misses + 1
  <2>2. misses \in Nat
    BY <1>1 DEF CollectorRecord
  <2>3. PICK status \in {post.status, "missing", "published"}, n \in {0, misses} :
            post' = [post EXCEPT !.misses = n, !.status = status] \/ post' = post
    BY <1>5 DEF ApplyDecision
  <2> HIDE DEF misses
  <2>4. n \in Nat /\ status \in Waiting \cup {"publishing", "published", "unverified", "missing"}
    BY <1>1, <2>2 DEF PostRecord
  <2>5. [post EXCEPT !.misses = n, !.status = status] \in PostRecord
        /\ [post EXCEPT !.misses = n, !.status = status].status = status
    BY <1>1, <2>4 DEF PostRecord
  <2> QED BY <1>1, <1>5, <2>1, <2>3, <2>5 DEF ApplyDecision, network
<1> QED BY <1>3, <1>4, <1>5 DEF CollectorStep

LEMMA OutsideKeeps ==
    ASSUME PartsInv,
           \/ Reclaim \/ Authorise \/ Cancel
           \/ \E p \in Part : DeleteMessage(p)
           \/ \E c \in Collector : CollectorStep(c)
    PROVE  PartsInv'
<1>1. /\ post \in PostRecord /\ collector \in [Collector -> CollectorRecord]
      /\ outlived \in BOOLEAN /\ asks \in 0..MaxAsks /\ MaxAsks \in Nat
  BY TypesInParts, PartsAssumption DEF PartsInv, TypeOK
<1>2. CASE Reclaim
  <2>1. post' \in PostRecord /\ post'.status = "unverified"
    BY <1>1, <1>2 DEF Reclaim, PostRecord
  <2>2. outlived' \in BOOLEAN
    BY <1>1, <1>2 DEF Reclaim
  <2> QED BY <1>1, <1>2, <2>1, <2>2, PostMoves DEF Reclaim, Waiting, network
<1>3. CASE Authorise \/ Cancel
  <2>1. post.status \in Waiting /\ asks' \in 0..MaxAsks
    BY <1>1, <1>3 DEF Authorise, Cancel, Ask
  <2>2. post' \in PostRecord
    <3>1. CASE Authorise
      <4>1. PICK attempts \in {0, post.attempts} :
                post' = [post EXCEPT !.status = "pending", !.attempts = attempts]
        BY <3>1 DEF Authorise
      <4>2. attempts \in Nat
        BY <1>1, <4>1 DEF PostRecord
      <4> QED BY <1>1, <4>1, <4>2 DEF PostRecord, Waiting
    <3>2. CASE Cancel
      BY <1>1, <3>2 DEF Cancel, PostRecord, Waiting
    <3> QED BY <1>3, <3>1, <3>2
  <2> QED BY <1>1, <1>3, <2>1, <2>2, PostMoves DEF Authorise, Cancel, network
<1>4. ASSUME NEW p \in Part, DeleteMessage(p) PROVE PartsInv'
  BY <1>1, <1>4, PostMoves DEF DeleteMessage
<1>5. ASSUME NEW c \in Collector, CollectorStep(c) PROVE PartsInv'
  <2>1. /\ collector' \in [Collector -> CollectorRecord]
        /\ post' \in PostRecord
        /\ post'.status = post.status \/ post'.status \in {"published", "missing"}
        /\ UNCHANGED <<parts, sender, copies, wall, orphans, outlived, asks>>
    BY <1>5, CollectorMoves DEF PartsInv
  <2> QED BY <1>1, <2>1, PostMoves DEF Waiting
<1> QED BY <1>2, <1>3, <1>4, <1>5

-----------------------------------------------------------------------------
(* The theorems.                                                           *)

LEMMA PartsInit == Init => PartsInv
<1> SUFFICES ASSUME Init PROVE PartsInv
  OBVIOUS
<1>1. /\ sender \in SenderRecord /\ sender.pc = "idle"
      /\ parts = [p \in Part |-> "pending"] /\ copies = [p \in Part |-> 0]
      /\ wall = {} /\ orphans = {} /\ asks = 0 /\ outlived = FALSE
  BY IdleSenderTyped DEF Init
<1>2. IdleCollector \in CollectorRecord
  BY PartsAssumption DEF IdleCollector, CollectorRecord
<1>3. collector \in [Collector -> CollectorRecord]
  BY <1>2 DEF Init
<1>4. post \in PostRecord
  BY DEF Init, PostRecord, Waiting
<1>5. 0 \in 0..MaxAsks
  BY PartsAssumption
<1>6. TypeOK
  BY <1>1, <1>3, <1>4, <1>5 DEF TypeOK, PostRecord, SenderRecord, CollectorRecord, LastCall
<1>7. \A c \in Calls : \A p \in PartsOf(c) : p \in Part /\ copies[p] = 0
  BY <1>1, CallsShareParts
<1>8. CallsAreWhole /\ CallsInOrder
  BY <1>1, <1>7 DEF CallsAreWhole, CallsInOrder
<1>9. \A p \in Part : Certain(p)
  BY <1>1 DEF Certain, Unsent
<1>10. WaitingIsCertain /\ SenderKnows /\ CallAtHand
  BY <1>1, <1>9 DEF WaitingIsCertain, SenderKnows, CallAtHand, Going, WasRefused
<1> QED BY <1>6, <1>8, <1>10 DEF PartsInv

LEMMA PartsStep == PartsInv /\ [Next]_vars => PartsInv'
<1> SUFFICES ASSUME PartsInv, [Next]_vars PROVE PartsInv'
  OBVIOUS
<1>1. CASE SenderStep
  BY <1>1, BeginKeeps, WalkKeeps, MarkPartKeeps, MarkingThrowsKeeps, AcceptKeeps, RefuseKeeps,
     LossKeeps, OrphanKeeps, FinishKeeps, OutsideKeeps DEF SenderStep
<1>2. CASE PersonStep
  BY <1>2, OutsideKeeps DEF PersonStep
<1>3. CASE \E c \in Collector : CollectorStep(c)
  BY <1>3, OutsideKeeps
<1>4. CASE UNCHANGED vars
  BY <1>4 DEF vars, network, PartsInv, TypeOK, CallsAreWhole, CallsInOrder, WaitingIsCertain,
     SenderKnows, CallAtHand, Going, WasRefused, Certain
<1> QED BY <1>1, <1>2, <1>3, <1>4 DEF Next

(* The invariant: what a handler of publishTg knows while it sends.        *)
THEOREM PartsInvariance == Spec => []PartsInv
<1> QED BY PartsInit, PartsStep, PTL DEF Spec

(* The rows, the handler and the statistics jobs keep their types.         *)
THEOREM PartsTypes == Spec => []TypeOK
<1>1. PartsInv => TypeOK
  BY DEF PartsInv
<1> QED BY <1>1, PartsInvariance, PTL

(* Retries, lost answers, crashes and late requests never publish a part   *)
(* of a post twice.                                                        *)
THEOREM NoPartIsRepeated == Spec => []NoPartTwice
<1>1. PartsInv => NoPartTwice
  BY CallsShareParts DEF PartsInv, CallsAreWhole, NoPartTwice
<1> QED BY <1>1, PartsInvariance, PTL

(* A post that may be tried again knows of each part whether readers have  *)
(* it, and nothing of it is on the wire.                                   *)
THEOREM RetryIsCertain == Spec => []RetryableIsCertain
<1>1. PartsInv => RetryableIsCertain
  BY DEF PartsInv, WaitingIsCertain, Certain, RetryableIsCertain
<1> QED BY <1>1, PartsInvariance, PTL

(* Readers get the parts in their order.                                   *)
THEOREM PartsComeInOrder == Spec => []PartsInOrder
<1>1. ASSUME PartsInv, NEW p \in Part, NEW q \in Part, p < q, copies[q] > 0
      PROVE  copies[p] > 0
  <2>1. PICK c \in Calls : p \in PartsOf(c)
    BY CallsShareParts
  <2>2. PICK d \in Calls : q \in PartsOf(d)
    BY CallsShareParts
  <2>3. c \in Nat /\ d \in Nat /\ p \in Nat /\ q \in Nat
    BY CallsAreNumbered DEF Part
  <2>4. ~(d < c)
    BY <1>1, <2>1, <2>2, <2>3, CallsShareParts
  <2>5. CASE c = d
    BY <1>1, <2>1, <2>2, <2>5 DEF PartsInv, CallsAreWhole
  <2>6. CASE c < d
    BY <1>1, <2>1, <2>2, <2>6 DEF PartsInv, CallsInOrder
  <2> QED BY <2>3, <2>4, <2>5, <2>6
<1>2. PartsInv => PartsInOrder
  BY <1>1 DEF PartsInOrder
<1> QED BY <1>2, PartsInvariance, PTL

-----------------------------------------------------------------------------
(* What a missing post shows, if the statistics jobs run one at a time.    *)

SoleCollector == \A c, d \in Collector : c = d

(* What is gone stays gone: a message is published once.                   *)
LEMMA GoneStays == PartsInv /\ [Next]_vars /\ Gone => Gone'
<1> SUFFICES ASSUME PartsInv, [Next]_vars, Gone PROVE Gone'
  OBVIOUS
<1>1. PICK p \in Part : copies[p] > 0 /\ p \notin wall
  BY DEF Gone
<1>2. ASSUME NEW c \in Calls, Publish(c), \A q \in PartsOf(c) : copies[q] = 0
      PROVE  Gone'
  <2>1. p \notin PartsOf(c)
    BY <1>1, <1>2
  <2>2. copies'[p] = copies[p] /\ p \notin wall'
    BY <1>1, <1>2, <2>1 DEF Publish
  <2> QED BY <1>1, <2>2 DEF Gone
<1>3. CASE NetworkAccepts
  BY <1>2, <1>3, CallIsDue DEF NetworkAccepts
<1>4. ASSUME NEW c \in Calls, OrphanAccepted(c) PROVE Gone'
  BY <1>2, <1>4 DEF OrphanAccepted, PartsInv, CallsAreWhole
<1>5. CASE UNCHANGED copies /\ wall' \subseteq wall
  BY <1>1, <1>5 DEF Gone
<1>6. NetworkAccepts \/ (\E c \in Calls : OrphanAccepted(c)) \/ (UNCHANGED copies /\ wall' \subseteq wall)
  <2>1. CASE SenderStep
    BY <2>1 DEF SenderStep, Begin, PrepareFails, Walk, PayloadInvalid, MarkingThrows, MarkPart,
       NetworkRefuses, ReplyIsLost, Finish, Crash, Reclaim, network
  <2>2. CASE PersonStep
    BY <2>2 DEF PersonStep, Authorise, Cancel, DeleteMessage, network
  <2>3. CASE \E c \in Collector : CollectorStep(c)
    BY <2>3 DEF CollectorStep, FetchPage, PickPost, ApplyDecision, network
  <2>4. CASE UNCHANGED vars
    BY <2>4 DEF vars, network
  <2> QED BY <2>1, <2>2, <2>3, <2>4 DEF Next
<1> QED BY <1>3, <1>4, <1>5, <1>6

(* A step of the handler, the network or a person: no job moves, and while *)
(* no handler outlives its post, a settled one keeps its receipts.         *)
LEMMA WorkKeepsEvidence ==
    ASSUME PartsInv, EvidenceInv, PartsInv', SenderStep \/ PersonStep
    PROVE  EvidenceInv'
<1>1. /\ post \in PostRecord /\ sender \in SenderRecord /\ copies \in [Part -> Nat]
      /\ parts \in [Part -> {"pending", "sending", "sent", "failed", "unknown"}]
      /\ outlived \in BOOLEAN
  BY TypesInParts DEF PartsInv, TypeOK
<1>2. UNCHANGED collector
  BY DEF SenderStep, PersonStep, Begin, PrepareFails, Walk, PayloadInvalid, MarkingThrows, MarkPart,
     NetworkAccepts, NetworkRefuses, ReplyIsLost, OrphanAccepted, Finish, Crash, Reclaim, Authorise,
     Cancel, DeleteMessage
<1>3. /\ post'.misses = post.misses
      /\ Settled => post' = post
      /\ Settled' => Settled \/ (post.status = "publishing" /\ (sender'.pc = "idle" \/ outlived'))
      /\ post'.status = "missing" => post.status = "missing"
      /\ outlived => outlived'
      /\ sender.pc = "idle" => sender'.pc = "idle" \/ post.status = "pending"
  <2>1. CASE Finish
    <3>1. CASE post.status # "publishing"
      BY <1>1, <2>1, <3>1, IdleSenderTyped DEF Finish, Settled
    <3>2. CASE post.status = "publishing"
      <4>1. sender.result \in {"ok", "unknown", "refused"}
        BY <1>1, <2>1 DEF Finish, PartsInv, SenderKnows, SenderRecord
      <4>2. PICK status \in {"published", "unverified", "pending", "failed"} :
                post' = [post EXCEPT !.status = status, !.attempts = post.attempts + 1]
        BY <2>1, <3>2, <4>1 DEF Finish
      <4>3. post'.status = status /\ post'.misses = post.misses
        BY <1>1, <4>2 DEF PostRecord
      <4> QED BY <2>1, <3>2, <4>3, IdleSenderTyped DEF Finish, Settled
    <3> QED BY <3>1, <3>2
  <2>2. CASE Begin \/ Reclaim \/ Authorise \/ Cancel
    BY <1>1, <2>2 DEF Begin, Reclaim, Authorise, Cancel, PostRecord, Settled, Waiting
  <2>3. CASE UNCHANGED <<post, outlived>> /\ (sender.pc = "idle" => sender' = sender)
    BY <2>3 DEF Settled
  <2>4. ASSUME ~Finish, ~(Begin \/ Reclaim \/ Authorise \/ Cancel)
        PROVE  UNCHANGED <<post, outlived>> /\ (sender.pc = "idle" => sender' = sender)
    BY <2>4 DEF SenderStep, PersonStep, PrepareFails, Walk, PayloadInvalid, MarkingThrows, MarkPart,
       NetworkAccepts, NetworkRefuses, ReplyIsLost, OrphanAccepted, Crash, DeleteMessage, Marking
  <2> QED BY <2>1, <2>2, <2>3, <2>4
<1>4. sender.pc = "idle" => UNCHANGED parts
  BY DEF SenderStep, PersonStep, Begin, PrepareFails, Walk, PayloadInvalid, MarkingThrows, MarkPart,
     NetworkAccepts, NetworkRefuses, ReplyIsLost, OrphanAccepted, Finish, Crash, Reclaim, Authorise,
     Cancel, DeleteMessage, Marking
<1>5. \A p \in Receipts' : copies'[p] > 0
  <2>1. \A p \in Part : copies[p] > 0 => copies'[p] > 0
    <3>1. UNCHANGED copies \/ \E c \in Calls \cup {sender.call} : Publish(c)
      BY DEF SenderStep, PersonStep, Begin, PrepareFails, Walk, PayloadInvalid, MarkingThrows,
         MarkPart, NetworkAccepts, NetworkRefuses, ReplyIsLost, OrphanAccepted, Finish, Crash, Reclaim,
         Authorise, Cancel, DeleteMessage, network
    <3> QED BY <1>1, <3>1 DEF Publish
  <2>2. \A p \in Part : parts'[p] = "sent" /\ parts[p] # "sent" => copies[p] > 0
    <3>1. ASSUME NEW p \in Part, Marking, p \in sender.todo, Mark(p) = "sent", parts[p] # "sent"
          PROVE  copies[p] > 0
      BY <3>1 DEF Mark, Marking, PartsInv, CallAtHand
    <3>2. CASE MarkingThrows
      <4>1. Marking
        BY <3>2 DEF MarkingThrows
      <4>2. PICK done \in SUBSET sender.todo :
                parts' = [p \in Part |-> IF p \in done THEN Mark(p) ELSE parts[p]]
        BY <3>2 DEF MarkingThrows
      <4> QED BY <3>1, <4>1, <4>2
    <3>3. ASSUME NEW q \in Part, MarkPart(q)
          PROVE  \A p \in Part : parts'[p] = "sent" /\ parts[p] # "sent" => copies[p] > 0
      BY <1>1, <3>1, <3>3 DEF MarkPart
    <3>4. ASSUME ~MarkingThrows, ~(\E q \in Part : MarkPart(q))
          PROVE  UNCHANGED parts
      BY <3>4 DEF SenderStep, PersonStep, Begin, PrepareFails, Walk, PayloadInvalid,
         NetworkAccepts, NetworkRefuses, ReplyIsLost, OrphanAccepted, Finish, Crash, Reclaim,
         Authorise, Cancel, DeleteMessage
    <3> QED BY <3>2, <3>3, <3>4
  <2> QED BY <2>1, <2>2 DEF EvidenceInv, ReceiptsAreKept, Receipts
<1>6. Settled' /\ ~outlived' => sender'.pc = "idle"
  BY <1>1, <1>3 DEF EvidenceInv, ReceiptsAreKept, Settled
<1>7. Settled /\ ~outlived' => sender.pc = "idle" /\ Receipts' = Receipts /\ Settled'
  BY <1>3, <1>4 DEF EvidenceInv, ReceiptsAreKept, Settled, Receipts
<1>8. PickedIsCurrent'
  <2> SUFFICES ASSUME NEW c \in Collector, collector[c].pc = "picked"
               PROVE  /\ Settled'
                      /\ collector[c].misses = post'.misses
                      /\ ~outlived' => collector[c].sent = Receipts'
    BY <1>2 DEF PickedIsCurrent
  <2>1. Settled /\ collector[c].misses = post.misses /\ (~outlived => collector[c].sent = Receipts)
    BY DEF EvidenceInv, PickedIsCurrent
  <2> QED BY <1>3, <1>7, <2>1 DEF Settled
<1>9. OneMissAtMost'
  <2> SUFFICES ASSUME ~outlived', ~Gone' PROVE OneMissAtMost'
    BY DEF OneMissAtMost
  <2>1. ~outlived /\ ~Gone
    BY <1>3, GoneStays DEF Next
  <2>2. /\ post.status # "missing" /\ post.misses <= 1
        /\ post.misses = 1 =>
              /\ Settled
              /\ \A c \in Collector : collector[c].pc # "idle" =>
                    \A p \in Receipts : p >= collector[c].from => p \in collector[c].seen
    BY <2>1 DEF EvidenceInv, OneMissAtMost
  <2> QED BY <1>2, <1>3, <1>7, <2>2 DEF OneMissAtMost
<1> QED BY <1>5, <1>6, <1>8, <1>9 DEF EvidenceInv, ReceiptsAreKept

(* A step of the only statistics job.                                      *)
LEMMA JobKeepsEvidence ==
    ASSUME SoleCollector, PartsInv, EvidenceInv, NEW c \in Collector, CollectorStep(c)
    PROVE  EvidenceInv'
<1>1. /\ post \in PostRecord /\ collector \in [Collector -> CollectorRecord]
      /\ \A d \in Collector : d = c
      /\ UNCHANGED <<parts, sender, copies, wall, outlived>>
  BY TypesInParts, CollectorMoves DEF PartsInv, SoleCollector
<1>2. Receipts' = Receipts /\ Gone' = Gone
  BY <1>1 DEF Receipts, Gone
<1>3. CASE FetchPage(c)
  <2>1. UNCHANGED post /\ Settled' = Settled
    BY <1>3 DEF FetchPage, Settled
  <2>2. /\ collector'[c].pc = "fetched"
        /\ collector'[c].seen = {p \in wall : p >= collector'[c].from}
    BY <1>1, <1>3 DEF FetchPage, IdleCollector
  <2>3. ReceiptsAreKept' /\ PickedIsCurrent'
    BY <1>1, <1>2, <2>1, <2>2 DEF EvidenceInv, ReceiptsAreKept, PickedIsCurrent
  <2>4. ~Gone => \A p \in Receipts : p >= collector'[c].from => p \in collector'[c].seen
    BY <2>2 DEF Gone, EvidenceInv, ReceiptsAreKept, Receipts
  <2>5. OneMissAtMost'
    BY <1>1, <1>2, <2>1, <2>4 DEF EvidenceInv, OneMissAtMost
  <2> QED BY <2>3, <2>5 DEF EvidenceInv
<1>4. CASE PickPost(c)
  <2>1. UNCHANGED post /\ Settled' = Settled
    BY <1>4 DEF PickPost, Settled
  <2>2. \/ /\ post.status \in {"published", "unverified"}
           /\ collector'[c].pc = "picked" /\ collector'[c].sent = Receipts
           /\ collector'[c].misses = post.misses
           /\ collector'[c].seen = collector[c].seen /\ collector'[c].from = collector[c].from
        \/ collector'[c].pc = "idle"
    <3>1. CASE post.status \in {"published", "unverified"} /\ Receipts # {}
      <4>1. collector' = [collector EXCEPT ![c] =
                [collector[c] EXCEPT !.pc = "picked", !.sent = Receipts, !.misses = post.misses]]
        BY <1>1, <1>4, <3>1 DEF PickPost, Receipts
      <4> QED BY <1>1, <3>1, <4>1 DEF CollectorRecord
    <3>2. CASE ~(post.status \in {"published", "unverified"} /\ Receipts # {})
      <4>1. collector' = [collector EXCEPT ![c] = IdleCollector]
        BY <1>1, <1>4, <3>2 DEF PickPost, Receipts
      <4> QED BY <1>1, <4>1 DEF IdleCollector
    <3> QED BY <3>1, <3>2
  <2>3. collector[c].pc = "fetched"
    BY <1>4 DEF PickPost
  <2>4. ReceiptsAreKept' /\ PickedIsCurrent'
    BY <1>1, <1>2, <2>1, <2>2 DEF EvidenceInv, ReceiptsAreKept, PickedIsCurrent, Settled
  <2>5. OneMissAtMost'
    BY <1>1, <1>2, <2>1, <2>2, <2>3 DEF EvidenceInv, OneMissAtMost
  <2> QED BY <2>4, <2>5 DEF EvidenceInv
<1>5. CASE ApplyDecision(c)
  <2>1. collector[c].pc = "picked" /\ collector'[c].pc = "idle"
    BY <1>1, <1>5 DEF ApplyDecision, IdleCollector
  <2>2. Settled /\ collector[c].misses = post.misses /\ (~outlived => collector[c].sent = Receipts)
    BY <2>1 DEF EvidenceInv, PickedIsCurrent
  <2>3. post' \in PostRecord /\ (post'.status = post.status \/ post'.status \in {"published", "missing"})
    BY <1>5, CollectorMoves DEF CollectorStep, PartsInv
  <2>4. Settled'
    BY <2>2, <2>3 DEF Settled
  <2>5. ReceiptsAreKept' /\ PickedIsCurrent'
    BY <1>1, <1>2, <2>1, <2>2, <2>4 DEF EvidenceInv, ReceiptsAreKept, PickedIsCurrent
  <2>6. OneMissAtMost'
    <3> SUFFICES ASSUME ~outlived, ~Gone
                 PROVE  post'.status # "missing" /\ post'.misses <= 1
      BY <1>1, <1>2, <2>1, <2>4 DEF OneMissAtMost
    <3>1. post.status # "missing" /\ post.misses <= 1 /\ post.misses \in Nat
      BY <1>1 DEF EvidenceInv, OneMissAtMost, PostRecord
    <3>2. CASE Absent(c) = {}
      <4> DEFINE seen == [post EXCEPT !.misses = 0, !.status = "published"]
      <4>1. post' = post \/ post' = seen
        BY <1>5, <3>2 DEF ApplyDecision
      <4>2. seen.status = "published" /\ seen.misses = 0
        BY <1>1 DEF PostRecord
      <4> HIDE DEF seen
      <4> QED BY <3>1, <4>1, <4>2
    <3>3. CASE Absent(c) # {}
      <4> DEFINE misses == collector[c].misses + 1
      <4> DEFINE status == IF misses >= ConfirmationsRequired THEN "missing" ELSE post.status
      <4> DEFINE missed == [post EXCEPT !.misses = misses, !.status = status]
      <4>1. post.misses # 1
        BY <2>1, <2>2, <3>3 DEF EvidenceInv, OneMissAtMost, Absent
      <4>2. misses = 1
        BY <2>2, <3>1, <4>1
      <4>3. status = post.status
        BY <4>2 DEF ConfirmationsRequired
      <4>4. post' = missed
        BY <1>5, <3>3 DEF ApplyDecision
      <4> HIDE DEF misses, status
      <4>5. missed.misses = misses /\ missed.status = status
        BY <1>1 DEF PostRecord
      <4> QED BY <3>1, <4>2, <4>3, <4>4, <4>5
    <3> QED BY <3>2, <3>3
  <2> QED BY <2>5, <2>6 DEF EvidenceInv
<1> QED BY <1>3, <1>4, <1>5 DEF CollectorStep

LEMMA EvidenceInit == Init => EvidenceInv
BY DEF Init, EvidenceInv, ReceiptsAreKept, PickedIsCurrent, OneMissAtMost, Receipts, Settled,
   IdleCollector, IdleSender

LEMMA EvidenceStep ==
    ASSUME SoleCollector
    PROVE  PartsInv /\ EvidenceInv /\ [Next]_vars => EvidenceInv'
<1> SUFFICES ASSUME PartsInv, EvidenceInv, [Next]_vars PROVE EvidenceInv'
  OBVIOUS
<1>1. PartsInv'
  BY PartsStep
<1>2. CASE UNCHANGED vars
  BY <1>2 DEF vars, network, EvidenceInv, ReceiptsAreKept, PickedIsCurrent, OneMissAtMost, Receipts,
     Settled, Gone
<1> QED BY <1>1, <1>2, WorkKeepsEvidence, JobKeepsEvidence DEF Next

(* If the statistics jobs run one at a time, a post is recorded as missing *)
(* only when a message of it was deleted.  (Two jobs that both read a page *)
(* too early can be wrong together.)                                       *)
THEOREM MissingIsDeleted ==
    ASSUME SoleCollector
    PROVE  Spec => []MissingIsGone
<1>1. EvidenceInv => MissingIsGone
  BY DEF EvidenceInv, OneMissAtMost, MissingIsGone, Gone
<1>2. Spec => []EvidenceInv
  BY PartsInvariance, EvidenceInit, EvidenceStep, PTL DEF Spec
<1> QED BY <1>1, <1>2, PTL

-----------------------------------------------------------------------------
(* Each call keeps the promise of DeliveryPromise.  A step of the system   *)
(* puts one call on the wire, takes one off it, or leaves the wire and the *)
(* channel as they are.                                                    *)

OnWire(c) == c \in orphans \/ (sender.pc = "calling" /\ sender.call = c)
Silent(c) == \A p \in PartsOf(c) : copies[p] = 0

WireStays == copies' = copies /\ \A c \in Calls : OnWire(c)' <=> OnWire(c)

HandlerGoesOn == post' = post /\ (sender'.pc = "idle" <=> sender.pc = "idle")

CallBegins(c) ==
    /\ HandlerGoesOn /\ sender.pc # "idle" /\ copies' = copies
    /\ ~OnWire(c) /\ Silent(c) /\ OnWire(c)'
    /\ \A d \in Calls \ {c} : OnWire(d)' <=> OnWire(d)

CallPublishes(c) ==
    /\ HandlerGoesOn /\ OnWire(c) /\ Silent(c)
    /\ copies' \in [Part -> Nat] /\ \A p \in PartsOf(c) : copies'[p] = 1
    /\ \A d \in Calls \ {c} : /\ OnWire(d)' <=> OnWire(d)
                              /\ \A p \in PartsOf(d) : copies'[p] = copies[p]

CallFails(c) ==
    /\ HandlerGoesOn /\ copies' = copies
    /\ OnWire(c) /\ Silent(c) /\ ~OnWire(c)'
    /\ \A d \in Calls \ {c} : OnWire(d)' <=> OnWire(d)

LEMMA MarkingIsBeginning ==
    ASSUME PartsInv, NEW p \in Part, MarkPart(p)
    PROVE  WireStays \/ \E c \in Calls : CallBegins(c)
<1>1. sender \in SenderRecord
  BY TypesInParts DEF PartsInv
<1>2. UNCHANGED <<post, copies, orphans>> /\ sender.pc \in {"marking", "accepted", "refused", "lost"}
  BY DEF MarkPart, Marking, network
<1>3. \A c \in Calls : OnWire(c) <=> c \in orphans
  BY <1>2 DEF OnWire
<1>4. CASE sender.pc = "marking" /\ sender.todo = {p}
  <2>1. sender' = [sender EXCEPT !.pc = "calling", !.todo = {}]
    BY <1>4 DEF MarkPart, AfterMarking
  <2>2. sender'.pc = "calling" /\ sender'.call = sender.call
    BY <1>1, <2>1 DEF SenderRecord
  <2>3. sender.call \in Calls /\ orphans = {} /\ Silent(sender.call)
    BY <1>4 DEF PartsInv, CallAtHand, SenderKnows, Going, Silent
  <2>4. PICK now \in Calls : now = sender.call
    BY <2>3
  <2>5. CallBegins(now)
    BY <1>2, <1>3, <1>4, <2>2, <2>3, <2>4 DEF CallBegins, HandlerGoesOn, OnWire
  <2> QED BY <2>5
<1>5. CASE ~(sender.pc = "marking" /\ sender.todo = {p})
  <2>1. sender'.pc # "calling"
    <3>1. CASE sender.todo # {p}
      <4>1. sender' = [sender EXCEPT !.todo = @ \ {p}]
        BY <3>1 DEF MarkPart
      <4>2. sender'.pc = sender.pc
        BY <1>1, <4>1 DEF SenderRecord
      <4> QED BY <1>2, <4>2
    <3>2. CASE sender.pc = "accepted" /\ sender.todo = {p}
      <4>1. sender' = [sender EXCEPT !.pc = "walking", !.todo = {}, !.call = sender.call + 1]
        BY <3>2 DEF MarkPart, AfterMarking
      <4> QED BY <1>1, <4>1 DEF SenderRecord
    <3>3. CASE sender.pc \in {"refused", "lost"} /\ sender.todo = {p}
      <4>1. sender' = Done("refused") \/ sender' = Done("unknown")
        BY <3>3 DEF MarkPart, AfterMarking
      <4> QED BY <4>1, HandlerIsDone DEF PartsInv
    <3> QED BY <1>2, <1>5, <3>1, <3>2, <3>3
  <2> QED BY <1>2, <1>3, <2>1 DEF WireStays, OnWire
<1> QED BY <1>4, <1>5

LEMMA AnswersMoveOneCall ==
    ASSUME PartsInv, sender.pc = "calling",
           NetworkAccepts \/ NetworkRefuses \/ ReplyIsLost
    PROVE  WireStays \/ \E c \in Calls : CallPublishes(c) \/ CallFails(c)
<1>0. PICK now \in Calls : now = sender.call
  BY CallIsDue
<1>1. now \in Calls /\ orphans = {} /\ Silent(now) /\ OnWire(now)
  BY <1>0, CallIsDue DEF Silent, OnWire
<1>2. \A d \in Calls \ {now} : ~OnWire(d)
  BY <1>0, <1>1 DEF OnWire
<1>3. UNCHANGED post /\ \E answer \in {"accepted", "refused", "lost"} : Heard(answer)
  BY DEF NetworkAccepts, NetworkRefuses, ReplyIsLost
<1>4. sender'.pc \in {"accepted", "refused", "lost"}
  BY <1>3, AnswerIsHeard
<1>5. CASE NetworkAccepts
  <2>1. Publish(now) /\ orphans' = orphans
    BY <1>0, <1>5 DEF NetworkAccepts
  <2>2. /\ copies' \in [Part -> Nat] /\ \A p \in PartsOf(now) : copies'[p] = 1
        /\ \A p \in Part \ PartsOf(now) : copies'[p] = copies[p]
    BY <1>0, <1>1, <2>1, CallIsDue, PublishKeeps
  <2>3. \A d \in Calls \ {now} : \A p \in PartsOf(d) : p \in Part \ PartsOf(now)
    BY <1>1, CallsShareParts
  <2>4. \A d \in Calls : ~OnWire(d)'
    BY <1>1, <1>4, <2>1 DEF OnWire
  <2>5. CallPublishes(now)
    BY <1>1, <1>2, <1>3, <1>4, <2>2, <2>3, <2>4 DEF CallPublishes, HandlerGoesOn
  <2> QED BY <1>1, <2>5
<1>6. CASE NetworkRefuses
  <2>1. copies' = copies /\ orphans' = orphans
    BY <1>6 DEF NetworkRefuses, network
  <2>2. \A d \in Calls : ~OnWire(d)'
    BY <1>1, <1>4, <2>1 DEF OnWire
  <2>3. CallFails(now)
    <3>1. HandlerGoesOn
      BY <1>3, <1>4 DEF HandlerGoesOn
    <3> QED BY <1>1, <1>2, <2>1, <2>2, <3>1 DEF CallFails
  <2> QED BY <1>1, <2>3
<1>7. CASE ReplyIsLost
  BY <1>0, <1>1, <1>4, <1>7 DEF ReplyIsLost, WireStays, OnWire
<1> QED BY <1>5, <1>6, <1>7

LEMMA OrphanMovesOneCall ==
    ASSUME PartsInv, NEW c \in Calls, OrphanAccepted(c)
    PROVE  CallPublishes(c)
<1>1. /\ c \in orphans /\ Publish(c) /\ orphans' = orphans \ {c}
      /\ UNCHANGED <<post, sender>>
  BY DEF OrphanAccepted
<1>2. /\ Silent(c)
      /\ \A d \in Calls : d < c => \A p \in PartsOf(d) : copies[p] > 0
  BY <1>1 DEF PartsInv, CallsAreWhole, CallsInOrder, Silent
<1>3. /\ copies' \in [Part -> Nat] /\ \A p \in PartsOf(c) : copies'[p] = 1
      /\ \A p \in Part \ PartsOf(c) : copies'[p] = copies[p]
  BY <1>1, <1>2, PublishKeeps DEF Silent
<1>4. \A d \in Calls \ {c} : \A p \in PartsOf(d) : p \in Part \ PartsOf(c)
  BY CallsShareParts
<1> QED BY <1>1, <1>2, <1>3, <1>4 DEF CallPublishes, HandlerGoesOn, OnWire

LEMMA StepsMoveOneCall ==
    ASSUME PartsInv, [Next]_vars
    PROVE  WireStays \/ \E c \in Calls : CallBegins(c) \/ CallPublishes(c) \/ CallFails(c)
<1>1. CASE UNCHANGED vars \/ PersonStep \/ (\E c \in Collector : CollectorStep(c)) \/ Reclaim
  <2>1. UNCHANGED <<sender, copies, orphans>>
    BY <1>1 DEF vars, network, PersonStep, Authorise, Cancel, DeleteMessage, CollectorStep, FetchPage,
                PickPost, ApplyDecision, Reclaim
  <2> QED BY <2>1 DEF WireStays, OnWire
<1>2. CASE Begin \/ PrepareFails \/ Walk \/ PayloadInvalid \/ MarkingThrows \/ Finish
  <2>1. UNCHANGED <<copies, orphans>> /\ sender.pc # "calling"
    BY <1>2 DEF network, Begin, PrepareFails, Walk, PayloadInvalid, MarkingThrows, Marking, Finish
  <2>2. sender'.pc # "calling"
    <3>1. sender \in SenderRecord
      BY TypesInParts DEF PartsInv
    <3>2. \/ \E result \in {"ok", "unknown", "refused"} : sender' = Done(result)
          \/ sender' = IdleSender
          \/ sender' = [IdleSender EXCEPT !.pc = "walking", !.plan = parts]
          \/ \E pc \in {"marking", "refused"} : \E c, todo :
                sender' = [sender EXCEPT !.pc = pc, !.call = c, !.todo = todo]
      BY <1>2 DEF Begin, PrepareFails, Walk, PayloadInvalid, MarkingThrows, Finish
    <3>3. \A pc, c, todo : [sender EXCEPT !.pc = pc, !.call = c, !.todo = todo].pc = pc
      BY <3>1 DEF SenderRecord
    <3>4. [IdleSender EXCEPT !.pc = "walking", !.plan = parts].pc = "walking" /\ IdleSender.pc = "idle"
      BY DEF IdleSender
    <3>5. \A result \in {"ok", "unknown", "refused"} : Done(result).pc = "done"
      BY HandlerIsDone DEF PartsInv
    <3>6. CASE \E pc \in {"marking", "refused"} : \E c, todo :
                 sender' = [sender EXCEPT !.pc = pc, !.call = c, !.todo = todo]
      <4>1. PICK pc \in {"marking", "refused"} : \E c, todo :
                 sender' = [sender EXCEPT !.pc = pc, !.call = c, !.todo = todo]
        BY <3>6
      <4>2. PICK c, todo : sender' = [sender EXCEPT !.pc = pc, !.call = c, !.todo = todo]
        BY <4>1
      <4>3. sender'.pc = pc
        BY <3>3, <4>2
      <4> QED BY <4>3
    <3>7. CASE \E result \in {"ok", "unknown", "refused"} : sender' = Done(result)
      BY <3>5, <3>7
    <3> QED BY <3>2, <3>4, <3>6, <3>7
  <2> QED BY <2>1, <2>2 DEF WireStays, OnWire
<1>3. CASE Crash
  <2>1. copies' = copies /\ sender'.pc = "idle"
        /\ orphans' = IF sender.pc = "calling" THEN orphans \cup {sender.call} ELSE orphans
    BY <1>3, IdleSenderTyped DEF Crash
  <2> QED BY <2>1 DEF WireStays, OnWire
<1>4. CASE NetworkAccepts \/ NetworkRefuses \/ ReplyIsLost
  <2>1. sender.pc = "calling"
    BY <1>4 DEF NetworkAccepts, NetworkRefuses, ReplyIsLost
  <2> QED BY <1>4, <2>1, AnswersMoveOneCall
<1> QED BY <1>1, <1>2, <1>3, <1>4, MarkingIsBeginning, OrphanMovesOneCall DEF Next, SenderStep

(* How the wire and the channel show in the promise.                       *)
LEMMA FirstPart ==
    ASSUME NEW c \in Calls
    PROVE  Min(PartsOf(c)) \in PartsOf(c) /\ PartsOf(c) \subseteq Part
<1>1. PartsOf(c) \in SUBSET Nat /\ PartsOf(c) # {}
  BY CallsShareParts DEF Part
<1> QED BY <1>1, LeastOfSet, CallsShareParts

LEMMA OutIsOnWireOrPublished ==
    ASSUME copies \in [Part -> Nat]
    PROVE  \A c \in Calls : CallIsOut(c) <=> OnWire(c) \/ ~Silent(c)
BY FirstPart DEF CallIsOut, OnWire, Silent

LEMMA OutIsOnWireOrPublishedNext ==
    ASSUME copies' \in [Part -> Nat]
    PROVE  \A c \in Calls : CallIsOut(c)' <=> OnWire(c)' \/ ~Silent(c)'
BY FirstPart DEF CallIsOut, OnWire, Silent

LEMMA CallPromiseInit == Init => CallPromise!Init
<1> SUFFICES ASSUME Init PROVE CallPromise!Init
  OBVIOUS
<1>1. RestOfCalls = "waiting"
  BY DEF Init, RestOfCalls
<1>2. ASSUME NEW c \in Calls PROVE ~CallIsOut(c) /\ copies[Min(PartsOf(c))] = 0
  BY FirstPart DEF Init, CallIsOut, IdleSender
<1> QED BY <1>1, <1>2 DEF CallPromise!Init

LEMMA CallPromiseStep ==
    ASSUME PartsInv, PartsInv', [Next]_vars
    PROVE  [CallPromise!Next]_(CallPromise!promiseVars)
<1>1. copies \in [Part -> Nat] /\ copies' \in [Part -> Nat]
  BY DEF PartsInv, TypeOK
<1>2. RestOfCalls \in {"waiting", "withdrawn"} /\ RestOfCalls' \in {"waiting", "withdrawn"}
  BY DEF RestOfCalls
<1>3. HandlerGoesOn => RestOfCalls' = RestOfCalls
  BY DEF HandlerGoesOn, RestOfCalls
<1>4. \A c \in Calls : CallIsOut(c) <=> OnWire(c) \/ ~Silent(c)
  BY <1>1, OutIsOnWireOrPublished
<1>5. \A c \in Calls : CallIsOut(c)' <=> OnWire(c)' \/ ~Silent(c)'
  BY <1>1, OutIsOnWireOrPublishedNext
<1>6. CASE WireStays
  <2>1. \A c \in Calls : CallIsOut(c)' <=> CallIsOut(c)
    BY <1>4, <1>5, <1>6 DEF WireStays, Silent
  <2> DEFINE S == {c \in Calls : ~CallIsOut(c)}
  <2>2. CallPromise!Decide(S, RestOfCalls')
    <3>1. \A c \in Calls : (IF CallIsOut(c) THEN "out" ELSE RestOfCalls)'
                          = IF c \in S THEN RestOfCalls' ELSE IF CallIsOut(c) THEN "out" ELSE RestOfCalls
      BY <2>1
    <3>2. \A c \in S : c \in Calls /\ ~CallIsOut(c) /\ RestOfCalls # "out"
      BY <1>2
    <3>3. copies' = copies
      BY <1>6 DEF WireStays
    <3> HIDE DEF S
    <3> QED BY <3>1, <3>2, <3>3 DEF CallPromise!Decide
  <2> QED BY <1>2, <2>2 DEF CallPromise!Next
<1>7. ASSUME NEW c \in Calls, CallBegins(c) PROVE CallPromise!Start(c)
  <2>1. ~CallIsOut(c) /\ CallIsOut(c)' /\ \A d \in Calls \ {c} : CallIsOut(d)' <=> CallIsOut(d)
    BY <1>4, <1>5, <1>7 DEF CallBegins, Silent
  <2>2. RestOfCalls = "waiting" /\ RestOfCalls' = RestOfCalls /\ copies' = copies
    BY <1>3, <1>7 DEF CallBegins, RestOfCalls
  <2> QED BY <2>1, <2>2 DEF CallPromise!Start
<1>8. ASSUME NEW c \in Calls, CallPublishes(c) PROVE CallPromise!Accept(c)
  <2>1. CallIsOut(c) /\ CallIsOut(c)' /\ \A d \in Calls \ {c} : CallIsOut(d)' <=> CallIsOut(d)
    <3>1. ~Silent(c)'
      BY <1>8, FirstPart DEF CallPublishes, Silent
    <3> QED BY <1>4, <1>5, <1>8, <3>1 DEF CallPublishes, Silent
  <2>2. copies[Min(PartsOf(c))] = 0 /\ copies'[Min(PartsOf(c))] = 1
        /\ \A d \in Calls \ {c} : copies'[Min(PartsOf(d))] = copies[Min(PartsOf(d))]
    BY <1>8, FirstPart DEF CallPublishes, Silent
  <2>3. RestOfCalls' = RestOfCalls
    BY <1>3, <1>8 DEF CallPublishes
  <2> QED BY <2>1, <2>2, <2>3 DEF CallPromise!Accept
<1>9. ASSUME NEW c \in Calls, CallFails(c) PROVE CallPromise!Refuse(c, RestOfCalls')
  <2>1. CallIsOut(c) /\ ~CallIsOut(c)' /\ \A d \in Calls \ {c} : CallIsOut(d)' <=> CallIsOut(d)
    BY <1>4, <1>5, <1>9 DEF CallFails, Silent
  <2>2. RestOfCalls' = RestOfCalls /\ copies' = copies /\ copies[Min(PartsOf(c))] = 0
    BY <1>3, <1>9, FirstPart DEF CallFails, Silent
  <2> QED BY <2>1, <2>2 DEF CallPromise!Refuse
<1> QED BY <1>2, <1>6, <1>7, <1>8, <1>9, StepsMoveOneCall DEF CallPromise!Next

(* Every provider call of a post of several parts keeps the promise that   *)
(* the post of one message keeps (PublicationProofs): TelegramParts        *)
(* implements DeliveryPromise, with calls for posts.                       *)
THEOREM CallsKeepTheirPromise == Spec => CallsKeepPromise
<1>1. PartsInv /\ PartsInv' /\ [Next]_vars => [CallPromise!Next]_(CallPromise!promiseVars)
  BY CallPromiseStep
<1> QED BY CallPromiseInit, <1>1, PartsInvariance, PTL DEF Spec, CallsKeepPromise, CallPromise!Spec
=============================================================================
