----------------------- MODULE PublicationInvariant -----------------------
(* The inductive invariant of Publication: what relates a row of `posts`, *)
(* the handlers and the network in every reachable state, and implies the *)
(* safety properties.  MCPublication checks it on a small instance,        *)
(* PublicationProofs proves it for every one.                             *)
EXTENDS Publication

(* No provider call has been authorised for p since it was last made      *)
(* sendable.                                                              *)
Quiet(p) ==
    \/ post[p].status \in Pending \cup Stopped
    \/ post[p].status = "publishing" /\ ~post[p].started

(* Handler w is past the provider fence for p and has recorded nothing.   *)
Calls(w, p) ==
    /\ slot[w].post = p
    /\ slot[w].pc \in {"identity", "calling", "answered"}

SlotOK == \A w \in Worker : slot[w].pc # "idle" => slot[w].post \in Post

(* Exactly the rows being published are leased.                           *)
LeaseOK == \A p \in Post : post[p].lease = NoLease <=> post[p].status # "publishing"

(* A handler that still holds its lease before the fence has not started. *)
ClaimOK ==
    \A w \in Worker, p \in Post :
        slot[w].post = p /\ slot[w].pc = "claimed" /\ post[p].lease = w
            => ~post[p].started

UnsentOK ==
    \A p \in Post : Quiet(p) =>
        accepted[p] = 0 /\ orphans[p] = 0 /\ \A w \in Worker : ~Calls(w, p)

CallerOK ==
    \A w \in Worker, p \in Post : Calls(w, p) =>
        /\ post[p].status = "publishing" => post[p].lease = w
        /\ \A v \in Worker : Calls(v, p) => v = w

(* What a caller knows of the answer agrees with what the network has.    *)
AnswerOK ==
    \A w \in Worker, p \in Post : Calls(w, p) =>
        /\ slot[w].pc \in {"identity", "calling"} \/ slot[w].answer \in {"refused", "auth_failed"}
              => accepted[p] = 0 /\ orphans[p] = 0
        /\ slot[w].pc = "answered" /\ slot[w].answer \in {"ok", "no_id"} => accepted[p] = 1

CountOK == \A p \in Post : accepted[p] + orphans[p] <= 1

(* What handlers, rows and network know of each other.                    *)
Agreement ==
    /\ LeaseOK /\ ClaimOK /\ UnsentOK /\ CallerOK
    /\ AnswerOK /\ CountOK /\ PublishedIsReal

(* The claim the proof carries from step to step.                         *)
IInv == TypeOK /\ SlotOK /\ Agreement /\ CancelSticks
=============================================================================
