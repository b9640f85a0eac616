------------------------- MODULE DeliveryPromise -------------------------
(* What the publication pipeline promises about one social post, with     *)
(* every queue, lease, worker and timer removed.  docs/publication-       *)
(* authority.md states it for every publication path: an unknown result   *)
(* of a send never becomes an automatic second publication, and only a    *)
(* person's decision brings a stopped post back.                          *)
(*                                                                        *)
(* A post is "waiting" while the worker may start a provider call for it, *)
(* "withdrawn" while only a person's decision can bring it back, and      *)
(* "out" once a provider call has been authorised and not been refused    *)
(* with certainty.  sent counts the messages the network accepted.        *)
EXTENDS Naturals

CONSTANT Post

VARIABLES phase, sent

promiseVars == <<phase, sent>>

Phase == {"waiting", "withdrawn", "out"}

Init ==
    /\ phase = [p \in Post |-> "waiting"]
    /\ sent = [p \in Post |-> 0]

(* The last fence before the first external byte is passed.               *)
Start(p) ==
    /\ phase[p] = "waiting"
    /\ phase' = [phase EXCEPT ![p] = "out"]
    /\ UNCHANGED sent

(* The network accepts the message, possibly long after its sender died.  *)
Accept(p) ==
    /\ phase[p] = "out"
    /\ sent[p] = 0
    /\ sent' = [sent EXCEPT ![p] = 1]
    /\ UNCHANGED phase

(* The network refused for certain: the post may be tried again, or stops.*)
Refuse(p, to) ==
    /\ phase[p] = "out"
    /\ sent[p] = 0
    /\ phase' = [phase EXCEPT ![p] = to]
    /\ UNCHANGED sent

(* A decision about posts of which none is out: all of S are withdrawn,   *)
(* or all of S are (again) authorised.                                    *)
Decide(S, to) ==
    /\ \A p \in S : phase[p] # "out"
    /\ phase' = [p \in Post |-> IF p \in S THEN to ELSE phase[p]]
    /\ UNCHANGED sent

Next ==
    \/ \E p \in Post : Start(p) \/ Accept(p)
    \/ \E p \in Post, to \in {"waiting", "withdrawn"} : Refuse(p, to)
    \/ \E S \in SUBSET Post, to \in {"waiting", "withdrawn"} : Decide(S, to)

Spec == Init /\ [][Next]_promiseVars
=============================================================================
