------------------------- MODULE EditorialPromise -------------------------
(* What a team is promised about one draft, with every lock, transaction,  *)
(* request and revision row removed: each step takes effect at once, and   *)
(* on the text its author was looking at.  A save from the web replaces    *)
(* the very version that was open; who submits from the web, approves or   *)
(* publishes does so with the text that was shown; what is published was   *)
(* approved, and a text that changes is no longer approved or in review.   *)
(*                                                                        *)
(* The bot is the exception: it saves, and submits for review, without     *)
(* looking at what is current.                                            *)
EXTENDS Naturals

CONSTANTS Person, Wording

VARIABLES
    draft,      \* its version, its text, and whether it was deleted
    review,     \* where the review of the text stands
    seen,       \* what each person was shown last, and where
    released    \* the texts that were made publications

promiseVars == <<draft, review, seen, released>>

Nothing == [medium |-> "none"]
Shown(medium) == [medium |-> medium, version |-> draft.version, words |-> draft.words]

(* A list of approvals shows the text, not the version of the draft.       *)
Listed == [medium |-> "list", words |-> draft.words]

Init ==
    /\ \E words \in Wording : draft = [version |-> 1, words |-> words, deleted |-> FALSE]
    /\ review = "draft"
    /\ seen \in [Person -> {Nothing, Shown("bot")}]
    /\ released = {}

(* The answer may be lost, and what is shown then stays on the screen.     *)
KeepsOrLeaves(p) == seen' \in {seen, [seen EXCEPT ![p] = Nothing]}

Look(p) ==
    /\ \/ ~draft.deleted /\ seen' = [seen EXCEPT ![p] = Shown("web")]
       \/ review = "in_review" /\ seen' = [seen EXCEPT ![p] = Listed]
    /\ UNCHANGED <<draft, review, released>>

SeesLatest(p) == seen[p].version = draft.version /\ ~draft.deleted
SeesText(p) == seen[p].words = draft.words

NextVersion(words, deleted) ==
    draft' = [version |-> draft.version + 1, words |-> words, deleted |-> deleted]

Save(p, words) ==
    LET starts == words # draft.words \/ review = "in_review" IN
    /\ seen[p].medium = "web" /\ SeesLatest(p)
    /\ NextVersion(words, FALSE)
    /\ review' = IF starts /\ review # "changes_requested" THEN "draft" ELSE review
    /\ KeepsOrLeaves(p)
    /\ UNCHANGED released

SaveFromBot(p, words) ==
    /\ seen[p].medium = "bot"
    /\ NextVersion(words, draft.deleted)
    /\ review' = "draft"
    /\ seen' = [seen EXCEPT ![p] = [medium |-> "bot", version |-> draft.version + 1, words |-> words]]
    /\ UNCHANGED released

(* A version with the same text, or the end of the draft.                  *)
Touch(p, deletes) ==
    /\ seen[p].medium = "web" /\ SeesLatest(p)
    /\ NextVersion(draft.words, deletes)
    /\ KeepsOrLeaves(p)
    /\ UNCHANGED <<review, released>>

Submit(p) ==
    /\ review \in {"draft", "changes_requested"}
    /\ \/ seen[p].medium = "web" /\ SeesText(p)
       \/ seen[p].medium = "bot"
    /\ review' = "in_review"
    /\ KeepsOrLeaves(p)
    /\ UNCHANGED <<draft, released>>

Decide(p) ==
    /\ review = "in_review"
    /\ seen[p].medium \in {"web", "list"} /\ SeesText(p)
    /\ review' \in {"approved", "changes_requested"}
    /\ KeepsOrLeaves(p)
    /\ UNCHANGED <<draft, released>>

(* In the bot the click of the owner is an approval.                       *)
Publish(p) ==
    /\ \/ seen[p].medium = "web" /\ review = "approved"
       \/ seen[p].medium = "bot"
    /\ SeesLatest(p) /\ SeesText(p)
    /\ review' = "approved"
    /\ released' = released \cup {draft.words}
    /\ KeepsOrLeaves(p)
    /\ UNCHANGED draft

Acts(p) ==
    \/ Submit(p) \/ Decide(p) \/ Publish(p)
    \/ \E words \in Wording : Save(p, words) \/ SaveFromBot(p, words)
    \/ \E deletes \in BOOLEAN : Touch(p, deletes)

(* Nobody acts on a draft that was not shown.                              *)
WasShown(p) == seen[p].medium # "none"

Next ==
    \E p \in Person :
        \/ Look(p)
        \/ WasShown(p) /\ Acts(p)

Spec == Init /\ [][Next]_promiseVars
=============================================================================
