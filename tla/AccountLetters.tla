------------------------- MODULE AccountLetters -------------------------
(* The letters of an account: a link that confirms a new address, or one  *)
(* that sets a new password.  A request is written together with a row of *)
(* an outbox; workers take the row under a lease of 30 s, hand the letter *)
(* to the mail provider and record what it answered.  The two outboxes    *)
(* are twins; letterKind says which one a behaviour is about.             *)
(*                                                                        *)
(* Limits of the model:                                                   *)
(*  - One user.  The provider keeps an idempotency key longer than a link  *)
(*    lives, which is one hour (an assumption on the service).             *)
(*  - A mailer is one run of the timer in one worker, so it holds at most *)
(*    one lease at a time and stands for its token.                       *)
(*  - Attempts are not counted: any of them may be the last.             *)
(*  - What a confirmation does to sessions is left out, and a replayed    *)
(*    request, which writes nothing.                                      *)
EXTENDS Naturals, FiniteSets

CONSTANTS
    Mailer,              \* runs of the outbox timer
    NoMailer,
    LastRequest          \* bound of the model on requests of the user

ASSUME LettersAssumption == NoMailer \notin Mailer /\ LastRequest \in Nat

Request == 1..LastRequest

VARIABLES
    letterKind,  \* "email_change" or "password_reset"
    latest,      \* the generation on the user's row, the number of the last request
    request,     \* what has become of the links, by generation
    letter,      \* their rows in the outbox
    mailer,      \* the runs of the timer
    inbox        \* the requests whose letter has been put in the mailbox

lettersVars == <<letterKind, latest, request, letter, mailer, inbox>>

(* confirmed_at and cancelled_at of an address, used_at of a password     *)
(* reset, with the reason why the link was closed.                        *)
LinkState ==
    [closed : {"absent", "no", "confirmed", "superseded", "undelivered", "late"}, aged : BOOLEAN]

LetterRow ==
    [status   : {"absent", "pending", "failed", "sending", "sent", "cancelled"},
     lease    : Mailer \cup {NoMailer},
     lapsed   : BOOLEAN,                \* lease_expires_at <= now()
     due      : BOOLEAN]                \* next_attempt_at <= now()

MailerState ==
    [pc : {"idle", "taken", "ok", "failed", "last"}, request : 0..LastRequest]

LettersTypeOK ==
    /\ letterKind \in {"email_change", "password_reset"} /\ latest \in 0..LastRequest
    /\ request \in [Request -> LinkState] /\ letter \in [Request -> LetterRow]
    /\ mailer \in [Mailer -> MailerState] /\ inbox \subseteq Request

IdleMailer == [pc |-> "idle", request |-> 0]

LettersInit ==
    /\ letterKind \in {"email_change", "password_reset"} /\ latest = 0
    /\ request = [n \in Request |-> [closed |-> "absent", aged |-> FALSE]]
    /\ letter = [n \in Request |-> [status |-> "absent", lease |-> NoMailer, lapsed |-> FALSE,
                                    due |-> FALSE]]
    /\ mailer = [w \in Mailer |-> IdleMailer] /\ inbox = {}

Current(n) == request[n].closed = "no" /\ ~request[n].aged /\ n = latest
Waiting(n) == letter[n].status \in {"pending", "failed"}

--------------------------------------------------------------------------
(* The user.  A new request closes the links before it; one for an address *)
(* also takes their waiting letters back, one for a password leaves them   *)
(* to the worker, which finds the newer generation.                        *)
RequestLink ==
    /\ latest < LastRequest
    /\ latest' = latest + 1
    /\ request' = [n \in Request |->
         IF n = latest + 1 THEN [closed |-> "no", aged |-> FALSE]
         ELSE IF request[n].closed = "no" THEN [request[n] EXCEPT !.closed = "superseded"]
         ELSE request[n]]
    /\ letter' = [n \in Request |->
         IF n = latest + 1 THEN [letter[n] EXCEPT !.status = "pending", !.due = TRUE]
         ELSE IF letterKind = "email_change" /\ Waiting(n) THEN [letter[n] EXCEPT !.status = "cancelled"]
         ELSE letter[n]]
    /\ UNCHANGED <<letterKind, mailer, inbox>>

(* The link of a letter that arrived is opened.  An address request found  *)
(* too late is closed for good, a password reset is only refused.          *)
OpenLink(n) ==
    /\ n \in inbox /\ request[n].closed = "no" /\ n = latest
    /\ ~request[n].aged \/ letterKind = "email_change"
    /\ request' = [request EXCEPT ![n].closed = IF request[n].aged THEN "late" ELSE "confirmed"]
    /\ UNCHANGED <<letterKind, latest, letter, mailer, inbox>>

LinkAges(n) ==
    /\ request[n].closed = "no" /\ ~request[n].aged
    /\ request' = [request EXCEPT ![n].aged = TRUE]
    /\ UNCHANGED <<letterKind, latest, letter, mailer, inbox>>

--------------------------------------------------------------------------
(* The worker: one row, from the lease to the recorded answer.             *)
TakeLetter(w, n) ==
    /\ mailer[w].pc = "idle" /\ Waiting(n) /\ letter[n].due
    /\ IF Current(n)
         THEN /\ letter' = [letter EXCEPT ![n].status = "sending", ![n].lease = w, ![n].lapsed = FALSE]
              /\ mailer' = [mailer EXCEPT ![w] = [pc |-> "taken", request |-> n]]
         ELSE letter' = [letter EXCEPT ![n].status = "cancelled"] /\ UNCHANGED mailer
    /\ UNCHANGED <<letterKind, latest, request, inbox>>

Answers(w, pc) == mailer' = [mailer EXCEPT ![w].pc = pc]

(* The call and its answer, which may be lost or come after 10 s.  Every   *)
(* call of a request bears the same idempotency key, so a repeated one puts *)
(* no second letter in the inbox: the provider sees to that, not this code. *)
(* A failure is the last one at the fifth attempt, or without a provider.   *)
ProviderAccepts(w) ==
    /\ mailer[w].pc = "taken"
    /\ inbox' = inbox \cup {mailer[w].request}
    /\ Answers(w, "ok") \/ Answers(w, "failed") \/ Answers(w, "last")
    /\ UNCHANGED <<letterKind, latest, request, letter>>

ProviderRefuses(w) ==
    /\ mailer[w].pc = "taken" /\ (Answers(w, "failed") \/ Answers(w, "last"))
    /\ UNCHANGED <<letterKind, latest, request, letter, inbox>>

\* A defect LetterAndLinkAgree excludes: whoever tried records, holder of the lease or not.
HoldsLetterUnfenced(w) == letter[mailer[w].request].status \in {"sending", "sent"}

HoldsLetter(w) == letter[mailer[w].request].status = "sending" /\ letter[mailer[w].request].lease = w

RecordSent(w) ==
    /\ mailer[w].pc = "ok" /\ mailer' = [mailer EXCEPT ![w] = IdleMailer]
    /\ IF HoldsLetter(w)
         THEN letter' = [letter EXCEPT ![mailer[w].request] =
                           [@ EXCEPT !.status = "sent", !.lease = NoMailer, !.lapsed = FALSE]]
         ELSE UNCHANGED letter
    /\ UNCHANGED <<letterKind, latest, request, inbox>>

(* The link of a letter that will not be sent is closed in one statement   *)
(* with the row; a link that is closed already stays as it was.            *)
RecordFailure(w) ==
    LET n == mailer[w].request IN
    /\ mailer[w].pc \in {"failed", "last"} /\ mailer' = [mailer EXCEPT ![w] = IdleMailer]
    /\ IF HoldsLetter(w)
         THEN /\ letter' = [letter EXCEPT ![n] =
                   [@ EXCEPT !.status = IF mailer[w].pc = "last" THEN "cancelled" ELSE "failed",
                             !.lease = NoMailer, !.lapsed = FALSE, !.due = FALSE]]
              /\ request' = IF mailer[w].pc = "last" /\ request[n].closed = "no"
                              THEN [request EXCEPT ![n].closed = "undelivered"] ELSE request
         ELSE UNCHANGED <<letter, request>>
    /\ UNCHANGED <<letterKind, latest, inbox>>

LetterLeaseLapses(n) ==
    /\ letter[n].status = "sending" /\ ~letter[n].lapsed
    /\ letter' = [letter EXCEPT ![n].lapsed = TRUE]
    /\ UNCHANGED <<letterKind, latest, request, mailer, inbox>>

(* The timer gives a lapsed row back.                                      *)
ReconcileLetters(n) ==
    /\ letter[n].status = "sending" /\ letter[n].lapsed
    /\ letter' = [letter EXCEPT ![n] =
         [@ EXCEPT !.status = "failed", !.lease = NoMailer, !.lapsed = FALSE, !.due = TRUE]]
    /\ UNCHANGED <<letterKind, latest, request, mailer, inbox>>

LetterFallsDue(n) ==
    /\ letter[n].status = "failed" /\ ~letter[n].due
    /\ letter' = [letter EXCEPT ![n].due = TRUE]
    /\ UNCHANGED <<letterKind, latest, request, mailer, inbox>>

MailerDies(w) ==
    /\ mailer[w].pc # "idle" /\ mailer' = [mailer EXCEPT ![w] = IdleMailer]
    /\ UNCHANGED <<letterKind, latest, request, letter, inbox>>

LettersNext ==
    \/ RequestLink
    \/ \E n \in Request : \/ OpenLink(n) \/ LinkAges(n)
                          \/ LetterLeaseLapses(n) \/ ReconcileLetters(n) \/ LetterFallsDue(n)
    \/ \E w \in Mailer : \/ \E n \in Request : TakeLetter(w, n)
                         \/ ProviderAccepts(w) \/ ProviderRefuses(w)
                         \/ RecordSent(w) \/ RecordFailure(w) \/ MailerDies(w)

LettersSpec == LettersInit /\ [][LettersNext]_lettersVars

--------------------------------------------------------------------------
(* A letter and its link stay together: a link that still works has a     *)
(* letter sent or on its way, and once a delivery is recorded no other run *)
(* takes it back or closes its link as undeliverable.                      *)
LetterAndLinkAgree ==
    [][\A n \in Request :
         /\ Current(n)' => letter'[n].status # "cancelled"
         /\ letter[n].status = "sent" =>
              letter'[n].status = "sent" /\ (request'[n].closed = "undelivered"
                                             => request[n].closed = "undelivered")
      ]_lettersVars
============================================================================
