--------------------------- MODULE OutboxProofs ---------------------------
(* Proofs, for any number of workers and requests, about the work that is  *)
(* handed over through a row of an outbox: the export of a project, the    *)
(* letters of an account, and what follows a published post.               *)
(*                                                                        *)
(* Exports and letters promise something of every step, and little more    *)
(* than the types is needed to see it: a ready export has its file, and a  *)
(* link that works has a letter that was not taken back.  The comment is   *)
(* harder, since lapsed leases leave several attempts running: every       *)
(* comment posted, and every attempt about to post one, is paid for by the *)
(* mark in the row or by a confirmation (CommentsArePaid), and the attempt *)
(* that holds the row knows whether the mark is set (HolderSawMark).       *)
EXTENDS ProjectExport, AccountLetters, PublicationExtras, FiniteSetTheorems, TLAPS

-----------------------------------------------------------------------------
(* The export of a project.                                                *)

ReadyHasFile == operation = "ready" => file

LEMMA RendererMoves ==
    ASSUME renderer \in [Renderer -> RendererState], NEW r \in Renderer,
           \/ \E pc \in {"rendering", "failed", "last"}, job \in BOOLEAN :
                 renderer' = [renderer EXCEPT ![r] = [pc |-> pc, job |-> job]]
           \/ \E pc \in {"failed", "last", "marked"} : renderer' = [renderer EXCEPT ![r].pc = pc]
           \/ renderer' = [renderer EXCEPT ![r] = IdleRenderer]
           \/ UNCHANGED renderer
    PROVE  renderer' \in [Renderer -> RendererState]
<1>1. \A pc \in {"rendering", "failed", "last"}, job \in BOOLEAN :
          [pc |-> pc, job |-> job] \in RendererState
  BY DEF RendererState
<1>2. \A pc \in {"failed", "last", "marked"} : [renderer[r] EXCEPT !.pc = pc] \in RendererState
  BY DEF RendererState
<1>3. IdleRenderer \in RendererState
  BY DEF IdleRenderer, RendererState
<1> QED BY <1>1, <1>2, <1>3

LEMMA JobMoves ==
    ASSUME exportJob \in ExportJob,
           \/ \E state \in {"waiting", "failed", "completed"} :
                 exportJob' = [state |-> state, by |-> Nobody]
           \/ \E r \in Renderer : exportJob' = [state |-> "active", by |-> r]
           \/ exportJob' = [exportJob EXCEPT !.state = "completed"]
           \/ exportJob' = NoJob
           \/ UNCHANGED exportJob
    PROVE  exportJob' \in ExportJob
BY DEF ExportJob, NoJob

LEMMA ExportTypesKept == ExportTypeOK /\ [ExportNext]_exportVars => ExportTypeOK'
<1> SUFFICES ASSUME ExportTypeOK, [ExportNext]_exportVars PROVE ExportTypeOK'
  OBVIOUS
<1> DEFINE RowsTyped ==
      /\ operation \in {"absent", "pending", "queued", "rendering", "retryable_failed", "failed",
                        "ready", "expired"}
      /\ outbox \in OutboxRow /\ file \in BOOLEAN
<1>1. RowsTyped /\ exportJob \in ExportJob /\ renderer \in [Renderer -> RendererState]
      /\ dispatcher \in [Dispatcher -> DispatcherPc]
  BY DEF ExportTypeOK
<1>2. ASSUME NEW r \in Renderer, RunJob(r) PROVE ExportTypeOK'
  <2>1. renderer' \in [Renderer -> RendererState]
    BY <1>1, <1>2, RendererMoves DEF RunJob
  <2>2. exportJob' \in ExportJob
    BY <1>1, <1>2, JobMoves DEF RunJob
  <2> QED BY <1>1, <1>2, <2>1, <2>2 DEF RunJob, ExportTypeOK
<1>3. ASSUME NEW r \in Renderer, RenderAtOnce(r) \/ RenderFails(r) PROVE ExportTypeOK'
  <2>1. renderer' \in [Renderer -> RendererState]
    BY <1>1, <1>3, RendererMoves DEF RenderAtOnce, RenderFails
  <2> QED BY <1>1, <1>3, <2>1 DEF RenderAtOnce, RenderFails, ExportTypeOK
<1>4. ASSUME NEW r \in Renderer, PersistArtifact(r) PROVE ExportTypeOK'
  <2>1. renderer' \in [Renderer -> RendererState]
    BY <1>1, <1>4, RendererMoves DEF PersistArtifact
  <2>2. exportJob' \in ExportJob
    BY <1>1, <1>4, JobMoves DEF PersistArtifact, JobEnds
  <2>3. RowsTyped'
    BY <1>1, <1>4 DEF PersistArtifact, OutboxRow
  <2> QED BY <1>1, <1>4, <2>1, <2>2, <2>3 DEF PersistArtifact, ExportTypeOK
<1>5. ASSUME NEW r \in Renderer, MarkFailure(r) \/ MarkOutbox(r) \/ RendererDies(r)
      PROVE  ExportTypeOK'
  <2>1. renderer' \in [Renderer -> RendererState]
    BY <1>1, <1>5, RendererMoves DEF MarkFailure, MarkOutbox, RendererDies
  <2>2. exportJob' \in ExportJob
    BY <1>1, <1>5, JobMoves DEF MarkFailure, MarkOutbox, RendererDies, JobEnds
  <2>3. RowsTyped'
    BY <1>1, <1>5 DEF MarkFailure, MarkOutbox, RendererDies, OutboxRow
  <2> QED BY <1>1, <1>5, <2>1, <2>2, <2>3 DEF MarkFailure, MarkOutbox, RendererDies, ExportTypeOK
<1>6. ASSUME NEW d \in Dispatcher, TakeRow(d) \/ AddJob(d) \/ DispatcherDies(d)
      PROVE  ExportTypeOK'
  <2>1. dispatcher' \in [Dispatcher -> DispatcherPc]
    BY <1>1, <1>6 DEF TakeRow, AddJob, DispatcherDies, Dispatches, DispatcherPc
  <2>2. exportJob' \in ExportJob
    BY <1>1, <1>6, JobMoves DEF TakeRow, AddJob, DispatcherDies
  <2>3. RowsTyped'
    BY <1>1, <1>6 DEF TakeRow, AddJob, DispatcherDies, OutboxRow
  <2> QED BY <1>1, <1>6, <2>1, <2>2, <2>3 DEF TakeRow, AddJob, DispatcherDies, ExportTypeOK
<1>7. ASSUME NEW d \in Dispatcher, RecordDispatch(d) PROVE ExportTypeOK'
  <2>1. PICK end \in {"enqueued", "retry", "giveUp"} :
            IF HoldsRow(d)
              THEN /\ outbox' = [status |-> CASE end = "enqueued" -> "enqueued"
                                             [] end = "retry"    -> "retryable_failed"
                                             [] end = "giveUp"   -> "failed",
                                 lease  |-> Nobody]
                   /\ Dispatches(d, end)
              ELSE Dispatches(d, "idle") /\ UNCHANGED outbox
    BY <1>7 DEF RecordDispatch
  <2>2. dispatcher' \in [Dispatcher -> DispatcherPc]
    BY <1>1, <2>1 DEF Dispatches, DispatcherPc
  <2>3. outbox' \in OutboxRow
    BY <1>1, <2>1 DEF OutboxRow
  <2> QED BY <1>1, <1>7, <2>2, <2>3 DEF RecordDispatch, ExportTypeOK
<1>8. ASSUME NEW d \in Dispatcher, FinishDispatch(d) PROVE ExportTypeOK'
  BY <1>1, <1>8 DEF FinishDispatch, Dispatches, DispatcherPc, ExportTypeOK
<1>9. CASE CreateExport \/ ReclaimRender \/ DispatchLapses \/ RevokeExport \/ ExpireArtifact
  <2>1. RowsTyped'
    BY <1>1, <1>9 DEF CreateExport, ReclaimRender, DispatchLapses, RevokeExport, ExpireArtifact,
                      OutboxRow
  <2> QED BY <1>1, <1>9, <2>1
          DEF CreateExport, ReclaimRender, DispatchLapses, RevokeExport, ExpireArtifact, ExportTypeOK
<1>10. CASE JobStalls \/ JobForgotten
  <2>1. exportJob' \in ExportJob
    BY <1>1, <1>10, JobMoves DEF JobStalls, JobForgotten
  <2> QED BY <1>1, <1>10, <2>1 DEF JobStalls, JobForgotten, ExportTypeOK
<1>11. CASE UNCHANGED exportVars
  BY <1>1, <1>11 DEF exportVars, ExportTypeOK
<1> QED BY <1>2, <1>3, <1>4, <1>5, <1>6, <1>7, <1>8, <1>9, <1>10, <1>11 DEF ExportNext

(* Rows, job, renders and dispatchers of an export keep their types.       *)
THEOREM ExportTypes == ExportSpec => []ExportTypeOK
<1>1. ExportInit => ExportTypeOK
  <2> SUFFICES ASSUME ExportInit PROVE ExportTypeOK
    OBVIOUS
  <2>1. IdleRenderer \in RendererState /\ NoJob \in ExportJob
    BY DEF IdleRenderer, RendererState, NoJob, ExportJob
  <2> QED BY <2>1 DEF ExportInit, ExportTypeOK, OutboxRow, DispatcherPc
<1> QED BY <1>1, ExportTypesKept, PTL DEF ExportSpec

(* What a step may do to the status: only a stored file makes it ready, and *)
(* from ready it only expires.                                              *)
LEMMA ExportStep ==
    ASSUME ReadyHasFile, [ExportNext]_exportVars
    PROVE  /\ operation' = "ready" => file'
           /\ operation = "ready" => operation' \in {"ready", "expired"}
           /\ operation = "expired" => operation' = "expired"
<1> USE DEF ReadyHasFile
<1>1. ASSUME NEW r \in Renderer,
             RunJob(r) \/ RenderAtOnce(r) \/ RenderFails(r) \/ MarkFailure(r) \/ MarkOutbox(r)
                \/ RendererDies(r)
      PROVE  UNCHANGED file /\ (operation' # operation =>
                 operation \notin {"ready", "expired"} /\ operation' # "ready")
  BY <1>1 DEF RunJob, RenderAtOnce, RenderFails, MarkFailure, MarkOutbox, RendererDies, Undone,
              MayFail
<1>2. ASSUME NEW r \in Renderer, PersistArtifact(r)
      PROVE  UNCHANGED <<operation, file>> \/
             (operation # "expired" /\ operation' = "ready" /\ file')
  BY <1>2 DEF PersistArtifact, KeepsOut
<1>3. ASSUME NEW d \in Dispatcher,
             TakeRow(d) \/ AddJob(d) \/ RecordDispatch(d) \/ FinishDispatch(d) \/ DispatcherDies(d)
      PROVE  UNCHANGED file /\ (operation' # operation =>
                 operation \notin {"ready", "expired"} /\ operation' # "ready")
  <2>1. dispatcher[d] \in {"enqueued", "retry", "giveUp"} =>
            (CASE dispatcher[d] = "enqueued" -> "queued"
               [] dispatcher[d] = "retry"    -> "retryable_failed"
               [] dispatcher[d] = "giveUp"   -> "failed") # "ready"
    OBVIOUS
  <2> QED BY <1>3, <2>1 DEF TakeRow, AddJob, RecordDispatch, FinishDispatch, DispatcherDies, Undone
<1>4. CASE CreateExport \/ ReclaimRender \/ DispatchLapses \/ JobStalls \/ JobForgotten
  BY <1>4 DEF CreateExport, ReclaimRender, DispatchLapses, JobStalls, JobForgotten
<1>5. CASE RevokeExport \/ ExpireArtifact
  BY <1>5 DEF RevokeExport, ExpireArtifact
<1>6. CASE UNCHANGED exportVars
  BY <1>6 DEF exportVars
<1> QED BY <1>1, <1>2, <1>3, <1>4, <1>5, <1>6 DEF ExportNext

(* However many renders and dispatchers run late, an export that is ready  *)
(* has its file and stays ready until it expires, and one that expired or  *)
(* was revoked is over.                                                    *)
THEOREM ExportOutcomeIsKept == ExportSpec => ExportOutcomeHolds
<1>1. ExportInit => ReadyHasFile
  BY DEF ExportInit, ReadyHasFile
<1>2. ReadyHasFile /\ [ExportNext]_exportVars => ReadyHasFile'
  BY ExportStep DEF ReadyHasFile
<1>3. ReadyHasFile /\ [ExportNext]_exportVars =>
          [/\ operation' = "ready" => file'
           /\ operation = "ready" => operation' \in {"ready", "expired"}
           /\ operation = "expired" => operation' = "expired"]_exportVars
  BY ExportStep
<1> QED BY <1>1, <1>2, <1>3, PTL DEF ExportSpec, ExportOutcomeHolds

-----------------------------------------------------------------------------
(* The letters of an account.                                              *)

MailerHasRequest == \A w \in Mailer : mailer[w].pc # "idle" => mailer[w].request \in Request
LettersComeLater == \A n \in Request : n > latest => letter[n].status = "absent"
LinkHasLetter == \A n \in Request : Current(n) => letter[n].status # "cancelled"

LettersInv ==
    /\ LettersTypeOK
    /\ MailerHasRequest
    /\ LettersComeLater
    /\ LinkHasLetter

(* What a step promises of the letter and the link of request n.           *)
Agrees(n) ==
    /\ Current(n)' => letter'[n].status # "cancelled"
    /\ letter[n].status = "sent" =>
          letter'[n].status = "sent" /\ (request'[n].closed = "undelivered"
                                         => request[n].closed = "undelivered")

LEMMA LettersStart == LettersInit => LettersInv
<1> SUFFICES ASSUME LettersInit PROVE LettersInv
  OBVIOUS
<1>1. 0 \in 0..LastRequest /\ \A n \in Request : n # 0
  BY LettersAssumption DEF Request
<1>2. IdleMailer \in MailerState
  BY <1>1 DEF IdleMailer, MailerState
<1>3. LettersTypeOK
  BY <1>1, <1>2 DEF LettersInit, LettersTypeOK, LinkState, LetterRow
<1>4. MailerHasRequest /\ LettersComeLater /\ LinkHasLetter
  BY <1>1 DEF LettersInit, MailerHasRequest, LettersComeLater, LinkHasLetter, IdleMailer, Current
<1> QED BY <1>3, <1>4 DEF LettersInv

LEMMA MailerMoves ==
    ASSUME LettersInv, NEW w \in Mailer,
           \/ mailer' = [mailer EXCEPT ![w] = IdleMailer]
           \/ \E pc \in {"ok", "failed", "last"} : Answers(w, pc) /\ mailer[w].pc # "idle"
           \/ \E n \in Request : mailer' = [mailer EXCEPT ![w] = [pc |-> "taken", request |-> n]]
           \/ UNCHANGED mailer
    PROVE  mailer' \in [Mailer -> MailerState] /\ MailerHasRequest'
<1>1. mailer \in [Mailer -> MailerState] /\ MailerHasRequest
  BY DEF LettersInv, LettersTypeOK
<1>2. CASE mailer' = [mailer EXCEPT ![w] = IdleMailer]
  <2>1. IdleMailer \in MailerState /\ IdleMailer.pc = "idle"
    BY LettersAssumption DEF IdleMailer, MailerState
  <2> QED BY <1>1, <1>2, <2>1 DEF MailerHasRequest
<1>3. ASSUME NEW pc \in {"ok", "failed", "last"}, Answers(w, pc), mailer[w].pc # "idle"
      PROVE  mailer' \in [Mailer -> MailerState] /\ MailerHasRequest'
  <2> DEFINE new == [mailer[w] EXCEPT !.pc = pc]
  <2>1. new \in MailerState /\ new.request = mailer[w].request
    BY <1>1 DEF MailerState
  <2>2. mailer' = [mailer EXCEPT ![w] = new]
    BY <1>3 DEF Answers
  <2> HIDE DEF new
  <2> QED BY <1>1, <1>3, <2>1, <2>2 DEF MailerHasRequest
<1>4. ASSUME NEW n \in Request, mailer' = [mailer EXCEPT ![w] = [pc |-> "taken", request |-> n]]
      PROVE  mailer' \in [Mailer -> MailerState] /\ MailerHasRequest'
  <2>1. [pc |-> "taken", request |-> n] \in MailerState
    BY LettersAssumption DEF MailerState, Request
  <2> QED BY <1>1, <1>4, <2>1 DEF MailerHasRequest
<1>5. CASE UNCHANGED mailer
  BY <1>1, <1>5 DEF MailerHasRequest
<1> QED BY <1>2, <1>3, <1>4, <1>5

(* A step that writes the row and the link of one request, and neither     *)
(* takes back the letter of a link that works nor touches what was sent.   *)
LEMMA OneLetter ==
    ASSUME LettersInv, NEW n \in Request, NEW row \in LetterRow, NEW link \in LinkState,
           letter' = [letter EXCEPT ![n] = row], request' = [request EXCEPT ![n] = link],
           UNCHANGED <<letterKind, latest>>, inbox' \subseteq Request,
           mailer' \in [Mailer -> MailerState], MailerHasRequest',
           letter[n].status = "absent" => row.status = "absent",
           row.status = "cancelled" => ~(link.closed = "no" /\ ~link.aged /\ n = latest),
           letter[n].status = "sent" => row.status = "sent" /\
               (link.closed = "undelivered" => request[n].closed = "undelivered")
    PROVE  LettersInv' /\ \A m \in Request : Agrees(m)
<1>1. letter \in [Request -> LetterRow] /\ request \in [Request -> LinkState]
  BY DEF LettersInv, LettersTypeOK
<1>2. LettersTypeOK'
  BY <1>1 DEF LettersInv, LettersTypeOK
<1>3. LettersComeLater'
  BY <1>1 DEF LettersInv, LettersComeLater
<1>4. \A m \in Request : Agrees(m)
  BY <1>1 DEF LettersInv, LinkHasLetter, Agrees, Current
<1>5. LinkHasLetter'
  BY <1>4 DEF LinkHasLetter, Agrees
<1> QED BY <1>2, <1>3, <1>4, <1>5 DEF LettersInv

LEMMA RequestStep ==
    ASSUME LettersInv, RequestLink
    PROVE  LettersInv' /\ \A m \in Request : Agrees(m)
<1>1. /\ letter \in [Request -> LetterRow] /\ request \in [Request -> LinkState]
      /\ latest \in 0..LastRequest /\ latest < LastRequest /\ latest' = latest + 1
      /\ UNCHANGED <<letterKind, mailer, inbox>>
  BY DEF LettersInv, LettersTypeOK, RequestLink
<1>2. latest + 1 \in Request /\ latest' \in 0..LastRequest /\ latest \in Nat
      /\ Request \subseteq Nat
  BY <1>1, LettersAssumption DEF Request
<1>3. letter' = [n \in Request |->
         IF n = latest + 1 THEN [letter[n] EXCEPT !.status = "pending", !.due = TRUE]
         ELSE IF letterKind = "email_change" /\ Waiting(n) THEN [letter[n] EXCEPT !.status = "cancelled"]
         ELSE letter[n]]
  BY DEF RequestLink
<1>4. \A n \in Request : /\ [letter[n] EXCEPT !.status = "pending", !.due = TRUE] \in LetterRow
                        /\ [letter[n] EXCEPT !.status = "pending", !.due = TRUE].status = "pending"
                        /\ [letter[n] EXCEPT !.status = "cancelled"] \in LetterRow
  BY <1>1 DEF LetterRow
<1>5. /\ letter' \in [Request -> LetterRow] /\ letter'[latest + 1].status = "pending"
      /\ \A n \in Request \ {latest + 1} :
            letter'[n] = letter[n] \/ (Waiting(n) /\ letter'[n].status = "cancelled")
  BY <1>2, <1>3, <1>4, <1>1 DEF LetterRow
<1>6. request' \in [Request -> LinkState]
      /\ \A n \in Request : request'[n].closed = "undelivered" => request[n].closed = "undelivered"
  <2>1. \A n \in Request : [request[n] EXCEPT !.closed = "superseded"] \in LinkState
                          /\ [request[n] EXCEPT !.closed = "superseded"].closed = "superseded"
    BY <1>1 DEF LinkState
  <2>2. [closed |-> "no", aged |-> FALSE] \in LinkState
    BY DEF LinkState
  <2> QED BY <1>1, <2>1, <2>2 DEF RequestLink
<1>7. LettersTypeOK'
  BY <1>1, <1>2, <1>5, <1>6 DEF LettersInv, LettersTypeOK
<1>8. letter[latest + 1].status = "absent"
  BY <1>2 DEF LettersInv, LettersComeLater
<1>9. LettersComeLater'
  <2> SUFFICES ASSUME NEW n \in Request, n > latest + 1 PROVE letter'[n].status = "absent"
    BY <1>1 DEF LettersComeLater
  <2>1. n # latest + 1 /\ letter[n].status = "absent"
    BY <1>2 DEF LettersInv, LettersComeLater
  <2> QED BY <1>5, <2>1 DEF Waiting
<1>10. LinkHasLetter' /\ \A m \in Request : Agrees(m)
  <2>1. \A m \in Request : Current(m)' => m = latest + 1
    BY <1>1 DEF Current
  <2> QED BY <1>5, <1>6, <1>8, <2>1 DEF LinkHasLetter, Agrees, Waiting
<1>11. MailerHasRequest'
  BY <1>1 DEF LettersInv, MailerHasRequest
<1> QED BY <1>7, <1>9, <1>10, <1>11 DEF LettersInv

LEMMA LettersStep ==
    ASSUME LettersInv, [LettersNext]_lettersVars
    PROVE  LettersInv' /\ \A m \in Request : Agrees(m)
<1>1. /\ letter \in [Request -> LetterRow] /\ request \in [Request -> LinkState]
      /\ inbox \subseteq Request /\ mailer \in [Mailer -> MailerState] /\ MailerHasRequest
  BY DEF LettersInv, LettersTypeOK
<1>2. ASSUME NEW n \in Request, OpenLink(n) \/ LinkAges(n)
      PROVE  LettersInv' /\ \A m \in Request : Agrees(m)
  <2>1. PICK link \in LinkState : /\ request' = [request EXCEPT ![n] = link]
                                  /\ link.closed \in {request[n].closed, "late", "confirmed"}
                                  /\ link.closed = "no" => link.aged
    <3>1. \A closed \in {"late", "confirmed"} :
              /\ [request[n] EXCEPT !.closed = closed] \in LinkState
              /\ [request[n] EXCEPT !.closed = closed].closed = closed
      BY <1>1 DEF LinkState
    <3>2. /\ [request[n] EXCEPT !.aged = TRUE] \in LinkState
          /\ [request[n] EXCEPT !.aged = TRUE].closed = request[n].closed
          /\ [request[n] EXCEPT !.aged = TRUE].aged
      BY <1>1 DEF LinkState
    <3> QED BY <1>2, <3>1, <3>2 DEF OpenLink, LinkAges
  <2>2. letter' = [letter EXCEPT ![n] = letter[n]] /\ UNCHANGED <<letterKind, latest, mailer, inbox>>
    BY <1>1, <1>2 DEF OpenLink, LinkAges
  <2>3. MailerHasRequest'
    BY <1>1, <2>2 DEF MailerHasRequest
  <2> QED BY <1>1, <2>1, <2>2, <2>3, OneLetter
<1>3. ASSUME NEW n \in Request, LetterLeaseLapses(n) \/ ReconcileLetters(n) \/ LetterFallsDue(n)
      PROVE  LettersInv' /\ \A m \in Request : Agrees(m)
  <2>1. PICK row \in LetterRow : /\ letter' = [letter EXCEPT ![n] = row]
                                 /\ letter[n].status \in {"sending", "failed"}
                                 /\ row.status \in {"sending", "failed"}
    <3>1. /\ [letter[n] EXCEPT !.lapsed = TRUE] \in LetterRow
          /\ [letter[n] EXCEPT !.lapsed = TRUE].status = letter[n].status
      BY <1>1 DEF LetterRow
    <3>2. /\ [letter[n] EXCEPT !.due = TRUE] \in LetterRow
          /\ [letter[n] EXCEPT !.due = TRUE].status = letter[n].status
      BY <1>1 DEF LetterRow
    <3>3. /\ [letter[n] EXCEPT !.status = "failed", !.lease = NoMailer, !.lapsed = FALSE,
                               !.due = TRUE] \in LetterRow
          /\ [letter[n] EXCEPT !.status = "failed", !.lease = NoMailer, !.lapsed = FALSE,
                               !.due = TRUE].status = "failed"
      BY <1>1 DEF LetterRow
    <3> QED BY <1>3, <3>1, <3>2, <3>3 DEF LetterLeaseLapses, ReconcileLetters, LetterFallsDue
  <2>2. request' = [request EXCEPT ![n] = request[n]]
        /\ UNCHANGED <<letterKind, latest, mailer, inbox>>
    BY <1>1, <1>3 DEF LetterLeaseLapses, ReconcileLetters, LetterFallsDue
  <2>3. MailerHasRequest'
    BY <1>1, <2>2 DEF MailerHasRequest
  <2> QED BY <1>1, <2>1, <2>2, <2>3, OneLetter
<1>4. ASSUME NEW w \in Mailer, NEW n \in Request, TakeLetter(w, n)
      PROVE  LettersInv' /\ \A m \in Request : Agrees(m)
  <2>1. request' = [request EXCEPT ![n] = request[n]] /\ UNCHANGED <<letterKind, latest, inbox>>
        /\ letter[n].status \in {"pending", "failed"}
    BY <1>1, <1>4 DEF TakeLetter, Waiting
  <2>2. mailer' \in [Mailer -> MailerState] /\ MailerHasRequest'
    BY <1>4, MailerMoves DEF TakeLetter
  <2>3. PICK row \in LetterRow : /\ letter' = [letter EXCEPT ![n] = row]
                                 /\ row.status \in {"sending", "cancelled"}
                                 /\ row.status = "cancelled" => ~Current(n)
    <3>1. /\ [letter[n] EXCEPT !.status = "sending", !.lease = w, !.lapsed = FALSE] \in LetterRow
          /\ [letter[n] EXCEPT !.status = "sending", !.lease = w, !.lapsed = FALSE].status = "sending"
      BY <1>1 DEF LetterRow
    <3>2. /\ [letter[n] EXCEPT !.status = "cancelled"] \in LetterRow
          /\ [letter[n] EXCEPT !.status = "cancelled"].status = "cancelled"
      BY <1>1 DEF LetterRow
    <3> QED BY <1>4, <3>1, <3>2 DEF TakeLetter
  <2> QED BY <1>1, <2>1, <2>2, <2>3, OneLetter DEF Current
<1>5. ASSUME NEW w \in Mailer, ProviderAccepts(w) \/ ProviderRefuses(w) \/ MailerDies(w)
      PROVE  LettersInv' /\ \A m \in Request : Agrees(m)
  <2>1. mailer' \in [Mailer -> MailerState] /\ MailerHasRequest'
    BY <1>5, MailerMoves DEF ProviderAccepts, ProviderRefuses, MailerDies
  <2>2. UNCHANGED <<letterKind, latest, request, letter>>
    BY <1>5 DEF ProviderAccepts, ProviderRefuses, MailerDies
  <2>3. inbox' \subseteq Request
    BY <1>1, <1>5 DEF ProviderAccepts, ProviderRefuses, MailerDies, MailerHasRequest
  <2> QED BY <2>1, <2>2, <2>3
          DEF LettersInv, LettersTypeOK, LettersComeLater, LinkHasLetter, Agrees, Current
<1>6. ASSUME NEW w \in Mailer, RecordSent(w) \/ RecordFailure(w)
      PROVE  LettersInv' /\ \A m \in Request : Agrees(m)
  <2> DEFINE n == mailer[w].request
  <2>1. n \in Request /\ UNCHANGED <<letterKind, latest, inbox>>
        /\ mailer' = [mailer EXCEPT ![w] = IdleMailer]
    BY <1>1, <1>6 DEF RecordSent, RecordFailure, MailerHasRequest
  <2>2. mailer' \in [Mailer -> MailerState] /\ MailerHasRequest'
    BY <2>1, MailerMoves
  <2>3. CASE ~HoldsLetter(w)
    <3>1. UNCHANGED <<letter, request>>
      BY <1>6, <2>3 DEF RecordSent, RecordFailure
    <3> QED BY <1>1, <2>1, <2>2, <3>1
            DEF LettersInv, LettersTypeOK, LettersComeLater, LinkHasLetter, Agrees, Current
  <2>4. CASE HoldsLetter(w) /\ RecordSent(w)
    <3> DEFINE row == [letter[n] EXCEPT !.status = "sent", !.lease = NoMailer, !.lapsed = FALSE]
    <3>1. row \in LetterRow /\ row.status = "sent"
      BY <1>1, <2>1 DEF LetterRow
    <3>2. letter' = [letter EXCEPT ![n] = row] /\ request' = [request EXCEPT ![n] = request[n]]
      BY <1>1, <2>4 DEF RecordSent
    <3> HIDE DEF row
    <3> QED BY <1>1, <2>1, <2>2, <2>4, <3>1, <3>2, OneLetter DEF HoldsLetter
  <2>5. CASE HoldsLetter(w) /\ RecordFailure(w)
    <3> DEFINE last == mailer[w].pc = "last"
    <3> DEFINE status == IF last THEN "cancelled" ELSE "failed"
    <3> DEFINE row == [letter[n] EXCEPT !.status = status,
                                        !.lease = NoMailer, !.lapsed = FALSE, !.due = FALSE]
    <3> DEFINE link == IF last /\ request[n].closed = "no"
                       THEN [request[n] EXCEPT !.closed = "undelivered"] ELSE request[n]
    <3>1. row \in LetterRow /\ row.status = IF last THEN "cancelled" ELSE "failed"
      <4>1. status \in {"cancelled", "failed"} /\ letter[n] \in LetterRow
        BY <1>1, <2>1
      <4> HIDE DEF status
      <4>2. row \in LetterRow /\ row.status = status
        BY <4>1 DEF LetterRow
      <4> QED BY <4>2 DEF status
    <3>2. link \in LinkState /\ (last => link.closed # "no")
      BY <1>1, <2>1 DEF LinkState
    <3>3. letter' = [letter EXCEPT ![n] = row] /\ request' = [request EXCEPT ![n] = link]
      BY <1>1, <2>5 DEF RecordFailure
    <3>4. letter[n].status = "sending"
      BY <2>5 DEF HoldsLetter
    <3> HIDE DEF row, link
    <3> QED BY <1>1, <2>1, <2>2, <3>1, <3>2, <3>3, <3>4, OneLetter
  <2> QED BY <1>6, <2>3, <2>4, <2>5
<1>7. CASE UNCHANGED lettersVars
  BY <1>7 DEF lettersVars, LettersInv, LettersTypeOK, MailerHasRequest, LettersComeLater,
              LinkHasLetter, Agrees, Current
<1> QED BY <1>2, <1>3, <1>4, <1>5, <1>6, <1>7, RequestStep DEF LettersNext

THEOREM LettersInvariance == LettersSpec => []LettersInv
<1>1. LettersInv /\ [LettersNext]_lettersVars => LettersInv'
  BY LettersStep
<1> QED BY LettersStart, <1>1, PTL DEF LettersSpec

(* Links, letters and runs of the timer keep their types, and only what    *)
(* was asked for is put in a mailbox.                                      *)
THEOREM LettersTypes == LettersSpec => []LettersTypeOK
<1>1. LettersInv => LettersTypeOK
  BY DEF LettersInv
<1> QED BY <1>1, LettersInvariance, PTL

(* A link that still works has a letter sent or on its way, and once a     *)
(* delivery is recorded no other run takes it back or closes its link as   *)
(* undeliverable.                                                          *)
THEOREM LetterFollowsLink == LettersSpec => LetterAndLinkAgree
<1>1. LettersInv /\ [LettersNext]_lettersVars =>
          [\A n \in Request :
             /\ Current(n)' => letter'[n].status # "cancelled"
             /\ letter[n].status = "sent" =>
                  letter'[n].status = "sent" /\ (request'[n].closed = "undelivered"
                                                 => request[n].closed = "undelivered")
          ]_lettersVars
  BY LettersStep DEF Agrees
<1> QED BY <1>1, LettersInvariance, PTL DEF LettersSpec, LetterAndLinkAgree

-----------------------------------------------------------------------------
(* What follows a published post.                                          *)

(* The attempts that are about to post a comment.                          *)
Posting == {w \in ExtraWorker : extraWorker[w].pc = "begun" /\ extraWorker[w].kind = "comment"}

CommentsArePaid ==
    /\ IsFiniteSet(Posting)
    /\ comments + Cardinality(Posting) <= confirmed + (IF extra["comment"].started THEN 1 ELSE 0)

(* The attempt that holds the row saw the mark, if there is one.           *)
HolderSawMark ==
    \A w \in ExtraWorker :
        /\ extraWorker[w].pc = "claimed" /\ extraWorker[w].kind = "comment"
        /\ HoldsExtra(w) /\ extra["comment"].started
        => extraWorker[w].seen

ExtrasInv ==
    /\ ExtrasTypeOK
    /\ CommentsArePaid
    /\ HolderSawMark

LEMMA ExtrasStart == ExtrasInit => ExtrasInv
<1> SUFFICES ASSUME ExtrasInit PROVE ExtrasInv
  OBVIOUS
<1>1. ExtrasTypeOK
  <2>1. IdleAttempt \in ExtraAttempt
    BY DEF IdleAttempt, ExtraAttempt, Extra
  <2> QED BY <2>1, ExtrasAssumption DEF ExtrasInit, ExtrasTypeOK, ExtraRow
<1>2. Posting = {} /\ HolderSawMark
  BY DEF ExtrasInit, Posting, IdleAttempt, HolderSawMark
<1>3. CommentsArePaid
  BY <1>2, FS_EmptySet DEF ExtrasInit, CommentsArePaid, Extra
<1> QED BY <1>1, <1>2, <1>3 DEF ExtrasInv

(* One row, or one attempt, takes another value.                           *)
LEMMA RowMoves ==
    ASSUME extra \in [Extra -> ExtraRow], NEW k \in Extra,
           NEW status \in {"waiting", "pending", "queued", "running", "failed_retry", "failed",
                           "succeeded"},
           NEW unsure \in BOOLEAN
    PROVE  /\ Released(k, status, unsure) \in ExtraRow
           /\ Released(k, status, unsure).started = extra[k].started
           /\ Released(k, status, unsure).status = status
           /\ Released(k, status, unsure).lease = NoExtraWorker
           /\ [extra[k] EXCEPT !.status = status] \in ExtraRow
           /\ [extra[k] EXCEPT !.status = status].started = extra[k].started
           /\ [extra[k] EXCEPT !.status = status].status = status
           /\ [extra[k] EXCEPT !.status = status, !.unsure = FALSE] \in ExtraRow
           /\ [extra[k] EXCEPT !.status = status, !.unsure = FALSE].started = extra[k].started
           /\ [extra[k] EXCEPT !.status = status, !.unsure = FALSE].status = status
BY DEF Released, ExtraRow

LEMMA AttemptMoves ==
    ASSUME extraWorker \in [ExtraWorker -> ExtraAttempt], NEW w \in ExtraWorker,
           NEW pc \in {"begun", "ok", "error", "unknown", "refused", "done"},
           Proceeds(w, pc)
    PROVE  /\ extraWorker' \in [ExtraWorker -> ExtraAttempt]
           /\ extraWorker'[w].pc = pc /\ extraWorker'[w].kind = extraWorker[w].kind
           /\ \A v \in ExtraWorker \ {w} : extraWorker'[v] = extraWorker[v]
<1> DEFINE new == [extraWorker[w] EXCEPT !.pc = pc, !.seen = FALSE]
<1>1. new \in ExtraAttempt /\ new.pc = pc /\ new.kind = extraWorker[w].kind
  BY DEF ExtraAttempt
<1>2. extraWorker' = [extraWorker EXCEPT ![w] = new]
  BY DEF Proceeds
<1> HIDE DEF new
<1> QED BY <1>1, <1>2

LEMMA AttemptEnds ==
    ASSUME extraWorker \in [ExtraWorker -> ExtraAttempt], NEW w \in ExtraWorker,
           extraWorker' = [extraWorker EXCEPT ![w] = IdleAttempt]
    PROVE  /\ extraWorker' \in [ExtraWorker -> ExtraAttempt]
           /\ extraWorker'[w].pc = "idle"
           /\ \A v \in ExtraWorker \ {w} : extraWorker'[v] = extraWorker[v]
BY DEF IdleAttempt, ExtraAttempt, Extra

(* A step that posts nothing, sets no mark and claims nothing.             *)
LEMMA NothingPosted ==
    ASSUME ExtrasInv, ExtrasTypeOK',
           comments' = comments, confirmed' = confirmed,
           extra'["comment"].started = extra["comment"].started,
           /\ extra'["comment"].status = "running" =>
                 extra["comment"].status = "running" /\ extra'["comment"].lease = extra["comment"].lease,
           \A w \in ExtraWorker :
               \/ extraWorker'[w] = extraWorker[w]
               \/ extraWorker'[w].pc \notin {"claimed", "begun"}
    PROVE  ExtrasInv'
<1>1. Posting' \subseteq Posting
  BY DEF Posting
<1>2. IsFiniteSet(Posting') /\ Cardinality(Posting') <= Cardinality(Posting)
      /\ Cardinality(Posting') \in Nat /\ Cardinality(Posting) \in Nat
  BY <1>1, FS_Subset, FS_CardinalityType DEF ExtrasInv, CommentsArePaid
<1>3. comments \in Nat /\ confirmed \in Nat
  BY ExtrasAssumption DEF ExtrasInv, ExtrasTypeOK
<1>4. CommentsArePaid'
  BY <1>2, <1>3 DEF ExtrasInv, CommentsArePaid
<1>5. HolderSawMark'
  BY DEF ExtrasInv, HolderSawMark, HoldsExtra
<1> QED BY <1>4, <1>5 DEF ExtrasInv

LEMMA ActivateKeeps ==
    ASSUME ExtrasInv,
           NEW rows \in [Extra -> {"absent", "pending", "enqueued", "failed", "completed"}],
           ActivateNext(rows)
    PROVE  /\ extra' \in [Extra -> ExtraRow]
           /\ extraOutbox' \in [Extra -> {"absent", "pending", "enqueued", "failed", "completed"}]
           /\ extra'["comment"].started = extra["comment"].started
           /\ extra'["comment"].status = "running" =>
                 /\ extra["comment"].status = "running"
                 /\ extra'["comment"].lease = extra["comment"].lease
<1>1. extra \in [Extra -> ExtraRow] /\ "comment" \in Extra
  BY DEF ExtrasInv, ExtrasTypeOK, Extra
<1>2. ASSUME NEW k \in Extra, NextInOrder(k),
             extra' = [extra EXCEPT ![k].status = IF @ = "waiting" THEN "pending" ELSE @]
      PROVE  /\ extra' \in [Extra -> ExtraRow]
             /\ extra'["comment"].started = extra["comment"].started
             /\ extra'["comment"].status = "running" =>
                   /\ extra["comment"].status = "running"
                   /\ extra'["comment"].lease = extra["comment"].lease
  <2> DEFINE status == IF extra[k].status = "waiting" THEN "pending" ELSE extra[k].status
  <2> DEFINE row == [extra[k] EXCEPT !.status = status]
  <2>1. status \in {"pending", "queued", "failed_retry"}
    BY <1>2 DEF NextInOrder, Runnable
  <2>2. extra' = [extra EXCEPT ![k] = row]
    BY <1>2
  <2> HIDE DEF status
  <2>3. row \in ExtraRow /\ row.started = extra[k].started /\ row.status = status
    BY <1>1, <2>1 DEF ExtraRow
  <2> HIDE DEF row
  <2> QED BY <1>1, <2>1, <2>2, <2>3
<1>3. extraOutbox' \in [Extra -> {"absent", "pending", "enqueued", "failed", "completed"}]
  BY DEF ActivateNext
<1> QED BY <1>1, <1>2, <1>3 DEF ActivateNext

(* The timer, the dispatchers and the end of an attempt.                   *)
LEMMA OrderKeeps ==
    ASSUME ExtrasInv,
           \/ RuntimeActivates
           \/ \E w \in ExtraWorker : ContinueOrder(w)
    PROVE  ExtrasInv'
<1>1. /\ extra \in [Extra -> ExtraRow]
      /\ extraOutbox \in [Extra -> {"absent", "pending", "enqueued", "failed", "completed"}]
      /\ extraWorker \in [ExtraWorker -> ExtraAttempt]
  BY DEF ExtrasInv, ExtrasTypeOK
<1>2. UNCHANGED <<queuedExtra, comments, confirmed>>
  BY DEF RuntimeActivates, ContinueOrder
<1>3. PICK rows \in [Extra -> {"absent", "pending", "enqueued", "failed", "completed"}] :
          ActivateNext(rows)
  <2>1. CASE RuntimeActivates
    BY <1>1, <2>1 DEF RuntimeActivates
  <2>2. ASSUME NEW w \in ExtraWorker, ContinueOrder(w)
        PROVE  \E rows \in [Extra -> {"absent", "pending", "enqueued", "failed", "completed"}] :
                   ActivateNext(rows)
    <3>1. ActivateNext([extraOutbox EXCEPT ![extraWorker[w].kind] = "completed"])
      BY <2>2 DEF ContinueOrder
    <3>2. [extraOutbox EXCEPT ![extraWorker[w].kind] = "completed"]
             \in [Extra -> {"absent", "pending", "enqueued", "failed", "completed"}]
      BY <1>1
    <3> QED BY <3>1, <3>2
  <2> QED BY <2>1, <2>2
<1>4. /\ extraWorker' \in [ExtraWorker -> ExtraAttempt]
      /\ \A w \in ExtraWorker : \/ extraWorker'[w] = extraWorker[w]
                               \/ extraWorker'[w].pc \notin {"claimed", "begun"}
  <2>1. CASE RuntimeActivates
    BY <1>1, <2>1 DEF RuntimeActivates
  <2>2. ASSUME NEW w \in ExtraWorker, ContinueOrder(w)
        PROVE  <1>4!1 /\ <1>4!2
    BY <1>1, <2>2, AttemptEnds DEF ContinueOrder
  <2> QED BY <2>1, <2>2
<1>5. /\ extra' \in [Extra -> ExtraRow]
      /\ extraOutbox' \in [Extra -> {"absent", "pending", "enqueued", "failed", "completed"}]
      /\ extra'["comment"].started = extra["comment"].started
      /\ extra'["comment"].status = "running" =>
            /\ extra["comment"].status = "running"
            /\ extra'["comment"].lease = extra["comment"].lease
  BY <1>3, ActivateKeeps
<1>6. ExtrasTypeOK'
  BY <1>2, <1>4, <1>5 DEF ExtrasInv, ExtrasTypeOK
<1> QED BY <1>2, <1>4, <1>5, <1>6, NothingPosted

LEMMA RowKeeps ==
    ASSUME ExtrasInv, NEW k \in Extra, DispatchExtra(k) \/ ReclaimExtra(k)
    PROVE  ExtrasInv'
<1>1. extra \in [Extra -> ExtraRow]
      /\ extraOutbox \in [Extra -> {"absent", "pending", "enqueued", "failed", "completed"}]
  BY DEF ExtrasInv, ExtrasTypeOK
<1>2. UNCHANGED <<extraWorker, comments, confirmed>>
      /\ queuedExtra' \in {queuedExtra, queuedExtra \cup {k}}
  BY DEF DispatchExtra, ReclaimExtra
<1>3. PICK row \in ExtraRow : /\ extra' = [extra EXCEPT ![k] = row]
                              /\ row.started = extra[k].started /\ row.status # "running"
  <2>1. CASE DispatchExtra(k)
    <3>1. PICK status \in {"queued", "failed_retry", "failed"} :
              extra' = [extra EXCEPT ![k].status = status, ![k].unsure = FALSE]
      BY <2>1 DEF DispatchExtra
    <3> DEFINE stepped == [extra[k] EXCEPT !.status = status]
    <3>2. [extra EXCEPT ![k].status = status] = [extra EXCEPT ![k] = stepped]
      OBVIOUS
    <3>3. [extra EXCEPT ![k] = stepped][k] = stepped
      BY <1>1
    <3> HIDE DEF stepped
    <3>4. extra' = [extra EXCEPT ![k] = [stepped EXCEPT !.unsure = FALSE]]
      BY <1>1, <3>1, <3>2, <3>3
    <3>5. extra' = [extra EXCEPT ![k] = [extra[k] EXCEPT !.status = status, !.unsure = FALSE]]
      BY <3>4 DEF stepped
    <3> DEFINE row == [extra[k] EXCEPT !.status = status, !.unsure = FALSE]
    <3>6. row \in ExtraRow /\ row.started = extra[k].started /\ row.status = status
      <4>1. extra[k] \in ExtraRow
        BY <1>1
      <4> QED BY <4>1 DEF ExtraRow
    <3> HIDE DEF row
    <3>7. status # "running"
      OBVIOUS
    <3> QED BY <3>5, <3>6, <3>7 DEF row
  <2>2. CASE ReclaimExtra(k)
    <3>1. PICK status \in {"failed", "failed_retry"}, unsure \in BOOLEAN :
              extra' = [extra EXCEPT ![k] = Released(k, status, unsure)]
      BY <1>1, <2>2 DEF ReclaimExtra, ExtraRow
    <3>2. /\ Released(k, status, unsure) \in ExtraRow
          /\ Released(k, status, unsure).started = extra[k].started
          /\ Released(k, status, unsure).status = status
      BY <1>1 DEF Released, ExtraRow
    <3> QED BY <3>1, <3>2
  <2> QED BY <2>1, <2>2
<1>4. extraOutbox' \in [Extra -> {"absent", "pending", "enqueued", "failed", "completed"}]
  BY <1>1 DEF DispatchExtra, ReclaimExtra
<1>5. ExtrasTypeOK'
  BY <1>1, <1>2, <1>3, <1>4 DEF ExtrasInv, ExtrasTypeOK
<1>6. "comment" \in Extra
  BY DEF Extra
<1> QED BY <1>1, <1>2, <1>3, <1>5, <1>6, NothingPosted

LEMMA ClaimKeeps ==
    ASSUME ExtrasInv, NEW w \in ExtraWorker, NEW k \in Extra, ClaimExtra(w, k)
    PROVE  ExtrasInv'
<1> DEFINE row == [extra[k] EXCEPT !.status = "running", !.lease = w]
<1> DEFINE new == [pc |-> "claimed", kind |-> k, seen |-> extra[k].started]
<1>1. /\ extra \in [Extra -> ExtraRow] /\ extraWorker \in [ExtraWorker -> ExtraAttempt]
      /\ comments \in Nat /\ confirmed \in Nat
  BY ExtrasAssumption DEF ExtrasInv, ExtrasTypeOK
<1>2. /\ extraWorker[w].pc = "idle" /\ extra[k].status \in Runnable
      /\ extra' = [extra EXCEPT ![k] = row] /\ extraWorker' = [extraWorker EXCEPT ![w] = new]
      /\ UNCHANGED <<extraOutbox, queuedExtra, comments, confirmed>>
  BY <1>1 DEF ClaimExtra
<1>3. row \in ExtraRow /\ row.started = extra[k].started /\ row.lease = w
  BY <1>1 DEF ExtraRow
<1>4. new \in ExtraAttempt
  BY <1>1 DEF ExtraAttempt, ExtraRow
<1> HIDE DEF row
<1>5. ExtrasTypeOK'
  BY <1>1, <1>2, <1>3, <1>4 DEF ExtrasInv, ExtrasTypeOK
<1>6. Posting' = Posting
  BY <1>1, <1>2 DEF Posting
<1>7. CommentsArePaid'
  <2>1. extra'["comment"].started = extra["comment"].started
    BY <1>1, <1>2, <1>3 DEF Extra
  <2> QED BY <1>2, <1>6, <2>1 DEF ExtrasInv, CommentsArePaid
<1>8. HolderSawMark'
  <2> SUFFICES ASSUME NEW v \in ExtraWorker, extraWorker'[v].pc = "claimed",
                      extraWorker'[v].kind = "comment", HoldsExtra(v)', extra'["comment"].started
               PROVE  extraWorker'[v].seen
    BY DEF HolderSawMark
  <2>1. CASE v = w
    BY <1>1, <1>2, <1>3, <2>1
  <2>2. CASE v # w
    <3>1. extraWorker'[v] = extraWorker[v] /\ "comment" \in Extra
      BY <1>1, <1>2, <2>2 DEF Extra
    <3>2. k # "comment"
      BY <1>1, <1>2, <1>3, <2>2, <3>1 DEF HoldsExtra
    <3>3. extra'["comment"] = extra["comment"]
      BY <1>1, <1>2, <3>1, <3>2
    <3> QED BY <3>1, <3>3 DEF HoldsExtra, ExtrasInv, HolderSawMark
  <2> QED BY <2>1, <2>2
<1> QED BY <1>5, <1>7, <1>8 DEF ExtrasInv

(* The mark is set and one attempt more is about to post.                   *)
LEMMA BeginKeeps ==
    ASSUME ExtrasInv, NEW w \in ExtraWorker, BeginCall(w)
    PROVE  ExtrasInv'
<1> DEFINE k == extraWorker[w].kind
<1>1. /\ extra \in [Extra -> ExtraRow] /\ extraWorker \in [ExtraWorker -> ExtraAttempt]
      /\ comments \in Nat /\ confirmed \in Nat /\ k \in Extra /\ "comment" \in Extra
  BY ExtrasAssumption DEF ExtrasInv, ExtrasTypeOK, ExtraAttempt, Extra
<1>2. extraWorker[w].pc = "claimed" /\ UNCHANGED <<extraOutbox, queuedExtra, comments, confirmed>>
  BY DEF BeginCall
<1>3. ASSUME NEW pc \in {"unknown", "error"}, Proceeds(w, pc), UNCHANGED extra
      PROVE  ExtrasInv'
  <2>1. extraWorker' \in [ExtraWorker -> ExtraAttempt] /\ extraWorker'[w].pc = pc
        /\ \A v \in ExtraWorker \ {w} : extraWorker'[v] = extraWorker[v]
    BY <1>1, <1>3, AttemptMoves
  <2>2. ExtrasTypeOK'
    BY <1>2, <1>3, <2>1 DEF ExtrasInv, ExtrasTypeOK
  <2> QED BY <1>2, <1>3, <2>1, <2>2, NothingPosted
<1>4. ASSUME ~BegunBefore(w), HoldsExtra(w), Proceeds(w, "begun"),
             extra' = [extra EXCEPT ![k].started = (k = "comment")]
      PROVE  ExtrasInv'
  <2> DEFINE row == [extra[k] EXCEPT !.started = (k = "comment")]
  <2>1. row \in ExtraRow /\ row.started = (k = "comment")
        /\ row.status = extra[k].status /\ row.lease = extra[k].lease
    <3>1. extra[k] \in ExtraRow /\ (k = "comment") \in BOOLEAN
      BY <1>1
    <3> QED BY <3>1, Zenon DEF ExtraRow
  <2>2. extra' = [extra EXCEPT ![k] = row]
    BY <1>4
  <2> HIDE DEF row
  <2>3. extraWorker' \in [ExtraWorker -> ExtraAttempt] /\ extraWorker'[w].pc = "begun"
        /\ extraWorker'[w].kind = k
        /\ \A v \in ExtraWorker \ {w} : extraWorker'[v] = extraWorker[v]
    BY <1>1, <1>4, AttemptMoves
  <2>4. ExtrasTypeOK'
    BY <1>1, <1>2, <2>1, <2>2, <2>3 DEF ExtrasInv, ExtrasTypeOK
  <2>5. CASE k # "comment"
    <3>1. Posting' = Posting
      BY <1>2, <2>3, <2>5 DEF Posting
    <3>2. extra'["comment"] = extra["comment"]
      BY <1>1, <2>2, <2>5
    <3>3. CommentsArePaid'
      BY <1>2, <3>1, <3>2 DEF ExtrasInv, CommentsArePaid
    <3>4. HolderSawMark'
      BY <2>3, <3>2 DEF ExtrasInv, HolderSawMark, HoldsExtra
    <3> QED BY <2>4, <3>3, <3>4 DEF ExtrasInv
  <2>6. CASE k = "comment"
    <3>1. ~extra["comment"].started
      BY <1>2, <1>4, <2>6 DEF ExtrasInv, HolderSawMark, BegunBefore
    <3>2. Posting' = Posting \cup {w} /\ w \notin Posting
      BY <1>2, <2>3, <2>6 DEF Posting
    <3>3. IsFiniteSet(Posting') /\ Cardinality(Posting') = Cardinality(Posting) + 1
      BY <3>2, FS_AddElement DEF ExtrasInv, CommentsArePaid
    <3>4. extra'["comment"].started
      BY <1>1, <2>1, <2>2, <2>6
    <3>5. Cardinality(Posting) \in Nat
      BY FS_CardinalityType DEF ExtrasInv, CommentsArePaid
    <3>6. CommentsArePaid'
      BY <1>1, <1>2, <3>1, <3>3, <3>4, <3>5 DEF ExtrasInv, CommentsArePaid
    <3>7. HolderSawMark'
      <4>1. extra'["comment"].lease = w
        BY <1>1, <1>4, <2>1, <2>2, <2>6 DEF HoldsExtra
      <4> QED BY <2>3, <4>1 DEF HolderSawMark, HoldsExtra
    <3> QED BY <2>4, <3>6, <3>7 DEF ExtrasInv
  <2> QED BY <2>5, <2>6
<1> QED BY <1>3, <1>4 DEF BeginCall

(* One comment more, and one attempt less that is about to post it.        *)
LEMMA CallKeeps ==
    ASSUME ExtrasInv, NEW w \in ExtraWorker, CallExtraProvider(w)
    PROVE  ExtrasInv'
<1> DEFINE k == extraWorker[w].kind
<1>1. /\ extraWorker \in [ExtraWorker -> ExtraAttempt] /\ comments \in Nat /\ confirmed \in Nat
  BY ExtrasAssumption DEF ExtrasInv, ExtrasTypeOK
<1>2. /\ extraWorker[w].pc = "begun" /\ UNCHANGED <<extra, extraOutbox, queuedExtra, confirmed>>
      /\ comments' \in {comments, IF k = "comment" THEN comments + 1 ELSE comments}
      /\ \E pc \in {"ok", "unknown", "error", "refused"} : Proceeds(w, pc)
  BY DEF CallExtraProvider
<1>3. PICK pc \in {"ok", "unknown", "error", "refused"} : Proceeds(w, pc)
  BY <1>2
<1>4. extraWorker' \in [ExtraWorker -> ExtraAttempt] /\ extraWorker'[w].pc = pc
      /\ \A v \in ExtraWorker \ {w} : extraWorker'[v] = extraWorker[v]
  BY <1>1, <1>3, AttemptMoves
<1>5. comments' \in Nat
  BY <1>1, <1>2
<1>6. ExtrasTypeOK'
  BY <1>2, <1>4, <1>5 DEF ExtrasInv, ExtrasTypeOK
<1>7. HolderSawMark'
  BY <1>2, <1>4 DEF ExtrasInv, HolderSawMark, HoldsExtra
<1>8. Posting' = Posting \ {w} /\ (w \in Posting <=> k = "comment")
  BY <1>2, <1>4 DEF Posting
<1>9. IsFiniteSet(Posting) /\ Cardinality(Posting) \in Nat
  BY FS_CardinalityType DEF ExtrasInv, CommentsArePaid
<1>10. CommentsArePaid'
  <2>1. CASE k = "comment"
    <3>1. IsFiniteSet(Posting') /\ Cardinality(Posting') = Cardinality(Posting) - 1
      BY <1>8, <1>9, <2>1, FS_RemoveElement
    <3> QED BY <1>1, <1>2, <1>9, <2>1, <3>1 DEF ExtrasInv, CommentsArePaid
  <2>2. CASE k # "comment"
    <3>1. Posting' = Posting
      BY <1>8, <2>2
    <3> QED BY <1>2, <2>2, <3>1 DEF ExtrasInv, CommentsArePaid
  <2> QED BY <2>1, <2>2
<1> QED BY <1>6, <1>7, <1>10 DEF ExtrasInv

LEMMA ResultKeeps ==
    ASSUME ExtrasInv, NEW w \in ExtraWorker, SaveExtra(w) \/ FailExtra(w) \/ ExtraWorkerDies(w)
    PROVE  ExtrasInv'
<1> DEFINE k == extraWorker[w].kind
<1>1. /\ extra \in [Extra -> ExtraRow] /\ extraWorker \in [ExtraWorker -> ExtraAttempt]
      /\ k \in Extra /\ "comment" \in Extra
  BY DEF ExtrasInv, ExtrasTypeOK, ExtraAttempt, Extra
<1>2. /\ UNCHANGED <<extraOutbox, queuedExtra, comments, confirmed>>
      /\ \/ \E pc \in {"done", "error"} : Proceeds(w, pc)
         \/ extraWorker' = [extraWorker EXCEPT ![w] = IdleAttempt]
      /\ \/ UNCHANGED extra
         \/ \E status \in {"succeeded", "failed_retry", "failed"}, unsure \in BOOLEAN :
               extra' = [extra EXCEPT ![k] = Released(k, status, unsure)]
  BY DEF SaveExtra, FailExtra, ExtraWorkerDies
<1>3. /\ extraWorker' \in [ExtraWorker -> ExtraAttempt]
      /\ extraWorker'[w].pc \notin {"claimed", "begun"}
      /\ \A v \in ExtraWorker \ {w} : extraWorker'[v] = extraWorker[v]
  BY <1>1, <1>2, AttemptMoves, AttemptEnds
<1>4. /\ extra' \in [Extra -> ExtraRow]
      /\ extra'["comment"].started = extra["comment"].started
      /\ extra'["comment"].status = "running" => extra'["comment"] = extra["comment"]
  <2>1. CASE UNCHANGED extra
    BY <1>1, <2>1
  <2>2. ASSUME NEW status \in {"succeeded", "failed_retry", "failed"}, NEW unsure \in BOOLEAN,
               extra' = [extra EXCEPT ![k] = Released(k, status, unsure)]
        PROVE  <1>4!1 /\ <1>4!2 /\ <1>4!3
    <3> HIDE DEF k
    <3>1. /\ Released(k, status, unsure) \in ExtraRow
          /\ Released(k, status, unsure).started = extra[k].started
          /\ Released(k, status, unsure).status = status
      BY <1>1 DEF Released, ExtraRow
    <3> QED BY <1>1, <2>2, <3>1
  <2> QED BY <1>2, <2>1, <2>2
<1>5. ExtrasTypeOK'
  BY <1>2, <1>3, <1>4 DEF ExtrasInv, ExtrasTypeOK
<1> QED BY <1>2, <1>3, <1>4, <1>5, NothingPosted

(* A person's word takes the place of the mark.                            *)
LEMMA RetryKeeps ==
    ASSUME ExtrasInv, NEW k \in Extra, RetryExtra(k)
    PROVE  ExtrasInv'
<1> DEFINE ambiguous == k = "comment" /\ extra[k].started /\ extra[k].unsure
<1> DEFINE row == [Released(k, "pending", FALSE) EXCEPT !.started = @ /\ ~ambiguous]
<1>1. /\ extra \in [Extra -> ExtraRow] /\ comments \in Nat /\ confirmed \in 0..LastConfirmation
      /\ LastConfirmation \in Nat /\ "comment" \in Extra
      /\ extraOutbox \in [Extra -> {"absent", "pending", "enqueued", "failed", "completed"}]
  BY ExtrasAssumption DEF ExtrasInv, ExtrasTypeOK, Extra
<1>2. /\ extra' = [extra EXCEPT ![k] = row]
      /\ ambiguous => confirmed < LastConfirmation
      /\ confirmed' = IF ambiguous THEN confirmed + 1 ELSE confirmed
      /\ extraOutbox' = [extraOutbox EXCEPT ![k] = "pending"]
      /\ UNCHANGED <<queuedExtra, extraWorker, comments>>
  BY DEF RetryExtra
<1>3. row \in ExtraRow /\ row.started = (extra[k].started /\ ~ambiguous) /\ row.status = "pending"
  <2> DEFINE given == Released(k, "pending", FALSE)
  <2> DEFINE mark == given.started /\ ~ambiguous
  <2> HIDE DEF ambiguous
  <2>1. given \in ExtraRow /\ given.started = extra[k].started /\ given.status = "pending"
    <3>1. extra[k] \in ExtraRow
      BY <1>1
    <3> QED BY <3>1 DEF ExtraRow, Released
  <2>2. mark \in BOOLEAN
    OBVIOUS
  <2> HIDE DEF given
  <2>3. mark = (extra[k].started /\ ~ambiguous)
    BY <2>1
  <2>4. row = [given EXCEPT !.started = mark]
    BY DEF given
  <2> HIDE DEF mark, row
  <2>5. row \in ExtraRow /\ row.started = mark /\ row.status = given.status
    BY <2>1, <2>2, <2>4 DEF ExtraRow
  <2> QED BY <2>1, <2>3, <2>5
<1> HIDE DEF row
<1>4. confirmed' \in 0..LastConfirmation /\ confirmed' \in Nat /\ confirmed \in Nat
  BY <1>1, <1>2
<1>5. ExtrasTypeOK'
  BY <1>1, <1>2, <1>3, <1>4 DEF ExtrasInv, ExtrasTypeOK
<1>6. Posting' = Posting
  BY <1>2 DEF Posting
<1>7. Cardinality(Posting) \in Nat
  BY FS_CardinalityType DEF ExtrasInv, CommentsArePaid
<1>8. CommentsArePaid'
  <2>1. CASE ambiguous
    <3>1. k = "comment" /\ extra["comment"].started /\ ~extra'["comment"].started
      BY <1>1, <1>2, <1>3, <2>1
    <3> QED BY <1>1, <1>2, <1>4, <1>6, <1>7, <2>1, <3>1 DEF ExtrasInv, CommentsArePaid
  <2>2. CASE ~ambiguous
    <3>1. extra'["comment"].started = extra["comment"].started
      BY <1>1, <1>2, <1>3, <2>2 DEF ExtraRow
    <3> QED BY <1>2, <1>6, <2>2, <3>1 DEF ExtrasInv, CommentsArePaid
  <2> QED BY <2>1, <2>2
<1>9. HolderSawMark'
  <2>1. CASE k = "comment"
    BY <1>1, <1>2, <1>3, <2>1 DEF HolderSawMark, HoldsExtra
  <2>2. CASE k # "comment"
    <3>1. extra'["comment"] = extra["comment"]
      BY <1>1, <1>2, <2>2
    <3> QED BY <1>2, <3>1 DEF ExtrasInv, HolderSawMark, HoldsExtra
  <2> QED BY <2>1, <2>2
<1> QED BY <1>5, <1>8, <1>9 DEF ExtrasInv

THEOREM ExtrasInvariance == ExtrasSpec => []ExtrasInv
<1>1. ASSUME ExtrasInv, UNCHANGED extrasVars PROVE ExtrasInv'
  BY <1>1 DEF extrasVars, ExtrasInv, ExtrasTypeOK, CommentsArePaid, Posting, HolderSawMark, HoldsExtra
<1>2. ExtrasInv /\ [ExtrasNext]_extrasVars => ExtrasInv'
  BY <1>1, OrderKeeps, RowKeeps, ClaimKeeps, BeginKeeps, CallKeeps, ResultKeeps, RetryKeeps
     DEF ExtrasNext
<1> QED BY ExtrasStart, <1>2, PTL DEF ExtrasSpec

(* Rows, outbox and attempts keep their types.                             *)
THEOREM ExtrasTypes == ExtrasSpec => []ExtrasTypeOK
<1>1. ExtrasInv => ExtrasTypeOK
  BY DEF ExtrasInv
<1> QED BY <1>1, ExtrasInvariance, PTL

(* Each comment beyond the first needed a person's word that none is there. *)
THEOREM SecondCommentIsConfirmed == ExtrasSpec => []CommentNeedsConfirmation
<1>1. ExtrasInv => CommentNeedsConfirmation
  <2> SUFFICES ASSUME ExtrasInv PROVE comments <= 1 + confirmed
    BY DEF CommentNeedsConfirmation
  <2>1. comments \in Nat /\ confirmed \in Nat /\ Cardinality(Posting) \in Nat
    BY ExtrasAssumption, FS_CardinalityType DEF ExtrasInv, ExtrasTypeOK, CommentsArePaid
  <2> QED BY <2>1 DEF ExtrasInv, CommentsArePaid
<1> QED BY <1>1, ExtrasInvariance, PTL
=============================================================================
