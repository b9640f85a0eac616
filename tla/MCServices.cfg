SPECIFICATION ServicesSpec
CONSTANTS
    WebKey = {process1, process2}
    TaskKey = {task1}
    Attempt = {attempt1, attempt2}
    NoAttempt = noAttempt
    NoUsageKey = noUsageKey
    DailyLimit = 1
    MediaWorker = {process1, process2}
    NoOwner = noOwner
    Poller = {process1, process2}
    NoPoller = noPoller
    LastUpdateId = 2
    UpdateMaxAttempts = 2
    PlanItem = {0, 1}
    Approver = {process1, process2}
    NoApprover = noApprover
    Mailer = {process1, process2}
    NoMailer = noMailer
    LastRequest = 2
    Renderer = {process1, process2}
    Dispatcher = {process1, process2}
    Nobody = nobody
    ExtraWorker = {process1, process2}
    NoExtraWorker = noExtraWorker
    LastConfirmation = 1
    LastBuild = 2
    LastRecovery = 1
    Builder = {process1, process2}
    Editor = {process1, process2}
    LastVersion = 3
    LastFlow = 5
SYMMETRY ServicesSymmetry
CHECK_DEADLOCK FALSE
INVARIANTS
    LimitHolds ReplyIsCharged
    OutcomeIsCharged OneCreationAtATime
    NoUpdateLost CommandsInOrder RepetitionHasReason
     PlanMatchesCalendar
    CommentNeedsConfirmation
    OneResultPerBuild
    ReviewIsOfCurrentText PublishedAsSeen
PROPERTIES
    PaidResultIsKept LiveAttemptIsLeftAlone
    OlderWorkerIsHarmless
    LetterAndLinkAgree
    ExportOutcomeHolds
    LateBuildDeliversNothing
    
