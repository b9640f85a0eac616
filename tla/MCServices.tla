---------------------------- MODULE MCServices ----------------------------
(* The components beside publishing.  They share no state, so a behaviour *)
(* of this module is a behaviour of one of them: part says of which, and   *)
(* the variables of the others stand still.                               *)
EXTENDS AiUsage, MediaGeneration, PollingLease, AutopilotApproval, AccountLetters, ProjectExport,
        PublicationExtras, AutopilotBuild, EditorialApproval, TLC

VARIABLE part

ServicesInit ==
    /\ part \in {"usage", "media", "polling", "approval", "letters", "export", "extras", "build", "editorial"}
    /\ UsageInit /\ MediaInit /\ PollingInit /\ ApprovalInit /\ LettersInit /\ ExportInit /\ ExtrasInit
    /\ BuildInit /\ EditorialInit
    /\ part # "letters" => letterKind = "email_change"
    /\ part # "polling" => gate
    /\ part # "build" => enabled
    /\ part # "editorial" => \A p \in Editor : page[p] = NoPage
    /\ part # "usage" => \A k \in UsageKey : usage[k] = NoUsage

ServicesNext ==
    /\ UNCHANGED part
    /\ part # "usage"     => UNCHANGED usageVars
    /\ part # "media"     => UNCHANGED mediaVars
    /\ part # "polling"   => UNCHANGED pollingVars
    /\ part # "approval"  => UNCHANGED approvalVars
    /\ part # "letters"   => UNCHANGED lettersVars
    /\ part # "export"    => UNCHANGED exportVars
    /\ part # "extras"    => UNCHANGED extrasVars
    /\ part # "build"     => UNCHANGED buildVars
    /\ part # "editorial" => UNCHANGED editorialVars
    /\ CASE part = "usage"   -> UsageNext   [] part = "media"    -> MediaNext
         [] part = "polling" -> PollingNext [] part = "approval" -> ApprovalNext
         [] part = "letters" -> LettersNext [] part = "export"   -> ExportNext
         [] part = "extras"  -> ExtrasNext  [] part = "build"    -> BuildNext
         [] part = "editorial" -> EditorialNext

servicesVars == <<part, usageVars, mediaVars, pollingVars, approvalVars, lettersVars, exportVars, extrasVars,
                  buildVars, editorialVars>>

ServicesSpec == ServicesInit /\ [][ServicesNext]_servicesVars

(* The components share the names of their processes, so that one exchange *)
(* of two names serves them all.                                           *)
ServicesSymmetry == Permutations(Poller)
============================================================================
