------------------------ MODULE MCPublicationQueue ------------------------
(* The delays of the worker, for TLC.                                     *)
EXTENDS PublicationQueue

\* RETRY_DELAYS_MS = 60000,300000,900000 with MAX_ATTEMPTS = 3
Delays == <<1, 5>>
=============================================================================
