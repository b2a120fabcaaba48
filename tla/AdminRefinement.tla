--------------------------- MODULE AdminRefinement ---------------------------
(* The writers of NodeCommit, one request at a time, implement AdminApi. *)
EXTENDS NodeCommit

\* What is committed is what is on disk.  What is current is the configuration in memory,
\* if no request is in hand and exactly its inbounds are served.
InUse == IF Quiescent /\ ServesExactly(config.inbounds) THEN <<config>> ELSE <<>>

Api == INSTANCE AdminApi WITH
         committed <- disk,
         current   <- InUse,
         op        <- [r \in Reqs |-> op[r]],
         answer    <- [r \in Reqs |-> answer[r]]

\* A change passes through validation, a preflight, two restarts, several locks and two
\* saves, any of which may fail or be the last thing the process does; seen from the file,
\* the listeners and the answers it is one step (web/mod.rs:678 "A failed listener or failed
\* atomic save restores the previous working configuration and listeners").
ImplementsApi == Api!Spec
=============================================================================
