------------------------------- MODULE MCSyncJobs -------------------------------
(* The TLC instance of SyncJobs: see SyncJobs.cfg. *)
EXTENDS SyncJobs

\* Two records on a page each, of which the first is matched by its name.
Two   == {1, 2}
First == {1}

\* Attempts that failed, of which two are enough for a retry and a dead letter.
Failures ==
    MapThenSumSet(LAMBDA j : jobs[j].attempts - (IF jobs[j].state = "succeeded" THEN 1 ELSE 0),
                  Existing)
FewFailures == Failures <= 2
=============================================================================
