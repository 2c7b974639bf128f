------------------------------- MODULE MCJobs -------------------------------
(***************************************************************************)
(* Jobs.tla for TLC.                                                       *)
(***************************************************************************)
EXTENDS Jobs

(* Bound: one signal at a time is under way to the processes. *)
OneSignal ==
    \A p, q \in Process : \A s \in pend[p], t \in pend[q] : <<p, s>> = <<q, t>>

(* The jobs of tests/test.py sleep for two seconds, so none of them ends   *)
(* before the shell has put it on the list.                                *)
Asleep ==
    main.at = "add" => \A p \in Process : proc[p] \in Alive => proc'[p] \in Alive

SleepersSpec == Init /\ [][Next /\ Asleep]_vars

(* "wait for jobs to finish ... we should have no jobs" (test.py:133-139): *)
(* when every process has ended and the handlers have run, a command line  *)
(* that can only be jobs finds the list empty.                             *)
NoFinishedJobs ==
    At("prompt") /\ (\A p \in Process : proc[p] \notin Alive) => jobs = <<>>
=============================================================================
