----------------------------- MODULE JobService -----------------------------
(***************************************************************************)
(* What rerunnable threads and the worker pool promise the program that     *)
(* hands them work: a job is accepted only while the service is open, an    *)
(* accepted job is run once and by one thread, and a service that is        *)
(* reported drained has no job left.                                        *)
(***************************************************************************)
CONSTANT Jobs

VARIABLES
  job,       \* Jobs -> JobState
  service    \* "open", "closed" or "drained"

JobState == {"new", "accepted", "running", "done"}

Init ==
  /\ job = [j \in Jobs |-> "new"]
  /\ service = "open"

Step(j, from, to) ==
  /\ job[j] = from
  /\ job' = [job EXCEPT ![j] = to]
  /\ UNCHANGED service

Accept(j) == service = "open" /\ Step(j, "new", "accepted")
Begin(j) == Step(j, "accepted", "running")
Finish(j) == Step(j, "running", "done")

Close ==
  /\ service = "open"
  /\ service' = "closed"
  /\ UNCHANGED job

Drain ==
  /\ service = "closed"
  /\ \A j \in Jobs : job[j] \in {"new", "done"}
  /\ service' = "drained"
  /\ UNCHANGED job

Next ==
  \/ \E j \in Jobs : Accept(j) \/ Begin(j) \/ Finish(j)
  \/ Close
  \/ Drain

Spec == Init /\ [][Next]_<<job, service>>
=============================================================================
