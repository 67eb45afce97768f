--------------------------- MODULE SchedulerClock ---------------------------
(***************************************************************************)
(* scheduler_clock: turns the scheduler events of a rank into the times of *)
(* its worker_frame.  Durations are left out.  What is kept is what        *)
(* decides to which totals the time between two events is added, and which *)
(* assignments have a latency still open.  Every function of the class is  *)
(* an operator from the clock before the event to the clock after it.      *)
(***************************************************************************)
EXTENDS Integers

CONSTANT MaxWorkers      \* MAX_WORKERS: the size of m_assigned_at

ASSUME WorkersAssumption == MaxWorkers \in Nat

Clock == [in_run : BOOLEAN, phase : {"NONE", "WAITING", "RUNNING"}, assigned : SUBSET Nat,
          available : Nat, queue_empty : BOOLEAN, full : BOOLEAN]

new_clock == [in_run |-> FALSE, phase |-> "NONE", assigned |-> {}, available |-> 0,
              queue_empty |-> TRUE, full |-> FALSE]

\* accrue, and the open interval in fill: the totals that grow until the next event.
Accruing(c) ==
    IF ~c.in_run THEN {}
    ELSE {t \in {"running", "waiting", "available", "full"} :
            \/ t = "running" /\ c.phase = "RUNNING"
            \/ t = "waiting" /\ c.phase = "WAITING"
            \/ t = "available" /\ c.queue_empty /\ c.available > 0
            \/ t = "full" /\ c.full}

on_run_start(c) == [c EXCEPT !.in_run = TRUE]

on_run_end(c) == IF c.in_run THEN [c EXCEPT !.in_run = FALSE, !.phase = "NONE"] ELSE c

on_worker_waiting(c) == IF c.in_run THEN [c EXCEPT !.phase = "WAITING"] ELSE c

on_worker_running(c) == IF c.in_run THEN [c EXCEPT !.phase = "RUNNING"] ELSE c

on_assignment(c, r) == IF r < MaxWorkers THEN [c EXCEPT !.assigned = @ \cup {r}] ELSE c

on_assignment_accepted(c, r) == [c EXCEPT !.assigned = @ \ {r}]

on_coordinator_queue(c, n, empty) ==
    IF c.in_run THEN [c EXCEPT !.available = n, !.queue_empty = empty] ELSE c

on_coordinator_full(c) == IF c.in_run THEN [c EXCEPT !.full = TRUE] ELSE c

on_coordinator_free(c) == IF c.in_run THEN [c EXCEPT !.full = FALSE] ELSE c
=============================================================================
