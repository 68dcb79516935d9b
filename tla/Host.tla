-------------------------------- MODULE Host --------------------------------
(***************************************************************************)
(* What the Runtime does not own: the transient systemd unit of an         *)
(* Attempt, the Runner that is the unit's main process                     *)
(* (universal/runner.rs), the payload the Runner spawns, and the evidence  *)
(* files of the Attempt's bundle directory.  The Runtime only observes     *)
(* them, one query at a time, so every change here is a step of its own.   *)
(*                                                                         *)
(* systemd is external to the repository.  What is assumed of it: a unit   *)
(* is queued, then active; when its main process has gone it deactivates   *)
(* while other processes of the control group remain; a stop kills the     *)
(* whole control group within TimeoutStopSec; a unit that ended well is    *)
(* collected (CollectMode=inactive) and a failed one stays until it is     *)
(* reset; until something fails the Result property reads "success".       *)
(***************************************************************************)
EXTENDS Identities, Naturals

CONSTANTS
    Outcomes,  \* how the Runner's result may end a payload nobody cancelled
    Faults     \* which external failures happen in an instance

VARIABLES
    hosts,    \* unit and processes
    bundles,  \* evidence files
    aged      \* Attempts older than the startup grace

hostVars == <<hosts, bundles, aged>>

\* "stopping" and "failing" are both ActiveState=deactivating; they differ in
\* the Result property, which is "success" in the first.
UnitStates == {"absent", "queued", "active", "stopping", "failing", "failed"}
\* The Runner: before runner-start evidence, after it, past the check of the
\* cancel file, with a payload, with a published result.
Alive == {"fresh", "started", "cleared", "executing", "published"}
Results == {"completed", "failed", "timed_out", "cancelled", "invalid"}

HostRow == [unit: UnitStates, runner: Alive \cup {"absent", "dead"},
            payload: BOOLEAN, launches: Nat]
BundleRow(digests) ==
    [start: BOOLEAN, result: Results \cup {None}, output: BOOLEAN, cancel: BOOLEAN,
     control: digests, remedy: digests, clean: BOOLEAN]

\* The Runner reports a cancellation only when it finds the cancel file.
ASSUME OutcomeAssumption == Outcomes \subseteq Results \ {"cancelled"} /\ None \notin Results

HostInit ==
    /\ hosts = [j \in Jobs |-> [unit |-> "absent", runner |-> "absent",
                                payload |-> FALSE, launches |-> 0]]
    /\ bundles = [j \in Jobs |-> [start |-> FALSE, result |-> None, output |-> FALSE,
                                  cancel |-> FALSE, control |-> None, remedy |-> None,
                                  clean |-> FALSE]]
    /\ aged = {}

-----------------------------------------------------------------------------
(* What one query of systemd or of /proc answers.                          *)

UnitIsActive(j) == hosts[j].unit = "active"
UnitHasPendingJob(j) == hosts[j].unit = "queued"
UnitIsLoaded(j) == hosts[j].unit # "absent"
RunnerAlive(j) == hosts[j].runner \in Alive
\* cgroup_has_processes.
CgroupPopulated(j) == RunnerAlive(j) \/ hosts[j].payload

\* The properties bind_runner_start compares with the start evidence: a unit
\* without processes has no ControlGroup, and a dead main process leaves
\* MainPID unobservable, which callers treat as transient.
StartObservation(j) ==
    IF hosts[j].unit \in {"absent", "queued", "failed"} THEN "mismatch"
    ELSE IF RunnerAlive(j) THEN "match" ELSE "transient"

-----------------------------------------------------------------------------
(* systemd.                                                                *)

\* systemd-run --no-block: the start request is verified and enqueued.
EnqueueUnit(j) ==
    /\ ~UnitIsLoaded(j)
    /\ hosts' = [hosts EXCEPT ![j].unit = "queued", ![j].launches = @ + 1]
    /\ UNCHANGED <<bundles, aged>>

StartUnit(j) ==
    /\ hosts[j].unit = "queued"
    /\ hosts' = [hosts EXCEPT ![j].unit = "active", ![j].runner = "fresh"]
    /\ UNCHANGED <<bundles, aged>>

\* The state a unit reaches when systemd stops it (systemctl stop): a queued
\* start is dropped, a running unit deactivates.
Stopped(unit) ==
    CASE unit = "queued" -> "absent"
      [] unit = "active" -> "stopping"
      [] OTHER           -> unit

\* systemd learns that the main process is gone.  The Runner exits with 0
\* once its result is published.
UnitNoticesExit(j) ==
    /\ UnitIsActive(j) /\ hosts[j].runner = "dead"
    /\ LET clean == bundles[j].result # None
       IN  hosts' = [hosts EXCEPT ![j].unit =
                        IF hosts[j].payload
                          THEN IF clean THEN "stopping" ELSE "failing"
                          ELSE IF clean THEN "absent" ELSE "failed"]
    /\ UNCHANGED <<bundles, aged>>

\* RuntimeMaxSec: the ceiling above the request's own timeout.
UnitExpires(j) ==
    /\ "expire" \in Faults
    /\ UnitIsActive(j) /\ hosts[j].runner = "executing"
    /\ hosts' = [hosts EXCEPT ![j].unit = "failing"]
    /\ UNCHANGED <<bundles, aged>>

\* The end of deactivation: nothing of the control group survives.
UnitReaped(j) ==
    /\ hosts[j].unit \in {"stopping", "failing"}
    /\ hosts' = [hosts EXCEPT ![j].unit = IF @ = "stopping" THEN "absent" ELSE "failed",
                              ![j].runner = "dead", ![j].payload = FALSE]
    /\ UNCHANGED <<bundles, aged>>

-----------------------------------------------------------------------------
(* The Runner: run_job_runner and execute_request, for one step.  A unit   *)
(* that deactivates may still have a Runner that runs on until SIGKILL.    *)

\* write_runner_start.
RunnerStarts(j) ==
    /\ hosts[j].runner = "fresh"
    /\ hosts' = [hosts EXCEPT ![j].runner = "started"]
    /\ bundles' = [bundles EXCEPT ![j].start = TRUE]
    /\ UNCHANGED aged

\* Any error of the validations, before execution, or of the step itself
\* becomes a failure result, with or without start evidence and whatever the
\* cancel file says.
RunnerRejects(j) ==
    /\ "reject" \in Faults
    /\ RunnerAlive(j) /\ hosts[j].runner # "published"
    /\ \E residue \in BOOLEAN :
          /\ residue => "residue" \in Faults /\ hosts[j].payload
          /\ hosts' = [hosts EXCEPT ![j].runner = "published", ![j].payload = residue]
    /\ bundles' = [bundles EXCEPT ![j].result = "failed", ![j].output = TRUE]
    /\ UNCHANGED aged

\* The check of the cancel file at the head of the step loop.
RunnerChecksCancel(j) ==
    /\ hosts[j].runner = "started"
    /\ IF bundles[j].cancel
         THEN /\ hosts' = [hosts EXCEPT ![j].runner = "published"]
              /\ bundles' = [bundles EXCEPT ![j].result = "cancelled", ![j].output = TRUE]
         ELSE /\ hosts' = [hosts EXCEPT ![j].runner = "cleared"]
              /\ bundles' = [bundles EXCEPT ![j].output = TRUE]
    /\ UNCHANGED aged

RunnerSpawns(j) ==
    /\ hosts[j].runner = "cleared"
    /\ hosts' = [hosts EXCEPT ![j].runner = "executing", ![j].payload = TRUE]
    /\ UNCHANGED <<bundles, aged>>

\* The step is over and the result is published.  A cancel file found after
\* the step makes it a cancellation; descendants may outlive the step.
RunnerFinishes(j) ==
    /\ hosts[j].runner = "executing"
    /\ \E outcome \in Outcomes, residue \in BOOLEAN :
          /\ residue => "residue" \in Faults
          /\ hosts' = [hosts EXCEPT ![j].runner = "published", ![j].payload = residue]
          /\ bundles' = [bundles EXCEPT ![j].result =
                            IF bundles[j].cancel THEN "cancelled" ELSE outcome]
    /\ UNCHANGED aged

RunnerExits(j) ==
    /\ hosts[j].runner = "published"
    /\ hosts' = [hosts EXCEPT ![j].runner = "dead"]
    /\ UNCHANGED <<bundles, aged>>

\* The Runner dies without a result.
RunnerDies(j) ==
    /\ "runner_death" \in Faults
    /\ hosts[j].runner \in Alive \ {"published"}
    /\ hosts' = [hosts EXCEPT ![j].runner = "dead"]
    /\ UNCHANGED <<bundles, aged>>

-----------------------------------------------------------------------------
\* Time: the Attempt becomes older than the startup grace.
GrowsOld(j) ==
    /\ j \notin aged
    /\ aged' = aged \cup {j}
    /\ UNCHANGED <<hosts, bundles>>

HostStep(j) ==
    \/ StartUnit(j) \/ UnitNoticesExit(j) \/ UnitExpires(j) \/ UnitReaped(j)
    \/ RunnerStarts(j) \/ RunnerRejects(j) \/ RunnerChecksCancel(j)
    \/ RunnerSpawns(j) \/ RunnerFinishes(j) \/ RunnerExits(j) \/ RunnerDies(j)

\* A reboot of the host ends every unit and process; the files stay.
HostReboots ==
    /\ hosts' = [j \in Jobs |->
                    [hosts[j] EXCEPT !.unit = "absent", !.payload = FALSE,
                                     !.runner = IF @ = "absent" THEN @ ELSE "dead"]]
    /\ UNCHANGED <<bundles, aged>>
=============================================================================
