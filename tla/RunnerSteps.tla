---------------------------- MODULE RunnerSteps ----------------------------
(***************************************************************************)
(* The Runner inside its unit: what it validates before it starts, the     *)
(* witnesses it keeps on the executable and on the host dependencies, the  *)
(* steps it runs one after the other under two deadlines, and the result   *)
(* it writes.  Host models the same process as the Engine sees it.         *)
(*                                                                         *)
(* Source: universal/runner.rs.  A step is named by its index; its         *)
(* executable is an object of its own.                                     *)
(***************************************************************************)
EXTENDS Integers, Sequences, FiniteSets

CONSTANTS
    LastStep,           \* number of steps of the request
    ContinueOnError,    \* steps with continueOnError
    RunnerFaults        \* \subseteq {"drift", "io", "stop"}

ASSUME RunnerAssumption == LastStep \in Nat

VARIABLES
    runner,         \* where the Runner is
    bytes,          \* per object, whether it is what the request commits to
    witness,        \* objects with an event in a watch the Runner holds
    process,        \* the step's process and what it left behind
    clock,          \* deadlines that have passed
    cancelFile,     \* cancel-requested.json exists
    outcomes,       \* step results so far
    resultFile,     \* result.json
    tainted         \* a step ran on bytes other than the committed ones

runnerVars == <<runner, bytes, witness, process, clock, cancelFile, outcomes,
                resultFile, tainted>>

StepIds == 1 .. LastStep
Source == <<"source", 0>>
Input == <<"input", 0>>
Dependency == <<"dependency", 0>>
Executable(i) == <<"executable", i>>
Objects == {Source, Input, Dependency} \cup {Executable(i) : i \in StepIds}

(* own: the exit of the process itself; group and escaped: descendants     *)
(* that hold its pipes, in its process group or out of it.                 *)
NoProcess == [own |-> "none", group |-> FALSE, escaped |-> FALSE]
PipesClosed == process.own # "alive" /\ ~process.group /\ ~process.escaped
Running == ~PipesClosed

(* The executable of the step at hand. *)
Its == Executable(runner.step)

Idle == [pc |-> "source", step |-> 1, watched |-> {}, proven |-> FALSE,
         timedOut |-> FALSE, drifted |-> FALSE, failed |-> FALSE,
         anyTimedOut |-> FALSE, cancelled |-> FALSE, verdict |-> "none"]

RunnerInit ==
    /\ runner = Idle
    /\ bytes \in [Objects -> BOOLEAN]
    /\ \A o \in Objects : ~bytes[o] => "drift" \in RunnerFaults
    /\ witness = {} /\ process = NoProcess /\ clock = {} /\ cancelFile = FALSE
    /\ outcomes = <<>> /\ resultFile = "none" /\ tainted = FALSE

At(pc) == runner.pc = pc
Goto(pc) == runner' = [runner EXCEPT !.pc = pc]

(* An error anywhere ends in failure_result.                               *)
FailureResult(r) == [r EXCEPT !.pc = "write", !.verdict = "infrastructure"]
Checks(ok, pc) ==
    runner' = IF ok THEN [runner EXCEPT !.pc = pc] ELSE FailureResult(runner)

HostStill == UNCHANGED <<bytes, process, clock, cancelFile, tainted>>
StillWriting == UNCHANGED <<outcomes, resultFile>>

-----------------------------------------------------------------------------
(* run_job_runner, before the first step.                                  *)

ValidateSource ==
    /\ At("source") /\ Checks(bytes[Source], "input")
    /\ UNCHANGED witness /\ HostStill /\ StillWriting

(* The tree under the presentation root is the committed one, file by file *)
(* and with nothing besides.                                               *)
ValidateInputTreeExact == bytes[Input]

ValidateInputs ==
    /\ At("input") /\ Checks(ValidateInputTreeExact, "watch")
    /\ UNCHANGED witness /\ HostStill /\ StillWriting

(* The watch comes before the digest it is to vouch for.                   *)
WatchDependencies ==
    /\ At("watch")
    /\ runner' = [runner EXCEPT !.pc = "digest", !.watched = @ \cup {Dependency}]
    /\ UNCHANGED witness /\ HostStill /\ StillWriting

ValidateDependencies ==
    /\ At("digest") /\ Checks(bytes[Dependency], "vouch")
    /\ UNCHANGED witness /\ HostStill /\ StillWriting

(* PathDriftWatch::check reads every event that is there.                  *)
Quiet(objects) == witness \cap objects = {}

VouchDependencies ==
    /\ At("vouch") /\ Checks(Quiet({Dependency}), "loop")
    /\ UNCHANGED witness /\ HostStill /\ StillWriting

-----------------------------------------------------------------------------
(* execute_request: the cancel file is looked at before and after a step,  *)
(* never during one.                                                       *)

NextStep ==
    /\ At("loop")
    /\ runner' = [runner EXCEPT
          !.cancelled = runner.step <= LastStep /\ cancelFile,
          !.pc = IF runner.step > LastStep \/ cancelFile THEN "conclude" ELSE "check"]
    /\ UNCHANGED witness /\ HostStill /\ StillWriting

(* execute_step: the dependencies once more, then a new watch on the       *)
(* executable, its digest, and a look at the watch before the comparison.  *)
CheckBeforeStep ==
    /\ At("check")
    /\ runner' = IF Quiet({Dependency})
                 THEN [runner EXCEPT !.pc = "hash", !.watched = @ \cup {Its}]
                 ELSE FailureResult(runner)
    /\ witness' = witness \ {Its}
    /\ HostStill /\ StillWriting

HashExecutable ==
    /\ At("hash")
    /\ runner' = [runner EXCEPT !.pc = "prove", !.proven = bytes[Its]]
    /\ UNCHANGED witness /\ HostStill /\ StillWriting

ProveExecutable ==
    /\ At("prove") /\ Checks(Quiet({Its}) /\ runner.proven, "spawn")
    /\ UNCHANGED witness /\ HostStill /\ StillWriting

AsCommitted == bytes[Its] /\ bytes[Dependency]

SpawnStep ==
    /\ At("spawn")
    /\ runner' = [runner EXCEPT !.pc = "poll", !.timedOut = FALSE, !.drifted = FALSE]
    /\ process' = [NoProcess EXCEPT !.own = "alive"]
    /\ clock' = clock \ {"step"}
    /\ tainted' = (tainted \/ ~AsCommitted)
    /\ UNCHANGED <<bytes, witness, cancelFile>> /\ StillWriting

(* Only the process itself is killed.                                      *)
TerminateLeader == [process EXCEPT !.own = IF @ = "alive" THEN "killed" ELSE @]

TerminateProcessGroup ==
    [process EXCEPT !.own = IF @ = "alive" THEN "killed" ELSE @, !.group = FALSE]

PollWitness ==
    /\ At("poll")
    /\ IF Quiet({Dependency, Its})
       THEN Goto("reap") /\ UNCHANGED process
       ELSE /\ runner' = [runner EXCEPT !.pc = "join", !.drifted = TRUE]
            /\ process' = TerminateProcessGroup
    /\ UNCHANGED <<bytes, witness, clock, cancelFile, tainted>> /\ StillWriting

PollProcess ==
    /\ At("reap")
    /\ IF process.own # "alive"
       THEN Goto("join") /\ UNCHANGED process
       ELSE IF clock # {}
       THEN /\ runner' = [runner EXCEPT !.pc = "join", !.timedOut = TRUE]
            /\ process' = TerminateProcessGroup
       ELSE Goto("poll") /\ UNCHANGED process
    /\ UNCHANGED <<bytes, witness, clock, cancelFile, tainted>> /\ StillWriting

(* The capture threads read until nobody holds the pipes any more: there   *)
(* is no deadline on that.                                                 *)
JoinCapture ==
    /\ At("join") /\ PipesClosed
    /\ Goto("settle")
    /\ UNCHANGED witness /\ HostStill /\ StillWriting

SettleStepUnwatched ==
    /\ At("settle")
    /\ Checks(~runner.drifted, "record")
    /\ UNCHANGED witness /\ HostStill /\ StillWriting

SettleStep ==
    /\ At("settle")
    /\ Checks(~runner.drifted /\ Quiet({Dependency, Its}), "record")
    /\ UNCHANGED witness /\ HostStill /\ StillWriting

StepStatus ==
    CASE cancelFile -> "cancelled"
      [] ~cancelFile /\ runner.timedOut -> "timed_out"
      [] OTHER -> IF process.own = "ok" THEN "succeeded" ELSE "failed"

RecordStep ==
    LET status == StepStatus
        continued == status = "failed" /\ runner.step \in ContinueOnError
        goesOn == status = "succeeded" \/ continued
        late == goesOn /\ "request" \in clock
    IN /\ At("record")
       /\ outcomes' = Append(outcomes, status)
       /\ runner' = [runner EXCEPT
             !.cancelled = status = "cancelled",
             !.anyTimedOut = @ \/ runner.timedOut \/ late,
             !.failed = @ \/ status # "succeeded" \/ late,
             !.pc = IF goesOn /\ ~late THEN "loop" ELSE "conclude",
             !.watched = @ \ {Its},
             !.step = @ + 1]
       /\ witness' = witness \ {Its}
       /\ HostStill /\ UNCHANGED resultFile

-----------------------------------------------------------------------------
(* The end of execute_request, and the result.                             *)

TerminalStatus ==
    IF runner.cancelled THEN "cancelled"
    ELSE IF runner.failed \/ runner.anyTimedOut THEN "failed" ELSE "completed"

Conclude ==
    /\ At("conclude")
    /\ runner' = IF Quiet({Dependency})
                 THEN [runner EXCEPT !.pc = "write", !.verdict = TerminalStatus]
                 ELSE FailureResult(runner)
    /\ UNCHANGED witness /\ HostStill /\ StillWriting

WriteResult ==
    /\ At("write") /\ Goto("gone")
    /\ \/ resultFile' = runner.verdict
       \/ "io" \in RunnerFaults /\ UNCHANGED resultFile
    /\ UNCHANGED <<witness, outcomes>> /\ HostStill

(* A file, a pipe or a system call of the statement at hand fails; the     *)
(* step's processes are left as they are.                                  *)
StatementFails ==
    /\ "io" \in RunnerFaults
    /\ runner.pc \notin {"poll", "settle", "write", "gone"}
    /\ runner' = FailureResult(runner)
    /\ UNCHANGED witness /\ HostStill /\ StillWriting

RunnerStep ==
    \/ ValidateSource \/ ValidateInputs \/ WatchDependencies
    \/ ValidateDependencies \/ VouchDependencies \/ NextStep
    \/ CheckBeforeStep \/ HashExecutable \/ ProveExecutable \/ SpawnStep
    \/ PollWitness \/ PollProcess \/ JoinCapture \/ SettleStep \/ RecordStep
    \/ Conclude \/ WriteResult

-----------------------------------------------------------------------------
(* Everybody else.                                                         *)

RunnerStill == UNCHANGED <<runner, outcomes, resultFile>>

(* A file changes, or changes back; a watch on it has an event.            *)
Drift(o) ==
    /\ "drift" \in RunnerFaults /\ ~At("gone")
    /\ bytes' = [bytes EXCEPT ![o] = ~@]
    /\ witness' = IF o \in runner.watched THEN witness \cup {o} ELSE witness
    /\ tainted' = (tainted \/ (Running /\ o \in {Dependency, Its}))
    /\ RunnerStill /\ UNCHANGED <<process, clock, cancelFile>>

ProcessExits ==
    /\ process.own = "alive"
    /\ \E how \in {"ok", "bad"} : process' = [process EXCEPT !.own = how]
    /\ RunnerStill /\ UNCHANGED <<bytes, witness, clock, cancelFile, tainted>>

Forks ==
    /\ process.own = "alive"
    /\ \/ process' = [process EXCEPT !.group = TRUE]
       \/ process' = [process EXCEPT !.escaped = TRUE]
    /\ RunnerStill /\ UNCHANGED <<bytes, witness, clock, cancelFile, tainted>>

DescendantsEnd ==
    /\ \/ process.group /\ process' = [process EXCEPT !.group = FALSE]
       \/ process.escaped /\ process' = [process EXCEPT !.escaped = FALSE]
    /\ RunnerStill /\ UNCHANGED <<bytes, witness, clock, cancelFile, tainted>>

DeadlinePasses ==
    /\ runner.pc \in {"poll", "reap", "join", "settle", "record"}
    /\ \E which \in {"step", "request"} \ clock : clock' = clock \cup {which}
    /\ RunnerStill /\ UNCHANGED <<bytes, witness, process, cancelFile, tainted>>

CancelRequested ==
    /\ ~cancelFile /\ ~At("gone") /\ cancelFile' = TRUE
    /\ RunnerStill /\ UNCHANGED <<bytes, witness, process, clock, tainted>>

(* systemd ends the unit: RuntimeMaxSec, or a stop.                        *)
UnitEnds ==
    /\ "stop" \in RunnerFaults /\ ~At("gone")
    /\ Goto("gone") /\ process' = NoProcess
    /\ StillWriting /\ UNCHANGED <<bytes, witness, clock, cancelFile, tainted>>

RunnerNext ==
    \/ RunnerStep \/ StatementFails
    \/ \E o \in Objects : Drift(o)
    \/ ProcessExits \/ Forks \/ DescendantsEnd \/ DeadlinePasses
    \/ CancelRequested \/ UnitEnds

RunnerSpec == RunnerInit /\ [][RunnerNext]_runnerVars

(* The Runner's thread runs and deadlines pass.  Nothing obliges a payload *)
(* or its descendants to end.                                              *)
RunnerFairness == WF_runnerVars(RunnerStep) /\ WF_runnerVars(DeadlinePasses)

RunnerFairSpec == RunnerSpec /\ RunnerFairness

-----------------------------------------------------------------------------
\* The Runner is at a known statement, and events come from watches it holds.
RunnerTypeOK ==
    /\ bytes \in [Objects -> BOOLEAN] /\ witness \subseteq runner.watched
    /\ runner.watched \subseteq Objects /\ runner.step \in 1 .. LastStep + 1
    /\ process \in [own : {"none", "alive", "ok", "bad", "killed"},
                    group : BOOLEAN, escaped : BOOLEAN]
    /\ clock \subseteq {"step", "request"}
    /\ Len(outcomes) <= LastStep /\ Len(outcomes) <= runner.step - 1
    /\ resultFile \in {"none", "completed", "failed", "cancelled", "infrastructure"}

\* "any later byte or topology change turns the Attempt into an explicit
\* physical-realization failure rather than a false success" (runner.rs,
\* prepare_executable_realization): when the result says completed, every
\* step exited with success, and all of them ran on exactly the committed
\* executable and host dependencies, although a file may have been changed
\* and changed back between any two looks at it.
CompletedIsRealized ==
    resultFile = "completed" =>
        ~tainted /\ outcomes = [i \in StepIds |-> "succeeded"]

\* The step's pipes are held by a process the Runner cannot or does not kill:
\* one that left the process group, or one left behind by an exit in time.
Held == At("join") /\ (process.escaped
                       \/ (process.group /\ ~runner.timedOut /\ ~runner.drifted))

\* A payload that never ends does not keep the Runner from its result: the
\* deadline kills the step's whole process group, so that the capture threads
\* come to an end and the Runner writes its result and goes.  The exception is
\* a descendant that holds the pipes after the process itself ended in time,
\* or that left the group (execute_step, terminate_process_group).
RunnerReports == At("poll") ~> At("gone") \/ Held
=============================================================================
