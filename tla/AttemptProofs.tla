--------------------------- MODULE AttemptProofs ---------------------------
(***************************************************************************)
(* What one Attempt reports is so: the Runner of a Linux Job, for any      *)
(* number of steps, and the native Attempt on Windows, for every set of    *)
(* faults.                                                                 *)
(***************************************************************************)
EXTENDS RunnerSteps, NativeRegistry, TLAPS

-----------------------------------------------------------------------------
(* The Runner compares bytes at one moment and runs them at another.  What *)
(* carries the proof across is the watch it holds: as long as there is no  *)
(* event in it, the bytes are still the ones that were compared            *)
(* (BytesKnown), and once a step has run on other bytes there is an event  *)
(* that some later look is bound to find (TaintSeen).                      *)

USE RunnerAssumption

RunnerPcs ==
    {"source", "input", "watch", "digest", "vouch", "loop", "check", "hash", "prove",
     "spawn", "poll", "reap", "join", "settle", "record", "conclude", "write", "gone"}
Verdicts == {"none", "completed", "failed", "cancelled", "infrastructure"}
RunnerRow ==
    [pc : RunnerPcs, step : Nat, watched : SUBSET Objects, proven : BOOLEAN,
     timedOut : BOOLEAN, drifted : BOOLEAN, failed : BOOLEAN, anyTimedOut : BOOLEAN,
     cancelled : BOOLEAN, verdict : Verdicts]
ProcessRow ==
    [own : {"none", "alive", "ok", "bad", "killed"}, group : BOOLEAN, escaped : BOOLEAN]

\* From the digest of the dependencies to the last look at their watch.
Vouched == {"vouch", "loop", "check", "hash", "prove", "spawn", "poll", "reap", "join",
            "settle", "record", "conclude"}
\* With a watch on the executable of the step at hand, and with its bytes
\* proven; while its process may run.
Hashing == {"hash", "prove", "spawn", "poll", "reap", "join", "settle", "record"}
Proven == {"spawn", "poll", "reap", "join", "settle", "record"}
Executing == {"poll", "reap", "join"}

Typed ==
    /\ runner \in RunnerRow /\ process \in ProcessRow
    /\ bytes \in [Objects -> BOOLEAN] /\ witness \subseteq runner.watched
    /\ clock \subseteq {"step", "request"} /\ tainted \in BOOLEAN /\ cancelFile \in BOOLEAN
    /\ outcomes \in Seq({"succeeded", "failed", "timed_out", "cancelled"})
    /\ resultFile \in Verdicts

Counted ==
    /\ runner.step \in 1 .. LastStep + 1 /\ Len(outcomes) = runner.step - 1
    /\ runner.pc \in {"check"} \cup Hashing => runner.step <= LastStep
    /\ ~runner.failed => outcomes = [i \in 1 .. runner.step - 1 |-> "succeeded"]
    /\ runner.pc = "conclude" /\ ~runner.cancelled /\ ~runner.failed
          => runner.step = LastStep + 1

Watching ==
    /\ runner.pc \in {"digest"} \cup Vouched => Dependency \in runner.watched
    /\ runner.pc \in Hashing => Its \in runner.watched

BytesKnown ==
    /\ runner.pc \in Vouched => Dependency \in witness \/ bytes[Dependency]
    /\ runner.pc = "prove" /\ runner.proven => Its \in witness \/ bytes[Its]
    /\ runner.pc \in Proven => Its \in witness \/ bytes[Its]

\* The verdict of a Runner that wrote, or is about to write, "completed".
Claims == runner.pc = "write" /\ runner.verdict = "completed"

TaintSeen ==
    /\ runner.pc \notin Executing \cup {"write", "gone"} => PipesClosed
    /\ runner.pc \notin {"write", "gone"} /\ tainted =>
          \/ Dependency \in witness
          \/ runner.pc \in Executing \cup {"settle"} /\ Its \in witness
    /\ runner.pc \notin Vouched \cup {"write", "gone"} => ~tainted
    /\ Claims => /\ ~tainted /\ PipesClosed
                 /\ ~runner.failed /\ runner.step = LastStep + 1
    /\ runner.pc # "gone" => resultFile = "none"
    /\ resultFile = "completed" => /\ ~tainted /\ ~runner.failed
                                   /\ runner.step = LastStep + 1

RunnerInv == Typed /\ Counted /\ Watching /\ BytesKnown /\ TaintSeen

\* The executables are objects of their own.
LEMMA ObjectsDiffer ==
    /\ Dependency \in Objects
    /\ \A i \in 1 .. LastStep : Executable(i) \in Objects
    /\ \A i : Executable(i) # Dependency
BY DEF Dependency, Executable, Objects, StepIds

\* An error ends the execution with a verdict that claims nothing.
LEMMA FailureKeeps ==
    ASSUME RunnerInv, runner.pc \notin {"write", "gone"}, runner' = FailureResult(runner),
           witness' \subseteq witness, HostStill, StillWriting
    PROVE  RunnerInv'
<1>1. /\ runner' \in RunnerRow /\ runner'.pc = "write" /\ runner'.verdict = "infrastructure"
      /\ runner'.step = runner.step /\ runner'.watched = runner.watched
      /\ runner'.failed = runner.failed
  BY DEF FailureResult, RunnerInv, Typed, RunnerRow, RunnerPcs, Verdicts
<1>2. Typed'
  BY <1>1 DEF RunnerInv, Typed, HostStill, StillWriting
<1>3. Counted'
  BY <1>1 DEF RunnerInv, Counted, StillWriting, Hashing
<1>4. Watching' /\ BytesKnown'
  BY <1>1 DEF Watching, BytesKnown, Vouched, Hashing, Proven
<1>5. TaintSeen'
  BY <1>1 DEF RunnerInv, TaintSeen, Claims, StillWriting
<1> QED BY <1>2, <1>3, <1>4, <1>5 DEF RunnerInv

\* The Runner moves from one place to another and nothing else of it changes.
Proceeds(pc) ==
    /\ runner' \in RunnerRow /\ runner'.pc = pc
    /\ runner'.step = runner.step /\ runner'.watched = runner.watched
    /\ runner'.proven = runner.proven /\ runner'.failed = runner.failed
    /\ runner'.cancelled = runner.cancelled /\ runner'.drifted = runner.drifted

\* What Goto changes.
LEMMA GotoProceeds ==
    ASSUME runner \in RunnerRow, NEW pc \in RunnerPcs, Goto(pc)
    PROVE  Proceeds(pc)
BY DEF Goto, RunnerRow, Proceeds

\* A check goes on or fails.
LEMMA ChecksProceeds ==
    ASSUME runner \in RunnerRow, NEW ok \in BOOLEAN, NEW pc \in RunnerPcs, Checks(ok, pc)
    PROVE  (ok /\ Proceeds(pc)) \/ (~ok /\ runner' = FailureResult(runner))
BY DEF Checks, RunnerRow, Proceeds

\* The validations before the first step.
LEMMA ValidationKeeps ==
    ASSUME RunnerInv,
           \/ ValidateSource \/ ValidateInputs \/ WatchDependencies
           \/ ValidateDependencies \/ VouchDependencies
    PROVE  RunnerInv'
<1>0. /\ Typed /\ runner \in RunnerRow /\ bytes \in [Objects -> BOOLEAN]
      /\ Source \in Objects /\ Input \in Objects /\ Dependency \in Objects
  BY DEF RunnerInv, Typed, Objects
<1>1. HostStill /\ StillWriting /\ UNCHANGED witness
  BY DEF ValidateSource, ValidateInputs, WatchDependencies, ValidateDependencies,
         VouchDependencies
<1>2. runner.pc \in {"source", "input", "watch", "digest", "vouch"}
  BY DEF ValidateSource, ValidateInputs, WatchDependencies, ValidateDependencies,
         VouchDependencies, At
<1>3. CASE runner' = FailureResult(runner)
  BY <1>1, <1>2, <1>3, FailureKeeps
<1>4. CASE WatchDependencies
  <2>1. /\ runner' \in RunnerRow /\ runner'.pc = "digest" /\ runner'.step = runner.step
        /\ runner'.watched = runner.watched \cup {Dependency}
        /\ runner'.failed = runner.failed /\ runner.pc = "watch"
    BY <1>0, <1>4 DEF WatchDependencies, RunnerRow, RunnerPcs, At
  <2>2. Typed'
    BY <1>0, <1>1, <2>1 DEF Typed, HostStill, StillWriting
  <2>3. Counted'
    BY <1>1, <2>1 DEF RunnerInv, Counted, StillWriting, Hashing
  <2>4. Watching' /\ BytesKnown'
    BY <1>1, <2>1 DEF Watching, BytesKnown, Vouched, Hashing, Proven
  <2>5. TaintSeen'
    BY <1>1, <2>1 DEF RunnerInv, TaintSeen, Claims, HostStill, StillWriting, PipesClosed,
       Executing, Vouched
  <2> QED BY <2>2, <2>3, <2>4, <2>5 DEF RunnerInv
<1>5. ASSUME NEW pc \in {"input", "watch", "vouch", "loop"}, Proceeds(pc),
             pc \in {"vouch", "loop"} => /\ runner.pc \in {"digest", "vouch"}
                                         /\ Dependency \in witness \/ bytes[Dependency],
             pc \in {"input", "watch"} => runner.pc \in {"source", "input"}
      PROVE  RunnerInv'
  <2>2. Typed'
    BY <1>0, <1>1, <1>5 DEF Typed, HostStill, StillWriting, Proceeds
  <2>3. Counted'
    BY <1>1, <1>5 DEF RunnerInv, Counted, StillWriting, Hashing, Proceeds
  <2>4. Watching' /\ BytesKnown'
    BY <1>1, <1>5 DEF RunnerInv, Watching, BytesKnown, Vouched, Hashing, Proven, Proceeds,
       HostStill
  <2>5. TaintSeen'
    BY <1>1, <1>2, <1>5 DEF RunnerInv, TaintSeen, Claims, HostStill, StillWriting, PipesClosed,
       Executing, Vouched, Proceeds
  <2> QED BY <2>2, <2>3, <2>4, <2>5 DEF RunnerInv
<1>6. CASE ValidateSource
  <2>1. bytes[Source] \in BOOLEAN /\ "input" \in RunnerPcs
    BY <1>0 DEF RunnerPcs
  <2>2. runner' = FailureResult(runner) \/ Proceeds("input")
    BY <1>0, <1>6, <2>1, ChecksProceeds DEF ValidateSource
  <2> QED BY <1>3, <1>5, <1>6, <2>2 DEF ValidateSource, At
<1>7. CASE ValidateInputs
  <2>1. bytes[Input] \in BOOLEAN /\ "watch" \in RunnerPcs
    BY <1>0 DEF RunnerPcs
  <2>2. runner' = FailureResult(runner) \/ Proceeds("watch")
    BY <1>0, <1>7, <2>1, ChecksProceeds DEF ValidateInputs, ValidateInputTreeExact
  <2> QED BY <1>3, <1>5, <1>7, <2>2 DEF ValidateInputs, At
<1>8. CASE ValidateDependencies
  <2>1. bytes[Dependency] \in BOOLEAN /\ "vouch" \in RunnerPcs
    BY <1>0 DEF RunnerPcs
  <2>2. runner' = FailureResult(runner) \/ (bytes[Dependency] /\ Proceeds("vouch"))
    BY <1>0, <1>8, <2>1, ChecksProceeds DEF ValidateDependencies
  <2> QED BY <1>3, <1>5, <1>8, <2>2 DEF ValidateDependencies, At
<1>9. CASE VouchDependencies
  <2>1. Quiet({Dependency}) \in BOOLEAN /\ "loop" \in RunnerPcs
    BY DEF RunnerPcs, Quiet
  <2>2. runner' = FailureResult(runner) \/ (Quiet({Dependency}) /\ Proceeds("loop"))
    BY <1>0, <1>9, <2>1, ChecksProceeds DEF VouchDependencies
  <2>3. Dependency \in witness \/ bytes[Dependency]
    BY <1>9 DEF VouchDependencies, At, RunnerInv, BytesKnown, Vouched
  <2> QED BY <1>3, <1>5, <1>9, <2>2, <2>3 DEF VouchDependencies, At
<1> QED BY <1>4, <1>6, <1>7, <1>8, <1>9

\* From the head of the loop to a proven executable.
LEMMA PreparationKeeps ==
    ASSUME RunnerInv, NextStep \/ CheckBeforeStep \/ HashExecutable \/ ProveExecutable
    PROVE  RunnerInv'
<1>0. /\ Typed /\ runner \in RunnerRow /\ bytes \in [Objects -> BOOLEAN]
      /\ cancelFile \in BOOLEAN
  BY DEF RunnerInv, Typed
<1>1. HostStill /\ StillWriting
  BY DEF NextStep, CheckBeforeStep, HashExecutable, ProveExecutable
<1>2. CASE NextStep
  <2>1. /\ runner' \in RunnerRow /\ runner'.pc \in {"conclude", "check"}
        /\ runner'.step = runner.step /\ runner'.watched = runner.watched
        /\ runner'.failed = runner.failed /\ runner.pc = "loop" /\ UNCHANGED witness
        /\ runner'.pc = "check" => ~(runner.step > LastStep)
        /\ runner'.pc = "conclude" /\ ~runner'.cancelled => runner.step > LastStep
    <3>1. PICK flag \in BOOLEAN, pc \in {"conclude", "check"} :
             /\ runner' = [runner EXCEPT !.cancelled = flag, !.pc = pc]
             /\ pc = "check" => ~(runner.step > LastStep)
             /\ pc = "conclude" /\ ~flag => runner.step > LastStep
      <4>1. runner.step \in Nat
        BY <1>0 DEF RunnerRow
      <4>2. PICK flag \in BOOLEAN : flag = (runner.step <= LastStep /\ cancelFile)
        OBVIOUS
      <4>3. CASE runner.step > LastStep \/ cancelFile
        <5>1. runner' = [runner EXCEPT !.cancelled = flag, !.pc = "conclude"]
          BY <1>2, <4>2, <4>3 DEF NextStep
        <5>2. ~flag => runner.step > LastStep
          <6>1. runner.step > LastStep \/ runner.step <= LastStep
            BY <4>1
          <6> QED BY <4>2, <4>3, <6>1, Zenon
        <5> QED BY <5>1, <5>2
      <4>4. CASE ~(runner.step > LastStep \/ cancelFile)
        <5>1. runner' = [runner EXCEPT !.cancelled = flag, !.pc = "check"]
          BY <1>2, <4>2, <4>4 DEF NextStep
        <5> QED BY <4>4, <5>1
      <4> QED BY <4>3, <4>4
    <3>2. runner.pc = "loop" /\ UNCHANGED witness /\ pc \in RunnerPcs
      BY <1>2, <3>1 DEF NextStep, At, RunnerPcs
    <3>3. /\ runner' \in RunnerRow /\ runner'.pc = pc /\ runner'.cancelled = flag
          /\ runner'.step = runner.step /\ runner'.watched = runner.watched
          /\ runner'.failed = runner.failed
      BY <1>0, <3>1, <3>2 DEF RunnerRow
    <3> QED BY <3>1, <3>2, <3>3
  <2>2. Typed'
    BY <1>0, <1>1, <2>1 DEF Typed, HostStill, StillWriting
  <2>3. Counted'
    BY <1>1, <2>1 DEF RunnerInv, Counted, StillWriting, Hashing
  <2>4. Watching' /\ BytesKnown'
    BY <1>1, <2>1 DEF RunnerInv, Watching, BytesKnown, Vouched, Hashing, Proven, HostStill
  <2>5. TaintSeen'
    BY <1>1, <2>1 DEF RunnerInv, TaintSeen, Claims, HostStill, StillWriting, PipesClosed,
       Executing, Vouched
  <2> QED BY <2>2, <2>3, <2>4, <2>5 DEF RunnerInv
<1>3. CASE CheckBeforeStep
  <2>0. /\ runner.pc = "check" /\ witness' = witness \ {Its} /\ runner.step \in 1 .. LastStep
        /\ Its \in Objects /\ Its # Dependency
    BY <1>3, ObjectsDiffer DEF CheckBeforeStep, At, RunnerInv, Counted, Its
  <2>1. CASE runner' = FailureResult(runner)
    BY <1>1, <2>0, <2>1, FailureKeeps
  <2>2. CASE runner' = [runner EXCEPT !.pc = "hash", !.watched = @ \cup {Its}]
    <3>1. /\ runner' \in RunnerRow /\ runner'.pc = "hash" /\ runner'.step = runner.step
          /\ runner'.watched = runner.watched \cup {Its} /\ runner'.failed = runner.failed
      BY <1>0, <2>0, <2>2 DEF RunnerRow, RunnerPcs
    <3>2. Its' = Its
      BY <3>1 DEF Its
    <3>3. Typed'
      BY <1>0, <1>1, <2>0, <3>1 DEF Typed, HostStill, StillWriting
    <3>4. Counted'
      BY <1>1, <2>0, <3>1 DEF RunnerInv, Counted, StillWriting, Hashing
    <3>5. Watching' /\ BytesKnown'
      BY <1>1, <2>0, <3>1, <3>2
      DEF RunnerInv, Watching, BytesKnown, Vouched, Hashing, Proven, HostStill
    <3>6. TaintSeen'
      BY <1>1, <2>0, <3>1 DEF RunnerInv, TaintSeen, Claims, HostStill, StillWriting,
         PipesClosed, Executing, Vouched
    <3> QED BY <3>3, <3>4, <3>5, <3>6 DEF RunnerInv
  <2> QED BY <1>3, <2>1, <2>2 DEF CheckBeforeStep
<1>4. CASE HashExecutable
  <2>0. /\ runner.step \in 1 .. LastStep /\ Its \in Objects
    BY <1>4, ObjectsDiffer DEF HashExecutable, At, RunnerInv, Counted, Its, Hashing
  <2>1. /\ runner' \in RunnerRow /\ runner'.pc = "prove" /\ runner'.step = runner.step
        /\ runner'.watched = runner.watched /\ runner'.failed = runner.failed
        /\ runner'.proven = bytes[Its] /\ runner.pc = "hash" /\ UNCHANGED witness
    BY <1>0, <1>4, <2>0 DEF HashExecutable, At, RunnerRow, RunnerPcs
  <2>2. Its' = Its
    BY <2>1 DEF Its
  <2>3. Typed'
    BY <1>0, <1>1, <2>1 DEF Typed, HostStill, StillWriting
  <2>4. Counted'
    BY <1>1, <2>1 DEF RunnerInv, Counted, StillWriting, Hashing
  <2>5. Watching' /\ BytesKnown'
    BY <1>1, <2>1, <2>2
    DEF RunnerInv, Watching, BytesKnown, Vouched, Hashing, Proven, HostStill
  <2>6. TaintSeen'
    BY <1>1, <2>1 DEF RunnerInv, TaintSeen, Claims, HostStill, StillWriting, PipesClosed,
       Executing, Vouched
  <2> QED BY <2>3, <2>4, <2>5, <2>6 DEF RunnerInv
<1>5. CASE ProveExecutable
  <2>0. runner.pc = "prove" /\ UNCHANGED witness
    BY <1>5 DEF ProveExecutable, At
  <2>1. PICK ok \in BOOLEAN : ok <=> (Quiet({Its}) /\ runner.proven)
    OBVIOUS
  <2>2. \/ runner' = FailureResult(runner)
        \/ runner.proven /\ Proceeds("spawn")
    <3>1. runner.proven \in BOOLEAN /\ (Quiet({Its}) /\ runner.proven) \in BOOLEAN
          /\ "spawn" \in RunnerPcs
      BY <1>0 DEF RunnerRow, RunnerPcs
    <3> QED BY <1>0, <1>5, <3>1, ChecksProceeds DEF ProveExecutable
  <2>3. CASE runner' = FailureResult(runner)
    BY <1>1, <2>0, <2>3, FailureKeeps
  <2>4. CASE runner.proven /\ Proceeds("spawn")
    <3>2. Its' = Its
      BY <2>4 DEF Its, Proceeds
    <3>3. Typed'
      BY <1>0, <1>1, <2>0, <2>4 DEF Typed, HostStill, StillWriting, Proceeds
    <3>4. Counted'
      BY <1>1, <2>0, <2>4 DEF RunnerInv, Counted, StillWriting, Hashing, Proceeds
    <3>5. Watching' /\ BytesKnown'
      BY <1>1, <2>0, <2>4, <3>2
      DEF RunnerInv, Watching, BytesKnown, Vouched, Hashing, Proven, HostStill, Proceeds
    <3>6. TaintSeen'
      BY <1>1, <2>0, <2>4 DEF RunnerInv, TaintSeen, Claims, HostStill, StillWriting,
         PipesClosed, Executing, Vouched, Proceeds
    <3> QED BY <3>3, <3>4, <3>5, <3>6 DEF RunnerInv
  <2> QED BY <2>2, <2>3, <2>4
<1> QED BY <1>2, <1>3, <1>4, <1>5

\* The step's process is spawned, watched, reaped, and its pipes drained.
LEMMA ExecutionKeeps ==
    ASSUME RunnerInv, SpawnStep \/ PollWitness \/ PollProcess \/ JoinCapture \/ SettleStep
    PROVE  RunnerInv'
<1>0. /\ Typed /\ runner \in RunnerRow /\ bytes \in [Objects -> BOOLEAN]
      /\ process \in ProcessRow /\ tainted \in BOOLEAN /\ clock \subseteq {"step", "request"}
  BY DEF RunnerInv, Typed
<1>1. StillWriting /\ UNCHANGED <<bytes, witness, cancelFile>>
  BY DEF SpawnStep, PollWitness, PollProcess, JoinCapture, SettleStep, HostStill
<1>2. CASE SpawnStep
  <2>1. /\ runner' \in RunnerRow /\ runner'.pc = "poll" /\ runner'.step = runner.step
        /\ runner'.watched = runner.watched /\ runner'.failed = runner.failed
        /\ runner.pc = "spawn"
    BY <1>0, <1>2 DEF SpawnStep, At, RunnerRow, RunnerPcs
  <2>2. process' \in ProcessRow /\ clock' \subseteq {"step", "request"}
        /\ tainted' = (tainted \/ ~AsCommitted)
    BY <1>0, <1>2 DEF SpawnStep, ProcessRow, NoProcess
  <2>3. Its' = Its
    BY <2>1 DEF Its
  <2>4. Typed'
    BY <1>0, <1>1, <2>1, <2>2 DEF Typed, StillWriting
  <2>5. Counted'
    BY <1>1, <2>1 DEF RunnerInv, Counted, StillWriting, Hashing
  <2>6. Watching' /\ BytesKnown'
    BY <1>1, <2>1, <2>3 DEF RunnerInv, Watching, BytesKnown, Vouched, Hashing, Proven
  <2>7. tainted' => Dependency \in witness \/ Its \in witness
    BY <2>1, <2>2 DEF RunnerInv, TaintSeen, BytesKnown, AsCommitted, Executing, Vouched, Proven
  <2>8. TaintSeen'
    BY <1>1, <2>1, <2>3, <2>7 DEF RunnerInv, TaintSeen, Claims, StillWriting,
       Executing, Vouched
  <2> QED BY <2>4, <2>5, <2>6, <2>8 DEF RunnerInv
<1>3. ASSUME UNCHANGED tainted, process' \in ProcessRow, UNCHANGED clock,
             NEW pc \in {"poll", "reap", "join", "settle"},
             runner' \in RunnerRow, runner'.pc = pc, runner'.step = runner.step,
             runner'.watched = runner.watched, runner'.failed = runner.failed,
             runner.pc \in {"poll", "reap", "join"},
             pc = "settle" => UNCHANGED process /\ PipesClosed
      PROVE  RunnerInv'
  <2>3. Its' = Its
    BY <1>3 DEF Its
  <2>4. Typed'
    BY <1>0, <1>1, <1>3 DEF Typed, StillWriting
  <2>5. Counted'
    BY <1>1, <1>3 DEF RunnerInv, Counted, StillWriting, Hashing
  <2>6. Watching' /\ BytesKnown'
    BY <1>1, <1>3, <2>3 DEF RunnerInv, Watching, BytesKnown, Vouched, Hashing, Proven
  <2>8. TaintSeen'
    BY <1>1, <1>3, <2>3 DEF RunnerInv, TaintSeen, Claims, StillWriting,
       Executing, Vouched, PipesClosed
  <2> QED BY <2>4, <2>5, <2>6, <2>8 DEF RunnerInv
<1>4. TerminateProcessGroup \in ProcessRow
  BY <1>0 DEF TerminateProcessGroup, ProcessRow
<1>5. CASE PollWitness
  <2>1. /\ runner' \in RunnerRow /\ runner'.pc \in {"reap", "join"}
        /\ runner'.step = runner.step /\ runner'.watched = runner.watched
        /\ runner'.failed = runner.failed /\ runner.pc = "poll"
    <3>1. CASE Goto("reap")
      BY <1>0, <1>5, <3>1, GotoProceeds DEF PollWitness, At, RunnerPcs, Proceeds
    <3>2. CASE ~Goto("reap")
      <4>1. PICK b \in BOOLEAN : runner' = [runner EXCEPT !.pc = "join", !.drifted = b]
        BY <1>5, <3>2 DEF PollWitness
      <4> QED BY <1>0, <1>5, <4>1 DEF RunnerRow, RunnerPcs, PollWitness, At
    <3> QED BY <3>1, <3>2
  <2> QED BY <1>0, <1>3, <1>4, <1>5, <2>1 DEF PollWitness
<1>6. CASE PollProcess
  <2>1. /\ runner' \in RunnerRow /\ runner'.pc \in {"poll", "join"}
        /\ runner'.step = runner.step /\ runner'.watched = runner.watched
        /\ runner'.failed = runner.failed /\ runner.pc = "reap"
    <3>1. CASE Goto("poll") \/ Goto("join")
      BY <1>0, <1>6, <3>1, GotoProceeds DEF PollProcess, At, RunnerPcs, Proceeds
    <3>2. CASE ~(Goto("poll") \/ Goto("join"))
      <4>1. PICK b \in BOOLEAN : runner' = [runner EXCEPT !.pc = "join", !.timedOut = b]
        BY <1>6, <3>2 DEF PollProcess
      <4> QED BY <1>0, <1>6, <4>1 DEF RunnerRow, RunnerPcs, PollProcess, At
    <3> QED BY <3>1, <3>2
  <2> QED BY <1>0, <1>3, <1>4, <1>6, <2>1 DEF PollProcess
<1>7. CASE JoinCapture
  <2>1. Proceeds("settle") /\ runner.pc = "join"
    BY <1>0, <1>7, GotoProceeds DEF JoinCapture, At, RunnerPcs
  <2> QED BY <1>0, <1>3, <1>7, <2>1 DEF JoinCapture, HostStill, Proceeds
<1>8. CASE SettleStep
  <2>0. runner.pc = "settle" /\ HostStill
    BY <1>8 DEF SettleStep, At
  <2>1. \/ runner' = FailureResult(runner)
        \/ Quiet({Dependency, Its}) /\ Proceeds("record")
    <3>1. (~runner.drifted /\ Quiet({Dependency, Its})) \in BOOLEAN /\ "record" \in RunnerPcs
      BY DEF RunnerPcs
    <3> QED BY <1>0, <1>8, <3>1, ChecksProceeds DEF SettleStep
  <2>2. CASE runner' = FailureResult(runner)
    BY <1>1, <2>0, <2>2, FailureKeeps
  <2>3. CASE Quiet({Dependency, Its}) /\ Proceeds("record")
    <3>1. Its' = Its /\ Dependency \notin witness /\ Its \notin witness
      BY <2>3 DEF Its, Proceeds, Quiet
    <3>2. Typed'
      BY <1>0, <1>1, <2>0, <2>3 DEF Typed, StillWriting, HostStill, Proceeds
    <3>3. Counted'
      BY <1>1, <2>0, <2>3 DEF RunnerInv, Counted, StillWriting, Hashing, Proceeds
    <3>4. Watching' /\ BytesKnown'
      BY <1>1, <2>0, <2>3, <3>1
      DEF RunnerInv, Watching, BytesKnown, Vouched, Hashing, Proven, Proceeds
    <3>5. ~tainted
      BY <2>0, <3>1 DEF RunnerInv, TaintSeen
    <3>6. TaintSeen'
      BY <1>1, <2>0, <2>3, <3>5 DEF RunnerInv, TaintSeen, Claims, StillWriting, HostStill,
         Executing, Vouched, PipesClosed, Proceeds
    <3> QED BY <3>2, <3>3, <3>4, <3>6 DEF RunnerInv
  <2> QED BY <2>1, <2>2, <2>3
<1> QED BY <1>2, <1>5, <1>6, <1>7, <1>8

\* The outcome of a step is recorded, and the next one is another object.
LEMMA RecordKeeps ==
    ASSUME RunnerInv, RecordStep
    PROVE  RunnerInv'
<1> DEFINE statuses == {"succeeded", "failed", "timed_out", "cancelled"}
<1>0. /\ Typed /\ runner \in RunnerRow /\ outcomes \in Seq(statuses)
      /\ runner.pc = "record" /\ runner.step \in 1 .. LastStep /\ Len(outcomes) = runner.step - 1
  BY DEF RunnerInv, Typed, Counted, Hashing, RecordStep, At
<1>1. PICK status \in statuses : status = StepStatus
  BY DEF StepStatus
<1>2. PICK late \in BOOLEAN, goesOn \in BOOLEAN :
         /\ goesOn = (status = "succeeded" \/ (status = "failed" /\ runner.step \in ContinueOnError))
         /\ late = (goesOn /\ "request" \in clock)
  OBVIOUS
<1>3. PICK cancelled \in BOOLEAN, anyTimedOut \in BOOLEAN, failed \in BOOLEAN :
         /\ cancelled = (status = "cancelled")
         /\ anyTimedOut = (runner.anyTimedOut \/ runner.timedOut \/ late)
         /\ failed = (runner.failed \/ status # "succeeded" \/ late)
  OBVIOUS
<1>4. PICK pc \in {"loop", "conclude"} : pc = IF goesOn /\ ~late THEN "loop" ELSE "conclude"
  OBVIOUS
<1>5. /\ outcomes' = Append(outcomes, status)
      /\ runner' = [runner EXCEPT !.cancelled = cancelled, !.anyTimedOut = anyTimedOut,
                                  !.failed = failed, !.pc = pc,
                                  !.watched = runner.watched \ {Its}, !.step = runner.step + 1]
      /\ witness' = witness \ {Its} /\ HostStill /\ UNCHANGED resultFile
  BY <1>1, <1>2, <1>3, <1>4 DEF RecordStep
<1>6. /\ runner' \in RunnerRow /\ runner'.pc = pc /\ runner'.step = runner.step + 1
      /\ runner'.watched = runner.watched \ {Its} /\ runner'.failed = failed
      /\ runner'.cancelled = cancelled
  <2>1. PICK watched \in SUBSET Objects, step \in Nat :
           watched = runner.watched \ {Its} /\ step = runner.step + 1
    <3>1. runner.watched \ {Its} \in SUBSET Objects /\ runner.step + 1 \in Nat
      BY <1>0 DEF RunnerRow
    <3> QED BY <3>1
  <2>2. pc \in RunnerPcs
    BY <1>4 DEF RunnerPcs
  <2>3. runner' = [runner EXCEPT !.cancelled = cancelled, !.anyTimedOut = anyTimedOut,
                                 !.failed = failed, !.pc = pc, !.watched = watched, !.step = step]
    BY <1>5, <2>1
  <2>4. /\ runner'.pc = pc /\ runner'.step = step /\ runner'.watched = watched
        /\ runner'.failed = failed /\ runner'.cancelled = cancelled
    BY <1>0, <2>3 DEF RunnerRow
  <2>5. runner' \in RunnerRow
    BY <1>0, <2>2, <2>3 DEF RunnerRow
  <2> QED BY <2>1, <2>4, <2>5
<1>7. Its # Dependency
  BY ObjectsDiffer DEF Its
<1>8. outcomes' \in Seq(statuses) /\ Len(outcomes') = runner.step
  BY <1>0, <1>1, <1>5
<1>9. Typed'
  BY <1>0, <1>5, <1>6, <1>8 DEF Typed, HostStill
<1>10. Counted'
  <2>1. runner'.step \in 1 .. LastStep + 1 /\ Len(outcomes') = runner'.step - 1
    BY <1>0, <1>6, <1>8
  <2>2. runner'.pc \notin {"check"} \cup Hashing
    BY <1>6 DEF Hashing
  <2>3. ASSUME ~failed PROVE outcomes' = [i \in 1 .. runner'.step - 1 |-> "succeeded"]
    <3>1. ~runner.failed /\ status = "succeeded"
      BY <1>3, <2>3, Zenon
    <3>2. outcomes = [i \in 1 .. runner.step - 1 |-> "succeeded"]
      BY <3>1 DEF RunnerInv, Counted
    <3> QED BY <1>0, <1>5, <1>6, <1>8, <3>1, <3>2
  <2>4. pc = "conclude" => failed
    <3>1. CASE ~goesOn
      <4>1. status # "succeeded"
        BY <1>2, <3>1, Zenon
      <4> QED BY <1>3, <4>1, Zenon
    <3>2. CASE late
      BY <1>3, <3>2, Zenon
    <3>3. CASE goesOn /\ ~late
      BY <1>4, <3>3
    <3> QED BY <3>1, <3>2, <3>3
  <2> QED BY <1>6, <2>1, <2>2, <2>3, <2>4 DEF Counted
<1>11. Watching' /\ BytesKnown'
  BY <1>0, <1>5, <1>6, <1>7
  DEF RunnerInv, Watching, BytesKnown, Vouched, Hashing, Proven, HostStill
<1>12. TaintSeen'
  BY <1>0, <1>5, <1>6, <1>7 DEF RunnerInv, TaintSeen, Claims, HostStill, PipesClosed,
     Executing, Vouched
<1> QED BY <1>9, <1>10, <1>11, <1>12 DEF RunnerInv

\* The verdict and its file.
LEMMA ConclusionKeeps ==
    ASSUME RunnerInv, Conclude \/ WriteResult \/ StatementFails
    PROVE  RunnerInv'
<1>0. Typed /\ runner \in RunnerRow
  BY DEF RunnerInv, Typed
<1>1. CASE StatementFails
  BY <1>1, FailureKeeps DEF StatementFails
<1>2. CASE Conclude
  <2>0. /\ runner.pc = "conclude" /\ UNCHANGED witness /\ HostStill /\ StillWriting
    BY <1>2 DEF Conclude, At
  <2>1. CASE runner' = FailureResult(runner)
    BY <2>0, <2>1, FailureKeeps
  <2>2. CASE runner' # FailureResult(runner)
    <3>1. PICK verdict \in Verdicts : verdict = TerminalStatus
      BY DEF TerminalStatus, Verdicts
    <3>2. Quiet({Dependency}) /\ runner' = [runner EXCEPT !.pc = "write", !.verdict = verdict]
      BY <1>2, <2>2, <3>1 DEF Conclude
    <3>3. /\ runner' \in RunnerRow /\ runner'.pc = "write" /\ runner'.step = runner.step
          /\ runner'.watched = runner.watched /\ runner'.failed = runner.failed
          /\ runner'.verdict = verdict
      BY <1>0, <3>2 DEF RunnerRow, RunnerPcs
    <3>4. Typed'
      BY <1>0, <2>0, <3>3 DEF Typed, StillWriting, HostStill
    <3>5. Counted'
      BY <2>0, <3>3 DEF RunnerInv, Counted, StillWriting, Hashing
    <3>6. Watching' /\ BytesKnown'
      BY <3>3 DEF Watching, BytesKnown, Vouched, Hashing, Proven
    <3>7. ~tainted /\ PipesClosed
      BY <2>0, <3>2 DEF RunnerInv, TaintSeen, Quiet, Executing
    <3>8. verdict = "completed" => ~runner.failed /\ runner.step = LastStep + 1
      <4>1. verdict = "completed" => ~runner.failed /\ ~runner.cancelled
        BY <3>1 DEF TerminalStatus
      <4> QED BY <2>0, <4>1 DEF RunnerInv, Counted
    <3>9. TaintSeen'
      BY <2>0, <3>3, <3>7, <3>8 DEF RunnerInv, TaintSeen, Claims, StillWriting, HostStill,
         Executing, Vouched, PipesClosed
    <3> QED BY <3>4, <3>5, <3>6, <3>9 DEF RunnerInv
  <2> QED BY <2>1, <2>2
<1>3. CASE WriteResult
  <2>1. /\ runner.pc = "write" /\ Proceeds("gone") /\ HostStill
        /\ UNCHANGED <<witness, outcomes>>
        /\ resultFile' = runner.verdict \/ UNCHANGED resultFile
    BY <1>0, <1>3, GotoProceeds DEF WriteResult, At, RunnerPcs
  <2>2. runner.verdict \in Verdicts
    BY <1>0 DEF RunnerRow
  <2>3. Typed'
    BY <1>0, <2>1, <2>2 DEF Typed, HostStill, Proceeds
  <2>4. Counted'
    BY <2>1 DEF RunnerInv, Counted, Hashing, Proceeds
  <2>5. Watching' /\ BytesKnown'
    BY <2>1 DEF Watching, BytesKnown, Vouched, Hashing, Proven, Proceeds
  <2>6. TaintSeen'
    BY <2>1 DEF RunnerInv, TaintSeen, Claims, HostStill, Proceeds, Executing
  <2> QED BY <2>3, <2>4, <2>5, <2>6 DEF RunnerInv
<1> QED BY <1>1, <1>2, <1>3

\* A file that changes under a watch leaves an event in it.
LEMMA DriftKeeps ==
    ASSUME RunnerInv, NEW o \in Objects, Drift(o)
    PROVE  RunnerInv'
<1>0. /\ Typed /\ runner \in RunnerRow /\ runner.pc # "gone"
      /\ UNCHANGED <<runner, outcomes, resultFile, process, clock, cancelFile>>
  BY DEF RunnerInv, Typed, Drift, At, RunnerStill
<1>1. /\ bytes' \in [Objects -> BOOLEAN] /\ \A x \in Objects \ {o} : bytes'[x] = bytes[x]
      /\ witness \subseteq witness' /\ witness' \subseteq runner.watched
      /\ o \in runner.watched => o \in witness'
  BY <1>0 DEF Typed, Drift
<1>2. tainted' = (tainted \/ (Running /\ o \in {Dependency, Its})) /\ Its' = Its
  BY <1>0 DEF Drift, Its
<1>3. Typed'
  BY <1>0, <1>1, <1>2 DEF Typed
<1>4. Counted' /\ Watching'
  BY <1>0, <1>2 DEF RunnerInv, Counted, Watching, Hashing, Vouched
<1>5. BytesKnown'
  <2>1. runner.pc \in Hashing => Its \in Objects
    BY ObjectsDiffer DEF RunnerInv, Counted, Its
  <2>2. runner.pc \in {"prove"} \cup Proven => runner.pc \in Hashing
    BY DEF Proven, Hashing
  <2> QED BY <1>0, <1>1, <1>2, <2>1, <2>2, ObjectsDiffer DEF RunnerInv, BytesKnown, Watching
<1>6. TaintSeen'
  <2>1. PipesClosed' = PipesClosed /\ (PipesClosed => tainted' = tainted)
    BY <1>0, <1>2 DEF PipesClosed, Running, RunnerInv, Typed
  <2>2. CASE runner.pc \in Executing
    BY <1>0, <1>1, <1>2, <2>2 DEF RunnerInv, TaintSeen, Watching, Executing, Hashing, Vouched,
       Claims
  <2>3. CASE runner.pc \notin Executing /\ runner.pc # "write"
    BY <1>0, <1>1, <1>2, <2>1, <2>3 DEF RunnerInv, TaintSeen, Executing, Claims
  <2>4. CASE runner.pc = "write"
    BY <1>0, <2>1, <2>4 DEF RunnerInv, TaintSeen, Executing, Claims, Vouched
  <2> QED BY <2>2, <2>3, <2>4
<1> QED BY <1>3, <1>4, <1>5, <1>6 DEF RunnerInv

\* The step's processes, the clock, the canceller and systemd.
LEMMA SurroundingsKeep ==
    ASSUME RunnerInv,
           \/ ProcessExits \/ Forks \/ DescendantsEnd \/ DeadlinePasses \/ CancelRequested
           \/ UnitEnds \/ UNCHANGED runnerVars
    PROVE  RunnerInv'
<1>0. Typed /\ runner \in RunnerRow /\ process \in ProcessRow
  BY DEF RunnerInv, Typed
<1>1. UNCHANGED <<bytes, witness, outcomes, resultFile, tainted>>
  BY DEF ProcessExits, Forks, DescendantsEnd, DeadlinePasses, CancelRequested, UnitEnds,
     runnerVars, RunnerStill, StillWriting
<1>2. CASE UnitEnds
  <2>1. Proceeds("gone") /\ runner.pc # "gone" /\ process' \in ProcessRow
        /\ UNCHANGED <<clock, cancelFile>>
    BY <1>0, <1>2, GotoProceeds DEF UnitEnds, At, RunnerPcs, ProcessRow, NoProcess
  <2>2. Typed'
    BY <1>0, <1>1, <2>1 DEF Typed, Proceeds
  <2>3. Counted' /\ Watching' /\ BytesKnown'
    BY <1>1, <2>1 DEF RunnerInv, Counted, Watching, BytesKnown, Hashing, Vouched, Proven, Proceeds
  <2>4. TaintSeen'
    BY <1>1, <2>1 DEF RunnerInv, TaintSeen, Claims, Proceeds, Vouched, Executing
  <2> QED BY <2>2, <2>3, <2>4 DEF RunnerInv
<1>3. CASE ~UnitEnds
  <2>1. UNCHANGED runner /\ process' \in ProcessRow /\ (PipesClosed => PipesClosed')
    <3>1. CASE ProcessExits
      <4>1. PICK how \in {"ok", "bad"} : process' = [process EXCEPT !.own = how]
        BY <3>1 DEF ProcessExits
      <4> QED BY <1>0, <3>1, <4>1 DEF ProcessExits, ProcessRow, PipesClosed, RunnerStill
    <3>2. CASE Forks
      BY <1>0, <3>2 DEF Forks, ProcessRow, PipesClosed, RunnerStill
    <3>3. CASE DescendantsEnd
      BY <1>0, <3>3 DEF DescendantsEnd, ProcessRow, PipesClosed, RunnerStill
    <3>4. CASE DeadlinePasses \/ CancelRequested \/ UNCHANGED runnerVars
      BY <1>0, <3>4 DEF DeadlinePasses, CancelRequested, runnerVars, PipesClosed, RunnerStill
    <3> QED BY <1>3, <3>1, <3>2, <3>3, <3>4
  <2>2. clock' \subseteq {"step", "request"} /\ cancelFile' \in BOOLEAN
    BY <1>0, <1>3 DEF Typed, ProcessExits, Forks, DescendantsEnd, DeadlinePasses,
       CancelRequested, runnerVars
  <2>3. Typed'
    BY <1>0, <1>1, <2>1, <2>2 DEF Typed
  <2>4. Counted' /\ Watching' /\ BytesKnown'
    BY <1>1, <2>1 DEF RunnerInv, Counted, Watching, BytesKnown, Its
  <2>5. TaintSeen'
    BY <1>1, <2>1 DEF RunnerInv, TaintSeen, Claims, Its
  <2> QED BY <2>3, <2>4, <2>5 DEF RunnerInv
<1> QED BY <1>2, <1>3

\* Every step keeps the invariant.
LEMMA RunnerKeeps == RunnerInv /\ [RunnerNext]_runnerVars => RunnerInv'
BY ValidationKeeps, PreparationKeeps, ExecutionKeeps, RecordKeeps, ConclusionKeeps, DriftKeeps,
   SurroundingsKeep DEF RunnerNext, RunnerStep

\* It holds when the unit starts, whatever the files hold by then.
LEMMA RunnerStart == RunnerInit => RunnerInv
<1> SUFFICES ASSUME RunnerInit PROVE RunnerInv
  OBVIOUS
<1> DEFINE f == FALSE  none == "none"  nothing == {}
<1>1. f \in BOOLEAN /\ none \in Verdicts /\ nothing \in SUBSET Objects /\ "source" \in RunnerPcs
  BY DEF Verdicts, RunnerPcs
<1> HIDE DEF f, none, nothing
<1>2. runner = [pc |-> "source", step |-> 1, watched |-> nothing, proven |-> f,
                timedOut |-> f, drifted |-> f, failed |-> f,
                anyTimedOut |-> f, cancelled |-> f, verdict |-> none]
  BY DEF RunnerInit, Idle, f, none, nothing
<1>3. runner \in RunnerRow /\ runner.pc = "source" /\ runner.step = 1
  BY <1>1, <1>2 DEF RunnerRow
<1>4. process = NoProcess /\ process \in ProcessRow /\ PipesClosed
  BY DEF RunnerInit, NoProcess, ProcessRow, PipesClosed
<1>5. Typed
  <2>1. /\ bytes \in [Objects -> BOOLEAN] /\ witness = {} /\ clock = {} /\ cancelFile = FALSE
        /\ outcomes = <<>> /\ resultFile = "none" /\ tainted = FALSE
    BY DEF RunnerInit
  <2>2. <<>> \in Seq({"succeeded", "failed", "timed_out", "cancelled"})
    OBVIOUS
  <2>3. "none" \in Verdicts
    BY DEF Verdicts
  <2> QED BY <1>3, <1>4, <2>1, <2>2, <2>3 DEF Typed
<1>6. Counted
  BY <1>3 DEF RunnerInit, Counted, Hashing
<1>7. Watching /\ BytesKnown
  BY <1>3 DEF Watching, BytesKnown, Hashing, Vouched, Proven
<1>8. TaintSeen
  BY <1>3, <1>4 DEF RunnerInit, TaintSeen, Claims
<1> QED BY <1>5, <1>6, <1>7, <1>8 DEF RunnerInv

\* The invariant of the Runner.
THEOREM RunnerInvariant == RunnerSpec => []RunnerInv
BY RunnerStart, RunnerKeeps, PTL DEF RunnerSpec

\* Type correctness of the Runner.
THEOREM RunnerTyped == RunnerSpec => []RunnerTypeOK
<1>1. ASSUME RunnerInv PROVE RunnerTypeOK
  <2>1. Len(outcomes) <= LastStep /\ Len(outcomes) <= runner.step - 1
    BY <1>1 DEF RunnerInv, Counted
  <2>2. runner.watched \subseteq Objects
    BY <1>1 DEF RunnerInv, Typed, RunnerRow
  <2> QED BY <1>1, <2>1, <2>2 DEF RunnerInv, Typed, Counted, RunnerTypeOK, ProcessRow, Verdicts
<1> QED BY <1>1, RunnerInvariant, PTL

\* A completed result is a realized one, for any number of steps: whatever
\* was changed and changed back, every step succeeded on committed bytes.
THEOREM RunnerRealized == RunnerSpec => []CompletedIsRealized
<1>1. ASSUME RunnerInv PROVE CompletedIsRealized
  <2>1. resultFile = "completed" =>
           ~tainted /\ ~runner.failed /\ runner.step = LastStep + 1
    BY <1>1 DEF RunnerInv, TaintSeen
  <2>2. LastStep + 1 - 1 = LastStep
    OBVIOUS
  <2> QED BY <1>1, <2>1, <2>2 DEF RunnerInv, Counted, CompletedIsRealized, StepIds
<1> QED BY <1>1, RunnerInvariant, PTL

-----------------------------------------------------------------------------
(* A native Attempt.  A thread probes the launcher, looks for a result and *)
(* commits, and the launcher moves in between.  What stays true of a probe *)
(* is that a launcher which was not there any more does not come back, so  *)
(* that no result can follow (ArrivedOK); what stays true of a verdict is  *)
(* that nothing can be started under it (ConcludedOK).                     *)

NativePcs ==
    {"idle", "spawn", "write_start", "bind_owner", "await", "start_failed", "load", "result",
     "bind", "bind_killed", "probe_start", "probed_start", "deadline", "kill", "killed",
     "timed_out", "probe", "probed", "orphan", "probed_orphan", "cancel_file", "poll",
     "poll_probe", "poll_probed"}
NativeIntents == {"natural", "stop_requested", "deadline_exceeded"}
Launchers == {"none", "live", "gone", "reused"}
NativeRow ==
    [state : NativeTerminal \cup {"starting", "running", "stopping"}, intent : NativeIntents,
     bound : BOOLEAN, rv : Nat, by : {"none", "control", "result"}]
NativeBundle ==
    [launcherStart : BOOLEAN, targetStart : {"none", "true", "forged"},
     result : Outcomes, cancel : BOOLEAN]
WorkerRow ==
    [pc : NativePcs, seen : [rv : Nat, intent : NativeIntents, bound : BOOLEAN],
     probe : Launchers]

NativeTyped ==
    /\ nativeRow \in NativeRow /\ bundle \in NativeBundle
    /\ launcher \in Launchers /\ target \in {"none", "suspended", "running", "done"}
    /\ outcome \in Outcomes /\ unseen \in BOOLEAN
    /\ workers \in [NativeThreads -> WorkerRow]

\* The launcher was there and is no more, its process id reused or not.
Dead == launcher \in {"gone", "reused"}
\* Where a thread has not seen a trace of the launcher; where it carries a
\* probe; where it knows the launcher is gone.
Beforehand == {"idle", "spawn", "start_failed", "load", "cancel_file", "poll"}
Looked == {"probed", "probed_orphan", "poll_probed"}
Ended == {"killed", "bind_killed", "timed_out"}


\* What thread t relies on at pc.
ArrivedOK(t, pc, probe) ==
    /\ pc \notin Beforehand => launcher # "none"
    /\ pc = "result" => HasResult
    /\ pc \in Looked /\ probe # "live" => Dead
    /\ pc \in Ended => Dead
    /\ pc = "timed_out" => ~HasResult
    /\ pc \in {"spawn", "start_failed"} => t = "dispatcher"
    /\ pc = "spawn" => launcher = "none" /\ nativeRow.state \notin NativeTerminal
    /\ pc = "start_failed" => launcher = "none" \/ unseen

\* No process outlives the launcher, and nothing precedes it.
HostOK ==
    /\ launcher # "live" => target \in {"none", "done"}
    /\ HasResult => launcher # "none" /\ target = "done"
    /\ launcher = "none" =>
          /\ target = "none" /\ bundle.targetStart = "none" /\ ~bundle.launcherStart
          /\ ~nativeRow.bound /\ nativeRow.state # "orphaned"

\* Under a conclusive verdict the tree is over and stays so.
ConcludedOK ==
    nativeRow.state \in NativeConclusive /\ ~unseen =>
        /\ target \notin {"suspended", "running"}
        /\ launcher = "live" => HasResult
        /\ nativeRow.by = "control" => launcher # "live" /\ ~HasResult

NativeInv ==
    /\ NativeTyped
    /\ \A t \in NativeThreads : ArrivedOK(t, workers[t].pc, workers[t].probe)
    /\ HostOK /\ ConcludedOK

\* Thread t moves to pc and carries the probe where it is used.
Comes(t, pc, probe) ==
    /\ workers' \in [NativeThreads -> WorkerRow]
    /\ \A u \in NativeThreads \ {t} : workers'[u] = workers[u]
    /\ workers'[t].pc = pc
    /\ pc \in Looked => workers'[t].probe = probe

\* A thread that forgot its pass.
LEMMA AtRestRow ==
    /\ AtRest \in WorkerRow /\ AtRest.pc = "idle"
    /\ \A pc \in NativePcs : [AtRest EXCEPT !.pc = pc] \in WorkerRow /\ [AtRest EXCEPT !.pc = pc].pc = pc
<1>1. PICK n \in Nat, i \in NativeIntents, b \in BOOLEAN, p \in NativePcs, none \in Launchers :
         n = 0 /\ i = "natural" /\ b = FALSE /\ p = "idle" /\ none = "none"
    BY DEF NativeIntents, NativePcs, Launchers
<1>2. PICK rest : rest = [rv |-> n, intent |-> i, bound |-> b]
    OBVIOUS
<1>3. rest \in [rv : Nat, intent : NativeIntents, bound : BOOLEAN]
    BY <1>2
<1>4. AtRest = [pc |-> p, seen |-> rest, probe |-> none]
    BY <1>1, <1>2, Zenon DEF AtRest
<1> QED
    BY <1>1, <1>3, <1>4 DEF WorkerRow

\* However a step sets a thread's variables, it comes to its next place.
LEMMA CarryComes ==
    ASSUME NativeTyped, NEW t \in NativeThreads, NEW pc \in NativePcs,
           NEW seen \in [rv : Nat, intent : NativeIntents, bound : BOOLEAN],
           NEW probe \in Launchers, Carry(t, pc, seen, probe)
    PROVE  Comes(t, pc, probe)
<1>1. PICK kept \in Launchers :
         kept = IF pc \in {"deadline", "kill", "probe", "bind"} THEN "none" ELSE probe
    BY DEF Launchers
<1>2. PICK row : row = IF pc \in {"idle", "load", "result", "poll", "orphan"} THEN [AtRest EXCEPT !.pc = pc]
                       ELSE [pc |-> pc, seen |-> seen, probe |-> kept]
    OBVIOUS
<1>3. row \in WorkerRow /\ row.pc = pc
    BY <1>2, AtRestRow DEF WorkerRow
<1>4. pc \in Looked => row.probe = probe
    BY <1>1, <1>2 DEF Looked
<1>5. workers' = [workers EXCEPT ![t] = row]
    BY <1>1, <1>2 DEF Carry
<1> QED
    BY <1>3, <1>4, <1>5 DEF Comes, NativeTyped

\* What a thread read and carried is of its type.
LEMMA WorkerFields ==
    ASSUME NativeTyped, NEW t \in NativeThreads
    PROVE  /\ RowSeen(t) \in [rv : Nat, intent : NativeIntents, bound : BOOLEAN]
           /\ RowSeen(t).bound \in BOOLEAN /\ RowSeen(t).intent \in NativeIntents
           /\ workers[t].probe \in Launchers /\ workers[t].pc \in NativePcs
BY DEF NativeTyped, WorkerRow, RowSeen

LEMMA ReadFields ==
    ASSUME NEW row \in NativeRow
    PROVE  RowRead(row) \in [rv : Nat, intent : NativeIntents, bound : BOOLEAN]
BY DEF NativeRow, RowRead

LEMMA StepComes ==
    ASSUME NativeTyped, NEW t \in NativeThreads, NEW pc \in NativePcs
    PROVE  /\ Step(t, pc) => Comes(t, pc, workers[t].probe)
           /\ StepReading(t, pc) => Comes(t, pc, workers[t].probe)
           /\ StepProbing(t, pc) => Comes(t, pc, launcher)
<1>1. RowRead(nativeRow) \in [rv : Nat, intent : NativeIntents, bound : BOOLEAN]
    BY ReadFields DEF NativeTyped
<1>2. launcher \in Launchers
    BY DEF NativeTyped
<1> QED
    BY <1>1, <1>2, WorkerFields, CarryComes DEF Step, StepReading, StepProbing

\* The row that a thread leaves: no capacity returned too early.
RowFits(t, row) ==
    /\ row \in NativeRow
    /\ launcher = "none" =>
          /\ ~row.bound /\ row.state # "orphaned"
          /\ row.state \in NativeTerminal =>
                workers[t].pc = "start_failed" \/ nativeRow.state \in NativeTerminal
    /\ row.state \in NativeConclusive /\ ~unseen =>
          /\ target \notin {"suspended", "running"}
          /\ launcher = "live" => HasResult
          /\ row.by = "control" => launcher # "live" /\ ~HasResult

LEMMA SameFits ==
    ASSUME NativeInv, NEW t \in NativeThreads, RowUnchanged
    PROVE  RowFits(t, nativeRow) /\ nativeRow' = nativeRow
BY DEF NativeInv, NativeTyped, RowFits, HostOK, ConcludedOK, RowUnchanged

\* A thread that arrives where it may be and leaves a row that fits keeps
\* the invariant, as long as the host stands still.
LEMMA MoveKeeps ==
    ASSUME NativeInv, NEW t \in NativeThreads, NEW pc, NEW probe, NEW row,
           Comes(t, pc, probe), HostUnchanged, nativeRow' = row,
           RowFits(t, row), pc # "spawn", ArrivedOK(t, pc, probe)
    PROVE  NativeInv'
<1>1. UNCHANGED <<launcher, target, bundle, outcome, unseen>> /\ HasResult' = HasResult /\ Dead' = Dead
    BY DEF HostUnchanged, HasResult, Dead
<1>2. NativeTyped'
    BY <1>1 DEF NativeInv, NativeTyped, Comes, RowFits
<1>3. HostOK' /\ ConcludedOK'
    BY <1>1 DEF NativeInv, HostOK, ConcludedOK, RowFits
<1>4. ASSUME NEW u \in NativeThreads PROVE ArrivedOK(u, workers[u].pc, workers[u].probe)'
    <2>1. CASE u = t
        BY <1>1, <2>1 DEF ArrivedOK, Comes
    <2>2. CASE u # t
        <3>1. ArrivedOK(u, workers[u].pc, workers[u].probe) /\ workers'[u] = workers[u]
            BY <2>2 DEF NativeInv, Comes
        <3>2. workers[u].pc = "spawn" => row.state \notin NativeTerminal
            <4>1. workers[u].pc = "spawn" => t # "dispatcher" /\ launcher = "none" /\ nativeRow.state \notin NativeTerminal
                BY <2>2, <3>1 DEF ArrivedOK
            <4>2. workers[t].pc = "start_failed" => t = "dispatcher"
                BY DEF NativeInv, ArrivedOK
            <4> QED
                BY <4>1, <4>2 DEF RowFits
        <3> QED
            BY <1>1, <3>1, <3>2 DEF ArrivedOK
    <2> QED
        BY <2>1, <2>2
<1> QED
    BY <1>2, <1>3, <1>4 DEF NativeInv

\* So does one that leaves the row alone.
LEMMA QuietMove ==
    ASSUME NativeInv, NEW t \in NativeThreads, NEW pc, NEW probe, Comes(t, pc, probe),
           HostUnchanged, RowUnchanged, pc # "spawn", ArrivedOK(t, pc, probe)
    PROVE  NativeInv'
BY SameFits, MoveKeeps

-----------------------------------------------------------------------------
(* The rows that transactions leave.                                       *)

\* A verdict of the Runtime's own.
LEMMA ControlFits ==
    ASSUME NativeInv, NEW t \in NativeThreads, NEW verdict \in NativeTerminal,
           ControlVerdict(t, verdict),
           launcher = "none" => workers[t].pc = "start_failed" /\ verdict # "orphaned",
           ~unseen => launcher # "live" /\ ~HasResult
    PROVE  /\ RowFits(t, nativeRow') /\ Comes(t, "idle", workers[t].probe)
<1>1. nativeRow \in NativeRow
    BY DEF NativeInv, NativeTyped
<1>2. Comes(t, "idle", workers[t].probe)
    BY StepComes DEF NativeInv, ControlVerdict, NativePcs
<1>3. CASE nativeRow.state \in NativeTerminal
    BY <1>1, <1>2, <1>3 DEF ControlVerdict, RowFits, NativeInv, HostOK, ConcludedOK
<1>4. CASE nativeRow.state \notin NativeTerminal
    <2>1. PICK control \in {"none", "control", "result"} : control = "control"
        OBVIOUS
    <2>2. PICK n \in Nat : n = nativeRow.rv + 1
        BY <1>1 DEF NativeRow
    <2>3. PICK row : row = [nativeRow EXCEPT !.state = verdict, !.by = control, !.rv = n]
        OBVIOUS
    <2>4. row \in NativeRow /\ row.state = verdict /\ row.bound = nativeRow.bound
        BY <1>1, <2>3 DEF NativeRow
    <2>5. nativeRow' = row
        BY <1>4, <2>1, <2>2, <2>3 DEF ControlVerdict
    <2> QED
        BY <1>2, <2>4, <2>5 DEF RowFits, NativeInv, HostOK, NativeTyped, Launchers
<1> QED
    BY <1>3, <1>4

\* Binding the owner.
LEMMA BoundFits ==
    ASSUME NativeInv, NEW t \in NativeThreads, launcher # "none",
           nativeRow.state \in {"starting", "stopping"}
    PROVE  RowFits(t, BoundRow)
<1>1. nativeRow \in NativeRow
    BY DEF NativeInv, NativeTyped
<1>2. PICK n \in Nat : n = nativeRow.rv + 1
    BY <1>1 DEF NativeRow
<1>3. PICK b \in BOOLEAN : b = TRUE
    OBVIOUS
<1>4. PICK state \in {"stopping", "running"} :
         state = IF nativeRow.state = "stopping" THEN "stopping" ELSE "running"
    OBVIOUS
<1>5. BoundRow = [nativeRow EXCEPT !.bound = b, !.rv = n, !.state = state]
    BY <1>2, <1>3, <1>4 DEF BoundRow
<1>6. BoundRow \in NativeRow /\ BoundRow.state = state
    BY <1>1, <1>5 DEF NativeRow
<1> QED
    BY <1>6 DEF RowFits, NativeConclusive

\* Committing the intent to stop.
LEMMA IntentFits ==
    ASSUME NativeInv, NEW t \in NativeThreads, nativeRow.state \notin NativeTerminal,
           NEW intent \in NativeIntents, NEW n \in Nat, NEW stopping, stopping = "stopping"
    PROVE  RowFits(t, [nativeRow EXCEPT !.state = stopping, !.intent = intent, !.rv = n])
<1>1. nativeRow \in NativeRow
    BY DEF NativeInv, NativeTyped
<1>2. PICK row : row = [nativeRow EXCEPT !.state = stopping, !.intent = intent, !.rv = n]
    OBVIOUS
<1>3. /\ row \in NativeRow /\ row.state = stopping /\ row.intent = intent
      /\ row.bound = nativeRow.bound
    BY <1>1, <1>2 DEF NativeRow
<1> QED
    BY <1>2, <1>3 DEF RowFits, NativeConclusive, NativeTerminal, NativeInv, HostOK

-----------------------------------------------------------------------------
(* Dispatch.                                                               *)

\* The fields of what a thread relies on, at the place where it is.
LEMMA Relies ==
    ASSUME NativeInv, NEW t \in NativeThreads, NEW pc, InStep(t, pc)
    PROVE  ArrivedOK(t, pc, workers[t].probe)
BY DEF NativeInv, InStep

LEMMA SpawnKeeps ==
    ASSUME NativeInv, SpawnWindowsNative \/ SpawnReplyLost
    PROVE  NativeInv'
<1> DEFINE t == "dispatcher"
<1>1. t \in NativeThreads /\ InStep(t, "spawn")
    BY DEF NativeThreads, SpawnWindowsNative, SpawnReplyLost
<1>2. launcher = "none" /\ nativeRow.state \notin NativeTerminal
    BY <1>1, Relies DEF ArrivedOK
<1>3. /\ launcher' = "live" /\ nativeRow' = nativeRow
      /\ UNCHANGED <<target, bundle, outcome, expired>>
      /\ HasResult' = HasResult /\ unseen' \in BOOLEAN
    BY DEF SpawnWindowsNative, SpawnReplyLost, RowUnchanged, HasResult, NativeInv, NativeTyped
<1>4. PICK pc \in {"write_start", "start_failed"} :
         Step(t, pc) /\ (pc = "start_failed" => unseen' = TRUE) /\ (unseen => unseen')
    BY DEF SpawnWindowsNative, SpawnReplyLost
<1>5. Comes(t, pc, workers[t].probe)
    BY <1>1, <1>4, StepComes DEF NativeInv, NativePcs
<1>6. NativeTyped'
    BY <1>3, <1>5 DEF NativeInv, NativeTyped, Comes, Launchers
<1>7. HostOK' /\ ConcludedOK'
    BY <1>2, <1>3 DEF NativeInv, HostOK, ConcludedOK, NativeTerminal
<1>8. ASSUME NEW u \in NativeThreads PROVE ArrivedOK(u, workers[u].pc, workers[u].probe)'
    <2>1. CASE u = t
        BY <1>3, <1>4, <1>5, <2>1 DEF ArrivedOK, Comes, Looked, Ended
    <2>2. CASE u # t
        <3>1. ArrivedOK(u, workers[u].pc, workers[u].probe) /\ workers'[u] = workers[u]
            BY <1>5, <2>2 DEF NativeInv, Comes
        <3>2. workers[u].pc \in Beforehand \ {"spawn", "start_failed"}
            BY <1>2, <2>2, <3>1 DEF ArrivedOK
        <3> QED
            BY <1>3, <3>1, <3>2 DEF ArrivedOK, Beforehand, Looked, Ended
    <2> QED
        BY <2>1, <2>2
<1> QED
    BY <1>6, <1>7, <1>8 DEF NativeInv

LEMMA SpawnRefusedKeeps ==
    ASSUME NativeInv, SpawnRefused
    PROVE  NativeInv'
<1> DEFINE t == "dispatcher"
<1>1. t \in NativeThreads /\ InStep(t, "spawn") /\ RowUnchanged /\ HostUnchanged
    BY DEF NativeThreads, SpawnRefused
<1>2. PICK pc \in {"start_failed", "idle"} : Step(t, pc)
    BY DEF SpawnRefused
<1>3. Comes(t, pc, workers[t].probe)
    BY <1>1, <1>2, StepComes DEF NativeInv, NativePcs
<1>4. ArrivedOK(t, pc, workers[t].probe)
    BY <1>1, Relies DEF ArrivedOK, Beforehand, Looked, Ended
<1> QED
    BY <1>1, <1>3, <1>4, QuietMove

LEMMA WriteLauncherStartKeeps ==
    ASSUME NativeInv, WriteLauncherStart
    PROVE  NativeInv'
<1> DEFINE t == "dispatcher"
<1>1. /\ t \in NativeThreads /\ InStep(t, "write_start") /\ nativeRow' = nativeRow
      /\ UNCHANGED <<launcher, target, outcome, expired, unseen>>
      /\ Step(t, "bind_owner") /\ bundle' = [bundle EXCEPT !.launcherStart = TRUE]
    BY DEF NativeThreads, WriteLauncherStart, RowUnchanged
<1>2. launcher # "none"
    BY <1>1, Relies DEF ArrivedOK, Beforehand
<1>3. /\ bundle' \in NativeBundle /\ bundle'.result = bundle.result
      /\ bundle'.targetStart = bundle.targetStart
    <2>1. PICK yes \in BOOLEAN : yes = TRUE
        OBVIOUS
    <2>2. bundle' = [bundle EXCEPT !.launcherStart = yes] /\ bundle \in NativeBundle
        BY <1>1, <2>1 DEF NativeInv, NativeTyped
    <2> QED
        BY <2>2 DEF NativeBundle
<1>4. HasResult' = HasResult /\ Dead' = Dead
    BY <1>1, <1>3 DEF HasResult, Dead
<1>5. Comes(t, "bind_owner", workers[t].probe)
    BY <1>1, StepComes DEF NativeInv, NativePcs
<1>6. NativeTyped'
    BY <1>1, <1>3, <1>5 DEF NativeInv, NativeTyped, Comes
<1>7. HostOK' /\ ConcludedOK'
    BY <1>1, <1>2, <1>4 DEF NativeInv, HostOK, ConcludedOK
<1>8. ASSUME NEW u \in NativeThreads PROVE ArrivedOK(u, workers[u].pc, workers[u].probe)'
    BY <1>1, <1>2, <1>4, <1>5 DEF NativeInv, ArrivedOK, Comes, Looked, Ended
<1> QED
    BY <1>6, <1>7, <1>8 DEF NativeInv

LEMMA BindDispatchOwnerKeeps ==
    ASSUME NativeInv, BindDispatchOwner
    PROVE  NativeInv'
<1> DEFINE t == "dispatcher"
<1>1. t \in NativeThreads /\ InStep(t, "bind_owner") /\ HostUnchanged
    BY DEF NativeThreads, BindDispatchOwner
<1>2. launcher # "none"
    BY <1>1, Relies DEF ArrivedOK, Beforehand
<1>3. CASE Bindable(t) /\ nativeRow' = BoundRow /\ Step(t, "await")
    <2>1. RowFits(t, BoundRow)
        BY <1>1, <1>2, <1>3, BoundFits DEF Bindable
    <2>2. Comes(t, "await", workers[t].probe) /\ ArrivedOK(t, "await", workers[t].probe)
        BY <1>1, <1>2, <1>3, StepComes DEF NativeInv, NativePcs, ArrivedOK, Looked, Ended
    <2> QED
        BY <1>1, <1>3, <2>1, <2>2, MoveKeeps
<1>4. CASE RowUnchanged /\ Step(t, "idle")
    <2>1. Comes(t, "idle", workers[t].probe) /\ ArrivedOK(t, "idle", workers[t].probe)
        BY <1>1, <1>4, StepComes DEF NativeInv, NativePcs, ArrivedOK, Looked, Ended, Beforehand
    <2> QED
        BY <1>1, <1>4, <2>1, QuietMove
<1> QED
    BY <1>3, <1>4 DEF BindDispatchOwner

\* A pass that ends leaves nothing to rely on.
LEMMA RestOK ==
    ASSUME NEW t, NEW pc \in {"idle", "load", "poll", "cancel_file"}, NEW probe
    PROVE  ArrivedOK(t, pc, probe) /\ pc # "spawn"
BY DEF ArrivedOK, Looked, Ended, Beforehand

LEMMA AwaitKeeps ==
    ASSUME NativeInv, AwaitNativeEvidence
    PROVE  NativeInv'
<1> DEFINE t == "dispatcher"
<1>1. t \in NativeThreads /\ InStep(t, "await") /\ HostUnchanged /\ RowUnchanged
    BY DEF NativeThreads, AwaitNativeEvidence
<1>2. PICK pc \in NativePcs :
         /\ pc = IF HasResult THEN "result" ELSE IF bundle.targetStart # "none" THEN "idle" ELSE "load"
         /\ Step(t, pc)
    BY DEF AwaitNativeEvidence, NativePcs
<1>3. launcher # "none"
    BY <1>1, Relies DEF ArrivedOK, Beforehand
<1>4. Comes(t, pc, workers[t].probe) /\ ArrivedOK(t, pc, workers[t].probe)
    BY <1>1, <1>2, <1>3, StepComes DEF NativeInv, ArrivedOK, Looked, Ended, Beforehand
<1> QED
    BY <1>1, <1>2, <1>4, QuietMove

LEMMA StartFailedKeeps ==
    ASSUME NativeInv, StartFailed
    PROVE  NativeInv'
<1> DEFINE t == "dispatcher"
<1>1. t \in NativeThreads /\ InStep(t, "start_failed") /\ HostUnchanged /\ ControlVerdict(t, "failed")
    BY DEF NativeThreads, StartFailed
<1>2. launcher = "none" \/ unseen
    BY <1>1, Relies DEF ArrivedOK
<1>3. launcher = "none" => ~HasResult
    BY DEF NativeInv, HostOK
<1>4. RowFits(t, nativeRow') /\ Comes(t, "idle", workers[t].probe)
    BY <1>1, <1>2, <1>3, ControlFits DEF NativeTerminal, NativeConclusive, InStep
<1> QED
    BY <1>1, <1>4, RestOK, MoveKeeps

-----------------------------------------------------------------------------
(* Verdicts and reconciliation.                                            *)

LEMMA CommitNativeResultKeeps ==
    ASSUME NativeInv, NEW t \in NativeThreads, CommitNativeResult(t)
    PROVE  NativeInv'
<1>1. InStep(t, "result") /\ HostUnchanged /\ Step(t, "idle")
    BY DEF CommitNativeResult
<1>2. HasResult /\ launcher # "none" /\ target = "done"
    BY <1>1, Relies DEF ArrivedOK, NativeInv, HostOK
<1>3. Comes(t, "idle", workers[t].probe)
    BY <1>1, StepComes DEF NativeInv, NativePcs
<1>4. nativeRow \in NativeRow /\ bundle.result \in NativeConclusive
    BY <1>2 DEF NativeInv, NativeTyped, NativeBundle, HasResult, Outcomes, NativeConclusive
<1>5. PICK n \in Nat : n = nativeRow.rv + 1
    BY <1>4 DEF NativeRow
<1>6. PICK given, control, orphaned : given = "result" /\ control = "control" /\ orphaned = "orphaned"
    OBVIOUS
<1>7. CASE nativeRow' = [nativeRow EXCEPT !.state = bundle.result, !.by = "result", !.rv = @ + 1]
    <2>1. PICK row : row = [nativeRow EXCEPT !.state = bundle.result, !.by = given, !.rv = n]
        OBVIOUS
    <2>2. row \in NativeRow /\ row.by = given
        BY <1>4, <1>6, <2>1 DEF NativeRow, NativeTerminal
    <2>3. RowFits(t, row)
        BY <1>2, <1>6, <2>2 DEF RowFits
    <2> QED
        BY <1>1, <1>3, <1>5, <1>6, <1>7, <2>1, <2>3, RestOK, MoveKeeps
<1>8. CASE nativeRow' = [nativeRow EXCEPT !.state = "orphaned", !.by = "control", !.rv = @ + 1]
    <2>1. PICK row : row = [nativeRow EXCEPT !.state = orphaned, !.by = control, !.rv = n]
        OBVIOUS
    <2>2. row \in NativeRow /\ row.state = orphaned
        BY <1>4, <1>6, <2>1 DEF NativeRow, NativeTerminal
    <2>3. RowFits(t, row)
        BY <1>2, <1>6, <2>2 DEF RowFits, NativeConclusive
    <2> QED
        BY <1>1, <1>3, <1>5, <1>6, <1>8, <2>1, <2>3, RestOK, MoveKeeps
<1>9. CASE nativeRow' = nativeRow
    BY <1>1, <1>3, <1>9, RestOK, QuietMove DEF RowUnchanged
<1> QED
    BY <1>7, <1>8, <1>9 DEF CommitNativeResult

LEMMA ReconcileKeeps ==
    ASSUME NativeInv, Reconcile
    PROVE  NativeInv'
<1> DEFINE t == "reconciler"
<1>1. t \in NativeThreads /\ HostUnchanged /\ RowUnchanged
    BY DEF NativeThreads, Reconcile
<1>2. PICK pc \in NativePcs :
         pc = (IF nativeRow.state = "orphaned" THEN "orphan" ELSE "load") /\ Step(t, pc)
    BY DEF Reconcile, NativePcs
<1>3. Comes(t, pc, workers[t].probe) /\ ArrivedOK(t, pc, workers[t].probe)
    BY <1>1, <1>2, StepComes DEF NativeInv, HostOK, ArrivedOK, Looked, Ended, Beforehand
<1> QED
    BY <1>1, <1>2, <1>3, QuietMove

LEMMA ReconcileNativeKeeps ==
    ASSUME NativeInv, NEW t \in NativeThreads, ReconcileNativeAttempt(t)
    PROVE  NativeInv'
<1>1. HostUnchanged /\ RowUnchanged
    BY DEF ReconcileNativeAttempt
<1>2. PICK pc \in {"idle", "result", "deadline", "bind", "probe_start"} :
         /\ StepReading(t, pc)
         /\ pc = "result" => HasResult
         /\ pc = "deadline" => nativeRow.bound
         /\ pc = "bind" => bundle.targetStart # "none"
         /\ pc = "probe_start" => bundle.launcherStart
    BY DEF ReconcileNativeAttempt
<1>3. Comes(t, pc, workers[t].probe)
    BY <1>2, StepComes DEF NativeInv, NativePcs
<1>4. ArrivedOK(t, pc, workers[t].probe)
    BY <1>2 DEF NativeInv, HostOK, ArrivedOK, Looked, Ended, Beforehand
<1> QED
    BY <1>1, <1>3, <1>4, QuietMove

LEMMA BindWindowsStartKeeps ==
    ASSUME NativeInv, NEW t \in NativeThreads, BindWindowsStart(t)
    PROVE  NativeInv'
<1>1. HostUnchanged /\ (InStep(t, "bind") \/ InStep(t, "bind_killed"))
    BY DEF BindWindowsStart
<1>2. launcher # "none" /\ (InStep(t, "bind_killed") => Dead)
    BY <1>1, Relies DEF ArrivedOK, Beforehand, Ended
<1>3. (nativeRow' = BoundRow /\ Bindable(t)) \/ nativeRow' = nativeRow
    BY DEF BindWindowsStart
<1>4. RowFits(t, nativeRow')
    BY <1>2, <1>3, BoundFits, SameFits DEF Bindable, RowUnchanged
<1>5. PICK pc \in {"idle", "result", "timed_out", "poll", "deadline"} :
         /\ Carry(t, pc, RowRead(nativeRow'), workers[t].probe)
         /\ pc = "result" => HasResult
         /\ pc = "timed_out" => InStep(t, "bind_killed") /\ ~HasResult
    BY DEF BindWindowsStart
<1>6. RowRead(nativeRow') \in [rv : Nat, intent : NativeIntents, bound : BOOLEAN]
    <2>1. PICK row \in NativeRow : row = nativeRow'
        BY <1>4 DEF RowFits
    <2> QED
        BY <2>1, ReadFields
<1>7. Comes(t, pc, workers[t].probe)
    BY <1>5, <1>6, CarryComes, WorkerFields DEF NativeInv, NativePcs
<1>8. ArrivedOK(t, pc, workers[t].probe)
    BY <1>2, <1>5 DEF ArrivedOK, Looked, Ended, Beforehand
<1> QED
    BY <1>1, <1>4, <1>7, <1>8, MoveKeeps

\* A probe is what the launcher was; of one that is gone it stays true.
LEMMA NativeProbeKeeps ==
    ASSUME NativeInv, NEW t \in NativeThreads,
           NEW pc \in {"probed_start", "probed", "probed_orphan", "poll_probed"}, StepProbing(t, pc), launcher # "none", HostUnchanged, RowUnchanged
    PROVE  NativeInv'
<1>1. Comes(t, pc, launcher)
    BY StepComes DEF NativeInv, NativePcs
<1>2. ArrivedOK(t, pc, launcher)
    BY DEF ArrivedOK, Looked, Ended, Beforehand, Dead, NativeInv, NativeTyped, Launchers
<1> QED
    BY <1>1, <1>2, QuietMove

LEMMA ProbeStartingKeeps ==
    ASSUME NativeInv, NEW t \in NativeThreads, ProbeStarting(t)
    PROVE  NativeInv'
<1>1. InStep(t, "probe_start") /\ HostUnchanged /\ RowUnchanged /\ StepProbing(t, "probed_start")
    BY DEF ProbeStarting
<1>2. launcher # "none"
    BY <1>1, Relies DEF ArrivedOK, Beforehand
<1> QED
    BY <1>1, <1>2, NativeProbeKeeps

LEMMA ProbeOwnerKeeps ==
    ASSUME NativeInv, NEW t \in NativeThreads, ProbeOwner(t)
    PROVE  NativeInv'
<1>1. InStep(t, "probe") /\ HostUnchanged /\ RowUnchanged /\ StepProbing(t, "probed")
    BY DEF ProbeOwner
<1>2. launcher # "none"
    BY <1>1, Relies DEF ArrivedOK, Beforehand
<1> QED
    BY <1>1, <1>2, NativeProbeKeeps

LEMMA ConcludeStartingKeeps ==
    ASSUME NativeInv, NEW t \in NativeThreads, ConcludeStarting(t)
    PROVE  NativeInv'
<1>1. InStep(t, "probed_start") /\ HostUnchanged /\ RowUnchanged
    BY DEF ConcludeStarting
<1>2. launcher # "none"
    BY <1>1, Relies DEF ArrivedOK, Beforehand
<1>3. PICK pc \in {"result", "bind", "deadline", "idle"} : Step(t, pc) /\ (pc = "result" => HasResult)
    BY DEF ConcludeStarting
<1>4. Comes(t, pc, workers[t].probe)
    BY <1>3, StepComes DEF NativeInv, NativePcs
<1>5. ArrivedOK(t, pc, workers[t].probe)
    BY <1>2, <1>3 DEF ArrivedOK, Looked, Ended, Beforehand
<1> QED
    BY <1>1, <1>4, <1>5, QuietMove

\* A deadline that is not enforced leads on to the probe of the owner.
LEMMA EnforceDeadlineKeeps ==
    ASSUME NativeInv, NEW t \in NativeThreads, EnforceDeadline(t)
    PROVE  NativeInv'
<1>1. InStep(t, "deadline") /\ HostUnchanged
    BY DEF EnforceDeadline
<1>2. launcher # "none"
    BY <1>1, Relies DEF ArrivedOK, Beforehand
<1>3. RowFits(t, nativeRow')
    <2>1. PICK n \in Nat : n = nativeRow.rv + 1
        BY DEF NativeInv, NativeTyped, NativeRow
    <2>2. PICK stopping \in {"stopping"}, exceeded \in NativeIntents :
             stopping = "stopping" /\ exceeded = "deadline_exceeded"
        BY DEF NativeIntents
    <2>3. PICK row : row = [nativeRow EXCEPT !.state = stopping, !.intent = exceeded, !.rv = n]
        OBVIOUS
    <2>4. nativeRow.state \notin NativeTerminal => RowFits(t, row)
        BY <2>2, <2>3, IntentFits
    <2>5. nativeRow' = nativeRow \/ (nativeRow.state \notin NativeTerminal /\ nativeRow' = row)
        BY <2>1, <2>2, <2>3 DEF EnforceDeadline, RequestDeadline
    <2> QED
        BY <2>4, <2>5, SameFits DEF RowUnchanged
<1>4. PICK pc \in {"probe", "idle", "result", "kill"} : Step(t, pc) /\ (pc = "result" => HasResult)
    BY DEF EnforceDeadline, NotEnforced
<1>5. Comes(t, pc, workers[t].probe)
    BY <1>4, StepComes DEF NativeInv, NativePcs
<1>6. ArrivedOK(t, pc, workers[t].probe)
    BY <1>2, <1>4 DEF ArrivedOK, Looked, Ended, Beforehand
<1> QED
    BY <1>1, <1>3, <1>5, <1>6, MoveKeeps

LEMMA KilledKeeps ==
    ASSUME NativeInv, NEW t \in NativeThreads, Killed(t)
    PROVE  NativeInv'
<1>1. InStep(t, "killed") /\ HostUnchanged /\ RowUnchanged
    BY DEF Killed
<1>2. launcher # "none" /\ Dead
    BY <1>1, Relies DEF ArrivedOK, Beforehand, Ended
<1>3. PICK pc \in {"result", "bind_killed", "probe", "idle", "timed_out"} :
         StepReading(t, pc) /\ (pc = "result" => HasResult) /\ (pc = "timed_out" => ~HasResult)
    BY DEF Killed, NotEnforced
<1>4. Comes(t, pc, workers[t].probe)
    BY <1>3, StepComes DEF NativeInv, NativePcs
<1>5. ArrivedOK(t, pc, workers[t].probe)
    BY <1>2, <1>3 DEF ArrivedOK, Looked, Ended, Beforehand
<1> QED
    BY <1>1, <1>4, <1>5, QuietMove

\* A verdict of the Runtime's own over a launcher that is gone without a result.
LEMMA VerdictKeeps ==
    ASSUME NativeInv, NEW t \in NativeThreads, NEW verdict \in NativeTerminal,
           ControlVerdict(t, verdict), Dead, ~HasResult, HostUnchanged
    PROVE  NativeInv'
<1>1. RowFits(t, nativeRow') /\ Comes(t, "idle", workers[t].probe)
    BY ControlFits DEF Dead
<1> QED
    BY <1>1, RestOK, MoveKeeps

LEMMA CommitTimedOutKeeps ==
    ASSUME NativeInv, NEW t \in NativeThreads, CommitTimedOut(t)
    PROVE  NativeInv'
<1>1. InStep(t, "timed_out") /\ HostUnchanged
    BY DEF CommitTimedOut
<1>2. launcher # "none" /\ Dead /\ ~HasResult
    BY <1>1, Relies DEF ArrivedOK, Beforehand, Ended
<1>3. CASE ControlVerdict(t, "timed_out")
    BY <1>1, <1>2, <1>3, VerdictKeeps DEF NativeTerminal, NativeConclusive
<1>4. CASE RowUnchanged /\ Step(t, NotEnforced(t))
    <2>1. PICK pc \in {"probe", "idle"} : Step(t, pc)
        BY <1>4 DEF NotEnforced
    <2>2. Comes(t, pc, workers[t].probe)
        BY <2>1, StepComes DEF NativeInv, NativePcs
    <2>3. ArrivedOK(t, pc, workers[t].probe)
        BY <1>2 DEF ArrivedOK, Looked, Ended, Beforehand
    <2> QED
        BY <1>1, <1>4, <2>2, <2>3, QuietMove
<1> QED
    BY <1>3, <1>4 DEF CommitTimedOut

LEMMA ConcludeOwnerKeeps ==
    ASSUME NativeInv, NEW t \in NativeThreads, ConcludeOwner(t)
    PROVE  NativeInv'
<1>1. InStep(t, "probed") /\ HostUnchanged
    BY DEF ConcludeOwner
<1>2. workers[t].probe # "live" => Dead
    BY <1>1, Relies DEF ArrivedOK, Looked
<1>3. PICK class : class = ClassifyLauncher(RowSeen(t), workers[t].probe)
    OBVIOUS
<1>4. IF workers[t].probe = "live" THEN class = "running" ELSE class \in NativeTerminal
    BY <1>3 DEF ClassifyLauncher, NativeTerminal, NativeConclusive
<1>5. CASE RowUnchanged /\ Step(t, IF HasResult THEN "result" ELSE "idle")
    <2>1. PICK pc \in {"result", "idle"} : Step(t, pc) /\ (pc = "result" => HasResult)
        BY <1>5
    <2>2. Comes(t, pc, workers[t].probe)
        BY <2>1, StepComes DEF NativeInv, NativePcs
    <2>3. ArrivedOK(t, pc, workers[t].probe)
        BY <2>1 DEF ArrivedOK, Looked, Ended, Beforehand, NativeInv, HostOK
    <2> QED
        BY <1>1, <1>5, <2>2, <2>3, QuietMove
<1>6. CASE ~HasResult /\ class # "running" /\ ControlVerdict(t, class)
    BY <1>1, <1>2, <1>4, <1>6, VerdictKeeps
<1> QED
    BY <1>3, <1>5, <1>6 DEF ConcludeOwner

LEMMA ProbeOrphanKeeps ==
    ASSUME NativeInv, NEW t \in NativeThreads, ProbeOrphan(t)
    PROVE  NativeInv'
<1>1. InStep(t, "orphan") /\ HostUnchanged /\ RowUnchanged
    BY DEF ProbeOrphan
<1>2. launcher # "none"
    BY <1>1, Relies DEF ArrivedOK, Beforehand
<1>3. CASE HasResult /\ Step(t, "result")
    <2>1. Comes(t, "result", workers[t].probe)
        BY <1>3, StepComes DEF NativeInv, NativePcs
    <2>2. ArrivedOK(t, "result", workers[t].probe)
        BY <1>2, <1>3 DEF ArrivedOK, Looked, Ended, Beforehand
    <2> QED
        BY <1>1, <2>1, <2>2, QuietMove
<1>4. CASE StepProbing(t, "probed_orphan")
    BY <1>1, <1>2, <1>4, NativeProbeKeeps
<1> QED
    BY <1>3, <1>4 DEF ProbeOrphan

LEMMA ConcludeOrphanKeeps ==
    ASSUME NativeInv, NEW t \in NativeThreads, ConcludeOrphan(t)
    PROVE  NativeInv'
<1>1. InStep(t, "probed_orphan") /\ HostUnchanged
    BY DEF ConcludeOrphan
<1>2. launcher # "none" /\ (workers[t].probe # "live" => Dead)
    BY <1>1, Relies DEF ArrivedOK, Beforehand, Looked
<1>3. CASE HasResult /\ Step(t, "result") /\ RowUnchanged
    <2>1. Comes(t, "result", workers[t].probe)
        BY <1>3, StepComes DEF NativeInv, NativePcs
    <2>2. ArrivedOK(t, "result", workers[t].probe)
        BY <1>2, <1>3 DEF ArrivedOK, Looked, Ended, Beforehand
    <2> QED
        BY <1>1, <1>3, <2>1, <2>2, QuietMove
<1>4. CASE ~HasResult
    <2>1. Comes(t, "idle", workers[t].probe)
        BY <1>4, StepComes DEF NativeInv, NativePcs, ConcludeOrphan
    <2>2. CASE nativeRow' = nativeRow
        BY <1>1, <2>1, <2>2, RestOK, QuietMove DEF RowUnchanged
    <2>3. CASE nativeRow' # nativeRow
        <3>1. PICK verdict \in NativeConclusive :
                 verdict = CASE nativeRow.intent = "stop_requested" -> "cancelled"
                             [] nativeRow.intent = "deadline_exceeded" -> "timed_out"
                             [] OTHER -> "lost"
            BY DEF NativeConclusive
        <3>2. /\ workers[t].probe # "live"
              /\ nativeRow' = [nativeRow EXCEPT !.rv = @ + 1, !.by = "control", !.state = verdict]
            BY <1>4, <2>3, <3>1 DEF ConcludeOrphan
        <3>3. nativeRow \in NativeRow
            BY DEF NativeInv, NativeTyped
        <3>4. PICK n \in Nat : n = nativeRow.rv + 1
            BY <3>3 DEF NativeRow
        <3>5. PICK control \in {"none", "control", "result"} : control = "control"
            OBVIOUS
        <3>6. nativeRow' = [nativeRow EXCEPT !.rv = n, !.by = control, !.state = verdict]
            BY <3>2, <3>4, <3>5
        <3>7. nativeRow' \in NativeRow
            BY <3>3, <3>6 DEF NativeRow, NativeTerminal
        <3>8. RowFits(t, nativeRow')
            BY <1>2, <1>4, <3>2, <3>7 DEF RowFits, Dead, NativeInv, HostOK
        <3> QED
            BY <1>1, <2>1, <3>8, RestOK, MoveKeeps
    <2> QED
        BY <2>2, <2>3
<1> QED
    BY <1>3, <1>4 DEF ConcludeOrphan

-----------------------------------------------------------------------------
(* Cancellation.                                                           *)

LEMMA RequestNativeCancelKeeps ==
    ASSUME NativeInv, RequestNativeCancel
    PROVE  NativeInv'
<1> DEFINE t == "canceller"
<1>1. t \in NativeThreads /\ HostUnchanged /\ nativeRow.state \notin NativeConclusive
    BY DEF NativeThreads, RequestNativeCancel
<1>2. PICK pc \in {"orphan", "cancel_file"} :
         Step(t, pc) /\ (pc = "orphan" => nativeRow.state = "orphaned")
    BY DEF RequestNativeCancel
<1>3. Comes(t, pc, workers[t].probe)
    BY <1>1, <1>2, StepComes DEF NativeInv, NativePcs
<1>4. ArrivedOK(t, pc, workers[t].probe)
    BY <1>2 DEF ArrivedOK, Looked, Ended, Beforehand, NativeInv, HostOK
<1>5. nativeRow \in NativeRow
    BY DEF NativeInv, NativeTyped
<1>6. PICK n \in Nat : n = nativeRow.rv + 1
    BY <1>5 DEF NativeRow
<1>7. PICK state \in {"orphaned", "stopping"}, intent \in NativeIntents :
         /\ state = (IF nativeRow.state = "orphaned" THEN nativeRow.state ELSE "stopping")
         /\ intent = "stop_requested"
    BY DEF NativeIntents
<1>8. PICK row : row = [nativeRow EXCEPT !.intent = intent, !.rv = n, !.state = state]
    OBVIOUS
<1>9. row \in NativeRow /\ row.state = state /\ row.bound = nativeRow.bound
    BY <1>5, <1>8 DEF NativeRow, NativeTerminal
<1>10. RowFits(t, row)
    BY <1>7, <1>9 DEF RowFits, NativeInv, HostOK, NativeConclusive, NativeTerminal
<1>11. nativeRow' = row \/ nativeRow' = nativeRow
    BY <1>6, <1>7, <1>8 DEF RequestNativeCancel
<1> QED
    BY <1>1, <1>3, <1>4, <1>10, <1>11, MoveKeeps, QuietMove DEF RowUnchanged

LEMMA WriteNativeCancelKeeps ==
    ASSUME NativeInv, WriteNativeCancel
    PROVE  NativeInv'
<1> DEFINE t == "canceller"
<1>1. /\ t \in NativeThreads /\ nativeRow' = nativeRow /\ Step(t, "poll")
      /\ UNCHANGED <<launcher, target, outcome, expired, unseen>>
      /\ bundle' = [bundle EXCEPT !.cancel = TRUE]
    BY DEF NativeThreads, WriteNativeCancel, RowUnchanged
<1>2. /\ bundle' \in NativeBundle /\ bundle'.result = bundle.result
      /\ bundle'.targetStart = bundle.targetStart /\ bundle'.launcherStart = bundle.launcherStart
    <2>1. PICK yes \in BOOLEAN : yes = TRUE
        OBVIOUS
    <2>2. bundle' = [bundle EXCEPT !.cancel = yes] /\ bundle \in NativeBundle
        BY <1>1, <2>1 DEF NativeInv, NativeTyped
    <2> QED
        BY <2>2 DEF NativeBundle
<1>3. HasResult' = HasResult /\ Dead' = Dead
    BY <1>1, <1>2 DEF HasResult, Dead
<1>4. Comes(t, "poll", workers[t].probe)
    BY <1>1, StepComes DEF NativeInv, NativePcs
<1>5. NativeTyped'
    BY <1>1, <1>2, <1>4 DEF NativeInv, NativeTyped, Comes
<1>6. HostOK' /\ ConcludedOK'
    BY <1>1, <1>2, <1>3 DEF NativeInv, HostOK, ConcludedOK
<1>7. ASSUME NEW u \in NativeThreads PROVE ArrivedOK(u, workers[u].pc, workers[u].probe)'
    BY <1>1, <1>3, <1>4 DEF NativeInv, ArrivedOK, Comes, Looked, Ended, Beforehand
<1> QED
    BY <1>5, <1>6, <1>7 DEF NativeInv

LEMMA PollNativeCancelKeeps ==
    ASSUME NativeInv, PollNativeCancel
    PROVE  NativeInv'
<1> DEFINE t == "canceller"
<1>1. t \in NativeThreads /\ HostUnchanged /\ RowUnchanged
    BY DEF NativeThreads, PollNativeCancel
<1>2. PICK pc \in {"result", "poll_probe", "bind", "poll", "load"} :
         /\ StepReading(t, pc)
         /\ pc = "result" => HasResult
         /\ pc = "poll_probe" => nativeRow.bound
         /\ pc = "bind" => bundle.targetStart # "none"
    BY DEF PollNativeCancel
<1>3. Comes(t, pc, workers[t].probe)
    BY <1>1, <1>2, StepComes DEF NativeInv, NativePcs
<1>4. ArrivedOK(t, pc, workers[t].probe)
    BY <1>2 DEF NativeInv, HostOK, ArrivedOK, Looked, Ended, Beforehand
<1> QED
    BY <1>1, <1>3, <1>4, QuietMove

LEMMA ProbeNativeCancelKeeps ==
    ASSUME NativeInv, ProbeNativeCancel
    PROVE  NativeInv'
<1> DEFINE t == "canceller"
<1>1. /\ t \in NativeThreads /\ InStep(t, "poll_probe") /\ HostUnchanged /\ RowUnchanged
      /\ StepProbing(t, "poll_probed")
    BY DEF NativeThreads, ProbeNativeCancel
<1>2. launcher # "none"
    BY <1>1, Relies DEF ArrivedOK, Beforehand
<1> QED
    BY <1>1, <1>2, NativeProbeKeeps

LEMMA ConcludeNativeCancelKeeps ==
    ASSUME NativeInv, ConcludeNativeCancel
    PROVE  NativeInv'
<1> DEFINE t == "canceller"
<1>1. t \in NativeThreads /\ InStep(t, "poll_probed") /\ HostUnchanged
    BY DEF NativeThreads, ConcludeNativeCancel
<1>2. launcher # "none" /\ (workers[t].probe # "live" => Dead)
    BY <1>1, Relies DEF ArrivedOK, Beforehand, Looked
<1>3. CASE RowUnchanged /\ \E pc \in {"poll", "result"} : Step(t, pc) /\ (pc = "result" => HasResult)
    <2>1. PICK pc \in {"poll", "result"} : Step(t, pc) /\ (pc = "result" => HasResult)
        BY <1>3
    <2>2. Comes(t, pc, workers[t].probe)
        BY <1>1, <2>1, StepComes DEF NativeInv, NativePcs
    <2>3. ArrivedOK(t, pc, workers[t].probe)
        BY <1>2, <2>1 DEF ArrivedOK, Looked, Ended, Beforehand
    <2> QED
        BY <1>1, <1>3, <2>2, <2>3, QuietMove
<1>4. CASE workers[t].probe # "live" /\ ~HasResult /\ ControlVerdict(t, "cancelled")
    BY <1>1, <1>2, <1>4, VerdictKeeps DEF NativeTerminal, NativeConclusive
<1> QED
    BY <1>3, <1>4 DEF ConcludeNativeCancel

LEMMA GivesUpKeeps ==
    ASSUME NativeInv, NativeCancelGivesUp
    PROVE  NativeInv'
<1> DEFINE t == "canceller"
<1>1. t \in NativeThreads /\ HostUnchanged /\ RowUnchanged /\ Step(t, "load")
    BY DEF NativeThreads, NativeCancelGivesUp
<1>2. Comes(t, "load", workers[t].probe)
    BY <1>1, StepComes DEF NativeInv, NativePcs
<1> QED
    BY <1>1, <1>2, RestOK, QuietMove

-----------------------------------------------------------------------------
(* The launcher, the target, time and the Runtime's own death.             *)

\* What the host does leaves a thread right where it is: a launcher that is
\* gone does not come back, and a result does not go.
LEMMA NativeHostKeeps ==
    ASSUME NativeInv, UNCHANGED <<nativeRow, unseen, workers>>, NativeTyped', HostOK',
           Dead => Dead', launcher' = "none" <=> launcher = "none",
           HasResult => HasResult', Dead => HasResult' = HasResult,
           launcher # "live" => target' \notin {"suspended", "running"},
           target \in {"none", "done"} /\ HasResult => target' \notin {"suspended", "running"},
           launcher # "live" => launcher' # "live",
           launcher # "live" => HasResult' = HasResult
    PROVE  NativeInv'
<1>1. ASSUME NEW u \in NativeThreads PROVE ArrivedOK(u, workers[u].pc, workers[u].probe)'
    <2>1. ArrivedOK(u, workers[u].pc, workers[u].probe) /\ workers'[u] = workers[u]
        BY DEF NativeInv
    <2> QED
        BY <2>1 DEF ArrivedOK, Ended
<1>2. ConcludedOK'
    BY DEF NativeInv, HostOK, ConcludedOK
<1> QED
    BY <1>1, <1>2 DEF NativeInv

LEMMA KillOwnerKeeps ==
    ASSUME NativeInv, NEW t \in NativeThreads, KillOwner(t)
    PROVE  NativeInv'
<1>1. /\ InStep(t, "kill") /\ nativeRow' = nativeRow /\ StepProbing(t, "killed")
      /\ launcher' = (IF launcher = "live" THEN "gone" ELSE launcher)
      /\ target' = (IF launcher = "live" THEN "done" ELSE target)
      /\ UNCHANGED <<bundle, outcome, expired, unseen>>
    BY DEF KillOwner, RowUnchanged
<1>2. launcher # "none"
    BY <1>1, Relies DEF ArrivedOK, Beforehand
<1>3. Comes(t, "killed", launcher)
    BY <1>1, StepComes DEF NativeInv, NativePcs
<1>4. Dead' /\ HasResult' = HasResult /\ launcher' # "none"
    BY <1>1, <1>2 DEF Dead, HasResult, NativeInv, NativeTyped, Launchers
<1>5. NativeTyped'
    BY <1>1, <1>3 DEF NativeInv, NativeTyped, Comes, Launchers
<1>6. HostOK' /\ ConcludedOK'
    BY <1>1, <1>4 DEF NativeInv, HostOK, ConcludedOK, Dead
<1>7. ASSUME NEW u \in NativeThreads PROVE ArrivedOK(u, workers[u].pc, workers[u].probe)'
    <2>1. CASE u = t
        BY <1>3, <1>4, <2>1 DEF ArrivedOK, Comes
    <2>2. CASE u # t
        <3>1. ArrivedOK(u, workers[u].pc, workers[u].probe) /\ workers'[u] = workers[u]
            BY <1>3, <2>2 DEF NativeInv, Comes
        <3> QED
            BY <1>1, <1>2, <1>4, <3>1 DEF ArrivedOK
    <2> QED
        BY <2>1, <2>2
<1> QED
    BY <1>5, <1>6, <1>7 DEF NativeInv

LEMMA CreateTargetKeeps ==
    ASSUME NativeInv, CreateTarget
    PROVE  NativeInv'
<1>1. /\ launcher = "live" /\ target = "none" /\ target' = "suspended"
      /\ bundle' = [bundle EXCEPT !.targetStart = "true"]
      /\ UNCHANGED <<launcher, outcome, nativeRow, expired, unseen, workers>>
    BY DEF CreateTarget, LauncherFrame
<1>2. bundle' \in NativeBundle /\ bundle'.result = bundle.result
    <2>1. PICK genuine \in {"none", "true", "forged"} : genuine = "true"
        OBVIOUS
    <2>2. bundle' = [bundle EXCEPT !.targetStart = genuine] /\ bundle \in NativeBundle
        BY <1>1, <2>1 DEF NativeInv, NativeTyped
    <2> QED
        BY <2>2 DEF NativeBundle
<1>3. ~HasResult /\ ~HasResult'
    BY <1>1, <1>2 DEF HasResult, NativeInv, HostOK
<1>4. NativeTyped' /\ HostOK'
    BY <1>1, <1>2, <1>3 DEF NativeInv, NativeTyped, HostOK
<1> QED
    BY <1>1, <1>3, <1>4, NativeHostKeeps DEF Dead

LEMMA TargetMovesKeeps ==
    ASSUME NativeInv, ResumeTarget \/ TargetEnds
    PROVE  NativeInv'
<1>1. /\ launcher = "live" /\ target \in {"suspended", "running"}
      /\ target' \in {"running", "done"} /\ outcome' \in Outcomes
      /\ UNCHANGED <<launcher, bundle, nativeRow, expired, unseen, workers>>
    BY DEF ResumeTarget, TargetEnds, LauncherFrame, NativeInv, NativeTyped, Outcomes
<1>2. ~HasResult /\ HasResult' = HasResult
    BY <1>1 DEF HasResult, NativeInv, HostOK
<1>3. NativeTyped' /\ HostOK'
    BY <1>1, <1>2 DEF NativeInv, NativeTyped, HostOK
<1> QED
    BY <1>1, <1>2, <1>3, NativeHostKeeps DEF Dead

LEMMA PublishResultKeeps ==
    ASSUME NativeInv, PublishResult
    PROVE  NativeInv'
<1>1. /\ launcher = "live" /\ target = "done" /\ ~HasResult
      /\ bundle' = [bundle EXCEPT !.result = outcome]
      /\ UNCHANGED <<launcher, target, outcome, nativeRow, expired, unseen, workers>>
    BY DEF PublishResult, LauncherFrame
<1>2. bundle' \in NativeBundle
    BY <1>1 DEF NativeInv, NativeTyped, NativeBundle
<1>3. NativeTyped' /\ HostOK'
    BY <1>1, <1>2 DEF NativeInv, NativeTyped, HostOK
<1> QED
    BY <1>1, <1>3, NativeHostKeeps DEF Dead

LEMMA LauncherExitsKeeps ==
    ASSUME NativeInv, LauncherExits
    PROVE  NativeInv'
<1>1. /\ launcher = "live" /\ launcher' = "gone" /\ target' \in {"none", "done"}
      /\ target = "done" => target' = "done"
      /\ UNCHANGED <<bundle, outcome, nativeRow, expired, unseen, workers>>
    BY DEF LauncherExits, LauncherFrame
<1>2. HasResult' = HasResult
    BY <1>1 DEF HasResult
<1>3. NativeTyped' /\ HostOK'
    BY <1>1, <1>2 DEF NativeInv, NativeTyped, HostOK, Launchers
<1> QED
    BY <1>1, <1>2, <1>3, NativeHostKeeps DEF Dead

LEMMA PidReusedKeeps ==
    ASSUME NativeInv, PidReused
    PROVE  NativeInv'
<1>1. /\ launcher = "gone" /\ launcher' = "reused"
      /\ UNCHANGED <<target, bundle, outcome, nativeRow, expired, unseen, workers>>
    BY DEF PidReused, LauncherFrame
<1>2. HasResult' = HasResult
    BY <1>1 DEF HasResult
<1>3. NativeTyped' /\ HostOK'
    BY <1>1, <1>2 DEF NativeInv, NativeTyped, HostOK, Launchers
<1> QED
    BY <1>1, <1>2, <1>3, NativeHostKeeps DEF Dead, NativeInv, HostOK

LEMMA TamperKeeps ==
    ASSUME NativeInv, Tamper
    PROVE  NativeInv'
<1>1. /\ target = "running"
      /\ UNCHANGED <<launcher, target, outcome, nativeRow, expired, unseen, workers>>
    BY DEF Tamper, LauncherFrame
<1>2. PICK forged \in {"none", "forged"} : bundle' = [bundle EXCEPT !.targetStart = forged]
    BY DEF Tamper
<1>3. bundle' \in NativeBundle /\ bundle'.result = bundle.result
    BY <1>2 DEF NativeInv, NativeTyped, NativeBundle
<1>4. HasResult' = HasResult /\ ~HasResult /\ launcher = "live"
    BY <1>1, <1>3 DEF HasResult, NativeInv, HostOK
<1>5. NativeTyped' /\ HostOK'
    BY <1>1, <1>3, <1>4 DEF NativeInv, NativeTyped, HostOK
<1> QED
    BY <1>1, <1>4, <1>5, NativeHostKeeps DEF Dead

LEMMA ExpireKeeps ==
    ASSUME NativeInv, Expire \/ UNCHANGED nativeVars
    PROVE  NativeInv'
<1>1. UNCHANGED <<nativeRow, launcher, target, bundle, outcome, unseen, workers>>
    BY DEF Expire, nativeVars
<1> QED
    BY <1>1 DEF NativeInv, NativeTyped, ArrivedOK, HostOK, ConcludedOK, Dead, HasResult

LEMMA NativeCrashKeeps ==
    ASSUME NativeInv, NativeCrash
    PROVE  NativeInv'
<1>1. /\ workers' = [t \in NativeThreads |-> AtRest]
      /\ UNCHANGED <<nativeRow, launcher, target, bundle, outcome, unseen>>
    BY DEF NativeCrash, RowUnchanged, HostUnchanged
<1>2. AtRest \in WorkerRow /\ AtRest.pc = "idle"
    BY AtRestRow
<1>3. NativeTyped' /\ HostOK' /\ ConcludedOK'
    BY <1>1, <1>2 DEF NativeInv, NativeTyped, HostOK, ConcludedOK, HasResult
<1>4. ASSUME NEW u \in NativeThreads PROVE ArrivedOK(u, workers[u].pc, workers[u].probe)'
    BY <1>1, <1>2 DEF ArrivedOK, Looked, Ended, Beforehand
<1> QED
    BY <1>3, <1>4 DEF NativeInv

LEMMA NativeStart == NativeInit => NativeInv
<1>1. SUFFICES ASSUME NativeInit PROVE NativeInv
    OBVIOUS
<1>2. nativeRow \in NativeRow /\ nativeRow.state = "starting" /\ ~nativeRow.bound
    <2>1. PICK state \in {"starting"}, natural \in NativeIntents, no \in BOOLEAN, n \in Nat,
               none \in {"none", "control", "result"} :
             natural = "natural" /\ no = FALSE /\ n = 0 /\ none = "none"
        BY DEF NativeIntents
    <2>2. nativeRow = [state |-> state, intent |-> natural, bound |-> no, rv |-> n, by |-> none]
        BY <1>1, <2>1, Zenon DEF NativeInit
    <2> QED
        BY <2>1, <2>2 DEF NativeRow
<1>3. /\ bundle \in NativeBundle /\ ~bundle.launcherStart
      /\ bundle.targetStart = "none" /\ bundle.result = "none"
    <2>1. PICK no \in BOOLEAN, none \in Outcomes : no = FALSE /\ none = "none"
        BY DEF Outcomes
    <2>2. bundle = [launcherStart |-> no, targetStart |-> none, result |-> none, cancel |-> no]
        BY <1>1, <2>1, Zenon DEF NativeInit
    <2> QED
        BY <2>1, <2>2 DEF NativeBundle
<1>4. /\ workers \in [NativeThreads -> WorkerRow]
      /\ \A t \in NativeThreads : IF t = "dispatcher" THEN workers[t].pc = "spawn" ELSE workers[t].pc = "idle"
    BY <1>1, AtRestRow DEF NativeInit, NativePcs
<1>5. launcher = "none" /\ target = "none" /\ outcome = "none" /\ unseen = FALSE /\ ~HasResult
    BY <1>1, <1>3 DEF NativeInit, HasResult
<1>6. NativeTyped
    BY <1>2, <1>3, <1>4, <1>5 DEF NativeTyped, Launchers, Outcomes
<1>7. ASSUME NEW t \in NativeThreads PROVE ArrivedOK(t, workers[t].pc, workers[t].probe)
    BY <1>2, <1>4, <1>5 DEF ArrivedOK, Looked, Ended, Beforehand, NativeTerminal, NativeConclusive
<1> QED
    BY <1>2, <1>3, <1>5, <1>6, <1>7 DEF NativeInv, HostOK, ConcludedOK, NativeConclusive

LEMMA NativeKept ==
    ASSUME NativeInv, [NativeNext]_nativeVars
    PROVE  NativeInv'
<1>1. ASSUME NEW t \in NativeThreads, ReconcileStep(t) PROVE NativeInv'
    BY <1>1, CommitNativeResultKeeps, ReconcileNativeKeeps, BindWindowsStartKeeps, ProbeStartingKeeps,
       ConcludeStartingKeeps, EnforceDeadlineKeeps, KillOwnerKeeps, KilledKeeps, CommitTimedOutKeeps,
       ProbeOwnerKeeps, ConcludeOwnerKeeps, ProbeOrphanKeeps, ConcludeOrphanKeeps DEF ReconcileStep
<1>2. CASE \/ SpawnWindowsNative \/ SpawnRefused \/ SpawnReplyLost \/ WriteLauncherStart
           \/ BindDispatchOwner \/ AwaitNativeEvidence \/ StartFailed \/ Reconcile
    BY <1>2, SpawnKeeps, SpawnRefusedKeeps, WriteLauncherStartKeeps, BindDispatchOwnerKeeps, AwaitKeeps,
       StartFailedKeeps, ReconcileKeeps
<1>3. CASE \/ RequestNativeCancel \/ WriteNativeCancel \/ PollNativeCancel
           \/ ProbeNativeCancel \/ ConcludeNativeCancel \/ NativeCancelGivesUp
    BY <1>3, RequestNativeCancelKeeps, WriteNativeCancelKeeps, PollNativeCancelKeeps,
       ProbeNativeCancelKeeps, ConcludeNativeCancelKeeps, GivesUpKeeps
<1>4. CASE \/ CreateTarget \/ ResumeTarget \/ TargetEnds \/ PublishResult \/ LauncherExits
           \/ PidReused \/ Tamper \/ Expire \/ NativeCrash \/ UNCHANGED nativeVars
    BY <1>4, CreateTargetKeeps, TargetMovesKeeps, PublishResultKeeps, LauncherExitsKeeps,
       PidReusedKeeps, TamperKeeps, ExpireKeeps, NativeCrashKeeps
<1> QED
    BY <1>1, <1>2, <1>3, <1>4 DEF NativeNext

\* What each thread relies on when it judges the launcher holds, whichever
\* faults occur and however the threads and the launcher interleave.
THEOREM NativeInvariant == NativeSpec => []NativeInv
<1>1. NativeInv /\ [NativeNext]_nativeVars => NativeInv'
    BY NativeKept
<1> QED
    BY NativeStart, <1>1, PTL DEF NativeSpec

\* No conclusive verdict is given over a process tree that may still run
\* (commit_control_terminal, commit_runner_result), for every set of faults.
THEOREM NativeVerdictAfterTree == NativeSpec => []VerdictAfterTree
<1>1. NativeInv => VerdictAfterTree
    BY DEF NativeInv, ConcludedOK, VerdictAfterTree
<1> QED
    BY <1>1, NativeInvariant, PTL

\* No verdict drawn from the launcher's death stands against a published
\* result, for every set of faults.
THEOREM NativeResultStands == NativeSpec => []ResultStands
<1>1. NativeInv => ResultStands
    BY DEF NativeInv, ConcludedOK, ResultStands
<1> QED
    BY <1>1, NativeInvariant, PTL

-----------------------------------------------------------------------------
(* The row of a native Attempt and the Registry.  Every step of a thread   *)
(* either leaves the row alone or rewrites it in one of five ways, and     *)
(* each of those is a transaction of Registry's.                           *)

\* One transaction leaves these columns under the next row version.
Rewritten(state, intent, bound, by) ==
    /\ nativeRow'.state = state /\ nativeRow'.intent = intent
    /\ nativeRow'.bound = bound /\ nativeRow'.by = by
    /\ nativeRow'.rv = nativeRow.rv + 1

RowBinds ==
    /\ ~nativeRow.bound
    /\ \E s \in {"running", "stopping"} :
          /\ nativeRow.state = IF s = "stopping" THEN "stopping" ELSE "starting"
          /\ Rewritten(s, nativeRow.intent, TRUE, nativeRow.by)
RowConcludes ==
    /\ nativeRow.state \notin NativeTerminal
    /\ \E s \in NativeTerminal, by \in {"control", "result"} :
          Rewritten(s, nativeRow.intent, nativeRow.bound, by)
RowStops ==
    /\ nativeRow.state \notin NativeTerminal
    /\ \E i \in {"stop_requested", "deadline_exceeded"} :
          /\ IF i = "deadline_exceeded" THEN nativeRow.intent = "natural"
             ELSE nativeRow.state # "stopping" /\ nativeRow.intent # "stop_requested"
          /\ Rewritten("stopping", i, nativeRow.bound, nativeRow.by)
RowStopsOrphan ==
    /\ nativeRow.state = "orphaned" /\ nativeRow.intent # "stop_requested"
    /\ Rewritten("orphaned", "stop_requested", nativeRow.bound, nativeRow.by)
RowRecovers ==
    /\ nativeRow.state = "orphaned"
    /\ \E s \in NativeConclusive, by \in {"control", "result"} :
          Rewritten(s, nativeRow.intent, nativeRow.bound, by)

RowStep ==
    \/ UNCHANGED nativeRow \/ RowBinds \/ RowConcludes \/ RowStops \/ RowStopsOrphan
    \/ RowRecovers

\* One row of a table.
LEMMA SingleRow ==
    ASSUME NEW x, NEW y
    PROVE  /\ [[j \in {Attempt} |-> x] EXCEPT ![Attempt] = y] = [j \in {Attempt} |-> y]
           /\ [j \in {Attempt} |-> x][Attempt] = x
OBVIOUS

\* The rows of the Registry's tables, by their columns.
ARow(s, i, b, o, d, v, k) ==
    [state |-> s, intent |-> i, bundle |-> b, owner |-> o, digest |-> d, rv |-> v, recovery |-> k]
ARows(V) ==
    [state : V, intent : V, bundle : V, owner : V, digest : V, rv : V, recovery : V]
JRow(k, o, d, r, c) ==
    [key |-> k, op |-> o, limit |-> 1, desired |-> d, resolution |-> r, current |-> c]
WithOwner(A, x, y) == [A EXCEPT !.state = x, !.owner = y]
WithVerdict(A, x, y) == [A EXCEPT !.state = x, !.digest = y]
WithStop(A, x, y) == [A EXCEPT !.state = x, !.intent = y]
WithResolution(J, x, y) == [J EXCEPT !.resolution = x, !.current = y]
JRows(V) == [key : V, op : V, limit : {1}, desired : V, resolution : V, current : V]

LEMMA UpdateVersion ==
    ASSUME NEW s, NEW i, NEW b, NEW o, NEW d, NEW v, NEW k, NEW x
    PROVE  [ARow(s, i, b, o, d, v, k) EXCEPT !.rv = x] = ARow(s, i, b, o, d, x, k)
<1>1. PICK A, V : A = ARow(s, i, b, o, d, v, k) /\ V = {s, i, b, o, d, v, k, x} OBVIOUS
<1>2. A \in ARows(V)
  BY <1>1 DEF ARow, ARows
<1>3. PICK B \in ARows(V) : B = [A EXCEPT !.rv = x]
  BY <1>1, <1>2 DEF ARows
<1>4. B.state = s /\ B.intent = i /\ B.bundle = b /\ B.owner = o /\ B.digest = d /\ B.rv = x /\ B.recovery = k
  BY <1>1, <1>2, <1>3 DEF ARow, ARows
<1>5. B = ARow(s, i, b, o, d, x, k)
  BY <1>3, <1>4 DEF ARow, ARows
<1> QED
  BY <1>1, <1>3, <1>5

LEMMA UpdateOwner ==
    ASSUME NEW s, NEW i, NEW b, NEW o, NEW d, NEW v, NEW k, NEW x, NEW y
    PROVE  WithOwner(ARow(s, i, b, o, d, v, k), x, y) = ARow(x, i, b, y, d, v, k)
<1>1. PICK A, V : A = ARow(s, i, b, o, d, v, k) /\ V = {s, i, b, o, d, v, k, x, y} OBVIOUS
<1>2. A \in ARows(V)
  BY <1>1 DEF WithOwner, ARow, ARows
<1>3. PICK B \in ARows(V) : B = WithOwner(A, x, y)
  BY <1>1, <1>2 DEF WithOwner, ARows
<1>4. B.state = x /\ B.intent = i /\ B.bundle = b /\ B.owner = y /\ B.digest = d /\ B.rv = v /\ B.recovery = k
  BY <1>1, <1>2, <1>3 DEF WithOwner, ARow, ARows
<1>5. B = ARow(x, i, b, y, d, v, k)
  BY <1>3, <1>4 DEF ARow, ARows
<1> QED
  BY <1>1, <1>3, <1>5

LEMMA UpdateVerdict ==
    ASSUME NEW s, NEW i, NEW b, NEW o, NEW d, NEW v, NEW k, NEW x, NEW y
    PROVE  WithVerdict(ARow(s, i, b, o, d, v, k), x, y) = ARow(x, i, b, o, y, v, k)
<1>1. PICK A, V : A = ARow(s, i, b, o, d, v, k) /\ V = {s, i, b, o, d, v, k, x, y} OBVIOUS
<1>2. A \in ARows(V)
  BY <1>1 DEF WithVerdict, ARow, ARows
<1>3. PICK B \in ARows(V) : B = WithVerdict(A, x, y)
  BY <1>1, <1>2 DEF WithVerdict, ARows
<1>4. B.state = x /\ B.intent = i /\ B.bundle = b /\ B.owner = o /\ B.digest = y /\ B.rv = v /\ B.recovery = k
  BY <1>1, <1>2, <1>3 DEF WithVerdict, ARow, ARows
<1>5. B = ARow(x, i, b, o, y, v, k)
  BY <1>3, <1>4 DEF ARow, ARows
<1> QED
  BY <1>1, <1>3, <1>5

LEMMA UpdateStop ==
    ASSUME NEW s, NEW i, NEW b, NEW o, NEW d, NEW v, NEW k, NEW x, NEW y
    PROVE  WithStop(ARow(s, i, b, o, d, v, k), x, y) = ARow(x, y, b, o, d, v, k)
<1>1. PICK A, V : A = ARow(s, i, b, o, d, v, k) /\ V = {s, i, b, o, d, v, k, x, y} OBVIOUS
<1>2. A \in ARows(V)
  BY <1>1 DEF WithStop, ARow, ARows
<1>3. PICK B \in ARows(V) : B = WithStop(A, x, y)
  BY <1>1, <1>2 DEF WithStop, ARows
<1>4. B.state = x /\ B.intent = y /\ B.bundle = b /\ B.owner = o /\ B.digest = d /\ B.rv = v /\ B.recovery = k
  BY <1>1, <1>2, <1>3 DEF WithStop, ARow, ARows
<1>5. B = ARow(x, y, b, o, d, v, k)
  BY <1>3, <1>4 DEF ARow, ARows
<1> QED
  BY <1>1, <1>3, <1>5

LEMMA UpdateIntent ==
    ASSUME NEW s, NEW i, NEW b, NEW o, NEW d, NEW v, NEW k, NEW x
    PROVE  [ARow(s, i, b, o, d, v, k) EXCEPT !.intent = x] = ARow(s, x, b, o, d, v, k)
<1>1. PICK A, V : A = ARow(s, i, b, o, d, v, k) /\ V = {s, i, b, o, d, v, k, x} OBVIOUS
<1>2. A \in ARows(V)
  BY <1>1 DEF ARow, ARows
<1>3. PICK B \in ARows(V) : B = [A EXCEPT !.intent = x]
  BY <1>1, <1>2 DEF ARows
<1>4. B.state = s /\ B.intent = x /\ B.bundle = b /\ B.owner = o /\ B.digest = d /\ B.rv = v /\ B.recovery = k
  BY <1>1, <1>2, <1>3 DEF ARow, ARows
<1>5. B = ARow(s, x, b, o, d, v, k)
  BY <1>3, <1>4 DEF ARow, ARows
<1> QED
  BY <1>1, <1>3, <1>5

LEMMA UpdateDesired ==
    ASSUME NEW k, NEW o, NEW d, NEW r, NEW c, NEW x
    PROVE  [JRow(k, o, d, r, c) EXCEPT !.desired = x] = JRow(k, o, x, r, c)
<1>1. PICK J, V : J = JRow(k, o, d, r, c) /\ V = {k, o, d, r, c, x} OBVIOUS
<1>2. J \in JRows(V)
  BY <1>1 DEF JRow, JRows
<1>3. PICK B \in JRows(V) : B = [J EXCEPT !.desired = x]
  BY <1>1, <1>2 DEF JRows
<1>4. B.key = k /\ B.op = o /\ B.desired = x /\ B.resolution = r /\ B.current = c
  BY <1>1, <1>2, <1>3 DEF JRow, JRows
<1>5. B = JRow(k, o, x, r, c)
  BY <1>3, <1>4 DEF JRow, JRows
<1> QED
  BY <1>1, <1>3, <1>5

LEMMA UpdateResolved ==
    ASSUME NEW k, NEW o, NEW d, NEW r, NEW c, NEW x, NEW y
    PROVE  WithResolution(JRow(k, o, d, r, c), x, y) = JRow(k, o, d, x, y)
<1>1. PICK J, V : J = JRow(k, o, d, r, c) /\ V = {k, o, d, r, c, x, y} OBVIOUS
<1>2. J \in JRows(V)
  BY <1>1 DEF WithResolution, JRow, JRows
<1>3. PICK B \in JRows(V) : B = WithResolution(J, x, y)
  BY <1>1, <1>2 DEF WithResolution, JRows
<1>4. B.key = k /\ B.op = o /\ B.desired = d /\ B.resolution = x /\ B.current = y
  BY <1>1, <1>2, <1>3 DEF WithResolution, JRow, JRows
<1>5. B = JRow(k, o, d, x, y)
  BY <1>3, <1>4 DEF JRow, JRows
<1> QED
  BY <1>1, <1>3, <1>5

LEMMA UpdateResolution ==
    ASSUME NEW k, NEW o, NEW d, NEW r, NEW c, NEW x
    PROVE  [JRow(k, o, d, r, c) EXCEPT !.resolution = x] = JRow(k, o, d, x, c)
<1>1. PICK J, V : J = JRow(k, o, d, r, c) /\ V = {k, o, d, r, c, x} OBVIOUS
<1>2. J \in JRows(V)
  BY <1>1 DEF JRow, JRows
<1>3. PICK B \in JRows(V) : B = [J EXCEPT !.resolution = x]
  BY <1>1, <1>2 DEF JRows
<1>4. B.key = k /\ B.op = o /\ B.desired = d /\ B.resolution = x /\ B.current = c
  BY <1>1, <1>2, <1>3 DEF JRow, JRows
<1>5. B = JRow(k, o, d, x, c)
  BY <1>3, <1>4 DEF JRow, JRows
<1> QED
  BY <1>1, <1>3, <1>5

LEMMA JobTable ==
    ASSUME NEW J, NEW d2, NEW r2, NEW c2, NEW T, T = [j \in {Attempt} |-> J]
    PROVE  /\ [T EXCEPT ![Attempt].desired = d2] = [j \in {Attempt} |-> [J EXCEPT !.desired = d2]]
           /\ [T EXCEPT ![Attempt].resolution = r2, ![Attempt].current = c2]
                = [j \in {Attempt} |-> [J EXCEPT !.resolution = r2, !.current = c2]]
           /\ [T EXCEPT ![Attempt].resolution = r2]
                = [j \in {Attempt} |-> [J EXCEPT !.resolution = r2]]
OBVIOUS

\* The row as the Registry's columns.
LEMMA Columns ==
    /\ AttemptView = ARow(nativeRow.state, nativeRow.intent, "bundle", OwnerView, EvidenceView,
                          nativeRow.rv + 2, 0)
    /\ JobView = JRow("key", "request", DesiredView, ResolutionView, CurrentView)
BY DEF AttemptView, ARow, JobView, JRow

\* The same row in the next state.
LEMMA NextColumns ==
    /\ AttemptView' = ARow(nativeRow'.state, nativeRow'.intent, "bundle", OwnerView', EvidenceView',
                           nativeRow'.rv + 2, 0)
    /\ JobView' = JRow("key", "request", DesiredView', ResolutionView', CurrentView')
BY DEF AttemptView, ARow, JobView, JRow

\* What a transaction reads of the row.
LEMMA ReadColumns ==
    /\ AttemptView.state = nativeRow.state /\ AttemptView.intent = nativeRow.intent
    /\ AttemptView.owner = OwnerView /\ AttemptView.rv = nativeRow.rv + 2
    /\ JobView.desired = DesiredView /\ JobView.resolution = ResolutionView /\ JobView.current = CurrentView
BY DEF AttemptView, JobView

LEMMA NextVersion ==
    ASSUME NEW v \in Nat
    PROVE  (v + 1) + 2 = (v + 2) + 1 /\ (v + 2) \in Nat
OBVIOUS

LEMMA RowBindsTransacts ==
    ASSUME nativeRow \in NativeRow, nativeRow.rv \in 0 .. 5, RowBinds
    PROVE  Table!Next
<1>1. PICK s \in {"running", "stopping"} :
          /\ ~nativeRow.bound
          /\ nativeRow.state = IF s = "stopping" THEN "stopping" ELSE "starting"
          /\ Rewritten(s, nativeRow.intent, TRUE, nativeRow.by)
  BY DEF RowBinds
<1>2. PICK r : r = nativeRow' OBVIOUS
<1>3. /\ r.state = s /\ r.intent = nativeRow.intent /\ r.bound = TRUE /\ r.by = nativeRow.by
      /\ r.rv = nativeRow.rv + 1
  BY <1>1, <1>2 DEF Rewritten
<1>4. PICK o, v, b, z : o = "launcher" /\ v = nativeRow.rv + 2 /\ b = "bundle" /\ z = 0
  OBVIOUS
<1>5. r.rv + 2 = v + 1
  BY <1>3, <1>4, NextVersion DEF NativeRow
<1>6. OwnerView = Null /\ OwnerView' = o /\ EvidenceView' = EvidenceView
  BY <1>1, <1>2, <1>3, <1>4 DEF OwnerView, EvidenceView
<1>7. AttemptView' = ARow(s, nativeRow.intent, b, o, EvidenceView, v + 1, z)
  BY <1>2, <1>3, <1>4, <1>5, <1>6, NextColumns
<1>8. PICK B : B = WithOwner(AttemptView, s, o) OBVIOUS
<1>9. B = ARow(s, nativeRow.intent, b, o, EvidenceView, v, z)
  BY <1>4, <1>8, Columns, UpdateOwner
<1>10. B.rv = v
  BY <1>9 DEF ARow
<1>11. AttemptView' = [B EXCEPT !.rv = B.rv + 1]
  BY <1>7, <1>9, <1>10, UpdateVersion
<1>12. JobView' = JobView /\ CapacityView' = CapacityView
  BY <1>1, <1>2, <1>3
  DEF JobView, DesiredView, ResolutionView, CurrentView, CapacityView, NativeTerminal, NativeConclusive
<1>13. B = [AttemptView EXCEPT !.state = IF @ = "stopping" THEN "stopping" ELSE "running", !.owner = o]
  BY <1>1, <1>8, ReadColumns DEF WithOwner
<1>14. Table!BindSupervisorOwner(Attempt, v, o)
  BY <1>1, <1>4, <1>6, <1>11, <1>12, <1>13, ReadColumns, SingleRow
  DEF Table!BindSupervisorOwner, Table!Update
<1> QED
  BY <1>4, <1>14 DEF Table!Next, NativeRow

\* A verdict on an open Attempt is commit_terminal.
LEMMA RowConcludesTransacts ==
    ASSUME nativeRow \in NativeRow, nativeRow.rv \in 0 .. 5, RowConcludes
    PROVE  Table!Next
<1>1. PICK s \in NativeTerminal, by \in {"control", "result"} :
          /\ nativeRow.state \notin NativeTerminal
          /\ Rewritten(s, nativeRow.intent, nativeRow.bound, by)
  BY DEF RowConcludes
<1>2. PICK r : r = nativeRow' OBVIOUS
<1>3. /\ r.state = s /\ r.intent = nativeRow.intent /\ r.bound = nativeRow.bound /\ r.by = by
      /\ r.rv = nativeRow.rv + 1
  BY <1>1, <1>2 DEF Rewritten
<1>4. PICK v, b, z : v = nativeRow.rv + 2 /\ b = "bundle" /\ z = 0
  OBVIOUS
<1>5. r.rv + 2 = v + 1
  BY <1>3, <1>4, NextVersion DEF NativeRow
<1>6. OwnerView' = OwnerView /\ EvidenceView' = by
  BY <1>1, <1>2, <1>3 DEF OwnerView, EvidenceView
<1>7. AttemptView' = ARow(s, nativeRow.intent, b, OwnerView, by, v + 1, z)
  BY <1>2, <1>3, <1>4, <1>5, <1>6, NextColumns
<1>8. PICK B : B = WithVerdict(AttemptView, s, by) OBVIOUS
<1>9. B = ARow(s, nativeRow.intent, b, OwnerView, by, v, z)
  BY <1>4, <1>8, Columns, UpdateVerdict
<1>10. B.rv = v
  BY <1>9 DEF ARow
<1>11. AttemptView' = [B EXCEPT !.rv = B.rv + 1]
  BY <1>7, <1>9, <1>10, UpdateVersion
<1>12. DesiredView' = DesiredView /\ ResolutionView' = s /\ CurrentView' = Null
  BY <1>1, <1>2, <1>3 DEF DesiredView, ResolutionView, CurrentView
<1>13. JobView' = WithResolution(JobView, s, Null)
  <2>1. PICK k, o : k = "key" /\ o = "request" OBVIOUS
  <2> QED BY <1>12, <2>1, Columns, NextColumns, UpdateResolved
<1>14. /\ CapacityView = "active"
       /\ CapacityView' = IF s = "orphaned" THEN "held_orphaned" ELSE "released"
  BY <1>1, <1>2, <1>3 DEF CapacityView, NativeTerminal, NativeConclusive
<1>15. /\ nativeRow.state \in Table!Nonterminal /\ ResolutionView = Null
       /\ Table!CanTransition(nativeRow.state, s)
  BY <1>1 DEF NativeRow, NativeTerminal, NativeConclusive, ResolutionView, Table!Nonterminal,
     Table!Dispatched, Table!CanTransition, Table!Terminal, Table!Conclusive
<1>16. IF s = "orphaned" THEN Table!HoldOrphanedReservation(Attempt)
                         ELSE Table!ReleaseReservation(Attempt)
  BY <1>14, SingleRow
  DEF Table!HoldOrphanedReservation, Table!ReleaseReservation, Table!Holding
<1>17. Table!RegisterArtifacts(Attempt, {})
  BY DEF Table!RegisterArtifacts, Table!ArtifactIds
<1>18. Table!CommitTerminal(Attempt, v, s, by, {})
  <2>1. [j \in {Attempt} |-> JobView]' =
           [[j \in {Attempt} |-> JobView] EXCEPT ![Attempt].resolution = s, ![Attempt].current = Null]
    BY <1>13, JobTable DEF WithResolution
  <2> QED
    BY <1>4, <1>8, <1>11, <1>15, <1>16, <1>17, <2>1, ReadColumns, SingleRow
    DEF Table!CommitTerminal, Table!Update, WithVerdict
<1> QED
  BY <1>1, <1>4, <1>18
  DEF Table!Next, NativeRow, Table!Terminal, Table!Conclusive, NativeTerminal, NativeConclusive
\* A verdict on an orphan is recover_orphaned_terminal.
LEMMA RowRecoversTransacts ==
    ASSUME nativeRow \in NativeRow, nativeRow.rv \in 0 .. 5, RowRecovers
    PROVE  Table!Next
<1>1. PICK s \in NativeConclusive, by \in {"control", "result"} :
          /\ nativeRow.state = "orphaned"
          /\ Rewritten(s, nativeRow.intent, nativeRow.bound, by)
  BY DEF RowRecovers
<1>2. PICK r : r = nativeRow' OBVIOUS
<1>3. /\ r.state = s /\ r.intent = nativeRow.intent /\ r.bound = nativeRow.bound /\ r.by = by
      /\ r.rv = nativeRow.rv + 1
  BY <1>1, <1>2 DEF Rewritten
<1>4. PICK v, b, z : v = nativeRow.rv + 2 /\ b = "bundle" /\ z = 0
  OBVIOUS
<1>5. r.rv + 2 = v + 1
  BY <1>3, <1>4, NextVersion DEF NativeRow
<1>6. OwnerView' = OwnerView /\ EvidenceView' = by
  BY <1>1, <1>2, <1>3 DEF OwnerView, EvidenceView
<1>7. AttemptView' = ARow(s, nativeRow.intent, b, OwnerView, by, v + 1, z)
  BY <1>2, <1>3, <1>4, <1>5, <1>6, NextColumns
<1>8. PICK B : B = WithVerdict(AttemptView, s, by) OBVIOUS
<1>9. B = ARow(s, nativeRow.intent, b, OwnerView, by, v, z)
  BY <1>4, <1>8, Columns, UpdateVerdict
<1>10. B.rv = v
  BY <1>9 DEF ARow
<1>11. AttemptView' = [B EXCEPT !.rv = B.rv + 1]
  BY <1>7, <1>9, <1>10, UpdateVersion
<1>12. DesiredView' = DesiredView /\ ResolutionView' = s /\ CurrentView' = CurrentView
  BY <1>1, <1>2, <1>3 DEF DesiredView, ResolutionView, CurrentView, NativeTerminal
<1>13. JobView' = [JobView EXCEPT !.resolution = s]
  <2>1. PICK k, o : k = "key" /\ o = "request" OBVIOUS
  <2> QED BY <1>12, <2>1, Columns, NextColumns, UpdateResolution
<1>14. /\ CapacityView = "held_orphaned" /\ CapacityView' = "released" /\ ResolutionView = "orphaned"
  BY <1>1, <1>2, <1>3 DEF CapacityView, ResolutionView, NativeTerminal, NativeConclusive
<1>15. Table!ReleaseReservation(Attempt)
  BY <1>14, SingleRow DEF Table!ReleaseReservation, Table!Holding
<1>16. Table!RegisterArtifacts(Attempt, {})
  BY DEF Table!RegisterArtifacts, Table!ArtifactIds
<1>17. s \in Table!Conclusive
  BY DEF Table!Conclusive, NativeConclusive
<1>18. Table!RecoverOrphanedTerminal(Attempt, v, s, by, {})
  <2>1. [j \in {Attempt} |-> JobView]' =
           [[j \in {Attempt} |-> JobView] EXCEPT ![Attempt].resolution = s]
    BY <1>13, JobTable
  <2> QED
    BY <1>1, <1>4, <1>8, <1>11, <1>14, <1>15, <1>16, <1>17, <2>1, ReadColumns, SingleRow
    DEF Table!RecoverOrphanedTerminal, Table!Update, WithVerdict
<1> QED
  <2>1. v \in 0 .. 7 /\ by \in {"control", "result"} /\ {} \in SUBSET {}
    BY <1>4 DEF NativeRow
  <2> QED
    BY <1>17, <1>18, <2>1 DEF Table!Next

\* A stop of an open Attempt is request_deadline_termination or request_cancel.
LEMMA RowStopsTransacts ==
    ASSUME nativeRow \in NativeRow, nativeRow.rv \in 0 .. 5, RowStops
    PROVE  Table!Next
<1>1. PICK i \in {"stop_requested", "deadline_exceeded"} :
          /\ nativeRow.state \notin NativeTerminal
          /\ IF i = "deadline_exceeded" THEN nativeRow.intent = "natural"
             ELSE nativeRow.state # "stopping"
          /\ Rewritten("stopping", i, nativeRow.bound, nativeRow.by)
  BY DEF RowStops
<1>2. PICK r, s : r = nativeRow' /\ s = "stopping" OBVIOUS
<1>3. /\ r.state = s /\ r.intent = i /\ r.bound = nativeRow.bound /\ r.by = nativeRow.by
      /\ r.rv = nativeRow.rv + 1
  BY <1>1, <1>2 DEF Rewritten
<1>4. PICK v, b, z : v = nativeRow.rv + 2 /\ b = "bundle" /\ z = 0
  OBVIOUS
<1>5. r.rv + 2 = v + 1
  BY <1>3, <1>4, NextVersion DEF NativeRow
<1>6. OwnerView' = OwnerView /\ EvidenceView' = EvidenceView
  BY <1>1, <1>2, <1>3 DEF OwnerView, EvidenceView
<1>7. AttemptView' = ARow(s, i, b, OwnerView, EvidenceView, v + 1, z)
  BY <1>2, <1>3, <1>4, <1>5, <1>6, NextColumns
<1>8. PICK B : B = WithStop(AttemptView, s, i) OBVIOUS
<1>9. B = ARow(s, i, b, OwnerView, EvidenceView, v, z)
  BY <1>4, <1>8, Columns, UpdateStop
<1>10. B.rv = v
  BY <1>9 DEF ARow
<1>11. AttemptView' = [B EXCEPT !.rv = B.rv + 1]
  BY <1>7, <1>9, <1>10, UpdateVersion
<1>12. /\ ResolutionView = Null /\ ResolutionView' = Null /\ CurrentView = Attempt /\ CurrentView' = Attempt
       /\ CapacityView' = CapacityView
  BY <1>1, <1>2, <1>3 DEF ResolutionView, CurrentView, CapacityView, NativeTerminal, NativeConclusive
<1>13. nativeRow.state \in Table!Dispatched
  BY <1>1 DEF NativeRow, NativeTerminal, Table!Dispatched
<1>14. CASE i = "deadline_exceeded"
  <2>1. DesiredView = "run" /\ DesiredView' = DesiredView
    BY <1>1, <1>2, <1>3, <1>14 DEF DesiredView
  <2>2. JobView' = JobView
    BY <1>12, <2>1, Columns, NextColumns
  <2>3. Table!RequestDeadlineTermination(Attempt)
    BY <1>1, <1>2, <1>8, <1>11, <1>12, <1>13, <1>14, <2>1, <2>2, ReadColumns, SingleRow
    DEF Table!RequestDeadlineTermination, Table!Update, WithStop
  <2> QED
    BY <2>3 DEF Table!Next
<1>15. CASE i = "stop_requested"
  <2>1. PICK c : c = "cancelled" OBVIOUS
  <2>2. DesiredView' = c
    BY <1>2, <1>3, <1>15, <2>1 DEF DesiredView
  <2>3. JobView' = [JobView EXCEPT !.desired = c]
    <3>1. PICK k, o : k = "key" /\ o = "request" OBVIOUS
    <3> QED BY <1>12, <2>2, <3>1, Columns, NextColumns, UpdateDesired
  <2>4. [j \in {Attempt} |-> JobView]' = [[j \in {Attempt} |-> JobView] EXCEPT ![Attempt].desired = c]
    BY <2>3, JobTable
  <2>5. Table!CancelDispatched(Attempt)
    BY <1>1, <1>2, <1>8, <1>11, <1>12, <1>13, <1>15, <2>1, <2>4, ReadColumns, SingleRow
    DEF Table!CancelDispatched, Table!Update, WithStop
  <2> QED
    BY <2>5 DEF Table!Next, Table!RequestCancel
<1> QED
  BY <1>14, <1>15

\* A stop of an orphan is request_cancel, which leaves it an orphan.
LEMMA RowStopsOrphanTransacts ==
    ASSUME nativeRow \in NativeRow, nativeRow.rv \in 0 .. 5, RowStopsOrphan
    PROVE  Table!Next
<1>1. /\ nativeRow.state = "orphaned" /\ nativeRow.intent # "stop_requested"
      /\ Rewritten("orphaned", "stop_requested", nativeRow.bound, nativeRow.by)
  BY DEF RowStopsOrphan
<1>2. PICK r, i : r = nativeRow' /\ i = "stop_requested" OBVIOUS
<1>3. /\ r.state = nativeRow.state /\ r.intent = i /\ r.bound = nativeRow.bound
      /\ r.by = nativeRow.by /\ r.rv = nativeRow.rv + 1
  BY <1>1, <1>2 DEF Rewritten
<1>4. PICK v, b, z : v = nativeRow.rv + 2 /\ b = "bundle" /\ z = 0
  OBVIOUS
<1>5. r.rv + 2 = v + 1
  BY <1>3, <1>4, NextVersion DEF NativeRow
<1>6. OwnerView' = OwnerView /\ EvidenceView' = EvidenceView
  BY <1>2, <1>3 DEF OwnerView, EvidenceView
<1>7. AttemptView' = ARow(nativeRow.state, i, b, OwnerView, EvidenceView, v + 1, z)
  BY <1>2, <1>3, <1>4, <1>5, <1>6, NextColumns
<1>8. PICK B : B = [AttemptView EXCEPT !.intent = i] OBVIOUS
<1>9. B = ARow(nativeRow.state, i, b, OwnerView, EvidenceView, v, z)
  BY <1>4, <1>8, Columns, UpdateIntent
<1>10. B.rv = v
  BY <1>9 DEF ARow
<1>11. AttemptView' = [B EXCEPT !.rv = B.rv + 1]
  BY <1>7, <1>9, <1>10, UpdateVersion
<1>12. /\ ResolutionView = "orphaned" /\ ResolutionView' = ResolutionView /\ CurrentView' = CurrentView
       /\ CapacityView = "held_orphaned" /\ CapacityView' = CapacityView
  BY <1>1, <1>2, <1>3 DEF ResolutionView, CurrentView, CapacityView, NativeTerminal
<1>13. PICK c : c = "cancelled" OBVIOUS
<1>14. DesiredView' = c
  BY <1>2, <1>3, <1>13 DEF DesiredView
<1>15. JobView' = [JobView EXCEPT !.desired = c]
  <2>1. PICK k, o : k = "key" /\ o = "request" OBVIOUS
  <2> QED BY <1>12, <1>14, <2>1, Columns, NextColumns, UpdateDesired
<1>16. [j \in {Attempt} |-> JobView]' = [[j \in {Attempt} |-> JobView] EXCEPT ![Attempt].desired = c]
  BY <1>15, JobTable
<1>17. Table!CancelOrphaned(Attempt)
  BY <1>1, <1>2, <1>8, <1>11, <1>12, <1>13, <1>16, ReadColumns, SingleRow
  DEF Table!CancelOrphaned, Table!Update
<1> QED
  BY <1>17 DEF Table!Next, Table!RequestCancel

\* Every way the row is rewritten is a transaction of the Registry.
LEMMA RowStepTransacts ==
    ASSUME nativeRow \in NativeRow, nativeRow.rv \in 0 .. 5, RowStep
    PROVE  [Table!Next]_(Table!registryVars)
<1>1. CASE UNCHANGED nativeRow
  BY <1>1 DEF AttemptView, JobView, CapacityView, OwnerView, EvidenceView, DesiredView, ResolutionView, CurrentView,
     Table!registryVars
<1> QED
  BY <1>1, RowBindsTransacts, RowConcludesTransacts, RowRecoversTransacts, RowStopsTransacts,
     RowStopsOrphanTransacts DEF RowStep

-----------------------------------------------------------------------------
(* Every step leaves the row alone or rewrites it.                         *)

\* A verdict of the Runtime's own is written on an open Attempt only.
LEMMA ControlRow ==
    ASSUME nativeRow \in NativeRow, NEW t, NEW verdict \in NativeTerminal,
           ControlVerdict(t, verdict)
    PROVE  RowStep
<1>1. CASE nativeRow.state \in NativeTerminal
  BY <1>1 DEF ControlVerdict, RowStep
<1>2. CASE nativeRow.state \notin NativeTerminal
  <2>1. PICK by, n : by = "control" /\ n = nativeRow.rv + 1 OBVIOUS
  <2>2. nativeRow' = [nativeRow EXCEPT !.state = verdict, !.by = by, !.rv = n]
    BY <1>2, <2>1 DEF ControlVerdict
  <2>3. Rewritten(verdict, nativeRow.intent, nativeRow.bound, by)
    BY <2>1, <2>2 DEF Rewritten, NativeRow
  <2> QED
    BY <1>2, <2>1, <2>3 DEF RowConcludes, RowStep
<1> QED
  BY <1>1, <1>2

\* Binding the owner.
LEMMA BoundStep ==
    ASSUME nativeRow \in NativeRow, NEW t, Bindable(t), nativeRow' = BoundRow
    PROVE  RowStep
<1>1. PICK s \in {"running", "stopping"} :
          nativeRow.state = IF s = "stopping" THEN "stopping" ELSE "starting"
  BY DEF Bindable
<1>2. PICK yes, n : yes = TRUE /\ n = nativeRow.rv + 1 OBVIOUS
<1>3. nativeRow' = [nativeRow EXCEPT !.bound = yes, !.rv = n, !.state = s]
  BY <1>1, <1>2 DEF BoundRow
<1>4. Rewritten(s, nativeRow.intent, TRUE, nativeRow.by)
  BY <1>2, <1>3 DEF Rewritten, NativeRow
<1> QED
  BY <1>1, <1>4 DEF Bindable, RowBinds, RowStep

\* The result of the launcher, on an open Attempt or on an orphan.
LEMMA ResultRow ==
    ASSUME NativeInv, NEW t \in NativeThreads, CommitNativeResult(t)
    PROVE  RowStep
<1>1. nativeRow \in NativeRow /\ HasResult
  BY Relies DEF NativeInv, NativeTyped, CommitNativeResult, ArrivedOK
<1>2. PICK given, n : given = bundle.result /\ n = nativeRow.rv + 1 OBVIOUS
<1>3. given \in NativeConclusive
  BY <1>1, <1>2 DEF NativeInv, NativeTyped, NativeBundle, HasResult, Outcomes, NativeConclusive
<1>4. PICK result, control, orphaned :
          result = "result" /\ control = "control" /\ orphaned = "orphaned"
  OBVIOUS
<1>5. CASE /\ nativeRow.state \notin NativeTerminal \/ nativeRow.state = "orphaned"
           /\ nativeRow' = [nativeRow EXCEPT !.state = bundle.result, !.by = "result", !.rv = @ + 1]
  <2>1. nativeRow' = [nativeRow EXCEPT !.state = given, !.by = result, !.rv = n]
    BY <1>2, <1>4, <1>5
  <2>2. Rewritten(given, nativeRow.intent, nativeRow.bound, result)
    BY <1>1, <1>2, <2>1 DEF Rewritten, NativeRow
  <2> QED
    BY <1>3, <1>4, <1>5, <2>2 DEF RowConcludes, RowRecovers, RowStep, NativeTerminal
<1>6. CASE /\ nativeRow.state \notin NativeTerminal
           /\ nativeRow' = [nativeRow EXCEPT !.state = "orphaned", !.by = "control", !.rv = @ + 1]
  <2>1. nativeRow' = [nativeRow EXCEPT !.state = orphaned, !.by = control, !.rv = n]
    BY <1>2, <1>4, <1>6
  <2>2. Rewritten(orphaned, nativeRow.intent, nativeRow.bound, control)
    BY <1>1, <1>2, <2>1 DEF Rewritten, NativeRow
  <2> QED
    BY <1>4, <1>6, <2>2 DEF RowConcludes, RowStep, NativeTerminal
<1>7. CASE nativeRow' = nativeRow
  BY <1>7 DEF RowStep
<1> QED
  BY <1>5, <1>6, <1>7 DEF CommitNativeResult

\* The outer deadline.
LEMMA DeadlineRow ==
    ASSUME nativeRow \in NativeRow, NEW t, EnforceDeadline(t)
    PROVE  RowStep
<1>1. nativeRow' = nativeRow \/ nativeRow' = RequestDeadline
  BY DEF EnforceDeadline
<1>2. CASE nativeRow.state \in NativeTerminal \/ nativeRow.intent # "natural"
  BY <1>1, <1>2 DEF RequestDeadline, RowStep
<1>3. CASE /\ nativeRow.state \notin NativeTerminal /\ nativeRow.intent = "natural"
           /\ nativeRow' = RequestDeadline
  <2>1. PICK s, i, n : s = "stopping" /\ i = "deadline_exceeded" /\ n = nativeRow.rv + 1 OBVIOUS
  <2>2. nativeRow' = [nativeRow EXCEPT !.state = s, !.intent = i, !.rv = n]
    BY <1>3, <2>1 DEF RequestDeadline
  <2>3. Rewritten(s, i, nativeRow.bound, nativeRow.by)
    BY <2>1, <2>2 DEF Rewritten, NativeRow
  <2> QED
    BY <1>3, <2>1, <2>3 DEF RowStops, RowStep
<1> QED
  BY <1>1, <1>2, <1>3 DEF RowStep

\* A cancellation.
LEMMA CancelRewrites ==
    ASSUME nativeRow \in NativeRow, RequestNativeCancel
    PROVE  RowStep
<1>1. CASE nativeRow' = nativeRow
  BY <1>1 DEF RowStep
<1>2. CASE nativeRow' # nativeRow
  <2>1. PICK s, i, n :
           /\ s = (IF nativeRow.state = "orphaned" THEN "orphaned" ELSE "stopping")
           /\ i = "stop_requested" /\ n = nativeRow.rv + 1
    OBVIOUS
  <2>2. /\ nativeRow.state \notin NativeConclusive
        /\ nativeRow.state # "stopping" /\ nativeRow.intent # "stop_requested"
        /\ nativeRow' = [nativeRow EXCEPT !.intent = i, !.rv = n, !.state = s]
    BY <1>2, <2>1 DEF RequestNativeCancel
  <2>3. Rewritten(s, i, nativeRow.bound, nativeRow.by)
    BY <2>1, <2>2 DEF Rewritten, NativeRow
  <2>4. CASE nativeRow.state = "orphaned"
    BY <2>1, <2>2, <2>3, <2>4 DEF RowStopsOrphan, RowStep
  <2>5. CASE nativeRow.state # "orphaned"
    BY <2>1, <2>2, <2>3, <2>5 DEF RowStops, RowStep, NativeTerminal
  <2> QED
    BY <2>4, <2>5
<1> QED
  BY <1>1, <1>2

\* The end of an orphan.
LEMMA OrphanRow ==
    ASSUME nativeRow \in NativeRow, NEW t, ConcludeOrphan(t)
    PROVE  RowStep
<1>1. CASE nativeRow' = nativeRow
  BY <1>1 DEF RowStep
<1>2. CASE nativeRow' # nativeRow
  <2>1. PICK s \in NativeConclusive :
           s = CASE nativeRow.intent = "stop_requested" -> "cancelled"
                 [] nativeRow.intent = "deadline_exceeded" -> "timed_out"
                 [] OTHER -> "lost"
    BY DEF NativeConclusive
  <2>2. PICK by, n : by = "control" /\ n = nativeRow.rv + 1 OBVIOUS
  <2>3. /\ nativeRow.state = "orphaned"
        /\ nativeRow' = [nativeRow EXCEPT !.rv = n, !.by = by, !.state = s]
    BY <1>2, <2>1, <2>2 DEF ConcludeOrphan, RowUnchanged
  <2>4. Rewritten(s, nativeRow.intent, nativeRow.bound, by)
    BY <2>2, <2>3 DEF Rewritten, NativeRow
  <2> QED
    BY <2>2, <2>3, <2>4 DEF RowRecovers, RowStep
<1> QED
  BY <1>1, <1>2

\* Whatever a thread, the launcher or the target does to the row.
LEMMA StepsRewrite ==
    ASSUME NativeInv, [NativeNext]_nativeVars
    PROVE  RowStep
<1> nativeRow \in NativeRow
  BY DEF NativeInv, NativeTyped
<1>1. CASE RowUnchanged
  BY <1>1 DEF RowUnchanged, RowStep
<1>2. CASE BindDispatchOwner
  BY <1>1, <1>2, BoundStep DEF BindDispatchOwner
<1>3. CASE StartFailed
  BY <1>3, ControlRow DEF StartFailed, NativeTerminal, NativeConclusive
<1>4. ASSUME NEW t \in NativeThreads, ReconcileStep(t)
      PROVE  RowStep
  <2>1. CASE CommitNativeResult(t)
    BY <2>1, ResultRow
  <2>2. CASE BindWindowsStart(t)
    BY <1>1, <2>2, BoundStep DEF BindWindowsStart, RowUnchanged
  <2>3. CASE EnforceDeadline(t)
    BY <2>3, DeadlineRow
  <2>4. CASE CommitTimedOut(t)
    BY <1>1, <2>4, ControlRow DEF CommitTimedOut, NativeTerminal, NativeConclusive
  <2>5. CASE ConcludeOwner(t)
    <3>1. PICK class \in NativeTerminal \cup {"running"} :
             class = ClassifyLauncher(RowSeen(t), workers[t].probe)
      BY DEF ClassifyLauncher, NativeTerminal, NativeConclusive
    <3> QED
      BY <1>1, <2>5, <3>1, ControlRow DEF ConcludeOwner
  <2>6. CASE ConcludeOrphan(t)
    BY <2>6, OrphanRow
  <2> QED
    BY <1>1, <1>4, <2>1, <2>2, <2>3, <2>4, <2>5, <2>6
    DEF ReconcileStep, ReconcileNativeAttempt, ProbeStarting, ConcludeStarting, KillOwner,
        Killed, ProbeOwner, ProbeOrphan
<1>5. CASE RequestNativeCancel
  BY <1>5, CancelRewrites
<1>6. CASE ConcludeNativeCancel
  BY <1>1, <1>6, ControlRow DEF ConcludeNativeCancel, NativeTerminal, NativeConclusive
<1> QED
  BY <1>1, <1>2, <1>3, <1>4, <1>5, <1>6
  DEF NativeNext, nativeVars, RowUnchanged, SpawnWindowsNative, SpawnRefused, SpawnReplyLost,
      WriteLauncherStart, AwaitNativeEvidence, Reconcile, WriteNativeCancel, PollNativeCancel,
      ProbeNativeCancel, NativeCancelGivesUp, CreateTarget, ResumeTarget, TargetEnds,
      PublishResult, LauncherExits, PidReused, Tamper, Expire, NativeCrash, LauncherFrame

-----------------------------------------------------------------------------
(* How often the row can be rewritten: each transaction pays for its row   *)
(* version with something that never comes back.                           *)

Spent ==
    (IF nativeRow.bound THEN 1 ELSE 0)
    + (IF nativeRow.intent = "natural" THEN 0
       ELSE IF nativeRow.intent = "deadline_exceeded" THEN 1 ELSE 2)
    + (IF nativeRow.state \in NativeConclusive THEN 2
       ELSE IF nativeRow.state = "orphaned" THEN 1 ELSE 0)

RowOK ==
    /\ nativeRow.rv <= Spent
    /\ nativeRow.state = "stopping" => nativeRow.intent # "natural"

RowInv == NativeInv /\ RowOK

\* Every rewriting pays.
LEMMA RowPays ==
    ASSUME nativeRow \in NativeRow, RowOK, RowStep
    PROVE  RowOK'
<1>1. PICK r : r = nativeRow' OBVIOUS
<1>2. nativeRow.rv \in Nat /\ nativeRow.bound \in BOOLEAN /\ nativeRow.intent \in NativeIntents
  BY DEF NativeRow
<1>3. CASE UNCHANGED nativeRow
  BY <1>3 DEF RowOK, Spent
<1>4. CASE RowBinds
  BY <1>2, <1>4 DEF RowBinds, Rewritten, RowOK, Spent, NativeConclusive
<1>5. CASE RowConcludes
  BY <1>2, <1>5 DEF RowConcludes, Rewritten, RowOK, Spent, NativeTerminal, NativeConclusive
<1>6. CASE RowStops
  BY <1>2, <1>6
  DEF RowStops, Rewritten, RowOK, Spent, NativeTerminal, NativeConclusive, NativeIntents
<1>7. CASE RowStopsOrphan
  BY <1>2, <1>7 DEF RowStopsOrphan, Rewritten, RowOK, Spent, NativeConclusive, NativeIntents
<1>8. CASE RowRecovers
  BY <1>2, <1>8 DEF RowRecovers, Rewritten, RowOK, Spent, NativeConclusive
<1> QED
  BY <1>3, <1>4, <1>5, <1>6, <1>7, <1>8 DEF RowStep

\* Five transactions at most: the owner is bound once, the intent changes
\* twice, the Attempt is orphaned and recovered once.
LEMMA RowBounded ==
    ASSUME RowInv
    PROVE  nativeRow \in NativeRow /\ nativeRow.rv \in 0 .. 5
<1>1. nativeRow \in NativeRow /\ nativeRow.rv \in Nat
  BY DEF RowInv, NativeInv, NativeTyped, NativeRow
<1>2. Spent <= 5 /\ Spent \in Nat
  BY DEF Spent
<1> QED
  BY <1>1, <1>2 DEF RowInv, RowOK

\* In every reachable state the row version of a native Attempt is paid for
\* (NativeInv and RowOK together).
THEOREM RowInvariant == NativeSpec => []RowInv
<1>1. NativeInit => RowOK
  BY DEF NativeInit, RowOK, Spent, NativeConclusive
<1>2. NativeInv /\ RowOK /\ [NativeNext]_nativeVars => RowOK'
  BY StepsRewrite, RowPays DEF NativeInv, NativeTyped
<1>3. NativeInv /\ [NativeNext]_nativeVars => NativeInv'
  BY NativeKept
<1> QED
  BY <1>1, <1>2, <1>3, NativeStart, PTL DEF NativeSpec, RowInv

\* The row of a native Attempt, its launcher and its bundle keep their shape,
\* and no history of threads, faults and cancellations rewrites the row more
\* than five times (NativeTypeOK).
THEOREM NativeTypes == NativeSpec => []NativeTypeOK
<1>1. RowInv => NativeTypeOK
  <2> SUFFICES ASSUME RowInv PROVE NativeTypeOK
    OBVIOUS
  <2>1. nativeRow \in NativeRow /\ nativeRow.rv \in 0 .. 5
    BY RowBounded
  <2>2. nativeRow \in [state : NativeTerminal \cup {"starting", "running", "stopping"},
                       intent : {"natural", "stop_requested", "deadline_exceeded"},
                       bound : BOOLEAN, rv : 0 .. 5, by : {"none", "control", "result"}]
    BY <2>1 DEF NativeRow, NativeIntents
  <2> QED
    BY <2>2 DEF NativeTypeOK, RowInv, NativeInv, NativeTyped, NativeBundle, Launchers
<1> QED
  BY <1>1, RowInvariant, PTL

\* Whatever the dispatcher, the reconciler and a cancellation do to the row of
\* a native Attempt is a transaction of the Registry on one Job, under the row
\* version the row has (bind_supervisor_owner, request_deadline_termination,
\* request_cancel, commit_terminal, recover_orphaned_terminal).
THEOREM NativeTransacts == NativeSpec => NativeTransactions
<1>1. RowInv /\ [NativeNext]_nativeVars => [Table!Next]_(Table!registryVars)
  <2> SUFFICES ASSUME RowInv, [NativeNext]_nativeVars
               PROVE  [Table!Next]_(Table!registryVars)
    OBVIOUS
  <2>1. nativeRow \in NativeRow /\ nativeRow.rv \in 0 .. 5
    BY RowBounded
  <2>2. RowStep
    BY StepsRewrite DEF RowInv
  <2> QED
    BY <2>1, <2>2, RowStepTransacts
<1> QED
  BY <1>1, RowInvariant, PTL DEF NativeSpec, NativeTransactions

\* A conclusive verdict on a native Attempt is never rewritten, an orphan only
\* becomes conclusive, and a committed stop keeps its intent until the verdict.
THEOREM NativeVerdictIsFinal == NativeSpec => NativeVerdictFinal
<1> DEFINE Final ==
      /\ nativeRow.state \in NativeConclusive => UNCHANGED nativeRow
      /\ nativeRow.state = "orphaned" => nativeRow'.state \in NativeTerminal
      /\ nativeRow.state = "stopping" =>
            nativeRow'.state \in {"stopping"} \cup NativeTerminal
            /\ nativeRow'.intent = nativeRow.intent
<1>1. RowInv /\ [NativeNext]_nativeVars => Final
  <2> SUFFICES ASSUME RowInv, [NativeNext]_nativeVars PROVE Final
    OBVIOUS
  <2>1. RowStep
    BY StepsRewrite DEF RowInv
  <2>2. CASE UNCHANGED nativeRow
    BY <2>2 DEF NativeTerminal
  <2>3. CASE RowBinds
    BY <2>3 DEF RowBinds, Rewritten, NativeConclusive
  <2>4. CASE RowConcludes
    BY <2>4 DEF RowConcludes, Rewritten, NativeTerminal
  <2>5. CASE RowStops
    BY <2>5 DEF RowStops, Rewritten, NativeTerminal, RowInv, RowOK
  <2>6. CASE RowStopsOrphan
    BY <2>6 DEF RowStopsOrphan, Rewritten, NativeTerminal, NativeConclusive
  <2>7. CASE RowRecovers
    BY <2>7 DEF RowRecovers, Rewritten, NativeTerminal, NativeConclusive
  <2> QED
    BY <2>1, <2>2, <2>3, <2>4, <2>5, <2>6, <2>7 DEF RowStep
<1> QED
  BY <1>1, RowInvariant, PTL DEF NativeSpec, NativeVerdictFinal

=============================================================================
