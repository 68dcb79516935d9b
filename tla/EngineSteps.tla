---------------------------- MODULE EngineSteps ----------------------------
(***************************************************************************)
(* What the steps of the Engine do, row by row.  The actions of Engine     *)
(* update nested records; the lemmas here say once which fields of which   *)
(* row each kind of step leaves with which value, so that the invariants   *)
(* of EngineProofs are argued from fields and never from whole rows.       *)
(***************************************************************************)
EXTENDS Engine, RegistryProofs

USE NoneAssumption DEF Admitted, IsTerminal, Holding, Conclusive, Terminal,
    Dispatched, Nonterminal, AttemptStates, Intents, Bundle

-----------------------------------------------------------------------------
(* Moves of a thread.                                                      *)

\* Only thread t moves, to the row with these fields.
Moves(t, pc, job, seen, verdict, clean, then) ==
    /\ threads' \in [Threads -> ThreadRow]
    /\ \A u \in Threads \ {t} : threads'[u] = threads[u]
    /\ threads'[t].pc = pc
    /\ threads'[t].job = job
    /\ threads'[t].seen = seen
    /\ threads'[t].verdict = verdict
    /\ threads'[t].clean = clean
    /\ threads'[t].then = then

\* Where a request resumes when the function it was in returns.
Resting == {"idle", "clear", "record", "request_cancel", "cancel_target", "reconcile_job"}

\* Thread t forgets everything but the Job of its request.
Rests(t) ==
    \E pc \in Resting, job \in {None, Job(t)} :
        /\ Moves(t, pc, job, NoAttempt, None, FALSE, "return")
        /\ pc # "idle" => job = Job(t)

\* A thread row that replaces another.
LEMMA BecomeMoves ==
    ASSUME threads \in [Threads -> ThreadRow], NEW t \in Threads, NEW th \in ThreadRow,
           Become(t, th)
    PROVE  Moves(t, th.pc, th.job, th.seen, th.verdict, th.clean, th.then)
BY DEF Become, Moves

\* The blank Attempt row, and the row a thread reads, are Attempt rows.
LEMMA RecordRow ==
    ASSUME NEW row \in AttemptRow
    PROVE  /\ Record(row) \in AttemptRow
           /\ Record(row).state = row.state /\ Record(row).owner = row.owner
           /\ Record(row).intent = row.intent /\ Record(row).rv = row.rv
           /\ Record(row).bundle = row.bundle /\ Record(row).digest = row.digest
BY DEF Record, AttemptRow

\* The fields of the blank Attempt row.
LEMMA NoAttemptRow ==
    /\ NoAttempt \in AttemptRow
    /\ NoAttempt.state = None /\ NoAttempt.owner = None
    /\ NoAttempt.intent = "natural" /\ NoAttempt.rv = 0
BY DEF NoAttempt, AttemptRow

\* The idle thread.
LEMMA IdleRow ==
    /\ Idle \in ThreadRow /\ Idle.pc = "idle" /\ Idle.job = None
    /\ Idle.seen = NoAttempt /\ Idle.verdict = None /\ Idle.clean = FALSE
    /\ Idle.then = "return"
<1> DEFINE pc == "idle"
           seen == NoAttempt
           clean == FALSE
           then == "return"
<1>1. pc \in Pcs /\ seen \in AttemptRow /\ clean \in BOOLEAN /\ then \in Continuations
  BY NoAttemptRow DEF Continuations, Pcs
<1>2. Idle = [pc |-> pc, op |-> None, job |-> None, seen |-> seen,
              verdict |-> None, clean |-> clean, then |-> then]
  BY DEF Idle
<1> HIDE DEF pc, seen, clean, then
<1>3. /\ Idle \in ThreadRow /\ Idle.pc = pc /\ Idle.job = None
      /\ Idle.seen = seen /\ Idle.verdict = None /\ Idle.clean = clean
      /\ Idle.then = then
  BY <1>1, <1>2 DEF ThreadRow
<1> QED BY <1>3 DEF pc, seen, clean, then

\* A request that begins, or resumes, with nothing but its Job.
LEMMA BeginMoves ==
    ASSUME threads \in [Threads -> ThreadRow], NEW t \in Threads, NEW pc \in Pcs,
           NEW op \in Operating \cup {None}, NEW job \in Jobs \cup {None},
           NEW seen \in AttemptRow,
           \/ /\ Become(t, [Idle EXCEPT !.pc = pc, !.op = op, !.job = job])
              /\ seen = NoAttempt
           \/ /\ Become(t, [Idle EXCEPT !.pc = pc, !.job = job, !.op = op])
              /\ seen = NoAttempt
           \/ /\ Become(t, [Idle EXCEPT !.job = job, !.pc = pc, !.op = op])
              /\ seen = NoAttempt
           \/ Become(t, [Idle EXCEPT !.job = job, !.op = op, !.pc = pc, !.seen = seen])
    PROVE  Moves(t, pc, job, seen, None, FALSE, "return")
<1>1. PICK th \in ThreadRow :
         /\ Become(t, th)
         /\ th.pc = pc /\ th.job = job /\ th.seen = seen
         /\ th.verdict = None /\ th.clean = FALSE /\ th.then = "return"
  <2> DEFINE a == [Idle EXCEPT !.pc = pc, !.op = op, !.job = job]
             b == [Idle EXCEPT !.pc = pc, !.job = job, !.op = op]
             c == [Idle EXCEPT !.job = job, !.pc = pc, !.op = op]
             d == [Idle EXCEPT !.job = job, !.op = op, !.pc = pc, !.seen = seen]
  <2>1. /\ a \in ThreadRow /\ a.pc = pc /\ a.job = job /\ a.seen = NoAttempt
        /\ a.verdict = None /\ a.clean = FALSE /\ a.then = "return"
    BY IdleRow DEF ThreadRow
  <2>2. /\ b \in ThreadRow /\ b.pc = pc /\ b.job = job /\ b.seen = NoAttempt
        /\ b.verdict = None /\ b.clean = FALSE /\ b.then = "return"
    BY IdleRow DEF ThreadRow
  <2>3. /\ c \in ThreadRow /\ c.pc = pc /\ c.job = job /\ c.seen = NoAttempt
        /\ c.verdict = None /\ c.clean = FALSE /\ c.then = "return"
    BY IdleRow DEF ThreadRow
  <2>4. /\ d \in ThreadRow /\ d.pc = pc /\ d.job = job /\ d.seen = seen
        /\ d.verdict = None /\ d.clean = FALSE /\ d.then = "return"
    BY IdleRow DEF ThreadRow
  <2>5. \/ Become(t, a) /\ seen = NoAttempt
        \/ Become(t, b) /\ seen = NoAttempt
        \/ Become(t, c) /\ seen = NoAttempt
        \/ Become(t, d)
    OBVIOUS
  <2> HIDE DEF a, b, c, d
  <2> QED BY <2>1, <2>2, <2>3, <2>4, <2>5
<1> QED BY <1>1, BecomeMoves

\* Keep.
LEMMA KeepMoves ==
    ASSUME threads \in [Threads -> ThreadRow], NEW t \in Threads, NEW pc \in Pcs,
           Keep(t, pc)
    PROVE  Moves(t, pc, Job(t), Seen(t), Verdict(t), threads[t].clean, threads[t].then)
<1> DEFINE th == [threads[t] EXCEPT !.pc = pc]
<1>1. /\ th \in ThreadRow /\ th.pc = pc /\ th.job = Job(t) /\ th.seen = Seen(t)
      /\ th.verdict = Verdict(t) /\ th.clean = threads[t].clean
      /\ th.then = threads[t].then
  BY DEF ThreadRow, Job, Seen, Verdict
<1>2. Become(t, th)
  BY DEF Keep
<1> HIDE DEF th
<1> QED BY <1>1, <1>2, BecomeMoves

\* Goto.
LEMMA GotoMoves ==
    ASSUME threads \in [Threads -> ThreadRow], NEW t \in Threads, NEW pc \in Pcs,
           Goto(t, pc)
    PROVE  Moves(t, pc, Job(t), NoAttempt, None, FALSE, "return")
<1> DEFINE seen == NoAttempt
           verdict == None
           clean == FALSE
           then == "return"
<1>1. /\ seen \in AttemptRow /\ clean \in BOOLEAN /\ then \in Continuations
      /\ verdict \in Terminal \cup {"running", None}
  BY NoAttemptRow DEF Continuations
<1> DEFINE th == [threads[t] EXCEPT !.pc = pc, !.seen = seen, !.clean = clean,
                                    !.verdict = verdict, !.then = then]
<1>2. Become(t, th)
  BY DEF Goto
<1> HIDE DEF seen, verdict, clean, then
<1>3. /\ th \in ThreadRow /\ th.pc = pc /\ th.job = Job(t) /\ th.seen = seen
      /\ th.verdict = verdict /\ th.clean = clean /\ th.then = then
  BY <1>1 DEF ThreadRow, Job
<1> HIDE DEF th
<1>4. Moves(t, pc, Job(t), seen, verdict, clean, then)
  BY <1>2, <1>3, BecomeMoves
<1> QED BY <1>4 DEF seen, verdict, clean, then

\* Look.
LEMMA LookMoves ==
    ASSUME threads \in [Threads -> ThreadRow], NEW t \in Threads, NEW pc \in Pcs,
           Current(t) \in AttemptRow, Look(t, pc)
    PROVE  Moves(t, pc, Job(t), Record(Current(t)), Verdict(t), threads[t].clean,
                 threads[t].then)
<1> DEFINE seen == Record(Current(t))
           th == [threads[t] EXCEPT !.pc = pc, !.seen = seen]
<1>1. seen \in AttemptRow
  BY RecordRow
<1>2. Become(t, th)
  BY DEF Look
<1> HIDE DEF seen
<1>3. /\ th \in ThreadRow /\ th.pc = pc /\ th.job = Job(t) /\ th.seen = seen
      /\ th.verdict = Verdict(t) /\ th.clean = threads[t].clean
      /\ th.then = threads[t].then
  BY <1>1 DEF ThreadRow, Job, Verdict
<1> HIDE DEF th
<1>4. Moves(t, pc, Job(t), seen, Verdict(t), threads[t].clean, threads[t].then)
  BY <1>2, <1>3, BecomeMoves
<1> QED BY <1>4 DEF seen

\* A thread that takes over the row it has just written.
LEMMA AdoptMoves ==
    ASSUME threads \in [Threads -> ThreadRow], NEW t \in Threads, NEW pc \in Pcs,
           NEW row \in AttemptRow, Become(t, [threads[t] EXCEPT !.pc = pc, !.seen = row])
    PROVE  Moves(t, pc, Job(t), row, Verdict(t), threads[t].clean, threads[t].then)
<1> DEFINE th == [threads[t] EXCEPT !.pc = pc, !.seen = row]
<1>1. /\ th \in ThreadRow /\ th.pc = pc /\ th.job = Job(t) /\ th.seen = row
      /\ th.verdict = Verdict(t) /\ th.clean = threads[t].clean
      /\ th.then = threads[t].then
  BY DEF ThreadRow, Job, Verdict
<1>2. Become(t, th)
  OBVIOUS
<1> HIDE DEF th
<1> QED BY <1>1, <1>2, BecomeMoves

\* Decide.
LEMMA DecideMoves ==
    ASSUME threads \in [Threads -> ThreadRow], NEW t \in Threads, NEW pc \in Pcs,
           NEW verdict \in Terminal \cup {"running"}, Decide(t, pc, verdict)
    PROVE  Moves(t, pc, Job(t), Seen(t), verdict, threads[t].clean, threads[t].then)
<1> DEFINE th == [threads[t] EXCEPT !.pc = pc, !.verdict = verdict]
<1>1. /\ th \in ThreadRow /\ th.pc = pc /\ th.job = Job(t) /\ th.seen = Seen(t)
      /\ th.verdict = verdict /\ th.clean = threads[t].clean
      /\ th.then = threads[t].then
  BY DEF ThreadRow, Job, Seen
<1>2. Become(t, th)
  BY DEF Decide
<1> HIDE DEF th
<1> QED BY <1>1, <1>2, BecomeMoves

\* Control.
LEMMA ControlMoves ==
    ASSUME threads \in [Threads -> ThreadRow], NEW t \in Threads,
           NEW verdict \in Terminal, NEW then \in Continuations,
           Control(t, verdict, then)
    PROVE  Moves(t, "control", Job(t), NoAttempt, verdict, FALSE, then)
<1> DEFINE pc == "control"
           seen == NoAttempt
           clean == FALSE
<1>1. pc \in Pcs /\ seen \in AttemptRow /\ clean \in BOOLEAN
  BY NoAttemptRow DEF Pcs
<1> DEFINE th == [threads[t] EXCEPT !.pc = pc, !.seen = seen, !.clean = clean,
                                    !.verdict = verdict, !.then = then]
<1>2. Become(t, th)
  BY DEF Control
<1> HIDE DEF pc, seen, clean
<1>3. /\ th \in ThreadRow /\ th.pc = pc /\ th.job = Job(t) /\ th.seen = seen
      /\ th.verdict = verdict /\ th.clean = clean /\ th.then = then
  BY <1>1 DEF ThreadRow, Job
<1> HIDE DEF th
<1>4. Moves(t, pc, Job(t), seen, verdict, clean, then)
  BY <1>2, <1>3, BecomeMoves
<1> QED BY <1>4 DEF pc, seen, clean

\* Prepare.
LEMMA PrepareMoves ==
    ASSUME threads \in [Threads -> ThreadRow], NEW t \in Threads, NEW pc \in Pcs,
           Current(t) \in AttemptRow, Prepare(t, pc)
    PROVE  Moves(t, pc, Job(t), Record(Current(t)), Verdict(t),
                 TerminalClean(Current(t), Job(t)), threads[t].then)
<1> DEFINE clean == TerminalClean(Current(t), Job(t))
           seen == Record(Current(t))
           th == [threads[t] EXCEPT !.pc = pc, !.seen = seen, !.clean = clean]
<1>1. clean \in BOOLEAN /\ seen \in AttemptRow
  BY RecordRow DEF TerminalClean
<1>2. Become(t, th)
  BY DEF Prepare
<1> HIDE DEF clean, seen
<1>3. /\ th \in ThreadRow /\ th.pc = pc /\ th.job = Job(t) /\ th.seen = seen
      /\ th.verdict = Verdict(t) /\ th.clean = clean
      /\ th.then = threads[t].then
  BY <1>1 DEF ThreadRow, Job, Verdict
<1> HIDE DEF th
<1>4. Moves(t, pc, Job(t), seen, Verdict(t), clean, threads[t].then)
  BY <1>2, <1>3, BecomeMoves
<1> QED BY <1>4 DEF clean, seen

\* cancel_job changes how the recovery, or the commit of a result, returns.
LEMMA ThenMoves ==
    ASSUME threads \in [Threads -> ThreadRow], NEW t \in Threads, NEW pc \in Pcs,
           NEW then \in Continuations
    PROVE  /\ Become(t, [threads[t] EXCEPT !.pc = pc, !.then = then]) =>
                 Moves(t, pc, Job(t), Seen(t), Verdict(t), threads[t].clean, then)
           /\ \A row \in AttemptRow :
                 Become(t, [threads[t] EXCEPT !.pc = pc, !.seen = row, !.then = then]) =>
                    Moves(t, pc, Job(t), row, Verdict(t), threads[t].clean, then)
<1>1. ASSUME Become(t, [threads[t] EXCEPT !.pc = pc, !.then = then])
      PROVE  Moves(t, pc, Job(t), Seen(t), Verdict(t), threads[t].clean, then)
  <2> DEFINE th == [threads[t] EXCEPT !.pc = pc, !.then = then]
  <2>1. /\ th \in ThreadRow /\ th.pc = pc /\ th.job = Job(t) /\ th.seen = Seen(t)
        /\ th.verdict = Verdict(t) /\ th.clean = threads[t].clean /\ th.then = then
    BY DEF ThreadRow, Job, Seen, Verdict
  <2>2. Become(t, th)
    BY <1>1
  <2> HIDE DEF th
  <2> QED BY <2>1, <2>2, BecomeMoves
<1>2. ASSUME NEW row \in AttemptRow,
             Become(t, [threads[t] EXCEPT !.pc = pc, !.seen = row, !.then = then])
      PROVE  Moves(t, pc, Job(t), row, Verdict(t), threads[t].clean, then)
  <2> DEFINE th == [threads[t] EXCEPT !.pc = pc, !.seen = row, !.then = then]
  <2>1. /\ th \in ThreadRow /\ th.pc = pc /\ th.job = Job(t) /\ th.seen = row
        /\ th.verdict = Verdict(t) /\ th.clean = threads[t].clean /\ th.then = then
    BY DEF ThreadRow, Job, Verdict
  <2>2. Become(t, th)
    BY <1>2
  <2> HIDE DEF th
  <2> QED BY <2>1, <2>2, BecomeMoves
<1> QED BY <1>1, <1>2

\* Return.
LEMMA ReturnRests ==
    ASSUME threads \in [Threads -> ThreadRow], NEW t \in Threads,
           NEW outcome \in {"ok", "error", "mismatch"}, Return(t, outcome)
    PROVE  Rests(t)
<1> DEFINE op == threads[t].op
           pc == ReturnTo(op, outcome)
           next == IF op = "run" THEN "observe" ELSE op
           th == [Idle EXCEPT !.pc = pc, !.job = Job(t), !.op = next]
<1>1. pc \in Resting
  BY DEF ReturnTo, Resting
<1>2. /\ Job(t) \in Jobs \cup {None}
      /\ next \in Operating \cup {None}
  BY DEF ThreadRow, Job, Operating
<1>3. Become(t, IF pc = "idle" THEN Idle ELSE th)
  BY DEF Return
<1> HIDE DEF pc, next
<1>4. CASE pc = "idle"
  <2>1. Become(t, Idle)
    BY <1>3, <1>4
  <2>2. Moves(t, "idle", None, NoAttempt, None, FALSE, "return")
    BY <2>1, IdleRow, BecomeMoves
  <2> QED BY <2>2 DEF Rests, Resting
<1>5. CASE pc # "idle"
  <2>1. pc \in Pcs /\ NoAttempt \in AttemptRow
    BY <1>1, NoAttemptRow DEF Resting, Pcs
  <2>2. Become(t, th)
    BY <1>3, <1>5
  <2>3. Moves(t, pc, Job(t), NoAttempt, None, FALSE, "return")
    BY <1>2, <2>1, <2>2, BeginMoves
  <2> QED BY <1>1, <2>3 DEF Rests
<1> QED BY <1>4, <1>5

-----------------------------------------------------------------------------
(* Effects of the Registry's methods on the rows of one Job.               *)

\* Only the rows of Job j change; its Attempt row and the desired state of
\* its Job row end with these values, under the same or the next version.
Rewrites(j, state, intent, owner, digest, desired) ==
    /\ \A i \in Jobs \ {j} :
          attempts'[i] = attempts[i] /\ jobs'[i].desired = jobs[i].desired
    /\ attempts'[j].state = state
    /\ attempts'[j].intent = intent
    /\ attempts'[j].owner = owner
    /\ attempts'[j].digest = digest
    /\ jobs'[j].desired = desired
    /\ attempts'[j].rv \in {attempts[j].rv, attempts[j].rv + 1}

\* The versioned update, field by field.
LEMMA UpdateFields ==
    ASSUME TypeOK, NEW j \in Jobs, NEW row \in AttemptRow, row.rv = attempts[j].rv,
           Update(j, row), \A i \in Jobs \ {j} : jobs'[i].desired = jobs[i].desired
    PROVE  Rewrites(j, row.state, row.intent, row.owner, row.digest, jobs'[j].desired)
<1>1. /\ attempts'[j].rv = row.rv + 1
      /\ attempts'[j].state = row.state /\ attempts'[j].intent = row.intent
      /\ attempts'[j].owner = row.owner /\ attempts'[j].digest = row.digest
      /\ \A i \in Jobs \ {j} : attempts'[i] = attempts[i]
  BY DEF Update, TypeOK, AttemptRow
<1> QED BY <1>1 DEF Rewrites

\* mark_bundle_ready.
LEMMA BundleEffect ==
    ASSUME TypeOK, NEW j \in Jobs, NEW v, MarkBundleReady(j, v)
    PROVE  Rewrites(j, "accepted", attempts[j].intent, attempts[j].owner,
                    attempts[j].digest, jobs[j].desired)
<1> DEFINE row == [attempts[j] EXCEPT !.bundle = Bundle]
<1>0. attempts[j] \in AttemptRow
  BY DEF TypeOK
<1>1. /\ row \in AttemptRow /\ row.rv = attempts[j].rv /\ row.state = attempts[j].state
      /\ row.intent = attempts[j].intent /\ row.owner = attempts[j].owner
      /\ row.digest = attempts[j].digest
  BY <1>0 DEF AttemptRow
<1>2. Update(j, row) /\ UNCHANGED jobs /\ attempts[j].state = "accepted"
  BY DEF MarkBundleReady
<1> HIDE DEF row
<1>3. Rewrites(j, row.state, row.intent, row.owner, row.digest, jobs[j].desired)
  BY <1>1, <1>2, UpdateFields
<1> QED BY <1>1, <1>2, <1>3

\* mark_dispatch_issued.
LEMMA DispatchEffect ==
    ASSUME TypeOK, NEW j \in Jobs, NEW v, MarkDispatchIssued(j, v)
    PROVE  Rewrites(j, "starting", attempts[j].intent, attempts[j].owner,
                    attempts[j].digest, jobs[j].desired)
<1> DEFINE row == [attempts[j] EXCEPT !.state = "starting"]
<1>0. attempts[j] \in AttemptRow
  BY DEF TypeOK
<1>1. /\ row \in AttemptRow /\ row.rv = attempts[j].rv /\ row.state = "starting"
      /\ row.intent = attempts[j].intent /\ row.owner = attempts[j].owner
      /\ row.digest = attempts[j].digest
  BY <1>0 DEF AttemptRow
<1>2. Update(j, row) /\ UNCHANGED jobs
  BY DEF MarkDispatchIssued
<1> HIDE DEF row
<1>3. Rewrites(j, row.state, row.intent, row.owner, row.digest, jobs[j].desired)
  BY <1>1, <1>2, UpdateFields
<1> QED BY <1>1, <1>3

\* bind_running.
LEMMA BindEffect ==
    ASSUME TypeOK, NEW j \in Jobs, NEW v, NEW o \in Owners, BindRunning(j, v, o)
    PROVE  Rewrites(j, "running", attempts[j].intent, o,
                    attempts[j].digest, jobs[j].desired)
<1> DEFINE row == [attempts[j] EXCEPT !.state = "running", !.owner = o]
<1>0. attempts[j] \in AttemptRow
  BY DEF TypeOK
<1>1. /\ row \in AttemptRow /\ row.rv = attempts[j].rv /\ row.state = "running"
      /\ row.intent = attempts[j].intent /\ row.owner = o
      /\ row.digest = attempts[j].digest
  BY <1>0 DEF AttemptRow
<1>2. Update(j, row) /\ UNCHANGED jobs
  BY DEF BindRunning
<1> HIDE DEF row
<1>3. Rewrites(j, row.state, row.intent, row.owner, row.digest, jobs[j].desired)
  BY <1>1, <1>2, UpdateFields
<1> QED BY <1>1, <1>3

\* commit_terminal and recover_orphaned_terminal.
LEMMA VerdictEffect ==
    ASSUME TypeOK, NEW j \in Jobs, NEW v, NEW state \in Terminal, NEW d \in Digests,
           NEW kinds,
           \/ CommitTerminal(j, v, state, d, kinds)
           \/ RecoverOrphanedTerminal(j, v, state, d, kinds)
    PROVE  Rewrites(j, state, attempts[j].intent, attempts[j].owner, d, jobs[j].desired)
<1> DEFINE row == [attempts[j] EXCEPT !.state = state, !.digest = d]
<1>0. attempts[j] \in AttemptRow /\ jobs \in [Jobs -> JobRow]
  BY DEF TypeOK
<1>1. /\ row \in AttemptRow /\ row.rv = attempts[j].rv /\ row.state = state
      /\ row.intent = attempts[j].intent /\ row.owner = attempts[j].owner
      /\ row.digest = d
  BY <1>0 DEF AttemptRow
<1>2. Update(j, row)
  BY DEF CommitTerminal, RecoverOrphanedTerminal
<1>3. \A i \in Jobs : jobs'[i].desired = jobs[i].desired
  <2>1. CASE CommitTerminal(j, v, state, d, kinds)
    BY <1>0, <2>1 DEF CommitTerminal, JobRow
  <2>2. CASE RecoverOrphanedTerminal(j, v, state, d, kinds)
    BY <1>0, <2>2 DEF RecoverOrphanedTerminal, JobRow
  <2> QED BY <2>1, <2>2
<1> HIDE DEF row
<1>4. Rewrites(j, row.state, row.intent, row.owner, row.digest, jobs'[j].desired)
  BY <1>1, <1>2, <1>3, UpdateFields
<1> QED BY <1>1, <1>3, <1>4

\* request_cancel before dispatch.
LEMMA CancelAcceptedEffect ==
    ASSUME TypeOK, NEW j \in Jobs, NEW d \in Digests, CancelAccepted(j, d)
    PROVE  Rewrites(j, "cancelled", "stop_requested", attempts[j].owner, d, "cancelled")
<1> DEFINE row == [attempts[j] EXCEPT !.state = "cancelled",
                       !.intent = "stop_requested", !.digest = d]
<1>0. attempts[j] \in AttemptRow /\ jobs \in [Jobs -> JobRow]
  BY DEF TypeOK
<1>1. /\ row \in AttemptRow /\ row.rv = attempts[j].rv /\ row.state = "cancelled"
      /\ row.intent = "stop_requested" /\ row.owner = attempts[j].owner
      /\ row.digest = d
  BY <1>0 DEF AttemptRow
<1>2. Update(j, row)
  BY DEF CancelAccepted
<1>3. /\ jobs'[j].desired = "cancelled"
      /\ \A i \in Jobs \ {j} : jobs'[i].desired = jobs[i].desired
  BY <1>0 DEF CancelAccepted, JobRow
<1> HIDE DEF row
<1>4. Rewrites(j, row.state, row.intent, row.owner, row.digest, jobs'[j].desired)
  BY <1>1, <1>2, <1>3, UpdateFields
<1> QED BY <1>1, <1>3, <1>4

\* request_cancel of a dispatched Attempt.
LEMMA CancelDispatchedEffect ==
    ASSUME TypeOK, NEW j \in Jobs, CancelDispatched(j)
    PROVE  \E intent \in Intents :
              Rewrites(j, "stopping", intent, attempts[j].owner, attempts[j].digest,
                       "cancelled")
<1>0. attempts[j] \in AttemptRow /\ jobs \in [Jobs -> JobRow]
  BY DEF TypeOK
<1>1. /\ jobs'[j].desired = "cancelled"
      /\ \A i \in Jobs \ {j} : jobs'[i].desired = jobs[i].desired
  BY <1>0 DEF CancelDispatched, JobRow
<1>2. CASE attempts[j].state = "stopping"
  <2>1. UNCHANGED attempts /\ attempts[j].intent \in Intents
    BY <1>0, <1>2 DEF CancelDispatched, AttemptRow
  <2>2. attempts'[j].rv \in {attempts[j].rv, attempts[j].rv + 1}
    BY <2>1
  <2>3. Rewrites(j, "stopping", attempts[j].intent, attempts[j].owner, attempts[j].digest,
                 "cancelled")
    BY <1>1, <1>2, <2>1, <2>2 DEF Rewrites
  <2> QED BY <2>1, <2>3
<1>3. CASE attempts[j].state # "stopping"
  <2> DEFINE row == [attempts[j] EXCEPT !.state = "stopping", !.intent = "stop_requested"]
  <2>1. /\ row \in AttemptRow /\ row.rv = attempts[j].rv /\ row.state = "stopping"
        /\ row.intent = "stop_requested" /\ row.owner = attempts[j].owner
        /\ row.digest = attempts[j].digest
    BY <1>0 DEF AttemptRow
  <2>2. Update(j, row)
    BY <1>3 DEF CancelDispatched
  <2> HIDE DEF row
  <2>3. Rewrites(j, row.state, row.intent, row.owner, row.digest, jobs'[j].desired)
    BY <1>1, <2>1, <2>2, UpdateFields
  <2> QED BY <1>1, <2>1, <2>3
<1> QED BY <1>2, <1>3

\* request_cancel of an orphan.
LEMMA CancelOrphanedEffect ==
    ASSUME TypeOK, NEW j \in Jobs, CancelOrphaned(j)
    PROVE  Rewrites(j, "orphaned", "stop_requested", attempts[j].owner,
                    attempts[j].digest, "cancelled")
<1>0. attempts[j] \in AttemptRow /\ jobs \in [Jobs -> JobRow]
  BY DEF TypeOK
<1>1. /\ jobs'[j].desired = "cancelled"
      /\ \A i \in Jobs \ {j} : jobs'[i].desired = jobs[i].desired
      /\ attempts[j].state = "orphaned"
  BY <1>0 DEF CancelOrphaned, JobRow
<1>2. CASE attempts[j].intent = "stop_requested"
  <2>1. UNCHANGED attempts
    BY <1>2 DEF CancelOrphaned
  <2>2. attempts'[j].rv \in {attempts[j].rv, attempts[j].rv + 1}
    BY <2>1
  <2> QED BY <1>1, <1>2, <2>1, <2>2 DEF Rewrites
<1>3. CASE attempts[j].intent # "stop_requested"
  <2> DEFINE row == [attempts[j] EXCEPT !.intent = "stop_requested"]
  <2>1. /\ row \in AttemptRow /\ row.rv = attempts[j].rv
        /\ row.state = attempts[j].state
        /\ row.intent = "stop_requested" /\ row.owner = attempts[j].owner
        /\ row.digest = attempts[j].digest
    BY <1>0 DEF AttemptRow
  <2>2. Update(j, row)
    BY <1>3 DEF CancelOrphaned
  <2> HIDE DEF row
  <2>3. Rewrites(j, row.state, row.intent, row.owner, row.digest, jobs'[j].desired)
    BY <1>1, <2>1, <2>2, UpdateFields
  <2> QED BY <1>1, <2>1, <2>3
<1> QED BY <1>2, <1>3

\* record_reconciliation_failure and clear_reconciliation_failure.
LEMMA FlagEffect ==
    ASSUME TypeOK, NEW j \in Jobs,
           RecordReconciliationFailure(j) \/ ClearReconciliationFailure(j)
    PROVE  Rewrites(j, attempts[j].state, attempts[j].intent, attempts[j].owner,
                    attempts[j].digest, jobs[j].desired)
<1>0. attempts[j] \in AttemptRow
  BY DEF TypeOK
<1>1. PICK f \in {0, 1} : attempts' = [attempts EXCEPT ![j].recovery = f]
  BY DEF RecordReconciliationFailure, ClearReconciliationFailure
<1> DEFINE row == [attempts[j] EXCEPT !.recovery = f]
<1>2. /\ attempts'[j] = row /\ \A i \in Jobs \ {j} : attempts'[i] = attempts[i]
  BY <1>1 DEF TypeOK
<1>3. /\ row.state = attempts[j].state /\ row.rv = attempts[j].rv
      /\ row.intent = attempts[j].intent /\ row.owner = attempts[j].owner
      /\ row.digest = attempts[j].digest
  BY <1>0 DEF AttemptRow
<1>4. UNCHANGED jobs
  BY DEF RecordReconciliationFailure, ClearReconciliationFailure
<1> HIDE DEF row
<1> QED BY <1>2, <1>3, <1>4 DEF Rewrites

\* submit_preallocated.
LEMMA SubmitEffect ==
    ASSUME Consistent, NEW j \in Jobs, NEW k, NEW op, NEW limit, Submit(j, k, op, limit)
    PROVE  Rewrites(j, "accepted", "natural", None, None, "run") /\ ~Admitted(j)
<1> DEFINE row == [NoAttempt EXCEPT !.state = "accepted"]
           job == [NoJob EXCEPT !.key = k, !.op = op, !.limit = limit, !.current = j]
<1>1. /\ attempts'[j] = row /\ jobs'[j] = job
      /\ \A i \in Jobs \ {j} : attempts'[i] = attempts[i] /\ jobs'[i] = jobs[i]
      /\ ~Admitted(j)
  BY DEF Submit, Consistent, TypeOK
<1>2. /\ row.state = "accepted" /\ row.intent = "natural" /\ row.owner = None
      /\ row.digest = None /\ row.rv = 0 /\ job.desired = "run"
  BY DEF NoAttempt, NoJob
<1>3. attempts[j].rv = 0
  BY <1>1, NoAttemptRow DEF Consistent, BlankRows
<1> HIDE DEF row, job
<1> QED BY <1>1, <1>2, <1>3 DEF Rewrites

-----------------------------------------------------------------------------
(* What no step undoes.                                                    *)

IsConclusive(j) == attempts[j].state \in Conclusive
Undispatched(j) == attempts[j].state \in {None, "accepted"}
Desired(j) == jobs[j].desired = "cancelled"

\* The rows of Job j only move forward.
RowsAdvance(j) ==
    /\ Admitted(j) => Admitted(j)'
    /\ IsTerminal(j) => IsTerminal(j)'
    /\ IsConclusive(j) => IsConclusive(j)'
    /\ ~Undispatched(j) => ~Undispatched(j)'
    /\ Desired(j) => Desired(j)'
    /\ attempts[j].rv <= attempts'[j].rv
    /\ Admitted(j) /\ attempts'[j].rv = attempts[j].rv
          => attempts'[j].owner = attempts[j].owner

\* A cancellation, once desired, stays desired.
LEMMA DesiredStays ==
    ASSUME Consistent, [Transaction]_registryVars, NEW i \in Jobs, Desired(i)
    PROVE  Desired(i)'
<1>0. jobs \in [Jobs -> JobRow] /\ TypeOK
  BY DEF Consistent, TypeOK
<1>1. ASSUME NEW j \in Jobs, NEW k \in Keys, NEW op \in Operations,
             NEW limit \in Limits, Submit(j, k, op, limit)
      PROVE  Desired(i)'
  <2>1. /\ ~Admitted(j)
        /\ \A x \in Jobs \ {j} : jobs'[x].desired = jobs[x].desired
    BY <1>1, SubmitEffect DEF Rewrites
  <2>2. i # j
    BY <2>1 DEF Desired, Consistent, BlankRows, NoJob
  <2> QED BY <2>1, <2>2 DEF Desired
<1>2. ASSUME NEW j \in Jobs, NEW v \in Nat, NEW state \in Terminal, NEW d \in Digests,
             NEW kinds \in SUBSET Kinds,
             \/ CommitTerminal(j, v, state, d, kinds)
             \/ RecoverOrphanedTerminal(j, v, state, d, kinds)
      PROVE  Desired(i)'
  BY <1>0, <1>2, VerdictEffect DEF Desired, Rewrites
<1>3. ASSUME NEW j \in Jobs, NEW d \in Digests, RequestCancel(j, d)
      PROVE  Desired(i)'
  BY <1>0, <1>3, CancelAcceptedEffect, CancelDispatchedEffect, CancelOrphanedEffect
     DEF Desired, Rewrites, RequestCancel
<1>4. CASE UNCHANGED <<jobs, reservations>>
  BY <1>4 DEF Desired
<1> QED BY <1>1, <1>2, <1>3, <1>4, VisibleSteps

\* Every transaction moves every row forward.
LEMMA RowsOnlyAdvance ==
    ASSUME Consistent, StoppingIntended, [Transaction]_registryVars, NEW j \in Jobs
    PROVE  RowsAdvance(j)
<1>1. RowChange(attempts[j], attempts'[j]) /\ attempts[j] \in AttemptRow
  BY StepChange DEF Consistent, TypeOK
<1>2. attempts'[j] \in AttemptRow
  BY TransactionConsistent DEF Consistent, TypeOK
<1>3. ~Admitted(j) => attempts[j].rv = 0
  BY NoAttemptRow DEF Consistent, BlankRows
<1>4. ASSUME NEW f \in {0, 1}, attempts'[j] = [attempts[j] EXCEPT !.recovery = f]
      PROVE  /\ attempts'[j].state = attempts[j].state /\ attempts'[j].rv = attempts[j].rv
             /\ attempts'[j].owner = attempts[j].owner
  BY <1>1, <1>4 DEF AttemptRow
<1>5. attempts[j].rv \in Nat /\ attempts'[j].rv \in Nat
  BY <1>1, <1>2 DEF AttemptRow
<1>6. /\ Admitted(j) => Admitted(j)'
      /\ IsTerminal(j) => IsTerminal(j)'
      /\ IsConclusive(j) => IsConclusive(j)'
      /\ ~Undispatched(j) => ~Undispatched(j)'
  BY <1>1, <1>4 DEF RowChange, Advance, IsConclusive, Undispatched
<1>7. /\ attempts[j].rv <= attempts'[j].rv
      /\ Admitted(j) /\ attempts'[j].rv = attempts[j].rv
            => attempts'[j].owner = attempts[j].owner
  BY <1>1, <1>3, <1>4, <1>5 DEF RowChange
<1> QED BY <1>6, <1>7, DesiredStays DEF RowsAdvance

-----------------------------------------------------------------------------
(* The host: unit, Runner, payload and evidence files of one Attempt.      *)

BundleRows == BundleRow(EvidenceDigests \cup {None})
HostTyped == hosts \in [Jobs -> HostRow] /\ bundles \in [Jobs -> BundleRows]

\* The Attempt started once and nothing of its control group is left; and
\* neither is its unit active.
Gone(j) == bundles[j].start /\ ~CgroupPopulated(j)
Vacant(j) == Gone(j) /\ ~UnitIsActive(j)

\* The Runner is past its check of the cancel file, or there will never be
\* one that comes to it; or the check will find the file.
PastCheck(j) ==
    /\ hosts[j].launches # 0 /\ hosts[j].unit # "queued"
    /\ hosts[j].runner \notin {"fresh", "started"}
Settled(j) == bundles[j].cancel \/ PastCheck(j)

\* How unit, Runner and evidence files of one Attempt fit together.
HostOK(j) ==
    /\ hosts[j].launches = 0 =>
          /\ hosts[j].unit = "absent" /\ hosts[j].runner = "absent" /\ ~hosts[j].payload
          /\ bundles[j].result = None
    /\ hosts[j].unit = "queued" => hosts[j].runner = "absent"
    /\ hosts[j].unit \in {"absent", "failed"} => ~RunnerAlive(j)
    /\ hosts[j].unit \in {"stopping", "failing"} /\ hosts[j].runner \in {"fresh", "started"}
          => bundles[j].cancel
    /\ bundles[j].start => hosts[j].runner \notin {"absent", "fresh"}
    /\ bundles[j].result = "cancelled" => bundles[j].cancel

\* What no step of the host or of the Engine takes back.
HostAdvances(j) ==
    /\ bundles[j].start => bundles'[j].start
    /\ bundles[j].cancel => bundles'[j].cancel
    /\ bundles[j].result # None => bundles'[j].result # None
    /\ hosts[j].launches # 0 => hosts'[j].launches # 0
    /\ Gone(j) => Gone(j)'
    /\ Vacant(j) => Vacant(j)'
    /\ PastCheck(j) => PastCheck(j)'

\* Only the unit and the processes of Attempt j change, to these values.
HostBecomes(j, unit, runner, payload, launches) ==
    /\ hosts' \in [Jobs -> HostRow]
    /\ \A i \in Jobs \ {j} : hosts'[i] = hosts[i]
    /\ hosts'[j].unit = unit /\ hosts'[j].runner = runner
    /\ hosts'[j].payload = payload /\ hosts'[j].launches = launches

\* Only the files of Attempt j change, to these contents.
BundleBecomes(j, start, result, cancel, control, clean) ==
    /\ bundles' \in [Jobs -> BundleRows]
    /\ \A i \in Jobs \ {j} : bundles'[i] = bundles[i]
    /\ bundles'[j].start = start /\ bundles'[j].result = result
    /\ bundles'[j].cancel = cancel /\ bundles'[j].control = control
    /\ bundles'[j].clean = clean

\* A step that leaves a table alone.
LEMMA HostStays ==
    ASSUME HostTyped, NEW j \in Jobs
    PROVE  /\ UNCHANGED hosts => HostBecomes(j, hosts[j].unit, hosts[j].runner,
                                             hosts[j].payload, hosts[j].launches)
           /\ UNCHANGED bundles =>
                 BundleBecomes(j, bundles[j].start, bundles[j].result, bundles[j].cancel,
                               bundles[j].control, bundles[j].clean)
BY DEF HostTyped, HostBecomes, BundleBecomes

\* What systemd does to a unit.
LEMMA SystemdEffect ==
    ASSUME HostTyped, NEW j \in Jobs
    PROVE  /\ EnqueueUnit(j) => HostBecomes(j, "queued", hosts[j].runner, hosts[j].payload,
                                            hosts[j].launches + 1)
           /\ StartUnit(j) => HostBecomes(j, "active", "fresh", hosts[j].payload,
                                          hosts[j].launches)
           /\ UnitNoticesExit(j) =>
                 \E unit \in UnitStates \ {"active", "queued"} :
                    HostBecomes(j, unit, hosts[j].runner, hosts[j].payload, hosts[j].launches)
           /\ UnitExpires(j) => HostBecomes(j, "failing", hosts[j].runner, hosts[j].payload,
                                            hosts[j].launches)
           /\ UnitReaped(j) => \E unit \in {"absent", "failed"} :
                                  HostBecomes(j, unit, "dead", FALSE, hosts[j].launches)
<1> USE DEF HostTyped, HostRow, HostBecomes, UnitStates, Alive
<1>1. ASSUME EnqueueUnit(j)
      PROVE  HostBecomes(j, "queued", hosts[j].runner, hosts[j].payload, hosts[j].launches + 1)
  BY <1>1 DEF EnqueueUnit
<1>2. ASSUME StartUnit(j)
      PROVE  HostBecomes(j, "active", "fresh", hosts[j].payload, hosts[j].launches)
  BY <1>2 DEF StartUnit
<1>3. ASSUME UnitNoticesExit(j)
      PROVE  \E unit \in UnitStates \ {"active", "queued"} :
                HostBecomes(j, unit, hosts[j].runner, hosts[j].payload, hosts[j].launches)
  <2>1. PICK unit \in {"stopping", "failing", "absent", "failed"} :
               hosts' = [hosts EXCEPT ![j].unit = unit]
    BY <1>3 DEF UnitNoticesExit
  <2>2. HostBecomes(j, unit, hosts[j].runner, hosts[j].payload, hosts[j].launches)
    BY <2>1
  <2> QED BY <2>2
<1>4. ASSUME UnitExpires(j)
      PROVE  HostBecomes(j, "failing", hosts[j].runner, hosts[j].payload, hosts[j].launches)
  BY <1>4 DEF UnitExpires
<1>5. ASSUME UnitReaped(j)
      PROVE  \E unit \in {"absent", "failed"} :
                HostBecomes(j, unit, "dead", FALSE, hosts[j].launches)
  <2>1. PICK unit \in {"absent", "failed"} :
               hosts' = [hosts EXCEPT ![j].unit = unit, ![j].runner = "dead",
                                      ![j].payload = FALSE]
    BY <1>5 DEF UnitReaped
  <2> DEFINE row == [hosts[j] EXCEPT !.unit = unit, !.runner = "dead", !.payload = FALSE]
  <2>2. hosts' = [hosts EXCEPT ![j] = row]
    BY <2>1
  <2>3. /\ row \in HostRow /\ row.unit = unit /\ row.runner = "dead" /\ row.payload = FALSE
        /\ row.launches = hosts[j].launches
    OBVIOUS
  <2> HIDE DEF row
  <2>4. HostBecomes(j, unit, "dead", FALSE, hosts[j].launches)
    BY <2>2, <2>3
  <2> QED BY <2>4
<1> HIDE DEF HostBecomes
<1> QED BY <1>1, <1>2, <1>3, <1>4, <1>5

\* Writing the Runner's state, and writing its result.
LEMMA RunnerFields ==
    ASSUME HostTyped, NEW j \in Jobs, NEW runner \in Alive \cup {"dead"}
    PROVE  /\ hosts' = [hosts EXCEPT ![j].runner = runner] =>
                 HostBecomes(j, hosts[j].unit, runner, hosts[j].payload, hosts[j].launches)
           /\ \A payload \in BOOLEAN :
                 hosts' = [hosts EXCEPT ![j].runner = runner, ![j].payload = payload] =>
                    HostBecomes(j, hosts[j].unit, runner, payload, hosts[j].launches)
BY DEF HostTyped, HostRow, HostBecomes

\* A bundle directory that replaces another.
LEMMA BundleFields ==
    ASSUME HostTyped, NEW j \in Jobs, NEW row \in BundleRows,
           bundles' = [bundles EXCEPT ![j] = row]
    PROVE  BundleBecomes(j, row.start, row.result, row.cancel, row.control, row.clean)
BY DEF HostTyped, BundleBecomes

\* The files the Runner writes: start evidence, outputs and result.
LEMMA StartFields ==
    ASSUME HostTyped, NEW j \in Jobs, bundles' = [bundles EXCEPT ![j].start = TRUE]
    PROVE  BundleBecomes(j, TRUE, bundles[j].result, bundles[j].cancel, bundles[j].control,
                         bundles[j].clean)
<1> DEFINE row == [bundles[j] EXCEPT !.start = TRUE]
<1>1. bundles' = [bundles EXCEPT ![j] = row]
  OBVIOUS
<1>2. /\ row \in BundleRows /\ row.start = TRUE /\ row.result = bundles[j].result
      /\ row.cancel = bundles[j].cancel /\ row.control = bundles[j].control
      /\ row.clean = bundles[j].clean
  BY DEF HostTyped, BundleRows, BundleRow
<1> HIDE DEF row
<1>3. BundleBecomes(j, row.start, row.result, row.cancel, row.control, row.clean)
  BY <1>1, <1>2, BundleFields
<1> QED BY <1>2, <1>3

\* The outputs of the step.
LEMMA OutputFields ==
    ASSUME HostTyped, NEW j \in Jobs, bundles' = [bundles EXCEPT ![j].output = TRUE]
    PROVE  BundleBecomes(j, bundles[j].start, bundles[j].result, bundles[j].cancel,
                         bundles[j].control, bundles[j].clean)
<1> DEFINE row == [bundles[j] EXCEPT !.output = TRUE]
<1>1. bundles' = [bundles EXCEPT ![j] = row]
  OBVIOUS
<1>2. /\ row \in BundleRows /\ row.start = bundles[j].start /\ row.result = bundles[j].result
      /\ row.cancel = bundles[j].cancel /\ row.control = bundles[j].control
      /\ row.clean = bundles[j].clean
  BY DEF HostTyped, BundleRows, BundleRow
<1> HIDE DEF row
<1>3. BundleBecomes(j, row.start, row.result, row.cancel, row.control, row.clean)
  BY <1>1, <1>2, BundleFields
<1> QED BY <1>2, <1>3

\* The result, with the outputs or after them.
LEMMA ResultFields ==
    ASSUME HostTyped, NEW j \in Jobs, NEW result \in Results,
           \/ bundles' = [bundles EXCEPT ![j].result = result]
           \/ bundles' = [bundles EXCEPT ![j].result = result, ![j].output = TRUE]
    PROVE  BundleBecomes(j, bundles[j].start, result, bundles[j].cancel,
                         bundles[j].control, bundles[j].clean)
<1> DEFINE a == [bundles[j] EXCEPT !.result = result]
           b == [bundles[j] EXCEPT !.result = result, !.output = TRUE]
<1>1. /\ a \in BundleRows /\ a.start = bundles[j].start /\ a.result = result
      /\ a.cancel = bundles[j].cancel /\ a.control = bundles[j].control
      /\ a.clean = bundles[j].clean
  BY DEF HostTyped, BundleRows, BundleRow
<1>2. /\ b \in BundleRows /\ b.start = bundles[j].start /\ b.result = result
      /\ b.cancel = bundles[j].cancel /\ b.control = bundles[j].control
      /\ b.clean = bundles[j].clean
  <2>1. b = [a EXCEPT !.output = TRUE]
    OBVIOUS
  <2> HIDE DEF a, b
  <2> QED BY <1>1, <2>1 DEF BundleRows, BundleRow
<1>3. CASE bundles' = [bundles EXCEPT ![j].result = result]
  <2>1. bundles' = [bundles EXCEPT ![j] = a]
    BY <1>3
  <2> HIDE DEF a
  <2>2. BundleBecomes(j, a.start, a.result, a.cancel, a.control, a.clean)
    BY <1>1, <2>1, BundleFields
  <2> QED BY <1>1, <2>2
<1>4. CASE bundles' = [bundles EXCEPT ![j].result = result, ![j].output = TRUE]
  <2>1. bundles' = [bundles EXCEPT ![j] = b]
    BY <1>4
  <2> HIDE DEF b
  <2>2. BundleBecomes(j, b.start, b.result, b.cancel, b.control, b.clean)
    BY <1>2, <2>1, BundleFields
  <2> QED BY <1>2, <2>2
<1> QED BY <1>3, <1>4

\* A step of the Runner of Attempt j, to this state with these files.
RunnerMoves(j, runner, payload, start, result) ==
    /\ HostBecomes(j, hosts[j].unit, runner, payload, hosts[j].launches)
    /\ BundleBecomes(j, start, result, bundles[j].cancel, bundles[j].control,
                     bundles[j].clean)
    /\ RunnerAlive(j) /\ runner # "fresh"
    /\ runner = "started" => hosts[j].runner = "fresh"
    /\ bundles[j].start => start
    /\ start => bundles[j].start \/ runner = "started"
    /\ bundles[j].result # None => result # None
    /\ result = "cancelled" => bundles[j].cancel \/ bundles[j].result = "cancelled"

\* What the Runner does to itself, to its payload and to its files.
LEMMA RunnerEffect ==
    ASSUME HostTyped, NEW j \in Jobs,
           \/ RunnerStarts(j) \/ RunnerRejects(j) \/ RunnerChecksCancel(j)
           \/ RunnerSpawns(j) \/ RunnerFinishes(j) \/ RunnerExits(j) \/ RunnerDies(j)
    PROVE  \E runner \in Alive \cup {"dead"}, payload \in BOOLEAN, start \in BOOLEAN,
             result \in Results \cup {None} : RunnerMoves(j, runner, payload, start, result)
<1>0. /\ hosts[j].payload \in BOOLEAN /\ bundles[j].start \in BOOLEAN
      /\ bundles[j].result \in Results \cup {None}
  BY DEF HostTyped, HostRow, BundleRows, BundleRow
<1>a. TRUE \in BOOLEAN /\ None \notin Results
  BY OutcomeAssumption
<1>1. CASE RunnerStarts(j)
  <2>1. HostBecomes(j, hosts[j].unit, "started", hosts[j].payload, hosts[j].launches)
    BY <1>0, <1>1, RunnerFields DEF RunnerStarts, Alive
  <2>2. BundleBecomes(j, TRUE, bundles[j].result, bundles[j].cancel, bundles[j].control,
                      bundles[j].clean)
    BY <1>1, StartFields DEF RunnerStarts
  <2>3. RunnerMoves(j, "started", hosts[j].payload, TRUE, bundles[j].result)
    BY <1>1, <2>1, <2>2 DEF RunnerStarts, RunnerMoves, RunnerAlive, Alive
  <2> QED BY <1>0, <2>3 DEF Alive
<1>2. CASE RunnerRejects(j)
  <2>1. PICK residue \in BOOLEAN :
           hosts' = [hosts EXCEPT ![j].runner = "published", ![j].payload = residue]
    BY <1>2 DEF RunnerRejects
  <2>2. HostBecomes(j, hosts[j].unit, "published", residue, hosts[j].launches)
    BY <2>1, RunnerFields DEF Alive
  <2>3. BundleBecomes(j, bundles[j].start, "failed", bundles[j].cancel, bundles[j].control,
                      bundles[j].clean)
    BY <1>2, ResultFields DEF RunnerRejects, Results
  <2>4. RunnerMoves(j, "published", residue, bundles[j].start, "failed")
    BY <1>2, <1>a, <2>2, <2>3 DEF RunnerRejects, RunnerMoves, Results
  <2> QED BY <1>0, <2>4 DEF Alive, Results
<1>3. CASE RunnerChecksCancel(j)
  <2>0. RunnerAlive(j)
    BY <1>3 DEF RunnerChecksCancel, RunnerAlive, Alive
  <2>1. CASE bundles[j].cancel
    <3>1. HostBecomes(j, hosts[j].unit, "published", hosts[j].payload, hosts[j].launches)
      BY <1>0, <1>3, <2>1, RunnerFields DEF RunnerChecksCancel, Alive
    <3>2. BundleBecomes(j, bundles[j].start, "cancelled", bundles[j].cancel,
                        bundles[j].control, bundles[j].clean)
      BY <1>3, <2>1, ResultFields DEF RunnerChecksCancel, Results
    <3>3. RunnerMoves(j, "published", hosts[j].payload, bundles[j].start, "cancelled")
      BY <1>a, <2>0, <2>1, <3>1, <3>2 DEF RunnerMoves, Results
    <3> QED BY <1>0, <3>3 DEF Alive, Results
  <2>2. CASE ~bundles[j].cancel
    <3>1. HostBecomes(j, hosts[j].unit, "cleared", hosts[j].payload, hosts[j].launches)
      BY <1>0, <1>3, <2>2, RunnerFields DEF RunnerChecksCancel, Alive
    <3>2. BundleBecomes(j, bundles[j].start, bundles[j].result, bundles[j].cancel,
                        bundles[j].control, bundles[j].clean)
      BY <1>3, <2>2, OutputFields DEF RunnerChecksCancel
    <3>3. RunnerMoves(j, "cleared", hosts[j].payload, bundles[j].start, bundles[j].result)
      BY <2>0, <3>1, <3>2 DEF RunnerMoves
    <3> QED BY <1>0, <3>3 DEF Alive
  <2> QED BY <2>1, <2>2
<1>4. CASE RunnerSpawns(j)
  <2>1. HostBecomes(j, hosts[j].unit, "executing", TRUE, hosts[j].launches)
    BY <1>4, RunnerFields DEF RunnerSpawns, Alive
  <2>2. BundleBecomes(j, bundles[j].start, bundles[j].result, bundles[j].cancel,
                      bundles[j].control, bundles[j].clean)
    BY <1>4, HostStays DEF RunnerSpawns
  <2>3. RunnerMoves(j, "executing", TRUE, bundles[j].start, bundles[j].result)
    BY <1>4, <2>1, <2>2 DEF RunnerSpawns, RunnerMoves, RunnerAlive, Alive
  <2> QED BY <1>0, <2>3 DEF Alive
<1>5. CASE RunnerFinishes(j)
  <2>1. PICK outcome \in Outcomes, residue \in BOOLEAN :
           /\ hosts' = [hosts EXCEPT ![j].runner = "published", ![j].payload = residue]
           /\ bundles' = [bundles EXCEPT ![j].result =
                              IF bundles[j].cancel THEN "cancelled" ELSE outcome]
    BY <1>5 DEF RunnerFinishes
  <2>2. PICK result \in Results :
           /\ bundles' = [bundles EXCEPT ![j].result = result]
           /\ result = "cancelled" => bundles[j].cancel
    BY <2>1, OutcomeAssumption DEF Results
  <2>3. HostBecomes(j, hosts[j].unit, "published", residue, hosts[j].launches)
    BY <2>1, RunnerFields DEF Alive
  <2>4. BundleBecomes(j, bundles[j].start, result, bundles[j].cancel, bundles[j].control,
                      bundles[j].clean)
    BY <2>2, ResultFields
  <2>5. RunnerMoves(j, "published", residue, bundles[j].start, result)
    BY <1>5, <1>a, <2>2, <2>3, <2>4 DEF RunnerFinishes, RunnerMoves, RunnerAlive, Alive
  <2> QED BY <1>0, <2>5 DEF Alive
<1>6. CASE RunnerExits(j) \/ RunnerDies(j)
  <2>1. HostBecomes(j, hosts[j].unit, "dead", hosts[j].payload, hosts[j].launches)
    BY <1>0, <1>6, RunnerFields DEF RunnerExits, RunnerDies
  <2>2. BundleBecomes(j, bundles[j].start, bundles[j].result, bundles[j].cancel,
                      bundles[j].control, bundles[j].clean)
    BY <1>6, HostStays DEF RunnerExits, RunnerDies
  <2>3. RunnerMoves(j, "dead", hosts[j].payload, bundles[j].start, bundles[j].result)
    BY <1>6, <2>1, <2>2 DEF RunnerExits, RunnerDies, RunnerMoves, RunnerAlive, Alive
  <2> QED BY <1>0, <2>3
<1> QED BY <1>1, <1>2, <1>3, <1>4, <1>5, <1>6

\* A step that changes only what the host owns of Attempt j: neither the
\* number of launches nor the files the Engine writes.
HostOnly(j) ==
    /\ \A i \in Jobs \ {j} : hosts'[i] = hosts[i] /\ bundles'[i] = bundles[i]
    /\ hosts'[j].launches = hosts[j].launches
    /\ bundles'[j].cancel = bundles[j].cancel
    /\ bundles'[j].control = bundles[j].control
    /\ bundles'[j].clean = bundles[j].clean

\* systemd and the Runner keep unit, processes and files consistent, and
\* take nothing back: a process tree that is gone stays gone, a Runner past
\* its check of the cancel file does not come to it again.
LEMMA HostStepOK ==
    ASSUME HostTyped, NEW j \in Jobs, HostOK(j), HostStep(j)
    PROVE  HostTyped' /\ HostOK(j)' /\ HostAdvances(j) /\ HostOnly(j)
<1> USE DEF RunnerAlive, Alive, UnitIsActive, CgroupPopulated
<1>0. /\ hosts[j].launches \in Nat /\ hosts[j].runner \in Alive \cup {"absent", "dead"}
      /\ hosts[j].unit \in UnitStates
  BY DEF HostTyped, HostRow
<1>1. ASSUME NEW unit, NEW runner, NEW payload,
             HostBecomes(j, unit, runner, payload, hosts[j].launches), UNCHANGED bundles
      PROVE  HostTyped' /\ HostOnly(j)
  BY <1>1 DEF HostBecomes, HostTyped, HostOnly
<1>2. CASE StartUnit(j)
  <2>1. /\ HostBecomes(j, "active", "fresh", hosts[j].payload, hosts[j].launches)
        /\ UNCHANGED bundles /\ hosts[j].unit = "queued"
    BY <1>2, SystemdEffect DEF StartUnit
  <2>2. HostOK(j)'
    BY <2>1 DEF HostBecomes, HostOK
  <2>3. HostAdvances(j)
    BY <2>1 DEF HostBecomes, HostOK, HostAdvances, Gone, Vacant, PastCheck
  <2> QED BY <1>1, <2>1, <2>2, <2>3
<1>3. CASE UnitNoticesExit(j)
  <2>1. PICK unit \in UnitStates \ {"active", "queued"} :
           HostBecomes(j, unit, hosts[j].runner, hosts[j].payload, hosts[j].launches)
    BY <1>3, SystemdEffect
  <2>2. UNCHANGED bundles /\ hosts[j].unit = "active" /\ hosts[j].runner = "dead"
    BY <1>3 DEF UnitNoticesExit
  <2>3. HostOK(j)'
    BY <2>1, <2>2 DEF HostBecomes, HostOK, UnitStates
  <2>4. HostAdvances(j)
    BY <2>1, <2>2 DEF HostBecomes, HostOK, HostAdvances, Gone, Vacant, PastCheck, UnitStates
  <2> QED BY <1>1, <2>1, <2>2, <2>3, <2>4
<1>4. CASE UnitExpires(j)
  <2>1. /\ HostBecomes(j, "failing", hosts[j].runner, hosts[j].payload, hosts[j].launches)
        /\ UNCHANGED bundles /\ hosts[j].unit = "active" /\ hosts[j].runner = "executing"
    BY <1>4, SystemdEffect DEF UnitExpires
  <2>2. HostOK(j)'
    BY <2>1 DEF HostBecomes, HostOK
  <2>3. HostAdvances(j)
    BY <2>1 DEF HostBecomes, HostOK, HostAdvances, Gone, Vacant, PastCheck
  <2> QED BY <1>1, <2>1, <2>2, <2>3
<1>5. CASE UnitReaped(j)
  <2>1. PICK unit \in {"absent", "failed"} :
           HostBecomes(j, unit, "dead", FALSE, hosts[j].launches)
    BY <1>5, SystemdEffect
  <2>2. UNCHANGED bundles /\ hosts[j].unit \in {"stopping", "failing"}
    BY <1>5 DEF UnitReaped
  <2>3. HostOK(j)'
    BY <2>1, <2>2 DEF HostBecomes, HostOK
  <2>4. HostAdvances(j)
    BY <2>1, <2>2 DEF HostBecomes, HostOK, HostAdvances, Gone, Vacant, PastCheck
  <2> QED BY <1>1, <2>1, <2>2, <2>3, <2>4
<1>6. CASE \/ RunnerStarts(j) \/ RunnerRejects(j) \/ RunnerChecksCancel(j)
           \/ RunnerSpawns(j) \/ RunnerFinishes(j) \/ RunnerExits(j) \/ RunnerDies(j)
  <2>1. PICK runner \in Alive \cup {"dead"}, payload \in BOOLEAN, start \in BOOLEAN,
           result \in Results \cup {None} : RunnerMoves(j, runner, payload, start, result)
    BY <1>6, RunnerEffect
  <2>2. HostTyped' /\ HostOnly(j)
    BY <2>1 DEF RunnerMoves, HostBecomes, BundleBecomes, HostTyped, HostOnly
  <2>3. hosts[j].launches # 0 /\ hosts[j].unit \notin {"absent", "queued", "failed"}
    BY <2>1 DEF RunnerMoves, HostOK
  <2>4. HostOK(j)'
    BY <2>1, <2>3 DEF RunnerMoves, HostBecomes, BundleBecomes, HostOK
  <2>5. HostAdvances(j)
    BY <2>1, <2>3 DEF RunnerMoves, HostBecomes, BundleBecomes, HostAdvances, Gone, Vacant,
       PastCheck
  <2> QED BY <2>2, <2>4, <2>5
<1> QED BY <1>2, <1>3, <1>4, <1>5, <1>6 DEF HostStep

-----------------------------------------------------------------------------
(* What the Engine writes into the bundle and asks of systemd.             *)

\* Control evidence (commit_observed_control_terminal).
LEMMA ControlFields ==
    ASSUME HostTyped, NEW j \in Jobs, NEW d \in EvidenceDigests,
           bundles' = [bundles EXCEPT ![j].control = d]
    PROVE  BundleBecomes(j, bundles[j].start, bundles[j].result, bundles[j].cancel, d, bundles[j].clean)
<1> DEFINE row == [bundles[j] EXCEPT !.control = d]
<1>1. bundles' = [bundles EXCEPT ![j] = row]
  OBVIOUS
<1>2. /\ row \in BundleRows /\ row.start = bundles[j].start /\ row.result = bundles[j].result
      /\ row.cancel = bundles[j].cancel /\ row.control = d /\ row.clean = bundles[j].clean
  BY DEF HostTyped, BundleRows, BundleRow
<1> HIDE DEF row
<1>3. BundleBecomes(j, row.start, row.result, row.cancel, row.control, row.clean)
  BY <1>1, <1>2, BundleFields
<1> QED BY <1>2, <1>3

\* Remediation evidence (resolve_absent_orphan).
LEMMA RemedyFields ==
    ASSUME HostTyped, NEW j \in Jobs, NEW d \in EvidenceDigests,
           bundles' = [bundles EXCEPT ![j].remedy = d]
    PROVE  BundleBecomes(j, bundles[j].start, bundles[j].result, bundles[j].cancel, bundles[j].control, bundles[j].clean)
<1> DEFINE row == [bundles[j] EXCEPT !.remedy = d]
<1>1. bundles' = [bundles EXCEPT ![j] = row]
  OBVIOUS
<1>2. /\ row \in BundleRows /\ row.start = bundles[j].start /\ row.result = bundles[j].result
      /\ row.cancel = bundles[j].cancel /\ row.control = bundles[j].control /\ row.clean = bundles[j].clean
  BY DEF HostTyped, BundleRows, BundleRow
<1> HIDE DEF row
<1>3. BundleBecomes(j, row.start, row.result, row.cancel, row.control, row.clean)
  BY <1>1, <1>2, BundleFields
<1> QED BY <1>2, <1>3

\* The cancel file (cancel_job).
LEMMA CancelFields ==
    ASSUME HostTyped, NEW j \in Jobs,
           bundles' = [bundles EXCEPT ![j].cancel = TRUE]
    PROVE  BundleBecomes(j, bundles[j].start, bundles[j].result, TRUE, bundles[j].control, bundles[j].clean)
<1> DEFINE row == [bundles[j] EXCEPT !.cancel = TRUE]
<1>1. bundles' = [bundles EXCEPT ![j] = row]
  OBVIOUS
<1>2. /\ row \in BundleRows /\ row.start = bundles[j].start /\ row.result = bundles[j].result
      /\ row.cancel = TRUE /\ row.control = bundles[j].control /\ row.clean = bundles[j].clean
  BY DEF HostTyped, BundleRows, BundleRow
<1> HIDE DEF row
<1>3. BundleBecomes(j, row.start, row.result, row.cancel, row.control, row.clean)
  BY <1>1, <1>2, BundleFields
<1> QED BY <1>2, <1>3

\* The disposition that the terminal evidence states.
LEMMA CleanFields ==
    ASSUME HostTyped, NEW j \in Jobs, NEW clean \in BOOLEAN,
           bundles' = [bundles EXCEPT ![j].clean = clean]
    PROVE  BundleBecomes(j, bundles[j].start, bundles[j].result, bundles[j].cancel, bundles[j].control, clean)
<1> DEFINE row == [bundles[j] EXCEPT !.clean = clean]
<1>1. bundles' = [bundles EXCEPT ![j] = row]
  OBVIOUS
<1>2. /\ row \in BundleRows /\ row.start = bundles[j].start /\ row.result = bundles[j].result
      /\ row.cancel = bundles[j].cancel /\ row.control = bundles[j].control /\ row.clean = clean
  BY DEF HostTyped, BundleRows, BundleRow
<1> HIDE DEF row
<1>3. BundleBecomes(j, row.start, row.result, row.cancel, row.control, row.clean)
  BY <1>1, <1>2, BundleFields
<1> QED BY <1>2, <1>3

\* release_attempt_supervisor resets a failed unit and touches no other.
LEMMA ReleaseFields ==
    ASSUME HostTyped, NEW j \in Jobs, hosts' = ReleasedHosts(j)
    PROVE  \E unit \in UnitStates :
              /\ HostBecomes(j, unit, hosts[j].runner, hosts[j].payload, hosts[j].launches)
              /\ unit = hosts[j].unit \/ (hosts[j].unit = "failed" /\ unit = "absent")
<1>1. PICK unit \in UnitStates :
         /\ hosts' = [hosts EXCEPT ![j].unit = unit]
         /\ unit = hosts[j].unit \/ (hosts[j].unit = "failed" /\ unit = "absent")
  BY DEF ReleasedHosts, HostTyped, HostRow, UnitStates
<1>2. HostBecomes(j, unit, hosts[j].runner, hosts[j].payload, hosts[j].launches)
  BY <1>1 DEF HostTyped, HostRow, HostBecomes
<1> QED BY <1>1, <1>2

\* systemctl stop.
LEMMA StopFields ==
    ASSUME HostTyped, NEW j \in Jobs, hosts' = [hosts EXCEPT ![j].unit = Stopped(@)]
    PROVE  HostBecomes(j, Stopped(hosts[j].unit), hosts[j].runner, hosts[j].payload,
                       hosts[j].launches)
<1> DEFINE unit == Stopped(hosts[j].unit)
<1>1. unit \in UnitStates
  BY DEF Stopped, HostTyped, HostRow, UnitStates
<1>2. hosts' = [hosts EXCEPT ![j].unit = unit]
  OBVIOUS
<1> HIDE DEF unit
<1>3. HostBecomes(j, unit, hosts[j].runner, hosts[j].payload, hosts[j].launches)
  BY <1>1, <1>2 DEF HostTyped, HostRow, HostBecomes
<1> QED BY <1>3 DEF unit

\* Evidence, a reset and a stop that finds the cancel file written keep unit,
\* processes and files consistent and take nothing back.
LEMMA EngineWritesOK ==
    ASSUME HostTyped, NEW j \in Jobs, HostOK(j), NEW unit, NEW cancel \in BOOLEAN,
           NEW control, NEW clean,
           HostBecomes(j, unit, hosts[j].runner, hosts[j].payload, hosts[j].launches),
           BundleBecomes(j, bundles[j].start, bundles[j].result, cancel, control, clean),
           bundles[j].cancel => cancel,
           \/ unit = hosts[j].unit
           \/ hosts[j].unit = "failed" /\ unit = "absent"
           \/ unit = Stopped(hosts[j].unit) /\ cancel
    PROVE  /\ HostTyped' /\ HostOK(j)' /\ HostAdvances(j)
           /\ hosts'[j].launches = hosts[j].launches
           /\ \A i \in Jobs \ {j} : hosts'[i] = hosts[i] /\ bundles'[i] = bundles[i]
<1> USE DEF RunnerAlive, Alive, UnitIsActive, CgroupPopulated
<1>1. /\ HostTyped'
      /\ hosts'[j].launches = hosts[j].launches
      /\ \A i \in Jobs \ {j} : hosts'[i] = hosts[i] /\ bundles'[i] = bundles[i]
  BY DEF HostBecomes, BundleBecomes, HostTyped
<1>2. HostOK(j)'
  BY DEF HostBecomes, BundleBecomes, HostOK, Stopped
<1>3. HostAdvances(j)
  BY DEF HostBecomes, BundleBecomes, HostOK, HostAdvances, Gone, Vacant, PastCheck, Stopped
<1> QED BY <1>1, <1>2, <1>3

\* systemd-run of a unit that was never launched.
LEMMA LaunchOKStep ==
    ASSUME HostTyped, NEW j \in Jobs, HostOK(j), hosts[j].launches = 0, EnqueueUnit(j)
    PROVE  /\ HostTyped' /\ HostOK(j)' /\ HostAdvances(j)
           /\ hosts'[j].launches = 1 /\ UNCHANGED bundles
           /\ \A i \in Jobs \ {j} : hosts'[i] = hosts[i]
<1> USE DEF RunnerAlive, Alive, UnitIsActive, CgroupPopulated
<1>1. /\ HostBecomes(j, "queued", hosts[j].runner, hosts[j].payload, hosts[j].launches + 1)
      /\ UNCHANGED bundles
  BY SystemdEffect DEF EnqueueUnit
<1>2. HostTyped' /\ hosts'[j].launches = 1 /\ \A i \in Jobs \ {j} : hosts'[i] = hosts[i]
  BY <1>1 DEF HostBecomes, HostTyped
<1>3. HostOK(j)'
  BY <1>1, <1>2 DEF HostBecomes, HostOK
<1>4. HostAdvances(j)
  BY <1>1 DEF HostBecomes, HostOK, HostAdvances, Gone, Vacant, PastCheck
<1> QED BY <1>1, <1>2, <1>3, <1>4

\* A reboot ends every process and keeps every file.
LEMMA RebootOK ==
    ASSUME HostTyped, HostReboots, NEW j \in Jobs, HostOK(j)
    PROVE  /\ HostTyped' /\ HostOK(j)' /\ HostAdvances(j) /\ UNCHANGED bundles
           /\ hosts'[j].launches = hosts[j].launches
           /\ bundles[j].start => Vacant(j)'
<1> USE DEF RunnerAlive, Alive, UnitIsActive, CgroupPopulated
<1>1. \A i \in Jobs : /\ hosts'[i] \in HostRow /\ hosts'[i].unit = "absent"
                      /\ hosts'[i].payload = FALSE
                      /\ hosts'[i].runner = IF hosts[i].runner = "absent" THEN "absent" ELSE "dead"
                      /\ hosts'[i].launches = hosts[i].launches
  <2> SUFFICES ASSUME NEW i \in Jobs
               PROVE  /\ hosts'[i] \in HostRow /\ hosts'[i].unit = "absent"
                      /\ hosts'[i].payload = FALSE
                      /\ hosts'[i].runner = IF hosts[i].runner = "absent" THEN "absent" ELSE "dead"
                      /\ hosts'[i].launches = hosts[i].launches
    OBVIOUS
  <2> DEFINE runner == IF hosts[i].runner = "absent" THEN "absent" ELSE "dead"
             unit == "absent"
             payload == FALSE
             row == [hosts[i] EXCEPT !.unit = unit, !.payload = payload, !.runner = runner]
  <2>1. hosts'[i] = row
    BY DEF HostReboots, HostTyped
  <2>2. runner \in Alive \cup {"absent", "dead"} /\ unit \in UnitStates /\ payload \in BOOLEAN
    BY DEF UnitStates
  <2>3. hosts[i] \in HostRow
    BY DEF HostTyped
  <2> HIDE DEF runner, unit, payload
  <2>4. /\ row \in HostRow /\ row.unit = unit /\ row.payload = payload
        /\ row.runner = runner /\ row.launches = hosts[i].launches
    BY <2>2, <2>3 DEF HostRow
  <2> HIDE DEF row
  <2> QED BY <2>1, <2>4 DEF runner, unit, payload
<1>2. UNCHANGED bundles /\ hosts' \in [Jobs -> HostRow]
  BY <1>1 DEF HostReboots
<1>3. HostTyped'
  BY <1>2 DEF HostTyped
<1>4. HostOK(j)'
  BY <1>1, <1>2 DEF HostOK
<1>5. HostAdvances(j) /\ (bundles[j].start => Vacant(j)')
  BY <1>1, <1>2 DEF HostOK, HostAdvances, Gone, Vacant, PastCheck
<1> QED BY <1>1, <1>2, <1>3, <1>4, <1>5
=============================================================================
