---------------------------- MODULE EngineProofs ----------------------------
(***************************************************************************)
(* The guarantees of the Engine, for every number of threads, Jobs,        *)
(* crashes and reboots.                                                    *)
(*                                                                         *)
(* A thread acts on what it read some steps ago.  The inductive invariant  *)
(* EngineInv therefore says what each thread may still rely on, at each    *)
(* place of the code, whatever everyone else did in between: facts about   *)
(* rows, files and processes that no step takes back (RowsAdvance and      *)
(* HostAdvances of EngineSteps).                                           *)
(***************************************************************************)
EXTENDS EngineSteps

\* Thread t is between the commit of the dispatch intent and systemd-run.
AtLaunch(t, j) == At(t, "launch") /\ Job(t) = j
\* The Attempt left "accepted" and its unit will never be enqueued.
NeverLaunched(j) ==
    /\ hosts[j].launches = 0 /\ ~Undispatched(j)
    /\ \A t \in Threads : ~AtLaunch(t, j)

\* Places of the code, by what was observed on the way there.
ResultPcs == {"result", "commit_result", "retry_result", "commit_recovery"}
TreePcs == {"orphan_decide", "cancel_result", "remediate", "commit_remedy"}
OrphanPcs == TreePcs \cup {"cancel_orphan", "request_orphan_cancel", "cancel_tree",
                           "orphan_result", "orphan_tree"}
FiledPcs == {"stop_unit", "poll_result", "poll_unit"}

\* The row a thread read: an owner in it started, and an owner of an earlier
\* boot, or one whose tree was found absent, is gone with its unit.
SeenOK(pc, j, row) ==
    /\ row.owner # None => bundles[j].start /\ (row.owner # boot => Vacant(j))
    /\ row.state # None =>
          /\ row.rv <= attempts[j].rv
          /\ row.rv = attempts[j].rv => row.owner = attempts[j].owner
    /\ row.intent = "stop_requested" => Desired(j)
    /\ pc \in {"orphan_result", "orphan_tree", "commit_recovery"} \cup TreePcs => row.state # None
    /\ pc \in {"commit_recovery"} \cup TreePcs /\ row.owner # None => Vacant(j)

\* The verdict a thread carries and what it observed to reach it.
VerdictOK(pc, j, verdict) ==
    /\ pc \in {"control", "commit_control"} => verdict \in Terminal
    /\ pc \in {"remediate", "commit_remedy"} => verdict \in Conclusive
    /\ pc = "owner_result" => verdict # None
    /\ verdict = "cancelled" => IsConclusive(j) \/ (Desired(j) /\ Settled(j))
    /\ verdict = "orphaned" => hosts[j].launches # 0

\* What a thread knows where it stands.
PlaceOK(pc, j, clean, then) ==
    /\ clean => Gone(j)
    /\ pc \in ResultPcs => bundles[j].result # None
    /\ pc \in {"bind", "await_bind"} => bundles[j].start
    /\ pc \in {"cancel_file"} \cup FiledPcs => Desired(j)
    /\ pc \in FiledPcs => bundles[j].cancel
    /\ pc \in OrphanPcs => IsTerminal(j)
    /\ pc = "recover" /\ then = "request" => IsTerminal(j)
    /\ pc \in {"cancel_tree", "cancel_result"} => IsConclusive(j) \/ Desired(j)
    /\ pc \in {"orphan_decide", "cancel_result"} => IsConclusive(j) \/ Settled(j)

ThreadOK(t) ==
    threads[t].pc # "idle" =>
        /\ Job(t) \in Jobs /\ Admitted(Job(t))
        /\ SeenOK(threads[t].pc, Job(t), Seen(t))
        /\ VerdictOK(threads[t].pc, Job(t), Verdict(t))
        /\ PlaceOK(threads[t].pc, Job(t), threads[t].clean, threads[t].then)

\* The rows, files and processes of one Job.
JobOK(j) ==
    /\ bundles[j].cancel => Desired(j)
    /\ attempts[j].owner # None =>
          bundles[j].start /\ (attempts[j].owner # boot => Vacant(j))
    /\ attempts[j].intent = "stop_requested" => Desired(j)
    /\ ~IsTerminal(j) => attempts[j].digest = None
    /\ attempts[j].state = "cancelled" => Desired(j) /\ (Settled(j) \/ NeverLaunched(j))
    /\ attempts[j].state = "orphaned" => hosts[j].launches # 0
    /\ bundles[j].clean => Gone(j)

\* A unit is enqueued once, by the one thread that issued the dispatch.
LaunchOK ==
    /\ \A j \in Jobs : /\ hosts[j].launches <= 1
                       /\ Undispatched(j) => hosts[j].launches = 0
    /\ \A t \in Threads, j \in Jobs :
          AtLaunch(t, j) => hosts[j].launches = 0 /\ ~Undispatched(j)
    /\ \A t, u \in Threads, j \in Jobs : AtLaunch(t, j) /\ AtLaunch(u, j) => t = u

\* The holder of the control-terminal lock finds its evidence as it wrote it.
LockOK ==
    \A t \in Threads : At(t, "commit_control") =>
        bundles[Job(t)].control = ControlEvidence(t, Verdict(t))

EngineInv ==
    /\ Consistent /\ StoppingIntended
    /\ EngineTypeOK
    /\ \A t \in Threads : ThreadOK(t)
    /\ \A j \in Jobs : HostOK(j)
    /\ \A j \in Jobs : JobOK(j)
    /\ LaunchOK
    /\ LockOK
    /\ ControlEvidenceIntact

USE NoneAssumption DEF Admitted, IsTerminal, Holding, Conclusive, Terminal,
    Dispatched, Nonterminal, AttemptStates, Intents, Bundle

-----------------------------------------------------------------------------
(* What a thread relies on, when others move.                              *)

\* The rows of Attempts are typed, now and after any transaction.
LEMMA RowsTyped ==
    ASSUME Consistent, [Transaction]_registryVars
    PROVE  /\ Consistent'
           /\ attempts \in [Jobs -> AttemptRow] /\ attempts' \in [Jobs -> AttemptRow]
           /\ \A j \in Jobs : attempts[j].rv \in Nat /\ attempts'[j].rv \in Nat
<1>1. Consistent'
  BY TransactionConsistent
<1>2. attempts \in [Jobs -> AttemptRow] /\ attempts' \in [Jobs -> AttemptRow]
  BY <1>1 DEF Consistent, TypeOK
<1> QED BY <1>1, <1>2 DEF AttemptRow

\* What a thread relies on survives every step.
LEMMA CarriedStays ==
    ASSUME NEW pc, NEW j \in Jobs, NEW verdict, NEW clean, NEW then,
           VerdictOK(pc, j, verdict), PlaceOK(pc, j, clean, then),
           RowsAdvance(j), HostAdvances(j)
    PROVE  VerdictOK(pc, j, verdict)' /\ PlaceOK(pc, j, clean, then)'
<1>1. Settled(j) => Settled(j)'
  BY DEF HostAdvances, Settled
<1>2. VerdictOK(pc, j, verdict)'
  BY <1>1 DEF VerdictOK, RowsAdvance, HostAdvances
<1>3. PlaceOK(pc, j, clean, then)'
  BY <1>1 DEF PlaceOK, RowsAdvance, HostAdvances
<1> QED BY <1>2, <1>3

\* And so does what it read.
LEMMA ReliedStays ==
    ASSUME NEW pc, NEW j \in Jobs, NEW row \in AttemptRow, NEW verdict, NEW clean, NEW then,
           Admitted(j), SeenOK(pc, j, row), VerdictOK(pc, j, verdict),
           PlaceOK(pc, j, clean, then),
           boot' = boot, RowsAdvance(j), HostAdvances(j),
           attempts[j].rv \in Nat, attempts'[j].rv \in Nat
    PROVE  /\ Admitted(j)' /\ SeenOK(pc, j, row)' /\ VerdictOK(pc, j, verdict)'
           /\ PlaceOK(pc, j, clean, then)'
<1>1. row.rv \in Nat
  BY DEF AttemptRow
<1>2. SeenOK(pc, j, row)'
  BY <1>1 DEF SeenOK, RowsAdvance, HostAdvances
<1> QED BY <1>2, CarriedStays DEF RowsAdvance

\* Thread t arrives at pc with these values and may rely on what that takes.
LEMMA Arrives ==
    ASSUME NEW t \in Threads, NEW pc, NEW j \in Jobs, NEW row, NEW verdict, NEW clean, NEW then,
           Moves(t, pc, j, row, verdict, clean, then),
           Admitted(j)', SeenOK(pc, j, row)', VerdictOK(pc, j, verdict)',
           PlaceOK(pc, j, clean, then)'
    PROVE  ThreadOK(t)'
BY DEF ThreadOK, Moves, SeenOK, VerdictOK, PlaceOK, Job, Seen, Verdict

\* A thread that does not move.
LEMMA ThreadStays ==
    ASSUME NEW t \in Threads, threads \in [Threads -> ThreadRow], threads'[t] = threads[t],
           ThreadOK(t), boot' = boot,
           \A j \in Jobs : RowsAdvance(j) /\ HostAdvances(j),
           \A j \in Jobs : attempts[j].rv \in Nat /\ attempts'[j].rv \in Nat
    PROVE  ThreadOK(t)'
<1> SUFFICES ASSUME threads[t].pc # "idle" PROVE ThreadOK(t)'
  BY DEF ThreadOK
<1>1. PICK j \in Jobs, row \in AttemptRow, pc \in Pcs, verdict \in Terminal \cup {"running", None},
           clean \in BOOLEAN, then \in Continuations :
           /\ threads[t].job = j /\ threads[t].seen = row /\ threads[t].pc = pc
           /\ threads[t].verdict = verdict /\ threads[t].clean = clean /\ threads[t].then = then
  BY DEF ThreadOK, ThreadRow, Job
<1>2. /\ Admitted(j) /\ SeenOK(pc, j, row) /\ VerdictOK(pc, j, verdict)
      /\ PlaceOK(pc, j, clean, then)
  BY <1>1 DEF ThreadOK, Job, Seen, Verdict
<1>3. /\ Admitted(j)' /\ SeenOK(pc, j, row)' /\ VerdictOK(pc, j, verdict)'
      /\ PlaceOK(pc, j, clean, then)'
  BY <1>2, ReliedStays
<1>4. /\ threads'[t].job = j /\ threads'[t].seen = row /\ threads'[t].pc = pc
      /\ threads'[t].verdict = verdict /\ threads'[t].clean = clean /\ threads'[t].then = then
  BY <1>1
<1> QED BY <1>3, <1>4 DEF ThreadOK, SeenOK, VerdictOK, PlaceOK, Job, Seen, Verdict

-----------------------------------------------------------------------------
(* The frame of a step: what is left when it touches one thread and the    *)
(* rows of one Job.                                                        *)

Frames(t, j) ==
    /\ [Transaction]_registryVars
    /\ HostTyped' /\ \A i \in Jobs : HostOK(i)' /\ HostAdvances(i)
    /\ \A i \in Jobs \ {j} :
          /\ attempts'[i] = attempts[i] /\ jobs'[i].desired = jobs[i].desired
          /\ hosts'[i] = hosts[i] /\ bundles'[i] = bundles[i]
    /\ threads' \in [Threads -> ThreadRow]
    /\ \A u \in Threads \ {t} : threads'[u] = threads[u]
    /\ boot' = boot /\ crashes' = crashes /\ aged' \subseteq Jobs

\* The lock is left alone, taken over fresh evidence, or given back.
LockStep(t) ==
    \/ /\ lock' = lock /\ threads[t].pc # "commit_control"
       /\ threads'[t].pc # "commit_control"
       /\ \A i \in Jobs : bundles'[i].control = bundles[i].control
    \/ /\ lock = None /\ lock' = t /\ threads'[t].pc = "commit_control"
       /\ bundles'[threads'[t].job].control = ControlEvidence(t, threads'[t].verdict)
    \/ /\ threads[t].pc = "commit_control" /\ lock' = None
       /\ threads'[t].pc # "commit_control"
       /\ \A i \in Jobs : bundles'[i].control = bundles[i].control

\* The rows of a Job that no step of this kind touches stay as they were
\* argued to be.
LEMMA JobStays ==
    ASSUME NEW i \in Jobs, JobOK(i), boot' = boot,
           attempts'[i] = attempts[i], jobs'[i].desired = jobs[i].desired,
           hosts'[i] = hosts[i], bundles'[i] = bundles[i],
           \A t \in Threads : AtLaunch(t, i)' => AtLaunch(t, i)
    PROVE  JobOK(i)'
<1>1. /\ Desired(i)' <=> Desired(i)
      /\ Vacant(i)' <=> Vacant(i)
      /\ Gone(i)' <=> Gone(i)
      /\ Settled(i)' <=> Settled(i)
      /\ Undispatched(i)' <=> Undispatched(i)
      /\ hosts'[i].launches = hosts[i].launches
  BY DEF Desired, Vacant, Gone, Settled, PastCheck, Undispatched, CgroupPopulated,
     RunnerAlive, UnitIsActive
<1>2. NeverLaunched(i) => NeverLaunched(i)'
  BY <1>1 DEF NeverLaunched
<1> QED BY <1>1, <1>2 DEF JobOK

\* A step within its frame keeps the invariant if its own thread, its own
\* Job, the lock and the launches are in order after it.
LEMMA FrameKeeps ==
    ASSUME EngineInv, NEW t \in Threads, NEW j \in Jobs, Frames(t, j), LockStep(t),
           threads'[t].pc = "launch" => threads'[t].job = j,
           ThreadOK(t)', JobOK(j)', LaunchOK',
           /\ attempts'[j].state \in Terminal
           /\ attempts'[j].digest \in {ControlEvidence(u, attempts'[j].state) : u \in Threads}
           => bundles'[j].control = attempts'[j].digest
    PROVE  EngineInv'
<1>1. Consistent' /\ StoppingIntended' /\ \A i \in Jobs : RowsAdvance(i)
  BY TransactionConsistent, StoppingStep, RowsOnlyAdvance DEF EngineInv, Frames
<1>2. EngineTypeOK'
  <2>1. /\ hosts' \in [Jobs -> HostRow]
        /\ bundles' \in [Jobs -> BundleRow(EvidenceDigests \cup {None})]
        /\ threads' \in [Threads -> ThreadRow] /\ aged' \subseteq Jobs
        /\ boot' \in 0 .. LastBoot /\ crashes' \in 0 .. MaxCrashes
    BY DEF Frames, HostTyped, BundleRows, EngineInv, EngineTypeOK
  <2>2. /\ lock' \in Threads \cup {None}
        /\ \A u \in Threads : (lock' = u) <=> threads'[u].pc = "commit_control"
    BY ThreadAssumption DEF Frames, LockStep, EngineInv, EngineTypeOK, At
  <2> QED BY <2>1, <2>2 DEF EngineTypeOK, At
<1>3. \A u \in Threads : ThreadOK(u)'
  <2> SUFFICES ASSUME NEW u \in Threads \ {t} PROVE ThreadOK(u)'
    OBVIOUS
  <2>1. /\ threads \in [Threads -> ThreadRow] /\ threads'[u] = threads[u] /\ ThreadOK(u)
        /\ boot' = boot /\ \A i \in Jobs : RowsAdvance(i) /\ HostAdvances(i)
        /\ \A i \in Jobs : attempts[i].rv \in Nat /\ attempts'[i].rv \in Nat
    BY <1>1, RowsTyped DEF EngineInv, EngineTypeOK, Frames
  <2> QED BY <2>1, ThreadStays
<1>4. \A i \in Jobs : HostOK(i)'
  BY DEF Frames
<1>5. \A i \in Jobs : JobOK(i)'
  <2> SUFFICES ASSUME NEW i \in Jobs \ {j} PROVE JobOK(i)'
    OBVIOUS
  <2>1. \A u \in Threads : AtLaunch(u, i)' => AtLaunch(u, i)
    BY DEF Frames, AtLaunch, At, Job
  <2> QED BY <2>1, JobStays DEF EngineInv, Frames
<1>6. LockOK'
  <2> SUFFICES ASSUME NEW u \in Threads, threads'[u].pc = "commit_control"
               PROVE  bundles'[threads'[u].job].control = ControlEvidence(u, threads'[u].verdict)
    BY DEF LockOK, At, Job, Verdict
  <2>1. CASE u = t
    BY <2>1 DEF LockStep
  <2>2. CASE u # t
    <3>1. threads'[u] = threads[u] /\ threads[u].pc = "commit_control" /\ threads[u].job \in Jobs
      BY <2>2 DEF Frames, EngineInv, ThreadOK, Job
    <3>2. lock = u
      BY <3>1 DEF EngineInv, EngineTypeOK, At
    <3>3. \A i \in Jobs : bundles'[i].control = bundles[i].control
      BY <2>2, <3>2, ThreadAssumption DEF LockStep, EngineInv, EngineTypeOK, At
    <3> QED BY <3>1, <3>3 DEF EngineInv, LockOK, At, Job, Verdict
  <2> QED BY <2>1, <2>2
<1>7. ControlEvidenceIntact'
  <2> SUFFICES ASSUME NEW i \in Jobs, attempts'[i].state \in Terminal,
                      attempts'[i].digest \in {ControlEvidence(u, attempts'[i].state) : u \in Threads}
               PROVE  bundles'[i].control = attempts'[i].digest
    BY DEF ControlEvidenceIntact, ControlEvidence
  <2>1. CASE i # j
    BY <2>1 DEF Frames, EngineInv, ControlEvidenceIntact
  <2> QED BY <2>1
<1> QED BY <1>1, <1>2, <1>3, <1>4, <1>5, <1>6, <1>7 DEF EngineInv

-----------------------------------------------------------------------------
(* Steps that only read.                                                   *)

\* A thread that moves on without a change of the shared state keeps the
\* invariant if it may rely on what its new place takes.
LEMMA ReadMoves ==
    ASSUME EngineInv, NEW t \in Threads, NEW pc \in Pcs \ {"commit_control", "launch"},
           NEW j \in Jobs \cup {None}, NEW row \in AttemptRow, NEW verdict, NEW clean, NEW then,
           Reads, UNCHANGED <<boot, crashes>>, threads[t].pc # "commit_control",
           Moves(t, pc, j, row, verdict, clean, then), Jobs # {},
           pc # "idle" => /\ j \in Jobs /\ Admitted(j) /\ SeenOK(pc, j, row)
                          /\ VerdictOK(pc, j, verdict) /\ PlaceOK(pc, j, clean, then)
    PROVE  EngineInv'
<1>1. /\ UNCHANGED registryVars /\ UNCHANGED <<jobs, attempts, hosts, bundles, aged, lock>>
      /\ UNCHANGED boot
  BY DEF Reads, registryVars, hostVars
<1>2. \A i \in Jobs : RowsAdvance(i) /\ HostAdvances(i)
  BY <1>1, RowsTyped DEF EngineInv, RowsAdvance, HostAdvances, IsConclusive, Undispatched,
     Desired, Gone, Vacant, PastCheck, CgroupPopulated, RunnerAlive, UnitIsActive
<1>3. \A i \in Jobs : HostOK(i)'
  BY <1>1 DEF EngineInv, HostOK, RunnerAlive
<1>4. \A i \in Jobs : Frames(t, i)
  BY <1>1, <1>2, <1>3 DEF Frames, Moves, EngineInv, EngineTypeOK, HostTyped, BundleRows
<1>5. LockStep(t)
  BY <1>1 DEF LockStep, Moves
<1>6. ThreadOK(t)'
  <2>1. CASE pc = "idle"
    BY <2>1 DEF ThreadOK, Moves
  <2>2. CASE pc # "idle"
    <3>1. attempts[j].rv \in Nat /\ attempts'[j].rv \in Nat
      BY <1>1, <2>2, RowsTyped DEF EngineInv
    <3>2. /\ Admitted(j)' /\ SeenOK(pc, j, row)' /\ VerdictOK(pc, j, verdict)'
          /\ PlaceOK(pc, j, clean, then)'
      BY <1>1, <1>2, <2>2, <3>1, ReliedStays
    <3> QED BY <2>2, <3>2, Arrives
  <2> QED BY <2>1, <2>2
<1>7. \A u \in Threads, i \in Jobs : AtLaunch(u, i)' => AtLaunch(u, i)
  BY DEF AtLaunch, At, Job, Moves
<1>8. \A i \in Jobs : JobOK(i)'
  BY <1>1, <1>7, JobStays DEF EngineInv
<1>9. LaunchOK'
  BY <1>1, <1>7 DEF EngineInv, LaunchOK, Undispatched
<1>10. PICK i \in Jobs : TRUE
  OBVIOUS
<1>11. /\ attempts'[i].state \in Terminal
       /\ attempts'[i].digest \in {ControlEvidence(u, attempts'[i].state) : u \in Threads}
       => bundles'[i].control = attempts'[i].digest
  BY <1>1 DEF EngineInv, ControlEvidenceIntact
<1>12. threads'[t].pc # "launch"
  BY DEF Moves
<1> QED BY <1>4, <1>5, <1>6, <1>8, <1>9, <1>11, <1>12, FrameKeeps

\* A thread with a request knows its Job.
LEMMA OnJob ==
    ASSUME EngineInv, NEW t \in Threads, threads[t].pc # "idle"
    PROVE  /\ threads \in [Threads -> ThreadRow] /\ Jobs # {}
           /\ Job(t) \in Jobs /\ Admitted(Job(t))
           /\ SeenOK(threads[t].pc, Job(t), Seen(t))
           /\ VerdictOK(threads[t].pc, Job(t), Verdict(t))
           /\ PlaceOK(threads[t].pc, Job(t), threads[t].clean, threads[t].then)
           /\ Current(t) \in AttemptRow /\ Seen(t) \in AttemptRow
           /\ HostOK(Job(t)) /\ JobOK(Job(t))
BY DEF EngineInv, EngineTypeOK, ThreadOK, Consistent, TypeOK, Current, ThreadRow, Seen, Job

\* A thread that remembers nothing relies on little.
LEMMA BlankOK ==
    ASSUME NEW j \in Jobs,
           NEW pc \in Pcs \ (TreePcs \cup {"orphan_result", "orphan_tree", "commit_recovery",
                              "control", "commit_control", "owner_result"})
    PROVE  /\ SeenOK(pc, j, NoAttempt) /\ VerdictOK(pc, j, None)
           /\ SeenOK(pc, j, NoAttempt)' /\ VerdictOK(pc, j, None)'
BY NoAttemptRow DEF SeenOK, VerdictOK, TreePcs

\* Return.
LEMMA ReturnKeeps ==
    ASSUME EngineInv, NEW t \in Threads, threads[t].pc \notin {"idle", "commit_control"},
           Reads, UNCHANGED <<boot, crashes>>,
           NEW outcome \in {"ok", "error", "mismatch"}, Return(t, outcome)
    PROVE  EngineInv'
<1>1. Rests(t) /\ Job(t) \in Jobs /\ Admitted(Job(t)) /\ Jobs # {}
  BY OnJob, ReturnRests
<1>2. PICK pc \in Resting, j \in Jobs \cup {None} :
         /\ Moves(t, pc, j, NoAttempt, None, FALSE, "return")
         /\ pc # "idle" => j \in Jobs /\ Admitted(j)
  BY <1>1 DEF Rests
<1>3. pc \in Pcs \ (TreePcs \cup {"orphan_result", "orphan_tree", "commit_recovery",
                     "control", "commit_control", "owner_result", "launch"})
  BY DEF Resting, Pcs, TreePcs
<1>4. pc # "idle" => SeenOK(pc, j, NoAttempt) /\ VerdictOK(pc, j, None)
  BY <1>2, <1>3, BlankOK
<1>5. PlaceOK(pc, j, FALSE, "return")
  BY DEF PlaceOK, Resting, ResultPcs, FiledPcs, OrphanPcs, TreePcs
<1> QED BY <1>1, <1>2, <1>3, <1>4, <1>5, NoAttemptRow, ReadMoves

\* Goto.
LEMMA GotoKeeps ==
    ASSUME EngineInv, NEW t \in Threads, threads[t].pc \notin {"idle", "commit_control"},
           Reads, UNCHANGED <<boot, crashes>>,
           NEW pc \in {"orphan", "reconcile", "result", "recover", "request_cancel",
                       "request_orphan_cancel"}, Goto(t, pc),
           pc = "result" => bundles[Job(t)].result # None,
           pc = "request_orphan_cancel" => IsTerminal(Job(t))
    PROVE  EngineInv'
<1>1. /\ Job(t) \in Jobs /\ Admitted(Job(t)) /\ Jobs # {}
      /\ threads \in [Threads -> ThreadRow]
  BY OnJob
<1>2. pc \in Pcs \ (TreePcs \cup {"orphan_result", "orphan_tree", "commit_recovery",
                     "control", "commit_control", "owner_result", "launch"})
  BY DEF Pcs, TreePcs
<1>3. PICK j \in Jobs : j = Job(t)
  BY <1>1
<1>4. Moves(t, pc, j, NoAttempt, None, FALSE, "return")
  BY <1>1, <1>2, <1>3, GotoMoves
<1>5. SeenOK(pc, j, NoAttempt) /\ VerdictOK(pc, j, None)
  BY <1>2, BlankOK
<1>6. PlaceOK(pc, j, FALSE, "return")
  BY <1>3 DEF PlaceOK, ResultPcs, FiledPcs, OrphanPcs, TreePcs
<1> QED BY <1>1, <1>2, <1>3, <1>4, <1>5, <1>6, NoAttemptRow, ReadMoves

\* Control: the verdict is one the thread has grounds for.
LEMMA ControlKeeps ==
    ASSUME EngineInv, NEW t \in Threads, threads[t].pc \notin {"idle", "commit_control"},
           Reads, UNCHANGED <<boot, crashes>>,
           NEW verdict \in Terminal, NEW then \in {"return", "recover"}, Control(t, verdict, then),
           verdict = "cancelled" =>
              IsConclusive(Job(t)) \/ (Desired(Job(t)) /\ Settled(Job(t))),
           verdict = "orphaned" => hosts[Job(t)].launches # 0
    PROVE  EngineInv'
<1>1. /\ Job(t) \in Jobs /\ Admitted(Job(t)) /\ Jobs # {}
      /\ threads \in [Threads -> ThreadRow]
  BY OnJob
<1>2. "control" \in Pcs \ {"commit_control", "launch"} /\ then \in Continuations
  BY DEF Pcs, Continuations
<1>3. PICK j \in Jobs : j = Job(t)
  BY <1>1
<1>4. Moves(t, "control", j, NoAttempt, verdict, FALSE, then)
  BY <1>1, <1>2, <1>3, ControlMoves
<1>5. SeenOK("control", j, NoAttempt)
  BY NoAttemptRow DEF SeenOK, TreePcs
<1>6. VerdictOK("control", j, verdict)
  BY <1>3 DEF VerdictOK
<1>7. PlaceOK("control", j, FALSE, then)
  BY DEF PlaceOK, ResultPcs, FiledPcs, OrphanPcs, TreePcs
<1> QED BY <1>1, <1>2, <1>3, <1>4, <1>5, <1>6, <1>7, NoAttemptRow, ReadMoves

\* The row a thread reads now.
LEMMA RecordOK ==
    ASSUME NEW j \in Jobs, attempts[j] \in AttemptRow, Admitted(j), JobOK(j), NEW pc,
           pc \in {"commit_recovery"} \cup TreePcs /\ attempts[j].owner # None => Vacant(j)
    PROVE  SeenOK(pc, j, Record(attempts[j]))
<1>1. /\ Record(attempts[j]).state = attempts[j].state
      /\ Record(attempts[j]).owner = attempts[j].owner
      /\ Record(attempts[j]).intent = attempts[j].intent
      /\ Record(attempts[j]).rv = attempts[j].rv /\ attempts[j].rv \in Nat
  BY RecordRow DEF AttemptRow
<1> QED BY <1>1 DEF SeenOK, JobOK

\* Look.
LEMMA LookKeeps ==
    ASSUME EngineInv, NEW t \in Threads, threads[t].pc \notin {"idle", "commit_control"},
           Reads, UNCHANGED <<boot, crashes>>,
           NEW pc \in {"verify", "check_result", "orphan_result", "cancel_result", "bundle",
                       "dispatch"}, Look(t, pc),
           pc \in {"orphan_result", "cancel_result"} => IsTerminal(Job(t)),
           pc = "cancel_result" =>
              /\ attempts[Job(t)].owner # None => Vacant(Job(t))
              /\ IsConclusive(Job(t)) \/ Desired(Job(t))
              /\ IsConclusive(Job(t)) \/ Settled(Job(t))
    PROVE  EngineInv'
<1>1. PICK j \in Jobs : j = Job(t)
  BY OnJob
<1>2. /\ Admitted(j) /\ JobOK(j) /\ attempts[j] \in AttemptRow /\ Current(t) = attempts[j]
      /\ threads \in [Threads -> ThreadRow]
      /\ VerdictOK(threads[t].pc, j, Verdict(t))
      /\ PlaceOK(threads[t].pc, j, threads[t].clean, threads[t].then)
  BY <1>1, OnJob DEF Current
<1>3. pc \in Pcs \ {"commit_control", "launch"}
  BY DEF Pcs
<1>4. Moves(t, pc, j, Record(attempts[j]), Verdict(t), threads[t].clean, threads[t].then)
  BY <1>1, <1>2, <1>3, LookMoves
<1>5. SeenOK(pc, j, Record(attempts[j])) /\ Record(attempts[j]) \in AttemptRow
  BY <1>1, <1>2, RecordOK, RecordRow DEF TreePcs
<1>6. VerdictOK(pc, j, Verdict(t))
  BY <1>2 DEF VerdictOK
<1>7. PlaceOK(pc, j, threads[t].clean, threads[t].then)
  BY <1>1, <1>2 DEF PlaceOK, ResultPcs, FiledPcs, OrphanPcs, TreePcs
<1> QED BY <1>1, <1>2, <1>3, <1>4, <1>5, <1>6, <1>7, ReadMoves

\* Keep.
LEMMA KeepKeeps ==
    ASSUME EngineInv, NEW t \in Threads, threads[t].pc \notin {"idle", "commit_control"},
           Reads, UNCHANGED <<boot, crashes>>,
           NEW pc \in {"bundle", "dispatch", "await", "await_bind", "await_transient",
                       "check_start", "bind", "transient", "unit", "owner", "orphan_tree",
                       "orphan_decide", "poll_result", "poll_unit"}, Keep(t, pc),
           pc \in {"bind", "await_bind"} => bundles[Job(t)].start,
           pc \in {"poll_result", "poll_unit"} => threads[t].pc \in FiledPcs,
           pc \in {"orphan_tree", "orphan_decide"} =>
              threads[t].pc \in {"orphan_result", "orphan_tree"},
           pc = "orphan_decide" =>
              /\ Seen(t).owner # None => Vacant(Job(t))
              /\ IsConclusive(Job(t)) \/ Settled(Job(t))
    PROVE  EngineInv'
<1>1. PICK j \in Jobs : j = Job(t)
  BY OnJob
<1>2. /\ Admitted(j) /\ Seen(t) \in AttemptRow
      /\ threads \in [Threads -> ThreadRow]
      /\ SeenOK(threads[t].pc, j, Seen(t))
      /\ VerdictOK(threads[t].pc, j, Verdict(t))
      /\ PlaceOK(threads[t].pc, j, threads[t].clean, threads[t].then)
  BY <1>1, OnJob
<1>3. pc \in Pcs \ {"commit_control", "launch"}
  BY DEF Pcs
<1>4. Moves(t, pc, j, Seen(t), Verdict(t), threads[t].clean, threads[t].then)
  BY <1>1, <1>2, <1>3, KeepMoves
<1>5. SeenOK(pc, j, Seen(t))
  BY <1>1, <1>2 DEF SeenOK, TreePcs
<1>6. VerdictOK(pc, j, Verdict(t))
  BY <1>2 DEF VerdictOK
<1>7. PlaceOK(pc, j, threads[t].clean, threads[t].then)
  BY <1>1, <1>2 DEF PlaceOK, ResultPcs, FiledPcs, OrphanPcs, TreePcs
<1> QED BY <1>1, <1>2, <1>3, <1>4, <1>5, <1>6, <1>7, ReadMoves

-----------------------------------------------------------------------------
(* Requests.                                                               *)

\* A request begins with its Job and, if it is to dispatch it, its row.
LEMMA BeginKeeps ==
    ASSUME EngineInv, NEW t \in Threads, threads[t].pc = "idle", NEW j \in Jobs, Admitted(j),
           Reads, UNCHANGED <<boot, crashes>>,
           NEW pc \in {"reconcile_job", "cancel_orphan", "verify", "orphan", "clear", "reconcile"},
           pc = "cancel_orphan" => IsTerminal(j),
           NEW row \in {NoAttempt, Record(attempts[j])},
           Moves(t, pc, j, row, None, FALSE, "return")
    PROVE  EngineInv'
<1>1. /\ attempts[j] \in AttemptRow /\ JobOK(j) /\ Jobs # {}
  BY DEF EngineInv, Consistent, TypeOK
<1>2. pc \in Pcs \ (TreePcs \cup {"orphan_result", "orphan_tree", "commit_recovery",
                     "control", "commit_control", "owner_result", "launch"})
  BY DEF Pcs, TreePcs
<1>3. SeenOK(pc, j, row) /\ row \in AttemptRow
  BY <1>1, <1>2, RecordOK, RecordRow, BlankOK, NoAttemptRow DEF TreePcs
<1>4. VerdictOK(pc, j, None)
  BY <1>2, BlankOK
<1>5. PlaceOK(pc, j, FALSE, "return")
  BY DEF PlaceOK, ResultPcs, FiledPcs, OrphanPcs, TreePcs
<1> QED BY <1>1, <1>2, <1>3, <1>4, <1>5, ReadMoves

\* job.observe, job.cancel and one maintenance candidate.
LEMMA BeginReads ==
    ASSUME EngineInv, NEW t \in Threads, NEW j \in Jobs, UNCHANGED <<boot, crashes>>,
           BeginObserve(t, j) \/ BeginCancel(t, j) \/ BeginMaintenance(t, j)
    PROVE  EngineInv'
<1>0. threads \in [Threads -> ThreadRow] /\ attempts[j] \in AttemptRow /\ NoAttempt \in AttemptRow
  BY NoAttemptRow DEF EngineInv, EngineTypeOK, Consistent, TypeOK
<1>1. CASE BeginObserve(t, j)
  <2> DEFINE pc == "reconcile_job"
             op == "observe"
  <2>1. /\ Become(t, [Idle EXCEPT !.pc = pc, !.op = op, !.job = j])
        /\ pc \in Pcs /\ op \in Operating \cup {None}
    BY <1>1 DEF BeginObserve, Pcs, Operating
  <2> HIDE DEF pc, op
  <2>2. Moves(t, pc, j, NoAttempt, None, FALSE, "return")
    BY <1>0, <2>1, BeginMoves
  <2>3. threads[t].pc = "idle" /\ Admitted(j) /\ Reads
    BY <1>1 DEF BeginObserve, At
  <2> QED BY <2>2, <2>3, BeginKeeps DEF pc
<1>2. CASE BeginCancel(t, j)
  <2> DEFINE orphaned == jobs[j].resolution = "orphaned"
             pc == IF orphaned THEN "cancel_orphan" ELSE "reconcile_job"
             op == IF orphaned THEN "stop" ELSE "cancel"
  <2>1. /\ Become(t, [Idle EXCEPT !.job = j, !.pc = pc, !.op = op])
        /\ pc \in Pcs /\ op \in Operating \cup {None}
    BY <1>2 DEF BeginCancel, Pcs, Operating
  <2>2. pc \in {"reconcile_job", "cancel_orphan"} /\ (pc = "cancel_orphan" => orphaned)
    OBVIOUS
  <2> HIDE DEF pc, op
  <2>3. Moves(t, pc, j, NoAttempt, None, FALSE, "return")
    BY <1>0, <2>1, BeginMoves
  <2>4. threads[t].pc = "idle" /\ Admitted(j) /\ Reads
    BY <1>2 DEF BeginCancel, At
  <2>5. orphaned => IsTerminal(j)
    BY <2>4 DEF EngineInv, Consistent, RuntimeInvariants, ResolutionAgrees
  <2> QED BY <2>2, <2>3, <2>4, <2>5, BeginKeeps
<1>3. CASE BeginMaintenance(t, j)
  <2> DEFINE state == attempts[j].state
             op == IF state = "orphaned" THEN "remedy" ELSE "maintain"
             pc == CASE state = "accepted"   -> "verify"
                     [] state = "orphaned"   -> "orphan"
                     [] state \in Conclusive -> "clear"
                     [] OTHER                -> "reconcile"
             row == IF state = "accepted" THEN Record(attempts[j]) ELSE NoAttempt
  <2>1. Become(t, [Idle EXCEPT !.job = j, !.op = op, !.pc = pc, !.seen = row])
    BY <1>3 DEF BeginMaintenance
  <2>2. op \in Operating \cup {None} /\ pc \in {"verify", "orphan", "clear", "reconcile"}
    BY DEF Operating
  <2>3. row \in {NoAttempt, Record(attempts[j])}
    OBVIOUS
  <2>4. row \in AttemptRow
    BY <1>0, <2>3, RecordRow
  <2> HIDE DEF op, pc, row
  <2>5. pc \in Pcs
    BY <2>2 DEF Pcs
  <2>6. Moves(t, pc, j, row, None, FALSE, "return")
    BY <1>0, <2>1, <2>2, <2>4, <2>5, BeginMoves
  <2>7. threads[t].pc = "idle" /\ Admitted(j) /\ Reads
    BY <1>3 DEF BeginMaintenance, At
  <2> QED BY <2>2, <2>3, <2>6, <2>7, BeginKeeps
<1> QED BY <1>1, <1>2, <1>3

\* Where the row of the Job leads, and a new Job that goes to dispatch.
LEMMA RequestReads ==
    ASSUME EngineInv, NEW t \in Threads, UNCHANGED <<boot, crashes>>,
           ReconcileJob(t) \/ LoadAdmitted(t) \/ VerifyPreconditions(t) \/ JoinDispatch(t)
    PROVE  EngineInv'
<1>1. CASE ReconcileJob(t)
  <2>1. threads[t].pc \notin {"idle", "commit_control"} /\ Reads
    BY <1>1 DEF ReconcileJob, At
  <2>2. \/ Return(t, "ok") \/ Goto(t, "orphan") \/ Look(t, "verify") \/ Goto(t, "reconcile")
    BY <1>1 DEF ReconcileJob
  <2> QED BY <2>1, <2>2, ReturnKeeps, GotoKeeps, LookKeeps
<1>2. CASE LoadAdmitted(t)
  <2>1. threads[t].pc \notin {"idle", "commit_control"} /\ Reads
    BY <1>2 DEF LoadAdmitted, At
  <2>2. Return(t, "ok") \/ Look(t, "verify")
    BY <1>2 DEF LoadAdmitted
  <2> QED BY <2>1, <2>2, ReturnKeeps, LookKeeps
<1>3. CASE VerifyPreconditions(t)
  <2>1. threads[t].pc \notin {"idle", "commit_control"} /\ Reads
    BY <1>3 DEF VerifyPreconditions, At
  <2>2. \/ Keep(t, "bundle") \/ Keep(t, "dispatch") \/ Control(t, "failed", "return")
        \/ Return(t, "error")
    BY <1>3 DEF VerifyPreconditions
  <2> QED BY <2>1, <2>2, ReturnKeeps, KeepKeeps, ControlKeeps
<1>4. CASE JoinDispatch(t)
  <2>1. threads[t].pc \notin {"idle", "commit_control"} /\ Reads
    BY <1>4 DEF JoinDispatch, At
  <2>2. Goto(t, "reconcile") \/ Return(t, "ok") \/ Return(t, "error")
    BY <1>4 DEF JoinDispatch
  <2> QED BY <2>1, <2>2, ReturnKeeps, GotoKeeps
<1> QED BY <1>1, <1>2, <1>3, <1>4

-----------------------------------------------------------------------------
(* Observation of a dispatched Attempt.                                    *)

\* The host row of an Attempt that was seen started or in an active unit.
LEMMA StartedOK ==
    ASSUME EngineInv, NEW j \in Jobs, bundles[j].start \/ hosts[j].unit # "absent"
    PROVE  hosts[j].launches # 0
BY DEF EngineInv, HostOK

\* Launch evidence, and the loss of the main process.
LEMMA EvidenceReads ==
    ASSUME EngineInv, NEW t \in Threads, UNCHANGED <<boot, crashes>>,
           AwaitLaunchEvidence(t) \/ MainPidLost(t) \/ CheckStart(t)
    PROVE  EngineInv'
<1>1. CASE AwaitLaunchEvidence(t)
  <2>1. threads[t].pc \notin {"idle", "commit_control"} /\ Reads
    BY <1>1 DEF AwaitLaunchEvidence, At
  <2>2. \/ bundles[Job(t)].result # None /\ Goto(t, "result")
        \/ bundles[Job(t)].start /\ Keep(t, "await_bind")
        \/ Keep(t, "await_transient") \/ Return(t, "mismatch") \/ Goto(t, "reconcile")
    BY <1>1 DEF AwaitLaunchEvidence
  <2> QED BY <2>1, <2>2, ReturnKeeps, KeepKeeps, GotoKeeps
<1>2. CASE MainPidLost(t)
  <2>1. threads[t].pc \notin {"idle", "commit_control"} /\ Reads
    BY <1>2 DEF MainPidLost, At
  <2>2. \/ bundles[Job(t)].result # None /\ Goto(t, "result")
        \/ Return(t, "ok") \/ Keep(t, "await") \/ Return(t, "mismatch")
    BY <1>2 DEF MainPidLost
  <2> QED BY <2>1, <2>2, ReturnKeeps, KeepKeeps, GotoKeeps
<1>3. CASE CheckStart(t)
  <2>1. threads[t].pc \notin {"idle", "commit_control"} /\ Reads
    BY <1>3 DEF CheckStart, At
  <2>2. \/ bundles[Job(t)].start /\ Keep(t, "bind")
        \/ Keep(t, "transient") \/ Keep(t, "unit") \/ Return(t, "mismatch")
    BY <1>3 DEF CheckStart
  <2> QED BY <2>1, <2>2, ReturnKeeps, KeepKeeps
<1> QED BY <1>1, <1>2, <1>3

\* reconcile_attempt up to a unit without start evidence.
LEMMA ReconcileReads ==
    ASSUME EngineInv, NEW t \in Threads, UNCHANGED <<boot, crashes>>,
           ReconcileAttempt(t) \/ CheckResult(t) \/ ObserveStartingUnit(t)
    PROVE  EngineInv'
<1>1. CASE ReconcileAttempt(t)
  <2>1. threads[t].pc \notin {"idle", "commit_control"} /\ Reads
    BY <1>1 DEF ReconcileAttempt, At
  <2>2. Return(t, "ok") \/ Look(t, "check_result")
    BY <1>1 DEF ReconcileAttempt
  <2> QED BY <2>1, <2>2, ReturnKeeps, LookKeeps
<1>2. CASE CheckResult(t)
  <2>1. threads[t].pc \notin {"idle", "commit_control"} /\ Reads
    BY <1>2 DEF CheckResult, At
  <2>2. \/ bundles[Job(t)].result # None /\ Goto(t, "result")
        \/ Keep(t, "check_start") \/ Keep(t, "owner")
    BY <1>2 DEF CheckResult
  <2> QED BY <2>1, <2>2, GotoKeeps, KeepKeeps
<1>3. CASE ObserveStartingUnit(t)
  <2>1. threads[t].pc \notin {"idle", "commit_control"} /\ Reads
    BY <1>3 DEF ObserveStartingUnit, At
  <2>2. \/ Return(t, "ok") \/ Control(t, "lost", "return")
        \/ hosts[Job(t)].unit # "absent" /\ Control(t, "orphaned", "return")
    BY <1>3 DEF ObserveStartingUnit, UnitIsActive
  <2>3. hosts[Job(t)].unit # "absent" => hosts[Job(t)].launches # 0
    BY <2>1, OnJob, StartedOK
  <2> QED BY <2>1, <2>2, <2>3, ReturnKeeps, ControlKeeps
<1> QED BY <1>1, <1>2, <1>3

\* classify_supervisor_recovery: a verdict of cancelled rests on the recorded
\* intent and on a Runner that is past its check of the cancel file.
LEMMA DispositionOK ==
    ASSUME EngineInv, NEW j \in Jobs, NEW row \in AttemptRow, NEW pc, SeenOK(pc, j, row),
           row.owner # None
    PROVE  /\ Disposition(row, j) \in Terminal \cup {"running"}
           /\ Disposition(row, j) = "cancelled" => Desired(j) /\ Settled(j)
           /\ Disposition(row, j) = "orphaned" => hosts[j].launches # 0
<1>1. bundles[j].start /\ HostOK(j) /\ hosts[j].launches # 0
  BY StartedOK DEF SeenOK, EngineInv
<1>2. Disposition(row, j) \in Terminal \cup {"running"}
  BY DEF Disposition
<1>3. ASSUME Disposition(row, j) = "cancelled"
      PROVE  /\ row.intent = "stop_requested" /\ ~UnitIsActive(j)
             /\ UnitIsLoaded(j) \/ ~RunnerAlive(j)
  BY <1>3 DEF Disposition
<1>4. ASSUME Disposition(row, j) = "cancelled"
      PROVE  Settled(j)
  <2>1. hosts[j].unit \in UnitStates /\ hosts[j].runner \in Alive \cup {"absent", "dead"}
    BY DEF EngineInv, EngineTypeOK, HostRow
  <2> QED BY <1>1, <1>3, <1>4, <2>1 DEF HostOK, Settled, PastCheck, UnitStates, Alive, RunnerAlive,
             UnitIsLoaded, UnitIsActive
<1> QED BY <1>1, <1>2, <1>3, <1>4 DEF SeenOK

\* reconcile_bound_attempt.
LEMMA OwnerReads ==
    ASSUME EngineInv, NEW t \in Threads, UNCHANGED <<boot, crashes>>,
           ObserveOwner(t) \/ ConcludeOwner(t)
    PROVE  EngineInv'
<1>1. CASE ObserveOwner(t)
  <2>1. threads[t].pc = "owner" /\ Reads
    BY <1>1 DEF ObserveOwner, At
  <2>2. CASE Return(t, "error")
    BY <2>1, <2>2, ReturnKeeps
  <2>3. CASE Seen(t).owner # None /\ Decide(t, "owner_result", Disposition(Seen(t), Job(t)))
    <3>1. PICK j \in Jobs : j = Job(t)
      BY <2>1, OnJob
    <3>2. /\ Admitted(j) /\ Seen(t) \in AttemptRow
          /\ threads \in [Threads -> ThreadRow]
          /\ SeenOK("owner", j, Seen(t))
          /\ PlaceOK("owner", j, threads[t].clean, threads[t].then)
      BY <2>1, <3>1, OnJob
    <3>3. /\ Disposition(Seen(t), j) \in Terminal \cup {"running"}
          /\ Disposition(Seen(t), j) = "cancelled" => Desired(j) /\ Settled(j)
          /\ Disposition(Seen(t), j) = "orphaned" => hosts[j].launches # 0
      BY <2>3, <3>2, DispositionOK
    <3>4. PICK verdict \in Terminal \cup {"running"} : verdict = Disposition(Seen(t), j)
      BY <3>3
    <3>5. "owner_result" \in Pcs \ {"commit_control", "launch"}
      BY DEF Pcs
    <3>6. Moves(t, "owner_result", j, Seen(t), verdict, threads[t].clean, threads[t].then)
      BY <2>3, <3>1, <3>2, <3>4, <3>5, DecideMoves
    <3>7. SeenOK("owner_result", j, Seen(t))
      BY <3>2 DEF SeenOK, TreePcs
    <3>8. VerdictOK("owner_result", j, verdict)
      BY <3>3, <3>4 DEF VerdictOK
    <3>9. PlaceOK("owner_result", j, threads[t].clean, threads[t].then)
      BY <3>2 DEF PlaceOK, ResultPcs, FiledPcs, OrphanPcs, TreePcs
    <3> QED BY <2>1, <3>2, <3>5, <3>6, <3>7, <3>8, <3>9, ReadMoves
  <2> QED BY <1>1, <2>2, <2>3 DEF ObserveOwner
<1>2. CASE ConcludeOwner(t)
  <2>1. threads[t].pc = "owner_result" /\ Reads
    BY <1>2 DEF ConcludeOwner, At
  <2>2. /\ VerdictOK("owner_result", Job(t), Verdict(t))
        /\ Verdict(t) \in Terminal \cup {"running", None}
    BY <2>1, OnJob DEF ThreadRow, Verdict
  <2>3. CASE bundles[Job(t)].result # None /\ Goto(t, "result")
    BY <2>1, <2>3, GotoKeeps
  <2>4. CASE Return(t, "ok")
    BY <2>1, <2>4, ReturnKeeps
  <2>5. CASE /\ Verdict(t) # "running"
             /\ Control(t, Verdict(t), IF Verdict(t) = "orphaned" THEN "recover" ELSE "return")
    <3>1. PICK then \in {"return", "recover"} : Control(t, Verdict(t), then)
      BY <2>5
    <3>2. PICK verdict \in Terminal : verdict = Verdict(t)
      BY <2>2, <2>5 DEF VerdictOK
    <3>3. Control(t, verdict, then)
      BY <3>1, <3>2
    <3> QED BY <2>1, <2>2, <3>2, <3>3, ControlKeeps DEF VerdictOK
  <2> QED BY <1>2, <2>3, <2>4, <2>5 DEF ConcludeOwner
<1> QED BY <1>1, <1>2

-----------------------------------------------------------------------------
(* Orphans and cancellation.                                               *)

\* orphan_process_tree_alive: an absent tree is gone with its unit, and its
\* Runner will not come to its check of the cancel file any more.
LEMMA AbsentTree ==
    ASSUME EngineInv, NEW j \in Jobs, NEW row \in AttemptRow, IsTerminal(j),
           row.owner # None => bundles[j].start /\ (row.owner # boot => Vacant(j)),
           ~OrphanProcessTreeAlive(row, j)
    PROVE  /\ row.owner # None => Vacant(j)
           /\ IsConclusive(j) \/ Settled(j)
<1>1. HostOK(j) /\ JobOK(j) /\ hosts[j].unit \in UnitStates
      /\ hosts[j].runner \in Alive \cup {"absent", "dead"}
  BY DEF EngineInv, EngineTypeOK, HostRow
<1>2. row.owner # None => Vacant(j)
  BY DEF OrphanProcessTreeAlive, Vacant, Gone
<1>3. ASSUME ~IsConclusive(j) PROVE Settled(j)
  <2>1. hosts[j].launches # 0
    BY <1>1, <1>3 DEF JobOK, IsConclusive
  <2>2. CASE row.owner = None
    <3>1. hosts[j].unit \in {"absent", "failed", "stopping", "failing"}
      BY <1>1, <2>2 DEF OrphanProcessTreeAlive, UnitIsActive, UnitHasPendingJob, UnitStates
    <3> QED BY <1>1, <2>1, <3>1 DEF HostOK, Settled, PastCheck, RunnerAlive, Alive
  <2>3. CASE row.owner # None
    <3>1. Vacant(j)
      BY <1>2, <2>3
    <3> QED BY <1>1, <2>1, <3>1 DEF HostOK, Settled, PastCheck, Vacant, Gone, CgroupPopulated,
               RunnerAlive, Alive
  <2> QED BY <2>2, <2>3
<1> QED BY <1>2, <1>3

\* observe_terminal_process_tree: a clean disposition is true.
LEMMA CleanIsGone ==
    ASSUME NEW j \in Jobs, NEW row,
           row.owner # None => bundles[j].start /\ (row.owner # boot => Vacant(j)),
           TerminalClean(row, j)
    PROVE  Gone(j)
BY DEF TerminalClean, Gone, Vacant

\* Prepare: the row read now, and the disposition of the process tree.
LEMMA PrepareOK ==
    ASSUME EngineInv, NEW t \in Threads, threads[t].pc # "idle",
           NEW pc \in {"commit_control", "commit_result", "retry_result", "commit_recovery"},
           pc # "commit_control" => bundles[Job(t)].result # None,
           pc = "commit_control" => Verdict(t) \in Terminal,
           pc = "commit_recovery" => (attempts[Job(t)].owner # None => Vacant(Job(t)))
    PROVE  /\ pc \in Pcs
           /\ SeenOK(pc, Job(t), Record(Current(t))) /\ Record(Current(t)) \in AttemptRow
           /\ VerdictOK(pc, Job(t), Verdict(t))
           /\ PlaceOK(pc, Job(t), TerminalClean(Current(t), Job(t)), threads[t].then)
<1>1. PICK j \in Jobs : j = Job(t)
  BY OnJob
<1>2. /\ Admitted(j) /\ JobOK(j) /\ attempts[j] \in AttemptRow /\ Current(t) = attempts[j]
      /\ VerdictOK(threads[t].pc, j, Verdict(t))
      /\ PlaceOK(threads[t].pc, j, threads[t].clean, threads[t].then)
  BY <1>1, OnJob DEF Current
<1>3. pc \in Pcs
  BY DEF Pcs
<1>4. SeenOK(pc, j, Record(attempts[j])) /\ Record(attempts[j]) \in AttemptRow
  BY <1>1, <1>2, RecordOK, RecordRow DEF TreePcs
<1>5. VerdictOK(pc, j, Verdict(t))
  BY <1>1, <1>2 DEF VerdictOK
<1>6. TerminalClean(attempts[j], j) => Gone(j)
  BY <1>2, CleanIsGone DEF JobOK
<1>7. PlaceOK(pc, j, TerminalClean(attempts[j], j), threads[t].then)
  BY <1>1, <1>2, <1>6 DEF PlaceOK, ResultPcs, FiledPcs, OrphanPcs, TreePcs
<1> QED BY <1>1, <1>2, <1>3, <1>4, <1>5, <1>7

\* recover_orphaned_runner_result up to the prepared commit.
LEMMA RecoveryReads ==
    ASSUME EngineInv, NEW t \in Threads, UNCHANGED <<boot, crashes>>, LoadForRecovery(t)
    PROVE  EngineInv'
<1>1. threads[t].pc = "recover" /\ Reads
  BY DEF LoadForRecovery, At
<1>2. PICK j \in Jobs : j = Job(t)
  BY <1>1, OnJob
<1>3. /\ Admitted(j) /\ JobOK(j) /\ attempts[j] \in AttemptRow /\ Current(t) = attempts[j]
      /\ threads \in [Threads -> ThreadRow]
      /\ PlaceOK("recover", j, threads[t].clean, threads[t].then)
  BY <1>1, <1>2, OnJob DEF Current
<1>4. CASE Return(t, "ok")
  BY <1>1, <1>4, ReturnKeeps
<1>5. CASE threads[t].then = "request" /\ Goto(t, "request_orphan_cancel")
  BY <1>1, <1>2, <1>3, <1>5, GotoKeeps DEF PlaceOK
<1>6. CASE /\ attempts[j].state = "orphaned" /\ bundles[j].result # None
           /\ ~OrphanProcessTreeAlive(attempts[j], j) /\ Prepare(t, "commit_recovery")
  <2>1. attempts[j].owner # None => Vacant(j)
    BY <1>3, <1>6, AbsentTree DEF JobOK
  <2>2. "commit_recovery" \in Pcs \ {"commit_control", "launch"}
    BY DEF Pcs
  <2>3. Moves(t, "commit_recovery", j, Record(attempts[j]), Verdict(t),
              TerminalClean(attempts[j], j), threads[t].then)
    BY <1>2, <1>3, <1>6, <2>2, PrepareMoves
  <2>4. /\ SeenOK("commit_recovery", j, Record(attempts[j])) /\ Record(attempts[j]) \in AttemptRow
        /\ VerdictOK("commit_recovery", j, Verdict(t))
        /\ PlaceOK("commit_recovery", j, TerminalClean(attempts[j], j), threads[t].then)
    BY <1>1, <1>2, <1>3, <1>6, <2>1, PrepareOK
  <2> QED BY <1>1, <1>3, <2>2, <2>3, <2>4, ReadMoves
<1> QED BY <1>2, <1>4, <1>5, <1>6 DEF LoadForRecovery

\* Moving on with a verdict for an absent orphan.
LEMMA RemediateKeeps ==
    ASSUME EngineInv, NEW t \in Threads, threads[t].pc \in {"orphan_decide", "cancel_result"},
           Reads, UNCHANGED <<boot, crashes>>, NEW verdict \in Conclusive,
           verdict = "cancelled" => IsConclusive(Job(t)) \/ Desired(Job(t)),
           Decide(t, "remediate", verdict)
    PROVE  EngineInv'
<1>1. PICK j \in Jobs : j = Job(t)
  BY OnJob
<1>2. /\ Admitted(j) /\ Seen(t) \in AttemptRow
      /\ threads \in [Threads -> ThreadRow]
      /\ SeenOK(threads[t].pc, j, Seen(t))
      /\ PlaceOK(threads[t].pc, j, threads[t].clean, threads[t].then)
  BY <1>1, OnJob
<1>3. "remediate" \in Pcs \ {"commit_control", "launch"}
  BY DEF Pcs
<1>4. Moves(t, "remediate", j, Seen(t), verdict, threads[t].clean, threads[t].then)
  BY <1>1, <1>2, <1>3, DecideMoves
<1>5. SeenOK("remediate", j, Seen(t))
  BY <1>2 DEF SeenOK, TreePcs
<1>6. VerdictOK("remediate", j, verdict)
  BY <1>1, <1>2 DEF VerdictOK, PlaceOK
<1>7. PlaceOK("remediate", j, threads[t].clean, threads[t].then)
  BY <1>2 DEF PlaceOK, ResultPcs, FiledPcs, OrphanPcs, TreePcs
<1> QED BY <1>2, <1>3, <1>4, <1>5, <1>6, <1>7, ReadMoves

\* reconcile_orphaned_attempt.
LEMMA OrphanReads ==
    ASSUME EngineInv, NEW t \in Threads, UNCHANGED <<boot, crashes>>,
           ReconcileOrphan(t) \/ OrphanResult(t) \/ OrphanTree(t) \/ OrphanDecide(t)
    PROVE  EngineInv'
<1>1. CASE ReconcileOrphan(t)
  <2>1. threads[t].pc = "orphan" /\ Reads
    BY <1>1 DEF ReconcileOrphan, At
  <2>2. \/ Return(t, "ok")
        \/ attempts[Job(t)].state = "orphaned" /\ Look(t, "orphan_result")
    BY <1>1 DEF ReconcileOrphan, Current
  <2> QED BY <2>1, <2>2, ReturnKeeps, LookKeeps
<1>2. CASE OrphanResult(t)
  <2>1. threads[t].pc = "orphan_result" /\ Reads
    BY <1>2 DEF OrphanResult, At
  <2>2. Goto(t, "recover") \/ Keep(t, "orphan_tree")
    BY <1>2 DEF OrphanResult
  <2> QED BY <2>1, <2>2, GotoKeeps, KeepKeeps
<1>3. CASE OrphanTree(t)
  <2>1. threads[t].pc = "orphan_tree" /\ Reads
    BY <1>3 DEF OrphanTree, At
  <2>2. CASE Return(t, "ok")
    BY <2>1, <2>2, ReturnKeeps
  <2>3. CASE ~OrphanProcessTreeAlive(Seen(t), Job(t)) /\ Keep(t, "orphan_decide")
    <3>1. PICK j \in Jobs, row \in AttemptRow : j = Job(t) /\ row = Seen(t)
      BY <2>1, OnJob
    <3>2. SeenOK("orphan_tree", j, row) /\ IsTerminal(j)
      BY <2>1, <3>1, OnJob DEF PlaceOK, OrphanPcs
    <3>3. (row.owner # None => Vacant(j)) /\ (IsConclusive(j) \/ Settled(j))
      BY <2>3, <3>1, <3>2, AbsentTree DEF SeenOK
    <3> QED BY <2>1, <2>3, <3>1, <3>3, KeepKeeps
  <2> QED BY <1>3, <2>2, <2>3 DEF OrphanTree
<1>4. CASE OrphanDecide(t)
  <2>1. threads[t].pc = "orphan_decide" /\ Reads
    BY <1>4 DEF OrphanDecide, At
  <2>2. CASE Goto(t, "recover")
    BY <2>1, <2>2, GotoKeeps
  <2>3. CASE bundles[Job(t)].result = None
    <3>1. PICK verdict \in Conclusive :
             /\ Decide(t, "remediate", verdict)
             /\ verdict = "cancelled" => Seen(t).intent = "stop_requested" \/ Desired(Job(t))
      BY <1>4, <2>3 DEF OrphanDecide, Desired
    <3>2. Seen(t).intent = "stop_requested" => Desired(Job(t))
      BY <2>1, OnJob DEF SeenOK
    <3> QED BY <2>1, <3>1, <3>2, RemediateKeeps
  <2> QED BY <1>4, <2>2, <2>3 DEF OrphanDecide
<1> QED BY <1>1, <1>2, <1>3, <1>4

\* A thread whose request is over.
LEMMA IdleKeeps ==
    ASSUME EngineInv, NEW t \in Threads, threads[t].pc \notin {"idle", "commit_control"},
           Reads, UNCHANGED <<boot, crashes>>, Become(t, Idle)
    PROVE  EngineInv'
<1>1. Jobs # {} /\ threads \in [Threads -> ThreadRow]
  BY OnJob
<1>2. Moves(t, "idle", None, NoAttempt, None, FALSE, "return")
  BY <1>1, IdleRow, BecomeMoves
<1>3. "idle" \in Pcs \ {"commit_control", "launch"}
  BY DEF Pcs
<1> QED BY <1>1, <1>2, <1>3, NoAttemptRow, ReadMoves

\* The reading steps of cancel_job.
LEMMA CancelReads ==
    ASSUME EngineInv, NEW t \in Threads, UNCHANGED <<boot, crashes>>,
           \/ CancelOrphan(t) \/ CancelTree(t) \/ CancelResult(t) \/ CancelTarget(t)
           \/ PollResult(t) \/ PollUnit(t)
    PROVE  EngineInv'
<1>1. CASE CancelOrphan(t)
  <2>1. threads[t].pc = "cancel_orphan" /\ Reads
    BY <1>1 DEF CancelOrphan, At
  <2>2. PICK j \in Jobs : j = Job(t)
    BY <2>1, OnJob
  <2>3. /\ Admitted(j) /\ threads \in [Threads -> ThreadRow] /\ Seen(t) \in AttemptRow
        /\ SeenOK("cancel_orphan", j, Seen(t))
        /\ VerdictOK("cancel_orphan", j, Verdict(t))
        /\ PlaceOK("cancel_orphan", j, threads[t].clean, threads[t].then)
    BY <2>1, <2>2, OnJob
  <2>4. CASE Goto(t, "request_orphan_cancel")
    BY <2>1, <2>2, <2>3, <2>4, GotoKeeps DEF PlaceOK, OrphanPcs
  <2>5. CASE Become(t, [threads[t] EXCEPT !.pc = "recover", !.then = "request"])
    <3> DEFINE pc == "recover"
               then == "request"
    <3>1. pc \in Pcs \ {"commit_control", "launch"} /\ then \in Continuations
      BY DEF Pcs, Continuations
    <3>2. SeenOK(pc, j, Seen(t)) /\ VerdictOK(pc, j, Verdict(t))
          /\ PlaceOK(pc, j, threads[t].clean, then)
      BY <2>3 DEF SeenOK, VerdictOK, PlaceOK, ResultPcs, FiledPcs, OrphanPcs, TreePcs
    <3>3. Become(t, [threads[t] EXCEPT !.pc = pc, !.then = then])
      BY <2>5
    <3> HIDE DEF pc, then
    <3>4. Moves(t, pc, j, Seen(t), Verdict(t), threads[t].clean, then)
      BY <2>2, <2>3, <3>1, <3>3, ThenMoves
    <3> QED BY <2>1, <2>3, <3>1, <3>2, <3>4, ReadMoves
  <2> QED BY <1>1, <2>4, <2>5 DEF CancelOrphan
<1>2. CASE CancelTree(t)
  <2>1. threads[t].pc = "cancel_tree" /\ Reads
    BY <1>2 DEF CancelTree, At
  <2>2. CASE Return(t, "ok")
    BY <2>1, <2>2, ReturnKeeps
  <2>3. CASE ~OrphanProcessTreeAlive(Current(t), Job(t)) /\ Look(t, "cancel_result")
    <3>1. PICK j \in Jobs, row \in AttemptRow : j = Job(t) /\ row = Current(t) /\ row = attempts[j]
      BY <2>1, OnJob DEF Current
    <3>2. JobOK(j) /\ IsTerminal(j) /\ (IsConclusive(j) \/ Desired(j))
      BY <2>1, <3>1, OnJob DEF PlaceOK, OrphanPcs
    <3>3. (row.owner # None => Vacant(j)) /\ (IsConclusive(j) \/ Settled(j))
      BY <2>3, <3>1, <3>2, AbsentTree DEF JobOK
    <3> QED BY <2>1, <2>3, <3>1, <3>2, <3>3, LookKeeps
  <2> QED BY <1>2, <2>2, <2>3 DEF CancelTree
<1>3. CASE CancelResult(t)
  <2>1. threads[t].pc = "cancel_result" /\ Reads
    BY <1>3 DEF CancelResult, At
  <2>2. Goto(t, "recover") \/ Decide(t, "remediate", "cancelled")
    BY <1>3 DEF CancelResult
  <2>3. IsConclusive(Job(t)) \/ Desired(Job(t))
    BY <2>1, OnJob DEF PlaceOK
  <2> QED BY <2>1, <2>2, <2>3, GotoKeeps, RemediateKeeps
<1>4. CASE CancelTarget(t)
  <2>1. threads[t].pc = "cancel_target" /\ Reads
    BY <1>4 DEF CancelTarget, At
  <2>2. Become(t, Idle) \/ Goto(t, "request_cancel")
    BY <1>4 DEF CancelTarget
  <2> QED BY <2>1, <2>2, IdleKeeps, GotoKeeps
<1>5. CASE PollResult(t)
  <2>1. threads[t].pc = "poll_result" /\ Reads
    BY <1>5 DEF PollResult, At
  <2>2. PICK j \in Jobs : j = Job(t)
    BY <2>1, OnJob
  <2>3. /\ Admitted(j) /\ threads \in [Threads -> ThreadRow]
        /\ VerdictOK("poll_result", j, Verdict(t))
        /\ PlaceOK("poll_result", j, threads[t].clean, threads[t].then)
    BY <2>1, <2>2, OnJob
  <2>4. CASE Keep(t, "poll_unit")
    BY <2>1, <2>4, KeepKeeps DEF FiledPcs
  <2>5. CASE /\ bundles[j].result # None
             /\ Become(t, [threads[t] EXCEPT !.pc = "result", !.seen = NoAttempt,
                                             !.then = "direct"])
    <3> DEFINE pc == "result"
               then == "direct"
               row == NoAttempt
    <3>1. /\ pc \in Pcs \ {"commit_control", "launch"} /\ then \in Continuations
          /\ row \in AttemptRow
      BY NoAttemptRow DEF Pcs, Continuations
    <3>2. SeenOK(pc, j, row) /\ VerdictOK(pc, j, Verdict(t))
          /\ PlaceOK(pc, j, threads[t].clean, then)
      BY <2>3, <2>5, NoAttemptRow
         DEF SeenOK, VerdictOK, PlaceOK, ResultPcs, FiledPcs, OrphanPcs, TreePcs
    <3>3. Become(t, [threads[t] EXCEPT !.pc = pc, !.seen = row, !.then = then])
      BY <2>5
    <3> HIDE DEF pc, then, row
    <3>4. Moves(t, pc, j, row, Verdict(t), threads[t].clean, then)
      BY <2>2, <2>3, <3>1, <3>3, ThenMoves
    <3> QED BY <2>1, <2>3, <3>1, <3>2, <3>4, ReadMoves
  <2> QED BY <1>5, <2>2, <2>4, <2>5 DEF PollResult
<1>6. CASE PollUnit(t)
  <2>1. threads[t].pc = "poll_unit" /\ Reads
    BY <1>6 DEF PollUnit, At
  <2>2. \/ Control(t, "cancelled", "return") \/ Keep(t, "poll_result") \/ Goto(t, "reconcile")
    BY <1>6 DEF PollUnit
  <2>3. Desired(Job(t)) /\ Settled(Job(t))
    BY <2>1, OnJob DEF PlaceOK, FiledPcs, Settled
  <2> QED BY <2>1, <2>2, <2>3, ControlKeeps, KeepKeeps, GotoKeeps DEF FiledPcs
<1> QED BY <1>1, <1>2, <1>3, <1>4, <1>5, <1>6

-----------------------------------------------------------------------------
(* Steps that write.                                                       *)

\* Nobody enqueued the unit of Attempt j or is about to.
NobodyLaunches(j) == hosts[j].launches = 0 /\ \A t \in Threads : ~AtLaunch(t, j)

\* Values of the rows of Job j that agree with its files and processes.
RowFits(j, state, intent, owner, digest, desired) ==
    /\ owner # None => bundles[j].start /\ (owner # boot => Vacant(j))
    /\ intent = "stop_requested" => desired = "cancelled"
    /\ state \notin Terminal => digest = None
    /\ state = "cancelled" => desired = "cancelled" /\ (Settled(j) \/ NobodyLaunches(j))
    /\ state = "orphaned" => hosts[j].launches # 0

\* The rows as they are.
LEMMA RowsFit ==
    ASSUME EngineInv, NEW j \in Jobs
    PROVE  RowFits(j, attempts[j].state, attempts[j].intent, attempts[j].owner,
                   attempts[j].digest, jobs[j].desired)
BY DEF EngineInv, JobOK, RowFits, Desired, NeverLaunched, NobodyLaunches

\* A step that leaves the rows of the Registry alone.
LEMMA SameRows ==
    ASSUME NEW j \in Jobs, UNCHANGED registryVars
    PROVE  /\ [Transaction]_registryVars
           /\ Rewrites(j, attempts[j].state, attempts[j].intent, attempts[j].owner,
                       attempts[j].digest, jobs[j].desired)
BY DEF Rewrites, registryVars

\* A write within its frame.
LEMMA WriteKeeps ==
    ASSUME EngineInv, NEW t \in Threads, NEW j \in Jobs, Frames(t, j), LockStep(t),
           NEW state, NEW intent, NEW owner, NEW digest, NEW desired,
           Rewrites(j, state, intent, owner, digest, desired),
           RowFits(j, state, intent, owner, digest, desired),
           NEW pc \in Pcs \ {"launch"}, NEW k, NEW row, NEW verdict, NEW clean, NEW then,
           Moves(t, pc, k, row, verdict, clean, then),
           pc # "idle" => /\ k = j /\ Admitted(j)' /\ SeenOK(pc, j, row)'
                          /\ VerdictOK(pc, j, verdict)' /\ PlaceOK(pc, j, clean, then)',
           hosts'[j].launches = hosts[j].launches,
           bundles'[j].cancel => desired = "cancelled",
           bundles'[j].clean => Gone(j)',
           /\ state \in Terminal /\ digest \in {ControlEvidence(u, state) : u \in Threads}
           => bundles'[j].control = digest
    PROVE  EngineInv'
<1>1. RowsAdvance(j) /\ HostAdvances(j) /\ boot' = boot
      /\ \A i \in Jobs : RowsAdvance(i) /\ hosts'[i].launches = hosts[i].launches
  BY RowsOnlyAdvance DEF EngineInv, Frames
<1>2. \A u \in Threads, i \in Jobs : AtLaunch(u, i)' => AtLaunch(u, i)
  BY DEF AtLaunch, At, Job, Moves
<1>3. NobodyLaunches(j) => NobodyLaunches(j)'
  BY <1>1, <1>2 DEF NobodyLaunches
<1>4. Settled(j) => Settled(j)'
  BY <1>1 DEF HostAdvances, Settled
<1>5. /\ attempts'[j].state = state /\ attempts'[j].intent = intent
      /\ attempts'[j].owner = owner /\ attempts'[j].digest = digest
      /\ jobs'[j].desired = desired
  BY DEF Rewrites
<1>6. JobOK(j)'
  <2>1. owner # None => bundles'[j].start /\ (owner # boot' => Vacant(j)')
    BY <1>1 DEF RowFits, HostAdvances
  <2>2. state = "cancelled" /\ NobodyLaunches(j)' => NeverLaunched(j)'
    BY <1>5 DEF NobodyLaunches, NeverLaunched, Undispatched
  <2>3. state = "orphaned" => hosts'[j].launches # 0
    BY DEF RowFits
  <2> QED BY <1>3, <1>4, <1>5, <2>1, <2>2, <2>3 DEF RowFits, JobOK, Desired
<1>7. LaunchOK'
  BY <1>1, <1>2 DEF EngineInv, LaunchOK, RowsAdvance
<1>8. ThreadOK(t)'
  <2>1. CASE pc = "idle"
    BY <2>1 DEF ThreadOK, Moves
  <2>2. CASE pc # "idle"
    BY <2>2, Arrives
  <2> QED BY <2>1, <2>2
<1>9. threads'[t].pc # "launch"
  BY DEF Moves
<1> QED BY <1>5, <1>6, <1>7, <1>8, <1>9, FrameKeeps

\* A write of the Registry alone.
LEMMA RegistryWrites ==
    ASSUME EngineInv, NEW t \in Threads, NEW j \in Jobs, [Transaction]_registryVars,
           RegistryOnly, UNCHANGED <<boot, crashes>>, threads[t].pc # "commit_control",
           NEW state, NEW intent, NEW owner, NEW digest, NEW desired,
           Rewrites(j, state, intent, owner, digest, desired),
           NEW pc \in Pcs \ {"commit_control"}, NEW k, NEW row, NEW verdict, NEW clean, NEW then,
           Moves(t, pc, k, row, verdict, clean, then)
    PROVE  /\ Frames(t, j) /\ LockStep(t) /\ UNCHANGED <<hosts, bundles>>
           /\ RowsAdvance(j) /\ HostAdvances(j)
           /\ attempts[j].rv \in Nat /\ attempts'[j].rv \in Nat
           /\ bundles'[j].cancel => desired = "cancelled"
           /\ bundles'[j].clean => Gone(j)'
<1>1. UNCHANGED <<hosts, bundles, aged, lock, boot>>
  BY DEF RegistryOnly, hostVars
<1>2. \A i \in Jobs : HostAdvances(i) /\ HostOK(i)'
  BY <1>1 DEF EngineInv, HostAdvances, HostOK, Gone, Vacant, PastCheck, CgroupPopulated,
     RunnerAlive, UnitIsActive
<1>3. Frames(t, j)
  BY <1>1, <1>2 DEF Frames, Moves, Rewrites, EngineInv, EngineTypeOK, HostTyped, BundleRows
<1>4. LockStep(t)
  BY <1>1 DEF LockStep, Moves
<1>5. /\ \A i \in Jobs : RowsAdvance(i)
      /\ attempts[j].rv \in Nat /\ attempts'[j].rv \in Nat
  BY RowsOnlyAdvance, RowsTyped DEF EngineInv
<1>6. JobOK(j)
  BY DEF EngineInv
<1>7. bundles'[j].cancel => desired = "cancelled"
  BY <1>1, <1>5, <1>6 DEF JobOK, RowsAdvance, Desired, Rewrites
<1>8. bundles'[j].clean => Gone(j)'
  BY <1>1, <1>2, <1>6 DEF JobOK, HostAdvances
<1> QED BY <1>1, <1>2, <1>3, <1>4, <1>5, <1>7, <1>8

\* A write of the Registry alone keeps the invariant.
LEMMA RegistryKeeps ==
    ASSUME EngineInv, NEW t \in Threads, NEW j \in Jobs, [Transaction]_registryVars,
           RegistryOnly, UNCHANGED <<boot, crashes>>, threads[t].pc # "commit_control",
           NEW state, NEW intent, NEW owner, NEW digest, NEW desired,
           Rewrites(j, state, intent, owner, digest, desired),
           RowFits(j, state, intent, owner, digest, desired),
           state \in Terminal /\ digest \in {ControlEvidence(u, state) : u \in Threads}
              => bundles[j].control = digest,
           NEW pc \in Pcs \ {"commit_control", "launch"}, NEW k, NEW row, NEW verdict,
           NEW clean, NEW then, Moves(t, pc, k, row, verdict, clean, then),
           pc # "idle" => /\ k = j /\ Admitted(j)' /\ SeenOK(pc, j, row)'
                          /\ VerdictOK(pc, j, verdict)' /\ PlaceOK(pc, j, clean, then)'
    PROVE  EngineInv'
<1>1. /\ Frames(t, j) /\ LockStep(t) /\ UNCHANGED <<hosts, bundles>>
      /\ bundles'[j].cancel => desired = "cancelled"
      /\ bundles'[j].clean => Gone(j)'
  BY RegistryWrites
<1> QED BY <1>1, WriteKeeps

\* A thread that returns after a write.
LEMMA RestsArrives ==
    ASSUME NEW t \in Threads, NEW j \in Jobs, j = Job(t), Rests(t), Admitted(j)'
    PROVE  \E pc \in Pcs \ {"commit_control", "launch"}, k \in Jobs \cup {None} :
              /\ Moves(t, pc, k, NoAttempt, None, FALSE, "return")
              /\ pc # "idle" => /\ k = j /\ Admitted(j)' /\ SeenOK(pc, j, NoAttempt)'
                                /\ VerdictOK(pc, j, None)' /\ PlaceOK(pc, j, FALSE, "return")'
<1>1. PICK pc \in Resting, k \in Jobs \cup {None} :
         /\ Moves(t, pc, k, NoAttempt, None, FALSE, "return")
         /\ pc # "idle" => k = j
  BY DEF Rests
<1>2. pc \in Pcs \ (TreePcs \cup {"orphan_result", "orphan_tree", "commit_recovery",
                     "control", "commit_control", "owner_result", "launch"})
  BY DEF Resting, Pcs, TreePcs
<1>3. SeenOK(pc, j, NoAttempt)' /\ VerdictOK(pc, j, None)'
  BY <1>2, BlankOK
<1>4. PlaceOK(pc, j, FALSE, "return")'
  BY DEF PlaceOK, Resting, ResultPcs, FiledPcs, OrphanPcs, TreePcs
<1> QED BY <1>1, <1>2, <1>3, <1>4

\* A new Job.
LEMMA BeginRunKeeps ==
    ASSUME EngineInv, NEW t \in Threads, NEW j \in Jobs, NEW k \in Keys, NEW op \in Operations,
           NEW limit \in Limits, BeginRun(t, j, k, op, limit), UNCHANGED <<boot, crashes>>
    PROVE  EngineInv' /\ [Transaction]_registryVars
<1>1. /\ threads[t].pc = "idle" /\ Submit(j, k, op, limit) /\ RegistryOnly
      /\ Become(t, [Idle EXCEPT !.pc = "newly_admitted", !.op = "run", !.job = j])
  BY DEF BeginRun, At
<1>2. [Transaction]_registryVars
  BY <1>1 DEF Transaction
<1>3. Rewrites(j, "accepted", "natural", None, None, "run")
  BY <1>1, SubmitEffect DEF EngineInv
<1>4. RowFits(j, "accepted", "natural", None, None, "run")
  BY DEF RowFits
<1> DEFINE pc == "newly_admitted"
           start == "run"
<1>5. /\ Become(t, [Idle EXCEPT !.pc = pc, !.op = start, !.job = j])
      /\ pc \in Pcs \ (TreePcs \cup {"orphan_result", "orphan_tree", "commit_recovery",
                     "control", "commit_control", "owner_result", "launch"})
      /\ start \in Operating \cup {None}
  BY <1>1 DEF Pcs, Operating, TreePcs
<1>6. PlaceOK(pc, j, FALSE, "return")'
  BY DEF PlaceOK, ResultPcs, FiledPcs, OrphanPcs, TreePcs
<1> HIDE DEF pc, start
<1>7. Moves(t, pc, j, NoAttempt, None, FALSE, "return")
  BY <1>5, BeginMoves, NoAttemptRow DEF EngineInv, EngineTypeOK
<1>8. Admitted(j)' /\ SeenOK(pc, j, NoAttempt)' /\ VerdictOK(pc, j, None)'
  BY <1>3, <1>5, BlankOK DEF Rewrites
<1> QED BY <1>1, <1>2, <1>3, <1>4, <1>5, <1>6, <1>7, <1>8, RegistryKeeps

\* The recovery flag.
LEMMA FlagKeeps ==
    ASSUME EngineInv, NEW t \in Threads, ClearFailure(t) \/ RecordFailure(t),
           UNCHANGED <<boot, crashes>>
    PROVE  EngineInv' /\ [Transaction]_registryVars
<1>1. /\ threads[t].pc \in {"clear", "record"} /\ RegistryOnly /\ Become(t, Idle)
      /\ \/ ClearReconciliationFailure(Job(t)) \/ RecordReconciliationFailure(Job(t))
         \/ UNCHANGED registryVars
  BY DEF ClearFailure, RecordFailure, At
<1>2. PICK j \in Jobs : j = Job(t) /\ threads \in [Threads -> ThreadRow]
  BY <1>1, OnJob
<1>3. [Transaction]_registryVars
  BY <1>1, <1>2 DEF Transaction
<1>4. Rewrites(j, attempts[j].state, attempts[j].intent, attempts[j].owner,
               attempts[j].digest, jobs[j].desired)
  BY <1>1, <1>2, FlagEffect, SameRows DEF EngineInv, Consistent
<1>5. Moves(t, "idle", None, NoAttempt, None, FALSE, "return")
  BY <1>1, <1>2, IdleRow, BecomeMoves
<1>6. "idle" \in Pcs \ {"commit_control", "launch"}
  BY DEF Pcs
<1>7. /\ attempts[j].state \in Terminal
      /\ attempts[j].digest \in {ControlEvidence(u, attempts[j].state) : u \in Threads}
      => bundles[j].control = attempts[j].digest
  BY DEF EngineInv, ControlEvidenceIntact
<1> QED BY <1>1, <1>3, <1>4, <1>5, <1>6, <1>7, RowsFit, RegistryKeeps

\* A row that a thread takes over as it wrote it.
LEMMA WrittenOK ==
    ASSUME EngineInv, [Transaction]_registryVars, UNCHANGED <<hosts, bundles, boot>>,
           NEW j \in Jobs, NEW state \in AttemptStates, NEW intent, NEW owner, NEW digest,
           NEW desired, Rewrites(j, state, intent, owner, digest, desired),
           RowFits(j, state, intent, owner, digest, desired), NEW pc \in {"dispatch", "launch"}
    PROVE  /\ Admitted(j)' /\ Record(attempts'[j]) \in AttemptRow
           /\ \A row \in AttemptRow : row = Record(attempts'[j]) => SeenOK(pc, j, row)'
<1>1. attempts'[j] \in AttemptRow
  BY RowsTyped DEF EngineInv
<1>2. /\ Record(attempts'[j]) \in AttemptRow
      /\ Record(attempts'[j]).owner = owner /\ Record(attempts'[j]).intent = intent
      /\ Record(attempts'[j]).rv = attempts'[j].rv /\ attempts'[j].rv \in Nat
  BY <1>1, RecordRow DEF Rewrites, AttemptRow
<1>3. Vacant(j) => Vacant(j)'
  BY DEF Vacant, Gone, CgroupPopulated, RunnerAlive, UnitIsActive
<1>4. ASSUME NEW row \in AttemptRow, row = Record(attempts'[j])
      PROVE  SeenOK(pc, j, row)'
  BY <1>2, <1>3, <1>4 DEF SeenOK, RowFits, Rewrites, Desired, TreePcs
<1>5. Admitted(j)'
  BY DEF Rewrites
<1> QED BY <1>2, <1>4, <1>5

\* mark_bundle_ready, or another thread was first.
LEMMA BundleKeeps ==
    ASSUME EngineInv, NEW t \in Threads, MaterializeBundle(t), UNCHANGED <<boot, crashes>>
    PROVE  EngineInv' /\ [Transaction]_registryVars
<1>1. threads[t].pc = "bundle" /\ RegistryOnly
  BY DEF MaterializeBundle, At
<1>2. PICK j \in Jobs, v \in Nat : j = Job(t) /\ v = Seen(t).rv
  BY <1>1, OnJob DEF AttemptRow
<1>3. CASE /\ MarkBundleReady(Job(t), Seen(t).rv)
           /\ Become(t, [threads[t] EXCEPT !.pc = "dispatch", !.seen = Record(attempts'[Job(t)])])
  <2>1. MarkBundleReady(j, v)
    BY <1>2, <1>3
  <2>2. [Transaction]_registryVars
    BY <2>1 DEF Transaction
  <2>3. Rewrites(j, "accepted", attempts[j].intent, attempts[j].owner, attempts[j].digest,
                 jobs[j].desired)
    BY <2>1, BundleEffect DEF EngineInv, Consistent
  <2>4. RowFits(j, "accepted", attempts[j].intent, attempts[j].owner, attempts[j].digest,
                jobs[j].desired)
    BY <2>1, RowsFit DEF RowFits, MarkBundleReady
  <2>5. /\ threads \in [Threads -> ThreadRow] /\ VerdictOK("bundle", j, Verdict(t))
        /\ PlaceOK("bundle", j, threads[t].clean, threads[t].then)
        /\ Admitted(j) /\ Seen(t) \in AttemptRow /\ SeenOK("bundle", j, Seen(t))
    BY <1>1, <1>2, OnJob
  <2> DEFINE pc == "dispatch"
  <2>6. UNCHANGED <<hosts, bundles, boot>> /\ pc \in Pcs \ {"commit_control", "launch"}
    BY <1>1 DEF RegistryOnly, hostVars, Pcs
  <2>7. PICK row \in AttemptRow : row = Record(attempts'[j]) /\ Admitted(j)' /\ SeenOK(pc, j, row)'
    BY <2>2, <2>3, <2>4, <2>6, WrittenOK
  <2>8. Become(t, [threads[t] EXCEPT !.pc = pc, !.seen = row])
    BY <1>2, <1>3, <2>7
  <2>9. VerdictOK(pc, j, Verdict(t)) /\ PlaceOK(pc, j, threads[t].clean, threads[t].then)
    BY <2>5 DEF VerdictOK, PlaceOK, ResultPcs, FiledPcs, OrphanPcs, TreePcs
  <2> HIDE DEF pc
  <2>10. PICK verdict \in Terminal \cup {"running", None}, clean \in BOOLEAN,
              then \in Continuations :
              verdict = Verdict(t) /\ clean = threads[t].clean /\ then = threads[t].then
    BY <2>5 DEF ThreadRow, Verdict
  <2>11. Moves(t, pc, j, row, verdict, clean, then)
    BY <1>2, <2>5, <2>6, <2>8, <2>10, AdoptMoves
  <2>12. RowsAdvance(j) /\ HostAdvances(j)
    BY <1>1, <2>2, <2>3, <2>6, <2>11, RegistryWrites
  <2>13. VerdictOK(pc, j, verdict)' /\ PlaceOK(pc, j, clean, then)'
    BY <2>9, <2>10, <2>12, CarriedStays
  <2> QED BY <1>1, <2>2, <2>3, <2>4, <2>6, <2>7, <2>11, <2>13, RegistryKeeps
<1>4. CASE /\ Look(t, IF Current(t).state = "accepted" /\ Current(t).bundle = None
                         THEN "bundle" ELSE "dispatch")
           /\ UNCHANGED registryVars
  <2>1. Look(t, "bundle") \/ Look(t, "dispatch")
    BY <1>4
  <2>2. Reads
    BY <1>1, <1>4 DEF Reads, RegistryOnly
  <2> QED BY <1>1, <1>4, <2>1, <2>2, LookKeeps
<1> QED BY <1>3, <1>4 DEF MaterializeBundle

\* The dispatch intent: the thread that commits it, and no other, goes on to
\* launch the unit.
LEMMA DispatchKeeps ==
    ASSUME EngineInv, NEW t \in Threads, IssueDispatch(t), UNCHANGED <<boot, crashes>>
    PROVE  EngineInv' /\ [Transaction]_registryVars
<1>1. threads[t].pc = "dispatch" /\ RegistryOnly
  BY DEF IssueDispatch, At
<1>2. PICK j \in Jobs, v \in Nat : j = Job(t) /\ v = Seen(t).rv
  BY <1>1, OnJob DEF AttemptRow
<1>3. MarkDispatchIssued(j, v) /\ attempts[j].state = "accepted"
  BY <1>2 DEF IssueDispatch, MarkDispatchIssued
<1>4. [Transaction]_registryVars
  BY <1>3 DEF Transaction
<1>5. Rewrites(j, "starting", attempts[j].intent, attempts[j].owner, attempts[j].digest,
               jobs[j].desired)
  BY <1>3, DispatchEffect DEF EngineInv, Consistent
<1>6. RowFits(j, "starting", attempts[j].intent, attempts[j].owner, attempts[j].digest,
              jobs[j].desired)
  BY <1>3, RowsFit DEF RowFits
<1>7. /\ threads \in [Threads -> ThreadRow] /\ VerdictOK("dispatch", j, Verdict(t))
      /\ PlaceOK("dispatch", j, threads[t].clean, threads[t].then)
  BY <1>1, <1>2, OnJob
<1> DEFINE pc == "launch"
<1>8. UNCHANGED <<hosts, bundles, boot>> /\ pc \in Pcs \ {"commit_control"}
  BY <1>1 DEF RegistryOnly, hostVars, Pcs
<1>9. PICK row \in AttemptRow : row = Record(attempts'[j]) /\ Admitted(j)' /\ SeenOK(pc, j, row)'
  BY <1>4, <1>5, <1>6, <1>8, WrittenOK
<1>10. Become(t, [threads[t] EXCEPT !.pc = pc, !.seen = row])
  BY <1>2, <1>9 DEF IssueDispatch
<1>11. VerdictOK(pc, j, Verdict(t)) /\ PlaceOK(pc, j, threads[t].clean, threads[t].then)
  BY <1>7 DEF VerdictOK, PlaceOK, ResultPcs, FiledPcs, OrphanPcs, TreePcs
<1>12. PICK verdict \in Terminal \cup {"running", None}, clean \in BOOLEAN,
            then \in Continuations :
            verdict = Verdict(t) /\ clean = threads[t].clean /\ then = threads[t].then
  BY <1>7 DEF ThreadRow, Verdict
<1>13. Moves(t, pc, j, row, verdict, clean, then)
  BY <1>2, <1>7, <1>8, <1>10, <1>12, AdoptMoves
<1>14. /\ Frames(t, j) /\ LockStep(t) /\ RowsAdvance(j) /\ HostAdvances(j)
       /\ bundles'[j].cancel => jobs[j].desired = "cancelled"
       /\ bundles'[j].clean => Gone(j)'
  BY <1>1, <1>4, <1>5, <1>8, <1>13, RegistryWrites
<1>15. ThreadOK(t)'
  BY <1>9, <1>11, <1>12, <1>13, <1>14, CarriedStays, Arrives
<1>16. JobOK(j)'
  BY <1>5, <1>6, <1>8, <1>14 DEF JobOK, RowFits, Rewrites, HostAdvances, Desired
<1>17. LaunchOK'
  <2>1. /\ hosts[j].launches = 0 /\ \A u \in Threads : ~AtLaunch(u, j)
    BY <1>3 DEF EngineInv, LaunchOK, Undispatched
  <2>2. /\ \A u \in Threads, i \in Jobs : AtLaunch(u, i)' => AtLaunch(u, i) \/ (u = t /\ i = j)
        /\ ~Undispatched(j)'
    BY <1>5, <1>13 DEF AtLaunch, At, Job, Moves, Undispatched, Rewrites
  <2>3. \A i \in Jobs \ {j} : Undispatched(i)' <=> Undispatched(i)
    BY <1>14 DEF Frames, Undispatched
  <2> QED BY <1>8, <2>1, <2>2, <2>3 DEF EngineInv, LaunchOK
<1>18. threads'[t].job = j /\ attempts'[j].state \notin Terminal
  BY <1>5, <1>13 DEF Moves, Rewrites
<1> QED BY <1>4, <1>14, <1>15, <1>16, <1>17, <1>18, FrameKeeps

\* bind_running, or an identity that is already bound or lost.
LEMMA BindKeeps ==
    ASSUME EngineInv, NEW t \in Threads, BindStart(t), UNCHANGED <<boot, crashes>>
    PROVE  EngineInv' /\ [Transaction]_registryVars
<1>1. threads[t].pc \in {"bind", "await_bind"} /\ RegistryOnly
  BY DEF BindStart
<1>2. PICK j \in Jobs, v \in Nat : j = Job(t) /\ v = Seen(t).rv
  BY <1>1, OnJob DEF AttemptRow
<1>3. \/ Goto(t, "result") /\ bundles[j].result # None
      \/ Return(t, "ok") \/ Return(t, "error")
  BY <1>2 DEF BindStart
<1>4. BindRunning(j, v, boot) \/ UNCHANGED registryVars
  BY <1>2 DEF BindStart
<1>5. CASE UNCHANGED registryVars
  <2>1. Reads
    BY <1>1, <1>5 DEF Reads, RegistryOnly
  <2> QED BY <1>1, <1>2, <1>3, <1>5, <2>1, ReturnKeeps, GotoKeeps
<1>6. CASE BindRunning(j, v, boot)
  <2>1. PICK o \in Owners : o = boot
    BY BootAssumption DEF EngineInv, EngineTypeOK
  <2>2. BindRunning(j, v, o) /\ attempts[j].state \in {"starting", "recovering"}
    BY <1>6, <2>1 DEF BindRunning
  <2>3. [Transaction]_registryVars
    BY <2>2 DEF Transaction
  <2>4. Rewrites(j, "running", attempts[j].intent, o, attempts[j].digest, jobs[j].desired)
    BY <2>2, BindEffect DEF EngineInv, Consistent
  <2>5. bundles[j].start
    BY <1>1, <1>2, OnJob DEF PlaceOK
  <2>6. RowFits(j, "running", attempts[j].intent, o, attempts[j].digest, jobs[j].desired)
    BY <2>1, <2>2, <2>5, RowsFit DEF RowFits
  <2>7. Admitted(j)' /\ threads \in [Threads -> ThreadRow]
    BY <1>1, <2>4, OnJob DEF Rewrites
  <2>8. CASE Goto(t, "result") /\ bundles[j].result # None
    <3>1. "result" \in Pcs \ (TreePcs \cup {"orphan_result", "orphan_tree", "commit_recovery",
                     "control", "commit_control", "owner_result", "launch"})
      BY DEF Pcs, TreePcs
    <3>2. Moves(t, "result", j, NoAttempt, None, FALSE, "return")
      BY <1>2, <2>7, <2>8, <3>1, GotoMoves
    <3>3. bundles' = bundles
      BY <1>1 DEF RegistryOnly, hostVars
    <3>4. PlaceOK("result", j, FALSE, "return")'
      BY <2>8, <3>3 DEF PlaceOK, ResultPcs, FiledPcs, OrphanPcs, TreePcs
    <3>5. SeenOK("result", j, NoAttempt)' /\ VerdictOK("result", j, None)'
      BY <3>1, BlankOK
    <3> QED BY <1>1, <2>3, <2>4, <2>6, <2>7, <3>1, <3>2, <3>4, <3>5, RegistryKeeps
  <2>9. CASE Return(t, "ok") \/ Return(t, "error")
    <3>1. Rests(t)
      BY <2>7, <2>9, ReturnRests
    <3>2. PICK pc \in Pcs \ {"commit_control", "launch"}, k \in Jobs \cup {None} :
              /\ Moves(t, pc, k, NoAttempt, None, FALSE, "return")
              /\ pc # "idle" => /\ k = j /\ Admitted(j)' /\ SeenOK(pc, j, NoAttempt)'
                                /\ VerdictOK(pc, j, None)' /\ PlaceOK(pc, j, FALSE, "return")'
      BY <1>2, <2>7, <3>1, RestsArrives
    <3> QED BY <1>1, <2>3, <2>4, <2>6, <3>2, RegistryKeeps
  <2> QED BY <1>3, <2>8, <2>9
<1> QED BY <1>4, <1>5, <1>6

\* The stop intent of an orphan.
LEMMA OrphanCancelKeeps ==
    ASSUME EngineInv, NEW t \in Threads, RequestOrphanCancel(t), UNCHANGED <<boot, crashes>>
    PROVE  EngineInv' /\ [Transaction]_registryVars
<1>1. threads[t].pc = "request_orphan_cancel" /\ RegistryOnly /\ Goto(t, "cancel_tree")
  BY DEF RequestOrphanCancel, At
<1>2. PICK j \in Jobs : j = Job(t)
  BY <1>1, OnJob
<1>3. /\ Admitted(j) /\ IsTerminal(j) /\ threads \in [Threads -> ThreadRow]
  BY <1>1, <1>2, OnJob DEF PlaceOK, OrphanPcs
<1>4. "cancel_tree" \in Pcs \ (TreePcs \cup {"orphan_result", "orphan_tree", "commit_recovery",
                     "control", "commit_control", "owner_result", "launch"})
  BY DEF Pcs, TreePcs
<1>5. Moves(t, "cancel_tree", j, NoAttempt, None, FALSE, "return")
  BY <1>1, <1>2, <1>3, <1>4, GotoMoves
<1>6. SeenOK("cancel_tree", j, NoAttempt)' /\ VerdictOK("cancel_tree", j, None)'
  BY <1>4, BlankOK
<1>7. CASE CancelOrphaned(j)
  <2>1. RequestCancel(j, UndispatchedEvidence)
    BY <1>7 DEF RequestCancel
  <2>2. UndispatchedEvidence \in Digests
    BY EvidenceAssumption DEF EvidenceDigests
  <2>3. [Transaction]_registryVars
    BY <2>1, <2>2 DEF Transaction
  <2>4. Rewrites(j, "orphaned", "stop_requested", attempts[j].owner, attempts[j].digest,
                 "cancelled")
    BY <1>7, CancelOrphanedEffect DEF EngineInv, Consistent
  <2>5. attempts[j].state = "orphaned"
    BY <1>7 DEF CancelOrphaned
  <2>6. RowFits(j, "orphaned", "stop_requested", attempts[j].owner, attempts[j].digest,
                "cancelled")
    BY <2>5, RowsFit DEF RowFits
  <2>7. attempts[j].digest \in {ControlEvidence(u, "orphaned") : u \in Threads}
           => bundles[j].control = attempts[j].digest
    BY <2>5 DEF EngineInv, ControlEvidenceIntact
  <2>8. PlaceOK("cancel_tree", j, FALSE, "return")' /\ Admitted(j)'
    BY <2>4 DEF PlaceOK, ResultPcs, FiledPcs, OrphanPcs, TreePcs, Rewrites, Desired, IsConclusive
  <2> QED BY <1>1, <1>4, <1>5, <1>6, <2>3, <2>4, <2>6, <2>7, <2>8, RegistryKeeps
<1>8. CASE jobs[j].resolution # "orphaned" /\ UNCHANGED registryVars
  <2>1. [Transaction]_registryVars
    BY <1>8
  <2>2. IsConclusive(j)
    BY <1>3, <1>8 DEF EngineInv, Consistent, RuntimeInvariants, ResolutionAgrees, IsConclusive
  <2>3. Reads
    BY <1>1, <1>8 DEF Reads, RegistryOnly
  <2>4. SeenOK("cancel_tree", j, NoAttempt) /\ VerdictOK("cancel_tree", j, None)
    BY <1>4, BlankOK
  <2>5. PlaceOK("cancel_tree", j, FALSE, "return")
    BY <1>3, <2>2 DEF PlaceOK, ResultPcs, FiledPcs, OrphanPcs, TreePcs
  <2> QED BY <1>1, <1>3, <1>4, <1>5, <2>1, <2>3, <2>4, <2>5, NoAttemptRow, ReadMoves
<1> QED BY <1>2, <1>7, <1>8 DEF RequestOrphanCancel

\* request_cancel.
LEMMA CommitCancelKeeps ==
    ASSUME EngineInv, NEW t \in Threads, CommitCancel(t), UNCHANGED <<boot, crashes>>
    PROVE  EngineInv' /\ [Transaction]_registryVars
<1>1. threads[t].pc = "request_cancel" /\ RegistryOnly
  BY DEF CommitCancel, At
<1>2. PICK j \in Jobs : j = Job(t) /\ threads \in [Threads -> ThreadRow]
  BY <1>1, OnJob
<1>3. CASE jobs[j].resolution \in Conclusive
  <2>1. UNCHANGED registryVars
    BY <1>2, <1>3 DEF CommitCancel
  <2>2. jobs'[j].resolution # None
    BY <1>3, <2>1 DEF registryVars
  <2>3. Become(t, Idle)
    BY <1>2, <2>2 DEF CommitCancel
  <2>4. Reads
    BY <1>1, <2>1 DEF Reads, RegistryOnly
  <2> QED BY <1>1, <2>1, <2>3, <2>4, IdleKeeps
<1>4. CASE jobs[j].resolution \notin Conclusive
  <2>1. RequestCancel(j, UndispatchedEvidence)
    BY <1>2, <1>4 DEF CommitCancel
  <2>2. PICK d \in Digests : d = UndispatchedEvidence
    BY EvidenceAssumption DEF EvidenceDigests
  <2>3. [Transaction]_registryVars
    BY <2>1, <2>2 DEF Transaction
  <2>4. PICK state \in AttemptStates, intent \in Intents, digest \in {d, attempts[j].digest} :
           /\ Rewrites(j, state, intent, attempts[j].owner, digest, "cancelled")
           /\ \/ /\ state = "cancelled" /\ digest = d /\ attempts[j].state = "accepted"
              \/ /\ state = "stopping" /\ digest = attempts[j].digest
                 /\ attempts[j].state \in Dispatched
              \/ /\ state = "orphaned" /\ digest = attempts[j].digest
                 /\ attempts[j].state = "orphaned"
    <3>1. CASE CancelAccepted(j, d)
      <4>1. /\ Rewrites(j, "cancelled", "stop_requested", attempts[j].owner, d, "cancelled")
            /\ attempts[j].state = "accepted"
        BY <3>1, CancelAcceptedEffect DEF EngineInv, Consistent, CancelAccepted
      <4> QED BY <4>1
    <3>2. CASE CancelDispatched(j)
      <4>1. PICK intent \in Intents :
               Rewrites(j, "stopping", intent, attempts[j].owner, attempts[j].digest, "cancelled")
        BY <3>2, CancelDispatchedEffect DEF EngineInv, Consistent
      <4>2. attempts[j].state \in Dispatched
        BY <3>2 DEF CancelDispatched
      <4> QED BY <4>1, <4>2
    <3>3. CASE CancelOrphaned(j)
      <4>1. /\ Rewrites(j, "orphaned", "stop_requested", attempts[j].owner, attempts[j].digest,
                        "cancelled")
            /\ attempts[j].state = "orphaned"
        BY <3>3, CancelOrphanedEffect DEF EngineInv, Consistent, CancelOrphaned
      <4> QED BY <4>1
    <3> QED BY <2>1, <2>2, <3>1, <3>2, <3>3 DEF RequestCancel
  <2>5. attempts[j].state = "accepted" => NobodyLaunches(j)
    BY DEF EngineInv, LaunchOK, Undispatched, NobodyLaunches
  <2>6. RowFits(j, state, intent, attempts[j].owner, digest, "cancelled")
    BY <2>4, <2>5, RowsFit DEF RowFits
  <2>7. \A u \in Threads : d # ControlEvidence(u, "cancelled")
    BY <2>2 DEF UndispatchedEvidence, ControlEvidence
  <2>8. state \in Terminal /\ digest \in {ControlEvidence(u, state) : u \in Threads}
           => bundles[j].control = digest
    BY <2>4, <2>7 DEF EngineInv, ControlEvidenceIntact
  <2>9. Admitted(j)' /\ Desired(j)'
    BY <2>4 DEF Rewrites, Desired
  <2>10. CASE Become(t, Idle)
    <3>1. Moves(t, "idle", None, NoAttempt, None, FALSE, "return")
      BY <1>2, <2>10, IdleRow, BecomeMoves
    <3>2. "idle" \in Pcs \ {"commit_control", "launch"}
      BY DEF Pcs
    <3> QED BY <1>1, <2>3, <2>4, <2>6, <2>8, <3>1, <3>2, RegistryKeeps
  <2>11. CASE Become(t, [Idle EXCEPT !.pc = "cancel_file", !.op = "stop", !.job = Job(t)])
    <3> DEFINE pc == "cancel_file"
               op == "stop"
    <3>1. /\ Become(t, [Idle EXCEPT !.pc = pc, !.op = op, !.job = j])
          /\ pc \in Pcs \ (TreePcs \cup {"orphan_result", "orphan_tree", "commit_recovery",
                     "control", "commit_control", "owner_result", "launch"})
          /\ op \in Operating \cup {None}
      BY <1>2, <2>11 DEF Pcs, TreePcs, Operating
    <3>2. PlaceOK(pc, j, FALSE, "return")'
      BY <2>9 DEF PlaceOK, ResultPcs, FiledPcs, OrphanPcs, TreePcs
    <3> HIDE DEF pc, op
    <3>3. Moves(t, pc, j, NoAttempt, None, FALSE, "return")
      BY <1>2, <3>1, BeginMoves, NoAttemptRow
    <3>4. SeenOK(pc, j, NoAttempt)' /\ VerdictOK(pc, j, None)'
      BY <3>1, BlankOK
    <3> QED BY <1>1, <2>3, <2>4, <2>6, <2>8, <2>9, <3>1, <3>2, <3>3, <3>4, RegistryKeeps
  <2> QED BY <1>2, <2>10, <2>11 DEF CommitCancel
<1> QED BY <1>3, <1>4

-----------------------------------------------------------------------------
(* Steps that write evidence or talk to systemd.                           *)

\* What the Engine does to the files and the unit of Attempt j: it adds
\* files, resets a failed unit, and stops a unit once the cancel file is
\* there.
Touches(j, unit, cancel, control, clean) ==
    /\ HostBecomes(j, unit, hosts[j].runner, hosts[j].payload, hosts[j].launches)
    /\ BundleBecomes(j, bundles[j].start, bundles[j].result, cancel, control, clean)
    /\ cancel \in BOOLEAN /\ (bundles[j].cancel => cancel)
    /\ \/ unit = hosts[j].unit
       \/ hosts[j].unit = "failed" /\ unit = "absent"
       \/ unit = Stopped(hosts[j].unit) /\ cancel
    /\ UNCHANGED aged

\* The frame of such a step.
LEMMA TouchFrames ==
    ASSUME EngineInv, NEW t \in Threads, NEW j \in Jobs, [Transaction]_registryVars,
           UNCHANGED <<boot, crashes>>,
           NEW unit, NEW cancel, NEW control, NEW tidy, Touches(j, unit, cancel, control, tidy),
           NEW state, NEW intent, NEW owner, NEW digest, NEW desired,
           Rewrites(j, state, intent, owner, digest, desired),
           NEW pc, NEW k, NEW row, NEW verdict, NEW clean, NEW then,
           Moves(t, pc, k, row, verdict, clean, then)
    PROVE  /\ Frames(t, j) /\ RowsAdvance(j) /\ HostAdvances(j) /\ boot' = boot
           /\ attempts[j].rv \in Nat /\ attempts'[j].rv \in Nat
           /\ hosts'[j].launches = hosts[j].launches
<1>1. HostTyped /\ HostOK(j) /\ aged \subseteq Jobs
  BY DEF EngineInv, EngineTypeOK, HostTyped, BundleRows
<1>2. /\ HostTyped' /\ HostOK(j)' /\ HostAdvances(j)
      /\ hosts'[j].launches = hosts[j].launches
      /\ \A i \in Jobs \ {j} : hosts'[i] = hosts[i] /\ bundles'[i] = bundles[i]
  BY <1>1, EngineWritesOK DEF Touches
<1>3. \A i \in Jobs \ {j} : HostOK(i)' /\ HostAdvances(i)
  BY <1>2 DEF EngineInv, HostAdvances, HostOK, Gone, Vacant, PastCheck, CgroupPopulated,
     RunnerAlive, UnitIsActive
<1>4. Frames(t, j)
  BY <1>1, <1>2, <1>3 DEF Frames, Moves, Rewrites, Touches
<1>5. RowsAdvance(j) /\ attempts[j].rv \in Nat /\ attempts'[j].rv \in Nat
  BY RowsOnlyAdvance, RowsTyped DEF EngineInv
<1> QED BY <1>2, <1>4, <1>5

\* Such a step, outside the control-terminal lock.
LEMMA TouchKeeps ==
    ASSUME EngineInv, NEW t \in Threads, NEW j \in Jobs, [Transaction]_registryVars,
           UNCHANGED <<lock, boot, crashes>>, threads[t].pc # "commit_control",
           NEW unit, NEW cancel, NEW tidy, Touches(j, unit, cancel, bundles[j].control, tidy),
           NEW state, NEW intent, NEW owner, NEW digest, NEW desired,
           Rewrites(j, state, intent, owner, digest, desired),
           RowFits(j, state, intent, owner, digest, desired),
           cancel => desired = "cancelled", tidy => Gone(j),
           state \in Terminal /\ digest \in {ControlEvidence(u, state) : u \in Threads}
              => bundles[j].control = digest,
           NEW pc \in Pcs \ {"commit_control", "launch"}, NEW k, NEW row, NEW verdict,
           NEW clean, NEW then, Moves(t, pc, k, row, verdict, clean, then),
           pc # "idle" => /\ k = j /\ Admitted(j)' /\ SeenOK(pc, j, row)'
                          /\ VerdictOK(pc, j, verdict)' /\ PlaceOK(pc, j, clean, then)'
    PROVE  EngineInv'
<1>1. /\ Frames(t, j) /\ HostAdvances(j) /\ hosts'[j].launches = hosts[j].launches
  BY TouchFrames
<1>2. /\ bundles'[j].cancel = cancel /\ bundles'[j].clean = tidy
      /\ bundles'[j].control = bundles[j].control
  BY DEF Touches, BundleBecomes
<1>3. LockStep(t)
  BY <1>1, <1>2 DEF LockStep, Moves, Frames
<1>4. tidy => Gone(j)'
  BY <1>1 DEF HostAdvances
<1> QED BY <1>1, <1>2, <1>3, <1>4, WriteKeeps

\* The thread values a step carries along are those of its row.
LEMMA Carried ==
    ASSUME threads \in [Threads -> ThreadRow], NEW t \in Threads
    PROVE  \E row \in AttemptRow, verdict \in Terminal \cup {"running", None},
              clean \in BOOLEAN, then \in Continuations :
              /\ row = Seen(t) /\ verdict = Verdict(t)
              /\ clean = threads[t].clean /\ then = threads[t].then
BY DEF ThreadRow, Seen, Verdict

\* systemctl stop, after the cancel file.
LEMMA StopKeeps ==
    ASSUME EngineInv, NEW t \in Threads, StopUnit(t), UNCHANGED <<boot, crashes>>
    PROVE  EngineInv' /\ [Transaction]_registryVars
<1>1. threads[t].pc = "stop_unit" /\ Keep(t, "poll_result") /\ UNCHANGED registryVars
      /\ UNCHANGED <<bundles, aged, lock>>
  BY DEF StopUnit, At
<1>2. PICK j \in Jobs : j = Job(t)
  BY <1>1, OnJob
<1>3. /\ threads \in [Threads -> ThreadRow] /\ Admitted(j)
      /\ SeenOK("stop_unit", j, Seen(t)) /\ VerdictOK("stop_unit", j, Verdict(t))
      /\ PlaceOK("stop_unit", j, threads[t].clean, threads[t].then) /\ JobOK(j)
  BY <1>1, <1>2, OnJob
<1>4. PICK row \in AttemptRow, verdict \in Terminal \cup {"running", None},
           clean \in BOOLEAN, then \in Continuations :
              /\ row = Seen(t) /\ verdict = Verdict(t)
              /\ clean = threads[t].clean /\ then = threads[t].then
  BY <1>3, Carried
<1>5. "poll_result" \in Pcs \ {"commit_control", "launch"}
  BY DEF Pcs
<1>6. Moves(t, "poll_result", j, row, verdict, clean, then)
  BY <1>1, <1>2, <1>3, <1>4, <1>5, KeepMoves
<1>7. /\ SeenOK("poll_result", j, row) /\ VerdictOK("poll_result", j, verdict)
      /\ PlaceOK("poll_result", j, clean, then)
  BY <1>3, <1>4 DEF SeenOK, VerdictOK, PlaceOK, ResultPcs, FiledPcs, OrphanPcs, TreePcs
<1>8. [Transaction]_registryVars
      /\ Rewrites(j, attempts[j].state, attempts[j].intent, attempts[j].owner,
                  attempts[j].digest, jobs[j].desired)
  BY <1>1, SameRows
<1>9. bundles[j].cancel /\ bundles[j].cancel \in BOOLEAN /\ HostTyped
  BY <1>3 DEF PlaceOK, FiledPcs, EngineInv, EngineTypeOK, HostTyped, BundleRows, BundleRow
<1>10. Touches(j, Stopped(hosts[j].unit), bundles[j].cancel, bundles[j].control,
               bundles[j].clean)
  <2>1. HostBecomes(j, Stopped(hosts[j].unit), hosts[j].runner, hosts[j].payload,
                    hosts[j].launches)
    BY <1>2, <1>9, StopFields DEF StopUnit
  <2> QED BY <1>1, <1>9, <2>1, HostStays DEF Touches
<1>11. RowsAdvance(j) /\ HostAdvances(j) /\ attempts[j].rv \in Nat /\ attempts'[j].rv \in Nat
  BY <1>6, <1>8, <1>10, TouchFrames
<1>12. /\ Admitted(j)' /\ SeenOK("poll_result", j, row)' /\ VerdictOK("poll_result", j, verdict)'
       /\ PlaceOK("poll_result", j, clean, then)'
  BY <1>3, <1>7, <1>11, ReliedStays
<1>13. /\ bundles[j].cancel => jobs[j].desired = "cancelled"
       /\ bundles[j].clean => Gone(j)
       /\ /\ attempts[j].state \in Terminal
          /\ attempts[j].digest \in {ControlEvidence(u, attempts[j].state) : u \in Threads}
          => bundles[j].control = attempts[j].digest
  BY <1>3 DEF JobOK, Desired, EngineInv, ControlEvidenceIntact
<1> QED BY <1>1, <1>5, <1>6, <1>8, <1>10, <1>12, <1>13, RowsFit, TouchKeeps

\* Such a step without a transaction: what the thread may rely on before it,
\* it may rely on after it.
LEMMA TouchStill ==
    ASSUME EngineInv, NEW t \in Threads, NEW j \in Jobs, UNCHANGED registryVars,
           UNCHANGED <<lock, boot, crashes>>, threads[t].pc # "commit_control",
           NEW unit, NEW cancel, NEW tidy, Touches(j, unit, cancel, bundles[j].control, tidy),
           cancel => Desired(j), tidy => Gone(j),
           NEW pc \in Pcs \ {"commit_control", "launch"}, NEW k, NEW row \in AttemptRow,
           NEW verdict, NEW clean, NEW then, Moves(t, pc, k, row, verdict, clean, then),
           pc # "idle" => /\ k = j /\ Admitted(j) /\ SeenOK(pc, j, row)
                          /\ VerdictOK(pc, j, verdict)
                          /\ PlaceOK(pc, j, clean, then) \/ PlaceOK(pc, j, clean, then)'
    PROVE  EngineInv'
<1>1. [Transaction]_registryVars
      /\ Rewrites(j, attempts[j].state, attempts[j].intent, attempts[j].owner,
                  attempts[j].digest, jobs[j].desired)
  BY SameRows
<1>2. /\ RowsAdvance(j) /\ HostAdvances(j)
      /\ attempts[j].rv \in Nat /\ attempts'[j].rv \in Nat
  BY <1>1, TouchFrames
<1>3. ASSUME pc # "idle"
      PROVE  /\ k = j /\ Admitted(j)' /\ SeenOK(pc, j, row)'
             /\ VerdictOK(pc, j, verdict)' /\ PlaceOK(pc, j, clean, then)'
  <2>1. row.rv \in Nat
    BY DEF AttemptRow
  <2>2. Settled(j) => Settled(j)'
    BY <1>2 DEF HostAdvances, Settled
  <2>3. Admitted(j)' /\ SeenOK(pc, j, row)'
    BY <1>2, <1>3, <2>1 DEF SeenOK, RowsAdvance, HostAdvances
  <2>4. VerdictOK(pc, j, verdict)'
    BY <1>2, <1>3, <2>2 DEF VerdictOK, RowsAdvance, HostAdvances
  <2>5. PlaceOK(pc, j, clean, then)'
    BY <1>2, <1>3, <2>4, CarriedStays
  <2> QED BY <1>3, <2>3, <2>4, <2>5
<1>4. /\ attempts[j].state \in Terminal
      /\ attempts[j].digest \in {ControlEvidence(u, attempts[j].state) : u \in Threads}
      => bundles[j].control = attempts[j].digest
  BY DEF EngineInv, ControlEvidenceIntact
<1>5. cancel => jobs[j].desired = "cancelled"
  BY DEF Desired
<1> QED BY <1>1, <1>3, <1>4, <1>5, RowsFit, TouchKeeps

\* The cancel file is written for a Job whose cancellation is committed.
LEMMA CancelFileKeeps ==
    ASSUME EngineInv, NEW t \in Threads, WriteCancelFile(t), UNCHANGED <<boot, crashes>>
    PROVE  EngineInv' /\ [Transaction]_registryVars
<1>1. threads[t].pc = "cancel_file" /\ Look(t, "stop_unit") /\ UNCHANGED registryVars
      /\ UNCHANGED <<hosts, aged, lock>>
  BY DEF WriteCancelFile, At
<1>2. PICK j \in Jobs : j = Job(t)
  BY <1>1, OnJob
<1>3. /\ threads \in [Threads -> ThreadRow] /\ Admitted(j) /\ JobOK(j)
      /\ attempts[j] \in AttemptRow /\ Current(t) = attempts[j]
      /\ VerdictOK("cancel_file", j, Verdict(t))
      /\ PlaceOK("cancel_file", j, threads[t].clean, threads[t].then)
  BY <1>1, <1>2, OnJob DEF Current
<1>4. PICK verdict \in Terminal \cup {"running", None},
           clean \in BOOLEAN, then \in Continuations :
              verdict = Verdict(t) /\ clean = threads[t].clean /\ then = threads[t].then
  BY <1>3, Carried
<1>5. PICK row \in AttemptRow : row = Record(attempts[j])
  BY <1>3, RecordRow
<1>6. "stop_unit" \in Pcs \ {"commit_control", "launch"}
  BY DEF Pcs
<1>7. Moves(t, "stop_unit", j, row, verdict, clean, then)
  BY <1>1, <1>2, <1>3, <1>4, <1>5, <1>6, LookMoves
<1>8. HostTyped /\ Desired(j) /\ (bundles[j].clean => Gone(j))
  BY <1>3 DEF PlaceOK, EngineInv, EngineTypeOK, HostTyped, BundleRows, JobOK
<1>9. Touches(j, hosts[j].unit, TRUE, bundles[j].control, bundles[j].clean)
  <2>1. BundleBecomes(j, bundles[j].start, bundles[j].result, TRUE, bundles[j].control,
                      bundles[j].clean)
    BY <1>2, <1>8, CancelFields DEF WriteCancelFile
  <2> QED BY <1>1, <1>8, <2>1, HostStays DEF Touches
<1>10. SeenOK("stop_unit", j, row)
  BY <1>3, <1>5, RecordOK DEF TreePcs
<1>11. VerdictOK("stop_unit", j, verdict)
  BY <1>3, <1>4 DEF VerdictOK
<1>12. PlaceOK("stop_unit", j, clean, then)'
  <2>1. [Transaction]_registryVars
        /\ Rewrites(j, attempts[j].state, attempts[j].intent, attempts[j].owner,
                    attempts[j].digest, jobs[j].desired)
    BY <1>1, SameRows
  <2>2. RowsAdvance(j) /\ HostAdvances(j) /\ bundles'[j].cancel
    BY <1>7, <1>9, <2>1, TouchFrames DEF Touches, BundleBecomes
  <2>3. clean => Gone(j)'
    BY <1>3, <1>4, <2>2 DEF PlaceOK, HostAdvances
  <2>4. Desired(j)'
    BY <1>8, <2>2 DEF RowsAdvance
  <2> QED BY <2>2, <2>3, <2>4 DEF PlaceOK, ResultPcs, FiledPcs, OrphanPcs, TreePcs
<1>13. [Transaction]_registryVars
  BY <1>1
<1> QED BY <1>1, <1>3, <1>6, <1>7, <1>8, <1>9, <1>10, <1>11, <1>12, <1>13, TouchStill

\* resolve_absent_orphan: the remediation evidence.
LEMMA RemediationKeeps ==
    ASSUME EngineInv, NEW t \in Threads, WriteRemediation(t), UNCHANGED <<boot, crashes>>
    PROVE  EngineInv' /\ [Transaction]_registryVars
<1>1. threads[t].pc = "remediate" /\ UNCHANGED registryVars
      /\ UNCHANGED <<hosts, aged, lock>>
  BY DEF WriteRemediation, At
<1>2. PICK j \in Jobs : j = Job(t)
  BY <1>1, OnJob
<1>3. /\ threads \in [Threads -> ThreadRow] /\ Admitted(j) /\ JobOK(j)
      /\ SeenOK("remediate", j, Seen(t)) /\ VerdictOK("remediate", j, Verdict(t))
      /\ PlaceOK("remediate", j, threads[t].clean, threads[t].then)
  BY <1>1, <1>2, OnJob
<1>4. PICK row \in AttemptRow, verdict \in Terminal \cup {"running", None},
           then \in Continuations :
              row = Seen(t) /\ verdict = Verdict(t) /\ then = threads[t].then
  BY <1>3, Carried
<1> DEFINE pc == "commit_remedy"
           clean == TerminalClean(row, j)
           th == [threads[t] EXCEPT !.pc = pc, !.clean = clean]
<1>5. pc \in Pcs \ {"commit_control", "launch"} /\ clean \in BOOLEAN
  BY DEF Pcs, TerminalClean
<1>6. Become(t, th)
  BY <1>2, <1>4 DEF WriteRemediation
<1>7. clean => Gone(j)
  BY <1>3, <1>4, CleanIsGone DEF SeenOK
<1>8. /\ SeenOK(pc, j, row) /\ VerdictOK(pc, j, verdict) /\ PlaceOK(pc, j, clean, then)
  BY <1>3, <1>4, <1>7 DEF SeenOK, VerdictOK, PlaceOK, ResultPcs, FiledPcs, OrphanPcs, TreePcs
<1> HIDE DEF pc, clean
<1>9. /\ th \in ThreadRow /\ th.pc = pc /\ th.job = j /\ th.seen = row
      /\ th.verdict = verdict /\ th.clean = clean /\ th.then = then
  BY <1>2, <1>3, <1>4, <1>5 DEF ThreadRow, Job, Seen, Verdict
<1> HIDE DEF th
<1>10. Moves(t, pc, j, row, verdict, clean, then)
  BY <1>3, <1>6, <1>9, BecomeMoves
<1>11. HostTyped /\ (bundles[j].clean => Gone(j)) /\ (bundles[j].cancel => Desired(j))
       /\ bundles[j].cancel \in BOOLEAN
  BY <1>3 DEF EngineInv, EngineTypeOK, HostTyped, BundleRows, BundleRow, JobOK
<1>12. PICK d \in EvidenceDigests : bundles' = [bundles EXCEPT ![j].remedy = d]
  <2>1. verdict \in Conclusive
    BY <1>3, <1>4 DEF VerdictOK
  <2>2. RemediationEvidence(verdict) \in EvidenceDigests
    BY <2>1 DEF EvidenceDigests
  <2>3. bundles' = [bundles EXCEPT ![j].remedy = RemediationEvidence(verdict)]
    BY <1>2, <1>4 DEF WriteRemediation
  <2> QED BY <2>2, <2>3
<1>13. Touches(j, hosts[j].unit, bundles[j].cancel, bundles[j].control, bundles[j].clean)
  BY <1>1, <1>11, <1>12, RemedyFields, HostStays DEF Touches
<1>14. [Transaction]_registryVars
  BY <1>1
<1> QED BY <1>1, <1>3, <1>5, <1>8, <1>10, <1>11, <1>13, <1>14, TouchStill

\* commit_runner_result up to the prepared commit.
LEMMA ResultLoads ==
    ASSUME EngineInv, NEW t \in Threads, LoadForResult(t), UNCHANGED <<boot, crashes>>
    PROVE  EngineInv' /\ [Transaction]_registryVars
<1>1. threads[t].pc = "result" /\ UNCHANGED registryVars /\ UNCHANGED <<bundles, aged, lock>>
  BY DEF LoadForResult, At
<1>2. PICK j \in Jobs : j = Job(t)
  BY <1>1, OnJob
<1>3. /\ threads \in [Threads -> ThreadRow] /\ Admitted(j) /\ JobOK(j)
      /\ attempts[j] \in AttemptRow /\ Current(t) = attempts[j] /\ Jobs # {}
      /\ PlaceOK("result", j, threads[t].clean, threads[t].then)
  BY <1>1, <1>2, OnJob DEF Current
<1>4. [Transaction]_registryVars
  BY <1>1
<1>5. CASE Goto(t, "recover") /\ UNCHANGED hosts
  <2>1. Reads
    BY <1>1, <1>5 DEF Reads, hostVars
  <2> QED BY <1>1, <1>4, <1>5, <2>1, GotoKeeps
<1>6. CASE Prepare(t, "commit_result") /\ UNCHANGED hosts
  <2>1. Reads
    BY <1>1, <1>6 DEF Reads, hostVars
  <2>2. "commit_result" \in Pcs \ {"commit_control", "launch"}
    BY DEF Pcs
  <2>3. Moves(t, "commit_result", j, Record(attempts[j]), Verdict(t),
              TerminalClean(attempts[j], j), threads[t].then)
    BY <1>2, <1>3, <1>6, <2>2, PrepareMoves
  <2>4. /\ SeenOK("commit_result", j, Record(attempts[j])) /\ Record(attempts[j]) \in AttemptRow
        /\ VerdictOK("commit_result", j, Verdict(t))
        /\ PlaceOK("commit_result", j, TerminalClean(attempts[j], j), threads[t].then)
    BY <1>1, <1>2, <1>3, PrepareOK DEF PlaceOK, ResultPcs
  <2> QED BY <1>1, <1>3, <1>4, <2>1, <2>2, <2>3, <2>4, ReadMoves
<1>7. CASE Return(t, "ok") /\ hosts' = ReleasedHosts(Job(t))
  <2>1. HostTyped /\ (bundles[j].clean => Gone(j)) /\ (bundles[j].cancel => Desired(j))
        /\ bundles[j].cancel \in BOOLEAN
    BY <1>3 DEF EngineInv, EngineTypeOK, HostTyped, BundleRows, BundleRow, JobOK
  <2>2. PICK unit \in UnitStates :
              /\ HostBecomes(j, unit, hosts[j].runner, hosts[j].payload, hosts[j].launches)
              /\ unit = hosts[j].unit \/ (hosts[j].unit = "failed" /\ unit = "absent")
    BY <1>2, <1>7, <2>1, ReleaseFields
  <2>3. Touches(j, unit, bundles[j].cancel, bundles[j].control, bundles[j].clean)
    BY <1>1, <2>1, <2>2, HostStays DEF Touches
  <2>4. Rests(t)
    BY <1>3, <1>7, ReturnRests
  <2>5. Admitted(j)'
    BY <1>1, <1>3 DEF registryVars
  <2>6. PICK pc \in Pcs \ {"commit_control", "launch"}, k \in Jobs \cup {None} :
              /\ Moves(t, pc, k, NoAttempt, None, FALSE, "return")
              /\ pc # "idle" => /\ k = j /\ Admitted(j)' /\ SeenOK(pc, j, NoAttempt)'
                                /\ VerdictOK(pc, j, None)' /\ PlaceOK(pc, j, FALSE, "return")'
    BY <1>2, <2>4, <2>5, RestsArrives
  <2>7. Rewrites(j, attempts[j].state, attempts[j].intent, attempts[j].owner,
                 attempts[j].digest, jobs[j].desired)
    BY <1>1, SameRows
  <2>8. /\ bundles[j].cancel => jobs[j].desired = "cancelled"
        /\ /\ attempts[j].state \in Terminal
           /\ attempts[j].digest \in {ControlEvidence(u, attempts[j].state) : u \in Threads}
           => bundles[j].control = attempts[j].digest
    BY <2>1 DEF Desired, EngineInv, ControlEvidenceIntact
  <2> QED BY <1>1, <1>4, <2>1, <2>3, <2>6, <2>7, <2>8, RowsFit, TouchKeeps
<1> QED BY <1>5, <1>6, <1>7 DEF LoadForResult

\* systemd-run, by the thread that committed the dispatch intent.
LEMMA LaunchKeeps ==
    ASSUME EngineInv, NEW t \in Threads, Launch(t), UNCHANGED <<boot, crashes>>
    PROVE  EngineInv' /\ [Transaction]_registryVars
<1>1. threads[t].pc = "launch" /\ UNCHANGED registryVars /\ UNCHANGED lock
      /\ [Transaction]_registryVars
  BY DEF Launch, At
<1>2. PICK j \in Jobs : j = Job(t)
  BY <1>1, OnJob
<1>3. /\ threads \in [Threads -> ThreadRow] /\ Admitted(j) /\ JobOK(j)
      /\ SeenOK("launch", j, Seen(t)) /\ VerdictOK("launch", j, Verdict(t))
      /\ PlaceOK("launch", j, threads[t].clean, threads[t].then)
  BY <1>1, <1>2, OnJob
<1>4. CASE UNCHANGED hostVars /\ (Control(t, "failed", "return") \/ Return(t, "error"))
  <2>1. Reads
    BY <1>1, <1>4 DEF Reads
  <2> QED BY <1>1, <1>4, <2>1, ControlKeeps, ReturnKeeps
<1>5. CASE EnqueueUnit(j) /\ Keep(t, "await")
  <2>1. AtLaunch(t, j) /\ hosts[j].launches = 0 /\ ~Undispatched(j)
    BY <1>1, <1>2 DEF EngineInv, LaunchOK, AtLaunch, At
  <2>2. HostTyped /\ HostOK(j) /\ aged \subseteq Jobs
    BY DEF EngineInv, EngineTypeOK, HostTyped, BundleRows
  <2>3. /\ HostTyped' /\ HostOK(j)' /\ HostAdvances(j)
        /\ hosts'[j].launches = 1 /\ UNCHANGED bundles
        /\ \A i \in Jobs \ {j} : hosts'[i] = hosts[i]
    BY <1>5, <2>1, <2>2, LaunchOKStep
  <2>4. \A i \in Jobs \ {j} : HostOK(i)' /\ HostAdvances(i)
    BY <2>3 DEF EngineInv, HostAdvances, HostOK, Gone, Vacant, PastCheck, CgroupPopulated,
       RunnerAlive, UnitIsActive
  <2>5. PICK row \in AttemptRow, verdict \in Terminal \cup {"running", None},
             clean \in BOOLEAN, then \in Continuations :
                /\ row = Seen(t) /\ verdict = Verdict(t)
                /\ clean = threads[t].clean /\ then = threads[t].then
    BY <1>3, Carried
  <2>6. "await" \in Pcs \ {"commit_control", "launch"}
    BY DEF Pcs
  <2>7. Moves(t, "await", j, row, verdict, clean, then)
    BY <1>2, <1>3, <1>5, <2>5, <2>6, KeepMoves
  <2>8. UNCHANGED <<attempts, jobs, aged, bundles>>
    BY <1>1, <1>5, <2>3 DEF registryVars, EnqueueUnit
  <2>9. Frames(t, j)
    BY <1>1, <2>2, <2>3, <2>4, <2>7, <2>8 DEF Frames, Moves
  <2>10. LockStep(t)
    BY <1>1, <2>7, <2>8 DEF LockStep, Moves
  <2>11. RowsAdvance(j) /\ attempts[j].rv \in Nat /\ attempts'[j].rv \in Nat
    BY <1>1, RowsOnlyAdvance, RowsTyped DEF EngineInv
  <2>12. /\ SeenOK("await", j, row) /\ VerdictOK("await", j, verdict)
         /\ PlaceOK("await", j, clean, then)
    BY <1>3, <2>5 DEF SeenOK, VerdictOK, PlaceOK, ResultPcs, FiledPcs, OrphanPcs, TreePcs
  <2>13. ThreadOK(t)'
    BY <1>3, <2>3, <2>7, <2>11, <2>12, ReliedStays, Arrives
  <2>14. \A u \in Threads, i \in Jobs : AtLaunch(u, i)' => AtLaunch(u, i) /\ i # j
    BY <2>1, <2>7 DEF EngineInv, LaunchOK, AtLaunch, At, Job, Moves
  <2>15. LaunchOK'
    BY <2>1, <2>3, <2>8, <2>14 DEF EngineInv, LaunchOK, Undispatched
  <2>16. JobOK(j)'
    <3>1. ~NeverLaunched(j)
      BY <2>1 DEF NeverLaunched
    <3>2. Settled(j) => Settled(j)'
      BY <2>3 DEF HostAdvances, Settled
    <3> QED BY <1>3, <2>3, <2>8, <3>1, <3>2 DEF JobOK, HostAdvances, Desired
  <2>17. /\ attempts'[j].state \in Terminal
         /\ attempts'[j].digest \in {ControlEvidence(u, attempts'[j].state) : u \in Threads}
         => bundles'[j].control = attempts'[j].digest
    BY <2>8 DEF EngineInv, ControlEvidenceIntact
  <2>18. threads'[t].pc # "launch"
    BY <2>7 DEF Moves
  <2> QED BY <1>1, <2>9, <2>10, <2>13, <2>15, <2>16, <2>17, <2>18, FrameKeeps
<1> QED BY <1>2, <1>4, <1>5 DEF Launch

-----------------------------------------------------------------------------
(* Steps that commit a verdict.                                            *)

\* Attempt j is given a verdict, with the digest of its evidence.
Commits(j, state, digest) ==
    /\ state \in Terminal /\ digest \in Digests
    /\ \E v \in Nat, kinds \in SUBSET Kinds :
          \/ CommitTerminal(j, v, state, digest, kinds)
          \/ state \in Conclusive /\ RecoverOrphanedTerminal(j, v, state, digest, kinds)

\* Verdict, evidence and disposition agree with files and processes.
Grounded(j, state, digest, clean) ==
    /\ clean => Gone(j)
    /\ state = "cancelled" => Desired(j) /\ (Settled(j) \/ NobodyLaunches(j))
    /\ state = "orphaned" => hosts[j].launches # 0
    /\ digest \in {ControlEvidence(u, state) : u \in Threads} => bundles[j].control = digest

\* The holder gives the lock back; anyone else leaves it alone.
Unlocks(t) ==
    \/ lock' = lock /\ threads[t].pc # "commit_control"
    \/ lock' = None /\ threads[t].pc = "commit_control"

\* A verdict that agrees with files and processes, committed with the
\* disposition its evidence states, inside or outside the lock.
LEMMA VerdictKeeps ==
    ASSUME EngineInv, NEW t \in Threads, NEW j \in Jobs, j = Job(t), threads[t].pc # "idle",
           UNCHANGED <<boot, crashes>>,
           NEW state, NEW d, NEW unit, NEW clean, Commits(j, state, d), Unlocks(t),
           Touches(j, unit, bundles[j].cancel, bundles[j].control, clean),
           Grounded(j, state, d, clean), Rests(t) \/ Goto(t, "recover")
    PROVE  EngineInv' /\ [Transaction]_registryVars
<1>0. PICK v \in Nat, kinds \in SUBSET Kinds :
          \/ CommitTerminal(j, v, state, d, kinds)
          \/ state \in Conclusive /\ RecoverOrphanedTerminal(j, v, state, d, kinds)
  BY DEF Commits
<1>1. [Transaction]_registryVars /\ state \in Terminal
  BY <1>0 DEF Transaction, Commits
<1>2. Rewrites(j, state, attempts[j].intent, attempts[j].owner, d, jobs[j].desired)
  BY <1>0, VerdictEffect DEF EngineInv, Consistent, Commits
<1>3. RowFits(j, state, attempts[j].intent, attempts[j].owner, d, jobs[j].desired)
  BY <1>1, RowsFit DEF RowFits, Desired, Grounded
<1>4. Admitted(j)'
  BY <1>1, <1>2 DEF Rewrites
<1>5. PICK pc \in Pcs \ {"commit_control", "launch"}, k \in Jobs \cup {None} :
              /\ Moves(t, pc, k, NoAttempt, None, FALSE, "return")
              /\ pc # "idle" => /\ k = j /\ Admitted(j)' /\ SeenOK(pc, j, NoAttempt)'
                                /\ VerdictOK(pc, j, None)' /\ PlaceOK(pc, j, FALSE, "return")'
  <2>1. CASE Rests(t)
    BY <1>4, <2>1, RestsArrives
  <2>2. CASE Goto(t, "recover")
    <3>1. "recover" \in Pcs \ (TreePcs \cup {"orphan_result", "orphan_tree", "commit_recovery",
                     "control", "commit_control", "owner_result", "launch"})
      BY DEF Pcs, TreePcs
    <3>2. Moves(t, "recover", j, NoAttempt, None, FALSE, "return")
      BY <2>2, <3>1, OnJob, GotoMoves
    <3>3. SeenOK("recover", j, NoAttempt)' /\ VerdictOK("recover", j, None)'
      BY <3>1, BlankOK
    <3>4. PlaceOK("recover", j, FALSE, "return")'
      BY DEF PlaceOK, ResultPcs, FiledPcs, OrphanPcs, TreePcs
    <3> QED BY <1>4, <3>1, <3>2, <3>3, <3>4
  <2> QED BY <2>1, <2>2
<1>6. /\ Frames(t, j) /\ HostAdvances(j) /\ hosts'[j].launches = hosts[j].launches
  BY <1>1, <1>2, <1>5, TouchFrames
<1>7. /\ bundles'[j].cancel = bundles[j].cancel /\ bundles'[j].clean = clean
      /\ \A i \in Jobs : bundles'[i].control = bundles[i].control
  BY DEF Touches, BundleBecomes
<1>8. LockStep(t)
  BY <1>5, <1>7 DEF LockStep, Moves, Unlocks
<1>9. clean => Gone(j)'
  BY <1>6 DEF HostAdvances, Grounded
<1>10. bundles[j].cancel => jobs[j].desired = "cancelled"
  BY DEF EngineInv, JobOK, Desired
<1>11. /\ bundles'[j].cancel => jobs[j].desired = "cancelled"
       /\ bundles'[j].clean => Gone(j)'
       /\ state \in Terminal /\ d \in {ControlEvidence(u, state) : u \in Threads}
             => bundles'[j].control = d
  BY <1>7, <1>9, <1>10 DEF Grounded
<1>12. EngineInv'
  <2>1. PICK row, verdict, tidy, then :
           /\ Moves(t, pc, k, row, verdict, tidy, then)
           /\ pc # "idle" => /\ k = j /\ Admitted(j)' /\ SeenOK(pc, j, row)'
                             /\ VerdictOK(pc, j, verdict)' /\ PlaceOK(pc, j, tidy, then)'
    BY <1>5
  <2>2. PICK intent, owner, desired :
           /\ Rewrites(j, state, intent, owner, d, desired)
           /\ RowFits(j, state, intent, owner, d, desired)
           /\ bundles'[j].cancel => desired = "cancelled"
    BY <1>2, <1>3, <1>11
  <2> QED BY <1>6, <1>8, <1>11, <2>1, <2>2, WriteKeeps
<1> QED BY <1>1, <1>12

\* The digests of the Runner's result and of remediation evidence are never
\* those of control evidence.
LEMMA OtherEvidence ==
    ASSUME NEW result, NEW verdict, NEW state
    PROVE  /\ RunnerEvidence(result) \notin {ControlEvidence(u, state) : u \in Threads}
           /\ RemediationEvidence(verdict) \notin {ControlEvidence(u, state) : u \in Threads}
BY DEF RunnerEvidence, RemediationEvidence, ControlEvidence

\* What the Runner's result says of the Attempt.
LEMMA ResultSays ==
    ASSUME EngineInv, NEW j \in Jobs, bundles[j].result # None, bundles[j].result # "invalid"
    PROVE  /\ ResultVerdict(bundles[j].result) \in Conclusive
           /\ RunnerEvidence(bundles[j].result) \in Digests
           /\ RunnerKinds \in SUBSET Kinds
           /\ ResultVerdict(bundles[j].result) = "cancelled" => Desired(j) /\ Settled(j)
<1>1. PICK result \in Results \ {"invalid"} : result = bundles[j].result
  BY DEF EngineInv, EngineTypeOK, BundleRow
<1>2. ResultVerdict(result) \in Conclusive /\ (ResultVerdict(result) = "cancelled" => result = "cancelled")
  BY DEF ResultVerdict, Results
<1>3. RunnerEvidence(result) \in Digests
  BY EvidenceAssumption DEF EvidenceDigests
<1>4. RunnerKinds \in SUBSET Kinds
  BY KindAssumption DEF RunnerKinds, ArtifactKinds
<1>5. bundles[j].result = "cancelled" => Desired(j) /\ Settled(j)
  BY DEF EngineInv, HostOK, JobOK, Settled
<1> QED BY <1>1, <1>2, <1>3, <1>4, <1>5

\* The evidence of a verdict and the reset of the unit, as one touch.
LEMMA EvidenceTouches ==
    ASSUME EngineInv, NEW t \in Threads, NEW j \in Jobs, j = Job(t), NEW clean \in BOOLEAN,
           clean = threads[t].clean, EvidenceRegistered(t), UNCHANGED aged,
           UNCHANGED hosts \/ hosts' = ReleasedHosts(j)
    PROVE  \E unit \in UnitStates :
              Touches(j, unit, bundles[j].cancel, bundles[j].control, clean)
<1>1. HostTyped /\ bundles[j].cancel \in BOOLEAN /\ hosts[j].unit \in UnitStates
  BY DEF EngineInv, EngineTypeOK, HostTyped, BundleRows, BundleRow, HostRow
<1>2. BundleBecomes(j, bundles[j].start, bundles[j].result, bundles[j].cancel,
                    bundles[j].control, clean)
  BY <1>1, CleanFields DEF EvidenceRegistered
<1>3. PICK unit \in UnitStates :
              /\ HostBecomes(j, unit, hosts[j].runner, hosts[j].payload, hosts[j].launches)
              /\ unit = hosts[j].unit \/ (hosts[j].unit = "failed" /\ unit = "absent")
  BY <1>1, ReleaseFields, HostStays
<1> QED BY <1>1, <1>2, <1>3 DEF Touches

\* Quarantine of a result that cannot be committed.
LEMMA QuarantineKeeps ==
    ASSUME EngineInv, NEW t \in Threads, threads[t].pc \in {"commit_result", "retry_result"},
           Reads, UNCHANGED <<boot, crashes>>, Quarantine(t)
    PROVE  EngineInv'
<1>1. hosts[Job(t)].launches # 0
  BY OnJob DEF PlaceOK, ResultPcs, HostOK
<1>2. Return(t, "error") \/ Control(t, "orphaned", "return")
  BY DEF Quarantine
<1> QED BY <1>1, <1>2, ReturnKeeps, ControlKeeps

\* commit_runner_result.
LEMMA ResultKeeps ==
    ASSUME EngineInv, NEW t \in Threads, CommitResult(t), UNCHANGED <<boot, crashes>>
    PROVE  EngineInv' /\ [Transaction]_registryVars
<1>1. threads[t].pc \in {"commit_result", "retry_result"} /\ UNCHANGED <<aged, lock>>
  BY DEF CommitResult
<1>2. PICK j \in Jobs, v \in Nat, result \in {bundles[Job(t)].result},
              verdict \in {ResultVerdict(bundles[Job(t)].result)} :
         /\ j = Job(t) /\ v = Seen(t).rv
         /\ result = bundles[j].result /\ verdict = ResultVerdict(bundles[j].result)
  BY <1>1, OnJob DEF AttemptRow
<1>3. /\ threads \in [Threads -> ThreadRow] /\ Admitted(j) /\ JobOK(j)
      /\ attempts[j] \in AttemptRow /\ Current(t) = attempts[j] /\ Jobs # {}
      /\ PlaceOK(threads[t].pc, j, threads[t].clean, threads[t].then)
      /\ bundles[j].result # None
  BY <1>1, <1>2, OnJob DEF Current, PlaceOK, ResultPcs
<1>4. CASE /\ result # "invalid"
           /\ CommitTerminal(j, v, verdict, RunnerEvidence(result), RunnerKinds)
           /\ Return(t, "ok") /\ EvidenceRegistered(t) /\ hosts' = ReleasedHosts(j)
  <2>1. PICK clean \in BOOLEAN : clean = threads[t].clean /\ (clean => Gone(j))
    BY <1>3 DEF ThreadRow, PlaceOK
  <2>2. PICK unit \in UnitStates :
           Touches(j, unit, bundles[j].cancel, bundles[j].control, clean)
    BY <1>1, <1>2, <1>4, <2>1, EvidenceTouches
  <2>3. /\ verdict \in Conclusive /\ RunnerEvidence(result) \in Digests
        /\ RunnerKinds \in SUBSET Kinds
        /\ verdict = "cancelled" => Desired(j) /\ Settled(j)
    BY <1>2, <1>3, <1>4, ResultSays
  <2>4. Rests(t)
    BY <1>3, <1>4, ReturnRests
  <2>5. RunnerEvidence(result) \notin {ControlEvidence(u, verdict) : u \in Threads}
    BY OtherEvidence
  <2>6. verdict \in Terminal /\ verdict # "orphaned"
    BY <2>3
  <2>7. Commits(j, verdict, RunnerEvidence(result))
    BY <1>4, <2>3, <2>6 DEF Commits
  <2>8. Grounded(j, verdict, RunnerEvidence(result), clean)
    BY <2>1, <2>3, <2>5, <2>6 DEF Grounded
  <2>9. Unlocks(t) /\ threads[t].pc # "idle"
    BY <1>1 DEF Unlocks
  <2> QED BY <1>2, <2>2, <2>4, <2>7, <2>8, <2>9, VerdictKeeps
<1>5. CASE /\ UNCHANGED <<registryVars, hosts, bundles>>
           /\ \/ Quarantine(t) \/ Return(t, "ok") \/ Return(t, "error")
              \/ Prepare(t, "retry_result")
  <2>1. Reads /\ [Transaction]_registryVars
    BY <1>1, <1>5 DEF Reads, hostVars
  <2>2. CASE Quarantine(t)
    BY <1>1, <2>1, <2>2, QuarantineKeeps
  <2>3. CASE Return(t, "ok") \/ Return(t, "error")
    BY <1>1, <2>1, <2>3, ReturnKeeps
  <2>4. CASE Prepare(t, "retry_result")
    <3>1. "retry_result" \in Pcs \ {"commit_control", "launch"}
      BY DEF Pcs
    <3>2. Moves(t, "retry_result", j, Record(attempts[j]), Verdict(t),
                TerminalClean(attempts[j], j), threads[t].then)
      BY <1>2, <1>3, <2>4, <3>1, PrepareMoves
    <3>3. /\ SeenOK("retry_result", j, Record(attempts[j])) /\ Record(attempts[j]) \in AttemptRow
          /\ VerdictOK("retry_result", j, Verdict(t))
          /\ PlaceOK("retry_result", j, TerminalClean(attempts[j], j), threads[t].then)
      BY <1>1, <1>2, <1>3, PrepareOK
    <3> QED BY <1>1, <1>3, <2>1, <3>1, <3>2, <3>3, ReadMoves
  <2> QED BY <1>5, <2>2, <2>3, <2>4
<1> QED BY <1>2, <1>4, <1>5 DEF CommitResult

\* recover_orphaned_runner_result.
LEMMA RecoveryKeeps ==
    ASSUME EngineInv, NEW t \in Threads, CommitRecovery(t), UNCHANGED <<boot, crashes>>
    PROVE  EngineInv' /\ [Transaction]_registryVars
<1>1. threads[t].pc = "commit_recovery" /\ UNCHANGED <<aged, lock>>
  BY DEF CommitRecovery, At
<1>2. PICK j \in Jobs, v \in Nat, result \in {bundles[Job(t)].result},
              verdict \in {ResultVerdict(bundles[Job(t)].result)} :
         /\ j = Job(t) /\ v = Seen(t).rv
         /\ result = bundles[j].result /\ verdict = ResultVerdict(bundles[j].result)
  BY <1>1, OnJob DEF AttemptRow
<1>3. /\ threads \in [Threads -> ThreadRow]
      /\ PlaceOK("commit_recovery", j, threads[t].clean, threads[t].then)
      /\ bundles[j].result # None
  BY <1>1, <1>2, OnJob DEF PlaceOK, ResultPcs
<1>4. CASE /\ result # "invalid"
           /\ RecoverOrphanedTerminal(j, v, verdict, RunnerEvidence(result), RunnerKinds)
           /\ Return(t, "ok") /\ EvidenceRegistered(t) /\ hosts' = ReleasedHosts(j)
  <2>1. PICK clean \in BOOLEAN : clean = threads[t].clean /\ (clean => Gone(j))
    BY <1>3 DEF ThreadRow, PlaceOK
  <2>2. PICK unit \in UnitStates :
           Touches(j, unit, bundles[j].cancel, bundles[j].control, clean)
    BY <1>1, <1>2, <1>4, <2>1, EvidenceTouches
  <2>3. /\ verdict \in Conclusive /\ RunnerEvidence(result) \in Digests
        /\ RunnerKinds \in SUBSET Kinds
        /\ verdict = "cancelled" => Desired(j) /\ Settled(j)
    BY <1>2, <1>3, <1>4, ResultSays
  <2>4. Rests(t)
    BY <1>3, <1>4, ReturnRests
  <2>5. RunnerEvidence(result) \notin {ControlEvidence(u, verdict) : u \in Threads}
    BY OtherEvidence
  <2>6. verdict \in Terminal /\ verdict # "orphaned"
    BY <2>3
  <2>7. Commits(j, verdict, RunnerEvidence(result))
    BY <1>4, <2>3, <2>6 DEF Commits
  <2>8. Grounded(j, verdict, RunnerEvidence(result), clean)
    BY <2>1, <2>3, <2>5, <2>6 DEF Grounded
  <2>9. Unlocks(t) /\ threads[t].pc # "idle"
    BY <1>1 DEF Unlocks
  <2> QED BY <1>2, <2>2, <2>4, <2>7, <2>8, <2>9, VerdictKeeps
<1>5. CASE Return(t, "error") /\ UNCHANGED <<registryVars, hosts, bundles>>
  <2>1. Reads /\ [Transaction]_registryVars
    BY <1>1, <1>5 DEF Reads, hostVars
  <2> QED BY <1>1, <1>5, <2>1, ReturnKeeps
<1> QED BY <1>2, <1>4, <1>5 DEF CommitRecovery

\* resolve_absent_orphan: the commit.
LEMMA RemedyKeeps ==
    ASSUME EngineInv, NEW t \in Threads, CommitRemedy(t), UNCHANGED <<boot, crashes>>
    PROVE  EngineInv' /\ [Transaction]_registryVars
<1>1. threads[t].pc = "commit_remedy" /\ UNCHANGED <<hosts, aged, lock>>
  BY DEF CommitRemedy, At
<1>2. PICK j \in Jobs, v \in Nat, verdict \in {Verdict(t)} :
         j = Job(t) /\ v = Seen(t).rv /\ verdict = Verdict(t)
  BY <1>1, OnJob DEF AttemptRow
<1>3. /\ threads \in [Threads -> ThreadRow] /\ VerdictOK("commit_remedy", j, verdict)
      /\ PlaceOK("commit_remedy", j, threads[t].clean, threads[t].then)
      /\ verdict \in Conclusive
  BY <1>1, <1>2, OnJob DEF VerdictOK
<1> DEFINE outputs == {kind \in Outputs(j) : <<j, kind>> \notin artifacts}
           kinds == {"orphan_remediation"} \cup outputs
<1>4. CASE /\ RecoverOrphanedTerminal(j, v, verdict, RemediationEvidence(verdict), kinds)
           /\ Return(t, "ok") /\ EvidenceRegistered(t)
  <2>1. PICK clean \in BOOLEAN : clean = threads[t].clean /\ (clean => Gone(j))
    BY <1>3 DEF ThreadRow, PlaceOK
  <2>2. PICK unit \in UnitStates :
           Touches(j, unit, bundles[j].cancel, bundles[j].control, clean)
    BY <1>1, <1>2, <1>4, <2>1, EvidenceTouches
  <2>3. kinds \in SUBSET Kinds
    BY KindAssumption DEF Outputs, ArtifactKinds
  <2>4. RemediationEvidence(verdict) \in Digests
    BY <1>3, EvidenceAssumption DEF EvidenceDigests
  <2>5. attempts[j].state = "orphaned"
    BY <1>4 DEF RecoverOrphanedTerminal
  <2>6. verdict = "cancelled" => Desired(j) /\ Settled(j)
    BY <1>3, <2>5 DEF VerdictOK, IsConclusive
  <2>7. Rests(t)
    BY <1>3, <1>4, ReturnRests
  <2>8. RemediationEvidence(verdict) \notin {ControlEvidence(u, verdict) : u \in Threads}
    BY OtherEvidence
  <2> HIDE DEF kinds
  <2>9. Commits(j, verdict, RemediationEvidence(verdict))
    BY <1>3, <1>4, <2>3, <2>4 DEF Commits
  <2>10. Grounded(j, verdict, RemediationEvidence(verdict), clean)
    BY <1>3, <2>1, <2>6, <2>8 DEF Grounded
  <2>11. Unlocks(t) /\ threads[t].pc # "idle"
    BY <1>1 DEF Unlocks
  <2> QED BY <1>2, <2>2, <2>7, <2>9, <2>10, <2>11, VerdictKeeps
<1>5. CASE Return(t, "error") /\ UNCHANGED <<registryVars, bundles>>
  <2>1. Reads /\ [Transaction]_registryVars
    BY <1>1, <1>5 DEF Reads, hostVars
  <2> QED BY <1>1, <1>5, <2>1, ReturnKeeps
<1> QED BY <1>2, <1>4, <1>5 DEF CommitRemedy

\* commit_observed_control_terminal: the commit, and the lock given back.
LEMMA ControlCommits ==
    ASSUME EngineInv, NEW t \in Threads, CommitControl(t), UNCHANGED <<boot, crashes>>
    PROVE  EngineInv' /\ [Transaction]_registryVars
<1>1. threads[t].pc = "commit_control" /\ lock' = None /\ UNCHANGED aged
  BY DEF CommitControl, At
<1>2. PICK j \in Jobs, v \in Nat, verdict \in {Verdict(t)} :
         j = Job(t) /\ v = Seen(t).rv /\ verdict = Verdict(t)
  BY <1>1, OnJob DEF AttemptRow
<1>3. /\ threads \in [Threads -> ThreadRow] /\ VerdictOK("commit_control", j, verdict)
      /\ PlaceOK("commit_control", j, threads[t].clean, threads[t].then)
      /\ verdict \in Terminal /\ JobOK(j) /\ Admitted(j)
      /\ bundles[j].control = ControlEvidence(t, verdict)
  BY <1>1, <1>2, OnJob DEF VerdictOK, EngineInv, LockOK, At
<1> DEFINE kinds == {"control_result"} \cup IF Verdict(t) = "orphaned" THEN {} ELSE Outputs(j)
<1>4. CASE /\ CommitTerminal(j, v, verdict, ControlEvidence(t, verdict), kinds)
           /\ UNCHANGED hosts \/ hosts' = ReleasedHosts(j)
           /\ EvidenceRegistered(t)
           /\ Goto(t, "recover") \/ Return(t, "ok")
  <2>1. PICK clean \in BOOLEAN : clean = threads[t].clean /\ (clean => Gone(j))
    BY <1>3 DEF ThreadRow, PlaceOK
  <2>2. PICK unit \in UnitStates :
           Touches(j, unit, bundles[j].cancel, bundles[j].control, clean)
    BY <1>1, <1>2, <1>4, <2>1, EvidenceTouches
  <2>3. kinds \in SUBSET Kinds
    BY KindAssumption DEF Outputs, ArtifactKinds
  <2>4. ControlEvidence(t, verdict) \in Digests
    BY <1>3, EvidenceAssumption DEF EvidenceDigests
  <2>5. attempts[j].state \in Nonterminal
    BY <1>4 DEF CommitTerminal
  <2>6. /\ verdict = "cancelled" => Desired(j) /\ Settled(j)
        /\ verdict = "orphaned" => hosts[j].launches # 0
    BY <1>3, <2>5 DEF VerdictOK, IsConclusive
  <2>7. Rests(t) \/ Goto(t, "recover")
    BY <1>3, <1>4, ReturnRests
  <2> HIDE DEF kinds
  <2>8. Commits(j, verdict, ControlEvidence(t, verdict))
    BY <1>3, <1>4, <2>3, <2>4 DEF Commits
  <2>9. Grounded(j, verdict, ControlEvidence(t, verdict), clean)
    BY <1>3, <2>1, <2>6 DEF Grounded
  <2>10. Unlocks(t) /\ threads[t].pc # "idle"
    BY <1>1 DEF Unlocks
  <2> QED BY <1>2, <2>2, <2>7, <2>8, <2>9, <2>10, VerdictKeeps
<1>5. CASE Return(t, "error") /\ UNCHANGED <<registryVars, hosts, bundles>>
  <2>1. [Transaction]_registryVars /\ Admitted(j)'
    BY <1>3, <1>5 DEF registryVars
  <2>2. Rests(t)
    BY <1>3, <1>5, ReturnRests
  <2>3. PICK pc, k, row, none, tidy, then :
              /\ pc \in Pcs \ {"commit_control", "launch"} /\ k \in Jobs \cup {None}
              /\ Moves(t, pc, k, row, none, tidy, then)
              /\ pc # "idle" => /\ k = j /\ Admitted(j)' /\ SeenOK(pc, j, row)'
                                /\ VerdictOK(pc, j, none)' /\ PlaceOK(pc, j, tidy, then)'
    BY <1>2, <2>1, <2>2, RestsArrives
  <2>4. PICK state, intent, owner, digest, desired :
           /\ Rewrites(j, state, intent, owner, digest, desired)
           /\ RowFits(j, state, intent, owner, digest, desired)
           /\ bundles[j].cancel => desired = "cancelled"
           /\ state \in Terminal /\ digest \in {ControlEvidence(u, state) : u \in Threads}
                 => bundles[j].control = digest
    <3>1. Rewrites(j, attempts[j].state, attempts[j].intent, attempts[j].owner,
                   attempts[j].digest, jobs[j].desired)
      BY <1>5, SameRows
    <3>2. /\ bundles[j].cancel => jobs[j].desired = "cancelled"
          /\ /\ attempts[j].state \in Terminal
             /\ attempts[j].digest \in {ControlEvidence(u, attempts[j].state) : u \in Threads}
             => bundles[j].control = attempts[j].digest
      BY <1>3 DEF JobOK, Desired, EngineInv, ControlEvidenceIntact
    <3> QED BY <3>1, <3>2, RowsFit
  <2>5. HostTyped /\ bundles[j].cancel \in BOOLEAN
    BY DEF EngineInv, EngineTypeOK, HostTyped, BundleRows, BundleRow
  <2>6. Touches(j, hosts[j].unit, bundles[j].cancel, bundles[j].control, bundles[j].clean)
    BY <1>1, <1>5, <2>5, HostStays DEF Touches
  <2>7. /\ Frames(t, j) /\ HostAdvances(j) /\ hosts'[j].launches = hosts[j].launches
    BY <2>1, <2>3, <2>4, <2>6, TouchFrames
  <2>8. LockStep(t)
    BY <1>1, <1>5, <2>3 DEF LockStep, Moves
  <2>9. /\ bundles'[j].cancel => desired = "cancelled"
        /\ bundles'[j].clean => Gone(j)'
        /\ state \in Terminal /\ digest \in {ControlEvidence(u, state) : u \in Threads}
              => bundles'[j].control = digest
    BY <1>3, <1>5, <2>4, <2>7 DEF JobOK, HostAdvances
  <2> QED BY <2>1, <2>3, <2>4, <2>7, <2>8, <2>9, WriteKeeps
<1> QED BY <1>2, <1>4, <1>5 DEF CommitControl

\* commit_observed_control_terminal: the lock, the row read again, and the
\* evidence of an Attempt that has no verdict yet.
LEMMA ControlWrites ==
    ASSUME EngineInv, NEW t \in Threads, WriteControlEvidence(t), UNCHANGED <<boot, crashes>>
    PROVE  EngineInv' /\ [Transaction]_registryVars
<1>1. threads[t].pc = "control" /\ lock = None /\ UNCHANGED registryVars
      /\ UNCHANGED <<hosts, aged>> /\ [Transaction]_registryVars
  BY DEF WriteControlEvidence, At
<1>2. PICK j \in Jobs, verdict \in {Verdict(t)} : j = Job(t) /\ verdict = Verdict(t)
  BY <1>1, OnJob
<1>3. /\ threads \in [Threads -> ThreadRow] /\ Admitted(j) /\ JobOK(j)
      /\ attempts[j] \in AttemptRow /\ Current(t) = attempts[j]
      /\ verdict \in Terminal
  BY <1>1, <1>2, OnJob DEF VerdictOK, Current
<1>4. CASE Return(t, "ok") /\ UNCHANGED <<bundles, lock>>
  <2>1. Reads
    BY <1>1, <1>4 DEF Reads, hostVars
  <2> QED BY <1>1, <1>4, <2>1, ReturnKeeps
<1>5. CASE /\ ~IsTerminal(j) /\ lock' = t
           /\ bundles' = [bundles EXCEPT ![j].control = ControlEvidence(t, verdict)]
           /\ Prepare(t, "commit_control")
  <2>1. PICK row \in AttemptRow, clean \in BOOLEAN, then \in Continuations :
           row = Record(attempts[j]) /\ clean = TerminalClean(attempts[j], j)
           /\ then = threads[t].then
    BY <1>3, RecordRow, Carried DEF TerminalClean
  <2>2. /\ "commit_control" \in Pcs /\ SeenOK("commit_control", j, row)
        /\ VerdictOK("commit_control", j, verdict)
        /\ PlaceOK("commit_control", j, clean, then)
    BY <1>1, <1>2, <1>3, <2>1, PrepareOK
  <2>3. Moves(t, "commit_control", j, row, verdict, clean, then)
    BY <1>2, <1>3, <1>5, <2>1, <2>2, PrepareMoves
  <2>4. HostTyped /\ bundles[j].cancel \in BOOLEAN
    BY DEF EngineInv, EngineTypeOK, HostTyped, BundleRows, BundleRow
  <2>5. ControlEvidence(t, verdict) \in EvidenceDigests
    BY <1>3 DEF EvidenceDigests
  <2>6. Touches(j, hosts[j].unit, bundles[j].cancel, ControlEvidence(t, verdict),
                bundles[j].clean)
    BY <1>1, <1>5, <2>4, <2>5, ControlFields, HostStays DEF Touches
  <2>7. PICK state, intent, owner, digest, desired :
           /\ Rewrites(j, state, intent, owner, digest, desired)
           /\ RowFits(j, state, intent, owner, digest, desired)
           /\ bundles[j].cancel => desired = "cancelled"
           /\ state \notin Terminal
    <3>1. Rewrites(j, attempts[j].state, attempts[j].intent, attempts[j].owner,
                   attempts[j].digest, jobs[j].desired)
      BY <1>1, SameRows
    <3>2. bundles[j].cancel => jobs[j].desired = "cancelled"
      BY <1>3 DEF JobOK, Desired
    <3> QED BY <1>5, <3>1, <3>2, RowsFit
  <2>8. /\ Frames(t, j) /\ RowsAdvance(j) /\ HostAdvances(j) /\ boot' = boot
        /\ hosts'[j].launches = hosts[j].launches
        /\ attempts[j].rv \in Nat /\ attempts'[j].rv \in Nat
    BY <1>1, <2>3, <2>6, <2>7, TouchFrames
  <2>9. LockStep(t)
    BY <1>1, <1>5, <2>3, <2>6 DEF LockStep, Moves, Touches, BundleBecomes
  <2>10. /\ bundles'[j].cancel => desired = "cancelled"
         /\ bundles'[j].clean => Gone(j)'
         /\ state \in Terminal /\ digest \in {ControlEvidence(u, state) : u \in Threads}
               => bundles'[j].control = digest
    BY <1>3, <2>6, <2>7, <2>8 DEF JobOK, HostAdvances, Touches, BundleBecomes
  <2>11. /\ Admitted(j)' /\ SeenOK("commit_control", j, row)'
         /\ VerdictOK("commit_control", j, verdict)'
         /\ PlaceOK("commit_control", j, clean, then)'
    BY <1>3, <2>2, <2>8, ReliedStays
  <2> QED BY <1>1, <2>2, <2>3, <2>7, <2>8, <2>9, <2>10, <2>11, WriteKeeps
<1> QED BY <1>2, <1>4, <1>5 DEF WriteControlEvidence

-----------------------------------------------------------------------------
(* Steps of the host, crashes and reboots.                                 *)

\* Everything but the threads keeps the invariant when the Registry and the
\* files of the Engine stay; the threads either stay or are gone.
LEMMA QuietKeeps ==
    ASSUME EngineInv, UNCHANGED registryVars, HostTyped',
           \A j \in Jobs :
              /\ HostOK(j)' /\ HostAdvances(j)
              /\ hosts'[j].launches = hosts[j].launches
              /\ bundles'[j].cancel = bundles[j].cancel
              /\ bundles'[j].control = bundles[j].control
              /\ bundles'[j].clean = bundles[j].clean
              /\ attempts[j].owner # None /\ attempts[j].owner # boot' => Vacant(j)',
           aged' \subseteq Jobs, boot' \in 0 .. LastBoot, crashes' \in 0 .. MaxCrashes,
           \/ UNCHANGED <<threads, lock, boot>>
           \/ threads' = [t \in Threads |-> Idle] /\ lock' = None
    PROVE  EngineInv'
<1>1. UNCHANGED <<jobs, attempts>> /\ [Transaction]_registryVars
  BY DEF registryVars
<1>2. Consistent' /\ StoppingIntended' /\ \A j \in Jobs : RowsAdvance(j)
  BY <1>1, TransactionConsistent, StoppingStep, RowsOnlyAdvance DEF EngineInv
<1>3. \A t \in Threads, j \in Jobs : AtLaunch(t, j)' => AtLaunch(t, j)
  BY IdleRow DEF AtLaunch, At, Job
<1>4. EngineTypeOK'
  <2>1. /\ hosts' \in [Jobs -> HostRow]
        /\ bundles' \in [Jobs -> BundleRow(EvidenceDigests \cup {None})]
        /\ threads' \in [Threads -> ThreadRow]
    BY IdleRow DEF HostTyped, BundleRows, EngineInv, EngineTypeOK
  <2>2. /\ lock' \in Threads \cup {None}
        /\ \A u \in Threads : (lock' = u) <=> threads'[u].pc = "commit_control"
    BY IdleRow, ThreadAssumption DEF EngineInv, EngineTypeOK, At
  <2> QED BY <2>1, <2>2 DEF EngineTypeOK, At
<1>5. \A t \in Threads : ThreadOK(t)'
  <2>1. CASE UNCHANGED <<threads, lock, boot>>
    <3> SUFFICES ASSUME NEW t \in Threads PROVE ThreadOK(t)'
      OBVIOUS
    <3>1. /\ threads \in [Threads -> ThreadRow] /\ threads'[t] = threads[t] /\ ThreadOK(t)
          /\ boot' = boot /\ \A j \in Jobs : RowsAdvance(j) /\ HostAdvances(j)
          /\ \A j \in Jobs : attempts[j].rv \in Nat /\ attempts'[j].rv \in Nat
      BY <1>1, <1>2, <2>1, RowsTyped DEF EngineInv, EngineTypeOK
    <3> QED BY <3>1, ThreadStays
  <2>2. CASE threads' = [t \in Threads |-> Idle]
    BY <2>2, IdleRow DEF ThreadOK
  <2> QED BY <2>1, <2>2
<1>6. \A j \in Jobs : JobOK(j)'
  <2> SUFFICES ASSUME NEW j \in Jobs PROVE JobOK(j)'
    OBVIOUS
  <2>1. Settled(j) => Settled(j)'
    BY DEF HostAdvances, Settled
  <2>2. NeverLaunched(j) => NeverLaunched(j)'
    BY <1>1, <1>3 DEF NeverLaunched, Undispatched
  <2>3. JobOK(j)
    BY DEF EngineInv
  <2> QED BY <1>1, <2>1, <2>2, <2>3 DEF JobOK, Desired, HostAdvances
<1>7. LaunchOK'
  BY <1>1, <1>3 DEF EngineInv, LaunchOK, Undispatched
<1>8. LockOK'
  <2>1. CASE UNCHANGED <<threads, lock, boot>>
    <3> SUFFICES ASSUME NEW t \in Threads, threads[t].pc = "commit_control"
                 PROVE  bundles'[threads[t].job].control = ControlEvidence(t, threads[t].verdict)
      BY <2>1 DEF LockOK, At, Job, Verdict
    <3> QED BY OnJob DEF EngineInv, LockOK, At, Job, Verdict
  <2>2. CASE threads' = [t \in Threads |-> Idle]
    BY <2>2, IdleRow DEF LockOK, At
  <2> QED BY <2>1, <2>2
<1>9. ControlEvidenceIntact'
  BY <1>1 DEF EngineInv, ControlEvidenceIntact, ControlEvidence
<1>10. \A j \in Jobs : HostOK(j)'
  OBVIOUS
<1> QED BY <1>2, <1>4, <1>5, <1>6, <1>7, <1>8, <1>9, <1>10 DEF EngineInv

\* systemd, the Runner and the passing of the startup grace.
LEMMA HostKeeps ==
    ASSUME EngineInv, NEW j \in Jobs, HostMoves(j), UNCHANGED <<boot, crashes>>
    PROVE  EngineInv' /\ [Transaction]_registryVars
<1>1. UNCHANGED <<registryVars, threads, lock>> /\ [Transaction]_registryVars
      /\ UNCHANGED attempts
  BY DEF HostMoves, registryVars
<1>2. HostTyped /\ aged \subseteq Jobs /\ boot' \in 0 .. LastBoot /\ crashes' \in 0 .. MaxCrashes
  BY DEF EngineInv, EngineTypeOK, HostTyped, BundleRows
<1>3. /\ HostTyped' /\ HostOK(j)' /\ HostAdvances(j) /\ HostOnly(j) /\ aged' \subseteq Jobs
  <2>1. CASE HostStep(j)
    <3>1. aged' = aged
      BY <2>1 DEF HostStep, StartUnit, UnitNoticesExit, UnitExpires, UnitReaped, RunnerStarts,
         RunnerRejects, RunnerChecksCancel, RunnerSpawns, RunnerFinishes, RunnerExits, RunnerDies
    <3> QED BY <1>2, <2>1, <3>1, HostStepOK DEF EngineInv
  <2>2. CASE GrowsOld(j)
    <3>1. UNCHANGED <<hosts, bundles>> /\ aged' \subseteq Jobs
      BY <1>2, <2>2 DEF GrowsOld
    <3> QED BY <1>2, <3>1 DEF EngineInv, HostTyped, HostOK, HostAdvances, HostOnly, Gone, Vacant,
             PastCheck, CgroupPopulated, RunnerAlive, UnitIsActive
  <2> QED BY <2>1, <2>2 DEF HostMoves
<1>4. \A i \in Jobs \ {j} : /\ HostOK(i)' /\ HostAdvances(i)
                            /\ hosts'[i] = hosts[i] /\ bundles'[i] = bundles[i]
  BY <1>3 DEF HostOnly, EngineInv, HostAdvances, HostOK, Gone, Vacant, PastCheck,
     CgroupPopulated, RunnerAlive, UnitIsActive
<1>5. \A i \in Jobs : attempts[i].owner # None /\ attempts[i].owner # boot' => Vacant(i)'
  BY <1>3, <1>4 DEF EngineInv, JobOK, HostAdvances
<1>6. \A i \in Jobs : /\ HostOK(i)' /\ HostAdvances(i)
              /\ hosts'[i].launches = hosts[i].launches
              /\ bundles'[i].cancel = bundles[i].cancel
              /\ bundles'[i].control = bundles[i].control
              /\ bundles'[i].clean = bundles[i].clean
  BY <1>3, <1>4 DEF HostOnly
<1> QED BY <1>1, <1>2, <1>3, <1>5, <1>6, QuietKeeps

\* The Runtime process dies.
LEMMA CrashKeeps ==
    ASSUME EngineInv, Crash
    PROVE  EngineInv' /\ [Transaction]_registryVars
<1>1. UNCHANGED <<registryVars, hosts, bundles, aged, boot, attempts>>
      /\ [Transaction]_registryVars
      /\ threads' = [t \in Threads |-> Idle] /\ lock' = None
  BY DEF Crash, hostVars, registryVars
<1>2. /\ crashes' \in 0 .. MaxCrashes /\ HostTyped' /\ aged' \subseteq Jobs
      /\ boot' \in 0 .. LastBoot
  <2>1. HostTyped' /\ aged' \subseteq Jobs /\ boot' \in 0 .. LastBoot
    BY <1>1 DEF EngineInv, EngineTypeOK, HostTyped, BundleRows
  <2>2. crashes \in 0 .. MaxCrashes /\ crashes < MaxCrashes /\ crashes' = crashes + 1
    BY DEF Crash, EngineInv, EngineTypeOK
  <2>3. crashes' \in 0 .. MaxCrashes
    BY <2>2, CrashAssumption
  <2> QED BY <2>1, <2>3
<1>3. \A j \in Jobs : HostOK(j)' /\ HostAdvances(j)
  BY <1>1 DEF EngineInv, HostAdvances, HostOK, Gone, Vacant, PastCheck, CgroupPopulated,
     RunnerAlive, UnitIsActive
<1>4. \A j \in Jobs : attempts[j].owner # None /\ attempts[j].owner # boot' => Vacant(j)'
  BY <1>1, <1>3 DEF EngineInv, JobOK, HostAdvances
<1> QED BY <1>1, <1>2, <1>3, <1>4, QuietKeeps

\* The host restarts: whatever an earlier boot ran is gone.
LEMMA RebootKeeps ==
    ASSUME EngineInv, Reboot
    PROVE  EngineInv' /\ [Transaction]_registryVars
<1>1. UNCHANGED registryVars /\ UNCHANGED crashes /\ [Transaction]_registryVars /\ HostReboots
      /\ threads' = [t \in Threads |-> Idle] /\ lock' = None
  BY DEF Reboot
<1>2. /\ crashes' \in 0 .. MaxCrashes /\ HostTyped
      /\ boot' \in 0 .. LastBoot
  <2>1. crashes' \in 0 .. MaxCrashes /\ HostTyped
    BY <1>1 DEF EngineInv, EngineTypeOK, HostTyped, BundleRows
  <2>2. boot \in 0 .. LastBoot /\ boot < LastBoot /\ boot' = boot + 1
    BY DEF Reboot, EngineInv, EngineTypeOK
  <2>3. boot' \in 0 .. LastBoot
    BY <2>2, BootAssumption
  <2> QED BY <2>1, <2>3
<1>3. aged' \subseteq Jobs
  BY <1>1 DEF HostReboots, EngineInv, EngineTypeOK
<1>4. \A j \in Jobs : /\ HostTyped' /\ HostOK(j)' /\ HostAdvances(j) /\ UNCHANGED bundles
                      /\ hosts'[j].launches = hosts[j].launches
                      /\ bundles[j].start => Vacant(j)'
  BY <1>1, <1>2, RebootOK DEF EngineInv
<1>5. HostTyped'
  BY <1>1, <1>2, <1>4 DEF HostTyped, HostReboots
<1>6. \A j \in Jobs : attempts[j].owner # None /\ attempts[j].owner # boot' => Vacant(j)'
  BY <1>4 DEF EngineInv, JobOK
<1> QED BY <1>1, <1>2, <1>3, <1>4, <1>5, <1>6, QuietKeeps

-----------------------------------------------------------------------------
(* Every step keeps the invariant and is a step of the Registry.           *)

\* A request that begins.
LEMMA BeginStep ==
    ASSUME EngineInv, NEW t \in Threads, Begin(t), UNCHANGED <<boot, crashes>>
    PROVE  EngineInv' /\ [Transaction]_registryVars
<1>1. CASE \E j \in Jobs, k \in Keys, op \in Operations, limit \in Limits :
              BeginRun(t, j, k, op, limit)
  BY <1>1, BeginRunKeeps
<1>2. CASE \E j \in Jobs : BeginObserve(t, j) \/ BeginCancel(t, j) \/ BeginMaintenance(t, j)
  <2>1. PICK j \in Jobs : BeginObserve(t, j) \/ BeginCancel(t, j) \/ BeginMaintenance(t, j)
    BY <1>2
  <2>2. UNCHANGED registryVars
    BY <2>1 DEF BeginObserve, BeginCancel, BeginMaintenance, Reads
  <2> QED BY <2>1, <2>2, BeginReads
<1> QED BY <1>1, <1>2 DEF Begin

\* A thread inside a request.
LEMMA ThreadStepKeeps ==
    ASSUME EngineInv, NEW t \in Threads, ThreadStep(t), UNCHANGED <<boot, crashes>>
    PROVE  EngineInv' /\ [Transaction]_registryVars
<1>1. CASE ReconcileJob(t) \/ LoadAdmitted(t) \/ VerifyPreconditions(t) \/ JoinDispatch(t)
  BY <1>1, RequestReads DEF ReconcileJob, LoadAdmitted, VerifyPreconditions, JoinDispatch, Reads
<1>2. CASE AwaitLaunchEvidence(t) \/ MainPidLost(t) \/ CheckStart(t)
  BY <1>2, EvidenceReads DEF AwaitLaunchEvidence, MainPidLost, CheckStart, Reads
<1>3. CASE ReconcileAttempt(t) \/ CheckResult(t) \/ ObserveStartingUnit(t)
  BY <1>3, ReconcileReads DEF ReconcileAttempt, CheckResult, ObserveStartingUnit, Reads
<1>4. CASE ObserveOwner(t) \/ ConcludeOwner(t)
  BY <1>4, OwnerReads DEF ObserveOwner, ConcludeOwner, Reads
<1>5. CASE LoadForRecovery(t)
  BY <1>5, RecoveryReads DEF LoadForRecovery, Reads
<1>6. CASE ReconcileOrphan(t) \/ OrphanResult(t) \/ OrphanTree(t) \/ OrphanDecide(t)
  BY <1>6, OrphanReads DEF ReconcileOrphan, OrphanResult, OrphanTree, OrphanDecide, Reads
<1>7. CASE \/ CancelOrphan(t) \/ CancelTree(t) \/ CancelResult(t) \/ CancelTarget(t)
           \/ PollResult(t) \/ PollUnit(t)
  BY <1>7, CancelReads
     DEF CancelOrphan, CancelTree, CancelResult, CancelTarget, PollResult, PollUnit, Reads
<1>8. CASE ClearFailure(t) \/ RecordFailure(t)
  BY <1>8, FlagKeeps
<1>9. CASE MaterializeBundle(t)
  BY <1>9, BundleKeeps
<1>10. CASE IssueDispatch(t)
  BY <1>10, DispatchKeeps
<1>11. CASE Launch(t)
  BY <1>11, LaunchKeeps
<1>12. CASE BindStart(t)
  BY <1>12, BindKeeps
<1>13. CASE WriteControlEvidence(t)
  BY <1>13, ControlWrites
<1>14. CASE CommitControl(t)
  BY <1>14, ControlCommits
<1>15. CASE LoadForResult(t)
  BY <1>15, ResultLoads
<1>16. CASE CommitResult(t)
  BY <1>16, ResultKeeps
<1>17. CASE CommitRecovery(t)
  BY <1>17, RecoveryKeeps
<1>18. CASE WriteRemediation(t)
  BY <1>18, RemediationKeeps
<1>19. CASE CommitRemedy(t)
  BY <1>19, RemedyKeeps
<1>20. CASE RequestOrphanCancel(t)
  BY <1>20, OrphanCancelKeeps
<1>21. CASE CommitCancel(t)
  BY <1>21, CommitCancelKeeps
<1>22. CASE WriteCancelFile(t)
  BY <1>22, CancelFileKeeps
<1>23. CASE StopUnit(t)
  BY <1>23, StopKeeps
<1> QED BY <1>1, <1>2, <1>3, <1>4, <1>5, <1>6, <1>7, <1>8, <1>9, <1>10, <1>11, <1>12, <1>13,
           <1>14, <1>15, <1>16, <1>17, <1>18, <1>19, <1>20, <1>21, <1>22, <1>23 DEF ThreadStep

\* The invariant is inductive, and every step of the Engine is one Registry
\* transaction or leaves the Registry alone.
LEMMA EngineStep ==
    ASSUME EngineInv, [EngineNext]_engineVars
    PROVE  EngineInv' /\ [Transaction]_registryVars
<1>1. CASE \E t \in Threads : (Begin(t) \/ ThreadStep(t)) /\ UNCHANGED <<boot, crashes>>
  <2>1. PICK t \in Threads : (Begin(t) \/ ThreadStep(t)) /\ UNCHANGED <<boot, crashes>>
    BY <1>1
  <2> QED BY <2>1, BeginStep, ThreadStepKeeps
<1>2. CASE \E j \in Jobs : HostMoves(j) /\ UNCHANGED <<boot, crashes>>
  BY <1>2, HostKeeps
<1>3. CASE Crash
  BY <1>3, CrashKeeps
<1>4. CASE Reboot
  BY <1>4, RebootKeeps
<1>5. CASE UNCHANGED engineVars
  <2>1. /\ UNCHANGED <<registryVars, hosts, bundles, aged, threads, lock, boot, crashes, attempts>>
        /\ [Transaction]_registryVars
    BY <1>5 DEF engineVars, hostVars, registryVars
  <2>2. HostTyped' /\ aged' \subseteq Jobs /\ boot' \in 0 .. LastBoot /\ crashes' \in 0 .. MaxCrashes
    BY <2>1 DEF EngineInv, EngineTypeOK, HostTyped, BundleRows
  <2>3. \A j \in Jobs : HostOK(j)' /\ HostAdvances(j)
    BY <2>1 DEF EngineInv, HostAdvances, HostOK, Gone, Vacant, PastCheck, CgroupPopulated,
       RunnerAlive, UnitIsActive
  <2>4. \A j \in Jobs : attempts[j].owner # None /\ attempts[j].owner # boot' => Vacant(j)'
    BY <2>1, <2>3 DEF EngineInv, JobOK, HostAdvances
  <2> QED BY <2>1, <2>2, <2>3, <2>4, QuietKeeps
<1> QED BY <1>1, <1>2, <1>3, <1>4, <1>5 DEF EngineNext

\* The Engine starts with an empty Registry and nothing on the host.
LEMMA EngineStart == EngineInit => EngineInv
<1> SUFFICES ASSUME EngineInit PROVE EngineInv
  OBVIOUS
<1>1. Consistent /\ StoppingIntended
  BY InitConsistent, InitStopping DEF EngineInit
<1>2. \A j \in Jobs :
         /\ attempts[j] = NoAttempt
         /\ hosts[j].unit = "absent" /\ hosts[j].runner = "absent" /\ hosts[j].payload = FALSE
         /\ hosts[j].launches = 0
         /\ bundles[j].start = FALSE /\ bundles[j].result = None /\ bundles[j].cancel = FALSE
         /\ bundles[j].control = None /\ bundles[j].clean = FALSE
  BY DEF EngineInit, Init, HostInit
<1>3. \A t \in Threads : threads[t] = Idle
  BY DEF EngineInit
<1>4. EngineTypeOK
  <2>1. hosts \in [Jobs -> HostRow]
    BY DEF EngineInit, HostInit, HostRow, UnitStates
  <2>2. bundles \in [Jobs -> BundleRow(EvidenceDigests \cup {None})]
    BY DEF EngineInit, HostInit, BundleRow
  <2>3. /\ threads \in [Threads -> ThreadRow] /\ lock \in Threads \cup {None} /\ aged \subseteq Jobs
        /\ boot \in 0 .. LastBoot /\ crashes \in 0 .. MaxCrashes
    BY IdleRow, BootAssumption, CrashAssumption DEF EngineInit, HostInit
  <2>4. \A t \in Threads : (lock = t) <=> threads[t].pc = "commit_control"
    BY <1>3, IdleRow, ThreadAssumption DEF EngineInit
  <2> QED BY <2>1, <2>2, <2>3, <2>4 DEF EngineTypeOK, At
<1>5. \A t \in Threads : ThreadOK(t)
  BY <1>3, IdleRow DEF ThreadOK
<1>6. \A j \in Jobs : HostOK(j)
  BY <1>2 DEF HostOK, RunnerAlive, Alive
<1>7. \A j \in Jobs : JobOK(j)
  <2>1. NoAttempt.digest = None
    BY DEF NoAttempt
  <2> QED BY <1>2, <2>1, NoAttemptRow DEF JobOK
<1>8. LaunchOK /\ LockOK
  BY <1>2, <1>3, IdleRow DEF LaunchOK, AtLaunch, LockOK, At
<1>9. ControlEvidenceIntact
  BY <1>2, NoAttemptRow DEF ControlEvidenceIntact
<1> QED BY <1>1, <1>4, <1>5, <1>6, <1>7, <1>8, <1>9 DEF EngineInv

-----------------------------------------------------------------------------
(* What a step may never do.                                               *)

\* No thread touches a Runner; a crash leaves it alone and a reboot ends it.
LEMMA RunnerUntouched ==
    ASSUME EngineInv, NEW j \in Jobs,
           \/ \E t \in Threads : Begin(t) \/ ThreadStep(t)
           \/ Crash \/ Reboot \/ UNCHANGED engineVars
    PROVE  hosts'[j].runner = "cleared" => hosts[j].runner = "cleared"
<1>0. hosts \in [Jobs -> HostRow]
  BY DEF EngineInv, EngineTypeOK
<1>1. ASSUME NEW i, NEW unit, hosts' = [hosts EXCEPT ![i].unit = unit]
      PROVE  hosts'[j].runner = hosts[j].runner
  <2>1. CASE i \in Jobs
    BY <1>0, <1>1, <2>1 DEF HostRow
  <2>2. CASE i \notin Jobs
    BY <1>0, <1>1, <2>2
  <2> QED BY <2>1, <2>2
<1>2. ASSUME NEW t \in Threads, Begin(t) PROVE UNCHANGED hosts
  BY <1>2 DEF Begin, BeginRun, BeginObserve, BeginCancel, BeginMaintenance, Reads, RegistryOnly,
     hostVars
<1>3. ASSUME NEW t \in Threads, ThreadStep(t)
      PROVE  hosts'[j].runner = hosts[j].runner
  <2>1. CASE \/ ReconcileJob(t) \/ ClearFailure(t) \/ RecordFailure(t)
             \/ LoadAdmitted(t) \/ VerifyPreconditions(t) \/ MaterializeBundle(t)
             \/ IssueDispatch(t) \/ JoinDispatch(t) \/ AwaitLaunchEvidence(t)
             \/ BindStart(t) \/ MainPidLost(t)
             \/ ReconcileAttempt(t) \/ CheckResult(t) \/ CheckStart(t) \/ ObserveStartingUnit(t)
             \/ ObserveOwner(t) \/ ConcludeOwner(t) \/ LoadForRecovery(t)
    BY <2>1 DEF ReconcileJob, ClearFailure, RecordFailure, LoadAdmitted, VerifyPreconditions,
       MaterializeBundle, IssueDispatch, JoinDispatch, AwaitLaunchEvidence, BindStart, MainPidLost,
       ReconcileAttempt, CheckResult, CheckStart, ObserveStartingUnit, ObserveOwner,
       ConcludeOwner, LoadForRecovery, Reads, RegistryOnly, hostVars
  <2>2. CASE \/ ReconcileOrphan(t) \/ OrphanResult(t) \/ OrphanTree(t) \/ OrphanDecide(t)
             \/ CancelOrphan(t) \/ RequestOrphanCancel(t) \/ CancelTree(t) \/ CancelResult(t)
             \/ CancelTarget(t) \/ CommitCancel(t) \/ PollResult(t) \/ PollUnit(t)
    BY <2>2 DEF ReconcileOrphan, OrphanResult, OrphanTree, OrphanDecide, CancelOrphan,
       RequestOrphanCancel, CancelTree, CancelResult, CancelTarget, CommitCancel, PollResult,
       PollUnit, Reads, RegistryOnly, hostVars
  <2>3. CASE \/ WriteControlEvidence(t) \/ WriteRemediation(t) \/ CommitRemedy(t)
             \/ WriteCancelFile(t)
    BY <2>3 DEF WriteControlEvidence, WriteRemediation, CommitRemedy, WriteCancelFile
  <2>4. CASE Launch(t)
    <3>1. CASE UNCHANGED hostVars
      BY <3>1 DEF hostVars
    <3>2. CASE EnqueueUnit(Job(t))
      <4>1. threads[t].pc = "launch"
        BY <2>4 DEF Launch, At
      <4>2. PICK i \in Jobs : i = Job(t)
        BY <4>1, OnJob
      <4>3. HostTyped
        BY DEF EngineInv, EngineTypeOK, HostTyped, BundleRows
      <4> QED BY <3>2, <4>2, <4>3, SystemdEffect DEF HostBecomes
    <3> QED BY <2>4, <3>1, <3>2 DEF Launch
  <2>5. CASE CommitControl(t) \/ LoadForResult(t) \/ CommitResult(t) \/ CommitRecovery(t)
    <3>1. UNCHANGED hosts \/ hosts' = ReleasedHosts(Job(t))
      BY <2>5 DEF CommitControl, LoadForResult, CommitResult, CommitRecovery
    <3>2. ASSUME hosts' = ReleasedHosts(Job(t))
          PROVE  \E unit : hosts' = [hosts EXCEPT ![Job(t)].unit = unit]
      BY <3>2 DEF ReleasedHosts
    <3> QED BY <1>1, <3>1, <3>2
  <2>6. CASE StopUnit(t)
    <3>1. \E unit : hosts' = [hosts EXCEPT ![Job(t)].unit = unit]
      BY <2>6 DEF StopUnit
    <3> QED BY <1>1, <3>1
  <2> QED BY <1>3, <2>1, <2>2, <2>3, <2>4, <2>5, <2>6 DEF ThreadStep
<1>4. ASSUME Reboot PROVE hosts'[j].runner \in {"absent", "dead"}
  BY <1>0, <1>4 DEF Reboot, HostReboots, HostRow
<1>5. ASSUME Crash \/ UNCHANGED engineVars PROVE UNCHANGED hosts
  BY <1>5 DEF Crash, engineVars, hostVars
<1> QED BY <1>2, <1>3, <1>4, <1>5

\* Only recover_orphaned_terminal ends an orphan.
LEMMA OrphanStays ==
    ASSUME EngineInv, NEW j \in Jobs, attempts[j].state = "orphaned", NEW i \in Jobs,
           NEW v, NEW d \in Digests, NEW state \in Terminal, NEW kinds, NEW o \in Owners,
           NEW k, NEW op, NEW limit,
           \/ Submit(i, k, op, limit) \/ MarkBundleReady(i, v) \/ MarkDispatchIssued(i, v)
           \/ BindRunning(i, v, o) \/ CommitTerminal(i, v, state, d, kinds)
           \/ RequestCancel(i, d) \/ CancelOrphaned(i)
           \/ RecordReconciliationFailure(i) \/ ClearReconciliationFailure(i)
    PROVE  attempts'[j].state = "orphaned"
<1>0. Consistent /\ TypeOK
  BY DEF EngineInv, Consistent
<1>1. CASE Submit(i, k, op, limit)
  BY <1>0, <1>1, SubmitEffect DEF Rewrites
<1>2. CASE MarkBundleReady(i, v)
  BY <1>0, <1>2, BundleEffect DEF Rewrites, MarkBundleReady
<1>3. CASE MarkDispatchIssued(i, v)
  BY <1>0, <1>3, DispatchEffect DEF Rewrites, MarkDispatchIssued
<1>4. CASE BindRunning(i, v, o)
  BY <1>0, <1>4, BindEffect DEF Rewrites, BindRunning
<1>5. CASE CommitTerminal(i, v, state, d, kinds)
  <2>1. attempts[i].state \in Nonterminal
    BY <1>5 DEF CommitTerminal
  <2> QED BY <1>0, <1>5, <2>1, VerdictEffect DEF Rewrites
<1>6. CASE CancelOrphaned(i)
  BY <1>0, <1>6, CancelOrphanedEffect DEF Rewrites
<1>7. CASE CancelAccepted(i, d)
  <2>1. attempts[i].state = "accepted"
    BY <1>7 DEF CancelAccepted
  <2>2. i # j
    BY <2>1
  <2>3. \A m \in Jobs \ {i} : attempts'[m] = attempts[m]
    BY <1>0, <1>7, CancelAcceptedEffect DEF Rewrites
  <2> QED BY <2>2, <2>3
<1>8. CASE CancelDispatched(i)
  BY <1>0, <1>8, CancelDispatchedEffect DEF Rewrites, CancelDispatched
<1>9. CASE RecordReconciliationFailure(i) \/ ClearReconciliationFailure(i)
  BY <1>0, <1>9, FlagEffect DEF Rewrites
<1> QED BY <1>1, <1>2, <1>3, <1>4, <1>5, <1>6, <1>7, <1>8, <1>9 DEF RequestCancel

\* The thread that ends an orphan found it as it is now.
LEMMA OrphanEnds ==
    ASSUME EngineInv, [EngineNext]_engineVars, NEW j \in Jobs,
           attempts[j].state = "orphaned", attempts'[j].state \in Conclusive
    PROVE  \E t \in Threads : /\ threads[t].pc \in {"commit_recovery", "commit_remedy"}
                              /\ Job(t) = j /\ attempts[j].rv = Seen(t).rv
<1> SUFFICES ASSUME attempts'[j].state # "orphaned"
             PROVE  \E t \in Threads : /\ threads[t].pc \in {"commit_recovery", "commit_remedy"}
                                       /\ Job(t) = j /\ attempts[j].rv = Seen(t).rv
  OBVIOUS
<1>1. ~UNCHANGED registryVars
  BY DEF registryVars
<1>2. PICK t \in Threads : Begin(t) \/ ThreadStep(t)
  BY <1>1 DEF EngineNext, HostMoves, Crash, Reboot, engineVars
<1>3. CASE Begin(t)
  <2>1. PICK i \in Jobs, k \in Keys, op \in Operations, limit \in Limits : Submit(i, k, op, limit)
    BY <1>1, <1>3 DEF Begin, BeginRun, BeginObserve, BeginCancel, BeginMaintenance, Reads
  <2>2. PICK d \in Digests, o \in Owners : TRUE
    BY EvidenceAssumption, BootAssumption DEF EvidenceDigests
  <2> QED BY <2>1, <2>2, OrphanStays
<1>4. CASE ThreadStep(t)
  <2>1. CASE \/ ReconcileJob(t)
             \/ LoadAdmitted(t) \/ VerifyPreconditions(t)
             \/ JoinDispatch(t) \/ AwaitLaunchEvidence(t) \/ MainPidLost(t)
             \/ ReconcileAttempt(t) \/ CheckResult(t) \/ CheckStart(t) \/ ObserveStartingUnit(t)
             \/ ObserveOwner(t) \/ ConcludeOwner(t) \/ LoadForRecovery(t)
    BY <1>1, <2>1 DEF ReconcileJob, LoadAdmitted, VerifyPreconditions,
       JoinDispatch, AwaitLaunchEvidence, MainPidLost,
       ReconcileAttempt, CheckResult, CheckStart, ObserveStartingUnit, ObserveOwner,
       ConcludeOwner, LoadForRecovery, Reads
  <2>2. CASE \/ ReconcileOrphan(t) \/ OrphanResult(t) \/ OrphanTree(t) \/ OrphanDecide(t)
             \/ CancelOrphan(t) \/ CancelTree(t) \/ CancelResult(t)
             \/ CancelTarget(t) \/ PollResult(t) \/ PollUnit(t)
    BY <1>1, <2>2 DEF ReconcileOrphan, OrphanResult, OrphanTree, OrphanDecide, CancelOrphan,
       CancelTree, CancelResult, CancelTarget, PollResult, PollUnit, Reads
  <2>3. CASE \/ WriteControlEvidence(t) \/ WriteRemediation(t) \/ WriteCancelFile(t)
             \/ LoadForResult(t) \/ Launch(t) \/ StopUnit(t)
    BY <1>1, <2>3 DEF WriteControlEvidence, WriteRemediation, WriteCancelFile, LoadForResult,
       Launch, StopUnit
  <2>4. ASSUME threads[t].pc # "idle" PROVE Job(t) \in Jobs
    BY <2>4, OnJob
  <2>5. PICK d \in Digests, o \in Owners : d = UndispatchedEvidence /\ o = boot
    BY EvidenceAssumption, BootAssumption DEF EvidenceDigests, EngineInv, EngineTypeOK
  <2>6. CASE \/ ClearFailure(t) \/ RecordFailure(t) \/ MaterializeBundle(t) \/ IssueDispatch(t)
             \/ BindStart(t) \/ RequestOrphanCancel(t) \/ CommitCancel(t)
    <3>1. Job(t) \in Jobs
      BY <2>4, <2>6 DEF ClearFailure, RecordFailure, MaterializeBundle, IssueDispatch,
         BindStart, RequestOrphanCancel, CommitCancel, At
    <3>2. \/ ClearReconciliationFailure(Job(t)) \/ RecordReconciliationFailure(Job(t))
          \/ MarkBundleReady(Job(t), Seen(t).rv) \/ MarkDispatchIssued(Job(t), Seen(t).rv)
          \/ BindRunning(Job(t), Seen(t).rv, o) \/ CancelOrphaned(Job(t))
          \/ RequestCancel(Job(t), d)
      BY <1>1, <2>5, <2>6 DEF ClearFailure, RecordFailure, MaterializeBundle, IssueDispatch,
         BindStart, RequestOrphanCancel, CommitCancel
    <3> QED BY <2>5, <3>1, <3>2, OrphanStays
  <2>7. CASE CommitControl(t) \/ CommitResult(t)
    <3>1. threads[t].pc \in {"commit_control", "commit_result", "retry_result"}
      BY <2>7 DEF CommitControl, CommitResult, At
    <3>2. \E state, kinds, e : CommitTerminal(Job(t), Seen(t).rv, state, e, kinds)
      BY <1>1, <2>7 DEF CommitControl, CommitResult
    <3>3. attempts[Job(t)].state \in Nonterminal
          /\ \A i \in Jobs \ {Job(t)} : attempts'[i] = attempts[i]
      BY <3>2 DEF CommitTerminal, Update, EngineInv, Consistent, TypeOK
    <3> QED BY <3>3
  <2>8. CASE CommitRecovery(t) \/ CommitRemedy(t)
    <3>1. /\ threads[t].pc \in {"commit_recovery", "commit_remedy"}
          /\ attempts[Job(t)].rv = Seen(t).rv
          /\ \E state, kinds, e :
                RecoverOrphanedTerminal(Job(t), Seen(t).rv, state, e, kinds)
      BY <1>1, <2>8 DEF CommitRecovery, CommitRemedy, At
    <3>2. \A i \in Jobs \ {Job(t)} : attempts'[i] = attempts[i]
      BY <3>1 DEF RecoverOrphanedTerminal, Update, EngineInv, Consistent, TypeOK
    <3> QED BY <3>1, <3>2
  <2> QED BY <1>4, <2>1, <2>2, <2>3, <2>6, <2>7, <2>8 DEF ThreadStep
<1> QED BY <1>2, <1>3, <1>4

\* What it found of a bound orphan was a vacated tree, and stays one.
LEMMA OrphanVacatesStep ==
    ASSUME EngineInv, [EngineNext]_engineVars, NEW j \in Jobs,
           attempts[j].state = "orphaned", attempts'[j].state \in Conclusive,
           attempts[j].owner # None
    PROVE  ~UnitIsActive(j) /\ ~CgroupPopulated(j)
<1>1. PICK t \in Threads : /\ threads[t].pc \in {"commit_recovery", "commit_remedy"}
                           /\ Job(t) = j /\ attempts[j].rv = Seen(t).rv
  BY OrphanEnds
<1>2. SeenOK(threads[t].pc, j, Seen(t))
  BY <1>1 DEF EngineInv, ThreadOK
<1>3. Seen(t).state # None
  BY <1>1, <1>2 DEF SeenOK, TreePcs
<1>4. Seen(t).owner = attempts[j].owner
  BY <1>1, <1>2, <1>3 DEF SeenOK
<1>5. Vacant(j)
  BY <1>1, <1>2, <1>4 DEF SeenOK, TreePcs
<1> QED BY <1>5 DEF Vacant, Gone

\* Only the Runner clears itself, and only past a check without a file.
LEMMA CancelPreventsStep ==
    ASSUME EngineInv, [EngineNext]_engineVars, NEW j \in Jobs,
           hosts[j].runner = "started", hosts'[j].runner = "cleared"
    PROVE  attempts[j].state # "cancelled"
<1>1. PICK i \in Jobs : HostMoves(i)
  BY RunnerUntouched DEF EngineNext
<1>2. HostTyped /\ HostOK(i) /\ HostOK(j) /\ JobOK(j)
  BY DEF EngineInv, EngineTypeOK, HostTyped, BundleRows
<1>3. HostStep(i)
  BY <1>1 DEF HostMoves, GrowsOld
<1>4. i = j
  <2>1. HostOnly(i)
    BY <1>2, <1>3, HostStepOK
  <2> QED BY <2>1 DEF HostOnly
<1>5. RunnerChecksCancel(j) /\ ~bundles[j].cancel
  <2>0. hosts \in [Jobs -> HostRow]
    BY <1>2 DEF HostTyped
  <2>1. ASSUME StartUnit(j) \/ UnitNoticesExit(j) \/ UnitExpires(j) \/ UnitReaped(j)
        PROVE  FALSE
    BY <2>0, <2>1 DEF StartUnit, UnitNoticesExit, UnitExpires, UnitReaped, HostRow
  <2>2. ASSUME RunnerStarts(j) \/ RunnerRejects(j) \/ RunnerSpawns(j) \/ RunnerFinishes(j)
        PROVE  FALSE
    BY <2>0, <2>2 DEF RunnerStarts, RunnerRejects, RunnerSpawns, RunnerFinishes, HostRow
  <2>3. ASSUME RunnerExits(j) \/ RunnerDies(j)
        PROVE  FALSE
    BY <2>0, <2>3 DEF RunnerExits, RunnerDies, HostRow
  <2>4. RunnerChecksCancel(j)
    BY <1>3, <1>4, <2>1, <2>2, <2>3 DEF HostStep
  <2> QED BY <2>0, <2>4 DEF RunnerChecksCancel, HostRow
<1>6. ~Settled(j)
  BY <1>5 DEF Settled, PastCheck
<1>7. ~NeverLaunched(j)
  BY <1>2 DEF NeverLaunched, HostOK
<1> QED BY <1>2, <1>6, <1>7 DEF JobOK

-----------------------------------------------------------------------------
(* The theorems.                                                           *)

\* What every thread relies on holds after any interleaving of threads, host,
\* crashes and reboots.
THEOREM EngineInvariant == EngineSpec => []EngineInv
<1>1. EngineInv /\ [EngineNext]_engineVars => EngineInv'
  BY EngineStep
<1> QED BY EngineStart, <1>1, PTL DEF EngineSpec

\* Type correctness: threads, lock, host and evidence keep their shape, and
\* the control-terminal lock is held exactly between evidence and commit.
THEOREM EngineTyped == EngineSpec => []EngineTypeOK
BY EngineInvariant, PTL DEF EngineInv

\* No crash, retry or lost race makes dispatch_attempt enqueue a unit twice.
THEOREM EngineLaunchesOnce == EngineSpec => []AtMostOneLaunch
<1>1. EngineInv => AtMostOneLaunch
  BY DEF EngineInv, LaunchOK, AtMostOneLaunch
<1> QED BY <1>1, EngineInvariant, PTL

\* The control evidence a terminal Attempt registered is the file on disk.
THEOREM EngineControlEvidence == EngineSpec => []ControlEvidenceIntact
BY EngineInvariant, PTL DEF EngineInv

\* Only a requested cancellation is ever reported, by whichever path.
THEOREM EngineCancelRequested == EngineSpec => []CancelIsRequested
<1>1. EngineInv => CancelIsRequested
  BY DEF EngineInv, JobOK, CancelIsRequested, Desired
<1> QED BY <1>1, EngineInvariant, PTL

\* Registered evidence of a clean process tree is true, and stays true.
THEOREM EngineCleanEvidence == EngineSpec => []CleanEvidenceIsTrue
<1>1. EngineInv => CleanEvidenceIsTrue
  BY DEF EngineInv, JobOK, CleanEvidenceIsTrue, Gone
<1> QED BY <1>1, EngineInvariant, PTL

\* A Runner launched after the cancellation of its Attempt spawns nothing.
THEOREM EngineCancelPrevents == EngineSpec => CancelPreventsPayload
<1>1. EngineInv /\ [EngineNext]_engineVars =>
        [\A j \in Jobs : hosts[j].runner = "started" /\ hosts'[j].runner = "cleared"
                           => attempts[j].state # "cancelled"]_engineVars
  BY CancelPreventsStep
<1> QED BY <1>1, EngineInvariant, PTL DEF EngineSpec, CancelPreventsPayload

\* The capacity of a bound orphan returns only after its process tree.
THEOREM EngineOrphanVacates == EngineSpec => OrphanVacates
<1>1. EngineInv /\ [EngineNext]_engineVars =>
        [\A j \in Jobs :
            /\ attempts[j].state = "orphaned" /\ attempts'[j].state \in Conclusive
            /\ attempts[j].owner # None
            => ~UnitIsActive(j) /\ ~CgroupPopulated(j)]_engineVars
  BY OrphanVacatesStep
<1> QED BY <1>1, EngineInvariant, PTL DEF EngineSpec, OrphanVacates

\* Every step of the Engine is at most one transaction of the Registry.
THEOREM EngineTransacts == EngineSpec => Transactions
<1>1. EngineInit => Init
  BY DEF EngineInit
<1>2. EngineInv /\ [EngineNext]_engineVars => [Transaction]_registryVars
  BY EngineStep
<1> QED BY <1>1, <1>2, EngineInvariant, PTL DEF EngineSpec, Transactions

\* So the guarantees of the Registry are guarantees of the Engine: Doctor's
\* conditions hold whatever a crash interrupts,
THEOREM EngineAgrees == EngineSpec => []RuntimeInvariants
BY EngineTransacts, AlwaysConsistent, PTL DEF Consistent

\* a Workspace has one holder of capacity,
THEOREM EngineExclusive == EngineSpec => []WorkspaceExclusive
BY EngineTransacts, AlwaysExclusive, PTL

\* the holders never outnumber the greatest limit one was admitted under,
THEOREM EngineCapacity == EngineSpec => []GlobalCapacity
BY EngineTransacts, AlwaysCapacity, PTL

\* conclusive verdicts and their evidence are final,
THEOREM EngineVerdictFinal == EngineSpec => VerdictFinal
BY EngineTransacts, AlwaysVerdictFinal, PTL

\* a committed stop is never dropped,
THEOREM EngineStopIsCommitted == EngineSpec => StopIsCommitted
BY EngineTransacts, AlwaysStopIsCommitted, PTL

\* nothing a thread decides on changes under an unchanged row version,
THEOREM EngineRowVersionGuards == EngineSpec => RowVersionGuards
BY EngineTransacts, AlwaysRowVersionGuards, PTL

\* and the Engine implements the Registry's abstract contract.
THEOREM EngineImplementsContract == EngineSpec => ImplementsContract
BY EngineTransacts, AlwaysImplementsContract, PTL
=============================================================================
