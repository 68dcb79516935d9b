----------------------------- MODULE Workspaces -----------------------------
(* Git Workspaces: a record file, a worktree directory, Git's own worktree  *)
(* entry with its HEAD, a rescue ref for commits that only the worktree     *)
(* held, and caches.  Opening and closing take several steps over these,    *)
(* under the lifecycle lock of one Runtime process; a step may fail, the    *)
(* process may crash between two steps, and the directory may be lost.      *)
EXTENDS Naturals, FiniteSets

CONSTANTS
    Workspaces,  \* Workspace identities
    Upstream,    \* the repository outside every Workspace
    None,        \* a missing digest, commit or answer
    MaxCommit,   \* bound: commits made by Jobs, per Workspace
    WorkspaceFaults       \* which of "crash", "fail", "lose" may happen

ASSUME WorkspaceAssumption ==
    /\ Upstream \notin Workspaces
    /\ None \notin Workspaces \cup {Upstream} /\ None \notin 0 .. MaxCommit
    /\ MaxCommit \in Nat

VARIABLES
    record,   \* record[w]: identity record, open or a closed tombstone
    dirs,     \* Workspaces whose worktree directory exists
    dirty,    \* Workspaces with uncommitted or untracked paths (when last seen)
    tip,      \* tip[w]: HEAD of the worktree; 0 is the revision it was opened at
    linked,   \* Workspaces that Git still lists as worktrees
    rescue,   \* rescue[w]: refs/ordivon/closed/<w>
    caches,   \* Workspaces with cache, build or temporary directories
    source,   \* source[w]: where the recorded sourceRepo lies
    common,   \* common[w]: where the Git common directory lies
    active,   \* Workspaces an active or held Job owns
    op,       \* the holder of the lifecycle lock and its local variables
    answer    \* the last answer of workspace.close

workspaceVars == <<record, dirs, dirty, tip, linked, rescue, caches, source, common, active, op, answer>>

Base == 0
NoOperation == [at |-> "idle"]
NoRecord == [state |-> "none", digest |-> None]
OpenRecord == [state |-> "open", digest |-> None]
ClosedRecord(d) == [state |-> "closed", digest |-> d]

Commits == 0..MaxCommit
Digests == [head : Commits, dirty : BOOLEAN]
Places == Workspaces \cup {Upstream}

Present(w) == w \in dirs
SourceState(w) == [head |-> tip[w], dirty |-> w \in dirty]

\* A directory exists while its Workspace does; a repository with it.
Exists(place) == place = Upstream \/ (place \in Workspaces /\ Present(place))

Authority(w) == IF Present(w) /\ w \in linked THEN common[w] ELSE source[w]

\* Open Workspaces whose Git authority lies under what closing w would remove;
\* a directory that does not exist is not removed.
WorkspaceCleanupDependents(w) ==
    {d \in Workspaces \ {w} : Present(w) /\ record[d].state = "open" /\ Authority(d) = w}

RecoverFirstPorcelainLine(w) ==
    CASE ~Exists(source[w])   -> None
      [] rescue[w] # None     -> rescue[w]
      [] w \in linked         -> w
      [] OTHER                -> None

\* recover_missing_workspace_head: the rescue ref first, then the worktree list.
RecoverMissingWorkspaceHead(w) ==
    CASE ~Exists(source[w])   -> None
      [] rescue[w] # None     -> rescue[w]
      [] w \in linked         -> tip[w]
      [] OTHER                -> None

WorkspaceInit ==
    /\ record = [w \in Workspaces |-> NoRecord]
    /\ dirs = {} /\ dirty = {}
    /\ tip = [w \in Workspaces |-> Base]
    /\ linked = {}
    /\ rescue = [w \in Workspaces |-> None]
    /\ caches = {}
    /\ source = [w \in Workspaces |-> Upstream]
    /\ common = [w \in Workspaces |-> Upstream]
    /\ active = {}
    /\ op = NoOperation
    /\ answer = None

-----------------------------------------------------------------------------
(* Opening: worktree add, then the record; a failure in between removes the *)
(* worktree again, as far as Git lets it.                                   *)

\* From p's own worktree the common directory is p's; a repository that lies
\* inside p's directory is its own.
OpenAdd(w, p, nested) ==
    /\ op = NoOperation
    /\ record[w] = NoRecord /\ ~Present(w) /\ w \notin linked
    /\ p # w /\ Exists(p)
    /\ p \in linked \cup {Upstream} \/ nested
    /\ source' = [source EXCEPT ![w] = p]
    /\ common' = [common EXCEPT ![w] =
                    IF p = Upstream \/ nested THEN p ELSE common[p]]
    /\ dirs' = dirs \cup {w}
    /\ linked' = linked \cup {w}
    /\ op' = [at |-> "open", w |-> w]
    /\ UNCHANGED <<record, dirty, tip, rescue, caches, active, answer>>

OpenWriteRecord ==
    /\ op.at = "open"
    /\ record' = [record EXCEPT ![op.w] = OpenRecord]
    /\ op' = NoOperation
    /\ UNCHANGED <<dirs, dirty, tip, linked, rescue, caches, source, common, active, answer>>

OpenUndo ==
    /\ op.at = "open" /\ "fail" \in WorkspaceFaults
    /\ \/ /\ dirs' = dirs \ {op.w}
          /\ linked' = linked \ {op.w}
       \/ UNCHANGED <<dirs, linked>>
    /\ op' = NoOperation
    /\ UNCHANGED <<record, dirty, tip, rescue, caches, source, common, active, answer>>

-----------------------------------------------------------------------------
(* Jobs work in an open Workspace: they dirty it, commit, and fill caches.  *)

Admit(w) ==
    /\ op = NoOperation
    /\ record[w].state = "open" /\ Present(w) /\ w \notin active
    /\ active' = active \cup {w}
    /\ caches' = caches \cup {w}
    /\ UNCHANGED <<record, dirs, dirty, tip, linked, rescue, source, common, op, answer>>

Work(w) ==
    /\ w \in active /\ Present(w) /\ w \in linked
    /\ \/ dirty' = dirty \cup {w} /\ UNCHANGED tip
       \/ /\ tip[w] < MaxCommit
          /\ tip' = [tip EXCEPT ![w] = @ + 1]
          /\ dirty' = dirty \ {w}
    /\ UNCHANGED <<record, dirs, linked, rescue, caches, source, common, active, op, answer>>

FinishJob(w) ==
    /\ w \in active
    /\ active' = active \ {w}
    /\ UNCHANGED <<record, dirs, dirty, tip, linked, rescue, caches, source, common, op, answer>>

-----------------------------------------------------------------------------
(* Closing.  Every early return answers and gives the lock back.            *)

Closing(f, e, w) == [at |-> "close", w |-> w, force |-> f, expected |-> e,
                     digest |-> None, head |-> None, missing |-> FALSE]

AnswerClose(result) ==
    /\ op' = NoOperation
    /\ answer' = [w |-> op.w, expected |-> op.expected, result |-> result]

CloseOverDependents(w, f, e) ==
    /\ op = NoOperation
    /\ w \notin active
    /\ op' = Closing(f, e, w)
    /\ answer' = None
    /\ UNCHANGED <<record, dirs, dirty, tip, linked, rescue, caches, source, common, active>>

CloseWorkspace(w, f, e) ==
    /\ op = NoOperation
    /\ w \notin active
    /\ WorkspaceCleanupDependents(w) = {}
    /\ op' = Closing(f, e, w)
    /\ answer' = None
    /\ UNCHANGED <<record, dirs, dirty, tip, linked, rescue, caches, source, common, active>>

\* No record: an orphan directory is refused, otherwise only caches remain.
CloseAbsent ==
    /\ op.at = "close" /\ record[op.w].state = "none"
    /\ \/ Present(op.w) /\ AnswerClose("corrupt") /\ UNCHANGED caches
       \/ /\ ~Present(op.w)
          /\ caches' = caches \ {op.w}
          /\ AnswerClose(IF op.expected # None THEN "mismatch" ELSE "already_absent")
    /\ UNCHANGED <<record, dirs, dirty, tip, linked, rescue, source, common, active>>

CloseClosed ==
    /\ op.at = "close" /\ record[op.w].state = "closed"
    /\ \/ /\ op.expected \notin {None, record[op.w].digest}
          /\ AnswerClose("mismatch") /\ UNCHANGED caches
       \/ /\ op.expected \in {None, record[op.w].digest}
          /\ caches' = caches \ {op.w}
          /\ AnswerClose("already_closed")
    /\ UNCHANGED <<record, dirs, dirty, tip, linked, rescue, source, common, active>>

CloseMissing ==
    /\ op.at = "close" /\ record[op.w].state = "open" /\ ~Present(op.w)
    /\ op' = [op EXCEPT !.at = "rescue", !.missing = TRUE,
                        !.head = RecoverMissingWorkspaceHead(op.w)]
    /\ UNCHANGED <<record, dirs, dirty, tip, linked, rescue, caches, source, common, active, answer>>

ClosePresent ==
    /\ op.at = "close" /\ record[op.w].state = "open" /\ Present(op.w)
    /\ LET d == SourceState(op.w) IN
       \/ op.expected \notin {None, d} /\ AnswerClose("mismatch")
       \/ op.expected \in {None, d} /\ d.dirty /\ ~op.force /\ AnswerClose("dirty")
       \/ /\ op.expected \in {None, d} /\ (op.force \/ ~d.dirty)
          /\ op' = [op EXCEPT !.at = "rescue", !.digest = d, !.head = d.head]
          /\ UNCHANGED answer
    /\ UNCHANGED <<record, dirs, dirty, tip, linked, rescue, caches, source, common, active>>

\* Commits beyond the opening revision get a ref, once and for one commit.
EnsureRescueRefAnyway ==
    /\ op.at = "rescue"
    /\ rescue' = IF op.head \in {None, Base} \/ rescue[op.w] # None
                 THEN rescue ELSE [rescue EXCEPT ![op.w] = op.head]
    /\ IF op.missing /\ op.expected # None
       THEN AnswerClose("mismatch")
       ELSE op' = [op EXCEPT !.at = "clean"] /\ UNCHANGED answer
    /\ UNCHANGED <<record, dirs, dirty, tip, linked, caches, source, common, active>>

EnsureRescueRefOnce ==
    /\ op.at = "rescue"
    /\ op.missing \/ Present(op.w)
    /\ \/ /\ op.head \notin {None, Base} /\ rescue[op.w] # None
          /\ AnswerClose("mismatch") /\ UNCHANGED rescue
       \/ /\ op.head \in {None, Base} \/ rescue[op.w] = None
          /\ rescue' = IF op.head \in {None, Base} THEN rescue
                       ELSE [rescue EXCEPT ![op.w] = op.head]
          /\ IF op.missing /\ op.expected # None
             THEN AnswerClose("mismatch")
             ELSE op' = [op EXCEPT !.at = "clean"] /\ UNCHANGED answer
    /\ UNCHANGED <<record, dirs, dirty, tip, linked, caches, source, common, active>>

EnsureRescueRef ==
    /\ op.at = "rescue"
    /\ op.missing \/ Present(op.w)
    /\ \/ /\ op.head \notin {None, Base} /\ rescue[op.w] \notin {None, op.head}
          /\ AnswerClose("mismatch") /\ UNCHANGED rescue
       \/ /\ op.head \in {None, Base} \/ rescue[op.w] \in {None, op.head}
          /\ rescue' = IF op.head \in {None, Base} THEN rescue
                       ELSE [rescue EXCEPT ![op.w] = op.head]
          /\ IF op.missing /\ op.expected # None
             THEN AnswerClose("mismatch")
             ELSE op' = [op EXCEPT !.at = "clean"] /\ UNCHANGED answer
    /\ UNCHANGED <<record, dirs, dirty, tip, linked, caches, source, common, active>>

CleanupWorkspaceCaches ==
    /\ op.at = "clean"
    /\ caches' = caches \ {op.w}
    /\ op' = [op EXCEPT !.at = IF op.missing THEN "tombstone" ELSE "remove"]
    /\ UNCHANGED <<record, dirs, dirty, tip, linked, rescue, source, common, active, answer>>

\* git worktree remove: the directory goes first, Git's entry after it.  A
\* repository inside the directory goes with it.
RemoveTree ==
    /\ op.at = "remove" /\ Present(op.w)
    /\ dirs' = dirs \ {op.w}
    /\ LET inside == {v \in Workspaces : common[v] = op.w} IN
       /\ linked' = linked \ inside
       /\ rescue' = [v \in Workspaces |-> IF v \in inside THEN None ELSE rescue[v]]
    /\ op' = [op EXCEPT !.at = "unlink"]
    /\ UNCHANGED <<record, dirty, tip, caches, source, common, active, answer>>

Unlink ==
    /\ op.at = "unlink"
    /\ linked' = linked \ {op.w}
    /\ op' = [op EXCEPT !.at = "tombstone"]
    /\ UNCHANGED <<record, dirs, dirty, tip, rescue, caches, source, common, active, answer>>

WriteClosedWorkspaceRecord ==
    /\ op.at = "tombstone"
    /\ record' = [record EXCEPT ![op.w] = ClosedRecord(op.digest)]
    /\ AnswerClose(IF op.missing THEN "recovered_missing" ELSE "removed")
    /\ UNCHANGED <<dirs, dirty, tip, linked, rescue, caches, source, common, active>>

\* A Git command or a file operation fails; the close answers with the error.
StepFails ==
    /\ "fail" \in WorkspaceFaults \/ (op.at \in {"rescue", "remove"} /\ ~op.missing /\ ~Present(op.w))
    /\ op.at \in {"rescue", "clean", "remove", "tombstone"}
    /\ AnswerClose("failed")
    /\ UNCHANGED <<record, dirs, dirty, tip, linked, rescue, caches, source, common, active>>

-----------------------------------------------------------------------------
CloseCrash ==
    /\ "crash" \in WorkspaceFaults /\ op # NoOperation
    /\ op' = NoOperation /\ answer' = None
    /\ UNCHANGED <<record, dirs, dirty, tip, linked, rescue, caches, source, common, active>>

\* Somebody deletes the directory; Git's entry and its HEAD stay.
Lose(w) ==
    /\ "lose" \in WorkspaceFaults /\ Present(w)
    /\ ~\E v \in Workspaces : common[v] = w
    /\ dirs' = dirs \ {w}
    /\ UNCHANGED <<record, dirty, tip, linked, rescue, caches, source, common, active, op, answer>>

CloseStep ==
    \/ CloseAbsent \/ CloseClosed \/ CloseMissing \/ ClosePresent
    \/ EnsureRescueRef \/ CleanupWorkspaceCaches
    \/ RemoveTree \/ Unlink \/ WriteClosedWorkspaceRecord \/ StepFails

WorkspaceNext ==
    \/ \E w \in Workspaces :
        \/ \E p \in Places, nested \in BOOLEAN : OpenAdd(w, p, nested)
        \/ Admit(w) \/ Work(w) \/ FinishJob(w) \/ Lose(w)
        \/ \E f \in BOOLEAN, e \in Digests \cup {None} : CloseWorkspace(w, f, e)
    \/ OpenWriteRecord \/ OpenUndo \/ CloseStep \/ CloseCrash

\* The client keeps asking for a forced close, a step in flight goes on, Jobs
\* end, and at some time the process stops crashing and Git stops failing.
WorkspaceFairness ==
    /\ <>[][~CloseCrash /\ ~StepFails]_workspaceVars
    /\ WF_workspaceVars(CloseStep) /\ WF_workspaceVars(OpenWriteRecord)
    /\ \A w \in Workspaces :
        /\ SF_workspaceVars(CloseWorkspace(w, TRUE, None))
        /\ WF_workspaceVars(FinishJob(w))

WorkspaceSpec == WorkspaceInit /\ [][WorkspaceNext]_workspaceVars
WorkspaceFairSpec == WorkspaceSpec /\ WorkspaceFairness

-----------------------------------------------------------------------------
(* Properties.                                                              *)

Ats == {"close", "rescue", "clean", "remove", "unlink", "tombstone"}
CloseResults == {"corrupt", "mismatch", "dirty", "failed", "already_absent",
            "already_closed", "removed", "recovered_missing"}

\* Records, directories and the lock holder's variables are what the code
\* writes there; a lock holder's digest is taken before it removes anything.
WorkspaceTypeOK ==
    /\ record \in [Workspaces -> {NoRecord, OpenRecord}
                                 \cup {ClosedRecord(d) : d \in Digests \cup {None}}]
    /\ dirs \subseteq Workspaces /\ dirty \subseteq Workspaces
    /\ tip \in [Workspaces -> Commits]
    /\ rescue \in [Workspaces -> Commits \cup {None}]
    /\ linked \subseteq Workspaces /\ caches \subseteq Workspaces /\ active \subseteq Workspaces
    /\ source \in [Workspaces -> Places] /\ common \in [Workspaces -> Places]
    /\ op \in {NoOperation} \cup [at : {"open"}, w : Workspaces]
              \cup [at : Ats, w : Workspaces, force : BOOLEAN, missing : BOOLEAN,
                    expected : Digests \cup {None}, digest : Digests \cup {None},
                    head : Commits \cup {None}]
    /\ answer \in {None} \cup [w : Workspaces, expected : Digests \cup {None}, result : CloseResults]

\* What a tombstone says is so (workspace_close_preserves_changed_head and
\* the missing-directory recovery): directory and caches are gone, and the
\* commit the worktree stood at is the opening revision or the rescue ref
\* holds it, whatever failed or crashed on the way and however often the
\* close was repeated, as long as the repository itself is there.
TombstoneTrue ==
    \A w \in Workspaces :
        record[w].state = "closed" =>
            /\ ~Present(w) /\ w \notin caches
            /\ Exists(common[w]) => tip[w] \in {Base, rescue[w]}

\* No close takes the Git authority of an open Workspace away: a recorded
\* Workspace with a directory stays a working tree of a repository.
AuthorityAlive ==
    \A w \in Workspaces : record[w].state = "open" /\ Present(w) => w \in linked

\* A close that keeps being asked for gets through, crashes included, unless
\* an interrupted one left a rescue ref behind for another commit or a
\* dependent Workspace stays open.
Stuck(w) == rescue[w] \notin {None, tip[w]} \/ WorkspaceCleanupDependents(w) # {}
CloseConverges ==
    \A w \in Workspaces : ~<>[](record[w].state = "open" /\ ~Stuck(w))
=============================================================================
