--------------------------- MODULE BatchMutation ---------------------------
(* workspace.mutate: one batch of digest-guarded file writes.  All targets  *)
(* are read and checked first, then written one after the other through a   *)
(* temporary file and a rename; a failure rolls the earlier ones back.  The *)
(* lifecycle lock keeps Jobs and other batches out, not an editor outside   *)
(* the Runtime.  A content stands for the digest of its bytes.              *)
EXTENDS Naturals, Sequences, FiniteSets, SequencesExt

CONSTANTS
    Paths,      \* workspace-relative paths
    Contents,   \* file contents the batches ask for
    Edited,     \* what an editor outside the Runtime writes
    Absent,     \* no file at the path
    MaxBatch,   \* bound: mutations of one batch
    MutationFaults      \* which of "early", "late", "crash", "edit" may happen

ASSUME MutationAssumption == MaxBatch \in Nat /\ Edited \notin Contents

VARIABLES
    files,     \* files[p]: content, or Absent
    initial,   \* files when the batch was accepted
    batch,     \* the mutations, in order: [path, expected, after]
    results,   \* digests the mutations written so far were seen to have
    phase,     \* "prepare", "write", "rename", "digest", "rollback", "restore" or "over"
    reply,     \* what the client was told
    edits,     \* paths the editor touched since the batch began
    raced      \* those it touched between two steps that write or restore the file

mutationVars == <<files, initial, batch, results, phase, reply, edits, raced>>

States == Contents \cup {Absent, Edited}
Mutation == [path : Paths, expected : States, after : Contents]

\* validate_shape refuses a batch that names a path twice, or none.
Batches == {b \in SeqOf(Mutation, MaxBatch) :
              b # <<>> /\ \A i, j \in DOMAIN b : i # j => b[i].path # b[j].path}

MutationInit ==
    /\ files = [p \in Paths |-> Absent] /\ initial = files
    /\ batch = <<>> /\ results = <<>> /\ phase = "over" /\ reply = "none"
    /\ edits = {} /\ raced = {}

MutateWorkspace(b) ==
    /\ phase = "over"
    /\ batch' = b /\ results' = <<>> /\ phase' = "prepare" /\ reply' = "none"
    /\ initial' = files /\ edits' = {} /\ raced' = {}
    /\ UNCHANGED files

\* The first loop: an existing target needs its digest, a new one has none.
PrepareBatch ==
    /\ phase = "prepare"
    /\ LET matches == \A i \in DOMAIN batch : files[batch[i].path] = batch[i].expected
       IN  /\ phase' = IF matches THEN "write" ELSE "over"
           /\ reply' = IF matches THEN reply ELSE "refused"
    /\ UNCHANGED <<files, initial, batch, results, edits, raced>>

done == Len(results)
Current == batch[done + 1]

\* A target is not a file of the Workspace, REPLACE_EXACT does not match once,
\* or the result is too long.
PrepareRefused ==
    /\ phase = "prepare" /\ "early" \in MutationFaults
    /\ phase' = "over" /\ reply' = "refused"
    /\ UNCHANGED <<files, initial, batch, results, edits, raced>>

\* write_workspace_text compares the digest once more, then renames.
WriteChecked ==
    /\ phase = "write" /\ done < Len(batch)
    /\ files[Current.path] = Current.expected
    /\ phase' = "rename"
    /\ UNCHANGED <<files, initial, batch, results, reply, edits, raced>>

WriteRenamed ==
    /\ phase = "rename"
    /\ files' = [files EXCEPT ![Current.path] = Current.after]
    /\ phase' = "digest"
    /\ UNCHANGED <<initial, batch, results, reply, edits, raced>>

\* The result is read back from the path, whatever lies there by then.
WriteDigested ==
    /\ phase = "digest"
    /\ results' = Append(results, files[Current.path])
    /\ phase' = "write"
    /\ UNCHANGED <<files, initial, batch, reply, edits, raced>>

BatchWritten ==
    /\ phase = "write" /\ done = Len(batch)
    /\ phase' = "over" /\ reply' = "applied"
    /\ UNCHANGED <<files, initial, batch, results, edits, raced>>

\* The digest moved under the batch, or no temporary file could be written.
WriteRefused ==
    /\ \/ /\ phase = "write" /\ done < Len(batch)
          /\ files[Current.path] # Current.expected
       \/ phase = "rename" /\ "early" \in MutationFaults
    /\ phase' = "rollback"
    /\ UNCHANGED <<files, initial, batch, results, reply, edits, raced>>

\* The rename is done, then the directory sync, the permissions or the digest
\* of the result fail: the call reports an error for a file it has replaced.
WriteReportsLate ==
    /\ phase = "digest" /\ "late" \in MutationFaults
    /\ phase' = "rollback"
    /\ UNCHANGED <<files, initial, batch, results, reply, edits, raced>>

\* Newest first.  A file that existed is put back by write_workspace_text,
\* which compares it with the digest the batch's own write was seen to have.
RestoreUnchecked ==
    /\ phase = "rollback" /\ done > 0 /\ batch[done].expected # Absent
    /\ phase' = "restore"
    /\ UNCHANGED <<files, initial, batch, results, reply, edits, raced>>

RestoreChecked ==
    /\ phase = "rollback" /\ done > 0 /\ batch[done].expected # Absent
    /\ files[batch[done].path] = Last(results)
    /\ phase' = "restore"
    /\ UNCHANGED <<files, initial, batch, results, reply, edits, raced>>

\* Then it renames; the permissions or the digest may still fail, which ends
\* the rollback although this file is back.
RestoreRenamed ==
    /\ phase = "restore"
    /\ files' = [files EXCEPT ![batch[done].path] = batch[done].expected]
    /\ results' = Front(results)
    /\ \/ phase' = "rollback" /\ UNCHANGED reply
       \/ "late" \in MutationFaults /\ phase' = "over" /\ reply' = "incomplete"
    /\ UNCHANGED <<initial, batch, edits, raced>>

\* A file the batch created is removed, whatever it holds by then.
RollbackRemoves ==
    /\ phase = "rollback" /\ done > 0 /\ batch[done].expected = Absent
    /\ files' = [files EXCEPT ![batch[done].path] = Absent]
    /\ results' = Front(results)
    /\ UNCHANGED <<initial, batch, phase, reply, edits, raced>>

RollbackFails ==
    /\ \/ /\ phase = "rollback" /\ done > 0 /\ batch[done].expected # Absent
          /\ files[batch[done].path] # Last(results)
       \/ /\ phase \in {"rollback", "restore"} /\ done > 0 /\ "early" \in MutationFaults
    /\ phase' = "over" /\ reply' = "incomplete"
    /\ UNCHANGED <<files, initial, batch, results, edits, raced>>

FinishesEarly ==
    /\ phase = "rollback"
    /\ phase' = "over" /\ reply' = "refused"
    /\ UNCHANGED <<files, initial, batch, results, edits, raced>>

RolledBack ==
    /\ phase = "rollback" /\ done = 0
    /\ phase' = "over" /\ reply' = "refused"
    /\ UNCHANGED <<files, initial, batch, results, edits, raced>>

MutationCrash ==
    /\ "crash" \in MutationFaults /\ phase # "over"
    /\ phase' = "over"
    /\ UNCHANGED <<files, initial, batch, results, reply, edits, raced>>

Edit(p) ==
    /\ "edit" \in MutationFaults /\ edits = {} /\ phase # "over"
    /\ files' = [files EXCEPT ![p] = Edited]
    /\ edits' = {p}
    /\ raced' = IF \/ phase \in {"rename", "digest"} /\ Current.path = p
                   \/ phase = "restore" /\ batch[done].path = p
                THEN {p} ELSE {}
    /\ UNCHANGED <<initial, batch, results, phase, reply>>

MutationNext ==
    \/ \E b \in Batches : MutateWorkspace(b)
    \/ PrepareBatch \/ PrepareRefused \/ WriteChecked \/ WriteRenamed \/ WriteDigested
    \/ BatchWritten \/ WriteRefused \/ WriteReportsLate
    \/ RestoreChecked \/ RestoreRenamed \/ RollbackRemoves \/ RollbackFails
    \/ RolledBack \/ MutationCrash
    \/ \E p \in Paths : Edit(p)

MutationSpec == MutationInit /\ [][MutationNext]_mutationVars

-----------------------------------------------------------------------------
\* The count a rollback goes by is true: the first `done` mutations, and no
\* others, are what it has to undo.
MutationTypeOK ==
    /\ files \in [Paths -> States] /\ results \in SeqOf(States, MaxBatch) /\ done <= Len(batch)
    /\ phase \in {"prepare", "write", "rename", "digest", "rollback", "restore", "over"}
    /\ reply \in {"none", "applied", "refused", "incomplete"}
    /\ raced \subseteq edits /\ edits \subseteq Paths
    /\ \A i \in 1..done : files[batch[i].path] = batch[i].after \/ batch[i].path \in edits

\* A refusal leaves every file as it was, but for the editor's work and for
\* the one file whose write reported its error after the rename.
RefusalTouchesOneFile ==
    reply = "refused" =>
        \E late \in SUBSET Paths :
            /\ Cardinality(late) <= 1
            /\ late # {} => "late" \in MutationFaults
            /\ \A p \in Paths \ (late \cup edits) : files[p] = initial[p]

\* A foreign edit the batch did not expect is overwritten in three windows
\* only: between the steps that write its file, between the comparison and the
\* rename with which a rollback puts the file back, and where a rollback
\* removes a file the batch created, which it does without comparing.
EditOverwrittenOnlyRaced ==
    [][\A p \in Paths :
        files[p] = Edited /\ files'[p] # Edited =>
            \/ p \in raced
            \/ \E i \in DOMAIN batch : batch[i].path = p /\ batch[i].expected = Edited
            \/ phase = "rollback" /\ batch[done].path = p /\ batch[done].expected = Absent]_mutationVars
=============================================================================
