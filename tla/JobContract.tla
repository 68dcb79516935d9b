---------------------------- MODULE JobContract ----------------------------
(***************************************************************************)
(* What the Registry promises the clients of the Runtime, with no tables,  *)
(* versions or reservations: a Job is admitted once, into a Workspace no   *)
(* other occupying Job uses; it may be reported orphaned while it still    *)
(* occupies the Workspace; it gets one conclusive verdict, which is final, *)
(* and vacates the Workspace in the same step.                             *)
(***************************************************************************)
CONSTANTS Jobs, Workspaces, Verdicts, None

VARIABLES
    place,    \* the Workspace of an admitted Job, None before admission
    verdict   \* None, "orphaned" or a conclusive verdict

contractVars == <<place, verdict>>

Occupies(j) == place[j] # None /\ verdict[j] \in {None, "orphaned"}

Init ==
    /\ place = [j \in Jobs |-> None]
    /\ verdict = [j \in Jobs |-> None]

Admit(j, w) ==
    /\ place[j] = None
    /\ \A i \in Jobs : Occupies(i) => place[i] # w
    /\ place' = [place EXCEPT ![j] = w]
    /\ UNCHANGED verdict

Suspect(j) ==
    /\ place[j] # None /\ verdict[j] = None
    /\ verdict' = [verdict EXCEPT ![j] = "orphaned"]
    /\ UNCHANGED place

Conclude(j, outcome) ==
    /\ Occupies(j)
    /\ verdict' = [verdict EXCEPT ![j] = outcome]
    /\ UNCHANGED place

Next ==
    \E j \in Jobs :
        \/ \E w \in Workspaces : Admit(j, w)
        \/ Suspect(j)
        \/ \E outcome \in Verdicts : Conclude(j, outcome)

Spec == Init /\ [][Next]_contractVars
=============================================================================
