----------------------------- MODULE Identities -----------------------------
(* The identities the Registry and the host share.                         *)
CONSTANTS
    Jobs,  \* preallocated Job, Attempt, reservation and unit identities
    None   \* SQL NULL, a missing file
=============================================================================
