------------------------- MODULE MCAccountDeletion -------------------------
(***************************************************************************)
(* AccountDeletion on small instances, and a promise of the code's own     *)
(* comments which its behaviours break.                                    *)
(***************************************************************************)
EXTENDS AccountDeletion, TLC

\* Step 7 soft-deletes the user record and "maintains isDeleted/deletedAt
\* audit trail" (account-deletion-queue.processor.ts:135).  So once the job of
\* an anonymised account is over, the user record is soft-deleted.
CompletedDeletionIsSoftDeleted ==
    anonymised /\ job.state = "none" => deleted
=============================================================================
