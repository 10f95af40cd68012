-------------------------- MODULE MCResumePipeline --------------------------
(***************************************************************************)
(* ResumePipeline on a small instance: one application, two faults and one *)
(* action of the staff.                                                    *)
(***************************************************************************)
EXTENDS ResumePipeline
=============================================================================
