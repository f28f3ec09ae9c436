------------------------------ MODULE MCJobQueue ------------------------------
(***************************************************************************)
(* An instance of JobQueue: everything that may go wrong with a job.       *)
(***************************************************************************)
EXTENDS JobQueue

=============================================================================
