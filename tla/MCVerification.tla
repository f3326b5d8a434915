--------------------------- MODULE MCVerification ---------------------------
(* Three decisions: the first is told to the submission alone, the third by an    *)
(* event without the holder's name.  One submission at a time, one background run *)
(* and the job.                                                                   *)
EXTENDS Verification
=============================================================================
