-------------------------------- MODULE MCRunAll --------------------------------
(* RunAll with the two consumers of one queue. *)
EXTENDS RunAll

CONSTANTS t1, t2, t3, analyzer, outreach
MCPrograms == {"run_all", "run_worker", "run_dry", "auth"}

================================================================================
