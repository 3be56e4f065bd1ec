----------------------------- MODULE MCOperatorDesk -----------------------------
(* OperatorDesk on a small instance. *)
EXTENDS OperatorDesk

CONSTANTS o1, o2, u1, u2

================================================================================
