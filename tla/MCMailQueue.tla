----------------------------- MODULE MCMailQueue -----------------------------
(***************************************************************************)
(* Model checking of MailQueue: one or two workers, one client that resets   *)
(* accounts, one user, who may be deactivated.                               *)
(***************************************************************************)
EXTENDS MailQueue, TLC

\* Workers are alike; no run with a liveness property uses this.
AlikeWorkers == Permutations(Workers)
=============================================================================
