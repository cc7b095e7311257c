----------------------------- MODULE AgentLock ------------------------------
(***************************************************************************)
(* What Executor::start_run promises about one agent: the right to run is  *)
(* a token.  A run takes it only when nobody holds it, so it changes hands *)
(* only through being free, whoever it is that finds the holder's run over *)
(* - its executor, its own report, or a later fire past its deadline.      *)
(***************************************************************************)
CONSTANTS
    Runs,      \* run ids
    Nobody     \* the token is free

VARIABLE holder    \* the run that holds the token

LockInit == holder = Nobody

Acquire(r) == holder = Nobody /\ holder' = r

Release == holder # Nobody /\ holder' = Nobody

LockNext == Release \/ \E r \in Runs : Acquire(r)

LockSpec == LockInit /\ [][LockNext]_holder
=============================================================================
