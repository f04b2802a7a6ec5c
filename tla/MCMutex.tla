------------------------------ MODULE MCMutex ------------------------------
(***************************************************************************)
(* Two settings of the mutex.  Both: holders that await and tasks that mix *)
(* the operations.  Several cores with everything the code allows, one     *)
(* call each; and the kernel's one core, where a task calls twice and so   *)
(* may take the lock from under a waiter that was just notified.           *)
(***************************************************************************)
EXTENDS Mutex

MCSettings == {
  [cores |-> 2, modes |-> {"lock", "try_lock", "spin_lock"}, spurious |-> TRUE,
   calls |-> 1],
  [cores |-> 1, modes |-> {"lock", "try_lock"}, spurious |-> FALSE, calls |-> 2] }
=============================================================================
