-------------------------- MODULE MCLockContainer --------------------------
(* Two threads on one container of each class, with two items to push. *)
EXTENDS LockContainer
=============================================================================
