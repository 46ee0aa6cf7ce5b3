----------------------------- MODULE MCLockFile -----------------------------
(* Three writers of one file; all of them may be killed. *)
EXTENDS LockFile

CONSTANTS p1, p2, p3

MCProcs    == {p1, p2, p3}
MCCrashers == {p1, p2, p3}

(* For the race run: one process dies, the others go on. *)
OneCrasher == {p1}
=============================================================================
