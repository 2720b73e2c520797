------------------------------- MODULE Mutex -------------------------------
(***************************************************************************)
(* What a lock promises: a process enters only when nobody is inside, and  *)
(* leaves.  AuditLock implements this specification when its processes are *)
(* prompt; AuditLog is written on top of it.                               *)
(***************************************************************************)
CONSTANT Procs      \* the processes that use the lock

VARIABLE inside     \* the processes between taking the lock and giving it back

Init == inside = {}

Enter(p) == inside = {} /\ inside' = {p}

Leave(p) == inside = {p} /\ inside' = {}

Next == \E p \in Procs : Enter(p) \/ Leave(p)

Spec == Init /\ [][Next]_inside
=============================================================================
