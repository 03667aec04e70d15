--------------------------- MODULE ExclusiveLock ---------------------------
(***************************************************************************)
(* What a directory lock promises its callers, without the file system: a  *)
(* process goes inside only by acquiring a lock that has no holder, and    *)
(* stays the holder until it leaves or crashes; only a dead holder may be  *)
(* dispossessed, by anybody and never by age.  DirLock and, with a process  *)
(* that is a wrapper and its command, KeyedLease implement this             *)
(* specification.                                                          *)
(***************************************************************************)
CONSTANTS Procs, NoOwner   \* NoOwner is no process

VARIABLES
    holder,     \* the process whose lock it is, or NoOwner
    inside,     \* running processes between their take and their release
    running     \* the processes that have not crashed

vars == <<holder, inside, running>>

\* A process that crashed before may have left its lock.
Init ==
    /\ inside = {}
    /\ running \subseteq Procs
    /\ holder \in (Procs \ running) \cup {NoOwner}

Acquire(p) ==
    /\ p \in running
    /\ holder = NoOwner
    /\ holder' = p
    /\ inside' = inside \cup {p}
    /\ UNCHANGED running

Release(p) ==
    /\ p \in inside
    /\ holder = p
    /\ holder' = NoOwner
    /\ inside' = inside \ {p}
    /\ UNCHANGED running

\* A release that could not remove the lock: its holder is gone, it stays.
LeaveBehind(p) ==
    /\ p \in inside
    /\ holder = p
    /\ inside' = inside \ {p}
    /\ UNCHANGED <<holder, running>>

Dispossess ==
    /\ holder \in Procs \ running
    /\ holder' = NoOwner
    /\ UNCHANGED <<inside, running>>

Crash(p) ==
    /\ p \in running
    /\ running' = running \ {p}
    /\ inside' = inside \ {p}
    /\ UNCHANGED holder

Next ==
    \/ Dispossess
    \/ \E p \in Procs : Acquire(p) \/ Release(p) \/ LeaveBehind(p) \/ Crash(p)

Spec == Init /\ [][Next]_vars
=============================================================================
