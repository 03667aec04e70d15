------------------------------ MODULE DirLock ------------------------------
(***************************************************************************)
(* The directory lock of src/fs/lock.ts over one path, taken by several    *)
(* operating system processes.  mkdir is the atomic take; an owner file    *)
(* written after it names the pid and a fresh nonce; a taker that finds a  *)
(* dead owner claims the directory (.reclaim inside it), rechecks, and     *)
(* renames it away.  Every file system call is a step of its own, so a     *)
(* crash or another process may come between any two of them.              *)
(***************************************************************************)
EXTENDS Naturals

CONSTANTS
    Procs,          \* the processes, one pid each: a pid is not reused
    Inodes,         \* inode numbers: the file system may reuse them at once
    None,
    Refusable,      \* generations whose rename the file system may refuse
    MaxGenerations  \* bound on the lock directories ever made

ASSUME BoundAssumption == MaxGenerations \in Nat
ASSUME RenameAssumption == Refusable \subseteq Nat

VARIABLES
    dir,      \* the directory at the lock's path, or None
    running,  \* the processes that have not crashed
    pc,       \* the file system call each process is about to make
    nonce,    \* the nonce of the last directory each process made
    seen,     \* what each reclaimer read: generation, owner, its own claim
    serial    \* lock directories made so far; numbers the nonces

vars == <<dir, running, pc, nonce, seen, serial>>

----------------------------------------------------------------------------
(* A LockHolder, and the directory with what is inside it.  `maker` and    *)
(* `serial` are auxiliary: they say which take made the directory, which   *)
(* no file records until the owner file is written.                        *)

LockHolder == [pid : Procs, nonce : Nat]
Claim == [ino : Inodes, by : Procs]
Generation == [ino : Inodes, maker : Procs, serial : Nat,
               owner : LockHolder \cup {None}, claim : Claim \cup {None}]
ASSUME NoneAssumption ==
    None \notin Procs \cup Inodes \cup LockHolder \cup Claim \cup Generation

Sight == [gen : Inodes \cup {None}, held : LockHolder \cup {None},
          claimed : Inodes \cup {None}]

PCs == {"idle", "mkdir", "own", "hold", "unlink", "rmdir", "wait",
        "stat", "read", "claim", "cstat", "restat", "reread", "rename",
        "fstat", "fread", "fcstat", "frm", "dead"}

Blind == [gen |-> None, held |-> None, claimed |-> None]
Exists == dir # None
HolderRead == IF Exists THEN dir.owner ELSE None
PidAlive(pid) == pid \in running
UsedInodes == IF Exists
              THEN {dir.ino} \cup (IF dir.claim = None THEN {} ELSE {dir.claim.ino})
              ELSE {}

TypeOK ==
    /\ dir \in Generation \cup {None}
    /\ running \subseteq Procs
    /\ pc \in [Procs -> PCs]
    /\ nonce \in [Procs -> Nat]
    /\ seen \in [Procs -> Sight]
    /\ serial \in Nat

Init ==
    /\ dir = None
    /\ running = Procs
    /\ pc = [p \in Procs |-> "idle"]
    /\ nonce = [p \in Procs |-> 0]
    /\ seen = [p \in Procs |-> Blind]
    /\ serial = 0

At(p, label) == p \in running /\ pc[p] = label
Goto(p, label) == pc' = [pc EXCEPT ![p] = label]

----------------------------------------------------------------------------
(* Taking the lock: tryGrabDirLock inside the wait of grabDirLock.         *)

Take(p) ==
    /\ At(p, "idle")
    /\ Goto(p, "mkdir")
    /\ UNCHANGED <<dir, running, nonce, seen, serial>>

MakeDirectory(p) ==
    /\ At(p, "mkdir")
    /\ ~Exists
    /\ serial < MaxGenerations
    /\ serial' = serial + 1
    /\ nonce' = [nonce EXCEPT ![p] = serial + 1]
    /\ \E i \in Inodes :
          dir' = [ino |-> i, maker |-> p, serial |-> serial + 1,
                  owner |-> None, claim |-> None]
    /\ Goto(p, "own")
    /\ UNCHANGED <<running, seen>>

MeetDirectory(p) ==
    /\ At(p, "mkdir")
    /\ Exists
    /\ Goto(p, "stat")
    /\ UNCHANGED <<dir, running, nonce, seen, serial>>

\* The owner file: from here a reader can tell whose the lock is.
WriteOwner(p) ==
    /\ At(p, "own")
    /\ IF Exists
       THEN /\ dir' = [dir EXCEPT !.owner = [pid |-> p, nonce |-> nonce[p]]]
            /\ Goto(p, "hold")
       ELSE Goto(p, "idle") /\ UNCHANGED dir
    /\ UNCHANGED <<running, nonce, seen, serial>>

Retry(p) ==
    /\ At(p, "wait")
    /\ Goto(p, "mkdir")
    /\ UNCHANGED <<dir, running, nonce, seen, serial>>

\* The deadline passed: a refusal to the caller, whatever its words.
GiveUp(p) ==
    /\ At(p, "wait")
    /\ Goto(p, "idle")
    /\ UNCHANGED <<dir, running, nonce, seen, serial>>

----------------------------------------------------------------------------
(* releaseDirLock: a nonce check, then a recursive rm, which empties the   *)
(* directory and only then removes it; an entry that appeared in between   *)
(* leaves the emptied directory in place (ENOTEMPTY).                      *)

CheckNonce(p) ==
    /\ At(p, "hold")
    /\ LET mine == HolderRead # None /\ HolderRead.nonce = nonce[p]
       IN  Goto(p, IF mine THEN "unlink" ELSE "idle")
    /\ UNCHANGED <<dir, running, nonce, seen, serial>>

EmptyDirectory(p) ==
    /\ At(p, "unlink")
    /\ dir' = IF Exists THEN [dir EXCEPT !.owner = None, !.claim = None] ELSE None
    /\ Goto(p, "rmdir")
    /\ UNCHANGED <<running, nonce, seen, serial>>

RemoveDirectory(p) ==
    /\ At(p, "rmdir")
    /\ dir' = IF Exists /\ dir.owner = None /\ dir.claim = None THEN None ELSE dir
    /\ Goto(p, "idle")
    /\ UNCHANGED <<running, nonce, seen, serial>>

----------------------------------------------------------------------------
(* dropDeadLock, call by call.  Returning false sends the taker to its     *)
(* wait, returning true straight back to mkdir.                            *)

StatGeneration(p) ==
    /\ At(p, "stat")
    /\ IF Exists
       THEN /\ seen' = [seen EXCEPT ![p] = [Blind EXCEPT !.gen = dir.ino]]
            /\ Goto(p, "read")
       ELSE Goto(p, "wait") /\ UNCHANGED seen
    /\ UNCHANGED <<dir, running, nonce, serial>>

ReadHolder(p) ==
    /\ At(p, "read")
    /\ IF HolderRead # None /\ ~PidAlive(HolderRead.pid)
       THEN /\ seen' = [seen EXCEPT ![p].held = HolderRead]
            /\ Goto(p, "claim")
       ELSE Goto(p, "wait") /\ UNCHANGED seen
    /\ UNCHANGED <<dir, running, nonce, serial>>

\* mkdir .reclaim goes by path: the directory it lands in may be another
\* generation than the one read.  EEXIST and ENOENT give up.
MakeClaim(p) ==
    /\ At(p, "claim")
    /\ IF Exists /\ dir.claim = None
       THEN /\ \E i \in Inodes \ UsedInodes :
                  dir' = [dir EXCEPT !.claim = [ino |-> i, by |-> p]]
            /\ Goto(p, "cstat")
       ELSE Goto(p, "wait") /\ UNCHANGED dir
    /\ UNCHANGED <<running, nonce, seen, serial>>

StatClaim(p) ==
    /\ At(p, "cstat")
    /\ IF Exists /\ dir.claim # None
       THEN /\ seen' = [seen EXCEPT ![p].claimed = dir.claim.ino]
            /\ Goto(p, "restat")
       ELSE Goto(p, "wait") /\ UNCHANGED seen
    /\ UNCHANGED <<dir, running, nonce, serial>>

RecheckGeneration(p) ==
    /\ At(p, "restat")
    /\ Goto(p, IF Exists /\ dir.ino = seen[p].gen THEN "reread" ELSE "fstat")
    /\ UNCHANGED <<dir, running, nonce, seen, serial>>

\* mutant: the liveness test inverted.
StillAlive(p) ==
    /\ HolderRead = seen[p].held
    /\ HolderRead # None
    /\ PidAlive(HolderRead.pid)

\* The owner must be the one first read, and still dead.  The owner file
\* then written into the claim only gives a later refusal its words.
StillDead(p) ==
    /\ HolderRead = seen[p].held
    /\ HolderRead # None
    /\ ~PidAlive(HolderRead.pid)

\* mutant: the decision stays with the first read.
RecheckNothing(p) ==
    /\ At(p, "reread")
    /\ Goto(p, "rename")
    /\ UNCHANGED <<dir, running, nonce, seen, serial>>

RecheckHolder(p) ==
    /\ At(p, "reread")
    /\ Goto(p, IF StillDead(p) THEN "rename" ELSE "fstat")
    /\ UNCHANGED <<dir, running, nonce, seen, serial>>

\* rename goes by path too.  Removing the tomb touches nothing shared, and
\* the finally block that follows a rename finds no holder it has read.
RenameAway(p) ==
    /\ At(p, "rename")
    /\ dir' = None
    /\ Goto(p, IF Exists THEN "mkdir" ELSE "fstat")
    /\ UNCHANGED <<running, nonce, seen, serial>>

\* Whatever the rename throws is swallowed: the finally block then finds the
\* parent in place and removes the claim.
RenameFails(p) ==
    /\ At(p, "rename")
    /\ Exists /\ dir.serial \in Refusable
    /\ Goto(p, "fstat")
    /\ UNCHANGED <<dir, running, nonce, seen, serial>>

\* The finally block: remove the claim if the parent and the claim are the
\* ones this reclaimer knows.
FinallyGeneration(p) ==
    /\ At(p, "fstat")
    /\ Goto(p, IF Exists /\ dir.ino = seen[p].gen THEN "fread" ELSE "wait")
    /\ UNCHANGED <<dir, running, nonce, seen, serial>>

FinallyHolder(p) ==
    /\ At(p, "fread")
    /\ Goto(p, IF HolderRead = seen[p].held THEN "fcstat" ELSE "wait")
    /\ UNCHANGED <<dir, running, nonce, seen, serial>>

FinallyClaim(p) ==
    /\ At(p, "fcstat")
    /\ LET same == Exists /\ dir.claim # None /\ dir.claim.ino = seen[p].claimed
       IN  Goto(p, IF same THEN "frm" ELSE "wait")
    /\ UNCHANGED <<dir, running, nonce, seen, serial>>

DropClaim(p) ==
    /\ At(p, "frm")
    /\ dir' = IF Exists THEN [dir EXCEPT !.claim = None] ELSE None
    /\ Goto(p, "wait")
    /\ UNCHANGED <<running, nonce, seen, serial>>

----------------------------------------------------------------------------
\* A crash leaves the directory as it is, whatever the process was doing,
\* and takes what it had in memory.
Crash(p) ==
    /\ p \in running
    /\ running' = running \ {p}
    /\ Goto(p, "dead")
    /\ nonce' = [nonce EXCEPT ![p] = 0]
    /\ seen' = [seen EXCEPT ![p] = Blind]
    /\ UNCHANGED <<dir, serial>>

Reclaim(p) ==
    \/ StatGeneration(p) \/ ReadHolder(p) \/ MakeClaim(p) \/ StatClaim(p)
    \/ RecheckGeneration(p) \/ RecheckHolder(p) \/ RenameAway(p)
    \/ FinallyGeneration(p) \/ FinallyHolder(p) \/ FinallyClaim(p) \/ DropClaim(p)

Release(p) == CheckNonce(p) \/ EmptyDirectory(p) \/ RemoveDirectory(p)

\* What a process does once it asked for the lock, without being told.
Step(p) ==
    \/ MakeDirectory(p) \/ MeetDirectory(p) \/ WriteOwner(p)
    \/ Reclaim(p) \/ Release(p)

Next == \E p \in Procs :
    Take(p) \/ Step(p) \/ RenameFails(p) \/ Retry(p) \/ GiveUp(p) \/ Crash(p)

Spec == Init /\ [][Next]_vars

\* A running process keeps executing; whether it retries, gives up, takes
\* the lock again or crashes is left open.
Fairness == \A p \in Procs : WF_vars(Step(p))
FairSpec == Spec /\ Fairness

----------------------------------------------------------------------------
(* Properties *)

Owning == {"own", "hold", "unlink", "rmdir"}

\* Two running processes are never both between their mkdir and the end of
\* their release: the lock excludes, through any race of reclaimers.
MutualExclusion ==
    \A p, q \in running : pc[p] \in Owning /\ pc[q] \in Owning => p = q

\* While a running process holds the lock, the directory at the path is the
\* one it made and names it: its release will find its own nonce.
HolderIsNamed ==
    \A p \in running : pc[p] = "hold" =>
        Exists /\ dir.owner = [pid |-> p, nonce |-> nonce[p]]

\* A reclaimer about to rename does so under its own claim and over a dead
\* owner's directory, whatever was replaced since it first read the owner.
RenamesOnlyClaimedDead ==
    \A p \in running : pc[p] = "rename" =>
        /\ Exists
        /\ dir.claim # None /\ dir.claim.by = p
        /\ dir.owner # None /\ dir.owner.pid \notin running

\* What excludes: the lock has one holder, named by the directory at the path,
\* and a reclaimer moves only a dead holder's directory under its own claim.
LockIsSafe == TypeOK /\ MutualExclusion /\ HolderIsNamed /\ RenamesOnlyClaimedDead

\* A directory whose maker runs leaves the path only by the maker's own
\* rmdir: no delayed reclaimer moves a live replacement generation.
LiveGenerationStays ==
    [][ Exists /\ dir.maker \in running /\ (dir' = None \/ dir'.serial # dir.serial)
        => pc[dir.maker] = "rmdir" /\ pc'[dir.maker] = "idle" ]_vars

\* The lock implements the abstract lock: the holder is the maker of the
\* directory at the path, inside are those between mkdir and rmdir.  No step
\* of a reclaimer, however late, takes the lock from a running holder.
Abstract == INSTANCE ExclusiveLock WITH
    NoOwner <- None,
    holder <- IF Exists THEN dir.maker ELSE None,
    inside <- {p \in running : pc[p] \in Owning}
ImplementsExclusiveLock == Abstract!Spec

\* A dead owner's lock is reclaimed once somebody runs into it, unless that
\* taker crashes too or a stranded claim blocks the way: one whose reclaimer
\* crashed, or left it in the replacement generation it landed in.  The code
\* leaves a stranded claim to a person.
Reclaiming == {"cstat", "restat", "reread", "rename", "fstat", "fread", "fcstat", "frm"}
DeadOwned(n) == Exists /\ dir.serial = n /\ dir.owner # None /\ dir.maker \notin running
Stranded ==
    Exists /\ dir.claim # None /\ ~(dir.claim.by \in running /\ pc[dir.claim.by] \in Reclaiming)
DeadHolderReclaimed ==
    \A n \in (1..MaxGenerations) \ Refusable, p \in Procs :
        DeadOwned(n) /\ At(p, "mkdir") ~> ~DeadOwned(n) \/ Stranded \/ p \notin running

=============================================================================
