--------------------------- MODULE DirLock_proofs ---------------------------
(***************************************************************************)
(* The directory lock excludes for any number of processes, inode numbers  *)
(* and generations.  The inductive invariant says, besides the types, who  *)
(* may be where: a running owner's directory is at the path and its owner  *)
(* file says so; what a reclaimer holds in memory is dead; and a reclaimer *)
(* that finds at the path the owner it first read holds the claim there.   *)
(***************************************************************************)
EXTENDS DirLock, TLAPS

\* The owner file of a directory names the take that made the directory.
OwnerIsMaker ==
    Exists /\ dir.owner # None => dir.owner = [pid |-> dir.maker, nonce |-> dir.serial]

\* The directory of a running owner is at the path, with its owner file
\* exactly between WriteOwner and EmptyDirectory.
OwnersAreThere ==
    \A p \in running : pc[p] \in Owning =>
        /\ Exists
        /\ dir.maker = p
        /\ dir.serial = nonce[p]
        /\ dir.owner # None <=> pc[p] \in {"hold", "unlink"}

\* An owner a reclaimer remembers is dead, and from its claim on it has one.
HeldIsDead ==
    \A p \in Procs :
        /\ seen[p].held # None => seen[p].held.pid \notin running
        /\ pc[p] \in Reclaiming \cup {"claim"} => seen[p].held # None

\* The directory whose owner a reclaimer first read is at the path.
InPlace(p) == Exists /\ dir.owner = seen[p].held

\* A generation comes once: if the owner read before the claim is still at
\* the path after it, then the claim is in that very directory.
ClaimIsInPlace ==
    \A p \in running : pc[p] \in Reclaiming /\ InPlace(p) =>
        dir.claim # None /\ dir.claim.by = p

\* Past the rechecks the directory stays: nobody else may remove it.
RecheckedIsInPlace ==
    \A p \in running : pc[p] \in {"rename", "fcstat", "frm"} => InPlace(p)

IInv ==
    /\ TypeOK
    /\ OwnerIsMaker
    /\ OwnersAreThere
    /\ HeldIsDead
    /\ ClaimIsInPlace
    /\ RecheckedIsInPlace

----------------------------------------------------------------------------
LEMMA InitIInv == Init => IInv
  BY NoneAssumption DEF Init, IInv, TypeOK, OwnerIsMaker, OwnersAreThere, HeldIsDead,
     ClaimIsInPlace, RecheckedIsInPlace, Exists, Blind, Sight, PCs, Owning, Reclaiming

\* Every step keeps the types.
LEMMA TypeStep == TypeOK /\ [Next]_vars => TypeOK'
  <1> SUFFICES ASSUME TypeOK, [Next]_vars PROVE TypeOK'
    OBVIOUS
  <1> USE NoneAssumption DEF TypeOK, At, Goto, PCs
  <1>1. CASE UNCHANGED vars
    BY <1>1 DEF vars
  <1>2. ASSUME NEW p \in Procs, Take(p) \/ Retry(p) \/ GiveUp(p) \/ Crash(p) PROVE TypeOK'
    BY <1>2 DEF Take, Retry, GiveUp, Crash, Sight, Blind
  <1>3. ASSUME NEW p \in Procs, MakeDirectory(p) PROVE TypeOK'
    BY <1>3 DEF MakeDirectory, Generation
  <1>4. ASSUME NEW p \in Procs, MeetDirectory(p) \/ WriteOwner(p) PROVE TypeOK'
    BY <1>4 DEF MeetDirectory, WriteOwner, Generation, LockHolder, Exists
  <1>5. ASSUME NEW p \in Procs, Release(p) PROVE TypeOK'
    <2>1. CASE CheckNonce(p)
      BY <2>1 DEF CheckNonce
    <2>2. CASE EmptyDirectory(p)
      BY <2>2 DEF EmptyDirectory, Exists, Generation
    <2>3. CASE RemoveDirectory(p)
      BY <2>3 DEF RemoveDirectory
    <2> QED
      BY <1>5, <2>1, <2>2, <2>3 DEF Release
  <1>6. ASSUME NEW p \in Procs, StatGeneration(p) \/ ReadHolder(p) \/ StatClaim(p) PROVE TypeOK'
    <2>1. CASE StatGeneration(p)
      BY <2>1, SMTT(30) DEF StatGeneration, Generation, Sight, Blind, Exists
    <2>2. CASE ReadHolder(p)
      <3>1. HolderRead \in LockHolder \cup {None} /\ seen[p] \in Sight
        BY DEF HolderRead, Exists, Generation
      <3>2. seen' \in [Procs -> Sight]
        BY <2>2, <3>1 DEF ReadHolder, Sight
      <3> QED
        BY <2>2, <3>2 DEF ReadHolder
    <2>3. CASE StatClaim(p)
      <3>1. seen[p] \in Sight
        OBVIOUS
      <3>2. seen' \in [Procs -> Sight]
        BY <2>3, <3>1 DEF StatClaim, Generation, Claim, Sight, Exists
      <3> QED
        BY <2>3, <3>2 DEF StatClaim
    <2> QED
      BY <1>6, <2>1, <2>2, <2>3
  <1>7. ASSUME NEW p \in Procs, MakeClaim(p) \/ DropClaim(p) PROVE TypeOK'
    BY <1>7 DEF MakeClaim, DropClaim, Generation, Claim, Exists
  <1>8. ASSUME NEW p \in Procs, RecheckGeneration(p) \/ RecheckHolder(p) \/ RenameAway(p)
                                \/ RenameFails(p) \/ FinallyGeneration(p)
                                \/ FinallyHolder(p) \/ FinallyClaim(p)
        PROVE TypeOK'
    BY <1>8 DEF RecheckGeneration, RecheckHolder, RenameAway, RenameFails, FinallyGeneration,
       FinallyHolder, FinallyClaim
  <1> QED
    BY <1>1, <1>2, <1>3, <1>4, <1>5, <1>6, <1>7, <1>8 DEF Next, Step, Reclaim

----------------------------------------------------------------------------
\* Every step of every process keeps the inductive invariant.
LEMMA InductiveStep == IInv /\ [Next]_vars => IInv'
  <1> SUFFICES ASSUME IInv, [Next]_vars PROVE IInv'
    OBVIOUS
  <1>0. TypeOK'
    BY TypeStep DEF IInv
  <1> USE NoneAssumption DEF IInv, TypeOK, OwnerIsMaker, OwnersAreThere, HeldIsDead,
          ClaimIsInPlace, RecheckedIsInPlace, InPlace, Exists, At, Goto, Owning, Reclaiming,
          Sight, Generation, LockHolder, Claim
  <1>1. CASE UNCHANGED vars
    BY <1>0, <1>1 DEF vars
  <1>2. ASSUME NEW p \in Procs, Take(p) PROVE IInv'
    BY <1>0, <1>2 DEF Take
  <1>3. ASSUME NEW p \in Procs, MakeDirectory(p) PROVE IInv'
    BY <1>0, <1>3 DEF MakeDirectory
  <1>4. ASSUME NEW p \in Procs, MeetDirectory(p) PROVE IInv'
    BY <1>0, <1>4 DEF MeetDirectory
  <1>5. ASSUME NEW p \in Procs, WriteOwner(p) PROVE IInv'
    BY <1>0, <1>5, SMTT(30) DEF WriteOwner, LockHolder
  <1>6. ASSUME NEW p \in Procs, Retry(p) PROVE IInv'
    BY <1>0, <1>6 DEF Retry
  <1>7. ASSUME NEW p \in Procs, GiveUp(p) PROVE IInv'
    BY <1>0, <1>7 DEF GiveUp
  <1>8. ASSUME NEW p \in Procs, CheckNonce(p) PROVE IInv'
    BY <1>0, <1>8 DEF CheckNonce, HolderRead
  <1>9. ASSUME NEW p \in Procs, EmptyDirectory(p) PROVE IInv'
    <2>1. OwnerIsMaker'
      BY <1>0, <1>9 DEF EmptyDirectory
    <2>2. OwnersAreThere'
      <3>1. dir \in Generation /\ dir.maker = p /\ dir.serial = nonce[p]
        BY <1>9 DEF EmptyDirectory
      <3>2. dir' \in Generation /\ dir'.owner = None /\ dir'.maker = p /\ dir'.serial = nonce[p]
        BY <1>0, <1>9, <3>1 DEF EmptyDirectory
      <3>3. ASSUME NEW q \in running', pc'[q] \in Owning PROVE q = p /\ pc'[q] = "rmdir"
        BY <1>9, <3>3, <3>1 DEF EmptyDirectory
      <3> QED
        BY <1>9, <3>2, <3>3, ZenonT(60) DEF EmptyDirectory
    <2>3. HeldIsDead'
      BY <1>0, <1>9 DEF EmptyDirectory
    <2>4. ClaimIsInPlace'
      BY <1>0, <1>9 DEF EmptyDirectory
    <2>5. RecheckedIsInPlace'
      BY <1>0, <1>9 DEF EmptyDirectory
    <2> QED
      BY <1>0, <2>1, <2>2, <2>3, <2>4, <2>5
  <1>10. ASSUME NEW p \in Procs, RemoveDirectory(p) PROVE IInv'
    BY <1>0, <1>10 DEF RemoveDirectory
  <1>11. ASSUME NEW p \in Procs, StatGeneration(p) PROVE IInv'
    <2>1. OwnerIsMaker'
      BY <1>0, <1>11 DEF StatGeneration, Blind
    <2>2. OwnersAreThere'
      BY <1>0, <1>11 DEF StatGeneration, Blind
    <2>3. HeldIsDead'
      BY <1>0, <1>11 DEF StatGeneration, Blind
    <2>4. ClaimIsInPlace'
      BY <1>0, <1>11 DEF StatGeneration, Blind
    <2>5. RecheckedIsInPlace'
      BY <1>0, <1>11 DEF StatGeneration, Blind
    <2> QED
      BY <1>0, <2>1, <2>2, <2>3, <2>4, <2>5
  <1>12. ASSUME NEW p \in Procs, ReadHolder(p) PROVE IInv'
    <2>1. OwnerIsMaker'
      BY <1>0, <1>12 DEF ReadHolder, HolderRead, PidAlive
    <2>2. OwnersAreThere'
      BY <1>0, <1>12 DEF ReadHolder, HolderRead, PidAlive
    <2>3. HeldIsDead'
      BY <1>0, <1>12 DEF ReadHolder, HolderRead, PidAlive
    <2>4. ClaimIsInPlace'
      BY <1>0, <1>12 DEF ReadHolder, HolderRead, PidAlive
    <2>5. RecheckedIsInPlace'
      BY <1>0, <1>12 DEF ReadHolder, HolderRead, PidAlive
    <2> QED
      BY <1>0, <2>1, <2>2, <2>3, <2>4, <2>5
  <1>13. ASSUME NEW p \in Procs, MakeClaim(p) PROVE IInv'
    BY <1>0, <1>13 DEF MakeClaim
  <1>14. ASSUME NEW p \in Procs, StatClaim(p) PROVE IInv'
    BY <1>0, <1>14 DEF StatClaim
  <1>15. ASSUME NEW p \in Procs, RecheckGeneration(p) PROVE IInv'
    BY <1>0, <1>15 DEF RecheckGeneration
  <1>16. ASSUME NEW p \in Procs, RecheckHolder(p) PROVE IInv'
    BY <1>0, <1>16 DEF RecheckHolder, StillDead, HolderRead, PidAlive
  <1>17. ASSUME NEW p \in Procs, RenameAway(p) PROVE IInv'
    BY <1>0, <1>17 DEF RenameAway
  <1>18. ASSUME NEW p \in Procs, FinallyGeneration(p) PROVE IInv'
    BY <1>0, <1>18 DEF FinallyGeneration
  <1>19. ASSUME NEW p \in Procs, FinallyHolder(p) PROVE IInv'
    BY <1>0, <1>19 DEF FinallyHolder, HolderRead
  <1>20. ASSUME NEW p \in Procs, FinallyClaim(p) PROVE IInv'
    BY <1>0, <1>20 DEF FinallyClaim
  <1>21. ASSUME NEW p \in Procs, DropClaim(p) PROVE IInv'
    BY <1>0, <1>21 DEF DropClaim
  <1>22. ASSUME NEW p \in Procs, Crash(p) PROVE IInv'
    <2>1. HeldIsDead'
      BY <1>0, <1>22 DEF Crash, Blind
    <2>2. OwnerIsMaker' /\ OwnersAreThere' /\ ClaimIsInPlace' /\ RecheckedIsInPlace'
      BY <1>0, <1>22 DEF Crash, Blind
    <2> QED
      BY <1>0, <2>1, <2>2
  <1>23. ASSUME NEW p \in Procs, RenameFails(p) PROVE IInv'
    BY <1>0, <1>23 DEF RenameFails
  <1> QED
    BY <1>1, <1>2, <1>3, <1>4, <1>5, <1>6, <1>7, <1>8, <1>9, <1>10, <1>11, <1>12, <1>13,
       <1>14, <1>15, <1>16, <1>17, <1>18, <1>19, <1>20, <1>21, <1>22, <1>23
       DEF Next, Step, Reclaim, Release

----------------------------------------------------------------------------
\* The inductive invariant holds in every behaviour.
THEOREM Invariance == Spec => []IInv
  BY InitIInv, InductiveStep, PTL DEF Spec

\* The types, for any number of processes, inodes and generations.
THEOREM TypeCorrect == Spec => []TypeOK
  BY Invariance, PTL DEF IInv

\* At most one running process is between its mkdir and the end of its
\* release, through any crashes and any race of reclaimers.
THEOREM Exclusion == Spec => []MutualExclusion
  <1>1. IInv => MutualExclusion
    BY DEF IInv, OwnersAreThere, MutualExclusion
  <1> QED
    BY <1>1, Invariance, PTL

\* The holder's directory is at the path and carries its nonce.
THEOREM HolderNamed == Spec => []HolderIsNamed
  <1>1. IInv => HolderIsNamed
    BY DEF IInv, OwnersAreThere, OwnerIsMaker, HolderIsNamed, Owning
  <1> QED
    BY <1>1, Invariance, PTL

\* A rename meets a dead owner's directory under the renamer's own claim.
THEOREM RenamesSafely == Spec => []RenamesOnlyClaimedDead
  <1>1. IInv => RenamesOnlyClaimedDead
    BY DEF IInv, TypeOK, HeldIsDead, ClaimIsInPlace, RecheckedIsInPlace, InPlace,
           RenamesOnlyClaimedDead, Reclaiming
  <1> QED
    BY <1>1, Invariance, PTL

\* The lock is safe for every set of processes, every number of generations
\* and every reuse of inodes: the parts above together.
THEOREM LockSafety == Spec => []LockIsSafe
  BY TypeCorrect, Exclusion, HolderNamed, RenamesSafely, PTL DEF LockIsSafe

----------------------------------------------------------------------------
(* What a step may do to the directory at the path.                        *)

\* The four ways the directory at the path may change.
LEMMA DirectoryChanges ==
    ASSUME IInv, [Next]_vars, Exists, dir' # dir
    PROVE  \E p \in Procs :
              WriteOwner(p) \/ MakeClaim(p) \/ DropClaim(p) \/ EmptyDirectory(p)
              \/ RemoveDirectory(p) \/ RenameAway(p)
  BY DEF Next, Step, Reclaim, Release, vars, Take, Retry, GiveUp, Crash, MakeDirectory,
     MeetDirectory, CheckNonce, StatGeneration, ReadHolder, StatClaim, RecheckGeneration,
     RecheckHolder, RenameFails, FinallyGeneration, FinallyHolder, FinallyClaim

\* Writing inside the directory leaves it at the path, of the same maker.
LEMMA DirectoryEdited ==
    ASSUME TypeOK, Exists, NEW p \in Procs,
           WriteOwner(p) \/ MakeClaim(p) \/ DropClaim(p) \/ EmptyDirectory(p)
    PROVE  dir' # None /\ dir'.serial = dir.serial /\ dir'.maker = dir.maker
  <1> USE NoneAssumption DEF TypeOK, Exists
  <1>1. dir \in Generation
    OBVIOUS
  <1>2. dir'.serial = dir.serial /\ dir'.maker = dir.maker
    BY <1>1 DEF WriteOwner, MakeClaim, DropClaim, EmptyDirectory, Generation
  <1>3. dir' \in Generation
    <2>1. CASE WriteOwner(p)
      BY <1>1, <2>1 DEF WriteOwner, Generation, LockHolder
    <2>2. CASE MakeClaim(p)
      BY <1>1, <2>2 DEF MakeClaim, Generation, Claim
    <2>3. CASE DropClaim(p) \/ EmptyDirectory(p)
      BY <1>1, <2>3 DEF DropClaim, EmptyDirectory, Generation
    <2> QED
      BY <2>1, <2>2, <2>3
  <1> QED
    BY <1>2, <1>3

\* A directory leaves the path by its maker's rmdir, or by a rename when the
\* maker is dead.
LEMMA DirectoryLeaves ==
    ASSUME IInv, [Next]_vars, Exists, dir' = None \/ dir'.serial # dir.serial
    PROVE  \/ \E p \in Procs : RemoveDirectory(p) /\ p = dir.maker
           \/ (\E p \in Procs : RenameAway(p)) /\ dir.maker \notin running
  <1> USE NoneAssumption DEF IInv, TypeOK, Exists
  <1>0. PICK p \in Procs :
          WriteOwner(p) \/ MakeClaim(p) \/ DropClaim(p) \/ EmptyDirectory(p)
          \/ RemoveDirectory(p) \/ RenameAway(p)
    BY DirectoryChanges
  <1>2. CASE WriteOwner(p) \/ MakeClaim(p) \/ DropClaim(p) \/ EmptyDirectory(p)
    BY <1>2, DirectoryEdited
  <1>3. CASE RemoveDirectory(p)
    BY <1>3 DEF RemoveDirectory, OwnersAreThere, At, Owning
  <1>4. CASE RenameAway(p)
    BY <1>4 DEF RenameAway, RecheckedIsInPlace, InPlace, HeldIsDead, OwnerIsMaker, At, Reclaiming
  <1> QED
    BY <1>0, <1>2, <1>3, <1>4

\* No delayed reclaimer moves a live replacement generation: the directory
\* of a running maker leaves the path by the maker's own rmdir.
THEOREM LiveGenerationSafe == Spec => LiveGenerationStays
  <1> DEFINE Leaves == Exists /\ dir.maker \in running
                       /\ (dir' = None \/ dir'.serial # dir.serial)
             ByMaker == pc[dir.maker] = "rmdir" /\ pc'[dir.maker] = "idle"
  <1>1. IInv /\ [Next]_vars => [Leaves => ByMaker]_vars
    <2> SUFFICES ASSUME IInv, [Next]_vars, Leaves PROVE ByMaker
      OBVIOUS
    <2>1. PICK p \in Procs : RemoveDirectory(p) /\ p = dir.maker
      BY DirectoryLeaves
    <2> QED
      BY <2>1 DEF RemoveDirectory, At, Goto, IInv, TypeOK
  <1> QED
    BY <1>1, Invariance, PTL DEF Spec, LiveGenerationStays

----------------------------------------------------------------------------
(* The abstract lock.                                                      *)

Holder == IF Exists THEN dir.maker ELSE None
Inside == {p \in running : pc[p] \in Owning}

\* Who is inside after one process went on.
LEMMA InsideAfter ==
    ASSUME TypeOK, running' = running, NEW p \in running, NEW l \in PCs, Goto(p, l)
    PROVE  Inside' = IF l \in Owning THEN Inside \cup {p} ELSE Inside \ {p}
  BY DEF TypeOK, Goto, Inside

\* A step of the lock's file system calls that neither makes nor removes the
\* directory is invisible: it keeps the holder and those inside.
LEMMA Invisible ==
    ASSUME IInv, [Next]_vars, NEW p \in Procs,
           \/ Take(p) \/ MeetDirectory(p) \/ WriteOwner(p) \/ Retry(p) \/ GiveUp(p)
           \/ CheckNonce(p) \/ EmptyDirectory(p)
           \/ StatGeneration(p) \/ ReadHolder(p) \/ MakeClaim(p) \/ StatClaim(p)
           \/ RecheckGeneration(p) \/ RecheckHolder(p) \/ RenameFails(p)
           \/ FinallyGeneration(p) \/ FinallyHolder(p) \/ FinallyClaim(p) \/ DropClaim(p)
    PROVE  UNCHANGED <<Holder, Inside, running>>
  <1>1. running' = running /\ p \in running
    BY DEF Take, MeetDirectory, WriteOwner, Retry, GiveUp, CheckNonce, EmptyDirectory,
       StatGeneration, ReadHolder, MakeClaim, StatClaim, RecheckGeneration, RecheckHolder,
       RenameFails, FinallyGeneration, FinallyHolder, FinallyClaim, DropClaim, At
  <1>2. Holder' = Holder
    <2>1. CASE dir' = dir
      BY <2>1 DEF Holder, Exists
    <2>2. CASE Exists /\ (WriteOwner(p) \/ MakeClaim(p) \/ DropClaim(p) \/ EmptyDirectory(p))
      BY <2>2, DirectoryEdited DEF Holder, Exists, IInv
    <2> QED
      BY <2>1, <2>2, NoneAssumption
         DEF Take, MeetDirectory, WriteOwner, Retry, GiveUp, CheckNonce, EmptyDirectory,
         StatGeneration, ReadHolder, MakeClaim, StatClaim, RecheckGeneration, RecheckHolder,
         RenameFails, FinallyGeneration, FinallyHolder, FinallyClaim, DropClaim, Exists
  <1>3. ASSUME NEW l \in Owning, Goto(p, l), p \in Inside PROVE Inside' = Inside
    <2>1. l \in PCs /\ TypeOK
      BY DEF PCs, Owning, IInv
    <2> QED
      BY <1>1, <1>3, <2>1, InsideAfter
  <1>4. Inside' = Inside
    <2> USE DEF IInv, TypeOK, OwnersAreThere, OwnerIsMaker, Exists, HolderRead
    <2>1. CASE WriteOwner(p)
      <3>1. Goto(p, "hold") /\ p \in Inside
        BY <2>1 DEF WriteOwner, At, Owning, Inside
      <3> QED
        BY <1>3, <3>1 DEF Owning
    <2>2. CASE CheckNonce(p)
      <3>1. Goto(p, "unlink") /\ p \in Inside
        BY <2>2, NoneAssumption DEF CheckNonce, At, Owning, Inside
      <3> QED
        BY <1>3, <3>1 DEF Owning
    <2>3. CASE EmptyDirectory(p)
      <3>1. Goto(p, "rmdir") /\ p \in Inside
        BY <2>3 DEF EmptyDirectory, At, Owning, Inside
      <3> QED
        BY <1>3, <3>1 DEF Owning
    <2>4. CASE ~(WriteOwner(p) \/ CheckNonce(p) \/ EmptyDirectory(p))
      <3>0. {"mkdir", "stat", "wait", "idle", "read", "claim", "cstat", "restat", "reread",
             "rename", "fstat", "fread", "fcstat", "frm"} \subseteq PCs \ Owning
        BY DEF PCs, Owning
      <3>1. PICK l \in PCs \ Owning : Goto(p, l)
        <4>1. CASE Take(p) \/ MeetDirectory(p) \/ Retry(p) \/ GiveUp(p) \/ DropClaim(p)
          BY <3>0, <4>1 DEF Take, MeetDirectory, Retry, GiveUp, DropClaim
        <4>2. CASE StatGeneration(p) \/ ReadHolder(p) \/ StatClaim(p)
          BY <3>0, <4>2 DEF StatGeneration, ReadHolder, StatClaim
        <4>3. CASE MakeClaim(p)
          BY <3>0, <4>3 DEF MakeClaim
        <4>4. CASE RecheckGeneration(p) \/ RecheckHolder(p) \/ RenameFails(p)
                   \/ FinallyGeneration(p) \/ FinallyHolder(p) \/ FinallyClaim(p)
          BY <3>0, <4>4 DEF RecheckGeneration, RecheckHolder, RenameFails, FinallyGeneration,
             FinallyHolder, FinallyClaim
        <4> QED
          BY <2>4, <4>1, <4>2, <4>3, <4>4
      <3>2. p \notin Inside
        BY <2>4 DEF Take, MeetDirectory, Retry, GiveUp,
           StatGeneration, ReadHolder, MakeClaim, StatClaim, RecheckGeneration, RecheckHolder,
           RenameFails, FinallyGeneration, FinallyHolder, FinallyClaim, DropClaim, At, Owning, Inside
      <3> QED
        BY <1>1, <3>1, <3>2, InsideAfter
    <2> QED
      BY <2>1, <2>2, <2>3, <2>4
  <1> QED
    BY <1>1, <1>2, <1>4

\* Every step acquires, releases, leaves behind, dispossesses a dead holder,
\* crashes, or is invisible.
THEOREM Refinement == Spec => ImplementsExclusiveLock
  <1> USE NoneAssumption
  <1>1. Init => Abstract!Init
    BY DEF Init, Abstract!Init, Exists, Owning
  <1>2. IInv /\ [Next]_vars => [Abstract!Next]_<<Holder, Inside, running>>
    <2> SUFFICES ASSUME IInv, [Next]_vars PROVE [Abstract!Next]_<<Holder, Inside, running>>
      OBVIOUS
    <2>1. CASE UNCHANGED vars
      BY <2>1 DEF vars, Holder, Inside, Exists
    <2>2. ASSUME NEW p \in Procs, MakeDirectory(p) PROVE Abstract!Acquire(p)
      <3>1. Inside' = Inside \cup {p}
        BY <2>2, InsideAfter DEF MakeDirectory, At, PCs, Owning, IInv
      <3>2. p \in running /\ Holder = None /\ Holder' = p /\ running' = running
        BY <2>2 DEF MakeDirectory, At, Holder, Exists, IInv, TypeOK, Generation
      <3> QED
        BY <3>1, <3>2 DEF Abstract!Acquire, Holder, Inside
    <2>3. ASSUME NEW p \in Procs, RemoveDirectory(p)
          PROVE Abstract!Release(p) \/ Abstract!LeaveBehind(p)
      <3>1. p \in Inside /\ Holder = p /\ running' = running
        BY <2>3 DEF RemoveDirectory, At, Holder, Inside, Owning, IInv, OwnersAreThere
      <3>2. Inside' = Inside \ {p}
        BY <2>3, InsideAfter DEF RemoveDirectory, At, PCs, Owning, IInv
      <3>3. Holder' = None \/ Holder' = Holder
        BY <2>3 DEF RemoveDirectory, Holder, Exists
      <3> QED
        BY <3>1, <3>2, <3>3 DEF Abstract!Release, Abstract!LeaveBehind, Holder, Inside
    <2>4. ASSUME NEW p \in Procs, RenameAway(p) PROVE Abstract!Dispossess
      <3>1. Holder \in Procs \ running /\ Holder' = None /\ running' = running
        BY <2>4 DEF RenameAway, At, Holder, Exists, IInv, TypeOK, Generation, LockHolder,
           Sight, RecheckedIsInPlace, InPlace, HeldIsDead, OwnerIsMaker, Reclaiming
      <3>2. Inside' = Inside
        <4>1. PICK l \in PCs \ Owning : Goto(p, l)
          BY <2>4 DEF RenameAway, PCs, Owning
        <4>2. p \in running \ Inside
          BY <2>4 DEF RenameAway, At, Owning, Inside
        <4> QED
          BY <3>1, <4>1, <4>2, InsideAfter DEF IInv
      <3> QED
        BY <3>1, <3>2 DEF Abstract!Dispossess, Holder, Inside
    <2>5. ASSUME NEW p \in Procs, Crash(p) PROVE Abstract!Crash(p)
      <3>1. Holder' = Holder /\ running' = running \ {p} /\ p \in running
        BY <2>5 DEF Crash, Holder, Exists
      <3>2. Inside' = Inside \ {p}
        BY <2>5 DEF Crash, Goto, Inside, Owning, IInv, TypeOK
      <3> QED
        BY <3>1, <3>2 DEF Abstract!Crash, Holder, Inside
    <2> QED
      BY <2>1, <2>2, <2>3, <2>4, <2>5, Invisible
         DEF Next, Step, Reclaim, Release, Abstract!Next
  <1> QED
    BY <1>1, <1>2, Invariance, PTL
       DEF Spec, ImplementsExclusiveLock, Abstract!Spec, Abstract!vars, Holder, Inside
=============================================================================
