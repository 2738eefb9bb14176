--------------------------- MODULE PushLock_proofs ---------------------------
(***************************************************************************)
(* The push lock does what an advisory lock can do, for any number of runs,   *)
(* paths and clock readings.                                                *)
(***************************************************************************)
EXTENDS PushLock, TLAPS

\* Whoever is past the call of acquire_lock knows the path it locks.
NamesTheLock(p) == step[p] \notin {"none", "dead"} => lockname[p] \in Names

\* The lock file of a run that holds the lock is there, and it is its own.
OwnsItsFile(p) ==
  step[p] = "held" /\ p \notin displaced =>
    /\ lockfile[lockname[p]] # Null
    /\ lockfile[lockname[p]].owner = p

\* Locks are broken after one has been found too old.
BreaksTheOld(p) == step[p] = "breaking" => overaged

LockInv ==
  /\ LockTypeOK
  /\ \A p \in Runs : NamesTheLock(p) /\ OwnsItsFile(p) /\ BreaksTheOld(p)
  /\ NobodyIsRobbed

LEMMA InitLockInv == LockInit => LockInv
  BY LockAssumption
  DEF LockInit, LockInv, LockTypeOK, LockSteps, NamesTheLock, OwnsItsFile, BreaksTheOld, NobodyIsRobbed

\* Removing the file of a path takes it from nobody, or from a run that is then
\* displaced.
LEMMA UnlinkKeeps ==
  ASSUME NEW p \in Runs, LockInv, lockname[p] \in Names, Unlink(p)
  PROVE  /\ lockfile' \in [Names -> LockFile \cup {Null}]
         /\ displaced' \subseteq Runs
         /\ displaced \subseteq displaced'
         /\ \A q \in Runs \ {p} :
              step[q] = "held" /\ q \notin displaced' =>
                /\ lockfile'[lockname[q]] # Null
                /\ lockfile'[lockname[q]].owner = q
  <1>1. lockfile[lockname[p]] = Null \/ lockfile[lockname[p]] \in LockFile
    BY DEF LockInv, LockTypeOK
  <1>2. /\ lockfile' \in [Names -> LockFile \cup {Null}]
        /\ displaced' \subseteq Runs
        /\ displaced \subseteq displaced'
    BY <1>1 DEF LockInv, LockTypeOK, Unlink, LockFile
  <1>3. ASSUME NEW q \in Runs \ {p}, step[q] = "held", q \notin displaced'
        PROVE  lockfile'[lockname[q]] # Null /\ lockfile'[lockname[q]].owner = q
    <2>1. /\ lockname[q] \in Names
          /\ lockfile[lockname[q]] # Null
          /\ lockfile[lockname[q]].owner = q
      BY <1>2, <1>3 DEF LockInv, NamesTheLock, OwnsItsFile
    <2>2. lockname[q] # lockname[p]
      BY <1>3, <2>1 DEF Unlink
    <2>. QED
      BY <2>1, <2>2 DEF Unlink, LockInv, LockTypeOK
  <1>. QED
    BY <1>2, <1>3

LEMMA LockInvStep == LockInv /\ [LockNext]_lockVars => LockInv'
  <1>. SUFFICES ASSUME LockInv, [LockNext]_lockVars
                PROVE  LockInv'
    OBVIOUS
  <1>. USE DEF MoveTo, LockSteps
  <1>t. LockTypeOK
    BY DEF LockInv
  <1>1. ASSUME NEW p \in Runs, NEW n \in Names, Acquire(p, n)
        PROVE  LockInv'
    BY <1>1, <1>t
    DEF Acquire, LockInv, LockTypeOK, NamesTheLock, OwnsItsFile, BreaksTheOld, NobodyIsRobbed
  <1>2. ASSUME NEW p \in Runs, Open(p)
        PROVE  LockInv'
    <2>. DEFINE n == lockname[p]
                f == [owner |-> p, mtime |-> clock]
    <2>1. n \in Names
      BY <1>2 DEF Open, LockInv, NamesTheLock
    <2>2. CASE lockfile[n] = Null /\ lockfile' = [lockfile EXCEPT ![n] = f] /\ MoveTo(p, "held")
      <3>1. f \in LockFile /\ f # Null /\ f.owner = p
        BY <1>t, LockAssumption DEF LockTypeOK, LockFile
      <3>2. LockTypeOK'
        BY <1>2, <1>t, <2>2, <3>1 DEF Open, LockTypeOK
      <3>3. ASSUME NEW q \in Runs
            PROVE  NamesTheLock(q)' /\ OwnsItsFile(q)' /\ BreaksTheOld(q)'
        <4>1. CASE q = p
          BY <4>1, <1>2, <1>t, <2>1, <2>2, <3>1
          DEF Open, LockTypeOK, NamesTheLock, OwnsItsFile, BreaksTheOld
        <4>2. CASE q # p
          BY <4>2, <1>2, <1>t, <2>1, <2>2
          DEF Open, LockInv, LockTypeOK, NamesTheLock, OwnsItsFile, BreaksTheOld
        <4>. QED
          BY <4>1, <4>2
      <3>. QED
        BY <1>2, <3>2, <3>3 DEF Open, LockInv, NobodyIsRobbed
    <2>3. CASE lockfile' = lockfile /\ MoveTo(p, IF step[p] = "opening" THEN "probing" ELSE "refused")
      BY <1>2, <1>t, <2>1, <2>3
      DEF Open, LockInv, LockTypeOK, NamesTheLock, OwnsItsFile, BreaksTheOld, NobodyIsRobbed
    <2>. QED
      BY <1>2, <2>2, <2>3 DEF Open
  <1>3. ASSUME NEW p \in Runs, Probe(p)
        PROVE  LockInv'
    <2>. DEFINE old == lockfile[lockname[p]] # Null /\ clock - lockfile[lockname[p]].mtime > StaleAfter
    <2>1. CASE old
      BY <1>3, <1>t, <2>1
      DEF Probe, LockInv, LockTypeOK, NamesTheLock, OwnsItsFile, BreaksTheOld, NobodyIsRobbed
    <2>2. CASE ~old
      BY <1>3, <1>t, <2>2
      DEF Probe, LockInv, LockTypeOK, NamesTheLock, OwnsItsFile, BreaksTheOld, NobodyIsRobbed
    <2>. QED
      BY <2>1, <2>2
  <1>4. ASSUME NEW p \in Runs, NEW s \in {"reopening", "released"},
               step[p] \notin {"none", "dead"}, Unlink(p), MoveTo(p, s),
               UNCHANGED <<clock, lockname, overaged>>, NobodyIsRobbed'
        PROVE  LockInv'
    <2>1. lockname[p] \in Names
      BY <1>4 DEF LockInv, NamesTheLock
    <2>2. /\ lockfile' \in [Names -> LockFile \cup {Null}]
          /\ displaced' \subseteq Runs
          /\ displaced \subseteq displaced'
          /\ \A q \in Runs \ {p} :
               step[q] = "held" /\ q \notin displaced' =>
                 /\ lockfile'[lockname[q]] # Null
                 /\ lockfile'[lockname[q]].owner = q
      BY <1>4, <2>1, UnlinkKeeps
    <2>3. LockTypeOK'
      BY <1>4, <1>t, <2>2 DEF LockTypeOK
    <2>4. ASSUME NEW q \in Runs
          PROVE  NamesTheLock(q)' /\ OwnsItsFile(q)' /\ BreaksTheOld(q)'
      <3>1. CASE q = p
        BY <3>1, <1>4, <1>t, <2>1
        DEF LockTypeOK, NamesTheLock, OwnsItsFile, BreaksTheOld
      <3>2. CASE q # p
        BY <3>2, <1>4, <1>t, <2>2
        DEF LockInv, LockTypeOK, NamesTheLock, OwnsItsFile, BreaksTheOld
      <3>. QED
        BY <3>1, <3>2
    <2>. QED
      BY <1>4, <2>3, <2>4 DEF LockInv
  <1>5. ASSUME NEW p \in Runs, Break(p)
        PROVE  LockInv'
    <2>1. NobodyIsRobbed'
      BY <1>5 DEF Break, LockInv, BreaksTheOld, NobodyIsRobbed
    <2>. QED
      BY <1>4, <1>5, <2>1 DEF Break
  <1>6. ASSUME NEW p \in Runs, Release(p)
        PROVE  LockInv'
    <2>1. NobodyIsRobbed'
      <3>1. CASE p \in displaced
        BY <1>6, <3>1 DEF Release, LockInv, NobodyIsRobbed
      <3>2. CASE p \notin displaced
        BY <1>6, <3>2 DEF Release, Unlink, LockInv, OwnsItsFile, NobodyIsRobbed
      <3>. QED
        BY <3>1, <3>2
    <2>. QED
      BY <1>4, <1>6, <2>1 DEF Release
  <1>7. ASSUME NEW p \in Runs, Die(p)
        PROVE  LockInv'
    BY <1>7, <1>t
    DEF Die, LockInv, LockTypeOK, NamesTheLock, OwnsItsFile, BreaksTheOld, NobodyIsRobbed
  <1>8. CASE LockTick
    BY <1>8, <1>t
    DEF LockTick, LockInv, LockTypeOK, NamesTheLock, OwnsItsFile, BreaksTheOld, NobodyIsRobbed
  <1>9. CASE UNCHANGED lockVars
    BY <1>9, <1>t
    DEF lockVars, LockInv, LockTypeOK, NamesTheLock, OwnsItsFile, BreaksTheOld, NobodyIsRobbed
  <1>. QED
    BY <1>1, <1>2, <1>3, <1>5, <1>6, <1>7, <1>8, <1>9 DEF LockNext

LEMMA LockInvHolds == LockSpec => []LockInv
  BY InitLockInv, LockInvStep, PTL DEF LockSpec

LEMMA LockInvExcludes == LockInv => PushesAreExclusive
  BY DEF LockInv, OwnsItsFile, PushesAreExclusive, Holds

\* The variables of the lock keep their types (acquire_lock, release_lock).
THEOREM LockTypeCorrect == LockSpec => []LockTypeOK
  <1>1. LockInv => LockTypeOK
    BY DEF LockInv
  <1>. QED
    BY <1>1, LockInvHolds, PTL

\* O_EXCL gives the lock of a path to one run, and to a second one only after
\* the file of the first was removed (acquire_lock).
THEOREM Exclusion == LockSpec => []PushesAreExclusive
  BY LockInvHolds, LockInvExcludes, PTL

\* release_lock removes a file by name; it removes the file of another run only
\* if a lock had outlived LOCK_STALE_SECONDS.
THEOREM NoRobbery == LockSpec => []NobodyIsRobbed
  <1>1. LockInv => NobodyIsRobbed
    BY DEF LockInv
  <1>. QED
    BY <1>1, LockInvHolds, PTL
=============================================================================
