------------------------------- MODULE PushLock -------------------------------
(***************************************************************************)
(* The advisory push lock of the transfer CLI (broker/cli.py, acquire_lock    *)
(* and release_lock): one lock file per path as the user spelled it, created  *)
(* with O_EXCL, broken by whoever finds it too old, removed by name.          *)
(*                                                                         *)
(* Every system call is a step of its own: the processes share nothing but    *)
(* the directory.  A run of the CLI takes the lock at most once, so a lock    *)
(* file is known by the run that created it.                                 *)
(***************************************************************************)
EXTENDS Integers

CONSTANTS
  Runs,        \* the runs of the CLI
  Names,       \* the remote paths, as they are spelled on the command line
  StaleAfter,  \* LOCK_STALE_SECONDS
  Times,       \* the readings of the clock
  Null

ASSUME LockAssumption ==
  /\ Times \subseteq Nat
  /\ StaleAfter \in Nat
  /\ Null \notin Runs
  /\ Null \notin [owner : Runs, mtime : Nat]

VARIABLES
  clock,      \* time.time()
  lockfile,   \* lockfile[n]: the file at lock_path(n): its creator and its mtime
  step,       \* step[p]: how far run p is with the lock
  lockname,   \* lockname[p]: the path run p locks
  displaced,  \* history: the runs whose lock file somebody else removed
  overaged    \* history: some run has found a lock too old

lockVars == <<clock, lockfile, step, lockname, displaced, overaged>>

LockSteps == {"none", "opening", "probing", "breaking", "reopening", "held",
              "refused", "released", "dead"}

LockFile == [owner : Runs, mtime : Times]

LockInit ==
  /\ clock \in Times
  /\ \A t \in Times : clock <= t
  /\ lockfile = [n \in Names |-> Null]
  /\ step = [p \in Runs |-> "none"]
  /\ lockname = [p \in Runs |-> Null]
  /\ displaced = {}
  /\ overaged = FALSE

MoveTo(p, s) == step' = [step EXCEPT ![p] = s]

\* acquire_lock is called.
Acquire(p, n) ==
  /\ step[p] = "none"
  /\ MoveTo(p, "opening")
  /\ lockname' = [lockname EXCEPT ![p] = n]
  /\ UNCHANGED <<clock, lockfile, displaced, overaged>>

\* Mutant: without O_EXCL.
Open_Shared(p) ==
  /\ step[p] \in {"opening", "reopening"}
  /\ lockfile' = [lockfile EXCEPT ![lockname[p]] = [owner |-> p, mtime |-> clock]]
  /\ MoveTo(p, "held")
  /\ UNCHANGED <<clock, lockname, displaced, overaged>>

\* os.open(O_CREAT | O_EXCL), for the first time or after breaking a lock; on a
\* name that is taken, the first attempt goes on to look at its age and the
\* second one gives up.
Open(p) ==
  LET n == lockname[p] IN
  /\ step[p] \in {"opening", "reopening"}
  /\ \/ /\ lockfile[n] = Null
        /\ lockfile' = [lockfile EXCEPT ![n] = [owner |-> p, mtime |-> clock]]
        /\ MoveTo(p, "held")
     \/ /\ lockfile[n] # Null
        /\ MoveTo(p, IF step[p] = "opening" THEN "probing" ELSE "refused")
        /\ UNCHANGED lockfile
  /\ UNCHANGED <<clock, lockname, displaced, overaged>>

\* Mutant: a live lock is broken too.
Probe_Impatient(p) ==
  /\ step[p] = "probing"
  /\ MoveTo(p, "breaking")
  /\ UNCHANGED <<clock, lockfile, lockname, displaced, overaged>>

\* stat: too old, or live.  A file that has just gone counts as live.
Probe(p) ==
  LET f == lockfile[lockname[p]]
      old == f # Null /\ clock - f.mtime > StaleAfter IN
  /\ step[p] = "probing"
  /\ MoveTo(p, IF old THEN "breaking" ELSE "refused")
  /\ overaged' = (overaged \/ old)
  /\ UNCHANGED <<clock, lockfile, lockname, displaced>>

\* unlink by name, whatever file has the name by now.
Unlink(p) ==
  LET n == lockname[p] IN
  /\ lockfile' = [lockfile EXCEPT ![n] = Null]
  /\ displaced' = IF lockfile[n] = Null \/ lockfile[n].owner = p THEN displaced
                  ELSE displaced \cup {lockfile[n].owner}

Break(p) ==
  /\ step[p] = "breaking"
  /\ Unlink(p)
  /\ MoveTo(p, "reopening")
  /\ UNCHANGED <<clock, lockname, overaged>>

\* release_lock.
Release(p) ==
  /\ step[p] = "held"
  /\ Unlink(p)
  /\ MoveTo(p, "released")
  /\ UNCHANGED <<clock, lockname, overaged>>

\* The run is killed: its lock file stays.
Die(p) ==
  /\ MoveTo(p, "dead")
  /\ UNCHANGED <<clock, lockfile, lockname, displaced, overaged>>

LockTick ==
  /\ clock' \in Times
  /\ clock' > clock
  /\ UNCHANGED <<lockfile, step, lockname, displaced, overaged>>

LockNext ==
  \/ \E p \in Runs :
       \/ \E n \in Names : Acquire(p, n)
       \/ Open(p) \/ Probe(p) \/ Break(p) \/ Release(p) \/ Die(p)
  \/ LockTick

LockSpec == LockInit /\ [][LockNext]_lockVars

-----------------------------------------------------------------------------
(* Properties *)

\* Type invariant of the push lock.
LockTypeOK ==
  /\ clock \in Times
  /\ lockfile \in [Names -> LockFile \cup {Null}]
  /\ step \in [Runs -> LockSteps]
  /\ lockname \in [Runs -> Names \cup {Null}]
  /\ displaced \subseteq Runs
  /\ overaged \in BOOLEAN

Holds(p, n) == step[p] = "held" /\ lockname[p] = n

\* One push per path (cli.py:17, :207-209): two runs hold the lock of one path
\* only if the file of one of them was taken away from it.
PushesAreExclusive ==
  \A n \in Names : \A p, q \in Runs :
    Holds(p, n) /\ Holds(q, n) => p = q \/ p \in displaced \/ q \in displaced

\* And no run is robbed of its lock, not even by a run that was robbed before,
\* until some lock has outlived LOCK_STALE_SECONDS.
NobodyIsRobbed == displaced # {} => overaged
=============================================================================
