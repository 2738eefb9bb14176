------------------------- MODULE TransferProperties -------------------------
(***************************************************************************)
(* What the transfer CLI owes its user, as properties of Transfer.           *)
(***************************************************************************)
EXTENDS Transfer

Idle == {"idle", "done", "killed"}

Pcs == Idle \cup {"collecting", "locking", "calling", "verifying", "opening", "writing",
                  "publishing", "noting", "naming", "releasing"}

Run == [cmd : Commands \cup {Null}, pc : Pcs, name : Names \cup {Null},
        data : Contents \cup {Null}, key : Contents \cup {Null},
        record : Record \cup {Null}, inode : Runs \cup {Null},
        doomed : ({"tmp", "staged", "note", "manifest"} \X Contents) \cup {Null}, exit : 0..4 \cup {Null}]

\* Type invariant.
TransferTypeOK ==
  /\ LockTypeOK
  /\ run \in [Runs -> Run]
  /\ call \in [Runs -> Call \cup {Null}]
  /\ serving \in Runs \cup {Null}
  /\ remote \in [Files -> Contents] /\ rlock \in [Files -> Runs \cup {Null}]
  /\ \A entries \in {tmp, staged} : entries \in [Contents -> Runs \cup {Null}]
  /\ \A entries \in {note, manifest} : entries \in [Contents -> Record \cup {Null}]
  /\ complete \subseteq Runs /\ aged \subseteq Entries
  /\ known \in [Runs -> Contents \cup {Null}] /\ landed \in [Runs -> 0..1]
  /\ budget \in [faults : 0..MaxFaults, meddling : 0..MaxMeddling, weeks : 0..MaxWeeks]

\* A checkin overwrites what its checkout returned, never the work of somebody
\* else ("the fetched bytes are the locked revision", nextcloud.py:389-390).
CheckinReplacesItsCheckout ==
  [][\A p \in Runs :
       landed'[p] > landed[p] /\ call[p].token # Null
         => remote[call[p].file] = known[call[p].token]]_transferVars

\* The broker gives a lock up only once the checkin that spends its token has
\* been written (checkin, nextcloud.py:405-423).
LocksEndWithTheirWork ==
  [][\A f \in Files :
       rlock[f] # Null /\ rlock'[f] = Null /\ budget'.meddling = budget.meddling
         => \E p \in Runs : call[p] # Null /\ call[p].token = rlock[f] /\ landed[p] = 1]_transferVars

\* The contract agents branch on (cli.py:23-28): 0 is said of a write that was
\* carried out, and of a checkin that left no lock; 3 of a call of which nothing
\* was, or will be, carried out; 4 of a write that was.
ExitCodesTellTheTruth ==
  \A p \in Runs : run[p].pc = "done" =>
    CASE run[p].exit = 0 ->
           /\ run[p].cmd \in {"push", "checkin"} => landed[p] = 1
           /\ run[p].cmd = "checkin" => \A f \in Files : rlock[f] # run[p].record.token
      [] run[p].exit = 3 -> landed[p] = 0 /\ call[p] = Null /\ \A f \in Files : rlock[f] # p
      [] run[p].exit = 4 -> landed[p] = 1
      [] OTHER -> TRUE

\* The advisory lock does its work: while a run holds the lock of a path, what is
\* written under that path by another is late - its author has given up, or one
\* of the two has lost its lock (cmd_push, cmd_checkin).
WritesAreExclusive ==
  [][\A p, q \in Runs :
       landed'[p] > landed[p] /\ p # q /\ Holds(q, run[p].name)
         => ~Waiting(p) \/ p \in displaced \/ q \in displaced]_transferVars

\* A staged file has all of its bytes (temp + fsync + rename, cli.py:350-358),
\* unless two runs stage the same content at once: they share the temporary
\* file, and one may rename what the other has just truncated.
StagedIsWhole ==
  \A d \in Contents : staged[d] # Null /\ staged[d] \notin complete
    => \E p, q \in Runs : /\ p # q
                          /\ run[p].inode = staged[d] /\ run[p].pc \in {"writing", "killed"}
                          /\ run[q].inode # Null /\ run[q].key = d

\* The token of a checkout that ended well stays in a manifest as long as the
\* file is locked with it, unless a run staged the same content, or a week went
\* by (write_manifest, gc_staging).
TokensAreKept ==
  \A f \in Files : LET t == rlock[f] IN
    t # Null /\ run[t].exit = 0 =>
      \/ \E d \in Contents : manifest[d] # Null /\ manifest[d].token = t
      \/ \E q \in Runs \ {t} : run[q].key = run[t].key
      \/ budget.weeks > 0

\* "one command, one manifest, the lock token staged with the content"
\* (cmd_checkout): once all have ended, and nothing failed, the token of every
\* lock in force is in a manifest.
LocksAreRecoverable ==
  (\A p \in Runs : run[p].pc \in {"idle", "done"}) /\ budget.faults = 0 /\ budget.weeks = 0 =>
    \A f \in Files : rlock[f] # Null =>
      \E d \in Contents : manifest[d] # Null /\ manifest[d].token = rlock[f]
=============================================================================
