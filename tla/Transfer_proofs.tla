--------------------------- MODULE Transfer_proofs ---------------------------
(***************************************************************************)
(* Every safety property of the commands of the CLI at work with the broker, *)
(* for any number of runs, files, spellings and contents, and any bounds.     *)
(*                                                                         *)
(* The commands use the push lock as the lock is meant to be used, so that    *)
(* what PushLock_proofs proves is true of them.  The other properties rest on *)
(* four invariants, each inductive relative to those before it:               *)
(*   TransferInv  what a run is doing, what it knows, and what its call is;   *)
(*   LocksInv     who holds a remote lock, who knows its token, and what its  *)
(*                holder was told of the file;                                *)
(*   StagingInv   which run named a staged file, and who is writing it;       *)
(*   KeptInv      where the manifest of a checkout is.                        *)
(***************************************************************************)
EXTENDS TransferProperties, PushLock_proofs, SequenceTheorems
\* A step of a command is a step of the lock, or leaves the lock alone.
LEMMA StepOfTheLock ==
  ASSUME TransferNext
  PROVE  [LockNext]_lockVars
  <1>1. ASSUME NEW p \in Runs, Start(p)
        PROVE  [LockNext]_lockVars
    <2>1. CASE \E n \in Names, c \in Drafts : StartPush(p, n, c)
      BY <2>1 DEF StartPush, LockNext
    <2>2. CASE \E n \in Names, c \in Drafts : StartCheckin(p, n, c)
      BY <2>2 DEF StartCheckin, LockNext
    <2>3. CASE \E cmd \in Commands, n \in Names \cup {Null} : StartCollecting(p, cmd, n)
      BY <2>3 DEF StartCollecting, StageFrame
    <2>. QED
      BY <1>1, <2>1, <2>2, <2>3 DEF Start
  <1>2. ASSUME NEW p \in Runs, RunStep(p)
        PROVE  [LockNext]_lockVars
    <2>1. CASE Locking(p)
      BY <2>1 DEF Locking, LockNext
    <2>2. CASE Finish(p)
      BY <2>2 DEF Finish, LockNext
    <2>3. CASE Condemn(p) \/ Collect(p) \/ Collected(p)
      BY <2>3 DEF Condemn, Collect, Collected, StageFrame
    <2>4. CASE LockRefused(p) \/ CallBroker(p) \/ HearWritten(p)
      BY <2>4 DEF LockRefused, CallBroker, HearWritten
    <2>5. CASE HearFailure(p) \/ HearContent(p) \/ HearCheckedIn(p) \/ HearReadBack(p)
      BY <2>5 DEF HearFailure, HearContent, HearCheckedIn, HearReadBack, Heard
    <2>6. CASE OpenTmp(p) \/ WriteTmp(p) \/ Publish(p) \/ NoteManifest(p) \/ NameManifest(p)
      BY <2>6 DEF OpenTmp, WriteTmp, Publish, NoteManifest, NameManifest, StageFrame
    <2>. QED
      BY <1>2, <2>1, <2>2, <2>3, <2>4, <2>5, <2>6 DEF RunStep
  <1>3. ASSUME NEW p \in Runs, BrokerStep(p)
        PROVE  [LockNext]_lockVars
    BY <1>3 DEF BrokerStep, Serve, ServeRejected, ServeFails, ServeRefused, ServeFrame
  <1>4. ASSUME NEW p \in Runs, GiveUp(p)
        PROVE  [LockNext]_lockVars
    BY <1>4 DEF GiveUp
  <1>5. ASSUME NEW p \in Runs, Kill(p)
        PROVE  [LockNext]_lockVars
    BY <1>5 DEF Kill, LockNext
  <1>6. ASSUME NEW f \in Files, LockEnds(f) \/ \E c \in Contents : OthersWrite(f, c)
        PROVE  [LockNext]_lockVars
    BY <1>6 DEF LockEnds, OthersWrite
  <1>7. CASE TransferTick
    BY <1>7 DEF TransferTick, LockNext
  <1>8. CASE WeekPasses
    BY <1>8 DEF WeekPasses
  <1>9. CASE AllDone
    BY <1>9 DEF AllDone, transferVars
  <1>. QED
    BY <1>1, <1>2, <1>3, <1>4, <1>5, <1>6, <1>7, <1>8, <1>9 DEF TransferNext

\* The commands implement the lock protocol (cmd_push, cmd_checkin): each takes
\* the lock once, and releases it only when it has it.
THEOREM UsesTheLock == TransferSpec => LockSpec
  <1>1. TransferInit => LockInit
    BY DEF TransferInit
  <1>2. [TransferNext]_transferVars => [LockNext]_lockVars
    BY StepOfTheLock DEF transferVars
  <1>. QED
    BY <1>1, <1>2, PTL DEF TransferSpec, LockSpec

\* One push per path, in the commands themselves (cmd_push, cmd_checkin).
THEOREM CommandsExclude == TransferSpec => []PushesAreExclusive
  BY UsesTheLock, Exclusion, PTL

-----------------------------------------------------------------------------
(* The invariant of a run: what it is doing, what it knows, its call *)

\* What a run may be at, and what it has at hand there.
PlaceOK(p) ==
  LET r == run[p] IN
  /\ r.pc = "idle" => r = NewRun
  /\ r.pc = "collecting" => r.cmd \in {"fetch", "checkout", "gc"}
  /\ r.pc \in {"locking", "releasing"} => r.cmd \in {"push", "checkin"}
  /\ r.pc = "calling" => r.cmd \in {"fetch", "checkout", "push", "checkin"}
  /\ r.pc = "verifying" => r.cmd = "push"
  /\ r.pc \in {"opening", "writing", "publishing"} => r.cmd \in {"fetch", "checkout"}
  /\ r.pc \in {"noting", "naming"} => r.cmd \in {"fetch", "checkout", "checkin"}
  /\ r.pc \notin Idle /\ r.cmd # "gc" => r.name \in Names
  /\ r.pc = "locking" => r.data \in Contents
  /\ \/ r.pc \in {"opening", "writing", "publishing", "noting", "naming"}
     \/ r.cmd = "checkin" /\ r.pc \in {"locking", "calling"}
     => r.key \in Contents /\ r.record \in Record
  /\ r.cmd \in {"fetch", "checkout"} /\ r.pc \in {"collecting", "calling"} => r.key = Null
  /\ r.pc \in {"collecting", "locking", "calling", "opening"} => r.inode = Null
  /\ r.pc \in {"writing", "publishing"} => r.inode \in Runs
  /\ r.pc \notin {"releasing", "done", "killed"} => r.exit = Null

\* push and checkin hold the lock of the path they work on.
LockedOK(p) ==
  LET r == run[p] IN
  r.cmd \in {"push", "checkin"} =>
    /\ r.pc = "locking" => lockname[p] = r.name
    /\ r.pc \in {"calling", "verifying", "noting", "naming", "releasing"} => Holds(p, r.name)

\* The call of a run is the one that its command makes at this point.
CallOK(p) ==
  LET r == run[p]
      c == call[p] IN
  /\ c = Null => ~Waiting(p) /\ serving # p
  /\ c # Null =>
       /\ r.pc \in {"calling", "verifying", "releasing", "done", "killed"} /\ r.exit # 3
       /\ r.cmd \in {"fetch", "checkout", "push", "checkin"}
       /\ r.cmd = "fetch" => c.tool = "read"
       /\ r.cmd = "push" => c.tool \in {"write", "read"}
       /\ r.cmd \in {"checkout", "checkin"} => c.tool = r.cmd
       /\ r.cmd = "push" /\ Waiting(p) => (c.tool = "read" <=> r.pc = "verifying")
       /\ r.cmd \in {"fetch", "checkout"} => r.key = Null
       /\ r.cmd = "checkin" => r.record \in Record
       /\ c.file = FileOf[r.name]
       /\ c.token = IF r.cmd = "checkin" THEN r.record.token ELSE Null
       /\ c.tool \in {"write", "checkin"} => c.data \in Contents
       /\ c.reply # Null => Waiting(p) /\ serving # p
       /\ c.reply = Null => \/ c.todo = Stages(c.tool)
                            \/ serving = p /\ c.tool = "checkout" /\ c.todo = <<"GET">>
                            \/ serving = p /\ c.tool = "checkin" /\ c.todo = <<"UNLOCK">>
       /\ c.reply = "ok" /\ c.tool \in {"read", "checkout"} => c.got \in Contents

\* What was carried out for a run, against what it has said and been told.
LandedOK(p) ==
  LET r == run[p]
      c == call[p] IN
  /\ r.pc \in {"idle", "collecting", "locking"} => landed[p] = 0
  /\ r.cmd \in {"fetch", "checkout"} => landed[p] = 0
  /\ r.cmd = "checkin" /\ r.pc \in {"noting", "naming"} => landed[p] = 1
  /\ r.pc = "verifying" => landed[p] = 1
  /\ r.exit = 0 /\ r.cmd \in {"push", "checkin"} => landed[p] = 1
  /\ r.exit = 3 => landed[p] = 0
  /\ r.exit = 4 => landed[p] = 1
  /\ c # Null =>
       /\ c.reply = Null /\ c.tool \in {"write", "checkin"} =>
            landed[p] = IF c.todo = <<"UNLOCK">> THEN 1 ELSE 0
       /\ c.reply = "ok" /\ c.tool \in {"write", "checkin"} => landed[p] = 1
       /\ c.reply = "refused" /\ r.pc = "calling" => landed[p] = 0

\* What a run stages is younger than a week.
YoungOK(p) ==
  LET r == run[p] IN
  /\ r.pc \in {"writing", "publishing"} => <<"tmp", r.key>> \notin aged
  /\ r.pc = "naming" => <<"note", r.key>> \notin aged

RunOK(p) == PlaceOK(p) /\ LockedOK(p) /\ CallOK(p) /\ LandedOK(p) /\ YoungOK(p)

TransferInv == TransferTypeOK /\ \A p \in Runs : RunOK(p)

-----------------------------------------------------------------------------
(* The invariant of the remote locks and their tokens *)

\* The checkout t was told that it has its file, and its lock.
Obtained(t) == t \in Runs /\ run[t].cmd = "checkout" /\ run[t].key # Null

\* A token in a manifest is one that a checkout was given.
RecordOK(record) == record # Null => record.token = Null \/ Obtained(record.token)

TokensOK ==
  /\ \A d \in Contents : RecordOK(note[d]) /\ RecordOK(manifest[d])
  /\ \A p \in Runs :
       /\ RecordOK(run[p].record)
       /\ run[p].cmd = "checkin" /\ run[p].record # Null => run[p].record.token # Null

\* A file is locked by a checkout that asked for it, and was not refused.
LockedByOK(f) ==
  LET t == rlock[f] IN
  t # Null =>
    /\ run[t].cmd = "checkout" /\ f = FileOf[run[t].name]
    /\ run[t].pc \notin {"idle", "collecting"} /\ run[t].exit # 3
    /\ call[t] # Null => \/ call[t].todo = <<"GET">> /\ call[t].reply # "refused"
                         \/ call[t].reply = "error"

\* What the holder of a lock was told the file holds is what it holds.
KnownOK(f) ==
  LET t == rlock[f] IN
  t # Null /\ (Obtained(t) \/ (call[t] # Null /\ call[t].reply = "ok")) => known[t] = remote[f]

\* A checkin that is done at the broker has left no lock.
UnlockedOK(p) ==
  LET r == run[p] IN
  r.cmd = "checkin" =>
    /\ r.exit = 0 \/ r.pc \in {"noting", "naming"} => r.record # Null
    /\ \/ r.exit = 0 \/ r.pc \in {"noting", "naming"}
       \/ call[p] # Null /\ call[p].reply = "ok"
       => \A f \in Files : rlock[f] # r.record.token

LocksInv ==
  /\ TokensOK
  /\ \A f \in Files : LockedByOK(f) /\ KnownOK(f)
  /\ \A p \in Runs : UnlockedOK(p)

-----------------------------------------------------------------------------
(* The invariant of the staging directory *)

\* A file in the staging directory is named for the content of the run that
\* created it, and is there under one name.
InodeOK(d) ==
  /\ tmp[d] # Null => run[tmp[d]].key = d /\ run[tmp[d]].inode = tmp[d]
  /\ staged[d] # Null => run[staged[d]].key = d /\ run[staged[d]].inode = staged[d]
  /\ tmp[d] # Null => tmp[d] # staged[d]

\* A temporary file that lacks bytes is being written, or its writer was killed.
WrittenOK(d) ==
  tmp[d] # Null /\ tmp[d] \notin complete =>
    \E p \in Runs : run[p].inode = tmp[d] /\ run[p].pc \in {"writing", "killed"}

StagingInv == (\A d \in Contents : InodeOK(d) /\ WrittenOK(d)) /\ StagedIsWhole

-----------------------------------------------------------------------------
(* The invariant of the manifests *)

Alone(t) == \A q \in Runs \ {t} : run[q].key # run[t].key

\* A checkout that has its content alone finds its manifest where it put it.
KeptOK(t) ==
  LET r == run[t] IN
  r.cmd = "checkout" =>
    /\ r.pc \in {"opening", "writing", "publishing", "noting", "naming"} => r.record.token = t
    /\ r.exit = 0 => r.key \in Contents
    /\ r.pc = "naming" /\ Alone(t) => note[r.key] = r.record
    /\ r.exit = 0 /\ Alone(t) => manifest[r.key] # Null /\ manifest[r.key].token = t

KeptInv ==
  budget.weeks = 0 =>
    /\ aged = {}
    /\ \A t \in Runs : run[t].doomed = Null /\ KeptOK(t)

\* A step leaves q alone: what it is doing, its call, its part in the lock.
Untouched(q) ==
  /\ run'[q] = run[q] /\ call'[q] = call[q] /\ landed'[q] = landed[q]
  /\ step'[q] = step[q] /\ lockname'[q] = lockname[q]
  /\ serving' = q <=> serving = q

LEMMA UntouchedKeeps ==
  ASSUME NEW q \in Runs, RunOK(q), Untouched(q), aged' \subseteq aged
  PROVE  RunOK(q)'
  <1>1. PlaceOK(q)'
    BY DEF RunOK, PlaceOK, Untouched
  <1>2. LockedOK(q)'
    BY DEF RunOK, LockedOK, Untouched, Holds
  <1>3. CallOK(q)'
    BY DEF RunOK, CallOK, Untouched, Waiting
  <1>4. LandedOK(q)'
    BY DEF RunOK, LandedOK, Untouched
  <1>5. YoungOK(q)'
    BY DEF RunOK, YoungOK, Untouched
  <1>. QED
    BY <1>1, <1>2, <1>3, <1>4, <1>5 DEF RunOK

\* A step of p within the lock leaves the other runs alone.
LEMMA LockStepIsOnesOwn ==
  ASSUME LockTypeOK, NEW p \in Runs, NEW q \in Runs \ {p},
         \/ \E n \in Names : Acquire(p, n)
         \/ Open(p) \/ Probe(p) \/ Break(p) \/ Release(p) \/ Die(p)
         \/ UNCHANGED lockVars
  PROVE  step'[q] = step[q] /\ lockname'[q] = lockname[q]
  BY DEF LockTypeOK, Acquire, Open, Probe, Break, Release, Die, MoveTo, lockVars

LEMMA StepKeeps ==
  ASSUME TransferInv, NEW p \in Runs, TransferTypeOK', RunOK(p)', aged' \subseteq aged,
         \A q \in Runs \ {p} : Untouched(q)
  PROVE  TransferInv'
  BY UntouchedKeeps DEF TransferInv

LEMMA InitTransferInv == TransferInit => TransferInv
  <1>. SUFFICES ASSUME TransferInit
                PROVE  TransferInv
    OBVIOUS
  <1>. USE LockAssumption, TransferAssumption, NothingAssumption
  <1>1. LockTypeOK
    BY InitLockInv DEF TransferInit, LockInv
  <1>2. NewRun \in Run
    BY DEF NewRun, Run, Pcs, Idle
  <1>3. /\ run \in [Runs -> Run] /\ call \in [Runs -> Call \cup {Null}]
        /\ serving \in Runs \cup {Null}
        /\ remote \in [Files -> Contents] /\ rlock \in [Files -> Runs \cup {Null}]
        /\ known \in [Runs -> Contents \cup {Null}] /\ landed \in [Runs -> 0..1]
    BY <1>2 DEF TransferInit
  <1>4. /\ tmp \in [Contents -> Runs \cup {Null}] /\ staged \in [Contents -> Runs \cup {Null}]
        /\ note \in [Contents -> Record \cup {Null}] /\ manifest \in [Contents -> Record \cup {Null}]
        /\ complete \subseteq Runs /\ aged \subseteq Entries
    BY DEF TransferInit
  <1>5. budget \in [faults : 0..MaxFaults, meddling : 0..MaxMeddling, weeks : 0..MaxWeeks]
    BY DEF TransferInit
  <1>6. TransferTypeOK
    BY <1>1, <1>3, <1>4, <1>5 DEF TransferTypeOK
  <1>7. ASSUME NEW p \in Runs
        PROVE  RunOK(p)
    <2>1. /\ run[p] = NewRun /\ call[p] = Null /\ landed[p] = 0 /\ aged = {} /\ serving = Null
      BY DEF TransferInit
    <2>. QED
      BY <2>1
      DEF NewRun, RunOK, PlaceOK, LockedOK, CallOK, LandedOK, YoungOK, Waiting, Idle
  <1>. QED
    BY <1>6, <1>7 DEF TransferInv

-----------------------------------------------------------------------------
(* The calls *)

LEMMA Requests ==
  /\ Stages("read") = <<"GET">> /\ Stages("write") = <<"PUT">>
  /\ Stages("checkout") = <<"LOCK", "GET">> /\ Stages("checkin") = <<"PUT", "UNLOCK">>
  /\ \A verb \in Verbs : <<verb>> \in Seq(Verbs) /\ Len(<<verb>>) = 1 /\ Head(<<verb>>) = verb
  /\ \A a, b \in Verbs : /\ <<a, b>> \in Seq(Verbs) /\ Len(<<a, b>>) = 2 /\ Head(<<a, b>>) = a
                         /\ Tail(<<a, b>>) = <<b>> /\ <<a, b>> # <<"UNLOCK">> /\ <<a, b>> # <<"GET">>
  /\ <<"GET">> # <<"UNLOCK">> /\ <<"PUT">> # <<"UNLOCK">> /\ <<"PUT">> # <<"GET">>
  BY DEF Stages, Verbs

\* A new call is one that the broker knows.
LEMMA NewCallIsACall ==
  ASSUME NEW tool \in {"read", "write", "checkout", "checkin"}, NEW n \in Names,
         NEW data \in Contents \cup {Null}, NEW token \in Runs \cup {Null}
  PROVE  /\ NewCall(tool, n, data, token) \in Call
         /\ NewCall(tool, n, data, token) # Null
         /\ NewCall(tool, n, data, token).tool = tool
         /\ NewCall(tool, n, data, token).todo = Stages(tool)
         /\ NewCall(tool, n, data, token).file = FileOf[n]
         /\ NewCall(tool, n, data, token).data = data
         /\ NewCall(tool, n, data, token).token = token
         /\ NewCall(tool, n, data, token).reply = Null
  <1>1. Stages(tool) \in Seq(Verbs)
    BY Requests DEF Verbs
  <1>2. FileOf[n] \in Files
    BY TransferAssumption
  <1>3. NewCall(tool, n, data, token) \in Call
    BY <1>1, <1>2 DEF NewCall, Call
  <1>. QED
    BY <1>3, NothingAssumption DEF NewCall

\* What the broker is asked next, by the call it is in.
Asks(c, p) ==
  \/ c.tool = "read" /\ c.todo = <<"GET">>
  \/ c.tool = "write" /\ c.todo = <<"PUT">>
  \/ c.tool = "checkout" /\ c.todo = <<"LOCK", "GET">>
  \/ c.tool = "checkout" /\ c.todo = <<"GET">> /\ serving = p
  \/ c.tool = "checkin" /\ c.todo = <<"PUT", "UNLOCK">>
  \/ c.tool = "checkin" /\ c.todo = <<"UNLOCK">> /\ serving = p

LEMMA NextRequest ==
  ASSUME TransferInv, NEW p \in Runs, Pending(p)
  PROVE  Asks(call[p], p)
  <1>1. call[p] \in Call /\ CallOK(p)
    BY DEF TransferInv, TransferTypeOK, RunOK, Pending
  <1>2. call[p].tool \in {"read", "write", "checkout", "checkin"}
    BY <1>1 DEF Call
  <1>. QED
    BY <1>1, <1>2, Requests DEF CallOK, Pending, Asks

-----------------------------------------------------------------------------
(* What the steps keep of the types *)

Types ==
  /\ run \in [Runs -> Run] /\ call \in [Runs -> Call \cup {Null}] /\ serving \in Runs \cup {Null}
  /\ budget \in [faults : 0..MaxFaults, meddling : 0..MaxMeddling, weeks : 0..MaxWeeks]

RemoteTypes ==
  /\ remote \in [Files -> Contents] /\ rlock \in [Files -> Runs \cup {Null}]
  /\ known \in [Runs -> Contents \cup {Null}] /\ landed \in [Runs -> 0..1]

StagingTypes ==
  /\ tmp \in [Contents -> Runs \cup {Null}] /\ staged \in [Contents -> Runs \cup {Null}]
  /\ note \in [Contents -> Record \cup {Null}] /\ manifest \in [Contents -> Record \cup {Null}]
  /\ complete \subseteq Runs /\ aged \subseteq Entries

LEMMA TypesAre == TransferTypeOK <=> LockTypeOK /\ Types /\ RemoteTypes /\ StagingTypes
  BY DEF TransferTypeOK, Types, RemoteTypes, StagingTypes

LEMMA RemoteTypesStay ==
  ASSUME RemoteTypes, UNCHANGED remoteVars
  PROVE  RemoteTypes'
  BY DEF RemoteTypes, remoteVars

LEMMA StagingTypesStay ==
  ASSUME StagingTypes, UNCHANGED stagingVars
  PROVE  StagingTypes' /\ aged' = aged
  <1>1. Entries' = Entries
    BY DEF Entries, stagingVars
  <1>. QED
    BY <1>1 DEF StagingTypes, stagingVars

\* A step of a command that leaves the directory and the files alone.
LEMMA OwnStep ==
  ASSUME TransferInv, LockTypeOK', NEW p \in Runs, NEW r \in Run, NEW c \in Call \cup {Null},
         run' = [run EXCEPT ![p] = r], call' = [call EXCEPT ![p] = c],
         UNCHANGED <<remoteVars, stagingVars, serving>>, UNCHANGED budget \/ Fault,
         \/ \E n \in Names : Acquire(p, n)
         \/ Open(p) \/ Probe(p) \/ Break(p) \/ Release(p) \/ Die(p)
         \/ UNCHANGED lockVars,
         run'[p] = r /\ call'[p] = c /\ landed'[p] = landed[p] /\ serving' = serving => RunOK(p)'
  PROVE  TransferInv'
  <1>1. Types /\ RemoteTypes /\ StagingTypes /\ LockTypeOK
    BY TypesAre DEF TransferInv
  <1>2. Types'
    BY <1>1, TransferAssumption DEF Types, Fault, Spend
  <1>3. RemoteTypes' /\ StagingTypes' /\ aged' = aged
    BY <1>1, RemoteTypesStay, StagingTypesStay
  <1>4. TransferTypeOK'
    BY <1>2, <1>3, TypesAre DEF TransferTypeOK, Types, RemoteTypes, StagingTypes
  <1>5. ASSUME NEW q \in Runs \ {p}
        PROVE  Untouched(q)
    <2>1. step'[q] = step[q] /\ lockname'[q] = lockname[q]
      BY <1>1, LockStepIsOnesOwn
    <2>2. run'[q] = run[q] /\ call'[q] = call[q] /\ landed'[q] = landed[q] /\ serving' = serving
      BY <1>1 DEF Types, remoteVars
    <2>. QED
      BY <2>1, <2>2 DEF Untouched
  <1>6. RunOK(p)'
    BY <1>1 DEF Types, remoteVars
  <1>. QED
    BY <1>3, <1>4, <1>5, <1>6, StepKeeps

LEMMA PlacesAndCodes ==
  /\ "done" \in Pcs /\ "killed" \in Pcs /\ "collecting" \in Pcs /\ "locking" \in Pcs /\ "calling" \in Pcs
  /\ "verifying" \in Pcs /\ "opening" \in Pcs /\ "writing" \in Pcs /\ "publishing" \in Pcs
  /\ "noting" \in Pcs /\ "naming" \in Pcs /\ "releasing" \in Pcs
  /\ \A code \in {0, 1, 2, 3, 4} : code \in 0..4 \cup {Null}
  BY DEF Pcs, Idle

\* What is known of a run before it takes a step.
LEMMA Before ==
  ASSUME TransferInv, NEW p \in Runs
  PROVE  /\ run \in [Runs -> Run] /\ run[p] \in Run /\ run = [run EXCEPT ![p] = run[p]]
         /\ call \in [Runs -> Call \cup {Null}] /\ call[p] \in Call \cup {Null}
         /\ call = [call EXCEPT ![p] = call[p]]
         /\ PlaceOK(p) /\ LockedOK(p) /\ CallOK(p) /\ LandedOK(p) /\ YoungOK(p)
         /\ LockTypeOK /\ Types /\ RemoteTypes /\ StagingTypes
  BY TypesAre DEF TransferInv, TransferTypeOK, RunOK

-----------------------------------------------------------------------------
(* The steps of a command that only concern itself *)

LEMMA StartKeeps ==
  ASSUME TransferInv, LockTypeOK', NEW p \in Runs, Start(p)
  PROVE  TransferInv'
  <1>r. run[p] \in Run
    BY DEF TransferInv, TransferTypeOK
  <1>1. /\ run \in [Runs -> Run] /\ run[p] \in Run /\ call \in [Runs -> Call \cup {Null}]
        /\ call[p] \in Call \cup {Null} /\ call = [call EXCEPT ![p] = call[p]]
        /\ RunOK(p) /\ LockTypeOK /\ manifest \in [Contents -> Record \cup {Null}]
    BY DEF TransferInv, TransferTypeOK
  <1>2. ASSUME run[p].pc = "idle"
        PROVE  /\ run[p] = NewRun /\ call[p] = Null /\ landed[p] = 0 /\ serving # p
    BY <1>1, <1>2 DEF RunOK, PlaceOK, CallOK, LandedOK
  <1>3. ASSUME NEW cmd \in Commands, NEW n \in Names \cup {Null}, cmd \in {"fetch", "checkout", "gc"},
               cmd # "gc" => n \in Names, StartCollecting(p, cmd, n)
        PROVE  TransferInv'
    <2>. DEFINE r == [run[p] EXCEPT !.cmd = cmd, !.pc = "collecting", !.name = n]
    <2>1. r \in Run
      BY <1>r, PlacesAndCodes, <1>3 DEF Run
    <2>2. run' = [run EXCEPT ![p] = r] /\ call' = [call EXCEPT ![p] = call[p]]
      BY <1>1, <1>3 DEF StartCollecting, StageFrame
    <2>3. ASSUME run'[p] = r, call'[p] = call[p], landed'[p] = landed[p], serving' = serving
          PROVE  RunOK(p)'
      BY <1>1, <1>2, <1>3, <2>3, NothingAssumption
      DEF StartCollecting, RunOK, PlaceOK, LockedOK, CallOK, LandedOK, YoungOK, NewRun, Run, Idle, Waiting
    <2>4. UNCHANGED <<budget, remoteVars, stagingVars, serving, lockVars>>
      BY <1>3 DEF StartCollecting, StageFrame, CallFrame
    <2>. QED
      BY <1>1, <2>1, <2>2, <2>3, <2>4, OwnStep
  <1>4. ASSUME NEW n \in Names, NEW data \in Drafts, "push" \in Commands, StartPush(p, n, data)
        PROVE  TransferInv'
    <2>. DEFINE r == [run[p] EXCEPT !.cmd = "push", !.pc = "locking", !.name = n, !.data = data]
    <2>1. r \in Run
      BY <1>r, PlacesAndCodes, <1>4, TransferAssumption DEF Run
    <2>2. run' = [run EXCEPT ![p] = r] /\ call' = [call EXCEPT ![p] = call[p]]
      BY <1>1, <1>4 DEF StartPush
    <2>5. Acquire(p, n) /\ lockname'[p] = n
      BY <1>1, <1>4 DEF StartPush, Acquire, LockTypeOK
    <2>3. ASSUME run'[p] = r, call'[p] = call[p], landed'[p] = landed[p], serving' = serving
          PROVE  RunOK(p)'
      BY <1>1, <1>2, <1>4, <2>3, <2>5, TransferAssumption, NothingAssumption
      DEF StartPush, RunOK, PlaceOK, LockedOK, CallOK, LandedOK, YoungOK, NewRun, Run, Idle, Waiting
    <2>4. UNCHANGED <<budget, remoteVars, stagingVars, serving>>
      BY <1>4 DEF StartPush, CallFrame
    <2>. QED
      BY <1>1, <2>1, <2>2, <2>3, <2>4, <2>5, OwnStep
  <1>5. ASSUME NEW n \in Names, NEW data \in Drafts, "checkin" \in Commands, StartCheckin(p, n, data)
        PROVE  TransferInv'
    <2>1. call' = [call EXCEPT ![p] = call[p]] /\ UNCHANGED <<budget, remoteVars, stagingVars, serving>>
      BY <1>1, <1>5 DEF StartCheckin, CallFrame
    <2>2. CASE \E d \in Contents :
                 /\ Found(d)
                 /\ manifest[d].token # Null
                 /\ Acquire(p, n)
                 /\ run' = [run EXCEPT ![p] =
                      [@ EXCEPT !.cmd = "checkin", !.pc = "locking", !.name = n,
                                !.data = data, !.key = d, !.record = manifest[d]]]
      <3>1. PICK d \in Contents :
              /\ Found(d)
              /\ manifest[d].token # Null
              /\ Acquire(p, n)
              /\ run' = [run EXCEPT ![p] =
                   [@ EXCEPT !.cmd = "checkin", !.pc = "locking", !.name = n,
                             !.data = data, !.key = d, !.record = manifest[d]]]
        BY <2>2
      <3>. DEFINE r == [run[p] EXCEPT !.cmd = "checkin", !.pc = "locking", !.name = n,
                                      !.data = data, !.key = d, !.record = manifest[d]]
      <3>2. manifest[d] \in Record
        BY <1>1, <3>1 DEF Found
      <3>3. r \in Run
        BY <1>r, PlacesAndCodes, <1>5, <3>2, TransferAssumption DEF Run
      <3>4. run' = [run EXCEPT ![p] = r]
        BY <1>1, <3>1
      <3>5. lockname'[p] = n
        BY <1>1, <3>1 DEF Acquire, LockTypeOK
      <3>6. ASSUME run'[p] = r, call'[p] = call[p], landed'[p] = landed[p], serving' = serving
            PROVE  RunOK(p)'
        <4>1. /\ run'[p].cmd = "checkin" /\ run'[p].pc = "locking" /\ run'[p].name = n
              /\ run'[p].data = data /\ run'[p].key = d /\ run'[p].record = manifest[d]
              /\ run'[p].exit = Null /\ run'[p].inode = Null
              /\ call'[p] = Null /\ landed'[p] = 0 /\ serving' # p /\ lockname'[p] = n
          <5>1. run[p] = NewRun /\ call[p] = Null /\ landed[p] = 0 /\ serving # p
            BY <1>2, <1>5 DEF StartCheckin
          <5>. QED
            BY <3>5, <3>6, <5>1 DEF NewRun
        <4>. QED
          BY <3>2, <4>1, TransferAssumption, NothingAssumption
          DEF RunOK, PlaceOK, LockedOK, CallOK, LandedOK, YoungOK, Idle, Waiting
      <3>. QED
        BY <1>1, <2>1, <3>1, <3>3, <3>4, <3>6, OwnStep
    <2>3. CASE /\ run' = [run EXCEPT ![p] = [@ EXCEPT !.cmd = "checkin", !.pc = "done", !.exit = 1]]
               /\ UNCHANGED lockVars
      <3>. DEFINE r == [run[p] EXCEPT !.cmd = "checkin", !.pc = "done", !.exit = 1]
      <3>1. r \in Run
        BY <1>r, PlacesAndCodes, <1>5 DEF Run
      <3>2. run' = [run EXCEPT ![p] = r]
        BY <1>1, <2>3
      <3>3. ASSUME run'[p] = r, call'[p] = call[p], landed'[p] = landed[p], serving' = serving
            PROVE  RunOK(p)'
        <4>1. /\ run'[p].cmd = "checkin" /\ run'[p].pc = "done" /\ run'[p].exit = 1
              /\ call'[p] = Null /\ landed'[p] = 0 /\ serving' # p
          BY <1>r, <1>2, <1>5, <3>3 DEF StartCheckin, Run, NewRun
        <4>. QED
          BY <4>1, NothingAssumption
          DEF RunOK, PlaceOK, LockedOK, CallOK, LandedOK, YoungOK, Idle, Waiting
      <3>. QED
        BY <1>1, <2>1, <2>3, <3>1, <3>2, <3>3, OwnStep
    <2>. QED
      BY <1>5, <2>2, <2>3 DEF StartCheckin
  <1>. QED
    BY <1>3, <1>4, <1>5 DEF Start

LEMMA CondemnKeeps ==
  ASSUME TransferInv, LockTypeOK', NEW p \in Runs, Condemn(p)
  PROVE  TransferInv'
  <1>1. PICK e \in aged : run' = [run EXCEPT ![p].doomed = e]
    BY DEF Condemn, TooOld
  <1>. DEFINE r == [run[p] EXCEPT !.doomed = e]
  <1>2. e \in {"tmp", "staged", "note", "manifest"} \X Contents
    BY <1>1, Before DEF StagingTypes, Entries
  <1>3. r \in Run /\ run' = [run EXCEPT ![p] = r]
    <2>1. run \in [Runs -> Run] /\ run[p] \in Run
      BY Before
    <2>. DEFINE D == {"tmp", "staged", "note", "manifest"} \X Contents
    <2>2. e \in D \cup {Null}
      BY <1>2
    <2>. HIDE DEF D
    <2>3. Run = [cmd : Commands \cup {Null}, pc : Pcs, name : Names \cup {Null},
                 data : Contents \cup {Null}, key : Contents \cup {Null},
                 record : Record \cup {Null}, inode : Runs \cup {Null},
                 doomed : D \cup {Null}, exit : 0..4 \cup {Null}]
      BY DEF Run, D
    <2>. QED
      BY <1>1, <2>1, <2>2, <2>3
  <1>4. UNCHANGED <<budget, remoteVars, stagingVars, serving, lockVars>> /\ call' = [call EXCEPT ![p] = call[p]]
    BY Before DEF Condemn, StageFrame, CallFrame
  <1>5. ASSUME run'[p] = r, call'[p] = call[p], landed'[p] = landed[p], serving' = serving
        PROVE  RunOK(p)'
    <2>1. run[p].pc = "collecting" /\ run'[p].pc = "collecting" /\ run'[p].cmd = run[p].cmd
          /\ run'[p].name = run[p].name /\ run'[p].key = run[p].key /\ run'[p].inode = run[p].inode
          /\ run'[p].exit = run[p].exit
      BY <1>5, Before DEF Condemn, Run
    <2>. QED
      BY <1>5, <2>1, Before, NothingAssumption
      DEF RunOK, PlaceOK, LockedOK, CallOK, LandedOK, YoungOK, Idle, Waiting
  <1>. QED
    BY <1>3, <1>4, <1>5, Before, OwnStep

LEMMA CollectedKeeps ==
  ASSUME TransferInv, LockTypeOK', NEW p \in Runs, Collected(p)
  PROVE  TransferInv'
  <1>1. UNCHANGED <<budget, remoteVars, stagingVars, serving, lockVars>> /\ run[p].pc = "collecting"
    BY DEF Collected, CallFrame
  <1>2. CASE /\ run[p].cmd \in {"gc", "fetch"}
             /\ run' = [run EXCEPT ![p] =
                  [@ EXCEPT !.pc = "done", !.exit = IF run[p].cmd = "gc" THEN 0 ELSE 1]]
             /\ UNCHANGED call
    <2>. DEFINE r == [run[p] EXCEPT !.pc = "done", !.exit = IF run[p].cmd = "gc" THEN 0 ELSE 1]
    <2>1. r \in Run /\ run' = [run EXCEPT ![p] = r]
      BY <1>2, Before, PlacesAndCodes DEF Run
    <2>2. call' = [call EXCEPT ![p] = call[p]]
      BY <1>2, Before
    <2>3. ASSUME run'[p] = r, call'[p] = call[p], landed'[p] = landed[p], serving' = serving
          PROVE  RunOK(p)'
      <3>1. /\ run'[p].pc = "done" /\ run'[p].cmd = run[p].cmd /\ run'[p].exit \in {0, 1}
            /\ call'[p] = Null /\ landed'[p] = landed[p] /\ serving' # p
        BY <1>1, <2>3, Before DEF Run, CallOK
      <3>2. PlaceOK(p)' /\ LockedOK(p)' /\ YoungOK(p)' /\ CallOK(p)'
        BY <1>2, <3>1 DEF PlaceOK, LockedOK, YoungOK, CallOK, Idle, Waiting
      <3>3. LandedOK(p)'
        BY <1>1, <1>2, <3>1, Before, NothingAssumption DEF LandedOK
      <3>. QED
        BY <3>2, <3>3 DEF RunOK
    <2>. QED
      BY <1>1, <2>1, <2>2, <2>3, Before, OwnStep
  <1>3. CASE /\ run[p].cmd \in {"fetch", "checkout"}
             /\ run' = [run EXCEPT ![p].pc = "calling"]
             /\ call' = [call EXCEPT ![p] =
                  NewCall(IF run[p].cmd = "fetch" THEN "read" ELSE "checkout", run[p].name, Null, Null)]
    <2>. DEFINE r == [run[p] EXCEPT !.pc = "calling"]
                tool == IF run[p].cmd = "fetch" THEN "read" ELSE "checkout"
                c == NewCall(tool, run[p].name, Null, Null)
    <2>1. r \in Run /\ run' = [run EXCEPT ![p] = r] /\ call' = [call EXCEPT ![p] = c]
      BY <1>3, Before, PlacesAndCodes DEF Run
    <2>2. run[p].name \in Names
      BY <1>1, <1>3, Before DEF PlaceOK, Idle
    <2>3. /\ c \in Call /\ c # Null /\ c.tool = tool /\ c.todo = Stages(tool)
          /\ c.file = FileOf[run[p].name] /\ c.token = Null /\ c.reply = Null
      BY <2>2, NewCallIsACall
    <2>4. ASSUME run'[p] = r, call'[p] = c, landed'[p] = landed[p], serving' = serving
          PROVE  RunOK(p)'
      <3>1. /\ run'[p].pc = "calling" /\ run'[p].cmd = run[p].cmd /\ run'[p].name = run[p].name
            /\ run'[p].exit = Null /\ run'[p].key = Null /\ run'[p].inode = Null
            /\ landed'[p] = 0 /\ serving' # p
        BY <1>1, <1>3, <2>4, Before DEF Run, CallOK, PlaceOK, LandedOK
      <3>2. PlaceOK(p)' /\ LockedOK(p)' /\ YoungOK(p)' /\ LandedOK(p)'
        BY <1>1, <1>3, <2>2, <2>3, <2>4, <3>1, Before, NothingAssumption
        DEF PlaceOK, LockedOK, YoungOK, LandedOK, Idle
      <3>3. CallOK(p)'
        BY <1>1, <1>3, <2>3, <2>4, <3>1, NothingAssumption DEF CallOK, Waiting
      <3>. QED
        BY <3>2, <3>3 DEF RunOK
    <2>. QED
      BY <1>1, <2>1, <2>3, <2>4, Before, OwnStep
  <1>. QED
    BY <1>2, <1>3 DEF Collected

\* A run that has given its exit code says the truth, and leaves at most a call
\* that the broker still has.
LEMMA OutKeeps ==
  ASSUME TransferInv, NEW p \in Runs, NEW code \in {0, 1, 2, 3, 4},
         run[p].pc \in {"calling", "verifying", "noting", "naming"},
         run'[p] = Out(run[p], code), landed'[p] = landed[p],
         step'[p] = step[p], lockname'[p] = lockname[p],
         \/ call'[p] = Null /\ serving' # p
         \/ call'[p] = call[p] /\ Pending(p) /\ (serving' = p <=> serving = p) /\ code # 3,
         code = 0 /\ run[p].cmd \in {"push", "checkin"} => landed[p] = 1,
         code = 3 => landed[p] = 0,
         code = 4 => landed[p] = 1
  PROVE  Out(run[p], code) \in Run /\ RunOK(p)'
  <1>0. run[p] \in Run
    BY Before
  <1>a. /\ (IF run[p].cmd \in {"push", "checkin"} THEN "releasing" ELSE "done") \in Pcs
        /\ code \in 0..4 \cup {Null}
    BY PlacesAndCodes
  <1>1. /\ Out(run[p], code) \in Run
        /\ Out(run[p], code).cmd = run[p].cmd /\ Out(run[p], code).name = run[p].name
        /\ Out(run[p], code).key = run[p].key /\ Out(run[p], code).record = run[p].record
        /\ Out(run[p], code).exit = code
        /\ Out(run[p], code).pc = IF run[p].cmd \in {"push", "checkin"} THEN "releasing" ELSE "done"
    <2>. DEFINE pc == IF run[p].cmd \in {"push", "checkin"} THEN "releasing" ELSE "done"
    <2>1. Out(run[p], code) = [run[p] EXCEPT !.exit = code, !.data = Null, !.pc = pc]
      BY DEF Out
    <2>2. pc \in Pcs
      BY <1>a
    <2>. HIDE DEF pc
    <2>3. /\ Out(run[p], code) \in Run
          /\ Out(run[p], code).cmd = run[p].cmd /\ Out(run[p], code).name = run[p].name
          /\ Out(run[p], code).key = run[p].key /\ Out(run[p], code).record = run[p].record
          /\ Out(run[p], code).exit = code /\ Out(run[p], code).pc = pc
      BY <1>0, <1>a, <2>1, <2>2 DEF Run
    <2>. QED
      BY <2>3 DEF pc
  <1>2. PlaceOK(p)' /\ LockedOK(p)' /\ YoungOK(p)'
    <2>1. PlaceOK(p) /\ LockedOK(p)
      BY Before
    <2>. QED
      BY <1>1, <2>1 DEF PlaceOK, LockedOK, YoungOK, Holds, Idle
  <1>3. CallOK(p)'
    <2>1. CASE call'[p] = Null /\ serving' # p
      BY <1>1, <2>1 DEF CallOK, Waiting
    <2>2. CASE call'[p] = call[p] /\ Pending(p) /\ (serving' = p <=> serving = p) /\ code # 3
      BY <1>1, <2>2, Before DEF CallOK, Waiting, Pending
    <2>. QED
      BY <2>1, <2>2
  <1>4. LandedOK(p)'
    <2>1. landed'[p] = landed[p] /\ (run[p].cmd \in {"fetch", "checkout"} => landed[p] = 0)
      BY Before DEF LandedOK
    <2>2. CASE call'[p] = Null
      BY <1>1, <2>1, <2>2 DEF LandedOK
    <2>3. CASE call'[p] = call[p] /\ Pending(p)
      BY <1>1, <2>1, <2>3, Before, NothingAssumption DEF LandedOK, Pending
    <2>. QED
      BY <2>2, <2>3
  <1>. QED
    BY <1>1, <1>2, <1>3, <1>4 DEF RunOK

\* The lock is taken or refused; the command looks on.
LEMMA LockingKeeps ==
  ASSUME TransferInv, LockTypeOK', NEW p \in Runs, Locking(p)
  PROVE  TransferInv'
  <1>1. /\ UNCHANGED <<budget, remoteVars, stagingVars, serving>>
        /\ run' = [run EXCEPT ![p] = run[p]] /\ call' = [call EXCEPT ![p] = call[p]]
        /\ run' = run /\ call' = call
        /\ run[p].pc = "locking" /\ lockname' = lockname
    BY Before DEF Locking, CallFrame, Open, Probe, Break
  <1>2. Open(p) \/ Probe(p) \/ Break(p)
    BY DEF Locking
  <1>3. RunOK(p)'
    <2>1. /\ run'[p] = run[p] /\ call'[p] = call[p] /\ landed'[p] = landed[p]
          /\ serving' = serving /\ lockname'[p] = lockname[p] /\ aged' = aged
      BY <1>1 DEF remoteVars, stagingVars
    <2>2. PlaceOK(p)' /\ LockedOK(p)' /\ CallOK(p)' /\ LandedOK(p)' /\ YoungOK(p)'
      BY <1>1, <2>1, Before DEF PlaceOK, LockedOK, CallOK, LandedOK, YoungOK, Waiting
    <2>. QED
      BY <2>2 DEF RunOK
  <1>. QED
    BY <1>1, <1>2, <1>3, Before, OwnStep

\* A live lock ends the command.
LEMMA LockRefusedKeeps ==
  ASSUME TransferInv, LockTypeOK', NEW p \in Runs, LockRefused(p)
  PROVE  TransferInv'
  <1>. DEFINE r == [run[p] EXCEPT !.pc = "done", !.exit = 1]
  <1>1. UNCHANGED <<budget, remoteVars, stagingVars, serving, lockVars>> /\ run[p].pc = "locking"
    BY DEF LockRefused, CallFrame
  <1>2. r \in Run /\ run' = [run EXCEPT ![p] = r] /\ call' = [call EXCEPT ![p] = call[p]]
    BY Before, PlacesAndCodes DEF LockRefused, Run
  <1>3. ASSUME run'[p] = r, call'[p] = call[p], landed'[p] = landed[p], serving' = serving
        PROVE  RunOK(p)'
    <2>1. /\ run'[p].pc = "done" /\ run'[p].cmd = run[p].cmd /\ run'[p].exit = 1
          /\ call'[p] = Null /\ landed'[p] = 0 /\ serving' # p
      BY <1>1, <1>3, Before DEF Run, CallOK, LandedOK
    <2>. QED
      BY <1>1, <2>1, Before, NothingAssumption
      DEF RunOK, PlaceOK, LockedOK, CallOK, LandedOK, YoungOK, Idle, Waiting
  <1>. QED
    BY <1>1, <1>2, <1>3, Before, OwnStep

\* write or checkin is called by a run that holds the lock.
LEMMA CallBrokerKeeps ==
  ASSUME TransferInv, LockTypeOK', NEW p \in Runs, CallBroker(p)
  PROVE  TransferInv'
  <1>. DEFINE r == [run[p] EXCEPT !.pc = "calling"]
              push == run[p].cmd = "push"
              tool == IF push THEN "write" ELSE "checkin"
              token == IF push THEN Null ELSE run[p].record.token
              c == NewCall(tool, run[p].name, run[p].data, token)
  <1>1. /\ UNCHANGED <<budget, remoteVars, stagingVars, serving, lockVars>>
        /\ run[p].pc = "locking" /\ step[p] = "held"
    BY DEF CallBroker, CallFrame
  <1>2. /\ run[p].cmd \in {"push", "checkin"} /\ run[p].name \in Names /\ run[p].data \in Contents
        /\ run[p].cmd = "checkin" => run[p].key \in Contents /\ run[p].record \in Record
        /\ lockname[p] = run[p].name /\ landed[p] = 0 /\ run[p].exit = Null /\ serving # p
    BY <1>1, Before DEF PlaceOK, LockedOK, LandedOK, CallOK, Idle
  <1>3. token \in Runs \cup {Null}
    BY <1>2 DEF Record
  <1>4. r \in Run /\ run' = [run EXCEPT ![p] = r]
    BY Before, PlacesAndCodes DEF CallBroker, Run
  <1>5. call' = [call EXCEPT ![p] = c]
    BY <1>2 DEF CallBroker
  <1>6. /\ c \in Call /\ c # Null /\ c.tool = tool /\ c.todo = Stages(tool) /\ c.data \in Contents
        /\ c.file = FileOf[run[p].name] /\ c.token = token /\ c.reply = Null
    BY <1>2, <1>3, NewCallIsACall
  <1>. HIDE DEF c, token
  <1>7. ASSUME run'[p] = r, call'[p] = c, landed'[p] = landed[p], serving' = serving
        PROVE  RunOK(p)'
    <2>1. /\ run'[p].pc = "calling" /\ run'[p].cmd = run[p].cmd /\ run'[p].name = run[p].name
          /\ run'[p].exit = Null /\ run'[p].key = run[p].key /\ run'[p].record = run[p].record
          /\ run'[p].inode = run[p].inode /\ landed'[p] = 0 /\ serving' # p
      BY <1>2, <1>7, Before DEF Run
    <2>2. PlaceOK(p)' /\ LockedOK(p)' /\ YoungOK(p)'
      <3>1. PlaceOK(p) /\ step'[p] = "held" /\ lockname'[p] = run[p].name
        BY <1>1, <1>2, Before DEF lockVars
      <3>. QED
        BY <1>1, <1>2, <2>1, <3>1 DEF PlaceOK, LockedOK, YoungOK, Holds, Idle
    <2>3. LandedOK(p)'
      BY <1>2, <1>6, <1>7, <2>1, Requests, NothingAssumption DEF LandedOK, Verbs
    <2>4. CallOK(p)'
      BY <1>2, <1>6, <1>7, <2>1, NothingAssumption DEF CallOK, Waiting, token
    <2>. QED
      BY <2>2, <2>3, <2>4 DEF RunOK
  <1>. QED
    BY <1>1, <1>4, <1>5, <1>6, <1>7, Before, OwnStep

\* Answers: none is left unheard, and none is misread.
LEMMA HearFailureKeeps ==
  ASSUME TransferInv, LockTypeOK', NEW p \in Runs, HearFailure(p)
  PROVE  TransferInv'
  <1>. DEFINE code == IF run[p].pc = "verifying" THEN 4 ELSE ExitOf(call[p].reply)
  <1>1. /\ UNCHANGED <<budget, remoteVars, stagingVars, serving, lockVars>>
        /\ run[p].pc \in {"calling", "verifying"} /\ call[p] # Null /\ call[p].reply \in {"refused", "error"}
        /\ run' = [run EXCEPT ![p] = Out(run[p], code)] /\ call' = [call EXCEPT ![p] = Null]
    BY DEF HearFailure, Heard, CallFrame, Waiting
  <1>2. code \in {0, 1, 2, 3, 4} /\ code # 0
        /\ (code = 3 => run[p].pc = "calling" /\ call[p].reply = "refused")
        /\ (code = 4 => run[p].pc = "verifying")
    BY <1>1 DEF ExitOf
  <1>. HIDE DEF code
  <1>3. serving # p /\ (code = 3 => landed[p] = 0) /\ (code = 4 => landed[p] = 1)
    BY <1>1, <1>2, Before, NothingAssumption DEF CallOK, LandedOK
  <1>4. run'[p] = Out(run[p], code) /\ call'[p] = Null /\ landed'[p] = landed[p] /\ serving' = serving
        /\ step'[p] = step[p] /\ lockname'[p] = lockname[p]
    BY <1>1, Before DEF remoteVars, lockVars
  <1>5. Out(run[p], code) \in Run /\ RunOK(p)'
    BY <1>1, <1>2, <1>3, <1>4, OutKeeps
  <1>. QED
    BY <1>1, <1>5, OwnStep

LEMMA HearReadBackKeeps ==
  ASSUME TransferInv, LockTypeOK', NEW p \in Runs, HearReadBack(p)
  PROVE  TransferInv'
  <1>. DEFINE code == IF call[p].got = run[p].data THEN 0 ELSE 4
  <1>1. /\ UNCHANGED <<budget, remoteVars, stagingVars, serving, lockVars>>
        /\ run[p].pc = "verifying" /\ call[p] # Null /\ call[p].reply = "ok"
        /\ run' = [run EXCEPT ![p] = Out(run[p], code)] /\ call' = [call EXCEPT ![p] = Null]
    BY DEF HearReadBack, Heard, CallFrame
  <1>2. code \in {0, 1, 2, 3, 4} /\ code \in {0, 4}
    OBVIOUS
  <1>. HIDE DEF code
  <1>3. serving # p /\ landed[p] = 1
    BY <1>1, <1>2, Before, NothingAssumption DEF CallOK, LandedOK
  <1>4. run'[p] = Out(run[p], code) /\ call'[p] = Null /\ landed'[p] = landed[p] /\ serving' = serving
        /\ step'[p] = step[p] /\ lockname'[p] = lockname[p]
    BY <1>1, Before DEF remoteVars, lockVars
  <1>5. Out(run[p], code) \in Run /\ RunOK(p)'
    <2>1. code # 3
      BY <1>2
    <2>. QED
      BY <1>1, <1>2, <1>3, <1>4, <2>1, OutKeeps
  <1>. QED
    BY <1>1, <1>5, OwnStep

LEMMA HearContentKeeps ==
  ASSUME TransferInv, LockTypeOK', NEW p \in Runs, HearContent(p)
  PROVE  TransferInv'
  <1>. DEFINE token == IF run[p].cmd = "checkout" THEN p ELSE Null
              record == [name |-> run[p].name, token |-> token, out |-> run[p].cmd = "checkout"]
              r == [run[p] EXCEPT !.pc = "opening", !.key = call[p].got, !.record = record]
  <1>1. /\ UNCHANGED <<budget, remoteVars, stagingVars, serving, lockVars>>
        /\ run[p].pc = "calling" /\ run[p].cmd \in {"fetch", "checkout"}
        /\ call[p] # Null /\ call[p].reply = "ok"
        /\ run' = [run EXCEPT ![p] = r] /\ call' = [call EXCEPT ![p] = Null]
    BY DEF HearContent, Heard, CallFrame
  <1>2. /\ run[p].name \in Names /\ run[p].exit = Null /\ run[p].inode = Null /\ landed[p] = 0
        /\ serving # p /\ call[p].got \in Contents
    BY <1>1, Before, NothingAssumption DEF PlaceOK, CallOK, LandedOK, Idle
  <1>3. record \in Record
    BY <1>2 DEF Record
  <1>. HIDE DEF record
  <1>4. r \in Run
    BY <1>2, <1>3, Before, PlacesAndCodes DEF Run
  <1>5. ASSUME run'[p] = r, call'[p] = Null, landed'[p] = landed[p], serving' = serving
        PROVE  RunOK(p)'
    <2>1. /\ run'[p].pc = "opening" /\ run'[p].cmd = run[p].cmd /\ run'[p].name = run[p].name
          /\ run'[p].key = call[p].got /\ run'[p].record = record /\ run'[p].inode = Null
          /\ run'[p].exit = Null /\ call'[p] = Null /\ landed'[p] = 0 /\ serving' # p
      BY <1>2, <1>5, Before DEF Run
    <2>. QED
      BY <1>1, <1>2, <1>3, <2>1, NothingAssumption
      DEF RunOK, PlaceOK, LockedOK, CallOK, LandedOK, YoungOK, Waiting, Idle
  <1>. QED
    BY <1>1, <1>4, <1>5, OwnStep

LEMMA HearCheckedInKeeps ==
  ASSUME TransferInv, LockTypeOK', NEW p \in Runs, HearCheckedIn(p)
  PROVE  TransferInv'
  <1>. DEFINE record == [run[p].record EXCEPT !.out = FALSE]
              r == [run[p] EXCEPT !.pc = "noting", !.record = record]
  <1>1. /\ UNCHANGED <<budget, remoteVars, stagingVars, serving, lockVars>>
        /\ run[p].pc = "calling" /\ run[p].cmd = "checkin" /\ call[p] # Null /\ call[p].reply = "ok"
        /\ call' = [call EXCEPT ![p] = Null]
    BY DEF HearCheckedIn, Heard, CallFrame
  <1>2. /\ run[p].name \in Names /\ run[p].exit = Null /\ landed[p] = 1 /\ serving # p
        /\ run[p].record \in Record /\ run[p].key \in Contents
    BY <1>1, Before, NothingAssumption DEF PlaceOK, CallOK, LandedOK, Idle
  <1>3. record \in Record
    BY <1>2 DEF Record
  <1>4. run' = [run EXCEPT ![p] = r]
    <2>1. run' = [run EXCEPT ![p] = [run[p] EXCEPT !.pc = "noting", !.record.out = FALSE]]
      BY DEF HearCheckedIn, Heard
    <2>2. [run[p] EXCEPT !.pc = "noting", !.record.out = FALSE] = r
      BY Before DEF Run
    <2>. QED
      BY <2>1, <2>2
  <1>. HIDE DEF record
  <1>5. r \in Run
    <2>1. run[p] \in Run
      BY Before
    <2>. QED
      BY <1>3, <2>1, PlacesAndCodes DEF Run
  <1>6. ASSUME run'[p] = r, call'[p] = Null, landed'[p] = landed[p], serving' = serving
        PROVE  RunOK(p)'
    <2>1. /\ run'[p].pc = "noting" /\ run'[p].cmd = run[p].cmd /\ run'[p].name = run[p].name
          /\ run'[p].key = run[p].key /\ run'[p].record = record
          /\ run'[p].exit = Null /\ call'[p] = Null /\ landed'[p] = 1 /\ serving' # p
      BY <1>2, <1>6, Before DEF Run
    <2>2. Holds(p, run[p].name) /\ step' = step /\ lockname' = lockname
      BY <1>1, Before DEF LockedOK, lockVars
    <2>. QED
      BY <1>1, <1>2, <1>3, <2>1, <2>2, NothingAssumption
      DEF RunOK, PlaceOK, LockedOK, CallOK, LandedOK, YoungOK, Waiting, Idle, Holds
  <1>. QED
    BY <1>1, <1>4, <1>5, <1>6, OwnStep

LEMMA HearWrittenKeeps ==
  ASSUME TransferInv, LockTypeOK', NEW p \in Runs, HearWritten(p)
  PROVE  TransferInv'
  <1>. DEFINE r == [run[p] EXCEPT !.pc = "verifying"]
              c == NewCall("read", run[p].name, Null, Null)
  <1>1. /\ UNCHANGED <<budget, remoteVars, stagingVars, serving, lockVars>>
        /\ run[p].pc = "calling" /\ run[p].cmd = "push" /\ call[p] # Null /\ call[p].reply = "ok"
        /\ call' = [call EXCEPT ![p] = c]
    BY DEF HearWritten, CallFrame
  <1>2. /\ run[p].name \in Names /\ run[p].exit = Null /\ landed[p] = 1 /\ serving # p
    BY <1>1, Before, NothingAssumption DEF PlaceOK, CallOK, LandedOK, Idle, Waiting
  <1>3. run' = [run EXCEPT ![p] = r] /\ r \in Run
    BY Before, PlacesAndCodes DEF HearWritten, Run
  <1>4. /\ c \in Call /\ c # Null /\ c.tool = "read" /\ c.todo = Stages("read")
        /\ c.file = FileOf[run[p].name] /\ c.token = Null /\ c.reply = Null
    BY <1>2, NewCallIsACall
  <1>. HIDE DEF c
  <1>5. ASSUME run'[p] = r, call'[p] = c, landed'[p] = landed[p], serving' = serving
        PROVE  RunOK(p)'
    <2>1. /\ run'[p].pc = "verifying" /\ run'[p].cmd = run[p].cmd /\ run'[p].name = run[p].name
          /\ run'[p].exit = Null /\ call'[p] = c /\ landed'[p] = 1 /\ serving' # p
      BY <1>2, <1>5, Before DEF Run
    <2>2. Holds(p, run[p].name) /\ step' = step /\ lockname' = lockname
      BY <1>1, Before DEF LockedOK, lockVars
    <2>. QED
      BY <1>1, <1>2, <1>4, <2>1, <2>2, NothingAssumption
      DEF RunOK, PlaceOK, LockedOK, CallOK, LandedOK, YoungOK, Waiting, Idle, Holds
  <1>. QED
    BY <1>1, <1>3, <1>4, <1>5, OwnStep

\* The lock is released, and nothing else changes.
LEMMA FinishKeeps ==
  ASSUME TransferInv, LockTypeOK', NEW p \in Runs, Finish(p)
  PROVE  TransferInv'
  <1>. DEFINE r == [run[p] EXCEPT !.pc = "done"]
  <1>1. /\ UNCHANGED <<budget, remoteVars, stagingVars, serving>> /\ Release(p)
        /\ run[p].pc = "releasing" /\ call' = [call EXCEPT ![p] = call[p]]
    BY Before DEF Finish, CallFrame
  <1>2. run' = [run EXCEPT ![p] = r] /\ r \in Run
    BY Before, PlacesAndCodes DEF Finish, Run
  <1>3. ASSUME run'[p] = r, call'[p] = call[p], landed'[p] = landed[p], serving' = serving
        PROVE  RunOK(p)'
    <2>1. /\ run'[p].pc = "done" /\ run'[p].cmd = run[p].cmd /\ run'[p].name = run[p].name
          /\ run'[p].exit = run[p].exit /\ run'[p].key = run[p].key /\ run'[p].record = run[p].record
      BY <1>3, Before DEF Run
    <2>2. PlaceOK(p)' /\ LockedOK(p)' /\ YoungOK(p)'
      BY <1>1, <2>1, Before DEF PlaceOK, LockedOK, YoungOK, Idle
    <2>3. CallOK(p)'
      BY <1>1, <1>3, <2>1, Before DEF CallOK, Waiting
    <2>4. LandedOK(p)'
      BY <1>1, <1>3, <2>1, Before DEF LandedOK
    <2>. QED
      BY <2>2, <2>3, <2>4 DEF RunOK
  <1>. QED
    BY <1>1, <1>2, <1>3, Before, OwnStep

-----------------------------------------------------------------------------
(* The steps of a command in the staging directory *)

\* A step of a command that changes the directory only.
LEMMA StagingStep ==
  ASSUME TransferInv, LockTypeOK', NEW p \in Runs, NEW r \in Run,
         run' = [run EXCEPT ![p] = r], UNCHANGED <<lockVars, call, budget, serving, remoteVars>>,
         StagingTypes', aged' \subseteq aged,
         run'[p] = r /\ call'[p] = call[p] /\ landed'[p] = landed[p] /\ serving' = serving => RunOK(p)'
  PROVE  TransferInv'
  <1>1. Types /\ RemoteTypes /\ LockTypeOK
    BY Before
  <1>2. Types' /\ RemoteTypes'
    BY <1>1, RemoteTypesStay DEF Types
  <1>3. TransferTypeOK'
    BY <1>2 DEF TransferTypeOK, Types, RemoteTypes, StagingTypes
  <1>4. ASSUME NEW q \in Runs \ {p}
        PROVE  Untouched(q)
    BY <1>1 DEF Types, Untouched, remoteVars, lockVars
  <1>5. RunOK(p)'
    BY <1>1 DEF Types, remoteVars
  <1>. QED
    BY <1>3, <1>4, <1>5, StepKeeps

LEMMA CollectKeeps ==
  ASSUME TransferInv, LockTypeOK', NEW p \in Runs, Collect(p)
  PROVE  TransferInv'
  <1>. DEFINE e == run[p].doomed
              r == [run[p] EXCEPT !.doomed = Null]
  <1>1. run[p].pc = "collecting" /\ run' = [run EXCEPT ![p] = r] /\ r \in Run
    BY Before DEF Collect, Run
  <1>2. UNCHANGED <<lockVars, call, budget, serving, remoteVars>>
    BY DEF Collect, StageFrame, CallFrame
  <1>3. e \in {"tmp", "staged", "note", "manifest"} \X Contents
    BY Before DEF Collect, Run
  <1>4. aged' = aged \ {e} /\ complete' = complete
        /\ tmp' = (IF e[1] = "tmp" THEN [tmp EXCEPT ![e[2]] = Null] ELSE tmp)
        /\ staged' = (IF e[1] = "staged" THEN [staged EXCEPT ![e[2]] = Null] ELSE staged)
        /\ note' = (IF e[1] = "note" THEN [note EXCEPT ![e[2]] = Null] ELSE note)
        /\ manifest' = (IF e[1] = "manifest" THEN [manifest EXCEPT ![e[2]] = Null] ELSE manifest)
    BY DEF Collect
  <1>. HIDE DEF e
  <1>5. StagingTypes'
    <2>1. /\ tmp' \in [Contents -> Runs \cup {Null}] /\ staged' \in [Contents -> Runs \cup {Null}]
          /\ note' \in [Contents -> Record \cup {Null}] /\ manifest' \in [Contents -> Record \cup {Null}]
          /\ complete' \subseteq Runs
      BY <1>3, <1>4, Before DEF StagingTypes
    <2>2. ASSUME NEW x \in aged' PROVE x \in Entries'
      <3>1. PICK kind \in {"tmp", "staged", "note", "manifest"}, d \in Contents : e = <<kind, d>>
        BY <1>3
      <3>2. x \in Entries /\ x # <<kind, d>>
        BY <1>4, <2>2, <3>1, Before DEF StagingTypes
      <3>3. /\ \A b \in Contents : <<"tmp", b>> # <<kind, d>> => tmp'[b] = tmp[b]
            /\ \A b \in Contents : <<"staged", b>> # <<kind, d>> => staged'[b] = staged[b]
            /\ \A b \in Contents : <<"note", b>> # <<kind, d>> => note'[b] = note[b]
            /\ \A b \in Contents : <<"manifest", b>> # <<kind, d>> => manifest'[b] = manifest[b]
        BY <1>4, <3>1, Before DEF StagingTypes
      <3>. QED
        BY <3>2, <3>3 DEF Entries
    <2>. QED
      BY <2>1, <2>2 DEF StagingTypes
  <1>6. ASSUME run'[p] = r, call'[p] = call[p], landed'[p] = landed[p], serving' = serving
        PROVE  RunOK(p)'
    <2>1. /\ run[p].pc = "collecting" /\ run'[p].pc = "collecting" /\ run'[p].cmd = run[p].cmd
          /\ run'[p].name = run[p].name /\ run'[p].key = run[p].key /\ run'[p].inode = run[p].inode
          /\ run'[p].exit = run[p].exit
      BY <1>1, <1>6, Before DEF Run
    <2>. QED
      BY <1>6, <2>1, Before, NothingAssumption
      DEF RunOK, PlaceOK, LockedOK, CallOK, LandedOK, YoungOK, Idle, Waiting
  <1>. QED
    BY <1>1, <1>2, <1>4, <1>5, <1>6, StagingStep

\* The temporary file is there, and the one of the others with it.
LEMMA OpenTmpKeeps ==
  ASSUME TransferInv, LockTypeOK', NEW p \in Runs, OpenTmp(p)
  PROVE  TransferInv'
  <1>1. PICK d \in Contents, i \in Runs :
          /\ run[p].pc = "opening" /\ run[p].key = d /\ run[p].inode = Null
          /\ i = IF tmp[d] = Null THEN p ELSE tmp[d]
          /\ run' = [run EXCEPT ![p] = [run[p] EXCEPT !.pc = "writing", !.inode = i]]
          /\ tmp' = [tmp EXCEPT ![d] = i] /\ complete' = complete \ {i} /\ aged' = aged \ {<<"tmp", d>>}
          /\ UNCHANGED <<staged, note, manifest>>
    BY Before DEF OpenTmp, PlaceOK, StagingTypes
  <1>. DEFINE r == [run[p] EXCEPT !.pc = "writing", !.inode = i]
  <1>2. UNCHANGED <<lockVars, call, budget, serving, remoteVars>>
    BY DEF OpenTmp, StageFrame, CallFrame
  <1>3. r \in Run
    <2>1. run[p] \in Run
      BY Before
    <2>. QED
      BY <2>1, PlacesAndCodes DEF Run
  <1>4. StagingTypes'
    <2>1. tmp' \in [Contents -> Runs \cup {Null}] /\ complete' \subseteq Runs
      BY <1>1, Before DEF StagingTypes
    <2>2. \A b \in Contents : tmp[b] # Null => tmp'[b] # Null
      BY <1>1, Before, LockAssumption DEF StagingTypes
    <2>3. Entries \subseteq Entries'
      BY <1>1, <2>2 DEF Entries
    <2>. QED
      BY <1>1, <2>1, <2>3, Before DEF StagingTypes
  <1>5. ASSUME run'[p] = r, call'[p] = call[p], landed'[p] = landed[p], serving' = serving
        PROVE  RunOK(p)'
    <2>1. /\ run'[p].pc = "writing" /\ run'[p].cmd = run[p].cmd /\ run'[p].name = run[p].name
          /\ run'[p].key = d /\ run'[p].record = run[p].record /\ run'[p].inode = i
          /\ run'[p].exit = run[p].exit
      BY <1>1, <1>5, Before DEF Run
    <2>2. PlaceOK(p)' /\ LockedOK(p)' /\ YoungOK(p)'
      <3>1. PlaceOK(p) /\ LockedOK(p) /\ YoungOK(p) /\ step' = step /\ lockname' = lockname
        BY <1>2, Before DEF lockVars
      <3>. QED
        BY <1>1, <2>1, <3>1 DEF PlaceOK, LockedOK, YoungOK, Idle
    <2>3. CallOK(p)' /\ LandedOK(p)'
      BY <1>1, <1>5, <2>1, Before DEF CallOK, LandedOK, Waiting
    <2>. QED
      BY <2>2, <2>3 DEF RunOK
  <1>. QED
    BY <1>1, <1>2, <1>3, <1>4, <1>5, StagingStep

LEMMA WriteTmpKeeps ==
  ASSUME TransferInv, LockTypeOK', NEW p \in Runs, WriteTmp(p)
  PROVE  TransferInv'
  <1>. DEFINE r == [run[p] EXCEPT !.pc = "publishing"]
  <1>1. /\ run[p].pc = "writing" /\ run' = [run EXCEPT ![p] = r] /\ r \in Run
        /\ complete' = complete \cup {run[p].inode} /\ run[p].inode \in Runs
        /\ UNCHANGED <<tmp, staged, note, manifest, aged>>
    BY Before, PlacesAndCodes DEF WriteTmp, Run, PlaceOK
  <1>2. UNCHANGED <<lockVars, call, budget, serving, remoteVars>>
    BY DEF WriteTmp, StageFrame, CallFrame
  <1>3. StagingTypes'
    <2>1. Entries' = Entries
      BY <1>1 DEF Entries
    <2>. QED
      BY <1>1, <2>1, Before DEF StagingTypes
  <1>4. ASSUME run'[p] = r, call'[p] = call[p], landed'[p] = landed[p], serving' = serving
        PROVE  RunOK(p)'
    <2>1. /\ run'[p].pc = "publishing" /\ run'[p].cmd = run[p].cmd /\ run'[p].name = run[p].name
          /\ run'[p].key = run[p].key /\ run'[p].record = run[p].record /\ run'[p].inode = run[p].inode
          /\ run'[p].exit = run[p].exit
      BY <1>1, <1>4, Before DEF Run
    <2>2. PlaceOK(p)' /\ LockedOK(p)' /\ YoungOK(p)'
      <3>1. PlaceOK(p) /\ LockedOK(p) /\ YoungOK(p) /\ step' = step /\ lockname' = lockname
        BY <1>2, Before DEF lockVars
      <3>. QED
        BY <1>1, <2>1, <3>1 DEF PlaceOK, LockedOK, YoungOK, Idle
    <2>3. CallOK(p)' /\ LandedOK(p)'
      BY <1>1, <1>4, <2>1, Before DEF CallOK, LandedOK, Waiting
    <2>. QED
      BY <2>2, <2>3 DEF RunOK
  <1>. QED
    BY <1>1, <1>2, <1>3, <1>4, StagingStep

\* The name moves with the file, and the file that had it before is gone.
LEMMA PublishKeeps ==
  ASSUME TransferInv, LockTypeOK', NEW p \in Runs, Publish(p)
  PROVE  TransferInv'
  <1>1. /\ run[p].pc = "publishing" /\ run[p].key \in Contents /\ run[p].cmd \in {"fetch", "checkout"}
        /\ run[p].exit = Null /\ call[p] = call[p] /\ <<"tmp", run[p].key>> \notin aged
    BY Before DEF Publish, PlaceOK, YoungOK
  <1>2. UNCHANGED <<lockVars, call, budget, serving, remoteVars>>
    BY DEF Publish, StageFrame, CallFrame
  <1>3. CASE /\ tmp[run[p].key] = Null
             /\ run' = [run EXCEPT ![p] = [@ EXCEPT !.pc = "done", !.exit = 1]]
             /\ UNCHANGED stagingVars
    <2>. DEFINE r == [run[p] EXCEPT !.pc = "done", !.exit = 1]
    <2>1. run' = [run EXCEPT ![p] = r] /\ r \in Run
      <3>1. run[p] \in Run
        BY Before
      <3>. QED
        BY <1>3, <3>1, PlacesAndCodes DEF Run
    <2>2. StagingTypes' /\ aged' = aged
      BY <1>3, Before, StagingTypesStay
    <2>3. ASSUME run'[p] = r, call'[p] = call[p], landed'[p] = landed[p], serving' = serving
          PROVE  RunOK(p)'
      <3>1. /\ run'[p].pc = "done" /\ run'[p].cmd = run[p].cmd /\ run'[p].name = run[p].name
            /\ run'[p].key = run[p].key /\ run'[p].record = run[p].record /\ run'[p].exit = 1
        BY <1>1, <2>3, Before DEF Run
      <3>2. PlaceOK(p)' /\ LockedOK(p)' /\ YoungOK(p)'
        BY <1>1, <3>1, Before DEF PlaceOK, LockedOK, YoungOK, Idle
      <3>3. CallOK(p)' /\ LandedOK(p)'
        BY <1>1, <2>3, <3>1, Before, NothingAssumption DEF CallOK, LandedOK, Waiting
      <3>. QED
        BY <3>2, <3>3 DEF RunOK
    <2>. QED
      BY <1>2, <2>1, <2>2, <2>3, StagingStep
  <1>4. CASE /\ tmp[run[p].key] # Null
             /\ run' = [run EXCEPT ![p].pc = "noting"]
             /\ staged' = [staged EXCEPT ![run[p].key] = tmp[run[p].key]]
             /\ tmp' = [tmp EXCEPT ![run[p].key] = Null]
             /\ aged' = aged \ {<<"staged", run[p].key>>}
             /\ UNCHANGED <<complete, note, manifest>>
    <2>. DEFINE r == [run[p] EXCEPT !.pc = "noting"]
    <2>1. run' = [run EXCEPT ![p] = r] /\ r \in Run
      BY <1>4, Before, PlacesAndCodes DEF Run
    <2>2. StagingTypes'
      <3>1. staged' \in [Contents -> Runs \cup {Null}] /\ tmp' \in [Contents -> Runs \cup {Null}]
        BY <1>1, <1>4, Before DEF StagingTypes
      <3>2. \A b \in Contents : /\ staged[b] # Null => staged'[b] # Null
                                /\ b # run[p].key => tmp'[b] = tmp[b]
        BY <1>1, <1>4, Before DEF StagingTypes
      <3>3. ASSUME NEW x \in aged' PROVE x \in Entries'
        <4>1. x \in Entries /\ x # <<"tmp", run[p].key>>
          BY <1>1, <1>4, <3>3, Before DEF StagingTypes
        <4>. QED
          BY <1>4, <3>2, <4>1 DEF Entries
      <3>. QED
        BY <1>4, <3>1, <3>3, Before DEF StagingTypes
    <2>3. ASSUME run'[p] = r, call'[p] = call[p], landed'[p] = landed[p], serving' = serving
          PROVE  RunOK(p)'
      <3>1. /\ run'[p].pc = "noting" /\ run'[p].cmd = run[p].cmd /\ run'[p].name = run[p].name
            /\ run'[p].key = run[p].key /\ run'[p].record = run[p].record /\ run'[p].exit = run[p].exit
        BY <1>1, <2>3, Before DEF Run
      <3>2. PlaceOK(p)' /\ LockedOK(p)' /\ YoungOK(p)'
        BY <1>1, <3>1, Before DEF PlaceOK, LockedOK, YoungOK, Idle
      <3>3. CallOK(p)' /\ LandedOK(p)'
        BY <1>1, <2>3, <3>1, Before DEF CallOK, LandedOK, Waiting
      <3>. QED
        BY <3>2, <3>3 DEF RunOK
    <2>. QED
      BY <1>2, <1>4, <2>1, <2>2, <2>3, StagingStep
  <1>. QED
    BY <1>3, <1>4 DEF Publish

LEMMA NoteManifestKeeps ==
  ASSUME TransferInv, LockTypeOK', NEW p \in Runs, NoteManifest(p)
  PROVE  TransferInv'
  <1>. DEFINE r == [run[p] EXCEPT !.pc = "naming"]
  <1>1. /\ run[p].pc = "noting" /\ run[p].key \in Contents /\ run[p].record \in Record
        /\ note' = [note EXCEPT ![run[p].key] = run[p].record]
        /\ aged' = aged \ {<<"note", run[p].key>>}
        /\ UNCHANGED <<tmp, staged, complete, manifest>>
    BY Before DEF NoteManifest, PlaceOK
  <1>2. UNCHANGED <<lockVars, call, budget, serving, remoteVars>>
    BY DEF NoteManifest, StageFrame, CallFrame
  <1>3. run' = [run EXCEPT ![p] = r] /\ r \in Run
    <2>1. run[p] \in Run
      BY Before
    <2>. QED
      BY <2>1, PlacesAndCodes DEF NoteManifest, Run
  <1>4. StagingTypes'
    <2>1. note' \in [Contents -> Record \cup {Null}]
      BY <1>1, Before DEF StagingTypes
    <2>2. \A b \in Contents : note[b] # Null => note'[b] # Null
      BY <1>1, Before, NothingAssumption DEF StagingTypes
    <2>3. Entries \subseteq Entries'
      BY <1>1, <2>2 DEF Entries
    <2>. QED
      BY <1>1, <2>1, <2>3, Before DEF StagingTypes
  <1>5. ASSUME run'[p] = r, call'[p] = call[p], landed'[p] = landed[p], serving' = serving
        PROVE  RunOK(p)'
    <2>1. /\ run'[p].pc = "naming" /\ run'[p].cmd = run[p].cmd /\ run'[p].name = run[p].name
          /\ run'[p].key = run[p].key /\ run'[p].record = run[p].record /\ run'[p].exit = run[p].exit
      BY <1>1, <1>5, Before DEF Run
    <2>2. PlaceOK(p)' /\ LockedOK(p)' /\ YoungOK(p)'
      <3>1. PlaceOK(p) /\ LockedOK(p) /\ step' = step /\ lockname' = lockname
        BY <1>2, Before DEF lockVars
      <3>. QED
        BY <1>1, <2>1, <3>1 DEF PlaceOK, LockedOK, YoungOK, Idle, Holds
    <2>3. CallOK(p)' /\ LandedOK(p)'
      BY <1>1, <1>5, <2>1, Before DEF CallOK, LandedOK, Waiting
    <2>. QED
      BY <2>2, <2>3 DEF RunOK
  <1>. QED
    BY <1>1, <1>2, <1>3, <1>4, <1>5, StagingStep

\* The manifest is named, and the command has done what it was to do.
LEMMA NameManifestKeeps ==
  ASSUME TransferInv, LockTypeOK', NEW p \in Runs, NameManifest(p)
  PROVE  TransferInv'
  <1>1. /\ run[p].pc = "naming" /\ run[p].key \in Contents
        /\ run[p].cmd \in {"fetch", "checkout", "checkin"}
        /\ run[p].cmd = "checkin" => landed[p] = 1
        /\ <<"note", run[p].key>> \notin aged /\ call[p] = Null /\ serving # p
    <2>1. run[p].pc = "naming"
      BY DEF NameManifest
    <2>2. PlaceOK(p) /\ CallOK(p) /\ LandedOK(p) /\ YoungOK(p)
      BY Before
    <2>. QED
      BY <2>1, <2>2 DEF PlaceOK, CallOK, LandedOK, YoungOK
  <1>2. UNCHANGED <<lockVars, call, budget, serving, remoteVars>>
    BY DEF NameManifest, StageFrame, CallFrame
  <1>3. PICK code \in {0, 1} :
          /\ run' = [run EXCEPT ![p] = Out(run[p], code)]
          /\ \/ code = 1 /\ UNCHANGED stagingVars
             \/ /\ code = 0 /\ note[run[p].key] # Null
                /\ manifest' = [manifest EXCEPT ![run[p].key] = note[run[p].key]]
                /\ note' = [note EXCEPT ![run[p].key] = Null]
                /\ aged' = aged \ {<<"manifest", run[p].key>>}
                /\ UNCHANGED <<tmp, staged, complete>>
    BY DEF NameManifest
  <1>4. StagingTypes' /\ aged' \subseteq aged
    <2>1. CASE UNCHANGED stagingVars
      BY <2>1, StagingTypesStay, Before
    <2>2. CASE /\ code = 0 /\ note[run[p].key] # Null
               /\ manifest' = [manifest EXCEPT ![run[p].key] = note[run[p].key]]
               /\ note' = [note EXCEPT ![run[p].key] = Null]
               /\ aged' = aged \ {<<"manifest", run[p].key>>}
               /\ UNCHANGED <<tmp, staged, complete>>
      <3>1. note' \in [Contents -> Record \cup {Null}] /\ manifest' \in [Contents -> Record \cup {Null}]
        BY <1>1, <2>2, Before DEF StagingTypes
      <3>2. \A b \in Contents : /\ manifest[b] # Null => manifest'[b] # Null
                                /\ b # run[p].key => note'[b] = note[b]
        BY <1>1, <2>2, Before DEF StagingTypes
      <3>3. ASSUME NEW x \in aged' PROVE x \in Entries'
        <4>1. x \in Entries /\ x # <<"note", run[p].key>>
          BY <1>1, <2>2, <3>3, Before DEF StagingTypes
        <4>. QED
          BY <2>2, <3>2, <4>1 DEF Entries
      <3>. QED
        BY <2>2, <3>1, <3>3, Before DEF StagingTypes
    <2>. QED
      BY <1>3, <2>1, <2>2
  <1>5. run'[p] = Out(run[p], code) /\ landed'[p] = landed[p] /\ step'[p] = step[p]
        /\ lockname'[p] = lockname[p] /\ call'[p] = Null /\ serving' # p
    BY <1>1, <1>2, <1>3, Before DEF remoteVars, lockVars
  <1>6. Out(run[p], code) \in Run /\ RunOK(p)'
    <2>1. code \in {0, 1, 2, 3, 4} /\ code # 3 /\ code # 4
      BY <1>3
    <2>2. code = 0 /\ run[p].cmd \in {"push", "checkin"} => landed[p] = 1
      BY <1>1
    <2>. QED
      BY <1>1, <1>5, <2>1, <2>2, OutKeeps
  <1>. QED
    BY <1>2, <1>3, <1>4, <1>6, StagingStep

\* Whatever a command does, it keeps to its place.
LEMMA RunStepKeeps ==
  ASSUME TransferInv, LockTypeOK', NEW p \in Runs, RunStep(p)
  PROVE  TransferInv'
  BY CondemnKeeps, CollectKeeps, CollectedKeeps, LockingKeeps, LockRefusedKeeps, CallBrokerKeeps,
     HearFailureKeeps, HearContentKeeps, HearCheckedInKeeps, HearWrittenKeeps, HearReadBackKeeps,
     OpenTmpKeeps, WriteTmpKeeps, PublishKeeps, NoteManifestKeeps, NameManifestKeeps, FinishKeeps
  DEF RunStep

-----------------------------------------------------------------------------
(* The steps of the broker *)

\* What p's call asks is done, and to its file only.
LEMMA CarriedOut ==
  ASSUME TransferInv, NEW p \in Runs, Pending(p), Accepts(call[p]), Carried(p)
  PROVE  /\ RemoteTypes' /\ \A q \in Runs \ {p} : landed'[q] = landed[q]
         /\ Head(call[p].todo) = "PUT" => landed'[p] = 1
         /\ Head(call[p].todo) # "PUT" => landed'[p] = landed[p]
  <1>1. call[p] \in Call /\ call[p] # Null /\ CallOK(p) /\ LandedOK(p) /\ RemoteTypes
    BY Before DEF Pending
  <1>2. call[p].token \in Runs \cup {Null} /\ call[p].file \in Files
    BY <1>1 DEF Call
  <1>3. Asks(call[p], p)
    BY NextRequest
  <1>4. /\ Head(call[p].todo) = "PUT" => call[p].data \in Contents /\ landed[p] = 0
        /\ Head(call[p].todo) \in Verbs
    BY <1>1, <1>3, Requests DEF Asks, Verbs, CallOK, LandedOK, Pending
  <1>5. remote' \in [Files -> Contents]
    BY <1>1, <1>2, <1>4 DEF Carried, RemoteTypes
  <1>6. rlock' \in [Files -> Runs \cup {Null}]
    BY <1>1, <1>2, <1>4 DEF Carried, RemoteTypes, Verbs
  <1>7. known' \in [Runs -> Contents \cup {Null}]
    BY <1>1, <1>2, <1>4 DEF Carried, RemoteTypes, Verbs
  <1>8. /\ landed' \in [Runs -> 0..1]
        /\ \A q \in Runs \ {p} : landed'[q] = landed[q]
        /\ Head(call[p].todo) = "PUT" => landed'[p] = 1
        /\ Head(call[p].todo) # "PUT" => landed'[p] = landed[p]
    BY <1>1, <1>4 DEF Carried, RemoteTypes
  <1>. QED
    BY <1>5, <1>6, <1>7, <1>8 DEF RemoteTypes

\* A step of the broker in the call of p.
LEMMA BrokerFrame ==
  ASSUME TransferInv, LockTypeOK', NEW p \in Runs, NEW c \in Call \cup {Null},
         UNCHANGED <<run, lockVars, stagingVars>>,
         call' = [call EXCEPT ![p] = c], serving \in {Null, p}, serving' \in {Null, p},
         RemoteTypes', \A q \in Runs \ {p} : landed'[q] = landed[q],
         budget' \in [faults : 0..MaxFaults, meddling : 0..MaxMeddling, weeks : 0..MaxWeeks],
         call'[p] = c => CallOK(p)' /\ LandedOK(p)'
  PROVE  TransferInv'
  <1>1. Types /\ StagingTypes /\ LockTypeOK /\ PlaceOK(p) /\ LockedOK(p) /\ YoungOK(p)
    BY Before
  <1>2. Types' /\ StagingTypes' /\ aged' = aged
    BY <1>1, StagingTypesStay DEF Types
  <1>3. TransferTypeOK'
    BY <1>2 DEF TransferTypeOK, Types, RemoteTypes, StagingTypes
  <1>4. ASSUME NEW q \in Runs \ {p}
        PROVE  Untouched(q)
    BY <1>1, LockAssumption DEF Types, Untouched, lockVars
  <1>5. RunOK(p)'
    <2>1. PlaceOK(p)' /\ LockedOK(p)' /\ YoungOK(p)'
      BY <1>1, <1>2 DEF PlaceOK, LockedOK, YoungOK, Holds, lockVars
    <2>2. CallOK(p)' /\ LandedOK(p)'
      BY <1>1 DEF Types
    <2>. QED
      BY <2>1, <2>2 DEF RunOK
  <1>. QED
    BY <1>2, <1>3, <1>4, <1>5, StepKeeps

\* An answer that is true of what was carried out.
LEMMA AnswerKeeps ==
  ASSUME TransferInv, LockTypeOK', NEW p \in Runs, Serving(p), ServeFrame,
         NEW status \in {"ok", "error", "refused"}, NEW got \in Contents \cup {Null},
         Answer(p, status, got), RemoteTypes',
         \A q \in Runs \ {p} : landed'[q] = landed[q],
         budget' \in [faults : 0..MaxFaults, meddling : 0..MaxMeddling, weeks : 0..MaxWeeks],
         landed'[p] # landed[p] => landed'[p] = 1 /\ call[p].tool \in {"write", "checkin"},
         status = "ok" /\ call[p].tool \in {"read", "checkout"} => got \in Contents,
         status = "ok" /\ call[p].tool \in {"write", "checkin"} => landed'[p] = 1,
         status = "refused" => serving = Null /\ landed'[p] = landed[p]
  PROVE  TransferInv'
  <1>1. /\ call[p] \in Call /\ call[p] # Null /\ call[p].reply = Null /\ serving \in {Null, p}
        /\ CallOK(p) /\ LandedOK(p) /\ serving' = Null /\ UNCHANGED <<run, lockVars, stagingVars>>
        /\ Asks(call[p], p) /\ RemoteTypes
    BY Before, NextRequest DEF Serving, Pending, Answer, ServeFrame
  <1>. DEFINE c == IF Waiting(p) THEN [call[p] EXCEPT !.reply = status, !.got = got] ELSE Null
  <1>2. c \in Call \cup {Null} /\ call' = [call EXCEPT ![p] = c]
    BY <1>1 DEF Call, Answer
  <1>3. ASSUME call'[p] = c
        PROVE  CallOK(p)' /\ LandedOK(p)'
    <2>1. landed[p] \in 0..1 /\ landed'[p] \in 0..1
      BY <1>1 DEF RemoteTypes
    <2>2. CASE ~Waiting(p)
      <3>1. call'[p] = Null /\ run'[p] = run[p] /\ serving' # p
        BY <1>1, <1>3, <2>2, LockAssumption
      <3>2. CallOK(p)'
        BY <2>2, <3>1 DEF CallOK, Waiting
      <3>3. LandedOK(p)'
        BY <1>1, <2>1, <3>1 DEF CallOK, LandedOK
      <3>. QED
        BY <3>2, <3>3
    <2>3. CASE Waiting(p)
      <3>1. /\ call'[p] = [call[p] EXCEPT !.reply = status, !.got = got]
            /\ call'[p] \in Call /\ run'[p] = run[p] /\ serving' # p
        <4>1. [call[p] EXCEPT !.reply = status, !.got = got] \in Call
          BY <1>1 DEF Call
        <4>. QED
          BY <1>1, <1>3, <2>3, <4>1, LockAssumption
      <3>2. /\ call'[p] # Null /\ call'[p].tool = call[p].tool /\ call'[p].todo = call[p].todo
            /\ call'[p].file = call[p].file /\ call'[p].data = call[p].data
            /\ call'[p].token = call[p].token /\ call'[p].reply = status /\ call'[p].got = got
        BY <1>1, <3>1, NothingAssumption DEF Call
      <3>3. CallOK(p)'
        BY <1>1, <2>3, <3>1, <3>2, NothingAssumption DEF CallOK, Waiting
      <3>4. status = "refused" /\ run[p].pc = "calling" => landed'[p] = 0
        <4>1. CASE call[p].tool \in {"write", "checkin"}
          BY <1>1, <4>1, Requests, LockAssumption DEF CallOK, LandedOK, Asks, Verbs
        <4>2. CASE call[p].tool \in {"read", "checkout"}
          BY <1>1, <2>3, <4>2 DEF CallOK, LandedOK, Waiting
        <4>. QED
          BY <1>1, <4>1, <4>2 DEF Asks
      <3>5. LandedOK(p)'
        BY <1>1, <2>1, <2>3, <3>1, <3>2, <3>4, NothingAssumption DEF CallOK, LandedOK, Waiting
      <3>. QED
        BY <3>3, <3>5
    <2>. QED
      BY <2>2, <2>3
  <1>. HIDE DEF c
  <1>. QED
    BY <1>1, <1>2, <1>3, BrokerFrame

LEMMA ServeKeeps ==
  ASSUME TransferInv, LockTypeOK', NEW p \in Runs, Serve(p)
  PROVE  TransferInv'
  <1>1. /\ call[p] \in Call /\ call[p] # Null /\ call[p].reply = Null /\ serving \in {Null, p}
        /\ CallOK(p) /\ LandedOK(p) /\ UNCHANGED <<run, lockVars, stagingVars, budget>>
        /\ Asks(call[p], p) /\ RemoteTypes /\ Types /\ Serving(p) /\ ServeFrame
    BY Before, NextRequest DEF Serve, Serving, Pending, ServeFrame
  <1>2. /\ RemoteTypes' /\ \A q \in Runs \ {p} : landed'[q] = landed[q]
        /\ Head(call[p].todo) = "PUT" => landed'[p] = 1
        /\ Head(call[p].todo) # "PUT" => landed'[p] = landed[p]
    BY CarriedOut DEF Serve, Serving
  <1>3. budget' \in [faults : 0..MaxFaults, meddling : 0..MaxMeddling, weeks : 0..MaxWeeks]
    BY <1>1 DEF Types
  <1>4. call[p].file \in Files /\ call[p].got \in Contents \cup {Null}
    BY <1>1 DEF Call
  <1>5. PICK got \in Contents \cup {Null} :
          /\ got = IF Head(call[p].todo) = "GET" THEN remote[call[p].file] ELSE call[p].got
          /\ IF Len(call[p].todo) = 1 THEN Answer(p, "ok", got)
             ELSE /\ call' = [call EXCEPT ![p] = [@ EXCEPT !.todo = Tail(call[p].todo), !.got = got]]
                  /\ serving' = p
    BY <1>1, <1>4 DEF Serve, RemoteTypes
  <1>6. CASE Len(call[p].todo) = 1
    <2>1. Answer(p, "ok", got)
      BY <1>5, <1>6
    <2>2. Asks(call[p], p) /\ call[p].todo # <<"LOCK", "GET">> /\ call[p].todo # <<"PUT", "UNLOCK">>
      BY <1>1, <1>6, Requests DEF Verbs
    <2>3. call[p].tool \in {"read", "checkout"} => Head(call[p].todo) = "GET" /\ got \in Contents
      BY <1>1, <1>4, <1>5, <2>2, Requests DEF Asks, Verbs, RemoteTypes
    <2>4. call[p].tool \in {"write", "checkin"} => landed'[p] = 1
      <3>1. CASE call[p].todo = <<"PUT">>
        BY <1>2, <3>1, Requests DEF Verbs
      <3>2. CASE call[p].todo = <<"UNLOCK">> /\ call[p].tool = "checkin"
        BY <1>1, <1>2, <3>2, Requests DEF Verbs, LandedOK
      <3>. QED
        BY <2>2, <3>1, <3>2 DEF Asks
    <2>5. landed'[p] # landed[p] => landed'[p] = 1 /\ call[p].tool \in {"write", "checkin"}
      BY <1>1, <1>2, <2>3, Requests DEF Asks, Verbs
    <2>. QED
      BY <1>1, <1>2, <1>3, <2>1, <2>3, <2>4, <2>5, AnswerKeeps
  <1>7. CASE Len(call[p].todo) # 1
    <2>. DEFINE c == [call[p] EXCEPT !.todo = Tail(call[p].todo), !.got = got]
    <2>1. call' = [call EXCEPT ![p] = c] /\ serving' = p
      BY <1>5, <1>7
    <2>2. \/ call[p].tool = "checkout" /\ call[p].todo = <<"LOCK", "GET">>
          \/ call[p].tool = "checkin" /\ call[p].todo = <<"PUT", "UNLOCK">>
      BY <1>1, <1>7, Requests DEF Asks, Verbs
    <2>3. \/ call[p].tool = "checkout" /\ Tail(call[p].todo) = <<"GET">> /\ landed'[p] = landed[p]
          \/ call[p].tool = "checkin" /\ Tail(call[p].todo) = <<"UNLOCK">> /\ landed'[p] = 1
      BY <1>2, <2>2, Requests DEF Verbs
    <2>4. Tail(call[p].todo) \in Seq(Verbs)
      BY <2>3, Requests DEF Verbs
    <2>5. c \in Call
      BY <1>1, <2>4 DEF Call
    <2>6. ASSUME call'[p] = c
          PROVE  CallOK(p)' /\ LandedOK(p)'
      <3>1. /\ call'[p] # Null /\ call'[p].tool = call[p].tool /\ call'[p].todo = Tail(call[p].todo)
            /\ call'[p].file = call[p].file /\ call'[p].data = call[p].data
            /\ call'[p].token = call[p].token /\ call'[p].reply = Null /\ call'[p].got = got
            /\ run'[p] = run[p]
        BY <1>1, <2>5, <2>6, NothingAssumption DEF Call
      <3>2. CallOK(p)'
        BY <1>1, <2>1, <2>3, <3>1, NothingAssumption DEF CallOK, Waiting
      <3>3. LandedOK(p)'
        BY <1>1, <2>3, <3>1, Requests, NothingAssumption DEF CallOK, LandedOK, Waiting
      <3>. QED
        BY <3>2, <3>3
    <2>. HIDE DEF c
    <2>. QED
      BY <1>1, <1>2, <1>3, <2>1, <2>5, <2>6, BrokerFrame
  <1>. QED
    BY <1>6, <1>7

\* An error or a refusal is the end of the call.
LEMMA BrokerStepKeeps ==
  ASSUME TransferInv, LockTypeOK', NEW p \in Runs, BrokerStep(p)
  PROVE  TransferInv'
  <1>1. RemoteTypes /\ Types /\ call[p] \in Call \cup {Null}
    BY Before
  <1>2. ASSUME Fault
        PROVE  budget' \in [faults : 0..MaxFaults, meddling : 0..MaxMeddling, weeks : 0..MaxWeeks]
    BY <1>1, <1>2, TransferAssumption DEF Types, Fault, Spend
  <1>3. CASE ServeRejected(p)
    <2>1. /\ Serving(p) /\ ServeFrame /\ Answer(p, "error", Null)
          /\ landed' = landed /\ RemoteTypes' /\ budget' = budget
      BY <1>1, <1>3, RemoteTypesStay DEF ServeRejected, remoteVars
    <2>. QED
      BY <1>1, <2>1, AnswerKeeps DEF Types
  <1>4. CASE ServeFails(p)
    <2>1. Serving(p) /\ ServeFrame /\ Answer(p, "error", Null) /\ Fault
      BY <1>4 DEF ServeFails
    <2>2. CASE UNCHANGED remoteVars
      <3>1. landed' = landed /\ RemoteTypes'
        BY <1>1, <2>2, RemoteTypesStay DEF remoteVars
      <3>. QED
        BY <1>2, <2>1, <3>1, AnswerKeeps
    <2>3. CASE Accepts(call[p]) /\ Carried(p)
      <3>1. /\ RemoteTypes' /\ \A q \in Runs \ {p} : landed'[q] = landed[q]
            /\ Head(call[p].todo) = "PUT" => landed'[p] = 1
            /\ Head(call[p].todo) # "PUT" => landed'[p] = landed[p]
        BY <2>1, <2>3, CarriedOut DEF Serving
      <3>2. Asks(call[p], p)
        BY <2>1, NextRequest DEF Serving
      <3>3. landed'[p] # landed[p] => landed'[p] = 1 /\ call[p].tool \in {"write", "checkin"}
        BY <3>1, <3>2, Requests DEF Asks, Verbs
      <3>. QED
        BY <1>2, <2>1, <3>1, <3>3, AnswerKeeps
    <2>. QED
      BY <1>4, <2>2, <2>3 DEF ServeFails
  <1>5. CASE ServeRefused(p)
    <2>1. /\ Serving(p) /\ ServeFrame /\ Answer(p, "refused", Null) /\ Fault /\ serving = Null
          /\ landed' = landed /\ RemoteTypes'
      BY <1>1, <1>5, RemoteTypesStay DEF ServeRefused, remoteVars
    <2>. QED
      BY <1>2, <2>1, AnswerKeeps
  <1>. QED
    BY <1>3, <1>4, <1>5, ServeKeeps DEF BrokerStep

-----------------------------------------------------------------------------
(* What befalls a command, and the rest *)

\* A call is forgotten only when the broker is not in the middle of it.
LEMMA AbandonedCall ==
  ASSUME TransferInv, NEW p \in Runs, Abandoned(p)
  PROVE  \E c \in Call \cup {Null} :
           /\ call' = [call EXCEPT ![p] = c]
           /\ c = Null => serving # p
           /\ c # Null => c = call[p] /\ Pending(p)
  <1>1. call[p] \in Call \cup {Null} /\ call = [call EXCEPT ![p] = call[p]] /\ CallOK(p)
    BY Before
  <1>2. CASE serving = p
    <2>1. call' = call
      BY <1>2 DEF Abandoned
    <2>. QED
      BY <1>1, <1>2, <2>1 DEF CallOK, Pending
  <1>3. CASE serving # p
    <2>1. CASE call' = [call EXCEPT ![p] = Null]
      BY <1>3, <2>1
    <2>2. CASE call' = call /\ Pending(p)
      BY <1>1, <1>3, <2>2 DEF Pending
    <2>. QED
      BY <1>3, <2>1, <2>2 DEF Abandoned
  <1>. QED
    BY <1>2, <1>3

LEMMA GiveUpKeeps ==
  ASSUME TransferInv, LockTypeOK', NEW p \in Runs, GiveUp(p)
  PROVE  TransferInv'
  <1>. DEFINE code == IF run[p].pc = "verifying" THEN 4 ELSE 1
  <1>1. /\ UNCHANGED <<remoteVars, stagingVars, serving, lockVars>> /\ Fault
        /\ run[p].pc \in {"calling", "verifying"} /\ Pending(p) /\ Abandoned(p)
        /\ run' = [run EXCEPT ![p] = Out(run[p], code)]
    BY DEF GiveUp, CallFrame, Waiting
  <1>2. PICK c \in Call \cup {Null} :
          /\ call' = [call EXCEPT ![p] = c]
          /\ c = Null => serving # p
          /\ c # Null => c = call[p]
    BY <1>1, AbandonedCall
  <1>3. code \in {0, 1, 2, 3, 4} /\ code # 0 /\ code # 3 /\ (code = 4 => run[p].pc = "verifying")
    OBVIOUS
  <1>. HIDE DEF code
  <1>4. code = 4 => landed[p] = 1
    BY <1>3, Before DEF LandedOK
  <1>5. run'[p] = Out(run[p], code) /\ landed'[p] = landed[p] /\ step'[p] = step[p]
        /\ lockname'[p] = lockname[p] /\ call'[p] = c /\ serving' = serving
    BY <1>1, <1>2, Before DEF remoteVars, lockVars
  <1>6. Out(run[p], code) \in Run /\ RunOK(p)'
    BY <1>1, <1>2, <1>3, <1>4, <1>5, OutKeeps
  <1>. QED
    BY <1>1, <1>2, <1>6, OwnStep

LEMMA KillKeeps ==
  ASSUME TransferInv, LockTypeOK', NEW p \in Runs, Kill(p)
  PROVE  TransferInv'
  <1>. DEFINE r == [run[p] EXCEPT !.pc = "killed"]
  <1>1. /\ UNCHANGED <<remoteVars, stagingVars, serving>> /\ Fault /\ Die(p)
        /\ run[p].pc \notin {"idle", "done", "killed"} /\ Abandoned(p)
    BY DEF Kill, CallFrame
  <1>2. PICK c \in Call \cup {Null} :
          /\ call' = [call EXCEPT ![p] = c]
          /\ c = Null => serving # p
          /\ c # Null => c = call[p] /\ Pending(p)
    BY <1>1, AbandonedCall
  <1>3. run' = [run EXCEPT ![p] = r] /\ r \in Run
    <2>1. run[p] \in Run
      BY Before
    <2>. QED
      BY <2>1, PlacesAndCodes DEF Kill, Run
  <1>4. ASSUME run'[p] = r, call'[p] = c, landed'[p] = landed[p], serving' = serving
        PROVE  RunOK(p)'
    <2>1. /\ run'[p].pc = "killed" /\ run'[p].cmd = run[p].cmd /\ run'[p].name = run[p].name
          /\ run'[p].key = run[p].key /\ run'[p].record = run[p].record /\ run'[p].exit = run[p].exit
      BY <1>4, Before DEF Run
    <2>2. PlaceOK(p)' /\ LockedOK(p)' /\ YoungOK(p)'
      BY <2>1 DEF PlaceOK, LockedOK, YoungOK, Idle
    <2>3. CallOK(p)'
      <3>1. CASE c = Null
        BY <1>2, <1>4, <2>1, <3>1 DEF CallOK, Waiting
      <3>2. CASE c # Null
        BY <1>1, <1>2, <1>4, <2>1, <3>2, Before DEF CallOK, Waiting, Pending
      <3>. QED
        BY <3>1, <3>2
    <2>4. LandedOK(p)'
      BY <1>1, <1>2, <1>4, <2>1, Before, NothingAssumption DEF LandedOK, Pending
    <2>. QED
      BY <2>2, <2>3, <2>4 DEF RunOK
  <1>. QED
    BY <1>1, <1>2, <1>3, <1>4, OwnStep

\* The world goes on: the commands are where they were.
LEMMA WorldKeeps ==
  ASSUME TransferInv, LockTypeOK',
         \/ \E f \in Files : LockEnds(f) \/ \E c \in Contents : OthersWrite(f, c)
         \/ TransferTick \/ WeekPasses \/ UNCHANGED transferVars
  PROVE  TransferInv'
  <1>1. Types /\ RemoteTypes /\ StagingTypes /\ \A p \in Runs : RunOK(p)
    BY TypesAre DEF TransferInv
  <1>2. ASSUME Types', RemoteTypes', StagingTypes', UNCHANGED <<run, call, serving, landed>>,
               step' = step /\ lockname' = lockname, aged' \subseteq aged
        PROVE  TransferInv'
    <2>1. TransferTypeOK'
      BY <1>2 DEF TransferTypeOK, Types, RemoteTypes, StagingTypes
    <2>2. \A p \in Runs : Untouched(p)
      BY <1>2 DEF Untouched
    <2>. QED
      BY <1>1, <1>2, <2>1, <2>2, UntouchedKeeps DEF TransferInv
  <1>3. ASSUME NEW f \in Files, LockEnds(f)
        PROVE  TransferInv'
    <2>1. RemoteTypes' /\ landed' = landed
      BY <1>1, <1>3 DEF LockEnds, RemoteTypes
    <2>2. Types'
      BY <1>1, <1>3, TransferAssumption DEF LockEnds, Types, Spend
    <2>3. UNCHANGED <<stagingVars, run, call, serving>> /\ step' = step /\ lockname' = lockname
      BY <1>3 DEF LockEnds, lockVars
    <2>. QED
      BY <1>1, <1>2, <2>1, <2>2, <2>3, StagingTypesStay
  <1>4. ASSUME NEW f \in Files, NEW c \in Contents, OthersWrite(f, c)
        PROVE  TransferInv'
    <2>1. RemoteTypes' /\ landed' = landed
      BY <1>1, <1>4 DEF OthersWrite, RemoteTypes
    <2>2. Types'
      BY <1>1, <1>4, TransferAssumption DEF OthersWrite, Types, Spend
    <2>3. UNCHANGED <<stagingVars, run, call, serving>> /\ step' = step /\ lockname' = lockname
      BY <1>4 DEF OthersWrite, lockVars
    <2>. QED
      BY <1>1, <1>2, <2>1, <2>2, <2>3, StagingTypesStay
  <1>5. CASE TransferTick
    <2>1. UNCHANGED <<stagingVars, remoteVars, run, call, serving, budget>> /\ step' = step /\ lockname' = lockname
      BY <1>5 DEF TransferTick, LockTick
    <2>2. landed' = landed /\ Types'
      BY <1>1, <2>1 DEF remoteVars, Types
    <2>. QED
      BY <1>1, <1>2, <2>1, <2>2, StagingTypesStay, RemoteTypesStay
  <1>6. CASE WeekPasses
    <2>1. /\ UNCHANGED <<remoteVars, run, call, serving, lockVars, tmp, staged, complete, note, manifest>>
          /\ \A p \in Runs : run[p].pc \in {"idle", "done", "killed"}
          /\ aged' = Entries
      BY <1>6 DEF WeekPasses
    <2>2. Types'
      BY <1>1, <1>6, <2>1, TransferAssumption DEF WeekPasses, Types, Spend
    <2>3. RemoteTypes' /\ landed' = landed
      BY <1>1, <2>1, RemoteTypesStay DEF remoteVars
    <2>4. Entries' = Entries
      BY <2>1 DEF Entries
    <2>5. StagingTypes'
      BY <1>1, <2>1, <2>4 DEF StagingTypes
    <2>6. TransferTypeOK'
      BY <2>2, <2>3, <2>5 DEF TransferTypeOK, Types, RemoteTypes, StagingTypes
    <2>7. ASSUME NEW p \in Runs
          PROVE  RunOK(p)'
      <3>1. PlaceOK(p)' /\ LockedOK(p)'
        BY <1>1, <2>1 DEF RunOK, PlaceOK, LockedOK, Holds, lockVars
      <3>2. CallOK(p)' /\ LandedOK(p)'
        BY <1>1, <2>1, <2>3 DEF RunOK, CallOK, LandedOK, Waiting
      <3>3. YoungOK(p)'
        BY <2>1 DEF YoungOK
      <3>. QED
        BY <3>1, <3>2, <3>3 DEF RunOK
    <2>. QED
      BY <2>6, <2>7 DEF TransferInv
  <1>7. CASE UNCHANGED transferVars
    <2>1. UNCHANGED <<stagingVars, remoteVars, run, call, serving, budget>> /\ step' = step /\ lockname' = lockname
      BY <1>7 DEF transferVars, lockVars
    <2>2. landed' = landed /\ Types'
      BY <1>1, <2>1 DEF remoteVars, Types
    <2>. QED
      BY <1>1, <1>2, <2>1, <2>2, StagingTypesStay, RemoteTypesStay
  <1>. QED
    BY <1>3, <1>4, <1>5, <1>6, <1>7

LEMMA TransferInvStep ==
  TransferInv /\ LockTypeOK' /\ [TransferNext]_transferVars => TransferInv'
  BY StartKeeps, RunStepKeeps, BrokerStepKeeps, GiveUpKeeps, KillKeeps, WorldKeeps
  DEF TransferNext, AllDone

LEMMA TransferInvHolds == TransferSpec => []TransferInv
  <1>1. TransferSpec => []LockTypeOK
    BY UsesTheLock, LockTypeCorrect, PTL
  <1>. QED
    BY <1>1, InitTransferInv, TransferInvStep, PTL DEF TransferSpec

\* The types of the commands, the calls, the files and the directory (cli.py).
THEOREM TransferTypes == TransferSpec => []TransferTypeOK
  <1>1. TransferInv => TransferTypeOK
    BY DEF TransferInv
  <1>. QED
    BY <1>1, TransferInvHolds, PTL

-----------------------------------------------------------------------------
(* Who changes the files *)

\* The broker carries out a request of p.
CarriesOut(p) ==
  /\ Serving(p) /\ Accepts(call[p]) /\ Carried(p) /\ ServeFrame
  /\ budget'.meddling = budget.meddling
  /\ Serve(p) \/ ServeFails(p)

LEMMA RemoteChanges ==
  ASSUME TransferInv, [TransferNext]_transferVars
  PROVE  \/ UNCHANGED remoteVars
         \/ \E p \in Runs : CarriesOut(p)
         \/ \E f \in Files : LockEnds(f) \/ \E c \in Contents : OthersWrite(f, c)
  <1>1. ASSUME NEW p \in Runs, Start(p)
        PROVE  UNCHANGED remoteVars
    BY <1>1 DEF Start, StartCollecting, StartPush, StartCheckin, StageFrame, CallFrame
  <1>2. ASSUME NEW p \in Runs, RunStep(p)
        PROVE  UNCHANGED remoteVars
    <2>1. CASE Condemn(p) \/ Collect(p) \/ Collected(p)
      BY <2>1 DEF Condemn, Collect, Collected, StageFrame, CallFrame
    <2>2. CASE Locking(p) \/ LockRefused(p) \/ CallBroker(p) \/ HearWritten(p) \/ Finish(p)
      BY <2>2 DEF Locking, LockRefused, CallBroker, HearWritten, Finish, CallFrame
    <2>3. CASE HearFailure(p) \/ HearContent(p) \/ HearCheckedIn(p) \/ HearReadBack(p)
      BY <2>3 DEF HearFailure, HearContent, HearCheckedIn, HearReadBack, Heard, CallFrame
    <2>4. CASE OpenTmp(p) \/ WriteTmp(p) \/ Publish(p) \/ NoteManifest(p) \/ NameManifest(p)
      BY <2>4 DEF OpenTmp, WriteTmp, Publish, NoteManifest, NameManifest, StageFrame, CallFrame
    <2>. QED
      BY <1>2, <2>1, <2>2, <2>3, <2>4 DEF RunStep
  <1>3. ASSUME NEW p \in Runs, BrokerStep(p)
        PROVE  UNCHANGED remoteVars \/ CarriesOut(p)
    <2>1. CASE Serve(p)
      BY <2>1 DEF Serve, CarriesOut
    <2>2. CASE ServeFails(p)
      <3>1. budget'.meddling = budget.meddling
        BY <2>2, Before DEF ServeFails, Fault, Spend, Types
      <3>. QED
        BY <2>2, <3>1 DEF ServeFails, CarriesOut
    <2>3. CASE ServeRejected(p) \/ ServeRefused(p)
      BY <2>3 DEF ServeRejected, ServeRefused
    <2>. QED
      BY <1>3, <2>1, <2>2, <2>3 DEF BrokerStep
  <1>4. ASSUME NEW p \in Runs, GiveUp(p) \/ Kill(p)
        PROVE  UNCHANGED remoteVars
    BY <1>4 DEF GiveUp, Kill, CallFrame
  <1>5. CASE TransferTick \/ WeekPasses \/ AllDone \/ UNCHANGED transferVars
    BY <1>5 DEF TransferTick, WeekPasses, AllDone, transferVars
  <1>. QED
    BY <1>1, <1>2, <1>3, <1>4, <1>5 DEF TransferNext

\* A write is carried out for a run that asked for it, with the token it sent.
LEMMA WhoWrites ==
  ASSUME TransferInv, [TransferNext]_transferVars, NEW p \in Runs, landed'[p] > landed[p]
  PROVE  CarriesOut(p) /\ Head(call[p].todo) = "PUT"
  <1>1. RemoteTypes
    BY Before
  <1>2. landed'[p] # landed[p]
    <2>1. landed[p] \in Int
      BY <1>1 DEF RemoteTypes
    <2>. QED
      BY <2>1
  <1>3. PICK q \in Runs : CarriesOut(q)
    BY <1>2, RemoteChanges DEF remoteVars, LockEnds, OthersWrite
  <1>4. q = p /\ Head(call[p].todo) = "PUT"
    BY <1>1, <1>2, <1>3 DEF CarriesOut, Carried, RemoteTypes
  <1>. QED
    BY <1>3, <1>4

\* A push or checkin is carried out under the lock of its path, unless its author
\* has given up; and one run at a time holds the lock (cmd_push, cmd_checkin).
THEOREM WritesExclude == TransferSpec => WritesAreExclusive
  <1>1. ASSUME TransferInv, PushesAreExclusive, [TransferNext]_transferVars,
               NEW p \in Runs, NEW q \in Runs, landed'[p] > landed[p], p # q,
               Holds(q, run[p].name), Waiting(p)
        PROVE  p \in displaced \/ q \in displaced
    <2>1. Serving(p) /\ Head(call[p].todo) = "PUT"
      BY <1>1, WhoWrites DEF CarriesOut
    <2>2. Asks(call[p], p) /\ CallOK(p) /\ PlaceOK(p) /\ LockedOK(p)
      BY <1>1, <2>1, NextRequest, Before DEF Serving
    <2>3. call[p].tool \in {"write", "checkin"} /\ call[p] # Null
      BY <2>1, <2>2, Requests DEF Asks, Verbs, Serving, Pending
    <2>4. run[p].cmd \in {"push", "checkin"} /\ run[p].pc = "calling"
      BY <1>1, <2>2, <2>3 DEF CallOK, PlaceOK, Waiting
    <2>5. Holds(p, run[p].name) /\ run[p].name \in Names
      BY <2>2, <2>4 DEF LockedOK, PlaceOK, Idle
    <2>. QED
      BY <1>1, <2>5 DEF PushesAreExclusive
  <1>2. TransferInv /\ PushesAreExclusive /\ [TransferNext]_transferVars =>
          [\A p, q \in Runs :
             landed'[p] > landed[p] /\ p # q /\ Holds(q, run[p].name)
               => ~Waiting(p) \/ p \in displaced \/ q \in displaced]_transferVars
    BY <1>1
  <1>. QED
    BY <1>2, TransferInvHolds, CommandsExclude, PTL DEF TransferSpec, WritesAreExclusive

\* Only a checkin that was written, or the world, ends a lock (checkin of the
\* broker: PUT, then UNLOCK).
THEOREM LocksEndLast == TransferSpec => LocksEndWithTheirWork
  <1>1. ASSUME TransferInv, [TransferNext]_transferVars, NEW f \in Files,
               rlock[f] # Null, rlock'[f] = Null, budget'.meddling = budget.meddling
        PROVE  \E p \in Runs : call[p] # Null /\ call[p].token = rlock[f] /\ landed[p] = 1
    <2>1. RemoteTypes /\ Types
      BY <1>1, TypesAre DEF TransferInv
    <2>2. ~ \E g \in Files : LockEnds(g)
      <3>1. budget.meddling \in Int
        BY <2>1 DEF Types
      <3>. QED
        BY <1>1, <2>1, <3>1 DEF LockEnds, Spend, Types
    <2>3. PICK p \in Runs : CarriesOut(p)
      BY <1>1, <2>2, RemoteChanges DEF remoteVars, OthersWrite
    <2>4. call[p] # Null /\ call[p] \in Call /\ CallOK(p) /\ LandedOK(p) /\ Asks(call[p], p)
      BY <1>1, <2>3, NextRequest, Before DEF CarriesOut, Serving, Pending
    <2>5. Head(call[p].todo) = "UNLOCK" /\ f = call[p].file
      <3>1. call[p].file \in Files
        BY <2>4 DEF Call
      <3>2. p # Null
        BY LockAssumption
      <3>. QED
        BY <1>1, <2>1, <2>3, <3>1, <3>2 DEF CarriesOut, Carried, RemoteTypes
    <2>6. call[p].token = rlock[f]
      BY <2>3, <2>5 DEF CarriesOut, Accepts
    <2>7. call[p].tool = "checkin" /\ call[p].todo = <<"UNLOCK">>
      BY <2>4, <2>5, Requests DEF Asks, Verbs
    <2>8. landed[p] = 1
      BY <2>3, <2>4, <2>7 DEF LandedOK, CarriesOut, Serving, Pending
    <2>. QED
      BY <2>4, <2>6, <2>8
  <1>2. TransferInv /\ [TransferNext]_transferVars =>
          [\A f \in Files :
             rlock[f] # Null /\ rlock'[f] = Null /\ budget'.meddling = budget.meddling
               => \E p \in Runs : call[p] # Null /\ call[p].token = rlock[f] /\ landed[p] = 1]_transferVars
    BY <1>1
  <1>. QED
    BY <1>2, TransferInvHolds, PTL DEF TransferSpec, LocksEndWithTheirWork

-----------------------------------------------------------------------------
(* What a step leaves of a run *)

\* A step is p's own, or leaves p and its call alone.
LEMMA OthersStay ==
  ASSUME TransferInv, NEW p \in Runs, NEW q \in Runs \ {p},
         Start(p) \/ RunStep(p) \/ BrokerStep(p) \/ GiveUp(p) \/ Kill(p)
  PROVE  run'[q] = run[q] /\ call'[q] = call[q]
  <1>1. run \in [Runs -> Run] /\ call \in [Runs -> Call \cup {Null}]
    BY Before
  <1>2. CASE Start(p)
    BY <1>1, <1>2 DEF Start, StartCollecting, StartPush, StartCheckin, StageFrame
  <1>3. CASE RunStep(p)
    <2>1. CASE Condemn(p) \/ Collect(p) \/ Collected(p)
      BY <1>1, <2>1 DEF Condemn, Collect, Collected, StageFrame
    <2>2. CASE Locking(p) \/ LockRefused(p) \/ CallBroker(p) \/ HearWritten(p) \/ Finish(p)
      BY <1>1, <2>2 DEF Locking, LockRefused, CallBroker, HearWritten, Finish
    <2>3. CASE HearFailure(p) \/ HearContent(p) \/ HearCheckedIn(p) \/ HearReadBack(p)
      BY <1>1, <2>3 DEF HearFailure, HearContent, HearCheckedIn, HearReadBack, Heard
    <2>4. CASE OpenTmp(p) \/ WriteTmp(p) \/ Publish(p) \/ NoteManifest(p) \/ NameManifest(p)
      BY <1>1, <2>4 DEF OpenTmp, WriteTmp, Publish, NoteManifest, NameManifest, StageFrame
    <2>. QED
      BY <1>3, <2>1, <2>2, <2>3, <2>4 DEF RunStep
  <1>4. CASE BrokerStep(p)
    BY <1>1, <1>4 DEF BrokerStep, Serve, ServeRejected, ServeFails, ServeRefused, ServeFrame, Answer
  <1>5. CASE GiveUp(p)
    BY <1>1, <1>5, AbandonedCall DEF GiveUp
  <1>6. CASE Kill(p)
    BY <1>1, <1>6, AbandonedCall DEF Kill
  <1>. QED
    BY <1>2, <1>3, <1>4, <1>5, <1>6

LEMMA WhoseStep ==
  ASSUME TransferInv, [TransferNext]_transferVars, NEW t \in Runs
  PROVE  \/ run'[t] = run[t] /\ call'[t] = call[t]
         \/ Start(t) \/ RunStep(t) \/ BrokerStep(t) \/ GiveUp(t) \/ Kill(t)
  <1>1. ASSUME NEW p \in Runs, Start(p) \/ RunStep(p) \/ BrokerStep(p) \/ GiveUp(p) \/ Kill(p), p # t
        PROVE  run'[t] = run[t] /\ call'[t] = call[t]
    BY <1>1, OthersStay
  <1>2. CASE \E f \in Files : LockEnds(f) \/ \E c \in Contents : OthersWrite(f, c)
    BY <1>2 DEF LockEnds, OthersWrite
  <1>3. CASE TransferTick \/ WeekPasses \/ AllDone \/ UNCHANGED transferVars
    BY <1>3 DEF TransferTick, WeekPasses, AllDone, transferVars
  <1>. QED
    BY <1>1, <1>2, <1>3 DEF TransferNext

\* Once a run has its command, its content, its open file or its exit code, it
\* keeps it.
Steady(t) ==
  /\ run[t].pc # "idle" => /\ run'[t].cmd = run[t].cmd /\ run'[t].name = run[t].name
                           /\ run'[t].pc \notin {"idle", "collecting"} \/ run[t].pc = "collecting"
  /\ run[t].pc \notin {"idle", "calling"} => run'[t].record = run[t].record /\ run'[t].key = run[t].key
  /\ run[t].key # Null => run'[t].key = run[t].key
  /\ run[t].inode # Null => run'[t].inode = run[t].inode
  /\ run[t].exit # Null => run'[t].exit = run[t].exit

LEMMA RunsAreSteady ==
  ASSUME TransferInv, [TransferNext]_transferVars, NEW t \in Runs
  PROVE  Steady(t)
  <1>1. run[t] \in Run /\ run \in [Runs -> Run] /\ PlaceOK(t) /\ CallOK(t)
    BY Before
  <1>2. CASE run'[t] = run[t]
    BY <1>2 DEF Steady
  <1>3. CASE Start(t)
    <2>1. run[t] = NewRun
      BY <1>1, <1>3 DEF Start, StartCollecting, StartPush, StartCheckin, PlaceOK
    <2>. QED
      BY <2>1 DEF NewRun, Steady
  <1>4. CASE RunStep(t)
    <2>1. CASE Condemn(t)
      BY <1>1, <2>1 DEF Condemn, Steady, Run, PlaceOK
    <2>2. CASE Collect(t)
      BY <1>1, <2>2 DEF Collect, Steady, Run, PlaceOK
    <2>3. CASE Collected(t)
      <3>1. run[t].exit = Null /\ run[t].pc = "collecting"
        BY <1>1, <2>3 DEF Collected, PlaceOK
      <3>2. \/ \E e \in {0, 1} : run'[t] = [run[t] EXCEPT !.pc = "done", !.exit = e]
            \/ run'[t] = [run[t] EXCEPT !.pc = "calling"]
        BY <1>1, <2>3 DEF Collected
      <3>. QED
        BY <1>1, <3>1, <3>2 DEF Steady, Run
    <2>4. CASE Locking(t)
      BY <1>1, <2>4 DEF Locking, Steady, Run, PlaceOK
    <2>5. CASE LockRefused(t)
      BY <1>1, <2>5 DEF LockRefused, Steady, Run, PlaceOK
    <2>6. CASE CallBroker(t)
      BY <1>1, <2>6 DEF CallBroker, Steady, Run, PlaceOK
    <2>7. CASE HearWritten(t)
      BY <1>1, <2>7 DEF HearWritten, Steady, Run, PlaceOK
    <2>8. CASE Finish(t)
      BY <1>1, <2>8 DEF Finish, Steady, Run, PlaceOK
    <2>9. CASE HearFailure(t)
      BY <1>1, <2>9 DEF HearFailure, Heard, Out, Waiting, Steady, Run, PlaceOK
    <2>10. CASE HearReadBack(t)
      BY <1>1, <2>10 DEF HearReadBack, Heard, Out, Steady, Run, PlaceOK
    <2>11. CASE HearContent(t)
      BY <1>1, <2>11 DEF HearContent, Heard, Steady, Run, PlaceOK
    <2>12. CASE HearCheckedIn(t)
      BY <1>1, <2>12 DEF HearCheckedIn, Heard, Steady, Run, PlaceOK
    <2>13. CASE OpenTmp(t)
      BY <1>1, <2>13 DEF OpenTmp, Steady, Run, PlaceOK
    <2>14. CASE WriteTmp(t)
      BY <1>1, <2>14 DEF WriteTmp, Steady, Run, PlaceOK
    <2>15. CASE Publish(t)
      <3>1. run[t].exit = Null /\ run[t].pc = "publishing"
        BY <1>1, <2>15 DEF Publish, PlaceOK
      <3>2. \/ run'[t] = [run[t] EXCEPT !.pc = "done", !.exit = 1]
            \/ run'[t] = [run[t] EXCEPT !.pc = "noting"]
        BY <1>1, <2>15 DEF Publish
      <3>. QED
        BY <1>1, <3>1, <3>2 DEF Steady, Run
    <2>16. CASE NoteManifest(t)
      BY <1>1, <2>16 DEF NoteManifest, Steady, Run, PlaceOK
    <2>17. CASE NameManifest(t)
      <3>1. run[t].exit = Null /\ run[t].pc = "naming"
        BY <1>1, <2>17 DEF NameManifest, PlaceOK
      <3>2. \E code \in {0, 1} : run'[t] = Out(run[t], code)
        BY <1>1, <2>17 DEF NameManifest
      <3>. QED
        BY <1>1, <3>1, <3>2 DEF Steady, Run, Out
    <2>. QED
      BY <1>4, <2>1, <2>2, <2>3, <2>4, <2>5, <2>6, <2>7, <2>8, <2>9, <2>10, <2>11, <2>12, <2>13, <2>14, <2>15, <2>16, <2>17 DEF RunStep
  <1>5. CASE BrokerStep(t)
    <2>1. run' = run
      BY <1>5 DEF BrokerStep, Serve, ServeRejected, ServeFails, ServeRefused, ServeFrame
    <2>. QED
      BY <2>1 DEF Steady
  <1>6. CASE GiveUp(t)
    BY <1>1, <1>6 DEF GiveUp, Out, Steady, Run, PlaceOK, Waiting
  <1>7. CASE Kill(t)
    BY <1>1, <1>7 DEF Kill, Steady, Run
  <1>. QED
    BY <1>2, <1>3, <1>4, <1>5, <1>6, <1>7, WhoseStep

\* Who changes the staging directory.
LEMMA StagingChanges ==
  ASSUME [TransferNext]_transferVars
  PROVE  \/ UNCHANGED stagingVars
         \/ \E p \in Runs : \/ Collect(p) \/ OpenTmp(p) \/ WriteTmp(p) \/ Publish(p)
                            \/ NoteManifest(p) \/ NameManifest(p)
         \/ WeekPasses
  <1>1. ASSUME NEW p \in Runs, Start(p)
        PROVE  UNCHANGED stagingVars
    BY <1>1 DEF Start, StartCollecting, StartPush, StartCheckin
  <1>2. ASSUME NEW p \in Runs, RunStep(p)
        PROVE  \/ UNCHANGED stagingVars
               \/ Collect(p) \/ OpenTmp(p) \/ WriteTmp(p) \/ Publish(p)
               \/ NoteManifest(p) \/ NameManifest(p)
    <2>1. CASE Condemn(p) \/ Collected(p)
      BY <2>1 DEF Condemn, Collected
    <2>2. CASE Locking(p) \/ LockRefused(p) \/ CallBroker(p) \/ HearWritten(p) \/ Finish(p)
      BY <2>2 DEF Locking, LockRefused, CallBroker, HearWritten, Finish
    <2>3. CASE HearFailure(p) \/ HearContent(p) \/ HearCheckedIn(p) \/ HearReadBack(p)
      BY <2>3 DEF HearFailure, HearContent, HearCheckedIn, HearReadBack, Heard
    <2>. QED
      BY <1>2, <2>1, <2>2, <2>3 DEF RunStep
  <1>3. ASSUME NEW p \in Runs, BrokerStep(p) \/ GiveUp(p) \/ Kill(p)
        PROVE  UNCHANGED stagingVars
    BY <1>3 DEF BrokerStep, Serve, ServeRejected, ServeFails, ServeRefused, ServeFrame, GiveUp, Kill
  <1>4. CASE \E f \in Files : LockEnds(f) \/ \E c \in Contents : OthersWrite(f, c)
    BY <1>4 DEF LockEnds, OthersWrite
  <1>5. CASE TransferTick \/ AllDone \/ UNCHANGED transferVars
    BY <1>5 DEF TransferTick, AllDone, transferVars
  <1>. QED
    BY <1>1, <1>2, <1>3, <1>4, <1>5 DEF TransferNext

\* A manifest is put in the directory by the run that has it, and given its name.
LEMMA WhereManifestsComeFrom ==
  ASSUME TransferInv, [TransferNext]_transferVars, NEW d \in Contents
  PROVE  /\ \/ note'[d] = Null \/ note'[d] = note[d]
            \/ \E p \in Runs : NoteManifest(p) /\ run[p].key = d /\ note'[d] = run[p].record
         /\ \/ manifest'[d] = Null \/ manifest'[d] = manifest[d]
            \/ \E p \in Runs : NameManifest(p) /\ run[p].key = d /\ manifest'[d] = note[d]
  <1>1. StagingTypes
    BY TypesAre DEF TransferInv
  <1>2. CASE UNCHANGED stagingVars \/ WeekPasses
    BY <1>2 DEF stagingVars, WeekPasses
  <1>3. ASSUME NEW p \in Runs, Collect(p)
        PROVE  note'[d] \in {Null, note[d]} /\ manifest'[d] \in {Null, manifest[d]}
    BY <1>1, <1>3 DEF Collect, StagingTypes
  <1>4. ASSUME NEW p \in Runs, OpenTmp(p) \/ WriteTmp(p) \/ Publish(p)
        PROVE  note' = note /\ manifest' = manifest
    BY <1>4 DEF OpenTmp, WriteTmp, Publish, stagingVars
  <1>5. ASSUME NEW p \in Runs, NoteManifest(p)
        PROVE  /\ manifest' = manifest
               /\ note'[d] = note[d] \/ (run[p].key = d /\ note'[d] = run[p].record)
    BY <1>1, <1>5 DEF NoteManifest, StagingTypes
  <1>6. ASSUME NEW p \in Runs, NameManifest(p)
        PROVE  /\ note'[d] \in {Null, note[d]}
               /\ manifest'[d] = manifest[d] \/ (run[p].key = d /\ manifest'[d] = note[d])
    BY <1>1, <1>6 DEF NameManifest, StagingTypes, stagingVars
  <1>. QED
    BY <1>2, <1>3, <1>4, <1>5, <1>6, StagingChanges

-----------------------------------------------------------------------------
(* The tokens *)

LEMMA ObtainedStays ==
  ASSUME TransferInv, [TransferNext]_transferVars, NEW t \in Runs,
         run[t].cmd = "checkout", run[t].key # Null
  PROVE  run'[t].cmd = "checkout" /\ run'[t].key # Null
  <1>1. run[t].pc # "idle"
    BY Before DEF PlaceOK, NewRun
  <1>. QED
    BY <1>1, RunsAreSteady DEF Steady

\* What a run has for a manifest: what it had, what it found, or what it makes
\* of an answer.
LEMMA WhereRecordsComeFrom ==
  ASSUME TransferInv, [TransferNext]_transferVars, NEW p \in Runs
  PROVE  \/ run'[p].record = run[p].record /\ (run'[p].cmd = run[p].cmd \/ run'[p].record = Null)
         \/ /\ run'[p].cmd = "checkin" /\ run[p].pc = "idle"
            /\ \E d \in Contents : /\ manifest[d] # Null /\ manifest[d].token # Null
                                   /\ run'[p].record = manifest[d]
         \/ /\ run'[p].cmd \in {"fetch", "checkout"} /\ run'[p].record # Null
            /\ run'[p].record.token = IF run'[p].cmd = "checkout" THEN p ELSE Null
            /\ run'[p].key # Null /\ HearContent(p)
         \/ /\ run'[p].cmd = "checkin" /\ run[p].cmd = "checkin"
            /\ run'[p].record # Null /\ run[p].record # Null
            /\ run'[p].record.token = run[p].record.token /\ HearCheckedIn(p)
  <1>1. run[p] \in Run /\ run \in [Runs -> Run] /\ PlaceOK(p) /\ CallOK(p)
    BY Before
  <1>2. CASE run'[p] = run[p]
    BY <1>2
  <1>3. CASE Start(p)
    <2>1. run[p] = NewRun
      BY <1>1, <1>3 DEF Start, StartCollecting, StartPush, StartCheckin, PlaceOK
    <2>2. CASE \E n \in Names, c \in Drafts : StartCheckin(p, n, c)
      <3>1. \/ \E d \in Contents :
                  /\ manifest[d] # Null /\ manifest[d].token # Null
                  /\ run'[p].cmd = "checkin" /\ run'[p].record = manifest[d]
            \/ run'[p].record = Null
        <4>1. PICK n \in Names, data \in Drafts : StartCheckin(p, n, data)
          BY <2>2
        <4>2. CASE \E d \in Contents :
                     /\ Found(d) /\ manifest[d].token # Null
                     /\ run' = [run EXCEPT ![p] =
                          [@ EXCEPT !.cmd = "checkin", !.pc = "locking", !.name = n,
                                    !.data = data, !.key = d, !.record = manifest[d]]]
          <5>1. PICK d \in Contents :
                  /\ Found(d) /\ manifest[d].token # Null
                  /\ run' = [run EXCEPT ![p] =
                       [@ EXCEPT !.cmd = "checkin", !.pc = "locking", !.name = n,
                                 !.data = data, !.key = d, !.record = manifest[d]]]
            BY <4>2
          <5>2. run'[p] = [run[p] EXCEPT !.cmd = "checkin", !.pc = "locking", !.name = n,
                                         !.data = data, !.key = d, !.record = manifest[d]]
            BY <1>1, <5>1
          <5>3. run'[p].cmd = "checkin" /\ run'[p].record = manifest[d]
            BY <2>1, <5>2 DEF NewRun
          <5>. QED
            BY <5>1, <5>3 DEF Found
        <4>3. CASE run' = [run EXCEPT ![p] = [@ EXCEPT !.cmd = "checkin", !.pc = "done", !.exit = 1]]
          BY <1>1, <2>1, <4>3 DEF NewRun
        <4>. QED
          BY <4>1, <4>2, <4>3 DEF StartCheckin
      <3>. QED
        BY <2>1, <3>1 DEF NewRun
    <2>3. CASE \E n \in Names, c \in Drafts : StartPush(p, n, c)
      BY <1>1, <2>1, <2>3 DEF StartPush, NewRun
    <2>4. CASE \E cmd \in Commands, n \in Names \cup {Null} : StartCollecting(p, cmd, n)
      BY <1>1, <2>1, <2>4 DEF StartCollecting, NewRun
    <2>. QED
      BY <1>3, <2>2, <2>3, <2>4 DEF Start
  <1>4. CASE HearContent(p)
    <2>1. /\ run[p].cmd \in {"fetch", "checkout"} /\ run[p].pc = "calling"
          /\ call[p] # Null /\ call[p].reply = "ok"
          /\ run'[p] = [run[p] EXCEPT !.pc = "opening", !.key = call[p].got,
               !.record = [name |-> run[p].name, token |-> IF run[p].cmd = "checkout" THEN p ELSE Null,
                           out |-> run[p].cmd = "checkout"]]
      BY <1>1, <1>4 DEF HearContent, Heard
    <2>2. run[p].name \in Names /\ call[p].got \in Contents
      BY <1>1, <2>1 DEF PlaceOK, CallOK, Idle
    <2>3. /\ run'[p].cmd = run[p].cmd /\ run'[p].key = call[p].got
          /\ run'[p].record = [name |-> run[p].name, token |-> IF run[p].cmd = "checkout" THEN p ELSE Null,
                               out |-> run[p].cmd = "checkout"]
      BY <1>1, <2>1 DEF Run
    <2>4. run'[p].record \in Record
      BY <2>1, <2>2, <2>3 DEF Record
    <2>. QED
      BY <1>4, <2>1, <2>2, <2>3, <2>4, NothingAssumption
  <1>5. CASE HearCheckedIn(p)
    <2>1. /\ run[p].cmd = "checkin" /\ run[p].pc = "calling"
          /\ run'[p] = [run[p] EXCEPT !.pc = "noting", !.record.out = FALSE]
      BY <1>1, <1>5 DEF HearCheckedIn, Heard
    <2>2. run[p].record \in Record
      BY <1>1, <2>1 DEF PlaceOK
    <2>3. run'[p].cmd = "checkin" /\ run'[p].record = [run[p].record EXCEPT !.out = FALSE]
      BY <1>1, <2>1 DEF Run
    <2>4. run'[p].record \in Record /\ run'[p].record.token = run[p].record.token
      BY <2>2, <2>3 DEF Record
    <2>. QED
      BY <1>5, <2>1, <2>2, <2>3, <2>4, NothingAssumption
  <1>6. CASE run[p].pc = "calling" /\ RunStep(p) /\ ~HearContent(p) /\ ~HearCheckedIn(p)
    <2>1. HearFailure(p) \/ HearWritten(p)
      BY <1>6 DEF RunStep, Condemn, Collect, Collected, Locking, LockRefused, CallBroker, HearReadBack,
                  OpenTmp, WriteTmp, Publish, NoteManifest, NameManifest, Finish
    <2>2. CASE HearFailure(p)
      <3>1. \E code \in {2, 3} : run'[p] = Out(run[p], code)
        BY <1>1, <1>6, <2>2 DEF HearFailure, Heard, ExitOf
      <3>. QED
        BY <1>1, <3>1 DEF Out, Run
    <2>3. CASE HearWritten(p)
      BY <1>1, <2>3 DEF HearWritten, Run
    <2>. QED
      BY <2>1, <2>2, <2>3
  <1>7. CASE BrokerStep(p)
    <2>1. run' = run
      BY <1>7 DEF BrokerStep, Serve, ServeRejected, ServeFails, ServeRefused, ServeFrame
    <2>. QED
      BY <2>1
  <1>8. CASE GiveUp(p)
    <2>1. \E code \in {1, 4} : run'[p] = Out(run[p], code)
      BY <1>1, <1>8 DEF GiveUp
    <2>. QED
      BY <1>1, <2>1 DEF Out, Run
  <1>9. CASE Kill(p)
    BY <1>1, <1>9 DEF Kill, Run
  <1>10. CASE run[p].pc \notin {"idle", "calling"}
    BY <1>10, RunsAreSteady DEF Steady
  <1>11. CASE run[p].pc = "idle" /\ RunStep(p)
    BY <1>11 DEF RunStep, Condemn, Collect, Collected, Locking, LockRefused, CallBroker, HearReadBack,
                 OpenTmp, WriteTmp, Publish, NoteManifest, NameManifest, Finish, HearFailure,
                 HearContent, HearCheckedIn, HearWritten, Waiting
  <1>. QED
    BY <1>2, <1>3, <1>4, <1>5, <1>6, <1>7, <1>8, <1>9, <1>10, <1>11, WhoseStep

LEMMA TokensKeep ==
  ASSUME TransferInv, TokensOK, [TransferNext]_transferVars
  PROVE  TokensOK'
  <1>1. ASSUME NEW t \in Runs, Obtained(t)
        PROVE  run'[t].cmd = "checkout" /\ run'[t].key # Null
    BY <1>1, ObtainedStays DEF Obtained
  <1>2. ASSUME NEW p \in Runs
        PROVE  /\ RecordOK(run[p].record)'
               /\ run'[p].cmd = "checkin" /\ run'[p].record # Null => run'[p].record.token # Null
    <2>0. /\ RecordOK(run[p].record)
          /\ run[p].cmd = "checkin" /\ run[p].record # Null => run[p].record.token # Null
          /\ \A d \in Contents : RecordOK(manifest[d])
      BY DEF TokensOK
    <2>1. CASE run'[p].record = run[p].record /\ (run'[p].cmd = run[p].cmd \/ run'[p].record = Null)
      BY <1>1, <2>0, <2>1 DEF RecordOK, Obtained
    <2>2. CASE /\ run'[p].cmd = "checkin"
               /\ \E d \in Contents : /\ manifest[d] # Null /\ manifest[d].token # Null
                                      /\ run'[p].record = manifest[d]
      BY <1>1, <2>0, <2>2 DEF RecordOK, Obtained
    <2>3. CASE /\ run'[p].cmd \in {"fetch", "checkout"} /\ run'[p].record # Null
               /\ run'[p].record.token = IF run'[p].cmd = "checkout" THEN p ELSE Null
               /\ run'[p].key # Null
      BY <2>3 DEF RecordOK, Obtained
    <2>4. CASE /\ run'[p].cmd = "checkin" /\ run[p].cmd = "checkin"
               /\ run'[p].record # Null /\ run[p].record # Null
               /\ run'[p].record.token = run[p].record.token
      BY <1>1, <2>0, <2>4 DEF RecordOK, Obtained
    <2>. QED
      BY <2>1, <2>2, <2>3, <2>4, WhereRecordsComeFrom
  <1>3. ASSUME NEW d \in Contents
        PROVE  RecordOK(note[d])' /\ RecordOK(manifest[d])'
    <2>1. RecordOK(note[d]) /\ RecordOK(manifest[d]) /\ \A p \in Runs : RecordOK(run[p].record)
      BY DEF TokensOK
    <2>2. note'[d] = Null \/ note'[d] = note[d] \/ \E p \in Runs : note'[d] = run[p].record
      BY WhereManifestsComeFrom
    <2>3. manifest'[d] = Null \/ manifest'[d] = manifest[d] \/ manifest'[d] = note[d]
      BY WhereManifestsComeFrom
    <2>. QED
      BY <1>1, <2>1, <2>2, <2>3 DEF RecordOK, Obtained
  <1>. QED
    BY <1>2, <1>3 DEF TokensOK

-----------------------------------------------------------------------------
(* The remote locks *)

\* The call of a checkout that may hold a lock: what is left of it.
LEMMA CheckoutCalls ==
  ASSUME TransferInv, [TransferNext]_transferVars, NEW t \in Runs,
         run[t].cmd = "checkout", run[t].pc \notin {"idle", "collecting"},
         call[t] # Null => \/ call[t].todo = <<"GET">> /\ call[t].reply # "refused"
                           \/ call[t].reply = "error"
  PROVE  call'[t] # Null => \/ call'[t].todo = <<"GET">> /\ call'[t].reply # "refused"
                            \/ call'[t].reply = "error"
  <1>1. call \in [Runs -> Call \cup {Null}] /\ call[t] \in Call \cup {Null} /\ CallOK(t)
    BY Before
  <1>2. CASE call'[t] = call[t]
    BY <1>2
  <1>3. CASE Start(t)
    BY <1>3 DEF Start, StartCollecting, StartPush, StartCheckin
  <1>4. CASE RunStep(t)
    <2>1. CASE Condemn(t) \/ Collect(t) \/ Locking(t) \/ LockRefused(t) \/ Finish(t)
      BY <2>1 DEF Condemn, Collect, Locking, LockRefused, Finish, StageFrame
    <2>2. CASE Collected(t) \/ HearWritten(t)
      BY <2>2 DEF Collected, HearWritten
    <2>3. CASE CallBroker(t)
      BY <2>3, Before DEF CallBroker, PlaceOK
    <2>4. CASE HearFailure(t) \/ HearContent(t) \/ HearCheckedIn(t) \/ HearReadBack(t)
      BY <1>1, <2>4 DEF HearFailure, HearContent, HearCheckedIn, HearReadBack, Heard
    <2>5. CASE OpenTmp(t) \/ WriteTmp(t) \/ Publish(t) \/ NoteManifest(t) \/ NameManifest(t)
      BY <2>5 DEF OpenTmp, WriteTmp, Publish, NoteManifest, NameManifest, StageFrame
    <2>. QED
      BY <1>4, <2>1, <2>2, <2>3, <2>4, <2>5 DEF RunStep
  <1>5. CASE GiveUp(t) \/ Kill(t)
    BY <1>1, <1>5, AbandonedCall DEF GiveUp, Kill
  <1>6. CASE BrokerStep(t)
    <2>1. call[t] # Null /\ call[t].reply = Null /\ call[t] \in Call /\ call[t].todo = <<"GET">>
      BY <1>1, <1>6, NothingAssumption
      DEF BrokerStep, Serve, ServeRejected, ServeFails, ServeRefused, Serving, Pending
    <2>2. serving = t
      BY <1>1, <2>1, Requests DEF CallOK, Verbs
    <2>3. ASSUME NEW status \in {"ok", "error", "refused"}, NEW got, Answer(t, status, got)
          PROVE  /\ call'[t] = Null \/ (call'[t].todo = <<"GET">> /\ call'[t].reply = status)
      BY <1>1, <2>1, <2>3 DEF Answer, Call
    <2>4. CASE Serve(t)
      <3>1. Len(call[t].todo) = 1
        BY <2>1, Requests DEF Verbs
      <3>2. \E got : Answer(t, "ok", got)
        BY <2>4, <3>1 DEF Serve
      <3>. QED
        BY <2>3, <3>2
    <2>5. CASE ServeRejected(t) \/ ServeFails(t)
      BY <2>3, <2>5 DEF ServeRejected, ServeFails
    <2>6. CASE ServeRefused(t)
      BY <2>2, <2>6, LockAssumption DEF ServeRefused
    <2>. QED
      BY <1>6, <2>4, <2>5, <2>6 DEF BrokerStep
  <1>. QED
    BY <1>2, <1>3, <1>4, <1>5, <1>6, WhoseStep

\* What a request that is carried out changes, by the tool that made it.
Effects(p) ==
  LET c == call[p]
      g == c.file IN
  \/ c.tool = "read" /\ UNCHANGED <<remote, rlock, known>>
  \/ /\ c.tool = "checkout" /\ c.todo = <<"GET">>
     /\ known' = [known EXCEPT ![p] = remote[g]] /\ UNCHANGED <<remote, rlock>>
  \/ /\ c.tool = "checkout" /\ c.todo = <<"LOCK", "GET">> /\ rlock[g] = Null
     /\ rlock' = [rlock EXCEPT ![g] = p] /\ UNCHANGED <<remote, known>>
  \/ /\ c.tool \in {"write", "checkin"} /\ rlock[g] = c.token
     /\ remote' = [remote EXCEPT ![g] = c.data]
     /\ known' = (IF c.token = Null THEN known ELSE [known EXCEPT ![c.token] = c.data])
     /\ UNCHANGED rlock
  \/ /\ c.tool = "checkin" /\ c.todo = <<"UNLOCK">> /\ rlock[g] = c.token /\ c.token # Null
     /\ rlock' = [rlock EXCEPT ![g] = Null] /\ known' = [known EXCEPT ![c.token] = Null]
     /\ UNCHANGED remote

LEMMA EffectsAre ==
  ASSUME TransferInv, NEW p \in Runs, CarriesOut(p)
  PROVE  /\ call[p] \in Call /\ call[p] # Null /\ call[p].reply = Null /\ call[p].file \in Files
         /\ CallOK(p) /\ Effects(p) /\ UNCHANGED run
  <1>1. /\ call[p] \in Call /\ call[p] # Null /\ call[p].reply = Null /\ call[p].file \in Files
        /\ CallOK(p) /\ Asks(call[p], p) /\ UNCHANGED run
    BY NextRequest, Before DEF CarriesOut, Serving, Pending, ServeFrame, Call
  <1>2. Carried(p) /\ Accepts(call[p])
    BY DEF CarriesOut
  <1>3. CASE call[p].tool = "read" /\ call[p].todo = <<"GET">>
    <2>1. Head(call[p].todo) = "GET" /\ call[p].token = Null
      <3>1. run[p].cmd # "checkin"
        BY <1>1, <1>3 DEF CallOK
      <3>. QED
        BY <1>1, <1>3, <3>1, Requests DEF Verbs, CallOK
    <2>2. UNCHANGED <<remote, rlock, known>>
      BY <1>2, <1>3, <2>1 DEF Carried
    <2>. QED
      BY <1>1, <1>3, <2>2 DEF Effects
  <1>4. CASE call[p].tool = "checkout" /\ call[p].todo = <<"GET">>
    <2>1. Head(call[p].todo) = "GET"
      BY <1>4, Requests DEF Verbs
    <2>2. p # Null
      BY LockAssumption
    <2>3. known' = [known EXCEPT ![p] = remote[call[p].file]] /\ UNCHANGED <<remote, rlock>>
      BY <1>2, <1>4, <2>1, <2>2 DEF Carried
    <2>. QED
      BY <1>1, <1>4, <2>3 DEF Effects
  <1>5. CASE call[p].tool = "checkout" /\ call[p].todo = <<"LOCK", "GET">>
    <2>1. Head(call[p].todo) = "LOCK"
      BY <1>5, Requests DEF Verbs
    <2>2. p # Null /\ rlock[call[p].file] = Null
      BY <1>2, <2>1, LockAssumption DEF Accepts
    <2>3. rlock' = [rlock EXCEPT ![call[p].file] = p] /\ UNCHANGED <<remote, known>>
      BY <1>2, <1>5, <2>1, <2>2 DEF Carried
    <2>. QED
      BY <1>1, <1>5, <2>2, <2>3 DEF Effects
  <1>6. CASE /\ call[p].tool \in {"write", "checkin"}
             /\ call[p].todo = <<"PUT">> \/ call[p].todo = <<"PUT", "UNLOCK">>
    <2>1. Head(call[p].todo) = "PUT"
      BY <1>6, Requests DEF Verbs
    <2>2. rlock[call[p].file] = call[p].token
      BY <1>2, <2>1 DEF Accepts
    <2>3. call[p].tool # "checkout"
      BY <1>6
    <2>4. /\ remote' = [remote EXCEPT ![call[p].file] = call[p].data] /\ UNCHANGED rlock
          /\ known' = (IF call[p].token = Null THEN known ELSE [known EXCEPT ![call[p].token] = call[p].data])
      BY <1>2, <2>1, <2>3 DEF Carried
    <2>. QED
      BY <1>1, <1>6, <2>2, <2>4 DEF Effects
  <1>7. CASE call[p].tool = "checkin" /\ call[p].todo = <<"UNLOCK">>
    <2>1. Head(call[p].todo) = "UNLOCK"
      BY <1>7, Requests DEF Verbs
    <2>2. call[p].token # Null /\ rlock[call[p].file] = call[p].token
      BY <1>2, <2>1 DEF Accepts
    <2>3. /\ rlock' = [rlock EXCEPT ![call[p].file] = Null]
          /\ known' = [known EXCEPT ![call[p].token] = Null] /\ UNCHANGED remote
      BY <1>2, <1>7, <2>1, <2>2 DEF Carried
    <2>. QED
      BY <1>1, <1>7, <2>2, <2>3 DEF Effects
  <1>. QED
    BY <1>1, <1>3, <1>4, <1>5, <1>6, <1>7 DEF Asks

\* A token locks one file: the one that its checkout asked for.
LEMMA OneFileByToken ==
  ASSUME \A h \in Files : LockedByOK(h), NEW f \in Files, NEW g \in Files, rlock[f] # Null, rlock[f] = rlock[g]
  PROVE  f = g
  BY DEF LockedByOK

LEMMA LockedByKeeps ==
  ASSUME TransferInv, TransferInv', \A h \in Files : LockedByOK(h), [TransferNext]_transferVars,
         NEW f \in Files
  PROVE  LockedByOK(f)'
  <1>1. RemoteTypes
    BY TypesAre DEF TransferInv
  <1>2. ASSUME rlock'[f] = rlock[f], rlock[f] # Null
        PROVE  LockedByOK(f)'
    <2>1. PICK t \in Runs : t = rlock[f]
      BY <1>1, <1>2 DEF RemoteTypes
    <2>2. /\ run[t].cmd = "checkout" /\ f = FileOf[run[t].name]
          /\ run[t].pc \notin {"idle", "collecting"} /\ run[t].exit # 3
          /\ call[t] # Null => \/ call[t].todo = <<"GET">> /\ call[t].reply # "refused"
                               \/ call[t].reply = "error"
      BY <1>2, <2>1 DEF LockedByOK
    <2>3. /\ run'[t].cmd = "checkout" /\ run'[t].name = run[t].name
          /\ run'[t].pc \notin {"idle", "collecting"}
      BY <2>2, RunsAreSteady DEF Steady
    <2>4. call'[t] # Null => \/ call'[t].todo = <<"GET">> /\ call'[t].reply # "refused"
                             \/ call'[t].reply = "error"
      BY <2>2, CheckoutCalls
    <2>5. run'[t].exit # 3
      <3>0. run \in [Runs -> Run] /\ run[t] \in Run /\ PlaceOK(t)
        BY Before
      <3>1. CASE run[t].exit # Null \/ run'[t] = run[t]
        BY <2>2, <3>1, RunsAreSteady DEF Steady
      <3>2. CASE HearFailure(t)
        <4>1. call[t].reply = "error" /\ run'[t] = Out(run[t], 2)
          BY <2>2, <3>0, <3>2 DEF HearFailure, Heard, ExitOf, PlaceOK, Waiting
        <4>. QED
          BY <3>0, <4>1 DEF Out, Run
      <3>3. CASE RunStep(t) /\ ~HearFailure(t)
        <4>1. CASE Condemn(t) \/ Collect(t) \/ Collected(t) \/ Locking(t) \/ LockRefused(t)
                   \/ CallBroker(t) \/ HearWritten(t) \/ HearReadBack(t) \/ HearCheckedIn(t) \/ Finish(t)
          BY <2>2, <3>0, <4>1 DEF PlaceOK, Condemn, Collect, Collected, Locking, LockRefused, CallBroker,
                                  HearWritten, HearReadBack, HearCheckedIn, Finish
        <4>2. CASE HearContent(t)
          BY <2>2, <3>0, <4>2 DEF HearContent, Heard, Run
        <4>3. CASE OpenTmp(t) \/ WriteTmp(t) \/ NoteManifest(t)
          <5>1. run'[t].exit = run[t].exit
            <6>1. CASE OpenTmp(t)
              BY <3>0, <6>1 DEF OpenTmp, Run
            <6>2. CASE WriteTmp(t)
              BY <3>0, <6>2 DEF WriteTmp, Run
            <6>3. CASE NoteManifest(t)
              BY <3>0, <6>3 DEF NoteManifest, Run
            <6>. QED
              BY <4>3, <6>1, <6>2, <6>3
          <5>. QED
            BY <2>2, <5>1
        <4>4. CASE Publish(t)
          <5>1. run'[t] = [run[t] EXCEPT !.pc = "done", !.exit = 1] \/ run'[t] = [run[t] EXCEPT !.pc = "noting"]
            BY <3>0, <4>4 DEF Publish
          <5>2. run'[t].exit = 1 \/ run'[t].exit = run[t].exit
            BY <3>0, <5>1 DEF Run
          <5>. QED
            BY <2>2, <5>2
        <4>5. CASE NameManifest(t)
          <5>1. \E code \in {0, 1} : run'[t] = Out(run[t], code)
            BY <3>0, <4>5 DEF NameManifest
          <5>. QED
            BY <3>0, <5>1 DEF Run, Out
        <4>. QED
          BY <3>3, <4>1, <4>2, <4>3, <4>4, <4>5 DEF RunStep
      <3>4. CASE Start(t)
        BY <2>2, <3>4 DEF Start, StartCollecting, StartPush, StartCheckin
      <3>5. CASE BrokerStep(t)
        <4>1. run' = run
          BY <3>5 DEF BrokerStep, Serve, ServeRejected, ServeFails, ServeRefused, ServeFrame
        <4>. QED
          BY <2>2, <4>1
      <3>6. CASE GiveUp(t)
        <4>1. \E code \in {1, 4} : run'[t] = Out(run[t], code)
          BY <3>0, <3>6 DEF GiveUp
        <4>. QED
          BY <3>0, <4>1 DEF Run, Out
      <3>7. CASE Kill(t)
        BY <2>2, <3>0, <3>7 DEF Kill, Run
      <3>. QED
        BY <3>1, <3>2, <3>3, <3>4, <3>5, <3>6, <3>7, WhoseStep
    <2>. QED
      BY <1>2, <2>1, <2>2, <2>3, <2>4, <2>5 DEF LockedByOK
  <1>3. ASSUME rlock'[f] # rlock[f], rlock'[f] # Null
        PROVE  LockedByOK(f)'
    <2>1. PICK p \in Runs : CarriesOut(p)
      BY <1>1, <1>3, RemoteChanges DEF remoteVars, LockEnds, OthersWrite, RemoteTypes
    <2>2. /\ call[p] \in Call /\ call[p] # Null /\ call[p].reply = Null /\ call[p].file \in Files
          /\ CallOK(p) /\ Effects(p) /\ UNCHANGED run
      BY <2>1, EffectsAre
    <2>3. /\ call[p].tool = "checkout" /\ call[p].todo = <<"LOCK", "GET">>
          /\ f = call[p].file /\ rlock'[f] = p
      BY <1>1, <1>3, <2>2 DEF Effects, RemoteTypes
    <2>4. /\ run[p].cmd = "checkout" /\ f = FileOf[run[p].name] /\ run[p].exit # 3
          /\ run[p].pc \notin {"idle", "collecting"}
      BY <2>2, <2>3 DEF CallOK
    <2>5. call'[p] # Null => \/ call'[p].todo = <<"GET">> /\ call'[p].reply # "refused"
                             \/ call'[p].reply = "error"
      <3>1. call \in [Runs -> Call \cup {Null}]
        BY Before
      <3>2. CASE Serve(p)
        <4>1. call'[p].todo = <<"GET">> /\ call'[p].reply = Null
          <5>1. Len(call[p].todo) = 2 /\ Tail(call[p].todo) = <<"GET">>
            BY <2>3, Requests DEF Verbs
          <5>2. call'[p] = [call[p] EXCEPT !.todo = Tail(call[p].todo),
                              !.got = IF Head(call[p].todo) = "GET" THEN remote[call[p].file] ELSE call[p].got]
            BY <3>1, <3>2, <5>1 DEF Serve
          <5>3. call'[p].todo = Tail(call[p].todo) /\ call'[p].reply = call[p].reply
            BY <2>2, <5>2 DEF Call
          <5>. QED
            BY <2>2, <5>1, <5>3
        <4>. QED
          BY <4>1, NothingAssumption
      <3>3. CASE ServeFails(p)
        BY <2>2, <3>1, <3>3 DEF ServeFails, Answer, Call
      <3>. QED
        BY <2>1, <3>2, <3>3 DEF CarriesOut
    <2>. QED
      BY <2>2, <2>3, <2>4, <2>5 DEF LockedByOK
  <1>. QED
    BY <1>2, <1>3 DEF LockedByOK

\* A run has the digest of its content from the broker, or from a manifest.
LEMMA WhereKeysComeFrom ==
  ASSUME TransferInv, [TransferNext]_transferVars, NEW t \in Runs, run'[t].key # run[t].key
  PROVE  run[t].key = Null /\ (HearContent(t) \/ run'[t].cmd = "checkin")
  <1>1. run[t] \in Run /\ run \in [Runs -> Run] /\ PlaceOK(t) /\ run[t].key = Null
    BY Before, RunsAreSteady DEF Steady
  <1>2. run[t].pc \in {"idle", "calling"}
    BY RunsAreSteady DEF Steady
  <1>3. CASE Start(t)
    <2>1. run[t] = NewRun
      BY <1>1, <1>3 DEF Start, StartCollecting, StartPush, StartCheckin, PlaceOK
    <2>2. CASE \E n \in Names, c \in Drafts : StartCheckin(t, n, c)
      BY <1>1, <2>1, <2>2 DEF StartCheckin, NewRun
    <2>3. CASE \E n \in Names, c \in Drafts : StartPush(t, n, c)
      BY <1>1, <2>1, <2>3 DEF StartPush, NewRun
    <2>4. CASE \E cmd \in Commands, n \in Names \cup {Null} : StartCollecting(t, cmd, n)
      BY <1>1, <2>1, <2>4 DEF StartCollecting, NewRun
    <2>. QED
      BY <1>1, <1>3, <2>2, <2>3, <2>4 DEF Start
  <1>4. CASE RunStep(t)
    <2>1. HearFailure(t) \/ HearWritten(t) \/ HearContent(t) \/ HearCheckedIn(t)
      BY <1>2, <1>4 DEF RunStep, Condemn, Collect, Collected, Locking, LockRefused, CallBroker, HearReadBack,
                  OpenTmp, WriteTmp, Publish, NoteManifest, NameManifest, Finish
    <2>2. CASE HearFailure(t)
      <3>1. \E code \in {2, 3} : run'[t] = Out(run[t], code)
        BY <1>1, <1>2, <2>2 DEF HearFailure, Heard, ExitOf
      <3>. QED
        BY <1>1, <3>1 DEF Out, Run
    <2>3. CASE HearWritten(t)
      <3>1. run'[t] = [run[t] EXCEPT !.pc = "verifying"]
        BY <1>1, <2>3 DEF HearWritten
      <3>. QED
        BY <1>1, <3>1 DEF Run
    <2>4. CASE HearCheckedIn(t)
      <3>1. run'[t] = [run[t] EXCEPT !.pc = "noting", !.record.out = FALSE]
        BY <1>1, <2>4 DEF HearCheckedIn, Heard
      <3>. QED
        BY <1>1, <3>1 DEF Run
    <2>. QED
      BY <1>1, <2>1, <2>2, <2>3, <2>4
  <1>5. CASE BrokerStep(t)
    BY <1>5 DEF BrokerStep, Serve, ServeRejected, ServeFails, ServeRefused, ServeFrame
  <1>6. CASE GiveUp(t)
    <2>1. \E code \in {1, 4} : run'[t] = Out(run[t], code)
      BY <1>1, <1>6 DEF GiveUp
    <2>. QED
      BY <1>1, <2>1 DEF Out, Run
  <1>7. CASE Kill(t)
    BY <1>1, <1>7 DEF Kill, Run
  <1>. QED
    BY <1>3, <1>4, <1>5, <1>6, <1>7, WhoseStep

\* What a checkout has been told.
Told(t) == Obtained(t) \/ (call[t] # Null /\ call[t].reply = "ok")

\* A run is told of its content when the broker has carried its call out.
LEMMA NewsComeFromTheBroker ==
  ASSUME TransferInv, [TransferNext]_transferVars, NEW t \in Runs,
         run[t].cmd = "checkout", run[t].pc \notin {"idle", "collecting"},
         ~CarriesOut(t), Told(t)'
  PROVE  Told(t)
  <1>1. call \in [Runs -> Call \cup {Null}] /\ call[t] \in Call \cup {Null} /\ PlaceOK(t)
    BY Before
  <1>2. CASE Obtained(t)' /\ run[t].key # Null
    BY <1>2 DEF Obtained, Told
  <1>3. CASE Obtained(t)' /\ run[t].key = Null
    <2>1. run'[t].cmd = "checkout" /\ run'[t].key # run[t].key
      BY <1>3 DEF Obtained
    <2>2. HearContent(t)
      BY <2>1, WhereKeysComeFrom
    <2>. QED
      BY <2>2 DEF HearContent, Told
  <1>4. CASE call'[t] # Null /\ call'[t].reply = "ok"
    <2>1. CASE call'[t] = call[t]
      BY <1>4, <2>1 DEF Told
    <2>2. CASE Start(t)
      BY <2>2 DEF Start, StartCollecting, StartPush, StartCheckin
    <2>3. CASE RunStep(t)
      <3>1. CASE Condemn(t) \/ Collect(t) \/ Locking(t) \/ LockRefused(t) \/ Finish(t)
        BY <1>4, <3>1 DEF Condemn, Collect, Locking, LockRefused, Finish, StageFrame, Told
      <3>2. CASE Collected(t) \/ HearWritten(t)
        BY <3>2 DEF Collected, HearWritten
      <3>3. CASE CallBroker(t)
        BY <1>1, <3>3 DEF CallBroker, PlaceOK
      <3>4. CASE HearFailure(t) \/ HearContent(t) \/ HearCheckedIn(t) \/ HearReadBack(t)
        BY <1>1, <1>4, <3>4 DEF HearFailure, HearContent, HearCheckedIn, HearReadBack, Heard
      <3>5. CASE OpenTmp(t) \/ WriteTmp(t) \/ Publish(t) \/ NoteManifest(t) \/ NameManifest(t)
        BY <1>4, <3>5 DEF OpenTmp, WriteTmp, Publish, NoteManifest, NameManifest, StageFrame, Told
      <3>. QED
        BY <2>3, <3>1, <3>2, <3>3, <3>4, <3>5 DEF RunStep
    <2>4. CASE GiveUp(t) \/ Kill(t)
      BY <1>1, <1>4, <2>4, AbandonedCall DEF GiveUp, Kill, Told
    <2>5. CASE BrokerStep(t)
      <3>1. ~Serve(t)
        BY DEF CarriesOut, Serve
      <3>2. call[t] \in Call
        BY <1>1, <2>5, <3>1 DEF BrokerStep, ServeRejected, ServeFails, ServeRefused, Serving, Pending
      <3>3. \E status \in {"error", "refused"} : Answer(t, status, Null)
        BY <2>5, <3>1 DEF BrokerStep, ServeRejected, ServeFails, ServeRefused
      <3>4. call'[t] = Null \/ call'[t].reply \in {"error", "refused"}
        BY <1>1, <3>2, <3>3 DEF Answer, Call
      <3>. QED
        BY <1>4, <3>4
    <2>. QED
      BY <2>1, <2>2, <2>3, <2>4, <2>5, WhoseStep
  <1>. QED
    BY <1>2, <1>3, <1>4 DEF Told

\* A call whose request is carried out is a step further, or answered.
LEMMA CallsMove ==
  ASSUME TransferInv, NEW p \in Runs, CarriesOut(p)
  PROVE  call'[p] # call[p]
  <1>1. /\ call[p] \in Call /\ call[p] # Null /\ call[p].reply = Null /\ Asks(call[p], p)
        /\ call \in [Runs -> Call \cup {Null}]
    BY NextRequest, Before DEF CarriesOut, Serving, Pending
  <1>2. ASSUME NEW status \in {"ok", "error", "refused"}, NEW got, Answer(p, status, got)
        PROVE  call'[p] # call[p]
    <2>1. call'[p] = Null \/ call'[p].reply = status
      BY <1>1, <1>2 DEF Answer, Call
    <2>. QED
      BY <1>1, <2>1, NothingAssumption
  <1>3. CASE Serve(p) /\ Len(call[p].todo) # 1
    <2>1. Tail(call[p].todo) # call[p].todo
      <3>1. \E a, b \in Verbs : call[p].todo = <<a, b>>
        BY <1>1, <1>3, Requests DEF Asks, Verbs
      <3>. QED
        BY <3>1, Requests
    <2>2. call'[p] = [call[p] EXCEPT !.todo = Tail(call[p].todo),
                        !.got = IF Head(call[p].todo) = "GET" THEN remote[call[p].file] ELSE call[p].got]
      BY <1>1, <1>3 DEF Serve
    <2>3. call'[p].todo = Tail(call[p].todo)
      BY <1>1, <2>2 DEF Call
    <2>. QED
      BY <2>1, <2>3
  <1>4. CASE Serve(p) /\ Len(call[p].todo) = 1
    <2>1. \E got : Answer(p, "ok", got)
      BY <1>4 DEF Serve
    <2>. QED
      BY <1>2, <2>1
  <1>5. CASE ServeFails(p)
    BY <1>2, <1>5 DEF ServeFails
  <1>. QED
    BY <1>3, <1>4, <1>5 DEF CarriesOut

LEMMA KnownKeeps ==
  ASSUME TransferInv, \A h \in Files : LockedByOK(h) /\ KnownOK(h), [TransferNext]_transferVars,
         NEW f \in Files
  PROVE  KnownOK(f)'
  <1>0. RemoteTypes /\ \A h \in Files : LockedByOK(h)
    BY TypesAre DEF TransferInv
  <1>1. SUFFICES ASSUME NEW t \in Runs, t = rlock'[f], Told(t)'
                 PROVE  known'[t] = remote'[f]
    <2>1. rlock'[f] \in Runs \cup {Null}
      <3>1. TransferInv => RemoteTypes
        BY TypesAre DEF TransferInv
      <3>2. CASE \E p \in Runs : CarriesOut(p)
        BY <3>2, CarriedOut DEF CarriesOut, Serving, RemoteTypes
      <3>3. CASE \E g \in Files : LockEnds(g) \/ \E c \in Contents : OthersWrite(g, c)
        BY <1>0, <3>3 DEF LockEnds, OthersWrite, RemoteTypes
      <3>4. CASE UNCHANGED remoteVars
        BY <1>0, <3>4 DEF remoteVars, RemoteTypes
      <3>. QED
        BY <3>2, <3>3, <3>4, RemoteChanges
    <2>. QED
      BY <2>1 DEF KnownOK, Told
  <1>2. ASSUME rlock[f] = t
        PROVE  /\ run[t].cmd = "checkout" /\ f = FileOf[run[t].name]
               /\ run[t].pc \notin {"idle", "collecting"}
               /\ Told(t) => known[t] = remote[f]
    BY <1>2, LockAssumption DEF LockedByOK, KnownOK, Told
  <1>3. ASSUME rlock[f] = t, ~CarriesOut(t)
        PROVE  known[t] = remote[f]
    <2>1. Told(t)
      BY <1>1, <1>2, <1>3, NewsComeFromTheBroker
    <2>. QED
      BY <1>2, <1>3, <2>1
  <1>4. CASE \E p \in Runs : CarriesOut(p)
    <2>1. PICK p \in Runs : CarriesOut(p)
      BY <1>4
    <2>2. /\ call[p] \in Call /\ call[p] # Null /\ call[p].reply = Null /\ call[p].file \in Files
          /\ CallOK(p) /\ Effects(p) /\ UNCHANGED run
      BY <2>1, EffectsAre
    <2>3. PICK g \in Files : g = call[p].file
      BY <2>2
    <2>4. call[p].tool # "checkout" => rlock[f] # p
      BY <1>0, <2>2, LockAssumption DEF LockedByOK, CallOK
    <2>5. rlock[f] = p => f = g
      BY <1>0, <2>2, <2>3, LockAssumption DEF LockedByOK, CallOK
    <2>6. ASSUME rlock[f] = t, t # p
          PROVE  known[t] = remote[f]
      <3>1. ~CarriesOut(t)
        BY <2>1, <2>6, OthersStay, CallsMove DEF CarriesOut, BrokerStep
      <3>. QED
        BY <1>3, <2>6, <3>1
    <2>7. CASE call[p].tool = "read" /\ UNCHANGED <<remote, rlock, known>>
      BY <1>1, <2>4, <2>6, <2>7
    <2>8. CASE /\ call[p].tool = "checkout" /\ call[p].todo = <<"GET">>
               /\ known' = [known EXCEPT ![p] = remote[g]] /\ UNCHANGED <<remote, rlock>>
      BY <1>0, <1>1, <2>5, <2>6, <2>8 DEF RemoteTypes
    <2>9. CASE /\ call[p].tool = "checkout" /\ call[p].todo = <<"LOCK", "GET">> /\ rlock[g] = Null
               /\ rlock' = [rlock EXCEPT ![g] = p] /\ UNCHANGED <<remote, known>>
      <3>1. ~Told(p)'
        <4>1. run[p].key = Null /\ run'[p] = run[p]
          BY <2>2, <2>9 DEF CallOK
        <4>2. call'[p] = Null \/ call'[p].reply # "ok"
          <5>1. call \in [Runs -> Call \cup {Null}]
            BY Before
          <5>2. CASE Serve(p)
            <6>1. Len(call[p].todo) = 2
              BY <2>9, Requests DEF Verbs
            <6>2. call'[p] = [call[p] EXCEPT !.todo = Tail(call[p].todo),
                                !.got = IF Head(call[p].todo) = "GET" THEN remote[call[p].file] ELSE call[p].got]
              BY <5>1, <5>2, <6>1 DEF Serve
            <6>3. call'[p].reply = call[p].reply
              BY <2>2, <6>2 DEF Call
            <6>. QED
              BY <2>2, <6>3, NothingAssumption
          <5>3. CASE ServeFails(p)
            BY <2>2, <5>1, <5>3 DEF ServeFails, Answer, Call
          <5>. QED
            BY <2>1, <5>2, <5>3 DEF CarriesOut
        <4>. QED
          BY <4>1, <4>2 DEF Told, Obtained
      <3>2. t # p
        BY <1>1, <3>1
      <3>3. rlock[f] = t
        BY <1>0, <1>1, <2>9, <3>2 DEF RemoteTypes
      <3>. QED
        BY <2>6, <2>9, <3>2, <3>3
    <2>10. CASE /\ call[p].tool \in {"write", "checkin"} /\ rlock[g] = call[p].token
                /\ remote' = [remote EXCEPT ![g] = call[p].data]
                /\ known' = (IF call[p].token = Null THEN known ELSE [known EXCEPT ![call[p].token] = call[p].data])
                /\ UNCHANGED rlock
      <3>1. rlock[f] = t /\ t # p /\ t # Null /\ call[p].token \in Runs \cup {Null}
        BY <1>1, <2>2, <2>4, <2>10, LockAssumption DEF Call
      <3>2. known[t] = remote[f]
        BY <2>6, <3>1
      <3>3. f = g <=> call[p].token = t
        BY <1>0, <2>10, <3>1, OneFileByToken
      <3>. QED
        BY <1>0, <2>10, <3>1, <3>2, <3>3 DEF RemoteTypes
    <2>11. CASE /\ call[p].tool = "checkin" /\ rlock[g] = call[p].token /\ call[p].token # Null
                /\ rlock' = [rlock EXCEPT ![g] = Null] /\ known' = [known EXCEPT ![call[p].token] = Null]
                /\ UNCHANGED remote
      <3>1. f # g /\ rlock[f] = t /\ t # Null
        BY <1>0, <1>1, <2>11, LockAssumption DEF RemoteTypes
      <3>2. t # p /\ t # call[p].token
        BY <1>0, <2>4, <2>11, <3>1, OneFileByToken
      <3>. QED
        BY <1>0, <2>6, <2>11, <3>1, <3>2 DEF RemoteTypes
    <2>. QED
      BY <2>2, <2>3, <2>7, <2>8, <2>9, <2>10, <2>11 DEF Effects
  <1>5. CASE ~ \E p \in Runs : CarriesOut(p)
    <2>1. CASE UNCHANGED remoteVars
      BY <1>1, <1>3, <1>5, <2>1 DEF remoteVars
    <2>2. ASSUME NEW g \in Files, LockEnds(g)
          PROVE  known'[t] = remote'[f]
      <3>1. f # g /\ rlock[f] = t /\ t # Null /\ remote' = remote /\ rlock[g] # Null
        BY <1>0, <1>1, <2>2, LockAssumption DEF LockEnds, RemoteTypes
      <3>2. rlock[g] # t
        BY <1>0, <3>1, OneFileByToken
      <3>3. known'[t] = known[t]
        BY <1>0, <2>2, <3>2 DEF LockEnds, RemoteTypes
      <3>. QED
        BY <1>3, <1>5, <3>1, <3>3
    <2>3. ASSUME NEW g \in Files, NEW c \in Contents, OthersWrite(g, c)
          PROVE  known'[t] = remote'[f]
      <3>1. rlock[f] = t /\ t # Null /\ rlock[g] = Null /\ known' = known
        BY <1>1, <2>3, LockAssumption DEF OthersWrite
      <3>2. remote'[f] = remote[f]
        BY <1>0, <2>3, <3>1 DEF OthersWrite, RemoteTypes
      <3>. QED
        BY <1>3, <1>5, <3>1, <3>2
    <2>. QED
      BY <1>5, <2>1, <2>2, <2>3, RemoteChanges
  <1>. QED
    BY <1>4, <1>5

\* The checkin is done at the broker, as far as its run knows or will be told.
Spent(p) ==
  \/ run[p].exit = 0 \/ run[p].pc \in {"noting", "naming"}
  \/ call[p] # Null /\ call[p].reply = "ok"

\* A checkin is done when its UNLOCK was carried out.
LEMMA CheckinsAreSpent ==
  ASSUME TransferInv, [TransferNext]_transferVars, NEW p \in Runs, run'[p].cmd = "checkin", Spent(p)'
  PROVE  \/ run[p].cmd = "checkin" /\ run[p].pc # "idle" /\ Spent(p)
         \/ CarriesOut(p) /\ call[p].tool = "checkin" /\ call[p].todo = <<"UNLOCK">>
  <1>1. /\ run[p] \in Run /\ run \in [Runs -> Run] /\ PlaceOK(p) /\ CallOK(p)
        /\ call \in [Runs -> Call \cup {Null}] /\ call[p] \in Call \cup {Null}
    BY Before
  <1>2. Spent(p) => run[p].pc # "idle"
    BY <1>1, NothingAssumption DEF Spent, PlaceOK, CallOK, NewRun
  <1>3. CASE run'[p] = run[p] /\ call'[p] = call[p]
    BY <1>2, <1>3 DEF Spent
  <1>4. CASE Start(p)
    <2>1. run[p] = NewRun
      BY <1>1, <1>4 DEF Start, StartCollecting, StartPush, StartCheckin, PlaceOK
    <2>2. call[p] = Null /\ call' = call
      BY <1>1, <1>4, <2>1 DEF CallOK, NewRun, Start, StartCollecting, StartPush, StartCheckin, StageFrame
    <2>3. CASE \E n \in Names, c \in Drafts : StartCheckin(p, n, c)
      <3>1. run'[p].exit \in {Null, 1} /\ run'[p].pc \in {"locking", "done"}
        <4>1. PICK n \in Names, data \in Drafts : StartCheckin(p, n, data)
          BY <2>3
        <4>2. \/ \E d \in Contents :
                   run' = [run EXCEPT ![p] =
                     [@ EXCEPT !.cmd = "checkin", !.pc = "locking", !.name = n,
                               !.data = data, !.key = d, !.record = manifest[d]]]
              \/ run' = [run EXCEPT ![p] = [@ EXCEPT !.cmd = "checkin", !.pc = "done", !.exit = 1]]
          BY <4>1 DEF StartCheckin
        <4>3. \/ \E d \in Contents :
                   run'[p] = [run[p] EXCEPT !.cmd = "checkin", !.pc = "locking", !.name = n,
                                            !.data = data, !.key = d, !.record = manifest[d]]
              \/ run'[p] = [run[p] EXCEPT !.cmd = "checkin", !.pc = "done", !.exit = 1]
          BY <1>1, <4>2
        <4>4. ASSUME NEW d \in Contents,
                     run'[p] = [run[p] EXCEPT !.cmd = "checkin", !.pc = "locking", !.name = n,
                                              !.data = data, !.key = d, !.record = manifest[d]]
              PROVE  run'[p].exit = Null /\ run'[p].pc = "locking"
          BY <2>1, <4>4 DEF NewRun
        <4>5. ASSUME run'[p] = [run[p] EXCEPT !.cmd = "checkin", !.pc = "done", !.exit = 1]
              PROVE  run'[p].exit = 1 /\ run'[p].pc = "done"
          BY <2>1, <4>5 DEF NewRun
        <4>. QED
          BY <4>3, <4>4, <4>5
      <3>. QED
        BY <2>2, <3>1, NothingAssumption DEF Spent
    <2>4. CASE \E n \in Names, c \in Drafts : StartPush(p, n, c)
      BY <1>1, <2>1, <2>4 DEF StartPush, NewRun
    <2>5. CASE \E cmd \in {"fetch", "checkout", "gc"}, n \in Names \cup {Null} : StartCollecting(p, cmd, n)
      BY <1>1, <2>1, <2>5 DEF StartCollecting, NewRun
    <2>. QED
      BY <1>4, <2>3, <2>4, <2>5 DEF Start
  <1>5. CASE RunStep(p)
    <2>1. run[p].pc # "idle"
      BY <1>5 DEF RunStep, Condemn, Collect, Collected, Locking, LockRefused, CallBroker, HearReadBack,
                 OpenTmp, WriteTmp, Publish, NoteManifest, NameManifest, Finish, HearFailure,
                 HearContent, HearCheckedIn, HearWritten, Waiting
    <2>2. run[p].cmd = "checkin"
      BY <2>1, RunsAreSteady DEF Steady
    <2>3. CASE Locking(p)
      BY <2>1, <2>2, <2>3 DEF Locking, Spent
    <2>4. CASE LockRefused(p)
      <3>1. call[p] = Null /\ call' = call /\ run'[p].exit = 1 /\ run'[p].pc = "done"
        BY <1>1, <2>4 DEF LockRefused, CallOK, Run
      <3>. QED
        BY <3>1 DEF Spent
    <2>5. CASE CallBroker(p)
      <3>1. /\ run[p].exit = Null /\ run[p].name \in Names /\ run[p].record \in Record
            /\ run[p].data \in Contents
        BY <1>1, <2>2, <2>5 DEF CallBroker, PlaceOK, Idle
      <3>2. run'[p] = [run[p] EXCEPT !.pc = "calling"]
        BY <1>1, <2>5 DEF CallBroker
      <3>3. run'[p].exit = Null /\ run'[p].pc = "calling"
        BY <1>1, <3>1, <3>2 DEF Run
      <3>4. call'[p].reply = Null
        BY <1>1, <2>2, <2>5 DEF CallBroker, NewCall
      <3>. QED
        BY <3>3, <3>4, NothingAssumption DEF Spent
    <2>6. CASE HearFailure(p)
      <3>1. \E code \in {2, 3, 4} : run'[p] = Out(run[p], code)
        BY <1>1, <2>6 DEF HearFailure, Heard, ExitOf
      <3>2. run'[p].exit # 0 /\ run'[p].pc \in {"releasing", "done"}
        BY <1>1, <3>1 DEF Out, Run
      <3>3. call'[p] = Null
        BY <1>1, <2>6 DEF HearFailure, Heard
      <3>. QED
        BY <3>2, <3>3 DEF Spent
    <2>7. CASE HearCheckedIn(p)
      BY <2>1, <2>2, <2>7 DEF HearCheckedIn, Spent
    <2>8. CASE NoteManifest(p) \/ NameManifest(p)
      BY <2>1, <2>2, <2>8 DEF NoteManifest, NameManifest, Spent
    <2>9. CASE Finish(p)
      <3>1. run'[p] = [run[p] EXCEPT !.pc = "done"] /\ call' = call
        BY <1>1, <2>9 DEF Finish
      <3>2. run'[p].exit = run[p].exit /\ run'[p].pc = "done"
        BY <1>1, <3>1 DEF Run
      <3>. QED
        BY <2>1, <2>2, <3>1, <3>2 DEF Spent
    <2>10. CASE \/ Condemn(p) \/ Collect(p) \/ Collected(p) \/ HearContent(p) \/ HearWritten(p)
                \/ HearReadBack(p) \/ OpenTmp(p) \/ WriteTmp(p) \/ Publish(p)
      BY <1>1, <2>2, <2>10 DEF PlaceOK, Condemn, Collect, Collected, HearContent, HearWritten,
                               HearReadBack, OpenTmp, WriteTmp, Publish
    <2>. QED
      BY <1>5, <2>3, <2>4, <2>5, <2>6, <2>7, <2>8, <2>9, <2>10 DEF RunStep
  <1>6. CASE GiveUp(p)
    <2>1. \E code \in {1, 4} : run'[p] = Out(run[p], code)
      BY <1>1, <1>6 DEF GiveUp
    <2>2. run'[p].exit # 0 /\ run'[p].pc \in {"releasing", "done"}
      BY <1>1, <2>1 DEF Out, Run
    <2>3. call'[p] = Null \/ call'[p].reply # "ok"
      BY <1>1, <1>6, AbandonedCall, NothingAssumption DEF GiveUp, Pending
    <2>. QED
      BY <2>2, <2>3 DEF Spent
  <1>7. CASE Kill(p)
    <2>1. run'[p] = [run[p] EXCEPT !.pc = "killed"]
      BY <1>1, <1>7 DEF Kill
    <2>2. run'[p].exit = run[p].exit /\ run'[p].cmd = run[p].cmd /\ run'[p].pc = "killed"
      BY <1>1, <2>1 DEF Run
    <2>3. call'[p] = Null \/ call'[p] = call[p]
      BY <1>1, <1>7, AbandonedCall DEF Kill
    <2>. QED
      BY <1>2, <2>2, <2>3 DEF Spent
  <1>8. CASE BrokerStep(p)
    <2>1. run' = run
      BY <1>8 DEF BrokerStep, Serve, ServeRejected, ServeFails, ServeRefused, ServeFrame
    <2>2. /\ call[p] \in Call /\ call[p] # Null /\ call[p].reply = Null /\ Asks(call[p], p)
      BY <1>1, <1>8, NextRequest
      DEF BrokerStep, Serve, ServeRejected, ServeFails, ServeRefused, Serving, Pending
    <2>3. run[p].cmd = "checkin" /\ call[p].tool = "checkin" /\ run[p].pc # "idle"
      BY <1>1, <2>1, <2>2 DEF CallOK
    <2>4. CASE Serve(p) /\ call[p].todo = <<"UNLOCK">>
      <3>1. CarriesOut(p)
        BY <2>4 DEF CarriesOut, Serve
      <3>. QED
        BY <2>3, <2>4, <3>1
    <2>5. CASE Serve(p) /\ call[p].todo # <<"UNLOCK">>
      <3>1. Len(call[p].todo) = 2
        BY <2>2, <2>3, <2>5, Requests DEF Asks, Verbs
      <3>2. call'[p] = [call[p] EXCEPT !.todo = Tail(call[p].todo),
                          !.got = IF Head(call[p].todo) = "GET" THEN remote[call[p].file] ELSE call[p].got]
        BY <1>1, <2>5, <3>1 DEF Serve
      <3>3. call'[p].reply = Null
        BY <2>2, <3>2 DEF Call
      <3>. QED
        BY <2>1, <2>3, <3>3, NothingAssumption DEF Spent
    <2>6. CASE ServeRejected(p) \/ ServeFails(p) \/ ServeRefused(p)
      <3>1. \E status \in {"error", "refused"} : Answer(p, status, Null)
        BY <2>6 DEF ServeRejected, ServeFails, ServeRefused
      <3>2. call'[p] = Null \/ call'[p].reply \in {"error", "refused"}
        BY <1>1, <2>2, <3>1 DEF Answer, Call
      <3>. QED
        BY <2>1, <2>3, <3>2 DEF Spent
    <2>. QED
      BY <1>8, <2>4, <2>5, <2>6 DEF BrokerStep
  <1>. QED
    BY <1>3, <1>4, <1>5, <1>6, <1>7, <1>8, WhoseStep

LEMMA UnlockedKeeps ==
  ASSUME TransferInv, TransferInv', LocksInv, TokensOK', [TransferNext]_transferVars, NEW p \in Runs
  PROVE  UnlockedOK(p)'
  <1>1. RemoteTypes /\ PlaceOK(p) /\ CallOK(p) /\ LandedOK(p) /\ UnlockedOK(p)
    BY Before DEF LocksInv
  <1>2. SUFFICES ASSUME run'[p].cmd = "checkin", Spent(p)'
                 PROVE  run'[p].record # Null /\ \A f \in Files : rlock'[f] # run'[p].record.token
    BY DEF UnlockedOK, Spent
  <1>3. run'[p].record # Null => run'[p].record.token # Null
    BY <1>2 DEF TokensOK
  <1>4. /\ run[p].record # Null /\ run'[p].record # Null
        /\ run'[p].record.token = run[p].record.token
    <2>1. run[p].cmd = "checkin" /\ run[p].pc # "idle"
      BY <1>1, <1>2, CheckinsAreSpent DEF CarriesOut, Serving, Pending, CallOK, ServeFrame
    <2>2. run[p].record # Null
      <3>1. CASE Spent(p)
        BY <1>1, <2>1, <3>1, NothingAssumption DEF Spent, UnlockedOK, CallOK
      <3>2. CASE ~Spent(p)
        BY <1>1, <1>2, <2>1, <3>2, CheckinsAreSpent, NothingAssumption
        DEF CarriesOut, Serving, Pending, CallOK
      <3>. QED
        BY <3>1, <3>2
    <2>. QED
      BY <1>2, <2>1, <2>2, WhereRecordsComeFrom
  <1>5. PICK t \in Runs : t = run[p].record.token /\ run[t].cmd = "checkout" /\ run[t].key # Null
    <2>1. RecordOK(run[p].record)
      BY DEF LocksInv, TokensOK
    <2>. QED
      BY <1>3, <1>4, <2>1 DEF RecordOK, Obtained
  <1>6. CASE CarriesOut(p) /\ call[p].tool = "checkin" /\ call[p].todo = <<"UNLOCK">>
    <2>1. call[p].token = t /\ call[p].file \in Files /\ call[p] # Null
      BY <1>1, <1>2, <1>5, <1>6, EffectsAre DEF CallOK
    <2>2. /\ rlock[call[p].file] = t /\ rlock' = [rlock EXCEPT ![call[p].file] = Null]
      <3>1. Effects(p)
        BY <1>6, EffectsAre
      <3>2. call[p].todo # <<"PUT">> /\ call[p].todo # <<"PUT", "UNLOCK">>
        BY <1>6, Requests DEF Verbs
      <3>3. Head(call[p].todo) = "UNLOCK"
        BY <1>6, Requests DEF Verbs
      <3>. QED
        BY <1>5, <1>6, <2>1, <3>3, LockAssumption DEF CarriesOut, Carried, Accepts
    <2>3. \A h \in Files : LockedByOK(h)
      BY DEF LocksInv
    <2>4. ASSUME NEW f \in Files
          PROVE  rlock'[f] # t
      <3>1. f # call[p].file => rlock[f] # t
        BY <2>1, <2>2, <2>3, <2>4, LockAssumption, OneFileByToken
      <3>. QED
        BY <1>1, <2>1, <2>2, <3>1, LockAssumption DEF RemoteTypes
    <2>. QED
      BY <1>4, <1>5, <2>4
  <1>7. CASE run[p].cmd = "checkin" /\ Spent(p)
    <2>1. \A f \in Files : rlock[f] # t
      BY <1>1, <1>5, <1>7 DEF UnlockedOK, Spent
    <2>2. ASSUME NEW f \in Files
          PROVE  rlock'[f] # t
      <3>1. CASE UNCHANGED remoteVars
        BY <2>1, <3>1 DEF remoteVars
      <3>2. CASE \E g \in Files : LockEnds(g) \/ \E c \in Contents : OthersWrite(g, c)
        BY <1>1, <2>1, <3>2, LockAssumption DEF LockEnds, OthersWrite, RemoteTypes
      <3>3. ASSUME NEW q \in Runs, CarriesOut(q)
            PROVE  rlock'[f] # t
        <4>1. Effects(q) /\ CallOK(q) /\ call[q] # Null /\ call[q].file \in Files
          BY <3>3, EffectsAre
        <4>2. call[q].tool = "checkout" => q # t
          BY <1>5, <4>1 DEF CallOK
        <4>. QED
          BY <1>1, <2>1, <4>1, <4>2, LockAssumption DEF Effects, RemoteTypes
      <3>. QED
        BY <3>1, <3>2, <3>3, RemoteChanges
    <2>. QED
      BY <1>4, <1>5, <2>2
  <1>. QED
    BY <1>2, <1>6, <1>7, CheckinsAreSpent

LEMMA InitLocksInv == TransferInit => LocksInv
  <1>1. SUFFICES ASSUME TransferInit
                 PROVE  LocksInv
    OBVIOUS
  <1>2. /\ run = [p \in Runs |-> NewRun] /\ call = [p \in Runs |-> Null] /\ rlock = [f \in Files |-> Null]
        /\ note = [d \in Contents |-> Null] /\ manifest = [d \in Contents |-> Null]
    BY <1>1 DEF TransferInit
  <1>3. \A p \in Runs : /\ run[p].record = Null /\ run[p].cmd = Null
    BY <1>2 DEF NewRun
  <1>4. TokensOK
    BY <1>2, <1>3 DEF TokensOK, RecordOK
  <1>5. \A f \in Files : LockedByOK(f) /\ KnownOK(f)
    BY <1>2 DEF LockedByOK, KnownOK
  <1>6. \A p \in Runs : run[p].exit # 0 /\ run[p].pc = "idle" /\ call[p] = Null
    <2>1. Null # 0
      BY NothingAssumption
    <2>. QED
      BY <1>2, <2>1 DEF NewRun
  <1>7. \A p \in Runs : UnlockedOK(p)
    BY <1>6 DEF UnlockedOK
  <1>. QED
    BY <1>4, <1>5, <1>7 DEF LocksInv

\* The invariant of the remote locks and their tokens.
LEMMA LocksInvHolds == TransferSpec => []LocksInv
  <1>1. TransferInv /\ TransferInv' /\ LocksInv /\ [TransferNext]_transferVars => LocksInv'
    <2>1. SUFFICES ASSUME TransferInv, TransferInv', LocksInv, [TransferNext]_transferVars
                   PROVE  LocksInv'
      OBVIOUS
    <2>2. TokensOK'
      BY <2>1, TokensKeep DEF LocksInv
    <2>3. \A f \in Files : LockedByOK(f)'
      BY <2>1, LockedByKeeps DEF LocksInv
    <2>4. \A f \in Files : KnownOK(f)'
      BY <2>1, KnownKeeps DEF LocksInv
    <2>5. \A p \in Runs : UnlockedOK(p)'
      BY <2>1, <2>2, UnlockedKeeps
    <2>. QED
      BY <2>2, <2>3, <2>4, <2>5 DEF LocksInv
  <1>. QED
    BY <1>1, InitLocksInv, TransferInvHolds, PTL DEF TransferSpec

\* What a run says with its exit code is true: of a write (0 and 4: it was carried
\* out), of a checkin (0: no lock is left), of a call that was refused (3: nothing
\* was done, and nothing will be) (cli.py:23-28).
THEOREM ExitCodesAreTrue == TransferSpec => []ExitCodesTellTheTruth
  <1>1. ASSUME TransferInv, LocksInv
        PROVE  ExitCodesTellTheTruth
    <2>1. SUFFICES ASSUME NEW p \in Runs, run[p].pc = "done"
                   PROVE  /\ run[p].exit = 0 =>
                               /\ run[p].cmd \in {"push", "checkin"} => landed[p] = 1
                               /\ run[p].cmd = "checkin" => \A f \in Files : rlock[f] # run[p].record.token
                          /\ run[p].exit = 3 => landed[p] = 0 /\ call[p] = Null /\ \A f \in Files : rlock[f] # p
                          /\ run[p].exit = 4 => landed[p] = 1
      BY DEF ExitCodesTellTheTruth
    <2>2. LandedOK(p) /\ CallOK(p) /\ UnlockedOK(p) /\ \A f \in Files : LockedByOK(f)
      BY <1>1, Before DEF LocksInv
    <2>3. run[p].exit = 3 => call[p] = Null
      BY <2>2 DEF CallOK
    <2>4. run[p].exit = 3 => \A f \in Files : rlock[f] # p
      BY <2>2, LockAssumption DEF LockedByOK
    <2>. QED
      BY <2>2, <2>3, <2>4 DEF LandedOK, UnlockedOK
  <1>. QED
    BY <1>1, TransferInvHolds, LocksInvHolds, PTL

\* A checkin overwrites what its checkout returned: Nextcloud takes the write for
\* the token only, and what the holder of a token was told is what the file holds.
THEOREM CheckinsReplace == TransferSpec => CheckinReplacesItsCheckout
  <1>1. ASSUME TransferInv, LocksInv, [TransferNext]_transferVars, NEW p \in Runs,
               landed'[p] > landed[p], call[p].token # Null
        PROVE  remote[call[p].file] = known[call[p].token]
    <2>1. CarriesOut(p) /\ Head(call[p].todo) = "PUT"
      BY <1>1, WhoWrites
    <2>2. call[p] \in Call /\ call[p] # Null /\ call[p].file \in Files /\ CallOK(p)
      BY <1>1, <2>1, EffectsAre
    <2>3. rlock[call[p].file] = call[p].token
      BY <2>1 DEF CarriesOut, Accepts
    <2>4. Obtained(call[p].token)
      <3>1. run[p].record \in Record /\ call[p].token = run[p].record.token
        BY <1>1, <2>2 DEF CallOK
      <3>2. RecordOK(run[p].record)
        BY <1>1 DEF LocksInv, TokensOK
      <3>. QED
        BY <1>1, <3>1, <3>2, NothingAssumption DEF RecordOK
    <2>5. KnownOK(call[p].file)
      BY <1>1, <2>2 DEF LocksInv
    <2>. QED
      BY <1>1, <2>3, <2>4, <2>5 DEF KnownOK
  <1>2. TransferInv /\ LocksInv /\ [TransferNext]_transferVars =>
          [\A p \in Runs :
             landed'[p] > landed[p] /\ call[p].token # Null
               => remote[call[p].file] = known[call[p].token]]_transferVars
    BY <1>1
  <1>. QED
    BY <1>2, TransferInvHolds, LocksInvHolds, PTL DEF TransferSpec, CheckinReplacesItsCheckout

-----------------------------------------------------------------------------
(* The staging directory *)

\* Who writes a temporary file goes on until all of its bytes are there, or until
\* it is killed.
LEMMA WritersWrite ==
  ASSUME TransferInv, [TransferNext]_transferVars, NEW t \in Runs,
         run[t].pc \in {"writing", "killed"}, run'[t].pc \notin {"writing", "killed"}
  PROVE  WriteTmp(t)
  <1>1. run[t] \in Run /\ run \in [Runs -> Run] /\ run'[t] # run[t]
    BY Before
  <1>2. CASE Start(t) \/ GiveUp(t)
    BY <1>2 DEF Start, StartCollecting, StartPush, StartCheckin, GiveUp, Waiting
  <1>3. CASE RunStep(t)
    BY <1>3 DEF RunStep, Condemn, Collect, Collected, Locking, LockRefused, CallBroker, HearReadBack,
                OpenTmp, Publish, NoteManifest, NameManifest, Finish, HearFailure,
                HearContent, HearCheckedIn, HearWritten, Waiting
  <1>4. CASE BrokerStep(t)
    BY <1>1, <1>4 DEF BrokerStep, Serve, ServeRejected, ServeFails, ServeRefused, ServeFrame
  <1>5. CASE Kill(t)
    BY <1>1, <1>5 DEF Kill, Run
  <1>. QED
    BY <1>1, <1>2, <1>3, <1>4, <1>5, WhoseStep

\* The names of the staged files change when one is opened, published or collected.
LEMMA WhereFilesComeFrom ==
  ASSUME TransferInv, [TransferNext]_transferVars, NEW d \in Contents
  PROVE  \/ tmp'[d] \in {Null, tmp[d]} /\ staged'[d] \in {Null, staged[d]}
         \/ \E p \in Runs : /\ OpenTmp(p) /\ run[p].key = d /\ tmp[d] = Null
                            /\ tmp'[d] = p /\ staged'[d] = staged[d]
         \/ \E p \in Runs : /\ Publish(p) /\ run[p].key = d /\ tmp[d] # Null
                            /\ tmp'[d] = Null /\ staged'[d] = tmp[d] /\ complete' = complete
  <1>1. StagingTypes
    BY TypesAre DEF TransferInv
  <1>2. CASE UNCHANGED stagingVars \/ WeekPasses
    BY <1>2 DEF stagingVars, WeekPasses
  <1>3. ASSUME NEW p \in Runs, Collect(p)
        PROVE  tmp'[d] \in {Null, tmp[d]} /\ staged'[d] \in {Null, staged[d]}
    BY <1>1, <1>3 DEF Collect, StagingTypes
  <1>4. ASSUME NEW p \in Runs, WriteTmp(p) \/ NoteManifest(p) \/ NameManifest(p)
        PROVE  tmp' = tmp /\ staged' = staged
    BY <1>4 DEF WriteTmp, NoteManifest, NameManifest, stagingVars
  <1>5. ASSUME NEW p \in Runs, OpenTmp(p)
        PROVE  /\ staged' = staged
               /\ tmp'[d] = tmp[d] \/ (run[p].key = d /\ tmp[d] = Null /\ tmp'[d] = p)
    BY <1>1, <1>5 DEF OpenTmp, StagingTypes
  <1>6. ASSUME NEW p \in Runs, Publish(p)
        PROVE  \/ tmp'[d] = tmp[d] /\ staged'[d] = staged[d]
               \/ /\ run[p].key = d /\ tmp[d] # Null
                  /\ tmp'[d] = Null /\ staged'[d] = tmp[d] /\ complete' = complete
    BY <1>1, <1>6 DEF Publish, StagingTypes, stagingVars
  <1>. QED
    BY <1>2, <1>3, <1>4, <1>5, <1>6, StagingChanges

\* Bytes are lost when a temporary file is opened again.
LEMMA WhoTruncates ==
  ASSUME TransferInv, [TransferNext]_transferVars, NEW i \in complete, i \notin complete'
  PROVE  \E p \in Runs : /\ OpenTmp(p) /\ run[p].key \in Contents /\ tmp'[run[p].key] = i
                         /\ run'[p].pc = "writing" /\ run'[p].inode = i
  <1>1. PICK p \in Runs : OpenTmp(p)
    BY StagingChanges DEF stagingVars, WeekPasses, Collect, WriteTmp, Publish, NoteManifest, NameManifest
  <1>2. /\ StagingTypes /\ run[p] \in Run /\ run \in [Runs -> Run] /\ run[p].key \in Contents
    BY <1>1, Before DEF OpenTmp, PlaceOK
  <1>3. /\ i = IF tmp[run[p].key] = Null THEN p ELSE tmp[run[p].key]
        /\ tmp'[run[p].key] = i
        /\ run' = [run EXCEPT ![p] = [run[p] EXCEPT !.pc = "writing", !.inode = i]]
    BY <1>1, <1>2 DEF OpenTmp, StagingTypes
  <1>4. run'[p].pc = "writing" /\ run'[p].inode = i
    BY <1>2, <1>3 DEF Run
  <1>. QED
    BY <1>1, <1>2, <1>3, <1>4

LEMMA InodesKeep ==
  ASSUME TransferInv, [TransferNext]_transferVars, NEW d \in Contents, InodeOK(d)
  PROVE  InodeOK(d)'
  <1>1. /\ StagingTypes /\ \A p \in Runs : p # Null
    BY TypesAre, LockAssumption DEF TransferInv
  <1>2. d # Null
    BY NothingAssumption
  <1>3. ASSUME NEW i \in Runs, run[i].key = d, run[i].inode = i
        PROVE  run'[i].key = d /\ run'[i].inode = i
    BY <1>1, <1>2, <1>3, RunsAreSteady DEF Steady
  <1>4. /\ tmp[d] # Null => tmp[d] \in Runs
        /\ staged[d] # Null => staged[d] \in Runs
    BY <1>1 DEF StagingTypes
  <1>5. CASE tmp'[d] \in {Null, tmp[d]} /\ staged'[d] \in {Null, staged[d]}
    BY <1>3, <1>4, <1>5 DEF InodeOK
  <1>6. ASSUME NEW p \in Runs, OpenTmp(p), run[p].key = d, tmp[d] = Null,
               tmp'[d] = p, staged'[d] = staged[d]
        PROVE  InodeOK(d)'
    <2>1. /\ run[p].inode = Null /\ run[p] \in Run /\ run \in [Runs -> Run]
      BY <1>6, Before DEF OpenTmp, PlaceOK
    <2>2. run'[p] = [run[p] EXCEPT !.pc = "writing", !.inode = p]
      BY <1>6, <2>1 DEF OpenTmp
    <2>3. run'[p].key = d /\ run'[p].inode = p
      BY <1>6, <2>1, <2>2 DEF Run
    <2>4. staged[d] # p
      BY <1>1, <2>1 DEF InodeOK
    <2>. QED
      BY <1>3, <1>4, <1>6, <2>3, <2>4 DEF InodeOK
  <1>7. CASE tmp[d] # Null /\ tmp'[d] = Null /\ staged'[d] = tmp[d]
    BY <1>3, <1>4, <1>7 DEF InodeOK
  <1>. QED
    BY <1>5, <1>6, <1>7, WhereFilesComeFrom

LEMMA WrittenKeeps ==
  ASSUME TransferInv, [TransferNext]_transferVars, NEW d \in Contents, WrittenOK(d)
  PROVE  WrittenOK(d)'
  <1>1. StagingTypes /\ run \in [Runs -> Run] /\ \A p \in Runs : run[p] \in Run
    BY TypesAre DEF TransferInv, Types
  <1>2. SUFFICES ASSUME tmp'[d] # Null, tmp'[d] \notin complete'
                 PROVE  \E p \in Runs : run'[p].inode = tmp'[d] /\ run'[p].pc \in {"writing", "killed"}
    BY DEF WrittenOK
  <1>3. CASE tmp'[d] = tmp[d] /\ tmp[d] \notin complete
    <2>1. PICK p \in Runs : run[p].inode = tmp[d] /\ run[p].pc \in {"writing", "killed"}
      BY <1>2, <1>3 DEF WrittenOK
    <2>2. run'[p].inode = tmp[d]
      BY <1>2, <1>3, <2>1, RunsAreSteady DEF Steady
    <2>3. ~WriteTmp(p)
      BY <1>2, <1>3, <2>1 DEF WriteTmp
    <2>. QED
      BY <1>3, <2>1, <2>2, <2>3, WritersWrite
  <1>4. CASE tmp'[d] = tmp[d] /\ tmp[d] \in complete
    BY <1>2, <1>4, WhoTruncates
  <1>5. ASSUME NEW p \in Runs, OpenTmp(p), run[p].key = d, tmp[d] = Null, tmp'[d] = p
        PROVE  run'[p].inode = p /\ run'[p].pc = "writing"
    <2>1. run'[p] = [run[p] EXCEPT !.pc = "writing", !.inode = p]
      BY <1>1, <1>5 DEF OpenTmp
    <2>. QED
      BY <1>1, <2>1 DEF Run
  <1>. QED
    BY <1>2, <1>3, <1>4, <1>5, WhereFilesComeFrom

LEMMA StagedKeeps ==
  ASSUME TransferInv, \A d \in Contents : InodeOK(d) /\ InodeOK(d)' /\ WrittenOK(d), StagedIsWhole,
         [TransferNext]_transferVars
  PROVE  StagedIsWhole'
  <1>1. /\ StagingTypes /\ run \in [Runs -> Run] /\ \A p \in Runs : run[p] \in Run /\ PlaceOK(p)
    BY TypesAre DEF TransferInv, Types, RunOK
  <1>2. SUFFICES ASSUME NEW d \in Contents, staged'[d] # Null, staged'[d] \notin complete'
                 PROVE  \E p, q \in Runs : /\ p # q
                          /\ run'[p].inode = staged'[d] /\ run'[p].pc \in {"writing", "killed"}
                          /\ run'[q].inode # Null /\ run'[q].key = d
    BY DEF StagedIsWhole
  <1>3. d # Null
    BY NothingAssumption
  <1>4. ASSUME NEW p \in Runs, run[p].inode # Null, run[p].inode = staged'[d], run[p].pc \in {"writing", "killed"}
        PROVE  run'[p].inode = staged'[d] /\ run'[p].pc \in {"writing", "killed"}
    <2>1. run'[p].inode = staged'[d]
      BY <1>4, RunsAreSteady DEF Steady
    <2>2. ~WriteTmp(p)
      BY <1>2, <1>4 DEF WriteTmp
    <2>. QED
      BY <1>4, <2>1, <2>2, WritersWrite
  <1>5. ASSUME NEW q \in Runs, run[q].inode # Null, run[q].key = d
        PROVE  run'[q].inode # Null /\ run'[q].key = d
    BY <1>3, <1>5, RunsAreSteady DEF Steady
  <1>6. CASE staged'[d] = staged[d] /\ staged[d] \notin complete
    <2>1. PICK p, q \in Runs : /\ p # q
                               /\ run[p].inode = staged[d] /\ run[p].pc \in {"writing", "killed"}
                               /\ run[q].inode # Null /\ run[q].key = d
      BY <1>2, <1>6 DEF StagedIsWhole
    <2>. QED
      BY <1>2, <1>4, <1>5, <1>6, <2>1
  <1>7. CASE staged'[d] = staged[d] /\ staged[d] \in complete
    <2>1. PICK p \in Runs : run[p].key \in Contents /\ tmp'[run[p].key] = staged[d]
      BY <1>2, <1>7, WhoTruncates
    <2>2. PICK k \in Contents : k = run[p].key /\ tmp'[k] = staged'[d]
      BY <1>7, <2>1
    <2>3. k = d
      BY <1>2, <2>2 DEF InodeOK
    <2>. QED
      BY <1>2, <2>2, <2>3 DEF InodeOK
  <1>8. ASSUME NEW q \in Runs, Publish(q), run[q].key = d, tmp[d] # Null, staged'[d] = tmp[d],
               complete' = complete
        PROVE  \E p \in Runs : /\ p # q /\ run'[p].inode = staged'[d] /\ run'[p].pc \in {"writing", "killed"}
                               /\ run'[q].inode # Null /\ run'[q].key = d
    <2>1. PICK p \in Runs : run[p].inode = tmp[d] /\ run[p].pc \in {"writing", "killed"}
      BY <1>2, <1>8 DEF WrittenOK
    <2>2. run[q].pc = "publishing" /\ run[q].inode # Null
      BY <1>1, <1>8, LockAssumption DEF Publish, PlaceOK
    <2>. QED
      BY <1>4, <1>5, <1>8, <2>1, <2>2
  <1>. QED
    BY <1>2, <1>6, <1>7, <1>8, WhereFilesComeFrom

\* A staged file has all of its bytes, unless two runs stage the same content.
THEOREM StagedFilesAreWhole == TransferSpec => []StagedIsWhole
  <1>1. TransferInit => StagingInv
    BY DEF TransferInit, StagingInv, InodeOK, WrittenOK, StagedIsWhole
  <1>2. TransferInv /\ StagingInv /\ [TransferNext]_transferVars => StagingInv'
    <2>1. SUFFICES ASSUME TransferInv, StagingInv, [TransferNext]_transferVars
                   PROVE  StagingInv'
      OBVIOUS
    <2>2. \A d \in Contents : InodeOK(d)'
      BY <2>1, InodesKeep DEF StagingInv
    <2>3. \A d \in Contents : WrittenOK(d)'
      BY <2>1, WrittenKeeps DEF StagingInv
    <2>4. StagedIsWhole'
      BY <2>1, <2>2, StagedKeeps DEF StagingInv
    <2>. QED
      BY <2>2, <2>3, <2>4 DEF StagingInv
  <1>3. StagingInv => StagedIsWhole
    BY DEF StagingInv
  <1>. QED
    BY <1>1, <1>2, <1>3, TransferInvHolds, PTL DEF TransferSpec

-----------------------------------------------------------------------------
(* The manifests *)

Staging == {"opening", "writing", "publishing", "noting", "naming"}

\* How a checkout gets on: its content is staged once it was told of it; its
\* manifest is noted before it is named; and it ends well when that is done.
Milestones(t) ==
  run'[t].cmd = "checkout" =>
    /\ run'[t].pc \in Staging => run[t].pc \in Staging \/ HearContent(t)
    /\ run'[t].pc = "naming" => run[t].pc = "naming" \/ NoteManifest(t)
    /\ run'[t].exit = 0 => run[t].exit = 0 \/ (NameManifest(t) /\ note[run[t].key] # Null)

LEMMA CheckoutsGetOn ==
  ASSUME TransferInv, [TransferNext]_transferVars, NEW t \in Runs
  PROVE  Milestones(t)
  <1>1. /\ run[t] \in Run /\ run \in [Runs -> Run] /\ PlaceOK(t) /\ CallOK(t)
    BY Before
  <1>2. ASSUME run'[t].exit = run[t].exit, run'[t].pc \notin Staging
        PROVE  Milestones(t)
    BY <1>2 DEF Milestones, Staging
  <1>3. CASE run'[t] = run[t]
    BY <1>3 DEF Milestones
  <1>4. CASE Start(t)
    <2>1. run[t] = NewRun
      BY <1>1, <1>4 DEF Start, StartCollecting, StartPush, StartCheckin, PlaceOK
    <2>2. CASE \E n \in Names, c \in Drafts : StartCheckin(t, n, c)
      <3>1. run'[t].cmd = "checkin"
        <4>1. PICK n \in Names, data \in Drafts : StartCheckin(t, n, data)
          BY <2>2
        <4>2. \/ \E d \in Contents :
                   run'[t] = [run[t] EXCEPT !.cmd = "checkin", !.pc = "locking", !.name = n,
                                            !.data = data, !.key = d, !.record = manifest[d]]
              \/ run'[t] = [run[t] EXCEPT !.cmd = "checkin", !.pc = "done", !.exit = 1]
          BY <1>1, <4>1 DEF StartCheckin
        <4>. QED
          BY <2>1, <4>2 DEF NewRun
      <3>. QED
        BY <3>1 DEF Milestones
    <2>3. CASE \E n \in Names, c \in Drafts : StartPush(t, n, c)
      BY <1>1, <2>1, <2>3 DEF StartPush, NewRun, Milestones
    <2>4. CASE \E cmd \in {"fetch", "checkout", "gc"}, n \in Names \cup {Null} : StartCollecting(t, cmd, n)
      <3>1. run'[t].exit = run[t].exit /\ run'[t].pc = "collecting"
        BY <1>1, <2>1, <2>4 DEF StartCollecting, NewRun
      <3>. QED
        BY <1>2, <3>1 DEF Staging
    <2>. QED
      BY <1>4, <2>2, <2>3, <2>4 DEF Start
  <1>5. CASE RunStep(t)
    <2>1. CASE Condemn(t) \/ Collect(t)
      <3>1. \E e \in aged \cup {Null} : run'[t] = [run[t] EXCEPT !.doomed = e]
        BY <1>1, <2>1 DEF Condemn, Collect, TooOld
      <3>2. run'[t].exit = run[t].exit /\ run'[t].pc = run[t].pc /\ run[t].pc = "collecting"
        BY <1>1, <2>1, <3>1 DEF Run, Condemn, Collect
      <3>. QED
        BY <1>2, <3>2 DEF Staging
    <2>2. CASE Collected(t)
      <3>1. \/ run[t].cmd = "gc" /\ run'[t] = [run[t] EXCEPT !.pc = "done", !.exit = 0]
            \/ run'[t] = [run[t] EXCEPT !.pc = "done", !.exit = 1]
            \/ run'[t] = [run[t] EXCEPT !.pc = "calling"]
        BY <1>1, <2>2 DEF Collected
      <3>2. \/ run'[t].cmd = "gc"
            \/ run'[t].pc = "done" /\ run'[t].exit = 1
            \/ run'[t].pc = "calling" /\ run'[t].exit = run[t].exit
        BY <1>1, <3>1 DEF Run
      <3>. QED
        BY <3>2 DEF Milestones, Staging
    <2>3. CASE Locking(t)
      BY <1>3, <2>3 DEF Locking
    <2>4. CASE LockRefused(t) \/ CallBroker(t) \/ HearWritten(t) \/ Finish(t) \/ HearReadBack(t) \/ HearCheckedIn(t)
      <3>1. run[t].cmd \in {"push", "checkin"} /\ run[t].pc # "idle"
        BY <1>1, <2>4 DEF LockRefused, CallBroker, HearWritten, Finish, HearReadBack, HearCheckedIn, PlaceOK
      <3>2. run'[t].cmd = run[t].cmd
        BY <1>5, <3>1, RunsAreSteady DEF Steady
      <3>. QED
        BY <3>1, <3>2 DEF Milestones
    <2>5. CASE HearFailure(t)
      <3>1. \E code \in {2, 3, 4} : run'[t] = Out(run[t], code)
        BY <1>1, <2>5 DEF HearFailure, Heard, ExitOf
      <3>2. run'[t].exit \in {2, 3, 4} /\ run'[t].pc \in {"releasing", "done"}
        BY <1>1, <3>1 DEF Out, Run
      <3>. QED
        BY <3>2 DEF Milestones, Staging
    <2>6. CASE HearContent(t)
      <3>1. run'[t].pc = "opening" /\ run'[t].exit = run[t].exit
        BY <1>1, <2>6 DEF HearContent, Heard, Run
      <3>. QED
        BY <2>6, <3>1 DEF Milestones
    <2>7. CASE OpenTmp(t)
      <3>1. run'[t] = [run[t] EXCEPT !.pc = "writing", !.inode = IF tmp[run[t].key] = Null THEN t ELSE tmp[run[t].key]]
        BY <1>1, <2>7 DEF OpenTmp
      <3>2. run'[t].pc = "writing" /\ run'[t].exit = run[t].exit /\ run[t].pc = "opening"
        BY <1>1, <2>7, <3>1 DEF OpenTmp, Run
      <3>. QED
        BY <3>2 DEF Milestones, Staging
    <2>8. CASE WriteTmp(t)
      <3>1. run'[t] = [run[t] EXCEPT !.pc = "publishing"] /\ run[t].pc = "writing"
        BY <1>1, <2>8 DEF WriteTmp
      <3>2. run'[t].pc = "publishing" /\ run'[t].exit = run[t].exit
        BY <1>1, <3>1 DEF Run
      <3>. QED
        BY <3>1, <3>2 DEF Milestones, Staging
    <2>9. CASE Publish(t)
      <3>1. /\ \/ run'[t] = [run[t] EXCEPT !.pc = "done", !.exit = 1]
               \/ run'[t] = [run[t] EXCEPT !.pc = "noting"]
            /\ run[t].pc = "publishing"
        BY <1>1, <2>9 DEF Publish
      <3>2. \/ run'[t].pc = "done" /\ run'[t].exit = 1
            \/ run'[t].pc = "noting" /\ run'[t].exit = run[t].exit
        BY <1>1, <3>1 DEF Run
      <3>. QED
        BY <3>1, <3>2 DEF Milestones, Staging
    <2>10. CASE NoteManifest(t)
      <3>1. run'[t] = [run[t] EXCEPT !.pc = "naming"] /\ run[t].pc = "noting"
        BY <1>1, <2>10 DEF NoteManifest
      <3>2. run'[t].pc = "naming" /\ run'[t].exit = run[t].exit
        BY <1>1, <3>1 DEF Run
      <3>. QED
        BY <2>10, <3>1, <3>2 DEF Milestones, Staging
    <2>11. CASE NameManifest(t)
      <3>1. /\ \/ run'[t] = Out(run[t], 1)
               \/ run'[t] = Out(run[t], 0) /\ note[run[t].key] # Null
        BY <1>1, <2>11 DEF NameManifest
      <3>2. /\ run'[t].pc \in {"releasing", "done"}
            /\ run'[t].exit = 1 \/ note[run[t].key] # Null
        BY <1>1, <3>1 DEF Run, Out
      <3>. QED
        BY <2>11, <3>2 DEF Milestones, Staging
    <2>. QED
      BY <1>5, <2>1, <2>2, <2>3, <2>4, <2>5, <2>6, <2>7, <2>8, <2>9, <2>10, <2>11 DEF RunStep
  <1>6. CASE BrokerStep(t)
    BY <1>3, <1>6 DEF BrokerStep, Serve, ServeRejected, ServeFails, ServeRefused, ServeFrame
  <1>7. CASE GiveUp(t)
    <2>1. \E code \in {1, 4} : run'[t] = Out(run[t], code)
      BY <1>1, <1>7 DEF GiveUp
    <2>2. run'[t].exit \in {1, 4} /\ run'[t].pc \in {"releasing", "done"}
      BY <1>1, <2>1 DEF Out, Run
    <2>. QED
      BY <2>2 DEF Milestones, Staging
  <1>8. CASE Kill(t)
    <2>1. run'[t] = [run[t] EXCEPT !.pc = "killed"]
      BY <1>1, <1>8 DEF Kill
    <2>2. run'[t].exit = run[t].exit /\ run'[t].pc = "killed"
      BY <1>1, <2>1 DEF Run
    <2>. QED
      BY <1>2, <2>2 DEF Staging
  <1>. QED
    BY <1>3, <1>4, <1>5, <1>6, <1>7, <1>8, WhoseStep

\* Weeks pass between the runs only.
LEMMA WeeksPass ==
  ASSUME TransferInv, [TransferNext]_transferVars, budget'.weeks = 0
  PROVE  budget.weeks = 0 /\ ~WeekPasses
  <1>1. budget \in [faults : 0..MaxFaults, meddling : 0..MaxMeddling, weeks : 0..MaxWeeks]
    BY TypesAre DEF TransferInv, Types
  <1>2. ASSUME NEW kind \in {"faults", "meddling"}, NEW limit, Spend(kind, limit)
        PROVE  budget'.weeks = budget.weeks
    BY <1>1, <1>2 DEF Spend
  <1>3. CASE WeekPasses
    <2>1. budget'.weeks = budget.weeks + 1 /\ budget.weeks \in Nat
      BY <1>1, <1>3, TransferAssumption DEF WeekPasses, Spend
    <2>. QED
      BY <2>1
  <1>4. ASSUME NEW p \in Runs, Start(p)
        PROVE  budget' = budget
    BY <1>4 DEF Start, StartCollecting, StartPush, StartCheckin, StageFrame
  <1>5. ASSUME NEW p \in Runs, RunStep(p)
        PROVE  budget' = budget
    <2>1. CASE Condemn(p) \/ Collect(p) \/ Collected(p) \/ Locking(p) \/ LockRefused(p) \/ CallBroker(p)
      BY <2>1 DEF Condemn, Collect, Collected, Locking, LockRefused, CallBroker, StageFrame
    <2>2. CASE HearWritten(p) \/ HearFailure(p) \/ HearContent(p) \/ HearCheckedIn(p) \/ HearReadBack(p)
      BY <2>2 DEF HearWritten, HearFailure, HearContent, HearCheckedIn, HearReadBack, Heard
    <2>3. CASE OpenTmp(p) \/ WriteTmp(p) \/ Publish(p) \/ NoteManifest(p) \/ NameManifest(p) \/ Finish(p)
      BY <2>3 DEF OpenTmp, WriteTmp, Publish, NoteManifest, NameManifest, Finish, StageFrame
    <2>. QED
      BY <1>5, <2>1, <2>2, <2>3 DEF RunStep
  <1>6. ASSUME NEW p \in Runs, BrokerStep(p) \/ GiveUp(p) \/ Kill(p)
        PROVE  budget'.weeks = budget.weeks
    BY <1>2, <1>6 DEF BrokerStep, Serve, ServeRejected, ServeFails, ServeRefused, GiveUp, Kill, Fault
  <1>7. ASSUME NEW f \in Files, LockEnds(f) \/ \E c \in Contents : OthersWrite(f, c)
        PROVE  budget'.weeks = budget.weeks
    BY <1>2, <1>7 DEF LockEnds, OthersWrite
  <1>8. ASSUME TransferTick \/ AllDone \/ UNCHANGED transferVars
        PROVE  budget' = budget
    BY <1>8 DEF TransferTick, AllDone, transferVars
  <1>9. WeekPasses \/ budget'.weeks = budget.weeks
    BY <1>4, <1>5, <1>6, <1>7, <1>8 DEF TransferNext
  <1>. QED
    BY <1>3, <1>9

\* Nothing that is young is condemned (gc_staging).
LEMMA NoneIsCondemned ==
  ASSUME TransferInv, [TransferNext]_transferVars, NEW t \in Runs, aged = {}, run[t].doomed = Null
  PROVE  run'[t].doomed = Null
  <1>1. run[t] \in Run /\ run \in [Runs -> Run] /\ PlaceOK(t)
    BY Before
  <1>2. CASE run'[t] = run[t]
    BY <1>2
  <1>3. ASSUME NEW code, run'[t] = Out(run[t], code)
        PROVE  run'[t].doomed = Null
    BY <1>1, <1>3 DEF Out, Run
  <1>4. CASE Start(t)
    <2>1. run[t] = NewRun
      BY <1>1, <1>4 DEF Start, StartCollecting, StartPush, StartCheckin, PlaceOK
    <2>2. CASE \E n \in Names, c \in Drafts : StartCheckin(t, n, c)
      <3>1. PICK n \in Names, data \in Drafts : StartCheckin(t, n, data)
        BY <2>2
      <3>2. \/ \E d \in Contents :
                 run'[t] = [run[t] EXCEPT !.cmd = "checkin", !.pc = "locking", !.name = n,
                                          !.data = data, !.key = d, !.record = manifest[d]]
            \/ run'[t] = [run[t] EXCEPT !.cmd = "checkin", !.pc = "done", !.exit = 1]
        BY <1>1, <3>1 DEF StartCheckin
      <3>. QED
        BY <2>1, <3>2 DEF NewRun
    <2>3. CASE \E n \in Names, c \in Drafts : StartPush(t, n, c)
      BY <1>1, <2>1, <2>3 DEF StartPush, NewRun
    <2>4. CASE \E cmd \in {"fetch", "checkout", "gc"}, n \in Names \cup {Null} : StartCollecting(t, cmd, n)
      BY <1>1, <2>1, <2>4 DEF StartCollecting, NewRun
    <2>. QED
      BY <1>4, <2>2, <2>3, <2>4 DEF Start
  <1>5. CASE RunStep(t)
    <2>1. CASE Condemn(t) \/ Collect(t)
      BY <1>1, <2>1 DEF Condemn, Collect, TooOld
    <2>2. CASE Collected(t)
      <3>1. \/ \E e \in {0, 1} : run'[t] = [run[t] EXCEPT !.pc = "done", !.exit = e]
            \/ run'[t] = [run[t] EXCEPT !.pc = "calling"]
        BY <1>1, <2>2 DEF Collected
      <3>. QED
        BY <1>1, <3>1 DEF Run
    <2>3. CASE Locking(t)
      BY <1>2, <2>3 DEF Locking
    <2>4. CASE LockRefused(t)
      BY <1>1, <2>4 DEF LockRefused, Run
    <2>5. CASE CallBroker(t)
      BY <1>1, <2>5 DEF CallBroker, Run
    <2>6. CASE HearWritten(t)
      BY <1>1, <2>6 DEF HearWritten, Run
    <2>7. CASE Finish(t)
      BY <1>1, <2>7 DEF Finish, Run
    <2>8. CASE HearFailure(t) \/ HearReadBack(t)
      <3>1. \E code : run'[t] = Out(run[t], code)
        BY <1>1, <2>8 DEF HearFailure, HearReadBack, Heard
      <3>. QED
        BY <1>3, <3>1
    <2>9. CASE HearContent(t)
      BY <1>1, <2>9 DEF HearContent, Heard, Run
    <2>10. CASE HearCheckedIn(t)
      BY <1>1, <2>10 DEF HearCheckedIn, Heard, Run
    <2>11. CASE OpenTmp(t)
      BY <1>1, <2>11 DEF OpenTmp, Run
    <2>12. CASE WriteTmp(t)
      BY <1>1, <2>12 DEF WriteTmp, Run
    <2>13. CASE Publish(t)
      <3>1. \/ run'[t] = [run[t] EXCEPT !.pc = "done", !.exit = 1]
            \/ run'[t] = [run[t] EXCEPT !.pc = "noting"]
        BY <1>1, <2>13 DEF Publish
      <3>. QED
        BY <1>1, <3>1 DEF Run
    <2>14. CASE NoteManifest(t)
      BY <1>1, <2>14 DEF NoteManifest, Run
    <2>15. CASE NameManifest(t)
      <3>1. \E code : run'[t] = Out(run[t], code)
        BY <1>1, <2>15 DEF NameManifest
      <3>. QED
        BY <1>3, <3>1
    <2>. QED
      BY <1>5, <2>1, <2>2, <2>3, <2>4, <2>5, <2>6, <2>7, <2>8, <2>9, <2>10, <2>11, <2>12, <2>13,
         <2>14, <2>15 DEF RunStep
  <1>6. CASE BrokerStep(t)
    BY <1>2, <1>6 DEF BrokerStep, Serve, ServeRejected, ServeFails, ServeRefused, ServeFrame
  <1>7. CASE GiveUp(t)
    <2>1. \E code : run'[t] = Out(run[t], code)
      BY <1>1, <1>7 DEF GiveUp
    <2>. QED
      BY <1>3, <2>1
  <1>8. CASE Kill(t)
    BY <1>1, <1>8 DEF Kill, Run
  <1>. QED
    BY <1>2, <1>4, <1>5, <1>6, <1>7, <1>8, WhoseStep

\* What happens to a manifest that nobody collects.
LEMMA ManifestsMove ==
  ASSUME TransferInv, [TransferNext]_transferVars, \A p \in Runs : ~Collect(p), NEW d \in Contents
  PROVE  /\ \/ note'[d] = note[d]
            \/ \E p \in Runs : run[p].key = d /\ NoteManifest(p) /\ note'[d] = run[p].record
            \/ \E p \in Runs : run[p].key = d /\ NameManifest(p)
         /\ \/ manifest'[d] = manifest[d]
            \/ \E p \in Runs : run[p].key = d /\ NameManifest(p)
  <1>1. StagingTypes
    BY TypesAre DEF TransferInv
  <1>2. CASE UNCHANGED stagingVars \/ WeekPasses
    BY <1>2 DEF stagingVars, WeekPasses
  <1>3. ASSUME NEW p \in Runs, OpenTmp(p) \/ WriteTmp(p) \/ Publish(p)
        PROVE  note' = note /\ manifest' = manifest
    BY <1>3 DEF OpenTmp, WriteTmp, Publish, stagingVars
  <1>4. ASSUME NEW p \in Runs, NoteManifest(p)
        PROVE  /\ manifest' = manifest
               /\ note'[d] = note[d] \/ (run[p].key = d /\ note'[d] = run[p].record)
    BY <1>1, <1>4 DEF NoteManifest, StagingTypes
  <1>5. ASSUME NEW p \in Runs, NameManifest(p), run[p].key # d
        PROVE  note'[d] = note[d] /\ manifest'[d] = manifest[d]
    BY <1>1, <1>5 DEF NameManifest, StagingTypes, stagingVars
  <1>. QED
    BY <1>2, <1>3, <1>4, <1>5, StagingChanges

\* Who has its content alone has had it alone.
LEMMA AloneBefore ==
  ASSUME TransferInv, [TransferNext]_transferVars, NEW t \in Runs, run[t].key # Null, Alone(t)'
  PROVE  Alone(t) /\ run'[t].key = run[t].key
  <1>1. \A q \in Runs : run[q].key # Null => run'[q].key = run[q].key
    BY RunsAreSteady DEF Steady
  <1>. QED
    BY <1>1 DEF Alone

LEMMA KeptKeeps ==
  ASSUME TransferInv, KeptInv, [TransferNext]_transferVars, budget'.weeks = 0, NEW t \in Runs
  PROVE  KeptOK(t)'
  <1>1. /\ aged = {} /\ \A p \in Runs : run[p].doomed = Null /\ KeptOK(p)
    BY WeeksPass DEF KeptInv
  <1>2. /\ StagingTypes /\ PlaceOK(t) /\ Milestones(t) /\ Steady(t) /\ \A p \in Runs : ~Collect(p)
    BY <1>1, Before, CheckoutsGetOn, RunsAreSteady DEF Collect
  <1>3. SUFFICES ASSUME run'[t].cmd = "checkout"
                 PROVE  /\ run'[t].pc \in Staging => run'[t].record.token = t
                        /\ run'[t].exit = 0 => run'[t].key \in Contents
                        /\ run'[t].pc = "naming" /\ Alone(t)' => note'[run'[t].key] = run'[t].record
                        /\ run'[t].exit = 0 /\ Alone(t)' =>
                             manifest'[run'[t].key] # Null /\ manifest'[run'[t].key].token = t
    BY DEF KeptOK, Staging
  <1>4. ASSUME run[t].pc # "idle"
        PROVE  /\ run[t].cmd = "checkout"
               /\ run[t].pc \in Staging => run[t].record.token = t
               /\ run[t].exit = 0 => run[t].key \in Contents
               /\ run[t].pc = "naming" /\ Alone(t) => note[run[t].key] = run[t].record
               /\ run[t].exit = 0 /\ Alone(t) => manifest[run[t].key] # Null /\ manifest[run[t].key].token = t
    BY <1>1, <1>2, <1>3, <1>4 DEF KeptOK, Staging, Steady
  <1>5. run[t].pc \in Staging => /\ run[t].key \in Contents /\ run[t].record \in Record /\ run[t].exit = Null
                                 /\ run'[t].key = run[t].key /\ run'[t].record = run[t].record
                                 /\ run[t].record.token = t
    BY <1>2, <1>4, NothingAssumption DEF PlaceOK, Staging, Steady
  <1>6. run[t].exit = 0 => run[t].pc # "idle" /\ run[t].pc \notin Staging
    <2>1. Null # 0
      BY NothingAssumption
    <2>. QED
      BY <1>2, <2>1 DEF PlaceOK, Staging, NewRun
  <1>7. ASSUME run'[t].pc \in Staging
        PROVE  run'[t].record.token = t
    <2>1. CASE run[t].pc \in Staging
      BY <1>5, <2>1
    <2>2. CASE HearContent(t)
      <3>1. run[t].pc = "calling" /\ run[t].cmd = "checkout" /\ run[t].name \in Names
        BY <1>2, <1>4, <2>2 DEF HearContent, PlaceOK, Idle
      <3>2. run[t] \in Run /\ run \in [Runs -> Run]
        BY Before
      <3>3. run'[t].record = [name |-> run[t].name, token |-> t, out |-> TRUE]
        BY <2>2, <3>1, <3>2 DEF HearContent, Heard, Run
      <3>. QED
        BY <3>3
    <2>. QED
      BY <1>2, <1>3, <1>7, <2>1, <2>2 DEF Milestones
  <1>8. ASSUME run'[t].pc = "naming", Alone(t)'
        PROVE  note'[run'[t].key] = run'[t].record
    <2>1. CASE NoteManifest(t)
      <3>1. run[t].pc \in Staging
        BY <2>1 DEF NoteManifest, Staging
      <3>. QED
        BY <1>2, <1>5, <2>1, <3>1 DEF NoteManifest, StagingTypes
    <2>2. CASE run[t].pc = "naming"
      <3>1. run[t].pc \in Staging /\ run[t].key # Null
        BY <1>5, <2>2, NothingAssumption DEF Staging
      <3>2. Alone(t) /\ note[run[t].key] = run[t].record
        BY <1>4, <1>8, <2>2, <3>1, AloneBefore
      <3>3. ASSUME NEW p \in Runs, run[p].key = run[t].key, NoteManifest(p) \/ NameManifest(p)
            PROVE  FALSE
        <4>1. p = t
          BY <3>2, <3>3 DEF Alone
        <4>2. run[t] \in Run /\ run \in [Runs -> Run]
          BY Before
        <4>3. CASE NameManifest(t)
          <5>1. \E code : run'[t] = Out(run[t], code)
            BY <4>2, <4>3 DEF NameManifest
          <5>. QED
            BY <1>8, <4>2, <5>1 DEF Out, Run
        <4>. QED
          BY <2>2, <3>3, <4>1, <4>3 DEF NoteManifest
      <3>. QED
        BY <1>2, <1>5, <3>1, <3>2, <3>3, ManifestsMove
    <2>. QED
      BY <1>2, <1>3, <1>8, <2>1, <2>2 DEF Milestones
  <1>9. ASSUME run'[t].exit = 0
        PROVE  /\ run'[t].key \in Contents
               /\ Alone(t)' => manifest'[run'[t].key] # Null /\ manifest'[run'[t].key].token = t
    <2>1. CASE NameManifest(t) /\ note[run[t].key] # Null
      <3>1. run[t].pc \in Staging /\ run[t].pc = "naming"
        BY <2>1 DEF NameManifest, Staging
      <3>2. manifest'[run[t].key] = note[run[t].key]
        BY <1>2, <1>5, <2>1, <3>1 DEF NameManifest, StagingTypes
      <3>3. run[t].key # Null
        BY <1>5, <3>1, NothingAssumption
      <3>4. Alone(t)' => note[run[t].key] = run[t].record
        BY <1>4, <3>1, <3>3, AloneBefore
      <3>. QED
        BY <1>5, <2>1, <3>1, <3>2, <3>4
    <2>2. CASE run[t].exit = 0
      <3>1. run[t].key \in Contents /\ run[t].key # Null /\ run'[t].key = run[t].key
        BY <1>2, <1>4, <1>6, <2>2, NothingAssumption DEF Steady
      <3>2. ASSUME Alone(t)'
            PROVE  manifest'[run[t].key] # Null /\ manifest'[run[t].key].token = t
        <4>1. Alone(t) /\ manifest[run[t].key] # Null /\ manifest[run[t].key].token = t
          BY <1>4, <1>6, <2>2, <3>1, <3>2, AloneBefore
        <4>2. ASSUME NEW p \in Runs, run[p].key = run[t].key, NameManifest(p)
              PROVE  FALSE
          <5>1. p = t
            BY <4>1, <4>2 DEF Alone
          <5>. QED
            BY <1>6, <2>2, <4>2, <5>1 DEF NameManifest, Staging
        <4>. QED
          BY <1>2, <3>1, <4>1, <4>2, ManifestsMove
      <3>. QED
        BY <3>1, <3>2
    <2>. QED
      BY <1>2, <1>3, <1>9, <2>1, <2>2 DEF Milestones
  <1>. QED
    BY <1>7, <1>8, <1>9

\* As long as no week has passed, nothing is lost but what another run overwrites.
LEMMA KeptInvHolds == TransferSpec => []KeptInv
  <1>1. TransferInit => KeptInv
    <2>1. Null # 0
      BY NothingAssumption
    <2>. QED
      BY <2>1 DEF TransferInit, KeptInv, KeptOK, NewRun
  <1>2. TransferInv /\ KeptInv /\ [TransferNext]_transferVars => KeptInv'
    <2>1. SUFFICES ASSUME TransferInv, KeptInv, [TransferNext]_transferVars, budget'.weeks = 0
                   PROVE  /\ aged' = {}
                          /\ \A t \in Runs : run'[t].doomed = Null /\ KeptOK(t)'
      BY DEF KeptInv
    <2>2. ~WeekPasses /\ aged = {} /\ \A t \in Runs : run[t].doomed = Null
      BY <2>1, WeeksPass DEF KeptInv
    <2>3. aged' = {}
      BY <2>1, <2>2, StagingChanges
      DEF stagingVars, Collect, OpenTmp, WriteTmp, Publish, NoteManifest, NameManifest
    <2>4. \A t \in Runs : run'[t].doomed = Null
      BY <2>1, <2>2, NoneIsCondemned
    <2>5. \A t \in Runs : KeptOK(t)'
      BY <2>1, KeptKeeps
    <2>. QED
      BY <2>3, <2>4, <2>5
  <1>. QED
    BY <1>1, <1>2, TransferInvHolds, PTL DEF TransferSpec

\* The token of a checkout that ended well stays in a manifest as long as it locks
\* the file, unless a run staged the same content, or a week went by.
THEOREM TokensStay == TransferSpec => []TokensAreKept
  <1>1. ASSUME TransferInv, LocksInv, KeptInv
        PROVE  TokensAreKept
    <2>1. SUFFICES ASSUME NEW f \in Files, rlock[f] # Null, run[rlock[f]].exit = 0,
                          ~(budget.weeks > 0), Alone(rlock[f])
                   PROVE  \E d \in Contents : manifest[d] # Null /\ manifest[d].token = rlock[f]
      BY DEF TokensAreKept, Alone
    <2>2. budget.weeks = 0
      <3>1. budget.weeks \in Nat
        BY <1>1, TypesAre, TransferAssumption DEF TransferInv, Types
      <3>. QED
        BY <2>1, <3>1
    <2>3. PICK t \in Runs : t = rlock[f]
      BY <1>1, <2>1, TypesAre DEF TransferInv, RemoteTypes
    <2>4. run[t].cmd = "checkout"
      BY <1>1, <2>1, <2>3 DEF LocksInv, LockedByOK
    <2>5. KeptOK(t)
      BY <1>1, <2>2 DEF KeptInv
    <2>. QED
      BY <2>1, <2>3, <2>4, <2>5 DEF KeptOK
  <1>. QED
    BY <1>1, TransferInvHolds, LocksInvHolds, KeptInvHolds, PTL
=============================================================================
