------------------------------- MODULE Transfer -------------------------------
(***************************************************************************)
(* The transfer CLI (broker/cli.py) at work on the files of one instance: the *)
(* runs of `broker fetch, checkout, checkin, push, staging gc', the staging   *)
(* directory they share, the push locks, the tools of the broker they call    *)
(* (nextcloud.py, webdav_adapter.py) and the remote files with their locks.   *)
(*                                                                         *)
(* A run is one process that does one command.  Between its system calls and  *)
(* its calls to the broker anything may happen: other runs, another writer of *)
(* the file, the end of a remote lock, a week.  A run may give up on an       *)
(* answer or be killed; the call it made is then carried out later, or never. *)
(* The broker answers one call at a time: no file tool awaits (see Wall).     *)
(*                                                                         *)
(* A content stands for its own sha256 digest; contents are ordered as the    *)
(* sorted digests are.  A lock token is known by the run whose checkout       *)
(* obtained it.                                                             *)
(***************************************************************************)
EXTENDS PushLock, FiniteSets, Sequences

CONSTANTS
  Files,        \* the remote files
  FileOf,       \* FileOf[n]: the file that the spelling n names
  Contents,     \* file contents, as natural numbers
  Initial,      \* the content of every file at the start
  Drafts,       \* what is pushed and checked in
  Commands,     \* the commands in use
  MaxFaults,    \* bound on failures, refusals, lost answers and kills
  MaxMeddling,  \* bound on what others do to the remote files
  MaxWeeks      \* bound on the weeks that pass

ASSUME TransferAssumption ==
  /\ FileOf \in [Names -> Files]
  /\ Contents \subseteq Nat /\ Initial \in Contents /\ Drafts \subseteq Contents
  /\ Commands \subseteq {"fetch", "checkout", "checkin", "push", "gc"}
  /\ MaxFaults \in Nat /\ MaxMeddling \in Nat /\ MaxWeeks \in Nat

VARIABLES
  run,       \* run[p]: what the process p is doing
  call,      \* call[p]: its call to the broker, on the way or answered
  serving,   \* the run whose call the broker is in the middle of
  remote,    \* remote[f]: the content of the file
  rlock,     \* rlock[f]: the token the file is locked with
  tmp,       \* tmp[d]: the inode named .d.tmp, known by the run that created it
  staged,    \* staged[d]: the inode named d
  complete,  \* the inodes that hold all of their bytes
  note,      \* note[d]: the manifest named .d.json.tmp
  manifest,  \* manifest[d]: the manifest named d.json
  aged,      \* the entries of the staging directory older than a week
  known,     \* history: what the holder of token t, in force, last knew the file to hold
  landed,    \* history: how often a write of run p was carried out
  budget     \* faults, meddlings and weeks so far

stagingVars == <<tmp, staged, complete, note, manifest, aged>>
remoteVars == <<remote, rlock, known, landed>>
transferVars == <<lockVars, run, call, serving, remoteVars, stagingVars, budget>>

Record == [name : Names, token : Runs \cup {Null}, out : BOOLEAN]

Verbs == {"GET", "PUT", "LOCK", "UNLOCK"}

Call == [tool : {"read", "write", "checkout", "checkin"}, todo : Seq(Verbs),
         file : Files, data : Contents \cup {Null}, token : Runs \cup {Null},
         got : Contents \cup {Null}, reply : {"ok", "error", "refused", Null}]

ASSUME NothingAssumption ==
  /\ Null \notin Contents /\ Null \notin 0..4 /\ Null \notin {"ok", "error", "refused"}
  /\ Null \notin Record /\ Null \notin Call

\*   data    the content to write
\*   key     the digest whose manifest the command reads or writes
\*   record  the manifest read, or to be written
\*   inode   the open temporary file
\*   doomed  the entry found too old
NewRun == [cmd |-> Null, pc |-> "idle", name |-> Null, data |-> Null, key |-> Null,
           record |-> Null, inode |-> Null, doomed |-> Null, exit |-> Null]

TransferInit ==
  /\ LockInit
  /\ run = [p \in Runs |-> NewRun]
  /\ call = [p \in Runs |-> Null]
  /\ serving = Null
  /\ remote = [f \in Files |-> Initial]
  /\ rlock = [f \in Files |-> Null]
  /\ tmp = [d \in Contents |-> Null]
  /\ staged = [d \in Contents |-> Null]
  /\ complete = {}
  /\ note = [d \in Contents |-> Null]
  /\ manifest = [d \in Contents |-> Null]
  /\ aged = {}
  /\ known = [p \in Runs |-> Null]
  /\ landed = [p \in Runs |-> 0]
  /\ budget = [faults |-> 0, meddling |-> 0, weeks |-> 0]

Spend(kind, limit) ==
  /\ budget[kind] < limit
  /\ budget' = [budget EXCEPT ![kind] = @ + 1]

Fault == Spend("faults", MaxFaults)

-----------------------------------------------------------------------------
(* The broker and the remote files *)

\* Mutant: the content is read before the file is locked.
Stages_ReadFirst(tool) ==
  CASE tool = "read"     -> <<"GET">>
    [] tool = "write"    -> <<"PUT">>
    [] tool = "checkout" -> <<"GET", "LOCK">>
    [] tool = "checkin"  -> <<"PUT", "UNLOCK">>

\* Mutant: the lock is released before the content is written.
Stages_UnlockFirst(tool) ==
  CASE tool = "read"     -> <<"GET">>
    [] tool = "write"    -> <<"PUT">>
    [] tool = "checkout" -> <<"LOCK", "GET">>
    [] tool = "checkin"  -> <<"UNLOCK", "PUT">>

\* The requests of a content tool, in order.
Stages(tool) ==
  CASE tool = "read"     -> <<"GET">>
    [] tool = "write"    -> <<"PUT">>
    [] tool = "checkout" -> <<"LOCK", "GET">>
    [] tool = "checkin"  -> <<"PUT", "UNLOCK">>

\*   token  the lock token sent
\*   got    the content received
\*   reply  the status of the answer
NewCall(tool, name, data, token) ==
  [tool |-> tool, todo |-> Stages(tool), file |-> FileOf[name], data |-> data,
   token |-> token, got |-> Null, reply |-> Null]

\* The run still waits for the answer to its call.
Waiting(p) == run[p].pc \in {"calling", "verifying"}

\* Nextcloud accepts the next request of a call: a locked file is written and
\* unlocked with its token only, and a token that locks nothing is refused.
Accepts(c) ==
  CASE Head(c.todo) = "GET"    -> TRUE
    [] Head(c.todo) = "LOCK"   -> rlock[c.file] = Null
    [] Head(c.todo) = "PUT"    -> rlock[c.file] = c.token
    [] Head(c.todo) = "UNLOCK" -> rlock[c.file] # Null /\ rlock[c.file] = c.token

\* What the next request of p's call does to the file.
Carried(p) ==
  LET c == call[p]
      verb == Head(c.todo)
      holder == IF c.tool = "checkout" THEN p ELSE c.token IN
  /\ remote' = IF verb = "PUT" THEN [remote EXCEPT ![c.file] = c.data] ELSE remote
  /\ rlock' = CASE verb = "LOCK"   -> [rlock EXCEPT ![c.file] = p]
                [] verb = "UNLOCK" -> [rlock EXCEPT ![c.file] = Null]
                [] OTHER -> rlock
  /\ known' = IF holder = Null THEN known
              ELSE CASE verb = "GET" -> [known EXCEPT ![holder] = remote[c.file]]
                     [] verb = "PUT" -> [known EXCEPT ![holder] = c.data]
                     [] verb = "UNLOCK" -> [known EXCEPT ![holder] = Null]
                     [] OTHER -> known
  /\ landed' = IF verb = "PUT" THEN [landed EXCEPT ![p] = @ + 1] ELSE landed

\* The call is answered; nobody hears the answer if the run is gone.
Answer(p, status, got) ==
  /\ call' = [call EXCEPT ![p] =
       IF Waiting(p) THEN [@ EXCEPT !.reply = status, !.got = got] ELSE Null]
  /\ serving' = Null

ServeFrame == UNCHANGED <<lockVars, run, stagingVars>>

\* The call of p is on its way to the broker, or there.
Pending(p) == call[p] # Null /\ call[p].reply = Null

Serving(p) ==
  /\ Pending(p)
  /\ serving \in {Null, p}

\* The next request succeeds: the next stage, or the answer.
Serve(p) ==
  LET c == call[p]
      got == IF Head(c.todo) = "GET" THEN remote[c.file] ELSE c.got IN
  /\ Serving(p)
  /\ Accepts(c)
  /\ Carried(p)
  /\ IF Len(c.todo) = 1 THEN Answer(p, "ok", got)
     ELSE /\ call' = [call EXCEPT ![p] = [@ EXCEPT !.todo = Tail(c.todo), !.got = got]]
          /\ serving' = p
  /\ UNCHANGED budget
  /\ ServeFrame

\* Nextcloud turns the request down (412, 423): an error, and no further stage.
ServeRejected(p) ==
  /\ Serving(p)
  /\ ~Accepts(call[p])
  /\ Answer(p, "error", Null)
  /\ UNCHANGED <<remoteVars, budget>>
  /\ ServeFrame

\* The request, its audit record or its answer fails: an error, and no further
\* stage, whether or not the request was carried out.
ServeFails(p) ==
  /\ Serving(p)
  /\ Fault
  /\ \/ Accepts(call[p]) /\ Carried(p)
     \/ UNCHANGED remoteVars
  /\ Answer(p, "error", Null)
  /\ ServeFrame

\* The wall refuses the call; it is asked before the first request only.
ServeRefused(p) ==
  /\ Serving(p)
  /\ serving = Null
  /\ Fault
  /\ Answer(p, "refused", Null)
  /\ UNCHANGED remoteVars
  /\ ServeFrame

\* Others write a file that is not locked.
OthersWrite(f, c) ==
  /\ rlock[f] = Null
  /\ c # remote[f]
  /\ Spend("meddling", MaxMeddling)
  /\ remote' = [remote EXCEPT ![f] = c]
  /\ UNCHANGED <<lockVars, run, call, serving, rlock, known, landed, stagingVars>>

\* A remote lock times out, or the owner of the file overrides it.
LockEnds(f) ==
  /\ rlock[f] # Null
  /\ Spend("meddling", MaxMeddling)
  /\ rlock' = [rlock EXCEPT ![f] = Null]
  /\ known' = [known EXCEPT ![rlock[f]] = Null]
  /\ UNCHANGED <<lockVars, run, call, serving, remote, landed, stagingVars>>

-----------------------------------------------------------------------------
(* The commands: start *)

CallFrame == UNCHANGED <<serving, remoteVars>>
StageFrame == UNCHANGED <<lockVars, call, budget>> /\ CallFrame

\* fetch, checkout and staging gc collect garbage first.
StartCollecting(p, cmd, n) ==
  /\ run[p].pc = "idle"
  /\ run' = [run EXCEPT ![p] = [@ EXCEPT !.cmd = cmd, !.pc = "collecting", !.name = n]]
  /\ UNCHANGED stagingVars
  /\ StageFrame

\* The entries of the staging directory, by kind and digest.
Entries ==
  {<<"tmp", d>> : d \in {e \in Contents : tmp[e] # Null}}
    \cup {<<"staged", d>> : d \in {e \in Contents : staged[e] # Null}}
    \cup {<<"note", d>> : d \in {e \in Contents : note[e] # Null}}
    \cup {<<"manifest", d>> : d \in {e \in Contents : manifest[e] # Null}}

\* Mutant: the comparison with the cutoff is the wrong way round.
TooOld_Young == Entries \ aged

\* What gc_staging deletes.
TooOld == aged

\* gc_staging: stat finds an entry that is older than a week ...
Condemn(p) ==
  /\ run[p].pc = "collecting"
  /\ run[p].doomed = Null
  /\ \E e \in TooOld : run' = [run EXCEPT ![p].doomed = e]
  /\ UNCHANGED stagingVars
  /\ StageFrame

\* ... and unlink removes what has its name by now.
Collect(p) ==
  LET e == run[p].doomed
      Without(kind, entries) == IF e[1] = kind THEN [entries EXCEPT ![e[2]] = Null] ELSE entries
  IN
  /\ run[p].pc = "collecting"
  /\ e # Null
  /\ run' = [run EXCEPT ![p].doomed = Null]
  /\ tmp' = Without("tmp", tmp)
  /\ staged' = Without("staged", staged)
  /\ note' = Without("note", note)
  /\ manifest' = Without("manifest", manifest)
  /\ aged' = aged \ {e}
  /\ UNCHANGED complete
  /\ StageFrame

\* Nothing is too old: gc is done, and so is fetch when the staging directory is
\* full; fetch and checkout go on to call the broker.
Collected(p) ==
  LET r == run[p] IN
  /\ r.pc = "collecting"
  /\ TooOld = {} /\ r.doomed = Null
  /\ \/ /\ r.cmd \in {"gc", "fetch"}
        /\ run' = [run EXCEPT ![p] =
             [@ EXCEPT !.pc = "done", !.exit = IF r.cmd = "gc" THEN 0 ELSE 1]]
        /\ UNCHANGED call
     \/ /\ r.cmd \in {"fetch", "checkout"}
        /\ run' = [run EXCEPT ![p].pc = "calling"]
        /\ call' = [call EXCEPT ![p] =
             NewCall(IF r.cmd = "fetch" THEN "read" ELSE "checkout", r.name, Null, Null)]
  /\ UNCHANGED <<lockVars, stagingVars, budget>>
  /\ CallFrame

\* push: the lock comes first.
StartPush(p, n, data) ==
  /\ run[p].pc = "idle"
  /\ Acquire(p, n)
  /\ run' = [run EXCEPT ![p] =
       [@ EXCEPT !.cmd = "push", !.pc = "locking", !.name = n, !.data = data]]
  /\ UNCHANGED <<call, stagingVars, budget>>
  /\ CallFrame

\* _find_manifest: the manifest of the digest on the command line, or the first
\* one that is checked out - whichever path it was checked out from.
Found(d) == manifest[d] # Null

\* checkin: the manifest is read once, before the lock is taken.  A digest that
\* has no manifest, or one without a token, ends the run.
StartCheckin(p, n, data) ==
  /\ run[p].pc = "idle"
  /\ \/ \E d \in Contents :
          /\ Found(d)
          /\ manifest[d].token # Null
          /\ Acquire(p, n)
          /\ run' = [run EXCEPT ![p] =
               [@ EXCEPT !.cmd = "checkin", !.pc = "locking", !.name = n,
                         !.data = data, !.key = d, !.record = manifest[d]]]
     \/ /\ run' = [run EXCEPT ![p] = [@ EXCEPT !.cmd = "checkin", !.pc = "done", !.exit = 1]]
        /\ UNCHANGED lockVars
  /\ UNCHANGED <<call, stagingVars, budget>>
  /\ CallFrame

-----------------------------------------------------------------------------
(* The commands: the push lock and the calls *)

\* A step of acquire_lock.
Locking(p) ==
  /\ run[p].pc = "locking"
  /\ Open(p) \/ Probe(p) \/ Break(p)
  /\ UNCHANGED <<run, call, stagingVars, budget>>
  /\ CallFrame

\* Mutant: the lock is released on this way out, too.
LockRefused_Releases(p) ==
  /\ run[p].pc = "locking"
  /\ step[p] = "refused"
  /\ Unlink(p)
  /\ MoveTo(p, "released")
  /\ run' = [run EXCEPT ![p] = [@ EXCEPT !.pc = "done", !.exit = 1]]
  /\ UNCHANGED <<clock, lockname, overaged>>
  /\ UNCHANGED <<call, stagingVars, budget>>
  /\ CallFrame

\* The lock is live: another push holds it.
LockRefused(p) ==
  /\ run[p].pc = "locking"
  /\ step[p] = "refused"
  /\ run' = [run EXCEPT ![p] = [@ EXCEPT !.pc = "done", !.exit = 1]]
  /\ UNCHANGED <<lockVars, call, stagingVars, budget>>
  /\ CallFrame

\* Mutant: the call is made whether or not the lock was obtained.
CallBroker_Unlocked(p) ==
  LET r == run[p] IN
  /\ r.pc = "locking"
  /\ step[p] \in {"held", "refused"}
  /\ run' = [run EXCEPT ![p] = [@ EXCEPT !.pc = "calling"]]
  /\ call' = [call EXCEPT ![p] =
       IF r.cmd = "push" THEN NewCall("write", r.name, r.data, Null)
       ELSE NewCall("checkin", r.name, r.data, r.record.token)]
  /\ UNCHANGED <<lockVars, stagingVars, budget>>
  /\ CallFrame

\* write or checkin is called, under the lock.
CallBroker(p) ==
  LET r == run[p] IN
  /\ r.pc = "locking"
  /\ step[p] = "held"
  /\ run' = [run EXCEPT ![p] = [@ EXCEPT !.pc = "calling"]]
  /\ call' = [call EXCEPT ![p] =
       IF r.cmd = "push" THEN NewCall("write", r.name, r.data, Null)
       ELSE NewCall("checkin", r.name, r.data, r.record.token)]
  /\ UNCHANGED <<lockVars, stagingVars, budget>>
  /\ CallFrame

\* The run goes on as r, having heard the answer to its call.
Heard(p, r) ==
  /\ run' = [run EXCEPT ![p] = r]
  /\ call' = [call EXCEPT ![p] = Null]
  /\ UNCHANGED <<lockVars, stagingVars, budget>>
  /\ CallFrame

ExitOf(reply) == CASE reply = "refused" -> 3 [] reply = "error" -> 2

\* A command that holds the push lock releases it on every way out.
Out(r, code) ==
  [r EXCEPT !.exit = code, !.data = Null,
            !.pc = IF r.cmd \in {"push", "checkin"} THEN "releasing" ELSE "done"]

\* Mutant: a write that failed is tried again.
HearFailure_Retried(p) ==
  LET r == run[p] IN
  /\ Waiting(p) /\ call[p] # Null
  /\ call[p].reply \in {"refused", "error"}
  /\ IF r.cmd = "push" /\ r.pc = "calling"
     THEN /\ call' = [call EXCEPT ![p] = NewCall("write", r.name, r.data, Null)]
          /\ UNCHANGED <<lockVars, run, stagingVars, budget>>
          /\ CallFrame
     ELSE Heard(p, Out(r, IF r.pc = "verifying" THEN 4 ELSE ExitOf(call[p].reply)))

\* Mutant: an answer is an answer.
HearFailure_Swallowed(p) ==
  /\ Waiting(p) /\ call[p] # Null
  /\ call[p].reply \in {"refused", "error"}
  /\ Heard(p, Out(run[p], IF run[p].pc = "verifying" THEN 4 ELSE 0))

\* The answer is an error or a refusal.  One to the read-back is a failed
\* verification.
HearFailure(p) ==
  /\ Waiting(p) /\ call[p] # Null
  /\ call[p].reply \in {"refused", "error"}
  /\ Heard(p, Out(run[p], IF run[p].pc = "verifying" THEN 4 ELSE ExitOf(call[p].reply)))

\* fetch and checkout have the content, and go on to stage it.
HearContent(p) ==
  LET r == run[p] IN
  /\ r.pc = "calling" /\ r.cmd \in {"fetch", "checkout"}
  /\ call[p] # Null /\ call[p].reply = "ok"
  /\ Heard(p, [r EXCEPT !.pc = "opening", !.key = call[p].got,
       !.record = [name |-> r.name, token |-> IF r.cmd = "checkout" THEN p ELSE Null,
                   out |-> r.cmd = "checkout"]])

\* checkin is done at the broker: the manifest is marked.
HearCheckedIn(p) ==
  LET r == run[p] IN
  /\ r.pc = "calling" /\ r.cmd = "checkin"
  /\ call[p] # Null /\ call[p].reply = "ok"
  /\ Heard(p, [r EXCEPT !.pc = "noting", !.record.out = FALSE])

\* push is written: it is read back.
HearWritten(p) ==
  LET r == run[p] IN
  /\ r.pc = "calling" /\ r.cmd = "push"
  /\ call[p] # Null /\ call[p].reply = "ok"
  /\ run' = [run EXCEPT ![p].pc = "verifying"]
  /\ call' = [call EXCEPT ![p] = NewCall("read", r.name, Null, Null)]
  /\ UNCHANGED <<lockVars, stagingVars, budget>>
  /\ CallFrame

\* The digests are compared.
HearReadBack(p) ==
  LET r == run[p] IN
  /\ r.pc = "verifying"
  /\ call[p] # Null /\ call[p].reply = "ok"
  /\ Heard(p, Out(r, IF call[p].got = r.data THEN 0 ELSE 4))

\* The broker does not answer: an HTTP error, no connection, a timeout.  The
\* call may never have reached it, or be carried out later.
Abandoned(p) ==
  LET lost == [call EXCEPT ![p] = Null] IN
  call' \in IF serving = p THEN {call} ELSE IF Pending(p) THEN {call, lost} ELSE {lost}

GiveUp(p) ==
  /\ Waiting(p) /\ Pending(p)
  /\ Fault
  /\ run' = [run EXCEPT ![p] = Out(@, IF @.pc = "verifying" THEN 4 ELSE 1)]
  /\ Abandoned(p)
  /\ UNCHANGED <<lockVars, stagingVars>>
  /\ CallFrame

-----------------------------------------------------------------------------
(* The commands: staging *)

\* open(tmp, "wb"): creates the file, or truncates the one another run has there.
OpenTmp(p) ==
  LET d == run[p].key
      i == IF tmp[d] = Null THEN p ELSE tmp[d] IN
  /\ run[p].pc = "opening"
  /\ run' = [run EXCEPT ![p] = [@ EXCEPT !.pc = "writing", !.inode = i]]
  /\ tmp' = [tmp EXCEPT ![d] = i]
  /\ complete' = complete \ {i}
  /\ aged' = aged \ {<<"tmp", d>>}
  /\ UNCHANGED <<staged, note, manifest>>
  /\ StageFrame

\* Mutant: the name is published without waiting for the bytes.
WriteTmp_Deferred(p) ==
  /\ run[p].pc = "writing"
  /\ run' = [run EXCEPT ![p].pc = "publishing"]
  /\ UNCHANGED stagingVars
  /\ StageFrame

\* write, flush, fsync.
WriteTmp(p) ==
  /\ run[p].pc = "writing"
  /\ run' = [run EXCEPT ![p].pc = "publishing"]
  /\ complete' = complete \cup {run[p].inode}
  /\ UNCHANGED <<tmp, staged, note, manifest, aged>>
  /\ StageFrame

\* chmod and os.replace.  They raise, and the run dies of it, when another run
\* has moved the name away.
Publish(p) ==
  LET d == run[p].key IN
  /\ run[p].pc = "publishing"
  /\ IF tmp[d] = Null
     THEN /\ run' = [run EXCEPT ![p] = [@ EXCEPT !.pc = "done", !.exit = 1]]
          /\ UNCHANGED stagingVars
     ELSE /\ run' = [run EXCEPT ![p].pc = "noting"]
          /\ staged' = [staged EXCEPT ![d] = tmp[d]]
          /\ tmp' = [tmp EXCEPT ![d] = Null]
          /\ aged' = aged \ {<<"staged", d>>}
          /\ UNCHANGED <<complete, note, manifest>>
  /\ StageFrame

\* write_manifest: the temporary file, then its name.
NoteManifest(p) ==
  /\ run[p].pc = "noting"
  /\ run' = [run EXCEPT ![p].pc = "naming"]
  /\ note' = [note EXCEPT ![run[p].key] = run[p].record]
  /\ aged' = aged \ {<<"note", run[p].key>>}
  /\ UNCHANGED <<tmp, staged, complete, manifest>>
  /\ StageFrame

NameManifest(p) ==
  LET d == run[p].key IN
  /\ run[p].pc = "naming"
  /\ IF note[d] = Null
     THEN /\ run' = [run EXCEPT ![p] = Out(@, 1)]
          /\ UNCHANGED stagingVars
     ELSE /\ run' = [run EXCEPT ![p] = Out(@, 0)]
          /\ manifest' = [manifest EXCEPT ![d] = note[d]]
          /\ note' = [note EXCEPT ![d] = Null]
          /\ aged' = aged \ {<<"manifest", d>>}
          /\ UNCHANGED <<tmp, staged, complete>>
  /\ StageFrame

-----------------------------------------------------------------------------
(* The commands: ends *)

\* finally: release_lock.
Finish(p) ==
  /\ run[p].pc = "releasing"
  /\ Release(p)
  /\ run' = [run EXCEPT ![p].pc = "done"]
  /\ UNCHANGED <<call, stagingVars, budget>>
  /\ CallFrame

\* The run is killed.
Kill(p) ==
  /\ run[p].pc \notin {"idle", "done", "killed"}
  /\ Fault
  /\ Die(p)
  /\ run' = [run EXCEPT ![p].pc = "killed"]
  /\ Abandoned(p)
  /\ UNCHANGED stagingVars
  /\ CallFrame

TransferTick ==
  /\ LockTick
  /\ UNCHANGED <<run, call, serving, remoteVars, stagingVars, budget>>

\* A week passes between two commands.
WeekPasses ==
  /\ \A p \in Runs : run[p].pc \in {"idle", "done", "killed"}
  /\ Spend("weeks", MaxWeeks)
  /\ aged' = Entries
  /\ UNCHANGED <<lockVars, run, call, serving, remoteVars, tmp, staged, complete, note, manifest>>

\* Every run has ended and no call is left.
AllDone ==
  /\ \A p \in Runs : run[p].pc \in {"done", "killed"} /\ call[p] = Null
  /\ UNCHANGED transferVars

Start(p) ==
  \/ \E cmd \in Commands \cap {"fetch", "checkout"}, n \in Names : StartCollecting(p, cmd, n)
  \/ "gc" \in Commands /\ StartCollecting(p, "gc", Null)
  \/ "push" \in Commands /\ \E n \in Names, c \in Drafts : StartPush(p, n, c)
  \/ "checkin" \in Commands /\ \E n \in Names, c \in Drafts : StartCheckin(p, n, c)

RunStep(p) ==
  \/ Condemn(p) \/ Collect(p) \/ Collected(p)
  \/ Locking(p) \/ LockRefused(p) \/ CallBroker(p)
  \/ HearFailure(p) \/ HearContent(p) \/ HearCheckedIn(p)
  \/ HearWritten(p) \/ HearReadBack(p)
  \/ OpenTmp(p) \/ WriteTmp(p) \/ Publish(p) \/ NoteManifest(p) \/ NameManifest(p)
  \/ Finish(p)

BrokerStep(p) == Serve(p) \/ ServeRejected(p) \/ ServeFails(p) \/ ServeRefused(p)

TransferNext ==
  \/ \E p \in Runs : Start(p) \/ RunStep(p) \/ BrokerStep(p) \/ GiveUp(p) \/ Kill(p)
  \/ \E f \in Files : LockEnds(f) \/ \E c \in Contents : OthersWrite(f, c)
  \/ TransferTick
  \/ WeekPasses
  \/ AllDone

TransferSpec == TransferInit /\ [][TransferNext]_transferVars
=============================================================================
