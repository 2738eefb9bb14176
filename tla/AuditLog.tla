------------------------------- MODULE AuditLog -------------------------------
(***************************************************************************)
(* The hash-chained audit log: broker/audit.py.  Every guarded operation is  *)
(* recorded, the checkpoint sidecar <path>.head is rewritten, and only then  *)
(* the operation runs.                                                      *)
(*                                                                         *)
(* Records are numbered in the order of the calls; the number stands for the *)
(* record's content and for its hash, which the code computes over the       *)
(* content alone (two records that agree in every field, the timestamp        *)
(* included, are not told apart by the code; here all records differ).  The   *)
(* process is sequential, so what can come between two steps of one call is   *)
(* a failing write or the end of the process.                               *)
(***************************************************************************)
EXTENDS Integers, Sequences

CONSTANTS
  MaxRecords,      \* bound on the calls of record()
  MaxFaults        \* bound on failing writes, crashes and losses

ASSUME AuditAssumption == MaxRecords \in Nat /\ MaxFaults \in Nat

VARIABLES
  file,   \* the lines of the log
  open,   \* the last line has no newline yet
  head,   \* the sidecar
  chain,  \* _prev_sha256 and _lines, in memory
  pc,     \* where the process is in record()
  calls,  \* how many records were ever attempted
  done,   \* the operations that ran
  torn,    \* history: a write that failed or was cut left something behind
  lost,    \* history: the log lost its tail, by a hand or a file system
  resumed, \* history: the broker was started on a log that had lost its tail
  faults

historyVars == <<torn, lost, resumed>>

auditVars == <<file, open, head, chain, pc, calls, done, historyVars, faults>>

GENESIS == 0

NoHead == [sha |-> GENESIS, lines |-> -1]
TornHead == [sha |-> GENESIS, lines |-> -2]

\* A line that is one JSON object, or something that no longer parses.
Line == [rec : 1..MaxRecords, prev : 0..MaxRecords, whole : BOOLEAN]

Torn(line) == [line EXCEPT !.whole = FALSE]

Entry == [rec |-> calls + 1, prev |-> chain.sha, whole |-> TRUE]

\* Text appended to a line without newline makes one unreadable line of both.
AppendText(line) ==
  file' = IF open THEN [file EXCEPT ![Len(file)] = Torn(@)] ELSE Append(file, line)

-----------------------------------------------------------------------------
(* verify_chain *)

ShaAt(i) == IF i = 0 THEN GENESIS ELSE file[i].rec

WalkOK == \A i \in DOMAIN file : file[i].whole /\ file[i].prev = ShaAt(i - 1)

\* A missing sidecar is not compared; an unreadable one is a break.
HeadOK == head = NoHead \/ head = [sha |-> ShaAt(Len(file)), lines |-> Len(file)]

\* Mutant: the sidecar is not compared.
VerifyChain_NoHead == WalkOK

VerifyChain == WalkOK /\ HeadOK

-----------------------------------------------------------------------------
AuditInit ==
  /\ file = <<>>
  /\ open = FALSE
  /\ head = NoHead
  /\ chain = [sha |-> GENESIS, lines |-> 0]
  /\ pc = "down"
  /\ calls = 0
  /\ done = {}
  /\ torn = FALSE
  /\ lost = FALSE
  /\ resumed = FALSE
  /\ faults = 0

Fault ==
  /\ faults < MaxFaults
  /\ faults' = faults + 1

\* AuditLog(): the chain resumes from the last line, whatever the sidecar says;
\* an unreadable last line keeps the broker from starting.
Start ==
  /\ pc = "down"
  /\ file # <<>> => file[Len(file)].whole
  /\ chain' = [sha |-> ShaAt(Len(file)), lines |-> Len(file)]
  /\ pc' = "idle"
  /\ resumed' = (resumed \/ lost)
  /\ UNCHANGED <<file, open, head, calls, done, torn, lost, faults>>

\* record(): the line is written, flushed and synced.
AppendRecord ==
  /\ pc = "idle"
  /\ calls < MaxRecords
  /\ AppendText(Entry)
  /\ open' = FALSE
  /\ chain' = [sha |-> Entry.rec, lines |-> chain.lines + 1]
  /\ calls' = calls + 1
  /\ pc' = "appended"
  /\ UNCHANGED <<head, done, historyVars, faults>>

\* Mutant: the OSError is swallowed and record() goes on.
AppendFails_Swallowed ==
  /\ pc = "idle"
  /\ calls < MaxRecords
  /\ Fault
  /\ chain' = [sha |-> Entry.rec, lines |-> chain.lines + 1]
  /\ calls' = calls + 1
  /\ pc' = "appended"
  /\ UNCHANGED <<file, open, head, done, historyVars>>

\* The write raises OSError: LogWriteError, the chain stays where it was.  The
\* file may have kept a part of the line, or all of it when the sync failed.
AppendFails ==
  /\ pc = "idle"
  /\ calls < MaxRecords
  /\ Fault
  /\ \/ UNCHANGED <<file, open, torn>>
     \/ AppendText(Torn(Entry)) /\ open' = TRUE /\ torn' = TRUE
     \/ AppendText(Entry) /\ open' = FALSE /\ torn' = TRUE
  /\ calls' = calls + 1
  /\ UNCHANGED <<head, chain, pc, done, lost, resumed>>

\* Mutant: the sidecar is written with the head before this record.
Checkpoint_Stale ==
  /\ pc = "appended"
  /\ head' = [sha |-> ShaAt(Len(file) - 1), lines |-> Len(file) - 1]
  /\ pc' = "recorded"
  /\ UNCHANGED <<file, open, chain, calls, done, historyVars, faults>>

\* The sidecar is rewritten.
Checkpoint ==
  /\ pc = "appended"
  /\ head' = chain
  /\ pc' = "recorded"
  /\ UNCHANGED <<file, open, chain, calls, done, historyVars, faults>>

\* The sidecar cannot be opened, or it was emptied and could not be written:
\* LogWriteError, the operation does not run.
CheckpointFails ==
  /\ pc = "appended"
  /\ Fault
  /\ head' \in {head, TornHead}
  /\ pc' = "idle"
  /\ UNCHANGED <<file, open, chain, calls, done, historyVars>>

\* then(): the operation runs; a record without one (a refusal) just returns.
Operate ==
  /\ pc = "recorded"
  /\ done' \in {done, done \cup {chain.sha}}
  /\ pc' = "idle"
  /\ UNCHANGED <<file, open, head, chain, calls, historyVars, faults>>

\* The process ends, possibly in the middle of a write.
Crash ==
  /\ pc # "down"
  /\ Fault
  /\ \/ UNCHANGED <<file, open, head, calls, torn>>
     \/ /\ pc = "idle" /\ calls < MaxRecords
        /\ calls' = calls + 1
        /\ AppendText(Torn(Entry)) \/ AppendText(Entry)
        /\ open' = TRUE
        /\ torn' = TRUE
        /\ UNCHANGED head
     \/ /\ pc = "appended"
        /\ head' = TornHead
        /\ UNCHANGED <<file, open, calls, torn>>
  /\ pc' = "down"
  /\ UNCHANGED <<chain, done, lost, resumed>>

\* The log file loses its last lines (external).
LoseTail ==
  /\ Fault
  /\ \E n \in 0..(Len(file) - 1) : file' = SubSeq(file, 1, n)
  /\ open' = FALSE
  /\ lost' = TRUE
  /\ UNCHANGED <<head, chain, pc, calls, done, torn, resumed>>

AuditNext ==
  \/ Start \/ AppendRecord \/ AppendFails \/ Checkpoint \/ CheckpointFails
  \/ Operate \/ Crash \/ LoseTail

AuditSpec == AuditInit /\ [][AuditNext]_auditVars

-----------------------------------------------------------------------------
(* Properties *)

Recorded == {file[i].rec : i \in {j \in DOMAIN file : file[j].whole}}

\* Type invariant of the log.
AuditTypeOK ==
  /\ file \in Seq(Line)
  /\ open \in BOOLEAN
  /\ head \in [sha : 0..MaxRecords, lines : -2..MaxRecords]
  /\ chain \in [sha : 0..MaxRecords, lines : 0..MaxRecords]
  /\ pc \in {"down", "idle", "appended", "recorded"}
  /\ calls \in 0..MaxRecords
  /\ done \subseteq 1..MaxRecords
  /\ {torn, lost, resumed} \subseteq BOOLEAN
  /\ faults \in 0..MaxFaults

\* The wall does not operate unobserved: an operation that ran left a readable
\* record, after any sequence of failed appends, failed checkpoints, crashes and
\* restarts, as long as no failed write left text in the file (audit.py:5-9).
\* The log keeps its shape throughout.
OperatedIsRecorded ==
  /\ AuditTypeOK
  /\ ~lost /\ ~torn => done \subseteq Recorded

\* A chain that passes verify_chain misses no operation that ran: a tail that was
\* lost, or a record spoilt by the part of a line before it, is detected, and
\* stays detected while the process keeps appending (audit.py:29-33).  Starting
\* the broker on a log that lost its tail forgets the loss: Start trusts the
\* last line and not the sidecar.
LossIsDetected == ~resumed /\ VerifyChain => done \subseteq Recorded

\* The log heals: whatever went wrong before - a checkpoint that failed, a crash
\* between the two writes - verify_chain passes again at the moment the next
\* operation is allowed to run.
OperatesOnAVerifiedChain == pc = "recorded" /\ ~lost /\ ~torn => VerifyChain

\* audit.py:97-98: a broken chain is never silently extended.
BrokenIsNeverExtended ==
  [][~WalkOK => file' = file \/ Len(file') < Len(file)]_auditVars
=============================================================================
