---------------------------- MODULE AuditLog_proofs ----------------------------
(***************************************************************************)
(* The audit log keeps what it promises for any number of records, failing    *)
(* writes, crashes, losses and restarts.                                     *)
(***************************************************************************)
EXTENDS AuditLog, SequenceTheorems, TLAPS

\* Records are numbered by the calls, and none is ahead of them.
Numbered ==
  /\ open => file # <<>>
  /\ Len(file) <= calls /\ chain.lines <= calls /\ chain.sha <= calls
  /\ \A i \in DOMAIN file : file[i].rec <= calls
  /\ \A d \in done : d <= calls

\* Inside record() the head in memory is the record of this call, and the sidecar
\* agrees with it before the operation runs.
Working ==
  /\ pc \in {"appended", "recorded"} => calls > 0 /\ chain.sha = calls
  /\ pc = "recorded" => head = chain
  /\ head = NoHead => done = {}

\* While no write left text behind and nothing was lost, memory and file agree.
Intact ==
  ~lost /\ ~torn =>
    /\ ~open
    /\ WalkOK
    /\ done \subseteq Recorded
    /\ pc # "down" => chain = [sha |-> ShaAt(Len(file)), lines |-> Len(file)]

\* The last line is unreadable, or no older than what was recorded.
LastReaches(r) ==
  file # <<>> /\ (~file[Len(file)].whole \/ r <= file[Len(file)].rec)

LastIsNewest ==
  ~lost =>
    /\ pc \in {"appended", "recorded"} => LastReaches(chain.sha)
    /\ \A d \in done : LastReaches(d)

\* The lines up to i are readable and linked.
SoundTo(i) == \A j \in 1..i : file[j].whole /\ file[j].prev = ShaAt(j - 1)

\* What was done before the record of a line has its record before that line,
\* unless the chain is broken on the way there.
Ordered ==
  \A i \in DOMAIN file : SoundTo(i) =>
    \A d \in done : d < file[i].rec => \E j \in 1..i : file[j].rec = d

\* Neither the head in memory nor the sidecar is older than what was done.
HeadsAreNewest ==
  /\ pc # "down" => \A d \in done : d <= chain.sha
  /\ head.lines >= 0 => \A d \in done : d <= head.sha

AInv ==
  /\ AuditTypeOK
  /\ Numbered
  /\ Working
  /\ Intact
  /\ LastIsNewest
  /\ ~resumed => Ordered /\ HeadsAreNewest

-----------------------------------------------------------------------------
(* The file *)

\* The log is a sequence of lines.
LEMMA LinesOK ==
  ASSUME AuditTypeOK
  PROVE  /\ file \in Seq(Line) /\ Len(file) \in Nat /\ DOMAIN file = 1..Len(file)
         /\ file # <<>> <=> Len(file) > 0
         /\ \A i \in 1..Len(file) : /\ file[i] \in Line
                                    /\ file[i].rec \in Nat /\ file[i].rec > 0
                                    /\ file[i].prev \in Nat
                                    /\ file[i].whole \in BOOLEAN
<1>1. file \in Seq(Line)
  BY DEF AuditTypeOK
<1>2. Len(file) \in Nat /\ DOMAIN file = 1..Len(file)
  BY <1>1, LenProperties
<1>3. file # <<>> <=> Len(file) > 0
  BY <1>1, EmptySeq
<1>4. ASSUME NEW i \in 1..Len(file)
      PROVE  file[i] \in Line
  BY <1>1
<1>5. ASSUME NEW line \in Line
      PROVE  line.rec \in Nat /\ line.rec > 0 /\ line.prev \in Nat /\ line.whole \in BOOLEAN
  <2>1. line.rec \in 1..MaxRecords /\ line.prev \in 0..MaxRecords /\ line.whole \in BOOLEAN
    BY DEF Line
  <2> QED
    BY <2>1, AuditAssumption
<1> QED
  BY <1>1, <1>2, <1>3, <1>4, <1>5

\* A spoilt line is a line.
LEMMA TornOK ==
  ASSUME NEW line \in Line
  PROVE  /\ Torn(line) \in Line /\ ~Torn(line).whole
         /\ Torn(line).rec = line.rec /\ Torn(line).prev = line.prev
BY DEF Torn, Line

\* What AppendText does to the lines: one more, or the last one spoilt.
Grown(line) ==
  /\ Len(file') = Len(file) + 1
  /\ file'[Len(file) + 1] = line
  /\ \A i \in 1..Len(file) : file'[i] = file[i]

Spoilt ==
  /\ Len(file) > 0
  /\ Len(file') = Len(file)
  /\ ~file'[Len(file)].whole
  /\ file'[Len(file)].rec = file[Len(file)].rec
  /\ \A i \in 1..(Len(file) - 1) : file'[i] = file[i]

LEMMA TextAppended ==
  ASSUME AuditTypeOK, Numbered, NEW line \in Line, AppendText(line)
  PROVE  /\ file' \in Seq(Line) /\ file' # <<>>
         /\ DOMAIN file' = 1..Len(file') /\ Len(file') \in Nat
         /\ ~open => Grown(line)
         /\ open => Spoilt
<1>1. CASE ~open
  <2>1. file' = Append(file, line)
    BY <1>1 DEF AppendText
  <2>2. file' \in Seq(Line) /\ file' # <<>> /\ Grown(line)
    BY <2>1, LinesOK, AppendProperties DEF Grown
  <2> QED
    BY <1>1, <2>2, LenProperties
<1>2. CASE open
  <2> DEFINE n == Len(file)
             spoilt == Torn(file[n])
  <2>1. file' = [file EXCEPT ![n] = spoilt]
    BY <1>2 DEF AppendText
  <2>2. n \in 1..n /\ n \in Nat
    BY <1>2, LinesOK DEF Numbered
  <2>3. spoilt \in Line /\ ~spoilt.whole /\ spoilt.rec = file[n].rec
    BY <2>2, LinesOK, TornOK
  <2> HIDE DEF spoilt
  <2>4. /\ file' \in Seq(Line) /\ Len(file') = n
        /\ \A j \in 1..n : file'[j] = IF j = n THEN spoilt ELSE file[j]
    BY <2>1, <2>2, <2>3, LinesOK, ExceptSeq
  <2>5. file'[n] = spoilt /\ \A j \in 1..(n - 1) : file'[j] = file[j]
    BY <2>2, <2>4
  <2>6. file' # <<>>
    BY <2>2, <2>4, EmptySeq
  <2>7. Spoilt
    BY <2>2, <2>3, <2>4, <2>5 DEF Spoilt
  <2> QED
    BY <1>2, <2>4, <2>6, <2>7, LenProperties
<1> QED
  BY <1>1, <1>2

\* A line that is left alone keeps the soundness of the lines up to it.
LEMMA SameSoundness ==
  ASSUME NEW i \in Nat, \A j \in 1..i : file'[j] = file[j]
  PROVE  SoundTo(i)' <=> SoundTo(i)
<1>1. \A j \in 1..i : ShaAt(j - 1)' = ShaAt(j - 1)
  BY DEF ShaAt
<1> QED
  BY <1>1 DEF SoundTo

\* A sound file whose last record is the head in memory misses nothing done.
LEMMA SoundMissesNothing ==
  ASSUME AuditTypeOK, Ordered, SoundTo(Len(file)), NEW head0,
         head0 = ShaAt(Len(file)), \A d \in done : d <= head0
  PROVE  \A d \in done : \E j \in DOMAIN file : file[j].rec = d
<1>1. DOMAIN file = 1..Len(file) /\ Len(file) \in Nat /\ done \subseteq 1..MaxRecords
  BY LinesOK DEF AuditTypeOK
<1> SUFFICES ASSUME NEW d \in done PROVE \E j \in DOMAIN file : file[j].rec = d
  OBVIOUS
<1>2. d \in Nat /\ d > 0 /\ d <= head0
  BY <1>1, AuditAssumption
<1>3. Len(file) # 0
  BY <1>2 DEF ShaAt, GENESIS
<1>4. Len(file) \in DOMAIN file /\ head0 = file[Len(file)].rec
  BY <1>1, <1>3 DEF ShaAt
<1>5. CASE d = head0
  BY <1>4, <1>5
<1>6. CASE d < head0
  BY <1>1, <1>4, <1>6 DEF Ordered
<1>7. head0 \in Nat
  BY <1>1, <1>4, LinesOK
<1> QED
  BY <1>2, <1>5, <1>6, <1>7

\* Text that record() leaves behind, whole or in part, comes after everything
\* that was done.
LEMMA AppendingKeepsOrder ==
  ASSUME AInv, pc = "idle", calls < MaxRecords,
         NEW line \in Line, line.rec = calls + 1, line.prev = chain.sha,
         AppendText(line), calls' = calls + 1, done' = done
  PROVE  /\ Len(file') <= calls'
         /\ \A i \in DOMAIN file' : file'[i].rec <= calls'
         /\ file' # <<>>
         /\ ~file'[Len(file')].whole \/ file'[Len(file')].rec = calls + 1
         /\ ~resumed => Ordered'
<1> DEFINE n == Len(file)
<1>1. /\ file \in Seq(Line) /\ n \in Nat /\ DOMAIN file = 1..n
      /\ calls \in Nat /\ done \subseteq 1..calls /\ n <= calls
      /\ \A i \in 1..n : file[i] \in Line /\ file[i].rec \in Nat /\ file[i].rec <= calls
  <2>1. calls \in Nat /\ done \subseteq 1..MaxRecords
    BY AuditAssumption DEF AInv, AuditTypeOK
  <2>2. done \subseteq 1..calls
    BY <2>1, AuditAssumption DEF AInv, Numbered
  <2>3. n <= calls /\ \A i \in 1..n : file[i].rec <= calls
    BY LinesOK DEF AInv, Numbered
  <2> QED
    BY <2>1, <2>2, <2>3, LinesOK DEF AInv
<1>2. /\ file' \in Seq(Line) /\ file' # <<>>
      /\ DOMAIN file' = 1..Len(file') /\ Len(file') \in Nat
      /\ ~open => Grown(line)
      /\ open => Spoilt
  BY TextAppended DEF AInv
<1>3. CASE Grown(line)
  <2>1. /\ Len(file') = n + 1 /\ file'[n + 1] = line
        /\ \A i \in 1..n : file'[i] = file[i]
    BY <1>3 DEF Grown
  <2>2. Len(file') <= calls' /\ \A i \in 1..Len(file') : file'[i].rec <= calls'
    BY <1>1, <2>1
  <2>3. ASSUME ~resumed, NEW i \in 1..Len(file'), SoundTo(i)',
               NEW d \in done, d < file'[i].rec
        PROVE  \E j \in 1..i : file'[j].rec = d
    <3>1. CASE i \in 1..n
      <4>1. SoundTo(i)
        BY <1>1, <2>1, <2>3, <3>1, SameSoundness
      <4>2. PICK j \in 1..i : file[j].rec = d
        BY <1>1, <2>1, <2>3, <3>1, <4>1 DEF AInv, Ordered
      <4> QED
        BY <1>1, <2>1, <3>1, <4>2
    <3>2. CASE i = n + 1
      <4>1. SoundTo(i - 1)' /\ file'[i].prev = ShaAt(i - 1)'
        BY <2>3 DEF SoundTo
      <4>2. i - 1 = n /\ i - 1 \in Nat /\ \A j \in 1..(i - 1) : file'[j] = file[j]
        BY <1>1, <2>1, <3>2
      <4>3. SoundTo(n)
        BY <4>1, <4>2, SameSoundness
      <4>4. ShaAt(i - 1)' = ShaAt(i - 1)
        BY <4>2 DEF ShaAt
      <4>5. chain.sha = ShaAt(n)
        BY <2>1, <3>2, <4>1, <4>2, <4>4
      <4>6. PICK j \in DOMAIN file : file[j].rec = d
        BY <2>3, <4>3, <4>5, SoundMissesNothing DEF AInv, HeadsAreNewest
      <4> QED
        BY <1>1, <2>1, <3>2, <4>6
    <3> QED
      BY <1>1, <2>1, <3>1, <3>2
  <2> QED
    BY <1>2, <2>1, <2>2, <2>3 DEF Ordered
<1>4. CASE Spoilt
  <2>1. /\ n > 0 /\ Len(file') = n /\ ~file'[n].whole /\ file'[n].rec = file[n].rec
        /\ \A i \in 1..(n - 1) : file'[i] = file[i]
    BY <1>4 DEF Spoilt
  <2>2. \A i \in 1..n : file'[i].rec = file[i].rec
    BY <1>1, <2>1
  <2>3. Len(file') <= calls' /\ \A i \in 1..Len(file') : file'[i].rec <= calls'
    BY <1>1, <2>1, <2>2
  <2>4. ASSUME ~resumed, NEW i \in 1..Len(file'), SoundTo(i)',
               NEW d \in done, d < file'[i].rec
        PROVE  \E j \in 1..i : file'[j].rec = d
    <3>1. i # n
      BY <1>1, <2>1, <2>4 DEF SoundTo
    <3>2. i \in 1..(n - 1) /\ i \in 1..n /\ i \in Nat
      <4>1. n \in Nat /\ Len(file') = n
        BY <1>1, <2>1
      <4>2. i \in 1..n
        BY <4>1
      <4> QED
        BY <3>1, <4>1, <4>2
    <3>3. \A j \in 1..i : file'[j] = file[j]
      BY <1>1, <2>1, <3>2
    <3>4. SoundTo(i)
      BY <2>4, <3>2, <3>3, SameSoundness
    <3>5. PICK j \in 1..i : file[j].rec = d
      BY <1>1, <2>2, <2>4, <3>2, <3>4 DEF AInv, Ordered
    <3> QED
      BY <3>3, <3>5
  <2> QED
    BY <1>2, <2>1, <2>3, <2>4 DEF Ordered
<1> QED
  BY <1>2, <1>3, <1>4

\* A line that is linked to the last one keeps the log sound and forgets nothing.
LEMMA GrownIsSound ==
  ASSUME AuditTypeOK, NEW line \in Line, file' \in Seq(Line), Grown(line),
         WalkOK, line.whole, line.prev = ShaAt(Len(file))
  PROVE  /\ WalkOK' /\ Recorded \subseteq Recorded'
         /\ ShaAt(Len(file))' = line.rec
<1> DEFINE n == Len(file)
<1>1. /\ n \in Nat /\ DOMAIN file = 1..n /\ DOMAIN file' = 1..(n + 1)
      /\ Len(file') = n + 1 /\ file'[n + 1] = line
      /\ \A i \in 1..n : file'[i] = file[i]
  BY LinesOK, LenProperties DEF Grown
<1>2. ASSUME NEW i \in 1..(n + 1)
      PROVE  file'[i].whole /\ file'[i].prev = ShaAt(i - 1)'
  <2>1. ShaAt(i - 1)' = ShaAt(i - 1)
    BY <1>1 DEF ShaAt
  <2>2. CASE i \in 1..n
    BY <1>1, <2>1, <2>2 DEF WalkOK
  <2>3. CASE i = n + 1
    BY <1>1, <2>1, <2>3
  <2> QED
    BY <1>1, <2>2, <2>3
<1>3. WalkOK'
  BY <1>1, <1>2 DEF WalkOK
<1>4. Recorded \subseteq Recorded'
  BY <1>1 DEF Recorded
<1> QED
  BY <1>1, <1>3, <1>4 DEF ShaAt

-----------------------------------------------------------------------------
(* The invariant *)

LEMMA AuditInvInit == AuditInit => AInv
<1> SUFFICES ASSUME AuditInit PROVE AInv
  OBVIOUS
<1>1. AuditTypeOK
  <2>1. /\ NoHead \in [sha : 0..MaxRecords, lines : -2..MaxRecords]
        /\ [sha |-> GENESIS, lines |-> 0] \in [sha : 0..MaxRecords, lines : 0..MaxRecords]
    BY AuditAssumption DEF NoHead, GENESIS
  <2>2. torn \in BOOLEAN /\ lost \in BOOLEAN /\ resumed \in BOOLEAN
    BY DEF AuditInit
  <2>3. calls \in 0..MaxRecords /\ faults \in 0..MaxFaults /\ done \subseteq 1..MaxRecords
    BY AuditAssumption DEF AuditInit
  <2>4. file \in Seq(Line)
    BY EmptySeq DEF AuditInit
  <2> QED
    BY <2>1, <2>2, <2>3, <2>4 DEF AuditInit, AuditTypeOK
<1>2. Numbered /\ Working /\ LastIsNewest /\ Ordered /\ HeadsAreNewest
  BY DEF AuditInit, Numbered, Working, LastIsNewest, Ordered, HeadsAreNewest, GENESIS
<1>3. Intact
  BY DEF AuditInit, Intact, WalkOK, Recorded
<1> QED
  BY <1>1, <1>2, <1>3 DEF AInv

\* A step that leaves the file and what was done alone.
LEMMA KeptFile ==
  ASSUME AInv, file' = file, open' = open, done' = done
  PROVE  /\ WalkOK' <=> WalkOK
         /\ Recorded' = Recorded
         /\ ShaAt(Len(file))' = ShaAt(Len(file))
         /\ \A r : LastReaches(r)' <=> LastReaches(r)
         /\ Ordered' <=> Ordered
<1>1. \A i : ShaAt(i)' = ShaAt(i)
  BY DEF ShaAt
<1>2. \A i : SoundTo(i)' <=> SoundTo(i)
  BY <1>1 DEF SoundTo
<1> QED
  BY <1>1, <1>2 DEF WalkOK, Recorded, LastReaches, Ordered, ShaAt

LEMMA StartStep == AInv /\ Start => AInv'
<1> SUFFICES ASSUME AInv, Start PROVE AInv'
  OBVIOUS
<1> DEFINE n == Len(file)
<1>1. /\ pc = "down" /\ pc' = "idle"
      /\ chain' = [sha |-> ShaAt(n), lines |-> n]
      /\ resumed' = (resumed \/ lost)
      /\ UNCHANGED <<file, open, head, calls, done, torn, lost, faults>>
      /\ file # <<>> => file[n].whole
  BY DEF Start
<1>2. ShaAt(n) \in 0..MaxRecords /\ n \in 0..MaxRecords /\ n <= calls /\ ShaAt(n) <= calls
  <2>1. n \in Nat /\ n <= calls /\ calls \in 0..MaxRecords
    BY LinesOK DEF AInv, Numbered, AuditTypeOK
  <2>2. CASE n = 0
    BY <2>1, <2>2, AuditAssumption DEF ShaAt, GENESIS
  <2>3. CASE n # 0
    <3>1. n \in 1..n /\ ShaAt(n) = file[n].rec
      BY <2>1, <2>3 DEF ShaAt
    <3>2. file[n].rec \in Nat /\ file[n].rec <= calls
      BY <3>1, LinesOK DEF AInv, Numbered
    <3> QED
      BY <2>1, <3>1, <3>2, AuditAssumption
  <2> QED
    BY <2>2, <2>3
<1>3. AuditTypeOK'
  <2>1. {torn', lost', resumed'} \subseteq BOOLEAN
    BY <1>1 DEF AInv, AuditTypeOK
  <2> QED
    BY <1>1, <1>2, <2>1 DEF AInv, AuditTypeOK, Line
<1>4. Numbered' /\ Working'
  BY <1>1, <1>2 DEF AInv, Numbered, Working
<1>5. Intact'
  BY <1>1, KeptFile DEF AInv, Intact, ShaAt
<1>6. LastIsNewest'
  BY <1>1, KeptFile DEF AInv, LastIsNewest
<1>7. ASSUME ~resumed'
      PROVE  Ordered' /\ HeadsAreNewest'
  <2>1. ~resumed /\ ~lost
    BY <1>1, <1>7
  <2>2. \A d \in done : n > 0 /\ d <= ShaAt(n)
    BY <1>1, <2>1, LinesOK DEF AInv, LastIsNewest, LastReaches, ShaAt
  <2> QED
    BY <1>1, <2>1, <2>2, KeptFile DEF AInv, HeadsAreNewest
<1> QED
  BY <1>3, <1>4, <1>5, <1>6, <1>7 DEF AInv

LEMMA CheckpointStep == AInv /\ (Checkpoint \/ CheckpointFails) => AInv'
<1> SUFFICES ASSUME AInv, Checkpoint \/ CheckpointFails PROVE AInv'
  OBVIOUS
<1>1. /\ pc = "appended" /\ UNCHANGED <<file, open, chain, calls, done, historyVars>>
      /\ \/ head' = chain /\ pc' = "recorded" /\ faults' = faults
         \/ head' \in {head, TornHead} /\ pc' = "idle" /\ Fault
  BY DEF Checkpoint, CheckpointFails
<1>2. /\ chain.sha \in 0..MaxRecords /\ chain.lines \in 0..MaxRecords
      /\ chain \in [sha : 0..MaxRecords, lines : 0..MaxRecords]
      /\ head.lines \in -2..MaxRecords
      /\ \A d \in done : d \in Nat
  BY AuditAssumption DEF AInv, AuditTypeOK
<1>3. AuditTypeOK'
  <2>1. chain \in [sha : 0..MaxRecords, lines : -2..MaxRecords]
    BY <1>2, AuditAssumption
  <2>2. TornHead \in [sha : 0..MaxRecords, lines : -2..MaxRecords]
    BY AuditAssumption DEF TornHead, GENESIS
  <2>3. head' \in [sha : 0..MaxRecords, lines : -2..MaxRecords]
    BY <1>1, <2>1, <2>2 DEF AInv, AuditTypeOK
  <2>4. faults' \in 0..MaxFaults
    BY <1>1, AuditAssumption DEF AInv, AuditTypeOK, Fault
  <2> QED
    BY <1>1, <2>3, <2>4 DEF AInv, AuditTypeOK, historyVars, Line
<1>4. Numbered' /\ LastIsNewest' /\ Intact'
  BY <1>1, KeptFile
  DEF AInv, Numbered, LastIsNewest, Intact, historyVars, ShaAt
<1>5. Working'
  <2>1. head' = NoHead => head = NoHead
    BY <1>1, <1>2 DEF NoHead, TornHead
  <2> QED
    BY <1>1, <2>1 DEF AInv, Working
<1>6. ASSUME ~resumed'
      PROVE  Ordered' /\ HeadsAreNewest'
  BY <1>1, <1>6, KeptFile DEF AInv, HeadsAreNewest, historyVars, TornHead
<1> QED
  BY <1>3, <1>4, <1>5, <1>6 DEF AInv

\* The operation runs: its record is the last line, and the newest.
LEMMA OperateStep == AInv /\ Operate => AInv'
<1> SUFFICES ASSUME AInv, Operate PROVE AInv'
  OBVIOUS
<1>1. /\ pc = "recorded" /\ pc' = "idle" /\ done' \in {done, done \cup {chain.sha}}
      /\ UNCHANGED <<file, open, head, chain, calls, historyVars, faults>>
      /\ calls > 0 /\ chain.sha = calls /\ head = chain /\ calls \in 0..MaxRecords
      /\ UNCHANGED <<torn, lost, resumed>>
  BY DEF Operate, AInv, Working, AuditTypeOK, historyVars
<1>2. \A d \in done' : d \in 1..MaxRecords /\ d <= calls
  BY <1>1, AuditAssumption DEF AInv, AuditTypeOK, Numbered
<1>3. AuditTypeOK'
  BY <1>1, <1>2 DEF AInv, AuditTypeOK, historyVars, Line
<1>4. head' # NoHead
  BY <1>1 DEF AInv, AuditTypeOK, NoHead
<1>5. Numbered' /\ Working'
  BY <1>1, <1>2, <1>4 DEF AInv, Numbered, Working
<1>6. LastIsNewest'
  <2>1. \A r : LastReaches(r)' <=> LastReaches(r)
    BY <1>1 DEF LastReaches
  <2> QED
    BY <1>1, <2>1 DEF AInv, LastIsNewest
<1>7. Intact'
  <2> SUFFICES ASSUME ~lost, ~torn
               PROVE  ~open /\ WalkOK' /\ done' \subseteq Recorded'
                      /\ chain' = [sha |-> ShaAt(Len(file)), lines |-> Len(file)]'
    BY <1>1 DEF Intact
  <2>1. /\ ~open /\ WalkOK /\ done \subseteq Recorded
        /\ chain = [sha |-> ShaAt(Len(file)), lines |-> Len(file)]
    BY <1>1 DEF AInv, Intact
  <2>2. WalkOK' /\ Recorded' = Recorded
        /\ chain' = [sha |-> ShaAt(Len(file)), lines |-> Len(file)]'
    BY <1>1, <2>1 DEF WalkOK, Recorded, ShaAt
  <2>3. Len(file) # 0 /\ chain.sha = file[Len(file)].rec
    BY <1>1, <2>1 DEF ShaAt, GENESIS
  <2>4. chain.sha \in Recorded
    BY <2>1, <2>3, LinesOK DEF AInv, Recorded, WalkOK
  <2> QED
    BY <1>1, <2>1, <2>2, <2>4
<1>8. ASSUME ~resumed'
      PROVE  Ordered' /\ HeadsAreNewest'
  <2>1. HeadsAreNewest'
    BY <1>1, <1>2 DEF HeadsAreNewest
  <2>2. \A i : SoundTo(i)' <=> SoundTo(i)
    BY <1>1 DEF SoundTo, ShaAt
  <2>3. \A i \in DOMAIN file : file[i].rec <= calls /\ file[i].rec \in Nat
    BY LinesOK DEF AInv, Numbered
  <2>4. Ordered'
    <3> SUFFICES ASSUME NEW i \in DOMAIN file, SoundTo(i), NEW d \in done', d < file[i].rec
                 PROVE  \E j \in 1..i : file[j].rec = d
      BY <1>1, <2>2 DEF Ordered
    <3>1. d \in done
      BY <1>1, <2>3
    <3> QED
      BY <1>1, <1>8, <3>1 DEF AInv, Ordered
  <2> QED
    BY <2>1, <2>4
<1> QED
  BY <1>3, <1>5, <1>6, <1>7, <1>8 DEF AInv

\* The line of this call.
LEMMA EntryOK ==
  ASSUME AuditTypeOK, Numbered, calls < MaxRecords
  PROVE  /\ Entry \in Line /\ Entry.rec = calls + 1 /\ Entry.prev = chain.sha /\ Entry.whole
         /\ Torn(Entry) \in Line /\ Torn(Entry).rec = calls + 1
         /\ Torn(Entry).prev = chain.sha
         /\ calls \in Nat /\ calls + 1 \in 0..MaxRecords
<1>1. calls + 1 \in 1..MaxRecords /\ chain.sha \in 0..MaxRecords /\ calls \in Nat
  BY AuditAssumption DEF AuditTypeOK
<1>2. Entry \in Line /\ Entry.rec = calls + 1 /\ Entry.prev = chain.sha /\ Entry.whole
  BY <1>1 DEF Entry, Line
<1> QED
  BY <1>1, <1>2, TornOK

LEMMA AppendStep == AInv /\ AppendRecord => AInv'
<1> SUFFICES ASSUME AInv, AppendRecord PROVE AInv'
  OBVIOUS
<1> DEFINE n == Len(file)
<1>1. /\ pc = "idle" /\ calls < MaxRecords /\ AppendText(Entry) /\ open' = FALSE
      /\ chain' = [sha |-> Entry.rec, lines |-> chain.lines + 1]
      /\ calls' = calls + 1 /\ pc' = "appended"
      /\ UNCHANGED <<head, done, torn, lost, resumed, faults>>
      /\ AuditTypeOK /\ Numbered /\ Working
  BY DEF AppendRecord, AInv, historyVars
<1>2. /\ Entry \in Line /\ Entry.rec = calls + 1 /\ Entry.prev = chain.sha /\ Entry.whole
      /\ calls \in Nat /\ calls + 1 \in 0..MaxRecords
  BY <1>1, EntryOK
<1>3. file' \in Seq(Line) /\ file' # <<>> /\ (~open => Grown(Entry))
  BY <1>1, <1>2, TextAppended
<1>4. /\ Len(file') <= calls'
      /\ \A i \in DOMAIN file' : file'[i].rec <= calls'
      /\ ~file'[Len(file')].whole \/ file'[Len(file')].rec = calls + 1
      /\ ~resumed => Ordered'
  BY <1>1, <1>2, AppendingKeepsOrder
<1>5. /\ chain.lines \in Nat /\ chain.lines <= calls
      /\ \A d \in done : d \in Nat /\ d <= calls
  <2>1. chain.lines \in Nat /\ \A d \in done : d \in Nat
    BY AuditAssumption DEF AInv, AuditTypeOK
  <2> QED
    BY <2>1 DEF AInv, Numbered
<1>6. /\ chain' \in [sha : 0..MaxRecords, lines : 0..MaxRecords]
      /\ chain'.sha = calls + 1 /\ chain'.lines <= calls + 1
  BY <1>1, <1>2, <1>5, AuditAssumption
<1>7. AuditTypeOK'
  BY <1>1, <1>2, <1>3, <1>6 DEF AuditTypeOK, Line
<1>8. Numbered' /\ Working'
  BY <1>1, <1>2, <1>3, <1>4, <1>5, <1>6 DEF Numbered, Working
<1>9. ~resumed => HeadsAreNewest'
  BY <1>1, <1>2, <1>5, <1>6 DEF AInv, HeadsAreNewest
<1>10. LastIsNewest'
  BY <1>1, <1>2, <1>3, <1>4, <1>5, <1>6 DEF LastIsNewest, LastReaches
<1>11. Intact'
  <2> SUFFICES ASSUME ~lost, ~torn
               PROVE  /\ WalkOK' /\ done \subseteq Recorded'
                      /\ chain' = [sha |-> ShaAt(Len(file)), lines |-> Len(file)]'
    BY <1>1 DEF Intact
  <2>1. /\ ~open /\ WalkOK /\ done \subseteq Recorded
        /\ chain = [sha |-> ShaAt(n), lines |-> n]
    BY <1>1 DEF AInv, Intact
  <2>2. WalkOK' /\ Recorded \subseteq Recorded'
    BY <1>1, <1>2, <1>3, <2>1, GrownIsSound
  <2>3. Len(file') = n + 1 /\ file'[n + 1] = Entry /\ n \in Nat
    BY <1>1, <1>3, <2>1, LinesOK DEF Grown
  <2>4. ShaAt(Len(file))' = calls + 1
    BY <1>2, <2>3 DEF ShaAt
  <2> QED
    BY <1>1, <1>2, <2>1, <2>2, <2>3, <2>4
<1> QED
  BY <1>1, <1>4, <1>7, <1>8, <1>9, <1>10, <1>11 DEF AInv

\* The write fails, or the process ends, and may leave text behind.
LEMMA BrokenWriteStep ==
  ASSUME AInv, pc = "idle", calls < MaxRecords, calls' = calls + 1,
         AppendText(Entry) \/ AppendText(Torn(Entry)), open' \in BOOLEAN, torn' = TRUE,
         pc' \in {"idle", "down"}, Fault,
         UNCHANGED <<head, chain, done, lost, resumed>>
  PROVE  AInv'
<1> USE DEF AInv
<1>1. PICK line \in Line :
        line.rec = calls + 1 /\ line.prev = chain.sha /\ AppendText(line)
  BY EntryOK
<1>2. calls \in Nat /\ calls + 1 \in 0..MaxRecords
  BY EntryOK
<1>3. file' \in Seq(Line) /\ file' # <<>>
  BY <1>1, TextAppended
<1>4. /\ Len(file') <= calls'
      /\ \A i \in DOMAIN file' : file'[i].rec <= calls'
      /\ ~file'[Len(file')].whole \/ file'[Len(file')].rec = calls + 1
      /\ ~resumed => Ordered'
  BY <1>1, AppendingKeepsOrder
<1>5. /\ chain.lines \in Nat /\ chain.lines <= calls
      /\ chain.sha \in Nat /\ chain.sha <= calls
      /\ \A d \in done : d \in Nat /\ d <= calls
      /\ faults' \in 0..MaxFaults
  BY AuditAssumption DEF AuditTypeOK, Numbered, Fault
<1>6. AuditTypeOK'
  BY <1>2, <1>3, <1>5 DEF AuditTypeOK, Line
<1>7. Numbered' /\ Working'
  BY <1>2, <1>3, <1>4, <1>5 DEF Numbered, Working
<1>8. LastIsNewest'
  BY <1>2, <1>3, <1>4, <1>5 DEF LastIsNewest, LastReaches
<1>9. ~resumed => HeadsAreNewest'
  BY DEF HeadsAreNewest
<1> QED
  BY <1>4, <1>6, <1>7, <1>8, <1>9 DEF Intact

\* A fault that leaves the log itself alone.
LEMMA HarmlessStep ==
  ASSUME AInv, Fault, UNCHANGED <<file, open, chain, done, torn, lost, resumed>>,
         head' \in {head, TornHead}, calls' \in {calls, calls + 1}, calls' \in 0..MaxRecords,
         pc' \in {"idle", "down"}, pc = "down" => pc' = "down"
  PROVE  AInv'
<1> USE DEF AInv
<1>1. /\ calls \in Nat /\ calls <= calls'
      /\ \A d \in done : d \in Nat /\ d <= calls
      /\ chain.lines \in Nat /\ chain.sha \in Nat
      /\ faults' \in 0..MaxFaults
      /\ head.lines \in -2..MaxRecords
  BY AuditAssumption DEF AuditTypeOK, Numbered, Fault
<1>2. AuditTypeOK'
  <2>1. TornHead \in [sha : 0..MaxRecords, lines : -2..MaxRecords]
    BY AuditAssumption DEF TornHead, GENESIS
  <2>2. head' \in [sha : 0..MaxRecords, lines : -2..MaxRecords]
    BY <2>1 DEF AuditTypeOK
  <2> QED
    BY <1>1, <2>2 DEF AuditTypeOK, Line
<1>3. Numbered'
  <2>1. /\ Len(file) \in Nat /\ Len(file) <= calls'
        /\ \A i \in DOMAIN file : file[i].rec <= calls'
    BY <1>1, LinesOK DEF Numbered
  <2> QED
    BY <1>1, <2>1 DEF Numbered
<1>4. Working'
  <2>1. head' = NoHead => head = NoHead
    BY <1>1 DEF NoHead, TornHead
  <2> QED
    BY <2>1 DEF Working
<1>5. Intact' /\ LastIsNewest'
  BY KeptFile DEF Intact, LastIsNewest, ShaAt
<1>6. ASSUME ~resumed'
      PROVE  Ordered' /\ HeadsAreNewest'
  BY <1>6, KeptFile DEF HeadsAreNewest, TornHead
<1> QED
  BY <1>2, <1>3, <1>4, <1>5, <1>6

LEMMA AppendFailsStep == AInv /\ AppendFails => AInv'
<1> SUFFICES ASSUME AInv, AppendFails PROVE AInv'
  OBVIOUS
<1>1. /\ pc = "idle" /\ pc' = "idle" /\ calls < MaxRecords /\ Fault /\ calls' = calls + 1
      /\ UNCHANGED <<head, chain, done, lost, resumed>>
  BY DEF AppendFails
<1>2. CASE UNCHANGED <<file, open, torn>>
  <2>1. calls' \in 0..MaxRecords
    BY <1>1, EntryOK DEF AInv
  <2> QED
    BY <1>1, <1>2, <2>1, HarmlessStep
<1>3. CASE /\ AppendText(Entry) \/ AppendText(Torn(Entry))
           /\ open' \in BOOLEAN /\ torn' = TRUE
  BY <1>1, <1>3, BrokenWriteStep
<1> QED
  BY <1>2, <1>3 DEF AppendFails

LEMMA CrashStep == AInv /\ Crash => AInv'
<1> SUFFICES ASSUME AInv, Crash PROVE AInv'
  OBVIOUS
<1>1. /\ pc # "down" /\ pc' = "down" /\ Fault /\ UNCHANGED <<chain, done, lost, resumed>>
      /\ calls \in 0..MaxRecords
  BY DEF Crash, AInv, AuditTypeOK
<1>2. CASE UNCHANGED <<file, open, calls, torn>> /\ head' \in {head, TornHead}
  BY <1>1, <1>2, HarmlessStep
<1>3. CASE /\ pc = "idle" /\ calls < MaxRecords /\ calls' = calls + 1
           /\ AppendText(Torn(Entry)) \/ AppendText(Entry)
           /\ open' = TRUE /\ torn' = TRUE /\ UNCHANGED head
  BY <1>1, <1>3, BrokenWriteStep
<1> QED
  BY <1>2, <1>3 DEF Crash

\* What is left of a log that lost its tail is as ordered as it was.
LEMMA LoseTailStep == AInv /\ LoseTail => AInv'
<1> SUFFICES ASSUME AInv, LoseTail PROVE AInv'
  OBVIOUS
<1> USE DEF AInv
<1>1. /\ Fault /\ open' = FALSE /\ lost' = TRUE
      /\ UNCHANGED <<head, chain, pc, calls, done, torn, resumed>>
  BY DEF LoseTail
<1>2. PICK n \in 0..(Len(file) - 1) : file' = SubSeq(file, 1, n)
  BY DEF LoseTail
<1>3. /\ n \in Nat /\ n < Len(file) /\ file' \in Seq(Line)
      /\ Len(file') = n /\ DOMAIN file' = 1..n
      /\ \A i \in 1..n : file'[i] = file[i]
  <2>1. n \in Nat /\ n < Len(file) /\ n \in Int /\ 1 \in Int
    BY LinesOK
  <2>2. \A i \in 1..n : file[i] \in Line
    BY <2>1, LinesOK
  <2>3. /\ file' \in Seq(Line)
        /\ Len(file') = IF 1 <= n THEN n - 1 + 1 ELSE 0
        /\ \A i \in 1..(n - 1 + 1) : file'[i] = file[1 + i - 1]
    BY <1>2, <2>1, <2>2, SubSeqProperties
  <2>4. Len(file') = n /\ \A i \in 1..n : file'[i] = file[i]
    BY <2>1, <2>3
  <2> QED
    BY <2>1, <2>3, <2>4, LenProperties
<1>4. /\ Len(file) <= calls /\ calls \in Nat /\ Len(file) \in Nat /\ faults' \in 0..MaxFaults
  <2>1. calls \in Nat /\ faults' \in 0..MaxFaults
    BY <1>1, AuditAssumption DEF AuditTypeOK, Fault
  <2> QED
    BY <2>1, LinesOK DEF Numbered
<1>5. AuditTypeOK'
  BY <1>1, <1>3, <1>4 DEF AuditTypeOK, Line
<1>6. Numbered' /\ Working'
  <2>1. n <= calls /\ \A i \in 1..n : file[i].rec <= calls
    BY <1>3, <1>4, LinesOK DEF Numbered
  <2> QED
    BY <1>1, <1>3, <2>1 DEF Numbered, Working
<1>7. ASSUME ~resumed'
      PROVE  Ordered' /\ HeadsAreNewest'
  <2>1. ASSUME NEW i \in 1..n, SoundTo(i)', NEW d \in done, d < file'[i].rec
        PROVE  \E j \in 1..i : file'[j].rec = d
    <3>1. i \in DOMAIN file /\ i \in Nat /\ \A j \in 1..i : file'[j] = file[j]
      BY <1>3, <1>4, LinesOK
    <3>2. SoundTo(i)
      BY <2>1, <3>1, SameSoundness
    <3>3. PICK j \in 1..i : file[j].rec = d
      BY <1>1, <1>3, <1>7, <2>1, <3>1, <3>2 DEF Ordered
    <3> QED
      BY <3>1, <3>3
  <2> QED
    BY <1>1, <1>3, <1>7, <2>1 DEF Ordered, HeadsAreNewest
<1> QED
  BY <1>1, <1>5, <1>6, <1>7 DEF Intact, LastIsNewest

LEMMA AuditInvStep == AInv /\ [AuditNext]_auditVars => AInv'
<1>1. AInv /\ UNCHANGED auditVars => AInv'
  <2> SUFFICES ASSUME AInv, UNCHANGED auditVars PROVE AInv'
    OBVIOUS
  <2>1. UNCHANGED <<file, open, head, chain, pc, calls, done, torn, lost, resumed, faults>>
    BY DEF auditVars, historyVars
  <2>2. AuditTypeOK' /\ Numbered' /\ Working'
    BY <2>1 DEF AInv, AuditTypeOK, Numbered, Working, Line
  <2>3. Intact' /\ LastIsNewest' /\ (~resumed => Ordered' /\ HeadsAreNewest')
    BY <2>1, KeptFile DEF AInv, Intact, LastIsNewest, HeadsAreNewest, ShaAt
  <2> QED
    BY <2>1, <2>2, <2>3 DEF AInv
<1> QED
  BY <1>1, StartStep, AppendStep, AppendFailsStep, CheckpointStep, OperateStep,
     CrashStep, LoseTailStep DEF AuditNext

LEMMA AuditInvariant == AuditSpec => []AInv
BY AuditInvInit, AuditInvStep, PTL DEF AuditSpec

-----------------------------------------------------------------------------
(* The theorems *)

\* The wall does not operate unobserved: whatever fails, an operation that ran has
\* a readable record, unless a failed write left text behind or the log lost its
\* tail (audit.py:5-9).
THEOREM NothingUnobserved == AuditSpec => []OperatedIsRecorded
<1>1. AInv => OperatedIsRecorded
  BY DEF AInv, Intact, OperatedIsRecorded
<1> QED
  BY <1>1, AuditInvariant, PTL

\* verify_chain never passes over a lost or spoilt record of an operation that ran,
\* until the broker is started on what is left (audit.py:29-33).
THEOREM LossDetected == AuditSpec => []LossIsDetected
<1>1. AInv => LossIsDetected
  <2> SUFFICES ASSUME AInv, ~resumed, VerifyChain PROVE done \subseteq Recorded
    BY DEF LossIsDetected
  <2>1. /\ AuditTypeOK /\ Ordered /\ HeadsAreNewest /\ Working
        /\ Len(file) \in Nat /\ DOMAIN file = 1..Len(file)
    BY LinesOK DEF AInv
  <2>2. CASE head = NoHead
    BY <2>1, <2>2 DEF Working
  <2>3. CASE head = [sha |-> ShaAt(Len(file)), lines |-> Len(file)]
    <3>1. head.lines >= 0 /\ head.sha = ShaAt(Len(file))
      BY <2>1, <2>3
    <3>2. SoundTo(Len(file))
      BY <2>1 DEF SoundTo, VerifyChain, WalkOK
    <3>3. \A d \in done : \E j \in DOMAIN file : file[j].rec = d
      BY <2>1, <3>1, <3>2, SoundMissesNothing DEF HeadsAreNewest
    <3> QED
      BY <3>3 DEF Recorded, VerifyChain, WalkOK
  <2> QED
    BY <2>2, <2>3 DEF VerifyChain, HeadOK
<1> QED
  BY <1>1, AuditInvariant, PTL

\* When an operation is about to run, the log and its sidecar verify, however many
\* checkpoints and processes were lost before.
THEOREM LogHeals == AuditSpec => []OperatesOnAVerifiedChain
<1>1. AInv => OperatesOnAVerifiedChain
  BY DEF AInv, Intact, Working, OperatesOnAVerifiedChain, VerifyChain, HeadOK
<1> QED
  BY <1>1, AuditInvariant, PTL
=============================================================================
