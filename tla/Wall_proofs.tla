------------------------------ MODULE Wall_proofs ------------------------------
(***************************************************************************)
(* The wall uses the store as the store is meant to be used, sends nothing     *)
(* that was not granted and does nothing unobserved, for any grants, paths and  *)
(* number of calls.                                                          *)
(***************************************************************************)
EXTENDS Wall, GrantStore_proofs, FiniteSetTheorems

\* A step of the wall is a call of the store, or leaves the store alone.
LEMMA StepOfTheStore ==
  ASSUME WallNext
  PROVE  [StoreNext]_storeVars
<1>1. ASSUME NEW tool \in ToolsInUse, NEW i \in Instances \cup Unknown,
             NEW paths \in Targets(tool), CallTool(tool, i, paths)
      PROVE  [StoreNext]_storeVars
  BY <1>1 DEF CallTool
<1>2. CASE ToolStep
  BY <1>2 DEF ToolStep, Admit, Refuse, RecordStage, RecordFails, Operate, OperateFails,
     OpFrame
<1>3. CASE StoreCall
  BY <1>3 DEF StoreCall, StoreNext
<1>4. CASE Restart
  BY <1>4 DEF Restart, StoreNext
<1>5. CASE Clock
  BY <1>5 DEF Clock, StoreNext
<1> QED
  BY <1>1, <1>2, <1>3, <1>4, <1>5 DEF WallNext

-----------------------------------------------------------------------------
(* Sequences of records of any shape *)

IsSequence(s) == s \in Seq({s[i] : i \in DOMAIN s})

LEMMA SequenceOK ==
  ASSUME NEW S, NEW s \in Seq(S)
  PROVE  IsSequence(s)
<1> DEFINE T == {s[i] : i \in DOMAIN s}
<1>1. Len(s) \in Nat /\ DOMAIN s = 1..Len(s) /\ s = [i \in 1..Len(s) |-> s[i]]
  BY LenProperties
<1>2. \A i \in 1..Len(s) : s[i] \in T
  BY <1>1
<1>3. [i \in 1..Len(s) |-> s[i]] \in Seq(T)
  <2> HIDE DEF T
  <2> QED
    BY <1>1, <1>2, IsASeq
<1> QED
  BY <1>1, <1>3 DEF IsSequence

LEMMA AppendedOK ==
  ASSUME NEW s, IsSequence(s), NEW e
  PROVE  /\ IsSequence(Append(s, e))
         /\ Len(s) \in Nat /\ DOMAIN s = 1..Len(s)
         /\ Len(Append(s, e)) = Len(s) + 1
         /\ DOMAIN Append(s, e) = 1..(Len(s) + 1)
         /\ \A i \in 1..Len(s) : Append(s, e)[i] = s[i]
         /\ Append(s, e)[Len(s) + 1] = e
<1> DEFINE T == {s[i] : i \in DOMAIN s}
           U == T \cup {e}
<1>1. s \in Seq(T)
  BY DEF IsSequence
<1> HIDE DEF T
<1>2. s \in Seq(U) /\ e \in U
  BY <1>1, SeqMonotonic
<1> HIDE DEF U
<1>3. /\ Append(s, e) \in Seq(U)
      /\ Len(Append(s, e)) = Len(s) + 1
      /\ \A i \in 1..Len(s) : Append(s, e)[i] = s[i]
      /\ Append(s, e)[Len(s) + 1] = e
  BY <1>2, AppendProperties
<1> QED
  BY <1>2, <1>3, SequenceOK, LenProperties

-----------------------------------------------------------------------------
(* The invariant *)

\* The stages a tool still has before it.
Remaining(tool) == {Stages(tool), Tail(Stages(tool))} \ {<<>>}

OpFields ==
  op = [pc |-> op.pc, tool |-> op.tool, instance |-> op.instance, paths |-> op.paths,
        unchecked |-> op.unchecked, stages |-> op.stages, since |-> op.since]

OpOK ==
  /\ OpFields
  /\ \/ op = NoOp
     \/ /\ op.pc \in {"checking", "recording", "operating"}
        /\ op.tool \in Tools
        /\ op.stages \in Remaining(op.tool)
        /\ op.unchecked \in Seq(Paths)
        /\ op.pc = "checking" <=> op.unchecked # <<>>

\* The record of the stage that is about to run.
StageRecord ==
  [decision |-> "allowed", operation |-> Head(op.stages)[1], instance |-> op.instance,
   paths |-> op.paths, principal |-> PrincipalOf(op.tool)]

\* A stage runs under a record of its own, the last one of the trail.
Announced ==
  op.pc = "operating" =>
    /\ Len(trail) > 0
    /\ trail[Len(trail)] = StageRecord
    /\ \A i \in DOMAIN effects : effects[i].record < Len(trail)

Matches(effect, record) ==
  /\ record.decision = "allowed"
  /\ record.operation \in RecordedAs(effect.verb)
  /\ record.instance = effect.instance
  /\ record.paths = effect.paths
  /\ effect.verb \in {"GET", "PUT", "LOCK", "UNLOCK"} => record.principal = "transfer"

EffectsMatch ==
  \A i \in DOMAIN effects :
    /\ effects[i].verb \in Verb
    /\ effects[i].record \in 1..Len(trail)
    /\ Matches(effects[i], trail[effects[i].record])
    /\ \A j \in DOMAIN effects \ {i} : effects[j].record # effects[i].record

WInv ==
  /\ ops \in 0..MaxOps
  /\ faults \in 0..MaxFaults
  /\ IsSequence(trail) /\ IsSequence(effects)
  /\ OpOK
  /\ Announced
  /\ EffectsMatch

LEMMA OneStage ==
  ASSUME NEW x
  PROVE  {<<x>>, Tail(<<x>>)} \ {<<>>} = {<<x>>} /\ <<x>> # <<>> /\ Head(<<x>>) = x
         /\ Len(<<x>>) = 1
<1>1. Tail(<<x>>) = <<>> /\ <<x>> # <<>> /\ Head(<<x>>) = x /\ Len(<<x>>) = 1
  OBVIOUS
<1> QED
  BY <1>1

LEMMA TwoStages ==
  ASSUME NEW x, NEW y
  PROVE  {<<x, y>>, Tail(<<x, y>>)} \ {<<>>} = {<<x, y>>, <<y>>} /\ <<x, y>> # <<>>
         /\ Head(<<x, y>>) = x /\ Tail(<<x, y>>) = <<y>>
<1>1. Tail(<<x, y>>) = <<y>> /\ <<x, y>> # <<>> /\ <<y>> # <<>> /\ Head(<<x, y>>) = x
  OBVIOUS
<1> QED
  BY <1>1

\* The operation of a stage is one that stands for its request, content is
\* carried by the content tools only, and what needs no more than the mode read
\* reads.
Fits(tool, stage) ==
  /\ stage[2] \in Verb
  /\ stage[1] \in RecordedAs(stage[2])
  /\ stage[2] \in {"GET", "PUT", "LOCK", "UNLOCK"} => PrincipalOf(tool) = "transfer"
  /\ tool = "list" => stage[2] = "PROPFIND"
  /\ tool = "read" => stage[2] = "GET"

\* The stages of every tool, and what is left of them, fit it.
LEMMA StagesOK ==
  ASSUME NEW tool \in Tools
  PROVE  /\ Stages(tool) \in Remaining(tool)
         /\ Stages(tool) # <<>>
         /\ \A stages \in Remaining(tool) :
              /\ stages # <<>>
              /\ Fits(tool, Head(stages))
              /\ Len(stages) # 1 => Tail(stages) \in Remaining(tool)
<1>1. CASE tool \in {"list", "read", "write", "move", "trash", "mkdir"}
  <2>1. PICK x : Stages(tool) = <<x>> /\ Fits(tool, x)
    <3>1. CASE tool = "list"
      <4>1. Stages(tool) = << <<"list", "PROPFIND">> >>
        BY <3>1 DEF Stages
      <4> QED
        BY <3>1, <4>1 DEF Fits, Verb, RecordedAs
    <3>2. CASE tool = "read"
      <4>1. Stages(tool) = << <<"read", "GET">> >>
        BY <3>2 DEF Stages
      <4> QED
        BY <3>2, <4>1 DEF Fits, Verb, RecordedAs, PrincipalOf, ContentTools
    <3>3. CASE tool = "write"
      <4>1. Stages(tool) = << <<"write", "PUT">> >>
        BY <3>3 DEF Stages
      <4> QED
        BY <3>3, <4>1 DEF Fits, Verb, RecordedAs, PrincipalOf, ContentTools
    <3>4. CASE tool = "move"
      <4>1. Stages(tool) = << <<"move", "MOVE">> >>
        BY <3>4 DEF Stages
      <4> QED
        BY <3>4, <4>1 DEF Fits, Verb, RecordedAs
    <3>5. CASE tool = "trash"
      <4>1. Stages(tool) = << <<"trash", "DELETE">> >>
        BY <3>5 DEF Stages
      <4> QED
        BY <3>5, <4>1 DEF Fits, Verb, RecordedAs
    <3>6. CASE tool = "mkdir"
      <4>1. Stages(tool) = << <<"mkdir", "MKCOL">> >>
        BY <3>6 DEF Stages
      <4> QED
        BY <3>6, <4>1 DEF Fits, Verb, RecordedAs
    <3> QED
      BY <1>1, <3>1, <3>2, <3>3, <3>4, <3>5, <3>6
  <2>2. Remaining(tool) = {<<x>>} /\ Head(<<x>>) = x /\ Len(<<x>>) = 1 /\ <<x>> # <<>>
    BY <2>1, OneStage DEF Remaining
  <2> QED
    BY <2>1, <2>2
<1>2. CASE tool \in {"checkout", "checkin"}
  <2>1. PICK x, y : Stages(tool) = <<x, y>> /\ Fits(tool, x) /\ Fits(tool, y)
    <3>1. CASE tool = "checkout"
      <4>1. Stages(tool) = << <<"checkout", "LOCK">>, <<"read", "GET">> >>
        BY <3>1 DEF Stages
      <4> QED
        BY <3>1, <4>1 DEF Fits, Verb, RecordedAs, PrincipalOf, ContentTools
    <3>2. CASE tool = "checkin"
      <4>1. Stages(tool) = << <<"checkin", "PUT">>, <<"checkin-unlock", "UNLOCK">> >>
        BY <3>2 DEF Stages
      <4> QED
        BY <3>2, <4>1 DEF Fits, Verb, RecordedAs, PrincipalOf, ContentTools
    <3> QED
      BY <1>2, <3>1, <3>2
  <2>2. /\ Remaining(tool) = {<<x, y>>, <<y>>}
        /\ Head(<<x, y>>) = x /\ Tail(<<x, y>>) = <<y>> /\ <<x, y>> # <<>>
        /\ Head(<<y>>) = y /\ Len(<<y>>) = 1 /\ <<y>> # <<>>
    BY <2>1, OneStage, TwoStages DEF Remaining
  <2> QED
    BY <2>1, <2>2
<1> QED
  BY <1>1, <1>2 DEF Tools, ContentTools

\* No tool is running at the start.
LEMMA WallInvInit == WallInit => WInv
<1> SUFFICES ASSUME WallInit PROVE WInv
  OBVIOUS
<1>1. IsSequence(<<>>)
  BY SequenceOK, EmptySeq
<1>2. op = NoOp /\ trail = <<>> /\ effects = <<>> /\ ops = 0 /\ faults = 0
  BY DEF WallInit
<1>3. OpOK
  BY <1>2 DEF OpOK, OpFields, NoOp
<1>4. Announced /\ EffectsMatch
  BY <1>2 DEF Announced, EffectsMatch, NoOp
<1> QED
  BY <1>1, <1>2, <1>3, <1>4, WallAssumption DEF WInv

\* A record more disturbs none of the effects.
LEMMA TrailGrows ==
  ASSUME IsSequence(trail), EffectsMatch, NEW record,
         trail' = Append(trail, record), effects' = effects
  PROVE  /\ IsSequence(trail') /\ EffectsMatch'
         /\ Len(trail') > 0 /\ trail'[Len(trail')] = record
         /\ \A i \in DOMAIN effects' : effects'[i].record < Len(trail')
<1>1. /\ IsSequence(trail') /\ Len(trail) \in Nat /\ Len(trail') = Len(trail) + 1
      /\ \A i \in 1..Len(trail) : trail'[i] = trail[i]
      /\ trail'[Len(trail) + 1] = record
  BY AppendedOK
<1>2. ASSUME NEW i \in DOMAIN effects
      PROVE  /\ effects[i].record \in 1..Len(trail) /\ effects[i].record \in 1..Len(trail')
             /\ trail'[effects[i].record] = trail[effects[i].record]
             /\ effects[i].record < Len(trail')
  BY <1>1 DEF EffectsMatch
<1>3. EffectsMatch'
  BY <1>2 DEF EffectsMatch, Matches
<1> QED
  BY <1>1, <1>2, <1>3

\* What is carried out under the record announced for it matches that record.
LEMMA EffectGrows ==
  ASSUME WInv, op.pc = "operating", Effect, trail' = trail
  PROVE  IsSequence(effects') /\ EffectsMatch'
<1> DEFINE n == Len(effects)
           e == [verb |-> Head(op.stages)[2], instance |-> op.instance,
                 paths |-> op.paths, record |-> Len(trail)]
<1>1. /\ IsSequence(effects') /\ n \in Nat /\ DOMAIN effects = 1..n
      /\ DOMAIN effects' = 1..(n + 1)
      /\ \A i \in 1..n : effects'[i] = effects[i]
      /\ effects'[n + 1] = e
  BY AppendedOK DEF WInv, Effect
<1>2. /\ Len(trail) \in Nat /\ Len(trail) > 0 /\ trail[Len(trail)] = StageRecord
      /\ \A i \in 1..n : effects[i].record < Len(trail) /\ effects[i].record \in 1..Len(trail)
  BY <1>1, AppendedOK DEF WInv, Announced, EffectsMatch
<1>3. e.verb \in Verb /\ Matches(e, StageRecord)
  <2>1. op.tool \in Tools /\ op.stages \in Remaining(op.tool)
    BY DEF WInv, OpOK, NoOp
  <2>2. Fits(op.tool, Head(op.stages))
    BY <2>1, StagesOK
  <2> QED
    BY <2>2 DEF Fits, Matches, StageRecord
<1>4. e.record = Len(trail)
  OBVIOUS
<1> HIDE DEF e
<1>5. ASSUME NEW i \in 1..(n + 1)
      PROVE  /\ effects'[i].verb \in Verb
             /\ effects'[i].record \in 1..Len(trail)
             /\ Matches(effects'[i], trail[effects'[i].record])
             /\ \A j \in (1..(n + 1)) \ {i} : effects'[j].record # effects'[i].record
  <2>1. CASE i \in 1..n
    <3>1. /\ effects[i].verb \in Verb /\ effects[i].record \in 1..Len(trail)
          /\ Matches(effects[i], trail[effects[i].record])
          /\ \A j \in (1..n) \ {i} : effects[j].record # effects[i].record
      BY <1>1, <2>1 DEF WInv, EffectsMatch
    <3>2. \A j \in (1..(n + 1)) \ {i} : effects'[j].record # effects'[i].record
      <4>1. effects'[i].record < Len(trail) /\ effects'[i].record \in 1..Len(trail)
        BY <1>1, <1>2, <2>1
      <4>2. effects'[n + 1].record # effects'[i].record
        BY <1>1, <1>2, <1>4, <4>1
      <4>3. \A j \in (1..n) \ {i} : effects'[j].record # effects'[i].record
        BY <1>1, <2>1, <3>1
      <4> QED
        BY <1>1, <4>2, <4>3
    <3> QED
      BY <1>1, <2>1, <3>1, <3>2
  <2>2. CASE i = n + 1
    <3>1. \A j \in 1..n : effects'[j].record # e.record
      BY <1>1, <1>2, <1>4
    <3> QED
      BY <1>1, <1>2, <1>3, <1>4, <2>2, <3>1
  <2> QED
    BY <1>1, <2>1, <2>2
<1>6. EffectsMatch'
  BY <1>1, <1>5 DEF EffectsMatch, Matches
<1> QED
  BY <1>1, <1>6

-----------------------------------------------------------------------------
(* The steps *)

\* Between two tools, and when a tool ends.
LEMMA NoOpOK ==
  ASSUME op' = NoOp
  PROVE  OpOK' /\ Announced'
BY DEF OpOK, OpFields, Announced, NoOp

LEMMA FaultOK ==
  ASSUME faults \in 0..MaxFaults, Fault
  PROVE  faults' \in 0..MaxFaults
BY WallAssumption DEF Fault

\* A running tool: what an update of the operation changes, and nothing else.
LEMMA OpUpdated ==
  ASSUME OpOK, NEW pc, NEW unchecked, NEW paths, NEW stages,
         op' = [op EXCEPT !.pc = pc, !.unchecked = unchecked, !.paths = paths,
                          !.stages = stages]
  PROVE  /\ OpFields'
         /\ op'.pc = pc /\ op'.unchecked = unchecked /\ op'.paths = paths
         /\ op'.stages = stages /\ op'.tool = op.tool /\ op'.instance = op.instance
BY DEF OpOK, OpFields

LEMMA CallToolStep ==
  ASSUME WInv, NEW tool \in ToolsInUse, NEW i \in Instances \cup Unknown,
         NEW paths \in Targets(tool), CallTool(tool, i, paths)
  PROVE  WInv'
<1>1. /\ ops' \in 0..MaxOps
      /\ UNCHANGED <<trail, effects, faults>>
      /\ op' = [pc |-> "checking", tool |-> tool, instance |-> i, paths |-> <<>>,
                unchecked |-> paths, stages |-> Stages(tool), since |-> now]
  BY WallAssumption DEF CallTool, WInv
<1>2. paths \in Seq(Paths) /\ paths # <<>>
  <2>1. CASE tool = "move"
    <3>1. PICK p \in Paths, q \in Paths : paths = <<p, q>>
      BY <2>1 DEF Targets
    <3> QED
      BY <3>1
  <2>2. CASE tool # "move"
    <3>1. PICK p \in Paths : paths = <<p>>
      BY <2>2 DEF Targets
    <3> QED
      BY <3>1
  <2> QED
    BY <2>1, <2>2
<1>3. OpOK'
  <2>1. tool \in Tools /\ Stages(tool) \in Remaining(tool)
    BY WallAssumption, StagesOK
  <2> QED
    BY <1>1, <1>2, <2>1 DEF OpOK, OpFields
<1>4. Announced'
  BY <1>1 DEF Announced
<1>5. EffectsMatch'
  BY <1>1 DEF WInv, EffectsMatch, Matches
<1> QED
  BY <1>1, <1>3, <1>4, <1>5 DEF WInv

LEMMA AdmitStep ==
  ASSUME WInv, Admit
  PROVE  WInv'
<1> DEFINE rest == Tail(op.unchecked)
<1>1. /\ op.pc = "checking"
      /\ op' = [op EXCEPT !.unchecked = rest,
                          !.paths = Append(op.paths, Normalize(Head(op.unchecked))),
                          !.pc = IF rest = <<>> THEN "recording" ELSE op.pc]
      /\ UNCHANGED <<trail, effects, faults, ops>>
  BY DEF Admit, OpFrame
<1>2. /\ op.tool \in Tools /\ op.stages \in Remaining(op.tool)
      /\ op.unchecked \in Seq(Paths) /\ op.unchecked # <<>> /\ OpFields
  BY <1>1 DEF WInv, OpOK, NoOp
<1>3. rest \in Seq(Paths)
  BY <1>2
<1>4. /\ OpFields'
      /\ op'.pc = IF rest = <<>> THEN "recording" ELSE "checking"
      /\ op'.unchecked = rest /\ op'.stages = op.stages /\ op'.tool = op.tool
  <2> HIDE DEF rest
  <2> QED
    BY <1>1, <1>2 DEF OpFields
<1>5. OpOK' /\ Announced'
  <2> HIDE DEF rest
  <2> QED
    BY <1>2, <1>3, <1>4 DEF OpOK, Announced
<1>6. EffectsMatch'
  BY <1>1 DEF WInv, EffectsMatch, Matches
<1> QED
  BY <1>1, <1>5, <1>6 DEF WInv

\* A tool that ends without a request.
LEMMA EndStep ==
  ASSUME WInv, Refuse \/ RecordFails
  PROVE  WInv'
<1>1. /\ op' = NoOp /\ UNCHANGED <<effects, ops>>
      /\ faults' = faults \/ Fault
      /\ trail' = trail \/ \E record : trail' = Append(trail, record)
  BY DEF Refuse, RecordFails, OpFrame
<1>2. faults' \in 0..MaxFaults
  BY <1>1, FaultOK DEF WInv
<1>3. IsSequence(trail') /\ EffectsMatch'
  <2>1. CASE trail' = trail
    BY <1>1, <2>1 DEF WInv, EffectsMatch, Matches
  <2>2. CASE \E record : trail' = Append(trail, record)
    BY <1>1, <2>2, TrailGrows DEF WInv
  <2> QED
    BY <1>1, <2>1, <2>2
<1> QED
  BY <1>1, <1>2, <1>3, NoOpOK DEF WInv

LEMMA RecordStageStep ==
  ASSUME WInv, RecordStage
  PROVE  WInv'
<1>1. /\ op.pc = "recording" /\ op' = [op EXCEPT !.pc = "operating"]
      /\ trail' = Append(trail, StageRecord)
      /\ UNCHANGED <<effects, faults, ops>>
  BY DEF RecordStage, OpFrame, StageRecord
<1>2. /\ op.tool \in Tools /\ op.stages \in Remaining(op.tool)
      /\ op.unchecked \in Seq(Paths) /\ op.unchecked = <<>> /\ OpFields
  BY <1>1 DEF WInv, OpOK, NoOp
<1>3. /\ OpFields' /\ op'.pc = "operating" /\ op'.unchecked = <<>>
      /\ op'.stages = op.stages /\ op'.tool = op.tool
      /\ op'.instance = op.instance /\ op'.paths = op.paths
  BY <1>1, <1>2 DEF OpFields
<1>4. /\ IsSequence(trail') /\ EffectsMatch' /\ Len(trail') > 0
      /\ trail'[Len(trail')] = StageRecord
      /\ \A i \in DOMAIN effects' : effects'[i].record < Len(trail')
  BY <1>1, TrailGrows DEF WInv
<1>5. StageRecord' = StageRecord
  BY <1>3 DEF StageRecord
<1>6. OpOK' /\ Announced'
  BY <1>2, <1>3, <1>4, <1>5 DEF OpOK, Announced
<1> QED
  BY <1>1, <1>4, <1>6 DEF WInv

LEMMA OperateStep ==
  ASSUME WInv, Operate \/ OperateFails
  PROVE  WInv'
<1>1. /\ op.pc = "operating" /\ UNCHANGED <<trail, ops>>
      /\ faults' = faults \/ Fault
      /\ Effect \/ effects' = effects
      /\ \/ op' = NoOp
         \/ /\ Len(op.stages) # 1
            /\ op' = [op EXCEPT !.stages = Tail(op.stages), !.pc = "recording"]
  BY DEF Operate, OperateFails, OpFrame
<1>2. faults' \in 0..MaxFaults
  BY <1>1, FaultOK DEF WInv
<1>3. IsSequence(effects') /\ EffectsMatch'
  <2>1. CASE effects' = effects
    BY <1>1, <2>1 DEF WInv, EffectsMatch, Matches
  <2>2. CASE Effect
    BY <1>1, <2>2, EffectGrows
  <2> QED
    BY <1>1, <2>1, <2>2
<1>4. OpOK' /\ Announced'
  <2>1. CASE op' = NoOp
    BY <2>1, NoOpOK
  <2>2. CASE /\ Len(op.stages) # 1
             /\ op' = [op EXCEPT !.stages = Tail(op.stages), !.pc = "recording"]
    <3>1. /\ op.tool \in Tools /\ op.stages \in Remaining(op.tool)
          /\ op.unchecked \in Seq(Paths) /\ op.unchecked = <<>> /\ OpFields
      BY <1>1 DEF WInv, OpOK, NoOp
    <3>2. Tail(op.stages) \in Remaining(op.tool)
      BY <2>2, <3>1, StagesOK
    <3>3. /\ OpFields' /\ op'.pc = "recording" /\ op'.unchecked = <<>>
          /\ op'.stages = Tail(op.stages) /\ op'.tool = op.tool
      BY <2>2, <3>1 DEF OpFields
    <3> QED
      BY <3>1, <3>2, <3>3 DEF OpOK, Announced
  <2> QED
    BY <1>1, <2>1, <2>2
<1> QED
  BY <1>1, <1>2, <1>3, <1>4 DEF WInv

\* The rest of the process leaves the tool alone, or ends it.
LEMMA OtherStep ==
  ASSUME WInv, StoreCall \/ Restart \/ Clock \/ UNCHANGED wallVars
  PROVE  WInv'
<1>1. /\ op' = op \/ op' = NoOp
      /\ UNCHANGED <<trail, effects, ops>>
      /\ faults' = faults \/ Fault
  BY DEF StoreCall, Restart, Clock, wallVars
<1>2. faults' \in 0..MaxFaults
  BY <1>1, FaultOK DEF WInv
<1>3. EffectsMatch'
  BY <1>1 DEF WInv, EffectsMatch, Matches
<1>4. OpOK' /\ Announced'
  <2>1. CASE op' = op
    BY <1>1, <2>1 DEF WInv, OpOK, OpFields, Announced, StageRecord
  <2> QED
    BY <1>1, <2>1, NoOpOK
<1> QED
  BY <1>1, <1>2, <1>3, <1>4 DEF WInv

LEMMA WallInvStep == WInv /\ [WallNext]_wallVars => WInv'
BY CallToolStep, AdmitStep, EndStep, RecordStageStep, OperateStep, OtherStep
DEF WallNext, ToolStep

-----------------------------------------------------------------------------
(* The store and the audit log under the tools *)

\* The file tools read the grants and never write them; whatever else happens to
\* the tables goes through the calls of the store.  So everything that is proved
\* of the store holds while the wall is at work.
THEOREM UsesTheStore == WallSpec => StoreSpec
<1>1. WallInit => StoreInit
  BY DEF WallInit
<1>2. [WallNext]_wallVars => [StoreNext]_storeVars
  BY StepOfTheStore DEF wallVars
<1> QED
  BY <1>1, <1>2, PTL DEF WallSpec, StoreSpec

\* Every request that was carried out has a truthful audit record of its own,
\* whatever fails, and content moves under the transfer principal only
\* (nextcloud.py:223-255).
THEOREM NothingUnrecorded == WallSpec => []EffectsAreRecorded
<1>1. WInv /\ StoreTypeOK => EffectsAreRecorded
  <2> SUFFICES ASSUME WInv, StoreTypeOK PROVE EffectsAreRecorded
    OBVIOUS
  <2>1. op = NoOp \/ op.stages # <<>>
    BY StagesOK DEF WInv, OpOK
  <2>2. /\ op.pc \in {"idle", "checking", "recording", "operating"}
        /\ op.pc = "checking" <=> op.unchecked # <<>>
        /\ op.pc = "idle" <=> op.stages = <<>>
    BY <2>1 DEF WInv, OpOK, NoOp
  <2>3. Len(trail) \in Nat /\ DOMAIN trail = 1..Len(trail)
    BY AppendedOK DEF WInv
  <2> QED
    BY <2>2, <2>3 DEF WInv, EffectsMatch, Matches, EffectsAreRecorded, WallTypeOK
<1>2. WallSpec => []WInv
  BY WallInvInit, WallInvStep, PTL DEF WallSpec
<1> QED
  BY <1>1, <1>2, UsesTheStore, TypeCorrect, PTL

-----------------------------------------------------------------------------
(* normalize_path: the walk over the components of a path *)

\* w is the path after each of the first m components.
WalksTo(w, raw, m) ==
  /\ w = [n \in 0..m |-> w[n]]
  /\ w[0] = <<>>
  /\ \A n \in 1..m : w[n] = Walked(w[n - 1], raw[n])

\* The walk is well defined: were it not, it would break off at some first place.
LEMMA WalkExists ==
  ASSUME NEW raw \in Seq(STRING)
  PROVE  \E w : WalksTo(w, raw, Len(raw))
<1> DEFINE Good == {m \in Nat : \E w : WalksTo(w, raw, m)}
<1>1. 0 \in Good
  <2>1. WalksTo([n \in 0..0 |-> <<>>], raw, 0)
    BY DEF WalksTo
  <2> QED
    BY <2>1
<1>2. ASSUME NEW m \in 1..Len(raw), m - 1 \in Good
      PROVE  m \in Good
  <2>1. PICK w : WalksTo(w, raw, m - 1)
    BY <1>2
  <2> DEFINE v == [n \in 0..m |-> IF n < m THEN w[n] ELSE Walked(w[m - 1], raw[m])]
  <2>2. WalksTo(v, raw, m)
    <3>1. m \in Nat /\ m > 0
      OBVIOUS
    <3>2. v = [n \in 0..m |-> v[n]] /\ v[0] = <<>>
      BY <2>1, <3>1 DEF WalksTo
    <3>3. ASSUME NEW n \in 1..m
          PROVE  v[n] = Walked(v[n - 1], raw[n])
      <4>1. v[n - 1] = w[n - 1]
        BY <3>1
      <4>2. CASE n < m
        <5>1. n \in 1..(m - 1) /\ v[n] = w[n]
          BY <3>1, <4>2
        <5> QED
          BY <2>1, <4>1, <5>1 DEF WalksTo
      <4>3. CASE n = m
        BY <3>1, <4>1, <4>3
      <4> QED
        BY <3>1, <4>2, <4>3
    <3> HIDE DEF v
    <3> QED
      BY <3>2, <3>3 DEF WalksTo
  <2> HIDE DEF v
  <2> QED
    BY <2>2
<1>3. Len(raw) \in Nat
  OBVIOUS
<1> HIDE DEF Good
<1>4. 0..Len(raw) \subseteq Good
  <2>1. Good \in SUBSET Nat
    BY DEF Good
  <2> QED
    BY <1>1, <1>2, <1>3, <2>1, Positions
<1> QED
  BY <1>3, <1>4 DEF Good

\* Each component takes the walk one step further.
LEMMA WalkIs ==
  ASSUME NEW raw \in Seq(STRING)
  PROVE  WalksTo(Walk(raw), raw, Len(raw))
<1> DEFINE step(w) == [n \in 0..Len(raw) |-> IF n = 0 THEN <<>> ELSE Walked(w[n - 1], raw[n])]
<1>1. PICK w : w = step(w)
  <2>1. PICK w : WalksTo(w, raw, Len(raw))
    BY WalkExists
  <2>2. w = step(w)
    <3>1. \A n \in 0..Len(raw) : n # 0 => n \in 1..Len(raw)
      OBVIOUS
    <3>2. \A n \in 0..Len(raw) : w[n] = IF n = 0 THEN <<>> ELSE Walked(w[n - 1], raw[n])
      BY <2>1, <3>1 DEF WalksTo
    <3> QED
      BY <2>1, <3>2 DEF WalksTo
  <2> QED
    BY <2>2
<1>2. Walk(raw) = CHOOSE v : v = step(v)
  BY DEF Walk
<1>3. Walk(raw) = step(Walk(raw))
  <2> HIDE DEF step
  <2> QED
    BY <1>1, <1>2
<1>4. 0 \in 0..Len(raw) /\ \A n \in 1..Len(raw) : n \in 0..Len(raw) /\ n # 0
  OBVIOUS
<1> QED
  BY <1>3, <1>4 DEF WalksTo

\* The components that are no names.
Dots == {"", ".", ".."}

\* A sequence and one element more.
LEMMA AppendIs ==
  ASSUME NEW S, NEW p \in Seq(S), NEW c \in S
  PROVE  /\ Append(p, c) \in Seq(S) /\ Len(Append(p, c)) = Len(p) + 1
         /\ \A n \in 1..Len(p) : Append(p, c)[n] = p[n]
         /\ Append(p, c)[Len(p) + 1] = c
BY AppendProperties

\* A prefix of a sequence.
LEMMA PrefixIs ==
  ASSUME NEW S, NEW p \in Seq(S), NEW m \in 0..Len(p)
  PROVE  /\ SubSeq(p, 1, m) \in Seq(S) /\ Len(SubSeq(p, 1, m)) = m
         /\ \A n \in 1..m : SubSeq(p, 1, m)[n] = p[n]
<1>1. m \in Int /\ 1 \in Int /\ m - 1 + 1 = m /\ (1 <= m => m - 1 + 1 = m) /\ Len(p) \in Nat
  OBVIOUS
<1>2. \A n \in 1..m : p[n] \in S /\ 1 + n - 1 = n
  OBVIOUS
<1> QED
  BY <1>1, <1>2, SubSeqProperties

\* A path without dots.
Clean(p) == p \in Seq(STRING) /\ \A n \in 1..Len(p) : p[n] \notin Dots

\* Adding a name, or dropping the last one, leaves no dots behind.
LEMMA AppendClean ==
  ASSUME NEW p, Clean(p), NEW c \in STRING \ Dots
  PROVE  Clean(Append(p, c))
<1>1. /\ Append(p, c) \in Seq(STRING) /\ Len(Append(p, c)) = Len(p) + 1
      /\ \A n \in 1..Len(p) : Append(p, c)[n] = p[n]
      /\ Append(p, c)[Len(p) + 1] = c
  <2>1. p \in Seq(STRING) /\ c \in STRING
    BY DEF Clean
  <2> QED
    BY <2>1, AppendIs
<1>2. Len(p) \in Nat /\ \A n \in 1..(Len(p) + 1) : n \in 1..Len(p) \/ n = Len(p) + 1
  BY DEF Clean
<1> QED
  BY <1>1, <1>2 DEF Clean

LEMMA FrontIs ==
  ASSUME NEW p \in Seq(STRING), p # <<>>
  PROVE  /\ Front(p) \in Seq(STRING) /\ Len(Front(p)) = Len(p) - 1 /\ Len(p) \in Nat \ {0}
         /\ \A n \in 1..(Len(p) - 1) : Front(p)[n] = p[n]
<1>1. Len(p) \in Nat \ {0}
  BY EmptySeq
<1>2. Front(p) = SubSeq(p, 1, Len(p) - 1)
  BY DEF Front
<1>3. /\ SubSeq(p, 1, Len(p) - 1) \in Seq(STRING)
      /\ Len(SubSeq(p, 1, Len(p) - 1)) = Len(p) - 1
      /\ \A n \in 1..(Len(p) - 1) : SubSeq(p, 1, Len(p) - 1)[n] = p[n]
  <2>1. Len(p) - 1 \in 0..Len(p)
    BY <1>1
  <2> QED
    BY <2>1, PrefixIs
<1> QED
  BY <1>1, <1>2, <1>3

LEMMA FrontClean ==
  ASSUME NEW p, Clean(p), p # <<>>
  PROVE  Clean(Front(p))
<1>1. \A n \in 1..(Len(p) - 1) : n \in 1..Len(p)
  BY DEF Clean
<1> QED
  BY <1>1, FrontIs DEF Clean

\* normalize_path removes every dot or refuses.
LEMMA Normalized ==
  ASSUME NEW raw \in Seq(STRING)
  PROVE  Normalize(raw) = Null \/ Clean(Normalize(raw))
<1> DEFINE W == Walk(raw)
           Good == {n \in Nat : W[n] = Null \/ Clean(W[n])}
<1>1. Len(raw) \in Nat /\ WalksTo(W, raw, Len(raw))
  BY WalkIs
<1>2. 0 \in Good
  <2>1. Clean(<<>>)
    BY DEF Clean
  <2> QED
    BY <1>1, <2>1 DEF WalksTo
<1>3. ASSUME NEW n \in 1..Len(raw), n - 1 \in Good
      PROVE  n \in Good
  <2>1. raw[n] \in STRING /\ n \in Nat
    OBVIOUS
  <2>2. W[n] = Walked(W[n - 1], raw[n])
    BY <1>1 DEF WalksTo
  <2> HIDE DEF W
  <2>3. W[n] = Null \/ Clean(W[n])
    <3>1. CASE W[n - 1] = Null
      BY <2>2, <3>1 DEF Walked
    <3>2. CASE W[n - 1] # Null /\ raw[n] \in {"", "."}
      BY <1>3, <2>2, <3>2 DEF Walked
    <3>3. CASE W[n - 1] # Null /\ raw[n] = ".."
      BY <1>3, <2>2, <3>3, FrontClean DEF Walked
    <3>4. CASE W[n - 1] # Null /\ raw[n] \notin Dots
      <4>1. W[n] = Append(W[n - 1], raw[n])
        BY <2>2, <3>4 DEF Walked, Dots
      <4> QED
        BY <1>3, <2>1, <3>4, <4>1, AppendClean
    <3> QED
      BY <3>1, <3>2, <3>3, <3>4 DEF Dots
  <2> QED
    BY <2>1, <2>3
<1> HIDE DEF W
<1>4. 0..Len(raw) \subseteq Good
  <2>1. Good \in SUBSET Nat
    OBVIOUS
  <2> HIDE DEF Good
  <2> QED
    BY <1>1, <1>2, <1>3, <2>1, Positions
<1>5. Len(raw) \in Good
  BY <1>1, <1>4
<1> QED
  BY <1>5 DEF Normalize, W

-----------------------------------------------------------------------------
(* Where the storage arrives *)

\* One component, and where w arrives after each of the first m of them.
Arrival(at, c) ==
  CASE c \in {"", "."} -> at
    [] c = ".." -> SubSeq(at, 1, Len(at) - 1)
    [] OTHER -> Append(at, c)

ArrivesAt(w, path, m) ==
  /\ w = [n \in 0..m |-> w[n]]
  /\ w[0] = <<>>
  /\ \A n \in 1..m : w[n] = Arrival(w[n - 1], path[n])

\* The storage, too, arrives somewhere after each component.
LEMMA ArrivalExists ==
  ASSUME NEW path \in Seq(STRING)
  PROVE  \E w : ArrivesAt(w, path, Len(path))
<1> DEFINE Good == {m \in Nat : \E w : ArrivesAt(w, path, m)}
<1>1. 0 \in Good
  <2>1. ArrivesAt([n \in 0..0 |-> <<>>], path, 0)
    BY DEF ArrivesAt
  <2> QED
    BY <2>1
<1>2. ASSUME NEW m \in 1..Len(path), m - 1 \in Good
      PROVE  m \in Good
  <2>1. PICK w : ArrivesAt(w, path, m - 1)
    BY <1>2
  <2> DEFINE v == [n \in 0..m |-> IF n < m THEN w[n] ELSE Arrival(w[m - 1], path[m])]
  <2>2. ArrivesAt(v, path, m)
    <3>1. m \in Nat /\ m > 0
      OBVIOUS
    <3>2. v = [n \in 0..m |-> v[n]] /\ v[0] = <<>>
      BY <2>1, <3>1 DEF ArrivesAt
    <3>3. ASSUME NEW n \in 1..m
          PROVE  v[n] = Arrival(v[n - 1], path[n])
      <4>1. v[n - 1] = w[n - 1]
        BY <3>1
      <4>2. CASE n < m
        <5>1. n \in 1..(m - 1) /\ v[n] = w[n]
          BY <3>1, <4>2
        <5> QED
          BY <2>1, <4>1, <5>1 DEF ArrivesAt
      <4>3. CASE n = m
        BY <3>1, <4>1, <4>3
      <4> QED
        BY <3>1, <4>2, <4>3
    <3> HIDE DEF v
    <3> QED
      BY <3>2, <3>3 DEF ArrivesAt
  <2> HIDE DEF v
  <2> QED
    BY <2>2
<1>3. Len(path) \in Nat
  OBVIOUS
<1> HIDE DEF Good
<1>4. 0..Len(path) \subseteq Good
  <2>1. Good \in SUBSET Nat
    BY DEF Good
  <2> QED
    BY <1>1, <1>2, <1>3, <2>1, Positions
<1> QED
  BY <1>3, <1>4 DEF Good

\* Each component moves it by one step.
LEMMA ArrivalsAre ==
  ASSUME NEW path \in Seq(STRING)
  PROVE  ArrivesAt(Arrivals(path), path, Len(path))
<1> DEFINE move(w) == [n \in 0..Len(path) |->
                         IF n = 0 THEN <<>> ELSE Arrival(w[n - 1], path[n])]
<1>1. PICK w : w = move(w)
  <2>1. PICK w : ArrivesAt(w, path, Len(path))
    BY ArrivalExists
  <2>2. w = move(w)
    <3>1. \A n \in 0..Len(path) : n # 0 => n \in 1..Len(path)
      OBVIOUS
    <3>2. \A n \in 0..Len(path) :
            w[n] = IF n = 0 THEN <<>> ELSE Arrival(w[n - 1], path[n])
      BY <2>1, <3>1 DEF ArrivesAt
    <3> QED
      BY <2>1, <3>2 DEF ArrivesAt
  <2> QED
    BY <2>2
<1>2. Arrivals(path) = CHOOSE v : v = move(v)
  BY DEF Arrivals, Arrival
<1>3. Arrivals(path) = move(Arrivals(path))
  <2> HIDE DEF move
  <2> QED
    BY <1>1, <1>2
<1>4. 0 \in 0..Len(path) /\ \A n \in 1..Len(path) : n \in 0..Len(path) /\ n # 0
  OBVIOUS
<1> QED
  BY <1>3, <1>4 DEF ArrivesAt

\* What normalize_path makes of a path is where the storage arrives with it.
LEMMA NormalizedIsReached ==
  ASSUME NEW raw \in Seq(STRING), Normalize(raw) # Null
  PROVE  Reached(raw) = Normalize(raw)
<1> DEFINE W == Walk(raw)
           A == Arrivals(raw)
           Good == {n \in Nat : W[n] # Null => A[n] = W[n]}
<1>1. Len(raw) \in Nat /\ WalksTo(W, raw, Len(raw)) /\ ArrivesAt(A, raw, Len(raw))
  BY WalkIs, ArrivalsAre
<1> HIDE DEF W, A
<1>2. 0 \in Good
  BY <1>1 DEF WalksTo, ArrivesAt
<1>3. ASSUME NEW n \in 1..Len(raw), n - 1 \in Good
      PROVE  n \in Good
  <2>1. n \in Nat /\ W[n] = Walked(W[n - 1], raw[n]) /\ A[n] = Arrival(A[n - 1], raw[n])
    BY <1>1 DEF WalksTo, ArrivesAt
  <2>2. CASE W[n - 1] = Null
    <3>1. W[n] = Null
      BY <2>1, <2>2 DEF Walked
    <3> QED
      BY <2>1, <3>1
  <2>3. CASE W[n - 1] # Null /\ raw[n] \in {"", "."}
    BY <1>3, <2>1, <2>3 DEF Walked, Arrival
  <2>4. CASE W[n - 1] # Null /\ raw[n] = ".."
    <3>1. W[n] = IF W[n - 1] = <<>> THEN Null ELSE Front(W[n - 1])
      BY <2>1, <2>4 DEF Walked
    <3>2. A[n] = Front(W[n - 1])
      BY <1>3, <2>1, <2>4 DEF Arrival, Front
    <3> QED
      BY <2>1, <3>1, <3>2
  <2>5. CASE W[n - 1] # Null /\ raw[n] \notin Dots
    BY <1>3, <2>1, <2>5 DEF Walked, Arrival, Dots
  <2> QED
    BY <2>2, <2>3, <2>4, <2>5 DEF Dots
<1>4. 0..Len(raw) \subseteq Good
  <2>1. Good \in SUBSET Nat
    OBVIOUS
  <2> HIDE DEF Good
  <2> QED
    BY <1>1, <1>2, <1>3, <2>1, Positions
<1>5. Len(raw) \in Good
  BY <1>1, <1>4
<1> QED
  BY <1>5 DEF Normalize, Reached, W, A

\* A path without dots is left as it is.
LEMMA CleanStays ==
  ASSUME NEW p, Clean(p)
  PROVE  Normalize(p) = p /\ Reached(p) = p
<1> DEFINE W == Walk(p)
           Good == {n \in Nat : n \in 0..Len(p) => W[n] = SubSeq(p, 1, n)}
<1>1. p \in Seq(STRING) /\ Len(p) \in Nat /\ WalksTo(W, p, Len(p))
  BY WalkIs DEF Clean
<1> HIDE DEF W
<1>2. 0 \in Good
  <2>1. SubSeq(p, 1, 0) = <<>>
    BY SubSeqEmpty
  <2> QED
    BY <1>1, <2>1 DEF WalksTo
<1>3. ASSUME NEW n \in 1..Len(p), n - 1 \in Good
      PROVE  n \in Good
  <2> DEFINE q == SubSeq(p, 1, n - 1)
  <2>1. W[n] = Walked(q, p[n]) /\ n - 1 \in 0..Len(p) /\ n \in 0..Len(p) /\ n \in Nat
    BY <1>1, <1>3 DEF WalksTo
  <2>2. p[n] \notin Dots /\ p[n] \in STRING
    BY <1>1 DEF Clean
  <2>3. q \in Seq(STRING) /\ Len(q) = n - 1 /\ \A k \in 1..(n - 1) : q[k] = p[k]
    BY <1>1, <2>1, PrefixIs
  <2>4. /\ SubSeq(p, 1, n) \in Seq(STRING) /\ Len(SubSeq(p, 1, n)) = n
        /\ \A k \in 1..n : SubSeq(p, 1, n)[k] = p[k]
    BY <1>1, <2>1, PrefixIs
  <2> HIDE DEF q
  <2>5. q # Null
    BY <2>3, WallAssumption
  <2>6. W[n] = Append(q, p[n])
    BY <2>1, <2>2, <2>5 DEF Walked, Dots
  <2>7. /\ Append(q, p[n]) \in Seq(STRING) /\ Len(Append(q, p[n])) = n
        /\ \A k \in 1..(n - 1) : Append(q, p[n])[k] = q[k]
        /\ Append(q, p[n])[n] = p[n]
    BY <2>1, <2>2, <2>3, AppendIs
  <2>8. \A k \in 1..n : Append(q, p[n])[k] = SubSeq(p, 1, n)[k]
    BY <2>1, <2>3, <2>4, <2>7
  <2>9. Append(q, p[n]) = SubSeq(p, 1, n)
    BY <2>4, <2>7, <2>8, SeqEqual
  <2> QED
    BY <2>1, <2>6, <2>9
<1>4. 0..Len(p) \subseteq Good
  <2>1. Good \in SUBSET Nat
    OBVIOUS
  <2> HIDE DEF Good
  <2> QED
    BY <1>1, <1>2, <1>3, <2>1, Positions
<1>5. W[Len(p)] = SubSeq(p, 1, Len(p))
  BY <1>1, <1>4
<1>6. SubSeq(p, 1, Len(p)) = p
  <2>1. Len(p) \in 0..Len(p)
    BY <1>1
  <2>2. /\ SubSeq(p, 1, Len(p)) \in Seq(STRING) /\ Len(SubSeq(p, 1, Len(p))) = Len(p)
        /\ \A k \in 1..Len(p) : SubSeq(p, 1, Len(p))[k] = p[k]
    BY <1>1, <2>1, PrefixIs
  <2> QED
    BY <1>1, <2>2, SeqEqual
<1>7. Normalize(p) = p
  BY <1>5, <1>6 DEF Normalize, W
<1>8. p # Null
  BY <1>1, WallAssumption
<1> QED
  BY <1>1, <1>7, <1>8, NormalizedIsReached

-----------------------------------------------------------------------------
(* What normalize_path refuses leaves the root *)

\* The ups and the names among the first n components.
Ups(path, n) == {k \in 1..n : path[k] = ".."}
Downs(path, n) == {k \in 1..n : path[k] \notin {"", ".", ".."}}

\* One component more counts as an up, as a down, or as neither.
LEMMA OneMore ==
  ASSUME NEW path, NEW n \in Nat \ {0}
  PROVE  /\ Cardinality(Ups(path, n)) \in Nat /\ Cardinality(Downs(path, n)) \in Nat
         /\ Cardinality(Ups(path, n)) =
              Cardinality(Ups(path, n - 1)) + (IF path[n] = ".." THEN 1 ELSE 0)
         /\ Cardinality(Downs(path, n)) =
              Cardinality(Downs(path, n - 1)) + (IF path[n] \in Dots THEN 0 ELSE 1)
<1>1. /\ IsFiniteSet(1..n) /\ IsFiniteSet(1..(n - 1))
      /\ \A k : k \in 1..n <=> k \in 1..(n - 1) \/ k = n
      /\ n \notin 1..(n - 1)
  <2>1. n - 1 \in Int /\ n \in Int /\ 1 \in Int
    OBVIOUS
  <2>2. IsFiniteSet(1..n) /\ IsFiniteSet(1..(n - 1))
    BY <2>1, FS_Interval
  <2> QED
    BY <2>2
<1>2. /\ Ups(path, n) \subseteq 1..n /\ Downs(path, n) \subseteq 1..n
      /\ Ups(path, n - 1) \subseteq 1..(n - 1) /\ Downs(path, n - 1) \subseteq 1..(n - 1)
  BY DEF Ups, Downs
<1>3. /\ IsFiniteSet(Ups(path, n)) /\ IsFiniteSet(Downs(path, n))
      /\ IsFiniteSet(Ups(path, n - 1)) /\ IsFiniteSet(Downs(path, n - 1))
  BY <1>1, <1>2, FS_Subset
<1>4. /\ Cardinality(Ups(path, n)) \in Nat /\ Cardinality(Downs(path, n)) \in Nat
      /\ Cardinality(Ups(path, n - 1)) \in Nat /\ Cardinality(Downs(path, n - 1)) \in Nat
  BY <1>3, FS_CardinalityType
<1>5. Cardinality(Ups(path, n)) =
        Cardinality(Ups(path, n - 1)) + (IF path[n] = ".." THEN 1 ELSE 0)
  <2>1. CASE path[n] = ".."
    <3>1. Ups(path, n) = Ups(path, n - 1) \cup {n} /\ n \notin Ups(path, n - 1)
      BY <1>1, <2>1 DEF Ups
    <3> QED
      BY <1>3, <2>1, <3>1, FS_AddElement
  <2>2. CASE path[n] # ".."
    <3>1. Ups(path, n) = Ups(path, n - 1)
      BY <1>1, <2>2 DEF Ups
    <3> QED
      BY <1>4, <2>2, <3>1
  <2> QED
    BY <2>1, <2>2
<1>6. Cardinality(Downs(path, n)) =
        Cardinality(Downs(path, n - 1)) + (IF path[n] \in Dots THEN 0 ELSE 1)
  <2>1. CASE path[n] \notin Dots
    <3>1. Downs(path, n) = Downs(path, n - 1) \cup {n} /\ n \notin Downs(path, n - 1)
      BY <1>1, <2>1 DEF Downs, Dots
    <3> QED
      BY <1>3, <2>1, <3>1, FS_AddElement
  <2>2. CASE path[n] \in Dots
    <3>1. Downs(path, n) = Downs(path, n - 1)
      BY <1>1, <2>2 DEF Downs, Dots
    <3> QED
      BY <1>4, <2>2, <3>1
  <2> QED
    BY <2>1, <2>2
<1> QED
  BY <1>4, <1>5, <1>6

\* normalize_path refuses only what climbs out of the root: until then the names
\* that are left, and the ups, account for every name there was.
LEMMA NullEscapes ==
  ASSUME NEW raw \in Seq(STRING), Normalize(raw) = Null
  PROVE  Escapes(raw)
<1> DEFINE W == Walk(raw)
           Up(n) == Cardinality(Ups(raw, n))
           Down(n) == Cardinality(Downs(raw, n))
           Good == {n \in Nat : /\ Up(n) \in Nat /\ Down(n) \in Nat
                                /\ IF W[n] = Null THEN \E m \in 1..n : Up(m) > Down(m)
                                   ELSE W[n] \in Seq(STRING) /\ Len(W[n]) + Up(n) = Down(n)}
<1>1. Len(raw) \in Nat /\ WalksTo(W, raw, Len(raw)) /\ Null \notin Seq(STRING)
  BY WalkIs, WallAssumption
<1> HIDE DEF W
<1>2. 0 \in Good
  <2>1. Ups(raw, 0) = {} /\ Downs(raw, 0) = {}
    BY DEF Ups, Downs
  <2>2. Up(0) = 0 /\ Down(0) = 0
    BY <2>1, FS_EmptySet
  <2>3. W[0] = <<>> /\ <<>> \in Seq(STRING) /\ Len(<<>>) = 0
    BY <1>1 DEF WalksTo
  <2>4. W[0] # Null
    BY <1>1, <2>3
  <2> HIDE DEF Up, Down
  <2>5. Len(W[0]) + Up(0) = Down(0)
    BY <2>2, <2>3
  <2>6. IF W[0] = Null THEN \E m \in 1..0 : Up(m) > Down(m)
        ELSE W[0] \in Seq(STRING) /\ Len(W[0]) + Up(0) = Down(0)
    BY <2>3, <2>4, <2>5
  <2>7. Up(0) \in Nat /\ Down(0) \in Nat
    BY <2>2
  <2> QED
    BY <2>6, <2>7
<1>3. ASSUME NEW n \in 1..Len(raw), n - 1 \in Good
      PROVE  n \in Good
  <2>1. n \in Nat \ {0} /\ W[n] = Walked(W[n - 1], raw[n]) /\ raw[n] \in STRING
    BY <1>1 DEF WalksTo
  <2>2. /\ Up(n) \in Nat /\ Down(n) \in Nat
        /\ Up(n) = Up(n - 1) + (IF raw[n] = ".." THEN 1 ELSE 0)
        /\ Down(n) = Down(n - 1) + (IF raw[n] \in Dots THEN 0 ELSE 1)
    BY <2>1, OneMore
  <2>3. /\ Up(n - 1) \in Nat /\ Down(n - 1) \in Nat
        /\ IF W[n - 1] = Null THEN \E m \in 1..(n - 1) : Up(m) > Down(m)
           ELSE W[n - 1] \in Seq(STRING) /\ Len(W[n - 1]) + Up(n - 1) = Down(n - 1)
    BY <1>3
  <2> HIDE DEF Up, Down
  <2>4. IF W[n] = Null THEN \E m \in 1..n : Up(m) > Down(m)
        ELSE W[n] \in Seq(STRING) /\ Len(W[n]) + Up(n) = Down(n)
    <3>1. CASE W[n - 1] = Null
      <4>1. W[n] = Null
        BY <2>1, <3>1 DEF Walked
      <4>2. PICK m \in 1..(n - 1) : Up(m) > Down(m)
        BY <2>3, <3>1
      <4>3. m \in 1..n
        BY <2>1
      <4> QED
        BY <4>1, <4>2, <4>3
    <3>2. CASE W[n - 1] # Null /\ raw[n] \in {"", "."}
      <4>1. W[n] = W[n - 1]
        BY <2>1, <3>2 DEF Walked
      <4>2. Up(n) = Up(n - 1) /\ Down(n) = Down(n - 1)
        <5>1. raw[n] # ".." /\ raw[n] \in Dots
          BY <3>2 DEF Dots
        <5> QED
          BY <2>2, <2>3, <5>1
      <4> QED
        BY <2>3, <3>2, <4>1, <4>2
    <3>3. CASE W[n - 1] # Null /\ raw[n] = ".."
      <4>1. Up(n) = Up(n - 1) + 1 /\ Down(n) = Down(n - 1)
        BY <2>2, <2>3, <3>3 DEF Dots
      <4>2. W[n - 1] \in Seq(STRING) /\ Len(W[n - 1]) + Up(n - 1) = Down(n - 1)
        BY <2>3, <3>3
      <4>3. CASE W[n - 1] = <<>>
        <5>1. W[n] = Null
          BY <2>1, <3>3, <4>3 DEF Walked
        <5>2. Len(W[n - 1]) = 0
          BY <4>3
        <5>3. Up(n) > Down(n)
          BY <2>3, <4>1, <4>2, <5>2
        <5>4. n \in 1..n
          BY <2>1
        <5> QED
          BY <5>1, <5>3, <5>4
      <4>4. CASE W[n - 1] # <<>>
        <5>1. W[n] = Front(W[n - 1])
          BY <2>1, <3>3, <4>4 DEF Walked
        <5>2. /\ W[n] \in Seq(STRING) /\ Len(W[n]) = Len(W[n - 1]) - 1
              /\ Len(W[n - 1]) \in Nat \ {0}
          BY <4>2, <4>4, <5>1, FrontIs
        <5>3. W[n] # Null
          BY <1>1, <5>2
        <5>4. Len(W[n]) + Up(n) = Down(n)
          BY <2>3, <4>1, <4>2, <5>2
        <5> QED
          BY <5>2, <5>3, <5>4
      <4> QED
        BY <4>3, <4>4
    <3>4. CASE W[n - 1] # Null /\ raw[n] \notin Dots
      <4>1. W[n] = Append(W[n - 1], raw[n])
        BY <2>1, <3>4 DEF Walked, Dots
      <4>2. Up(n) = Up(n - 1) /\ Down(n) = Down(n - 1) + 1
        <5>1. raw[n] # ".."
          BY <3>4 DEF Dots
        <5> QED
          BY <2>2, <2>3, <3>4, <5>1
      <4>3. W[n - 1] \in Seq(STRING) /\ Len(W[n - 1]) + Up(n - 1) = Down(n - 1)
        BY <2>3, <3>4
      <4>4. W[n] \in Seq(STRING) /\ Len(W[n]) = Len(W[n - 1]) + 1 /\ Len(W[n - 1]) \in Nat
        BY <2>1, <4>1, <4>3, AppendIs
      <4>5. W[n] # Null
        BY <1>1, <4>4
      <4>6. Len(W[n]) + Up(n) = Down(n)
        BY <2>3, <4>2, <4>3, <4>4
      <4> QED
        BY <4>4, <4>5, <4>6
    <3> QED
      BY <3>1, <3>2, <3>3, <3>4 DEF Dots
  <2> QED
    BY <2>1, <2>2, <2>4 DEF Up, Down
<1>4. Good \in SUBSET Nat
  OBVIOUS
<1>5. Len(raw) \in Good
  <2> HIDE DEF Good
  <2>1. 0..Len(raw) \subseteq Good
    BY <1>1, <1>2, <1>3, <1>4, Positions
  <2> QED
    BY <1>1, <2>1
<1>6. PICK m \in 1..Len(raw) : Up(m) > Down(m)
  BY <1>5 DEF Normalize, W
<1> QED
  <2>1. m \in DOMAIN raw /\ Cardinality(Ups(raw, m)) > Cardinality(Downs(raw, m))
    BY <1>6
  <2> QED
    BY <2>1 DEF Escapes, Ups, Downs

-----------------------------------------------------------------------------
(* Prefixes, and the modes approved for a path *)

\* A prefix by IsPrefix is a prefix by its length.
LEMMA PrefixesAre ==
  ASSUME NEW t \in Seq(STRING), NEW p \in Seq(STRING)
  PROVE  IsPrefix(t, p) <=> \E n \in 0..Len(p) : t = SubSeq(p, 1, n)
<1>1. Len(t) \in Nat /\ Len(p) \in Nat
  OBVIOUS
<1>2. SubSeq(t, 1, Len(t)) = t
  <2>1. Len(t) \in 0..Len(t)
    BY <1>1
  <2>2. /\ SubSeq(t, 1, Len(t)) \in Seq(STRING) /\ Len(SubSeq(t, 1, Len(t))) = Len(t)
        /\ \A k \in 1..Len(t) : SubSeq(t, 1, Len(t))[k] = t[k]
    BY <2>1, PrefixIs
  <2> QED
    BY <2>2, SeqEqual
<1>3. ASSUME NEW n \in 0..Len(p), t = SubSeq(p, 1, n)
      PROVE  Len(t) = n
  BY <1>3, PrefixIs
<1>4. \A n \in 0..Len(p) : n <= Len(p)
  BY <1>1
<1>5. IsPrefix(t, p) => \E n \in 0..Len(p) : t = SubSeq(p, 1, n)
  <2>1. Len(t) <= Len(p) => Len(t) \in 0..Len(p)
    BY <1>1
  <2> QED
    BY <1>2, <2>1 DEF IsPrefix
<1>6. ASSUME NEW n \in 0..Len(p), t = SubSeq(p, 1, n)
      PROVE  IsPrefix(t, p)
  BY <1>2, <1>3, <1>4, <1>6 DEF IsPrefix
<1> QED
  BY <1>5, <1>6

\* What the guard lets through does not arrive in the trash bin, and what it
\* refuses by name does.
LEMMA TrashIs ==
  ASSUME NEW p \in Seq(STRING), Reached(p) \in Seq(STRING)
  PROVE  InTrash(p) <=> \E t \in Trash : IsPrefix(t, Reached(p))
<1>1. \A t \in Trash : t \in Seq(STRING)
  BY WallAssumption
<1> QED
  BY <1>1, PrefixesAre DEF InTrash

\* A row that opens a path in a mode at a time.
Opens(r, i, p, mode, t) ==
  /\ grants[r].state = Active
  /\ grants[r].instance = i
  /\ t < grants[r].expires
  /\ \E k \in DOMAIN grants[r].items :
       /\ Inside(grants[r].items[k].path, p)
       /\ grants[r].items[k].mode = mode

\* The modes approved for a path without dots are those of the rows that open it.
LEMMA ModesAre ==
  ASSUME IInv, NEW p, Clean(p), NEW i, NEW t, NEW mode
  PROVE  mode \in ApprovedModes(i, p, t) <=> \E r \in Ids : Opens(r, i, p, mode, t)
<1>1. p \in Seq(STRING) /\ Reached(p) = p
  BY CleanStays DEF Clean
<1>2. ASSUME NEW r \in Ids, NEW k \in DOMAIN grants[r].items
      PROVE  grants[r].items[k] \in Items /\ grants[r].items[k].path \in Seq(STRING)
  <2>1. grants[r].items \in Seq(Items)
    BY DEF IInv, RowOK, Row
  <2>2. grants[r].items[k] \in Items
    BY <2>1
  <2> QED
    BY <2>2, WallAssumption
<1>3. ASSUME NEW r \in Ids, NEW k \in DOMAIN grants[r].items
      PROVE  Inside(grants[r].items[k].path, p) <=>
               LET granted == grants[r].items[k].path IN
               granted # <<>> /\ \E n \in 0..Len(Reached(p)) :
                                   granted = SubSeq(Reached(p), 1, n)
  BY <1>1, <1>2, <1>3, PrefixesAre DEF Inside
<1> DEFINE Rows == {s \in Ids : /\ grants[s].state = Active
                                /\ grants[s].instance = i
                                /\ t < grants[s].expires}
           Hits(r) == {grants[r].items[k] : k \in {j \in DOMAIN grants[r].items :
                         LET granted == grants[r].items[j].path IN
                         granted # <<>> /\ \E n \in 0..Len(Reached(p)) :
                                             granted = SubSeq(Reached(p), 1, n)}}
<1>4. ApprovedModes(i, p, t) = {item.mode : item \in UNION {Hits(r) : r \in Rows}}
  BY DEF ApprovedModes
<1>5. \A r \in Rows : r \in Ids
  OBVIOUS
<1>6. \A r \in Ids : \A item : item \in Hits(r) <=>
        \E k \in DOMAIN grants[r].items : item = grants[r].items[k] /\ Inside(item.path, p)
  BY <1>3
<1> HIDE DEF Hits
<1>7. mode \in ApprovedModes(i, p, t) <=> \E r \in Rows : \E item \in Hits(r) : item.mode = mode
  BY <1>4
<1>8. \A r \in Ids : (\E item \in Hits(r) : item.mode = mode) <=>
        \E k \in DOMAIN grants[r].items : /\ Inside(grants[r].items[k].path, p)
                                          /\ grants[r].items[k].mode = mode
  BY <1>6
<1> QED
  BY <1>5, <1>7, <1>8 DEF Opens

\* check_access: a path is covered when a row opens it, in the mode or in write.
LEMMA CoveredIs ==
  ASSUME IInv, NEW i, NEW p, NEW mode \in {"read", "write"}
  PROVE  Covered(i, p, mode) <=>
           \E r \in Ids : \E m \in {"read", "write"} :
             Opens(r, i, p, m, now) /\ (mode = "write" => m = "write")
<1>1. ASSUME NEW r \in Ids
      PROVE  r \in ActiveGrants <=> grants[r].state = Active /\ now < grants[r].expires
  <2>1. grants[r].state = Active => grants[r].expires \in Nat
    BY StoreAssumption DEF IInv, RowOK, Row, RowCoherent
  <2>2. now \in Nat
    BY StoreAssumption DEF IInv
  <2> QED
    BY <2>1, <2>2 DEF ActiveGrants, Effective, TimedOut, Lapsed, Active, Pending, Expired
<1>2. ASSUME NEW r \in Ids, NEW k \in DOMAIN grants[r].items
      PROVE  grants[r].items[k].mode \in {"read", "write"}
  <2>1. grants[r].items \in Seq(Items)
    BY DEF IInv, RowOK, Row
  <2>2. grants[r].items[k] \in Items
    BY <2>1
  <2> QED
    BY <2>2, WallAssumption
<1>3. ASSUME NEW r \in ActiveGrants, grants[r].instance = i,
             NEW k \in DOMAIN grants[r].items, Inside(grants[r].items[k].path, p),
             Suffices(grants[r].items[k].mode, mode)
      PROVE  \E m \in {"read", "write"} :
               Opens(r, i, p, m, now) /\ (mode = "write" => m = "write")
  <2>1. r \in Ids
    BY DEF ActiveGrants
  <2> QED
    BY <1>1, <1>2, <1>3, <2>1 DEF Opens, Suffices
<1>4. ASSUME NEW r \in Ids, NEW m \in {"read", "write"}, Opens(r, i, p, m, now),
             mode = "write" => m = "write"
      PROVE  Covered(i, p, mode)
  BY <1>1, <1>4 DEF Opens, Covered, Suffices
<1>5. ActiveGrants \subseteq Ids
  BY DEF ActiveGrants
<1> QED
  BY <1>3, <1>4, <1>5 DEF Covered

-----------------------------------------------------------------------------
(* What was admitted *)

\* A path on which a request may be sent: free of dots and outside of the trash.
Safe(p) == Clean(p) /\ Acceptable(p)

PathsOK ==
  op.pc # "idle" =>
    /\ op.instance \in Instances \cup Unknown
    /\ op.paths \in Seq(Seq(STRING))
    /\ \A n \in 1..Len(op.paths) : Safe(op.paths[n])

EffectsSafe ==
  \A i \in DOMAIN effects :
    /\ effects[i].paths \in Seq(Seq(STRING))
    /\ \A n \in 1..Len(effects[i].paths) : Safe(effects[i].paths[n])

\* The mode in which a path is opened is one that the tool asks for.
Enough(r, p, t) ==
  \E m \in {"read", "write"} :
    Opens(r, op.instance, p, m, t) /\ (ModeOf(op.tool) = "write" => m = "write")

\* When the tool was called there was a grant for each path admitted since.
GrantedOK ==
  op.pc # "idle" =>
    /\ op.since \in Nat /\ op.since <= now
    /\ \A n \in 1..Len(op.paths) :
         Discovers \/ \E r \in Ids : Enough(r, op.paths[n], op.since)

\* What a step does to the tool that is running, and to the requests.
SameTool ==
  /\ op.pc # "idle" /\ op'.pc # "idle"
  /\ op'.tool = op.tool /\ op'.instance = op.instance /\ op'.since = op.since

Called ==
  /\ op'.pc # "idle" /\ op'.paths = <<>> /\ op'.since = now /\ now' = now
  /\ op'.instance \in Instances \cup Unknown

PathAdmitted(raw) ==
  /\ raw \in Paths /\ Admitted(raw)
  /\ SameTool /\ op'.paths = Append(op.paths, Normalize(raw))
  /\ UNCHANGED storeVars

\* A tool ends, goes on with the same paths and the same grants, is called, or has
\* one path more admitted.
LEMMA ToolMoves ==
  ASSUME WInv, [WallNext]_wallVars
  PROVE  \/ op' = NoOp
         \/ SameTool /\ op'.paths = op.paths /\ grants' = grants /\ (now' = now \/ Tick)
         \/ op'.pc = "idle"
         \/ Called
         \/ \E raw \in Paths : PathAdmitted(raw)
<1>1. ASSUME NEW tool \in ToolsInUse, NEW i \in Instances \cup Unknown,
             NEW paths \in Targets(tool), CallTool(tool, i, paths)
      PROVE  Called
  BY <1>1 DEF CallTool, Called, storeVars
<1>2. ASSUME Admit
      PROVE  \E raw \in Paths : PathAdmitted(raw)
  <2> DEFINE raw == Head(op.unchecked)
  <2>1. /\ op.pc = "checking" /\ Admitted(raw) /\ UNCHANGED storeVars
        /\ op' = [op EXCEPT !.unchecked = Tail(op.unchecked),
                            !.paths = Append(op.paths, Normalize(raw)),
                            !.pc = IF Tail(op.unchecked) = <<>> THEN "recording" ELSE op.pc]
    BY <1>2 DEF Admit, OpFrame
  <2>2. op.unchecked \in Seq(Paths) /\ op.unchecked # <<>> /\ OpFields
    BY <2>1 DEF WInv, OpOK, NoOp
  <2>3. raw \in Paths
    BY <2>2
  <2>4. /\ op'.pc \in {"checking", "recording"}
        /\ op'.tool = op.tool /\ op'.instance = op.instance /\ op'.since = op.since
        /\ op'.paths = Append(op.paths, Normalize(raw))
    <3> HIDE DEF raw
    <3> QED
      BY <2>1, <2>2 DEF OpFields
  <2> QED
    BY <2>1, <2>3, <2>4 DEF PathAdmitted, SameTool
<1>3. CASE Refuse \/ RecordFails \/ OperateFails \/ Restart
  BY <1>3 DEF Refuse, RecordFails, OperateFails, Restart
<1>4. ASSUME RecordStage
      PROVE  SameTool /\ op'.paths = op.paths /\ grants' = grants /\ now' = now
  <2>1. OpFields
    BY DEF WInv, OpOK
  <2>2. op.pc = "recording" /\ op' = [op EXCEPT !.pc = "operating"] /\ UNCHANGED storeVars
    BY <1>4 DEF RecordStage, OpFrame
  <2> QED
    BY <2>1, <2>2 DEF OpFields, SameTool, storeVars
<1>5. ASSUME Operate
      PROVE  \/ op' = NoOp
             \/ SameTool /\ op'.paths = op.paths /\ grants' = grants /\ now' = now
  <2>1. OpFields
    BY DEF WInv, OpOK
  <2>2. /\ op.pc = "operating" /\ UNCHANGED storeVars
        /\ \/ op' = NoOp
           \/ op' = [op EXCEPT !.stages = Tail(op.stages), !.pc = "recording"]
    BY <1>5 DEF Operate, OpFrame
  <2> QED
    BY <2>1, <2>2 DEF OpFields, SameTool, storeVars
<1>6. CASE StoreCall
  BY <1>6 DEF StoreCall, LoopFree, Idle
<1>7. CASE Clock \/ UNCHANGED wallVars
  BY <1>7 DEF Clock, Tick, wallVars, storeVars, SameTool
<1> QED
  BY <1>1, <1>2, <1>3, <1>4, <1>5, <1>6, <1>7 DEF WallNext, ToolStep

\* Requests are carried out by a tool that operates, and by nothing else.
LEMMA RequestMoves ==
  ASSUME [WallNext]_wallVars
  PROVE  effects' = effects \/ (op.pc = "operating" /\ Effect /\ UNCHANGED storeVars)
<1>1. ASSUME NEW tool \in ToolsInUse, NEW i \in Instances \cup Unknown,
             NEW paths \in Targets(tool), CallTool(tool, i, paths)
      PROVE  effects' = effects
  BY <1>1 DEF CallTool
<1>2. CASE ToolStep
  BY <1>2 DEF ToolStep, Admit, Refuse, RecordStage, RecordFails, Operate, OperateFails, OpFrame
<1>3. CASE StoreCall \/ Restart \/ Clock \/ UNCHANGED wallVars
  BY <1>3 DEF StoreCall, Restart, Clock, wallVars
<1> QED
  BY <1>1, <1>2, <1>3 DEF WallNext

\* What check_access admits is free of dots, and the record and the request use
\* just that.
LEMMA AdmittedSafe ==
  ASSUME NEW raw \in Paths, Admitted(raw)
  PROVE  Normalize(raw) \in Seq(STRING) /\ Safe(Normalize(raw)) /\ Reached(raw) = Normalize(raw)
<1>1. raw \in Seq(STRING)
  BY WallAssumption
<1>2. Acceptable(Normalize(raw))
  BY DEF Admitted
<1>3. Normalize(raw) # Null
  BY <1>2 DEF Acceptable
<1>4. Clean(Normalize(raw)) /\ Reached(raw) = Normalize(raw)
  BY <1>1, <1>3, Normalized, NormalizedIsReached
<1> QED
  BY <1>2, <1>4 DEF Safe, Clean

\* Paths are safe from the moment they are admitted.
LEMMA PathsStep ==
  ASSUME WInv, PathsOK, EffectsSafe, [WallNext]_wallVars
  PROVE  PathsOK' /\ EffectsSafe'
<1>1. PathsOK'
  <2>1. CASE op' = NoOp \/ op'.pc = "idle"
    BY <2>1 DEF PathsOK, NoOp
  <2>2. CASE SameTool /\ op'.paths = op.paths
    BY <2>2 DEF SameTool, PathsOK, Safe, Clean, Acceptable
  <2>3. CASE Called
    <3>1. <<>> \in Seq(Seq(STRING)) /\ Len(<<>>) = 0
      OBVIOUS
    <3> QED
      BY <2>3, <3>1 DEF Called, PathsOK
  <2>4. ASSUME NEW raw \in Paths, PathAdmitted(raw)
        PROVE  PathsOK'
    <3> DEFINE p == Normalize(raw)
               S == Seq(STRING)
    <3>1. p \in S /\ Safe(p)
      BY <2>4, AdmittedSafe DEF PathAdmitted
    <3>2. /\ op.instance \in Instances \cup Unknown /\ op.paths \in Seq(S)
          /\ \A n \in 1..Len(op.paths) : Safe(op.paths[n])
      BY <2>4 DEF PathAdmitted, SameTool, PathsOK
    <3>3. op'.paths = Append(op.paths, p) /\ op'.instance = op.instance
      BY <2>4 DEF PathAdmitted, SameTool
    <3> HIDE DEF p, S
    <3>4. /\ Append(op.paths, p) \in Seq(S) /\ Len(Append(op.paths, p)) = Len(op.paths) + 1
          /\ \A n \in 1..Len(op.paths) : Append(op.paths, p)[n] = op.paths[n]
          /\ Append(op.paths, p)[Len(op.paths) + 1] = p
      BY <3>1, <3>2, AppendIs
    <3>5. Len(op.paths) \in Nat
      BY <3>2
    <3>6. \A n \in 1..(Len(op.paths) + 1) : Safe(Append(op.paths, p)[n])
      <4>1. \A n \in 1..(Len(op.paths) + 1) : n \in 1..Len(op.paths) \/ n = Len(op.paths) + 1
        BY <3>5
      <4> QED
        BY <3>1, <3>2, <3>4, <4>1
    <3> QED
      BY <3>2, <3>3, <3>4, <3>6 DEF PathsOK, Safe, Clean, Acceptable, S
  <2> QED
    BY <2>1, <2>2, <2>3, <2>4, ToolMoves
<1>2. EffectsSafe'
  <2>1. CASE effects' = effects
    BY <2>1 DEF EffectsSafe, Safe, Clean, Acceptable
  <2>2. CASE op.pc = "operating" /\ Effect
    <3> DEFINE n == Len(effects)
    <3>1. /\ n \in Nat /\ DOMAIN effects = 1..n /\ DOMAIN effects' = 1..(n + 1)
          /\ \A i \in 1..n : effects'[i] = effects[i]
          /\ effects'[n + 1].paths = op.paths
      BY <2>2, AppendedOK DEF WInv, Effect
    <3>2. op.paths \in Seq(Seq(STRING)) /\ \A k \in 1..Len(op.paths) : Safe(op.paths[k])
      BY <2>2 DEF PathsOK
    <3> HIDE DEF n
    <3>3. \A i \in 1..(n + 1) : i \in 1..n \/ i = n + 1
      BY <3>1
    <3>4. ASSUME NEW i \in 1..(n + 1)
          PROVE  /\ effects'[i].paths \in Seq(Seq(STRING))
                 /\ \A k \in 1..Len(effects'[i].paths) : Safe(effects'[i].paths[k])
      <4>1. CASE i \in 1..n
        BY <3>1, <4>1 DEF EffectsSafe
      <4>2. CASE i = n + 1
        BY <3>1, <3>2, <4>2
      <4> QED
        BY <3>3, <4>1, <4>2
    <3> QED
      BY <3>1, <3>4 DEF EffectsSafe, Safe, Clean, Acceptable
  <2> QED
    BY <2>1, <2>2, RequestMoves
<1> QED
  BY <1>1, <1>2

\* So they are safe in every state, also those that requests were sent for.
LEMMA PathsHold == WallSpec => [](WInv /\ PathsOK /\ EffectsSafe)
<1>1. WallInit => PathsOK /\ EffectsSafe
  BY DEF WallInit, NoOp, PathsOK, EffectsSafe
<1> QED
  BY <1>1, WallInvInit, WallInvStep, PathsStep, PTL DEF WallSpec

\* The trash bin is out of reach of every tool, whatever was approved and however
\* the path is spelled (normalize_path, _namespace_guard, nextcloud.py:159).
THEOREM TrashIsSafe == WallSpec => []TrashIsUnreachable
<1>1. WInv /\ EffectsSafe => TrashIsUnreachable
  <2> SUFFICES ASSUME WInv, EffectsSafe, NEW i \in DOMAIN effects,
                      NEW n \in DOMAIN effects[i].paths
               PROVE  ~InTrash(effects[i].paths[n])
    BY DEF TrashIsUnreachable
  <2> DEFINE p == effects[i].paths[n]
  <2>1. n \in 1..Len(effects[i].paths) /\ Safe(p)
    BY DEF EffectsSafe
  <2> HIDE DEF p
  <2>2. Reached(p) = p /\ p \in Seq(STRING)
    BY <2>1, CleanStays DEF Safe, Clean
  <2>3. ~InTrash(p)
    BY <2>1, <2>2, TrashIs DEF Safe, Acceptable
  <2> QED
    BY <2>3 DEF p
<1> QED
  BY <1>1, PathsHold, PTL

-----------------------------------------------------------------------------
(* What was granted *)

\* The grants are left alone while a tool is running, and the time it was called
\* at only recedes.
LEMMA GrantedStep ==
  ASSUME MayStepBack = FALSE, IInv, IInv', WInv, PathsOK, GrantedOK, [WallNext]_wallVars
  PROVE  GrantedOK'
<1>1. now \in Nat /\ now' \in Nat
  BY StoreAssumption DEF IInv
<1>2. CASE op' = NoOp \/ op'.pc = "idle"
  BY <1>2 DEF GrantedOK, NoOp
<1>3. CASE SameTool /\ op'.paths = op.paths /\ grants' = grants /\ (now' = now \/ Tick)
  <2>1. now <= now'
    BY <1>1, <1>3 DEF Tick
  <2>2. /\ op.since \in Nat /\ op.since <= now
        /\ \A n \in 1..Len(op.paths) :
             Discovers \/ \E r \in Ids : Enough(r, op.paths[n], op.since)
    BY <1>3 DEF SameTool, GrantedOK
  <2>3. op'.since \in Nat /\ op'.since <= now'
    BY <1>1, <1>3, <2>1, <2>2 DEF SameTool
  <2>4. \A n \in 1..Len(op'.paths) :
          Discovers' \/ \E r \in Ids' : Enough(r, op.paths[n], op.since)'
    BY <1>3, <2>2 DEF SameTool, Enough, Opens, Discovers, Ids
  <2> QED
    BY <1>3, <2>3, <2>4 DEF SameTool, GrantedOK, Enough, Opens
<1>4. CASE Called
  BY <1>1, <1>4 DEF Called, GrantedOK
<1>5. ASSUME NEW raw \in Paths, PathAdmitted(raw)
      PROVE  GrantedOK'
  <2> DEFINE p == Normalize(raw)
             S == Seq(STRING)
  <2>1. /\ op.paths \in Seq(S) /\ op.since \in Nat /\ op.since <= now
        /\ \A n \in 1..Len(op.paths) :
             Discovers \/ \E r \in Ids : Enough(r, op.paths[n], op.since)
    BY <1>5 DEF PathAdmitted, SameTool, PathsOK, GrantedOK
  <2>2. p \in S
    BY <1>5, AdmittedSafe DEF PathAdmitted
  <2>3. Discovers \/ \E r \in Ids : Enough(r, p, op.since)
    <3>1. Discovers \/ Covered(op.instance, p, ModeOf(op.tool))
      BY <1>5 DEF PathAdmitted, Admitted
    <3>2. Discovers \/ \E r \in Ids : Enough(r, p, now)
      <4>1. ModeOf(op.tool) \in {"read", "write"}
        BY DEF ModeOf
      <4> HIDE DEF p
      <4> QED
        BY <3>1, <4>1, CoveredIs DEF Enough
    <3>3. ASSUME NEW r \in Ids, Enough(r, p, now)
          PROVE  Enough(r, p, op.since)
      <4>1. grants[r].state = Active => grants[r].expires \in Nat
        BY StoreAssumption DEF IInv, RowOK, Row, RowCoherent
      <4> HIDE DEF p
      <4> QED
        BY <1>1, <2>1, <3>3, <4>1 DEF Enough, Opens
    <3> QED
      BY <3>2, <3>3
  <2>4. /\ op'.paths = Append(op.paths, p) /\ op'.instance = op.instance
        /\ op'.tool = op.tool /\ op'.since = op.since /\ grants' = grants /\ now' = now
    BY <1>5 DEF PathAdmitted, SameTool, storeVars
  <2> HIDE DEF p, S
  <2>5. /\ Len(Append(op.paths, p)) = Len(op.paths) + 1 /\ Len(op.paths) \in Nat
        /\ \A n \in 1..Len(op.paths) : Append(op.paths, p)[n] = op.paths[n]
        /\ Append(op.paths, p)[Len(op.paths) + 1] = p
    BY <2>1, <2>2, AppendIs
  <2>6. \A n \in 1..(Len(op.paths) + 1) : n \in 1..Len(op.paths) \/ n = Len(op.paths) + 1
    BY <2>5
  <2>7. \A n \in 1..Len(op'.paths) :
          Discovers \/ \E r \in Ids : Enough(r, op'.paths[n], op.since)
    BY <2>1, <2>3, <2>4, <2>5, <2>6
  <2> QED
    BY <2>1, <2>4, <2>7 DEF GrantedOK, Discovers, Enough, Opens, Ids
<1> QED
  BY <1>2, <1>3, <1>4, <1>5, ToolMoves

\* A request that is carried out is one that was granted.
LEMMA RequestGranted ==
  ASSUME IInv, WInv, PathsOK, GrantedOK, op.pc = "operating", Effect
  PROVE  LET e == effects'[Len(effects')] IN
         \/ e.verb = "PROPFIND" /\ e.instance \in Discovery
         \/ \A n \in DOMAIN e.paths :
              LET modes == ApprovedModes(e.instance, e.paths[n], op.since) IN
              IF e.verb = "PROPFIND" \/ (e.verb = "GET" /\ op.tool = "read")
              THEN modes # {} ELSE "write" \in modes
<1> DEFINE e == [verb |-> Head(op.stages)[2], instance |-> op.instance,
                 paths |-> op.paths, record |-> Len(trail)]
<1>1. effects'[Len(effects')] = e
  <2>1. IsSequence(effects) /\ effects' = Append(effects, e)
    BY DEF WInv, Effect
  <2> HIDE DEF e
  <2> QED
    BY <2>1, AppendedOK
<1>2. /\ op.tool = "list" => e.verb = "PROPFIND"
      /\ op.tool = "read" => e.verb = "GET"
  <2>1. op.tool \in Tools /\ op.stages \in Remaining(op.tool)
    BY DEF WInv, OpOK, NoOp
  <2>2. Fits(op.tool, Head(op.stages))
    BY <2>1, StagesOK
  <2> QED
    BY <2>2 DEF Fits
<1>3. CASE Discovers
  BY <1>1, <1>2, <1>3 DEF Discovers
<1>4. ASSUME ~Discovers, NEW n \in DOMAIN op.paths
      PROVE  LET modes == ApprovedModes(op.instance, op.paths[n], op.since) IN
             IF e.verb = "PROPFIND" \/ (e.verb = "GET" /\ op.tool = "read")
             THEN modes # {} ELSE "write" \in modes
  <2> DEFINE modes == ApprovedModes(op.instance, op.paths[n], op.since)
  <2>1. n \in 1..Len(op.paths) /\ Clean(op.paths[n])
    BY DEF PathsOK, Safe
  <2>2. PICK r \in Ids, m \in {"read", "write"} :
          /\ Opens(r, op.instance, op.paths[n], m, op.since)
          /\ ModeOf(op.tool) = "write" => m = "write"
    BY <1>4, <2>1 DEF GrantedOK, Enough
  <2>3. m \in modes
    BY <2>1, <2>2, ModesAre
  <2> HIDE DEF modes, e
  <2>4. CASE ModeOf(op.tool) = "write"
    BY <2>2, <2>3, <2>4 DEF modes
  <2>5. CASE ModeOf(op.tool) # "write"
    <3>1. op.tool \in {"list", "read"}
      BY <2>5 DEF ModeOf
    <3> QED
      BY <1>2, <2>3, <3>1 DEF modes
  <2> QED
    BY <2>4, <2>5
<1>5. e.paths = op.paths /\ e.instance = op.instance
  OBVIOUS
<1> HIDE DEF e
<1> QED
  BY <1>1, <1>3, <1>4, <1>5

\* Nothing reaches Nextcloud without a live grant: every path of every request
\* is inside an item approved in that mode, not revoked and live when the tool was
\* called (nextcloud.py, check_access of paths.py).
THEOREM NothingUngranted ==
  ASSUME MayStepBack = FALSE
  PROVE  WallSpec => EffectsAreGranted
<1> DEFINE Inv == IInv /\ WInv /\ PathsOK /\ GrantedOK
<1>1. WallSpec => []IInv
  BY UsesTheStore, InvInductive, PTL
<1>2. WallInit => GrantedOK
  BY DEF WallInit, NoOp, GrantedOK
<1>3. WallSpec => []Inv
  <2>1. IInv /\ IInv' /\ WInv /\ PathsOK /\ GrantedOK /\ [WallNext]_wallVars => GrantedOK'
    BY GrantedStep
  <2> QED
    BY <1>1, <1>2, <2>1, PathsHold, PTL DEF WallSpec
<1>4. Inv /\ [WallNext]_wallVars =>
        [effects' # effects =>
           LET e == effects'[Len(effects')] IN
           \/ e.verb = "PROPFIND" /\ e.instance \in Discovery
           \/ \A n \in DOMAIN e.paths :
                LET modes == ApprovedModes(e.instance, e.paths[n], op.since) IN
                IF e.verb = "PROPFIND" \/ (e.verb = "GET" /\ op.tool = "read")
                THEN modes # {} ELSE "write" \in modes]_wallVars
  BY RequestMoves, RequestGranted
<1> QED
  BY <1>3, <1>4, PTL DEF WallSpec, EffectsAreGranted

-----------------------------------------------------------------------------
(* What was refused *)

\* A path that no live row opens is one that no approved mode is on.
LEMMA RefusedIs ==
  ASSUME IInv, WInv, PathsOK, op.pc = "checking", op.tool # "list",
         NEW raw \in Paths, ~Admitted(raw)
  PROVE  LET p == RefusalRecord(raw).paths[1]
             modes == ApprovedModes(op.instance, p, now) IN
         /\ RefusalRecord(raw).decision = "refused"
         /\ RefusalRecord(raw).instance = op.instance
         /\ DOMAIN RefusalRecord(raw).paths = {1}
         /\ \/ op.instance \in Unknown
            \/ Escapes(p) \/ InTrash(p)
            \/ modes = {} \/ (ModeOf(op.tool) = "write" /\ "write" \notin modes)
<1> DEFINE norm == Normalize(raw)
           p == IF op.instance \in Instances /\ Acceptable(norm) THEN norm ELSE raw
           modes == ApprovedModes(op.instance, p, now)
<1>1. /\ RefusalRecord(raw).decision = "refused"
      /\ RefusalRecord(raw).instance = op.instance
      /\ RefusalRecord(raw).paths = <<p>>
  BY DEF RefusalRecord
<1>2. DOMAIN <<p>> = {1} /\ <<p>>[1] = p
  OBVIOUS
<1>3. raw \in Seq(STRING) /\ (op.instance \in Instances \/ op.instance \in Unknown)
  BY WallAssumption DEF PathsOK
<1>4. ASSUME op.instance \in Instances, ~Acceptable(norm)
      PROVE  Escapes(p) \/ InTrash(p)
  <2>1. p = raw
    BY <1>4
  <2>2. CASE norm = Null
    BY <1>3, <2>1, <2>2, NullEscapes
  <2>3. CASE norm # Null
    <3>1. Reached(raw) = norm /\ norm \in Seq(STRING)
      BY <1>3, <2>3, Normalized, NormalizedIsReached DEF Clean
    <3>2. \E t \in Trash : IsPrefix(t, norm)
      BY <1>4, <2>3 DEF Acceptable
    <3>3. InTrash(raw)
      BY <1>3, <3>1, <3>2, TrashIs
    <3> QED
      BY <2>1, <3>3
  <2> QED
    BY <2>2, <2>3
<1>5. ASSUME op.instance \in Instances, Acceptable(norm)
      PROVE  modes = {} \/ (ModeOf(op.tool) = "write" /\ "write" \notin modes)
  <2>1. p = norm
    BY <1>5
  <2>2. Clean(norm)
    BY <1>3, <1>5, Normalized DEF Acceptable
  <2>3. ~Covered(op.instance, norm, ModeOf(op.tool)) /\ ModeOf(op.tool) \in {"read", "write"}
    BY <1>5 DEF Admitted, ModeOf
  <2>4. ASSUME NEW m \in modes
        PROVE  m \in {"read", "write"} /\ ModeOf(op.tool) = "write" /\ m # "write"
    <3>1. PICK r \in Ids : Opens(r, op.instance, norm, m, now)
      BY <2>1, <2>2, <2>4, ModesAre
    <3>2. m \in {"read", "write"}
      <4>1. PICK k \in DOMAIN grants[r].items : grants[r].items[k].mode = m
        BY <3>1 DEF Opens
      <4>2. grants[r].items \in Seq(Items)
        BY DEF IInv, RowOK, Row
      <4>3. grants[r].items[k] \in Items
        BY <4>2
      <4> QED
        BY <4>1, <4>3, WallAssumption
    <3> HIDE DEF norm
    <3> QED
      BY <2>3, <3>1, <3>2, CoveredIs
  <2> HIDE DEF modes
  <2> QED
    BY <2>4
<1> HIDE DEF modes, p, norm
<1> QED
  BY <1>1, <1>2, <1>3, <1>4, <1>5 DEF modes

\* The only step that ends a tool at its checks, short of a fault, refuses.
LEMMA RefusalIs ==
  ASSUME WInv, [WallNext]_wallVars, op.pc = "checking", op'.pc = "idle", faults' = faults
  PROVE  Refuse
<1>1. faults \in Nat
  BY WallAssumption DEF WInv
<1>2. ~Fault
  BY <1>1 DEF Fault
<1>3. ASSUME NEW tool \in ToolsInUse, NEW i \in Instances \cup Unknown,
             NEW paths \in Targets(tool), CallTool(tool, i, paths)
      PROVE  FALSE
  BY <1>3 DEF CallTool, Idle
<1>4. ~Admit
  <2> SUFFICES ASSUME Admit PROVE FALSE
    OBVIOUS
  <2>1. OpFields
    BY DEF WInv, OpOK
  <2> QED
    BY <2>1 DEF Admit, OpFields
<1>5. ~RecordStage /\ ~RecordFails /\ ~Operate /\ ~OperateFails
  BY DEF RecordStage, RecordFails, Operate, OperateFails
<1>6. ~StoreCall /\ ~Restart /\ ~Clock /\ ~UNCHANGED wallVars
  BY <1>2 DEF StoreCall, LoopFree, Idle, Restart, Clock, wallVars
<1> QED
  BY <1>3, <1>4, <1>5, <1>6 DEF WallNext, ToolStep

\* That step writes the record of the path that was refused.
LEMMA RefusalRecorded ==
  ASSUME IInv, WInv, PathsOK, [WallNext]_wallVars,
         op.pc = "checking", op'.pc = "idle", op.tool # "list", faults' = faults
  PROVE  /\ Len(trail') = Len(trail) + 1
         /\ LET record == trail'[Len(trail')] IN
            /\ record.decision = "refused" /\ record.instance = op.instance
            /\ \A n \in DOMAIN record.paths :
                 LET modes == ApprovedModes(op.instance, record.paths[n], now) IN
                 \/ op.instance \in Unknown
                 \/ Escapes(record.paths[n]) \/ InTrash(record.paths[n])
                 \/ modes = {} \/ (ModeOf(op.tool) = "write" /\ "write" \notin modes)
<1> DEFINE raw == Head(op.unchecked)
           record == RefusalRecord(raw)
<1>1. Refuse
  BY RefusalIs
<1>2. op.unchecked \in Seq(Paths) /\ op.unchecked # <<>>
  BY DEF WInv, OpOK, NoOp
<1>3. raw \in Paths
  BY <1>2
<1>4. ~Fault
  <2>1. faults \in Nat
    BY WallAssumption DEF WInv
  <2> QED
    BY <2>1 DEF Fault
<1>5. ~Admitted(raw) /\ trail' = Append(trail, record)
  BY <1>1, <1>4 DEF Refuse
<1> HIDE DEF raw, record
<1>6. Len(trail') = Len(trail) + 1 /\ trail'[Len(trail')] = record
  BY <1>5, AppendedOK DEF WInv
<1>7. LET p == record.paths[1]
          modes == ApprovedModes(op.instance, p, now) IN
      /\ record.decision = "refused"
      /\ record.instance = op.instance
      /\ DOMAIN record.paths = {1}
      /\ \/ op.instance \in Unknown
         \/ Escapes(p) \/ InTrash(p)
         \/ modes = {} \/ (ModeOf(op.tool) = "write" /\ "write" \notin modes)
  BY <1>3, <1>5, RefusedIs DEF record
<1> QED
  BY <1>6, <1>7

\* A tool that is refused leaves one record, and the path in it is one that no
\* live grant opens, that leaves the root, or that arrives in the trash bin,
\* however it was spelled and whatever the clock does (_refuse, nextcloud.py:171-221).
THEOREM NothingRefusedInSilence == WallSpec => RefusalsAreRecorded
<1>1. WallSpec => [](IInv /\ WInv /\ PathsOK)
  BY UsesTheStore, InvInductive, PathsHold, PTL
<1>2. IInv /\ WInv /\ PathsOK /\ [WallNext]_wallVars =>
        [op.pc = "checking" /\ op'.pc = "idle" /\ op.tool # "list" /\ faults' = faults =>
           /\ Len(trail') = Len(trail) + 1
           /\ LET record == trail'[Len(trail')] IN
              /\ record.decision = "refused" /\ record.instance = op.instance
              /\ \A n \in DOMAIN record.paths :
                   LET modes == ApprovedModes(op.instance, record.paths[n], now) IN
                   \/ op.instance \in Unknown
                   \/ Escapes(record.paths[n]) \/ InTrash(record.paths[n])
                   \/ modes = {} \/ (ModeOf(op.tool) = "write" /\ "write" \notin modes)]_wallVars
  BY RefusalRecorded
<1> QED
  BY <1>1, <1>2, PTL DEF WallSpec, RefusalsAreRecorded
=============================================================================
