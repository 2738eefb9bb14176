--------------------------------- MODULE Wall ---------------------------------
(***************************************************************************)
(* The wall: the file tools of the broker, from the tool call to the request  *)
(* that reaches Nextcloud (broker/nextcloud.py, broker/paths.py, and _op of   *)
(* broker/server.py), over the grant store.                                 *)
(*                                                                         *)
(* A file tool runs without an await, so it holds the event loop from its     *)
(* call to its answer: no grant is filed, decided or revoked meanwhile, and   *)
(* no other tool runs.  Time does pass - the checks, the fsyncs of the audit  *)
(* log and the HTTP requests are steps of their own - and each of them may    *)
(* fail, or be the last thing the process does.                             *)
(*                                                                         *)
(* A path is the sequence of its components once the encodings are undone, with *)
(* the dots a caller may send; the checks resolve it and hand on what they     *)
(* resolved it to.  The audit log is what audit.py promises of it: record()    *)
(* either writes the record and then runs the operation, or raises.          *)
(***************************************************************************)
EXTENDS GrantStore, SequencesExt

CONSTANTS
  Paths,       \* the paths callers send; <<>> is the root of an instance
  Trash,       \* the namespaces refused by name, in every spelling
  Discovery,   \* the instances with standing discovery
  Unknown,     \* instance names that are not configured
  ToolsInUse,  \* the file tools the agent and the CLI call
  MaxOps,      \* bound on the tool calls
  MaxFaults    \* bound on failing audit writes, failing requests and crashes

-----------------------------------------------------------------------------
(* Paths *)

\* One component: "." and empty ones are skipped, ".." pops, at the root it fails.
Walked(parts, component) ==
  CASE parts = Null \/ component \in {"", "."} -> parts
    [] parts = <<>> /\ component = ".." -> Null
    [] parts \notin {Null, <<>>} /\ component = ".." -> Front(parts)
    [] OTHER -> Append(parts, component)

\* Mutant: the path is taken as it was sent.
Normalize_Kept(raw) == raw

\* normalize_path: the path after its first n components, and the path it stands
\* for; Null when it leaves the root.
Walk(raw) ==
  LET walk[n \in 0..Len(raw)] == IF n = 0 THEN <<>> ELSE Walked(walk[n - 1], raw[n])
  IN walk

Normalize(raw) == Walk(raw)[Len(raw)]

\* The file tools, by what they carry: content moves on the transfer surface only.
ContentTools == {"read", "write", "checkout", "checkin"}

Tools == ContentTools \cup {"list", "move", "trash", "mkdir"}

ASSUME WallAssumption ==
  /\ Paths \cup Trash \cup {item.path : item \in Items} \subseteq Seq(STRING)
  /\ Null \notin Seq(STRING)
  /\ \A item \in Items :
       Normalize(item.path) = item.path /\ item.mode \in {"read", "write"}
  /\ Discovery \subseteq Instances
  /\ Unknown \cap Instances = {}
  /\ ToolsInUse \subseteq Tools
  /\ MaxOps \in Nat /\ MaxFaults \in Nat

VARIABLES
  op,      \* the file tool that is running
  trail,   \* the audit records, oldest first
  effects, \* the requests Nextcloud carried out, oldest first
  ops,     \* tool calls so far
  faults   \* faults so far

wallVars == <<storeVars, op, trail, effects, ops, faults>>

-----------------------------------------------------------------------------
(* What each tool asks for and does *)

\* The principal of the surface a tool is registered on.
PrincipalOf(tool) == IF tool \in ContentTools THEN "transfer" ELSE "agent"

ModeOf(tool) == IF tool \in {"list", "read"} THEN "read" ELSE "write"

\* The audited stages of a tool: the operation recorded and the request sent.
Stages(tool) ==
  CASE tool = "list"     -> << <<"list", "PROPFIND">> >>
    [] tool = "read"     -> << <<"read", "GET">> >>
    [] tool = "write"    -> << <<"write", "PUT">> >>
    [] tool = "move"     -> << <<"move", "MOVE">> >>
    [] tool = "trash"    -> << <<"trash", "DELETE">> >>
    [] tool = "mkdir"    -> << <<"mkdir", "MKCOL">> >>
    [] tool = "checkout" -> << <<"checkout", "LOCK">>, <<"read", "GET">> >>
    [] tool = "checkin"  -> << <<"checkin", "PUT">>, <<"checkin-unlock", "UNLOCK">> >>

\* move names a source and a destination, every other tool one path.
Targets(tool) == IF tool = "move" THEN Paths \X Paths ELSE {<<p>> : p \in Paths}

\*   unchecked  the paths still to be checked, in order, as they were sent
\*   paths      those that were admitted, resolved
\*   stages     the stages still to be recorded and run
\*   since      when the tool was called
NoOp == [pc |-> "idle", tool |-> Null, instance |-> Null, paths |-> <<>>,
         unchecked |-> <<>>, stages |-> <<>>, since |-> Null]

Idle == op.pc = "idle"

WallInit ==
  /\ StoreInit
  /\ op = NoOp
  /\ trail = <<>>
  /\ effects = <<>>
  /\ ops = 0
  /\ faults = 0

Fault ==
  /\ faults < MaxFaults
  /\ faults' = faults + 1

-----------------------------------------------------------------------------
(* check_access *)

\* Exact component-prefix containment; a grant on the root covers nothing.
Inside(granted, p) == granted # <<>> /\ IsPrefix(granted, p)

Suffices(granted, mode) == mode = "read" \/ granted = "write"

\* Mutant: every mode of a grant is paired with its first path.
Covered_FirstItem(i, p, mode) ==
  \E r \in ActiveGrants :
    /\ grants[r].instance = i
    /\ \E k \in DOMAIN grants[r].items :
         /\ Inside(grants[r].items[1].path, p)
         /\ Suffices(grants[r].items[k].mode, mode)

\* Some item of a live grant on the instance covers the path in that mode.
Covered(i, p, mode) ==
  \E r \in ActiveGrants :
    /\ grants[r].instance = i
    /\ \E k \in DOMAIN grants[r].items :
         /\ Inside(grants[r].items[k].path, p)
         /\ Suffices(grants[r].items[k].mode, mode)

\* list on an instance with standing discovery needs no grant.
Discovers == op.tool = "list" /\ op.instance \in Discovery

\* _namespace_guard: neither malformed nor in the trash bin.
Acceptable(p) == p # Null /\ \A t \in Trash : ~IsPrefix(t, p)

\* Mutant: the namespace guard looks at the first path only.
Admitted_SourceOnly(raw) ==
  LET p == Normalize(raw) IN
  /\ op.instance \in Instances
  /\ IF op.paths = <<>> THEN Acceptable(p) ELSE p # Null
  /\ Discovers \/ Covered(op.instance, p, ModeOf(op.tool))

\* _authorized, and the same checks in list: a configured instance, an
\* admissible namespace, a covering grant, in that order.
Admitted(raw) ==
  LET p == Normalize(raw) IN
  /\ op.instance \in Instances
  /\ Acceptable(p)
  /\ Discovers \/ Covered(op.instance, p, ModeOf(op.tool))

-----------------------------------------------------------------------------
(* One file tool *)

OpFrame == UNCHANGED <<storeVars, ops>>

\* A file tool is called; it has the loop until it answers.
CallTool(tool, i, paths) ==
  /\ Idle
  /\ ops < MaxOps
  /\ ops' = ops + 1
  /\ op' = [pc |-> "checking", tool |-> tool, instance |-> i, paths |-> <<>>,
            unchecked |-> paths, stages |-> Stages(tool), since |-> now]
  /\ UNCHANGED <<storeVars, trail, effects, faults>>

\* The next path is admitted; what follows uses the path it resolves to.
Admit ==
  /\ op.pc = "checking"
  /\ Admitted(Head(op.unchecked))
  /\ op' = [op EXCEPT !.unchecked = Tail(@),
                      !.paths = Append(@, Normalize(Head(op.unchecked))),
                      !.pc = IF Tail(op.unchecked) = <<>> THEN "recording" ELSE @]
  /\ UNCHANGED <<trail, effects, faults>>
  /\ OpFrame

\* The record of a refused path: resolved when only the grant is missing, else
\* as it was sent, and stamped with the principal of the layer.
RefusalRecord(raw) ==
  [decision |-> "refused", operation |-> ModeOf(op.tool), instance |-> op.instance,
   paths |-> << IF op.instance \in Instances /\ Acceptable(Normalize(raw))
                THEN Normalize(raw) ELSE raw >>,
   principal |-> "agent"]

\* Mutant: the record names the first path of the tool, not the one refused.
Refuse_First ==
  /\ op.pc = "checking"
  /\ ~Admitted(Head(op.unchecked))
  /\ \/ /\ trail' = IF op.tool = "list" THEN trail
                   ELSE Append(trail, RefusalRecord(Head(op.paths \o op.unchecked)))
        /\ UNCHANGED faults
     \/ op.tool # "list" /\ Fault /\ UNCHANGED trail
  /\ op' = NoOp
  /\ UNCHANGED effects
  /\ OpFrame

\* AccessRefused: nothing is sent.  The record of the refusal is best effort; list
\* refuses without one.
Refuse ==
  /\ op.pc = "checking"
  /\ ~Admitted(Head(op.unchecked))
  /\ \/ /\ trail' = IF op.tool = "list" THEN trail
                   ELSE Append(trail, RefusalRecord(Head(op.unchecked)))
        /\ UNCHANGED faults
     \/ op.tool # "list" /\ Fault /\ UNCHANGED trail
  /\ op' = NoOp
  /\ UNCHANGED effects
  /\ OpFrame

\* _audit_and: the record of the next stage is written.
RecordStage ==
  /\ op.pc = "recording"
  /\ trail' = Append(trail,
       [decision |-> "allowed", operation |-> Head(op.stages)[1],
        instance |-> op.instance, paths |-> op.paths, principal |-> PrincipalOf(op.tool)])
  /\ op' = [op EXCEPT !.pc = "operating"]
  /\ UNCHANGED <<effects, faults>>
  /\ OpFrame

\* LogWriteError: the stage does not run and the tool answers with an error.
\* The record may be in the log all the same (its checkpoint failed).
RecordFails ==
  /\ op.pc = "recording"
  /\ Fault
  /\ \/ UNCHANGED trail
     \/ trail' = Append(trail,
          [decision |-> "allowed", operation |-> Head(op.stages)[1],
           instance |-> op.instance, paths |-> op.paths,
           principal |-> PrincipalOf(op.tool)])
  /\ op' = NoOp
  /\ UNCHANGED effects
  /\ OpFrame

\* Nextcloud carries the request out; `record' is the audit record it is under.
Effect == effects' = Append(effects,
  [verb |-> Head(op.stages)[2], instance |-> op.instance, paths |-> op.paths,
   record |-> Len(trail)])

\* Mutant: one record for all the stages of a tool.
Operate_Unrecorded ==
  /\ op.pc = "operating"
  /\ Effect
  /\ op' = IF Len(op.stages) = 1 THEN NoOp ELSE [op EXCEPT !.stages = Tail(@)]
  /\ UNCHANGED <<trail, faults>>
  /\ OpFrame

\* The request of the stage succeeds: the next stage, or the answer.
Operate ==
  /\ op.pc = "operating"
  /\ Effect
  /\ op' = IF Len(op.stages) = 1 THEN NoOp
           ELSE [op EXCEPT !.stages = Tail(@), !.pc = "recording"]
  /\ UNCHANGED <<trail, faults>>
  /\ OpFrame

\* The request fails, or its answer is lost: the tool answers with an error and
\* runs no further stage.
OperateFails ==
  /\ op.pc = "operating"
  /\ Fault
  /\ Effect \/ UNCHANGED effects
  /\ op' = NoOp
  /\ UNCHANGED trail
  /\ OpFrame

-----------------------------------------------------------------------------
(* The rest of the process *)

\* Mutant: file tools run in worker threads.
LoopFree_Threaded == TRUE

\* The loop is free: no file tool is running.
LoopFree == Idle

\* Requests and decisions, of the approval plane.
StoreCall ==
  /\ LoopFree
  /\ \/ \E i \in Instances, batch \in Batches : CreateRequest(i, batch)
     \/ \E r \in Ids, duration \in Durations :
          \E sel \in Selections \cup {Everything(grants[r].items)} :
            Approve(r, sel, duration)
     \/ \E r \in Ids : Reject(r) \/ Revoke(r)
  /\ UNCHANGED <<op, trail, effects, ops, faults>>

\* The process ends, in the middle of a tool (a fault) or between two, and a new
\* one opens the store.
Restart ==
  /\ IF Idle THEN UNCHANGED faults ELSE Fault
  /\ Reopen
  /\ op' = NoOp
  /\ UNCHANGED <<trail, effects, ops>>

Clock == Tick /\ UNCHANGED <<op, trail, effects, ops, faults>>

ToolStep ==
  \/ Admit \/ Refuse \/ RecordStage \/ RecordFails \/ Operate \/ OperateFails

WallNext ==
  \/ \E tool \in ToolsInUse, i \in Instances \cup Unknown :
       \E paths \in Targets(tool) : CallTool(tool, i, paths)
  \/ ToolStep
  \/ StoreCall
  \/ Restart
  \/ Clock

WallSpec == WallInit /\ [][WallNext]_wallVars

-----------------------------------------------------------------------------
(* Properties *)

Verb == {"PROPFIND", "GET", "PUT", "MOVE", "DELETE", "MKCOL", "LOCK", "UNLOCK"}

\* Type invariant of the wall.
WallTypeOK ==
  /\ StoreTypeOK
  /\ op.pc \in {"idle", "checking", "recording", "operating"}
  /\ op.pc = "checking" <=> op.unchecked # <<>>
  /\ op.pc = "idle" <=> op.stages = <<>>
  /\ \A i \in DOMAIN effects :
       effects[i].verb \in Verb /\ effects[i].record \in DOMAIN trail
  /\ ops \in 0..MaxOps
  /\ faults \in 0..MaxFaults

\* Where the storage arrives with a path: it resolves dots, and stays in its root.
Arrivals(path) ==
  LET at[n \in 0..Len(path)] ==
        IF n = 0 THEN <<>>
        ELSE CASE path[n] \in {"", "."} -> at[n - 1]
               [] path[n] = ".." -> SubSeq(at[n - 1], 1, Len(at[n - 1]) - 1)
               [] OTHER -> Append(at[n - 1], path[n])
  IN at

Reached(path) == Arrivals(path)[Len(path)]

\* The path climbs out of its root: up to some component, more ".." than names.
Escapes(path) ==
  \E n \in DOMAIN path :
    Cardinality({k \in 1..n : path[k] = ".."}) >
      Cardinality({k \in 1..n : path[k] \notin {"", ".", ".."}})

InTrash(path) ==
  \E t \in Trash : \E n \in 0..Len(Reached(path)) : t = SubSeq(Reached(path), 1, n)

\* The modes approved for a path, by grants that nobody has revoked and that had
\* not ended at a time.
ApprovedModes(i, path, time) ==
  {item.mode : item \in UNION {
     {grants[r].items[k] : k \in {j \in DOMAIN grants[r].items :
         LET granted == grants[r].items[j].path IN
         granted # <<>> /\ \E n \in 0..Len(Reached(path)) :
                             granted = SubSeq(Reached(path), 1, n)}} :
     r \in {s \in Ids : /\ grants[s].state = Active
                        /\ grants[s].instance = i
                        /\ time < grants[s].expires}}}

\* Nothing reaches Nextcloud without a live grant: at the moment a request is
\* carried out, every place its paths arrive at - both ends of a move, the second
\* stage of a checkout - is inside an item of that very mode, approved, not revoked
\* and live when the tool was called.  Discovery opens listing and nothing else
\* (nextcloud.py:3-8, architecture.md, "The wall").
EffectsAreGranted ==
  [][effects' # effects =>
       LET e == effects'[Len(effects')] IN
       \/ e.verb = "PROPFIND" /\ e.instance \in Discovery
       \/ \A n \in DOMAIN e.paths :
            LET modes == ApprovedModes(e.instance, e.paths[n], op.since) IN
            IF e.verb = "PROPFIND" \/ (e.verb = "GET" /\ op.tool = "read")
            THEN modes # {} ELSE "write" \in modes]_wallVars

\* The trash bin is out of reach, even for a grant that names it and for a path
\* that climbs there: no request arrives in it, at either end.
TrashIsUnreachable ==
  \A i \in DOMAIN effects :
    \A n \in DOMAIN effects[i].paths : ~InTrash(effects[i].paths[n])

\* The operation that is recorded for each request.
RecordedAs(verb) ==
  CASE verb = "PROPFIND" -> {"list"}    [] verb = "GET"    -> {"read"}
    [] verb = "PUT"      -> {"write", "checkin"}
    [] verb = "MOVE"     -> {"move"}    [] verb = "DELETE" -> {"trash"}
    [] verb = "MKCOL"    -> {"mkdir"}   [] verb = "LOCK"   -> {"checkout"}
    [] verb = "UNLOCK"   -> {"checkin-unlock"}

\* Nothing is done unobserved: every request that was carried out has an audit
\* record of its own, written before it, that names the operation, the paths and
\* the surface; content only ever moves under the transfer principal.  The tool and
\* the records keep their shape throughout.
EffectsAreRecorded ==
  /\ WallTypeOK
  /\ \A i \in DOMAIN effects :
       LET record == trail[effects[i].record] IN
       /\ record.decision = "allowed"
       /\ record.operation \in RecordedAs(effects[i].verb)
       /\ record.instance = effects[i].instance
       /\ record.paths = effects[i].paths
       /\ effects[i].verb \in {"GET", "PUT", "LOCK", "UNLOCK"} =>
            record.principal = "transfer"
       /\ \A j \in DOMAIN effects \ {i} : effects[j].record # effects[i].record

\* A refusal is visible, and its record tells the truth (nextcloud.py:171-174):
\* unless the audit log fails, the refused tool leaves one record, and the path in
\* it is one that no live grant opens - not the other, granted end of a move.
\* list is the exception the code makes.
RefusalsAreRecorded ==
  [][op.pc = "checking" /\ op'.pc = "idle" /\ op.tool # "list" /\ faults' = faults =>
       /\ Len(trail') = Len(trail) + 1
       /\ LET record == trail'[Len(trail')] IN
          /\ record.decision = "refused" /\ record.instance = op.instance
          /\ \A n \in DOMAIN record.paths :
               LET modes == ApprovedModes(op.instance, record.paths[n], now) IN
               \/ op.instance \in Unknown
               \/ Escapes(record.paths[n]) \/ InTrash(record.paths[n])
               \/ modes = {} \/ (ModeOf(op.tool) = "write" /\ "write" \notin modes)]_wallVars
=============================================================================
