----------------------------- MODULE Process_proofs -----------------------------
(***************************************************************************)
(* Proofs about the life of the process, for any configurations, requests,     *)
(* tokens and failures of the surfaces.                                       *)
(***************************************************************************)
EXTENDS Process, FiniteSetTheorems, SequenceTheorems, TLAPS

LEMMA RoutesAre ==
  /\ Routes = <<"transfer", "mcp">> /\ Len(Routes) = 2 /\ DOMAIN Routes = {1, 2}
  /\ Surfaces = {"transfer", "mcp"}
  /\ Routes[1] = "transfer" /\ Routes[2] = "mcp"
<1>1. Routes = <<"transfer", "mcp">> /\ Len(Routes) = 2 /\ DOMAIN Routes = {1, 2}
  BY DEF Routes
<1> QED
  BY <1>1 DEF Surfaces

-----------------------------------------------------------------------------
(* Tokens, listener and session *)

\* The tokens are apart from the moment there is a surface to reach, and what was
\* reached was reached with the token of its surface.
TokensOK ==
  /\ setup \in Setups \cup {Null} /\ (main = "loading" => setup \in Setups)
  /\ tokens \in [Surfaces -> LongTokens \cup {Null}]
  /\ main \in {"wiring", "wired", "starting", "serving", "stopping", "cancelling"} =>
       /\ tokens \in [Surfaces -> LongTokens]
       /\ tokens["mcp"] # tokens["transfer"]
  /\ main = "loading" => reached = {}
  /\ reached # {} => tokens["mcp"] # tokens["transfer"]
  /\ \A p \in reached : p \in Surfaces \X LongTokens /\ p[2] = tokens[p[1]]

\* What main() holds at each point of its life.
HoldsOK ==
  /\ main \in {"loading", "wiring", "wired", "starting", "serving", "stopping",
               "cancelling", "ended"}
  /\ audit \in BOOLEAN /\ store \in BOOLEAN /\ stopping \in BOOLEAN
  /\ main \in {"loading", "wiring", "wired"} => listener = "none" /\ session = "none"
  /\ main \in {"starting", "serving", "stopping"} => listener = "running" /\ session = "open"
  /\ main = "cancelling" => listener \in {"cancelling", "ended"} /\ session = "open"
  /\ main = "ended" => \/ listener = "none" /\ session = "none"
                       \/ listener = "ended" /\ session = "closed"

-----------------------------------------------------------------------------
(* The lifespans *)

\* A surface: its state and its two queues.
Is(s, state, in, out) == surface[s] = state /\ inbox[s] = in /\ outbox[s] = out

Fresh(s) == Is(s, "none", <<>>, <<>>)

Starting(s) ==
  \/ Is(s, "starting", <<"startup">>, <<>>)
  \/ Is(s, "up", <<>>, <<"startup.complete">>)
  \/ Is(s, "dead", <<>>, <<"startup.failed">>)
  \/ Is(s, "dead", <<>>, <<"startup.complete", "shutdown.failed">>)

Started(s) ==
  \/ Is(s, "up", <<>>, <<>>)
  \/ Is(s, "dead", <<>>, <<"shutdown.failed">>)

Broken(s) == Is(s, "dead", <<>>, <<>>)

Stopping(s) ==
  \/ Is(s, "up", <<"shutdown">>, <<>>)
  \/ Is(s, "dead", <<"shutdown">>, <<"shutdown.failed">>)
  \/ Is(s, "stopped", <<>>, <<"shutdown.complete">>)

Crashed(s) == Is(s, "dead", <<"shutdown">>, <<>>)

Done(s) == Is(s, "stopped", <<>>, <<>>)

\* Where a surface is depends on where its driver is, before, at or after the one
\* PathDispatch is driving, and on whether it starts them or stops them.
Rising == dispatch.pc \in {"startup", "starting"} \/ told = "startup.failed"
Falling ==
  dispatch.pc \in {"shutdown", "stopping", "joining", "raised"} \/ told = "shutdown.complete"

SurfaceOK(i) ==
  LET s == Routes[i] IN
  /\ dispatch.pc = "none" => Fresh(s)
  /\ dispatch.pc = "idle" => Started(s)
  /\ Rising /\ i < dispatch.at => Started(s)
  /\ Rising /\ i > dispatch.at => Fresh(s)
  /\ Falling /\ i < dispatch.at => Done(s)
  /\ Falling /\ i > dispatch.at => Started(s)
  /\ i = dispatch.at =>
       /\ dispatch.pc = "startup" => Fresh(s)
       /\ dispatch.pc = "starting" => Starting(s)
       /\ told = "startup.failed" => Broken(s)
       /\ dispatch.pc = "shutdown" => Started(s)
       /\ dispatch.pc = "stopping" => Stopping(s)
       /\ dispatch.pc = "joining" => Crashed(s) \/ Done(s)
       /\ dispatch.pc = "raised" => Crashed(s)
       /\ told = "shutdown.complete" => Done(s)

LifespanOK ==
  /\ surface \in [Surfaces -> {"none", "starting", "up", "stopped", "dead"}]
  /\ inbox = [s \in Surfaces |-> inbox[s]]
  /\ outbox = [s \in Surfaces |-> outbox[s]]
  /\ \A i \in {1, 2} : SurfaceOK(i)

\* What PathDispatch has told the server, and where main() may be meanwhile.
DispatchOK ==
  /\ dispatch \in [pc : {"none", "startup", "starting", "idle", "shutdown", "stopping",
                         "joining", "returned", "raised"}, at : {1, 2}]
  /\ dispatch.pc \in {"none", "startup", "starting"} => told = Null
  /\ dispatch.pc \in {"idle", "shutdown", "stopping", "joining", "raised"} =>
       told = "startup.complete"
  /\ dispatch.pc = "returned" => told \in {"startup.failed", "shutdown.complete"}
  /\ told = "shutdown.complete" => dispatch.at = 2
  /\ dispatch.pc \in {"none", "idle"} => dispatch.at = 1
  /\ main \in {"loading", "wiring", "wired"} => dispatch.pc = "none"
  /\ main = "serving" => dispatch.pc = "idle"
  /\ main = "starting" => dispatch.pc \in {"startup", "starting", "idle", "returned"}

\* The surfaces that failed after their startup were counted.
Fallen(s) ==
  /\ surface[s] = "dead"
  /\ outbox[s] # <<"startup.failed">>
  /\ ~(told = "startup.failed" /\ s = Driven)

DeathsOK ==
  /\ deaths \in 0..MaxDeaths
  /\ \A s \in Surfaces : Fallen(s) => deaths >= 1
  /\ (\A s \in Surfaces : Fallen(s)) => deaths >= 2

ProcessIInv == TokensOK /\ HoldsOK /\ LifespanOK /\ DispatchOK /\ DeathsOK

-----------------------------------------------------------------------------
(* Tokens *)

LEMMA TokensStep ==
  ASSUME TokensOK, HoldsOK, [ProcessNext]_processVars
  PROVE  TokensOK'
<1>1. CASE LoadConfig
  <2>1. setup \in Setups /\ reached = {} /\ reached' = {} /\ setup' = Null
    BY <1>1 DEF LoadConfig, TokensOK
  <2>2. CASE Accepts(setup.raw, setup.env) /\ AcceptsLogging(setup.raw)
    <3> DEFINE agent == AgentToken(setup.raw, setup.env)
               transfer == TransferToken(setup.raw, setup.env)
    <3>1. agent \in LongTokens /\ transfer \in LongTokens /\ agent # transfer
      BY <2>2 DEF Accepts, AcceptsAgent
    <3>2. main' = "wiring" /\ tokens' = [mcp |-> agent, transfer |-> transfer]
      BY <1>1, <2>2 DEF LoadConfig
    <3> HIDE DEF agent, transfer
    <3>3. tokens' \in [Surfaces -> LongTokens] /\ tokens'["mcp"] # tokens'["transfer"]
      BY <3>1, <3>2, RoutesAre
    <3> QED
      BY <2>1, <3>2, <3>3 DEF TokensOK
  <2>3. CASE ~(Accepts(setup.raw, setup.env) /\ AcceptsLogging(setup.raw))
    <3>1. main' = "ended" /\ UNCHANGED tokens
      BY <1>1, <2>3 DEF LoadConfig
    <3> QED
      BY <2>1, <3>1 DEF TokensOK
  <2> QED
    BY <2>2, <2>3
<1>2. ASSUME NEW path \in Paths, NEW token \in Presented, Request(path, token)
      PROVE  TokensOK'
  <2>1. /\ RouteOf(path) \in Surfaces /\ token = tokens[RouteOf(path)] /\ main = "serving"
        /\ reached' = reached \cup {<<RouteOf(path), token>>}
        /\ UNCHANGED <<main, setup, tokens>>
    BY <1>2 DEF Request, RouteOf, MainFrame, wiringVars
  <2> QED
    BY <2>1 DEF TokensOK
<1>3. ASSUME UNCHANGED <<setup, tokens, reached>>, main' # "loading",
             main' = "ended" \/ main \in {"wiring", "wired", "starting", "serving", "stopping",
                                           "cancelling"}
      PROVE  TokensOK'
  BY <1>3 DEF TokensOK, HoldsOK
<1>4. CASE Wire
  BY <1>3, <1>4 DEF Wire
<1>5. CASE Launch
  BY <1>3, <1>5 DEF Launch, wiringVars
<1>6. CASE OpenSockets \/ CloseSockets \/ ServeReturns \/ Cancelled
  BY <1>3, <1>6 DEF OpenSockets, CloseSockets, ServeReturns, Cancelled, CancelListener, MainFrame,
                    wiringVars
<1>7. CASE Finish
  BY <1>3, <1>7 DEF Finish, wiringVars
<1>8. ASSUME UNCHANGED <<main, setup, tokens, reached>>
      PROVE  TokensOK'
  BY <1>8 DEF TokensOK
<1>9. CASE AskToStop \/ ListenerEnds \/ Ended \/ UNCHANGED processVars
  BY <1>8, <1>9 DEF AskToStop, ListenerEnds, Ended, MainFrame, wiringVars, processVars
<1>10. CASE DispatchStep
  BY <1>8, <1>10 DEF DispatchStep, DriveStartup, StartupReply, DriveShutdown, ShutdownReply, Join,
                     DispatchFrame, wiringVars
<1>11. ASSUME NEW s \in Surfaces, SurfaceStep(s)
       PROVE  TokensOK'
  BY <1>8, <1>11 DEF SurfaceStep, SurfaceStarts, SurfaceStops, SurfaceDies, SurfaceFrame, wiringVars
<1> QED
  BY <1>1, <1>2, <1>4, <1>5, <1>6, <1>7, <1>9, <1>10, <1>11 DEF ProcessNext, MainStep

-----------------------------------------------------------------------------
(* Listener and session *)

LEMMA HoldsStep ==
  ASSUME HoldsOK, [ProcessNext]_processVars
  PROVE  HoldsOK'
<1>1. CASE LoadConfig \/ Wire \/ Launch
  BY <1>1 DEF LoadConfig, Wire, Launch, HoldsOK, wiringVars
<1>2. CASE OpenSockets \/ CloseSockets \/ ServeReturns \/ Cancelled
  BY <1>2 DEF OpenSockets, CloseSockets, ServeReturns, Cancelled, CancelListener, MainFrame,
              wiringVars, HoldsOK
<1>3. CASE Finish
  BY <1>3 DEF Finish, ListenerAwaited, HoldsOK, wiringVars
<1>4. CASE ListenerEnds \/ AskToStop
  BY <1>4 DEF ListenerEnds, AskToStop, MainFrame, wiringVars, HoldsOK
<1>5. ASSUME UNCHANGED <<main, audit, store, stopping, listener, session>>
      PROVE  HoldsOK'
  BY <1>5 DEF HoldsOK
<1>6. CASE DispatchStep
  BY <1>5, <1>6 DEF DispatchStep, DriveStartup, StartupReply, DriveShutdown, ShutdownReply, Join,
                    DispatchFrame, wiringVars
<1>7. ASSUME NEW s \in Surfaces, SurfaceStep(s)
      PROVE  HoldsOK'
  BY <1>5, <1>7 DEF SurfaceStep, SurfaceStarts, SurfaceStops, SurfaceDies, SurfaceFrame, wiringVars
<1>8. ASSUME NEW path \in Paths, NEW token \in Presented, Request(path, token)
      PROVE  HoldsOK'
  BY <1>5, <1>8 DEF Request, MainFrame, wiringVars
<1>9. CASE Ended \/ UNCHANGED processVars
  BY <1>5, <1>9 DEF Ended, processVars, wiringVars
<1> QED
  BY <1>1, <1>2, <1>3, <1>4, <1>6, <1>7, <1>8, <1>9 DEF ProcessNext, MainStep

\* The listener is awaited before the client of the homeserver is closed, and no
\* end of main() leaves either behind.
THEOREM NothingIsLeft == ProcessSpec => []NothingDangles
<1>1. ProcessInit => HoldsOK
  BY DEF ProcessInit, HoldsOK
<1>2. HoldsOK => NothingDangles
  BY DEF HoldsOK, NothingDangles
<1> QED
  BY <1>1, <1>2, HoldsStep, PTL DEF ProcessSpec

\* The content tools answer to the transfer token only.
THEOREM SurfacesAreApart == ProcessSpec => []SurfacesAreSeparate
<1>1. ProcessInit => HoldsOK /\ TokensOK
  BY RoutesAre DEF ProcessInit, HoldsOK, TokensOK
<1>2. TokensOK => SurfacesAreSeparate
  <2> SUFFICES ASSUME TokensOK, NEW p \in reached, NEW q \in reached, p[2] = q[2]
               PROVE  p[1] = q[1]
    BY DEF SurfacesAreSeparate
  <2>1. /\ p[1] \in Surfaces /\ q[1] \in Surfaces
        /\ p[2] = tokens[p[1]] /\ q[2] = tokens[q[1]] /\ tokens["mcp"] # tokens["transfer"]
    BY DEF TokensOK
  <2> QED
    BY <2>1, RoutesAre
<1> QED
  BY <1>1, <1>2, HoldsStep, TokensStep, PTL DEF ProcessSpec

-----------------------------------------------------------------------------
(* The lifespans of the surfaces *)

\* The queues hold one message or two.
LEMMA Queues ==
  ASSUME NEW a, NEW b
  PROVE  /\ Append(<<>>, a) = <<a>> /\ Append(<<a>>, b) = <<a, b>>
         /\ Head(<<a>>) = a /\ Tail(<<a>>) = <<>>
         /\ Head(<<a, b>>) = a /\ Tail(<<a, b>>) = <<b>>
         /\ <<a>> # <<>> /\ <<a, b>> # <<>> /\ <<a>> # <<a, b>>
<1> DEFINE S == {a, b}
           app == Append(<<a>>, b)
           pair == <<a, b>>
<1>1. <<a>> \in Seq(S) /\ pair \in Seq(S) /\ b \in S
  OBVIOUS
<1>2. app \in Seq(S) /\ Len(app) = 2 /\ app[1] = a /\ app[2] = b
  BY <1>1
<1>3. Len(pair) = 2 /\ pair[1] = a /\ pair[2] = b
  OBVIOUS
<1>4. app = pair
  <2> HIDE DEF S, app, pair
  <2>1. Len(app) = Len(pair) /\ \A k \in 1..Len(app) : app[k] = pair[k]
    BY <1>2, <1>3
  <2> QED
    BY <1>1, <1>2, <2>1, SeqEqual
<1> QED
  BY <1>4

LEMMA DrivenIs ==
  ASSUME DispatchOK
  PROVE  /\ dispatch.at \in {1, 2} /\ Driven = Routes[dispatch.at] /\ Driven \in Surfaces
         /\ \A i \in {1, 2} : /\ Routes[i] \in Surfaces
                              /\ Routes[i] = Driven <=> i = dispatch.at
BY RoutesAre DEF DispatchOK, Driven

\* A message is put in a queue.
LEMMA Sent ==
  ASSUME LifespanOK, NEW s \in Surfaces, NEW message
  PROVE  /\ Send(inbox, s, message) => /\ inbox'[s] = Append(inbox[s], message)
                                       /\ \A r \in Surfaces \ {s} : inbox'[r] = inbox[r]
                                       /\ inbox' = [r \in Surfaces |-> inbox'[r]]
         /\ Send(outbox, s, message) => /\ outbox'[s] = Append(outbox[s], message)
                                        /\ \A r \in Surfaces \ {s} : outbox'[r] = outbox[r]
                                        /\ outbox' = [r \in Surfaces |-> outbox'[r]]
BY DEF LifespanOK, Send

LEMMA DriveStartupStep ==
  ASSUME LifespanOK, DispatchOK, DriveStartup
  PROVE  LifespanOK'
<1>1. PICK at \in {1, 2}, s \in Surfaces :
        /\ at = dispatch.at /\ s = Driven /\ s = Routes[at]
        /\ \A i \in {1, 2} : Routes[i] \in Surfaces /\ (Routes[i] = s <=> i = at)
  BY DrivenIs
<1>2. /\ inbox'[s] = Append(inbox[s], "startup")
      /\ \A r \in Surfaces \ {s} : inbox'[r] = inbox[r]
      /\ inbox' = [r \in Surfaces |-> inbox'[r]]
  BY <1>1, Sent DEF DriveStartup
<1>3. /\ surface'[s] = "starting"
      /\ \A r \in Surfaces \ {s} : surface'[r] = surface[r]
      /\ surface' \in [Surfaces -> {"none", "starting", "up", "stopped", "dead"}]
  BY <1>1 DEF DriveStartup, LifespanOK
<1>4. /\ UNCHANGED <<outbox, told>>
      /\ dispatch.pc = "startup" /\ dispatch'.pc = "starting" /\ dispatch'.at = at
  BY <1>1 DEF DriveStartup, DispatchOK
<1>5. told = Null /\ Null # "startup.failed" /\ Null # "shutdown.complete"
  BY <1>4, NothingSaid DEF DispatchOK, Messages
<1>6. Fresh(s)
  BY <1>1, <1>4 DEF LifespanOK, SurfaceOK
<1>7. Starting(s)'
  BY <1>2, <1>3, <1>4, <1>6, Queues DEF Fresh, Starting, Is
<1>8. SurfaceOK(at)'
  BY <1>1, <1>4, <1>5, <1>7 DEF SurfaceOK, Rising, Falling
<1>9. ASSUME NEW i \in {1, 2}, i # at
      PROVE  SurfaceOK(i)'
  BY <1>1, <1>2, <1>3, <1>4, <1>5, <1>9
  DEF LifespanOK, SurfaceOK, Rising, Falling, Started, Fresh, Is
<1> QED
  BY <1>1, <1>2, <1>3, <1>4, <1>8, <1>9 DEF LifespanOK

LEMMA StartupReplyStep ==
  ASSUME LifespanOK, DispatchOK, StartupReply
  PROVE  LifespanOK'
<1>1. PICK at \in {1, 2}, s \in Surfaces :
        /\ at = dispatch.at /\ s = Driven /\ s = Routes[at]
        /\ \A i \in {1, 2} : Routes[i] \in Surfaces /\ (Routes[i] = s <=> i = at)
  BY DrivenIs
<1>2. /\ outbox'[s] = Tail(outbox[s]) /\ outbox[s] # <<>>
      /\ \A r \in Surfaces \ {s} : outbox'[r] = outbox[r]
      /\ outbox' = [r \in Surfaces |-> outbox'[r]]
      /\ UNCHANGED <<inbox, surface>>
  BY <1>1 DEF StartupReply, LifespanOK
<1>3. dispatch.pc = "starting" /\ told = Null /\ Null # "startup.failed" /\ Null # "shutdown.complete"
  BY NothingSaid DEF StartupReply, DispatchOK, Messages
<1>4. Starting(s)
  BY <1>1, <1>3 DEF LifespanOK, SurfaceOK
<1>5. CASE Head(outbox[s]) = "startup.complete"
  <2>1. Started(s)'
    <3>1. Head(<<"startup.failed">>) = "startup.failed"
      BY Queues
    <3>2. /\ Tail(<<"startup.complete">>) = <<>>
          /\ Tail(<<"startup.complete", "shutdown.failed">>) = <<"shutdown.failed">>
      BY Queues
    <3>3. \/ surface[s] = "up" /\ inbox[s] = <<>> /\ outbox[s] = <<"startup.complete">>
          \/ /\ surface[s] = "dead" /\ inbox[s] = <<>>
             /\ outbox[s] = <<"startup.complete", "shutdown.failed">>
      BY <1>2, <1>4, <1>5, <3>1 DEF Starting, Is
    <3> QED
      BY <1>2, <3>2, <3>3 DEF Started, Is
  <2>2. CASE at = 1
    <3>1. dispatch'.pc = "startup" /\ dispatch'.at = 2 /\ UNCHANGED told
      BY <1>1, <1>5, <2>2, RoutesAre DEF StartupReply, Last
    <3>2. SurfaceOK(1)'
      BY <1>1, <1>3, <2>1, <2>2, <3>1 DEF SurfaceOK, Rising, Falling
    <3>3. SurfaceOK(2)'
      BY <1>1, <1>2, <1>3, <2>2, <3>1 DEF LifespanOK, SurfaceOK, Rising, Falling, Fresh, Is
    <3> QED
      BY <1>2, <3>2, <3>3 DEF LifespanOK
  <2>3. CASE at = 2
    <3>1. dispatch'.pc = "idle" /\ dispatch'.at = 1 /\ told' = "startup.complete"
      BY <1>1, <1>5, <2>3, RoutesAre DEF StartupReply, Last
    <3>2. SurfaceOK(2)'
      BY <1>1, <2>1, <2>3, <3>1 DEF SurfaceOK, Rising, Falling
    <3>3. SurfaceOK(1)'
      <4>1. Started(Routes[1])
        BY <1>1, <1>3, <2>3 DEF LifespanOK, SurfaceOK, Rising
      <4>2. Started(Routes[1])'
        BY <1>1, <1>2, <2>3, <4>1 DEF Started, Is
      <4> QED
        BY <3>1, <4>2 DEF SurfaceOK, Rising, Falling
    <3> QED
      BY <1>2, <3>2, <3>3 DEF LifespanOK
  <2> QED
    BY <2>2, <2>3
<1>6. CASE Head(outbox[s]) # "startup.complete"
  <2>1. Broken(s)'
    BY <1>2, <1>4, <1>6, Queues DEF Starting, Broken, Is
  <2>2. dispatch'.pc = "returned" /\ dispatch'.at = at /\ told' = "startup.failed"
    BY <1>1, <1>6 DEF StartupReply, DispatchOK
  <2>3. SurfaceOK(at)'
    BY <1>1, <2>1, <2>2 DEF SurfaceOK, Rising, Falling
  <2>4. ASSUME NEW i \in {1, 2}, i # at
        PROVE  SurfaceOK(i)'
    BY <1>1, <1>2, <1>3, <2>2, <2>4
    DEF LifespanOK, SurfaceOK, Rising, Falling, Started, Fresh, Is
  <2> QED
    BY <1>2, <2>3, <2>4 DEF LifespanOK
<1> QED
  BY <1>5, <1>6

LEMMA DriveShutdownStep ==
  ASSUME LifespanOK, DispatchOK, DriveShutdown
  PROVE  LifespanOK'
<1>1. PICK at \in {1, 2}, s \in Surfaces :
        /\ at = dispatch.at /\ s = Driven /\ s = Routes[at]
        /\ \A i \in {1, 2} : Routes[i] \in Surfaces /\ (Routes[i] = s <=> i = at)
  BY DrivenIs
<1>2. /\ inbox'[s] = Append(inbox[s], "shutdown")
      /\ \A r \in Surfaces \ {s} : inbox'[r] = inbox[r]
      /\ inbox' = [r \in Surfaces |-> inbox'[r]]
  BY <1>1, Sent DEF DriveShutdown
<1>3. /\ UNCHANGED <<outbox, surface, told>> /\ told = "startup.complete"
      /\ dispatch.pc = "shutdown" /\ dispatch'.pc = "stopping" /\ dispatch'.at = at
  BY <1>1 DEF DriveShutdown, DispatchOK
<1>4. Started(s)
  BY <1>1, <1>3 DEF LifespanOK, SurfaceOK
<1>5. Stopping(s)'
  BY <1>2, <1>3, <1>4, Queues DEF Started, Stopping, Is
<1>6. SurfaceOK(at)'
  BY <1>1, <1>3, <1>5 DEF SurfaceOK, Rising, Falling
<1>7. ASSUME NEW i \in {1, 2}, i # at
      PROVE  SurfaceOK(i)'
  BY <1>1, <1>2, <1>3, <1>7 DEF LifespanOK, SurfaceOK, Rising, Falling, Started, Done, Is
<1> QED
  BY <1>1, <1>2, <1>3, <1>6, <1>7 DEF LifespanOK

LEMMA ShutdownReplyStep ==
  ASSUME LifespanOK, DispatchOK, ShutdownReply
  PROVE  LifespanOK'
<1>1. PICK at \in {1, 2}, s \in Surfaces :
        /\ at = dispatch.at /\ s = Driven /\ s = Routes[at]
        /\ \A i \in {1, 2} : Routes[i] \in Surfaces /\ (Routes[i] = s <=> i = at)
  BY DrivenIs
<1>2. /\ outbox'[s] = Tail(outbox[s]) /\ outbox[s] # <<>>
      /\ \A r \in Surfaces \ {s} : outbox'[r] = outbox[r]
      /\ outbox' = [r \in Surfaces |-> outbox'[r]]
      /\ UNCHANGED <<inbox, surface, told>>
  BY <1>1 DEF ShutdownReply, LifespanOK
<1>3. /\ dispatch.pc = "stopping" /\ told = "startup.complete"
      /\ dispatch'.pc = "joining" /\ dispatch'.at = at
  BY <1>1 DEF ShutdownReply, DispatchOK
<1>4. Stopping(s)
  BY <1>1, <1>3 DEF LifespanOK, SurfaceOK
<1>5. (Crashed(s) \/ Done(s))'
  BY <1>2, <1>4, Queues DEF Stopping, Crashed, Done, Is
<1>6. SurfaceOK(at)'
  BY <1>1, <1>2, <1>3, <1>5 DEF SurfaceOK, Rising, Falling
<1>7. ASSUME NEW i \in {1, 2}, i # at
      PROVE  SurfaceOK(i)'
  BY <1>1, <1>2, <1>3, <1>7 DEF LifespanOK, SurfaceOK, Rising, Falling, Started, Done, Is
<1> QED
  BY <1>1, <1>2, <1>3, <1>6, <1>7 DEF LifespanOK

LEMMA JoinStep ==
  ASSUME LifespanOK, DispatchOK, Join
  PROVE  LifespanOK'
<1>1. PICK at \in {1, 2}, s \in Surfaces :
        /\ at = dispatch.at /\ s = Driven /\ s = Routes[at]
        /\ \A i \in {1, 2} : Routes[i] \in Surfaces /\ (Routes[i] = s <=> i = at)
  BY DrivenIs
<1>2. UNCHANGED <<inbox, outbox, surface>> /\ dispatch.pc = "joining" /\ told = "startup.complete"
  BY DEF Join, DispatchOK
<1>3. Crashed(s) \/ Done(s)
  BY <1>1, <1>2 DEF LifespanOK, SurfaceOK
<1>4. Raised(s) <=> Crashed(s)
  BY <1>3 DEF Raised, Crashed, Done, Is
<1>5. CASE Raised(s)
  <2>1. dispatch'.pc = "raised" /\ dispatch'.at = at /\ UNCHANGED told
    BY <1>1, <1>5 DEF Join, DispatchOK
  <2>2. ASSUME NEW i \in {1, 2}
        PROVE  SurfaceOK(i)'
    BY <1>1, <1>2, <1>4, <1>5, <2>1
    DEF LifespanOK, SurfaceOK, Rising, Falling, Started, Crashed, Done, Is
  <2> QED
    BY <1>2, <2>2 DEF LifespanOK
<1>6. CASE ~Raised(s) /\ at = 1
  <2>1. dispatch'.pc = "shutdown" /\ dispatch'.at = 2 /\ UNCHANGED told
    BY <1>1, <1>6, RoutesAre DEF Join
  <2>2. Done(Routes[1]) /\ Started(Routes[2])
    BY <1>1, <1>2, <1>3, <1>4, <1>6 DEF LifespanOK, SurfaceOK, Falling
  <2>3. Done(Routes[1])' /\ Started(Routes[2])'
    BY <1>2, <2>2 DEF Done, Started, Is
  <2>4. SurfaceOK(1)' /\ SurfaceOK(2)'
    BY <1>2, <2>1, <2>3 DEF SurfaceOK, Rising, Falling
  <2> QED
    BY <1>2, <2>4 DEF LifespanOK
<1>7. CASE ~Raised(s) /\ at = 2
  <2>1. dispatch'.pc = "returned" /\ dispatch'.at = 2 /\ told' = "shutdown.complete"
    <3>1. dispatch' = [dispatch EXCEPT !.pc = "returned"] /\ told' = "shutdown.complete"
      BY <1>1, <1>7, RoutesAre DEF Join
    <3> QED
      BY <1>1, <1>7, <3>1 DEF DispatchOK
  <2>2. Done(Routes[1]) /\ Done(Routes[2])
    BY <1>1, <1>2, <1>3, <1>4, <1>7 DEF LifespanOK, SurfaceOK, Falling
  <2>3. Done(Routes[1])' /\ Done(Routes[2])'
    BY <1>2, <2>2 DEF Done, Is
  <2>4. SurfaceOK(1)' /\ SurfaceOK(2)'
    BY <2>1, <2>3 DEF SurfaceOK, Rising, Falling
  <2> QED
    BY <1>2, <2>4 DEF LifespanOK
<1> QED
  BY <1>5, <1>6, <1>7

\* A surface that goes on, or fails, stays where its driver expects it.
LEMMA SurfaceStays ==
  ASSUME LifespanOK, NEW s \in Surfaces, SurfaceStep(s)
  PROVE  /\ \A r \in Surfaces \ {s} : /\ surface'[r] = surface[r] /\ inbox'[r] = inbox[r]
                                      /\ outbox'[r] = outbox[r]
         /\ surface' \in [Surfaces -> {"none", "starting", "up", "stopped", "dead"}]
         /\ inbox' = [r \in Surfaces |-> inbox'[r]]
         /\ outbox' = [r \in Surfaces |-> outbox'[r]]
         /\ Fresh(s) => Fresh(s)'
         /\ Starting(s) => Starting(s)'
         /\ Started(s) => Started(s)'
         /\ Broken(s) => Broken(s)'
         /\ Stopping(s) => Stopping(s)'
         /\ Crashed(s) => Crashed(s)'
         /\ Done(s) => Done(s)'
<1>1. /\ surface \in [Surfaces -> {"none", "starting", "up", "stopped", "dead"}]
      /\ inbox = [r \in Surfaces |-> inbox[r]] /\ outbox = [r \in Surfaces |-> outbox[r]]
  BY DEF LifespanOK
<1>2. CASE SurfaceStarts(s)
  <2>1. /\ surface[s] = "starting" /\ inbox[s] # <<>> /\ inbox' = [inbox EXCEPT ![s] = Tail(@)]
        /\ \/ surface' = [surface EXCEPT ![s] = "up"] /\ Send(outbox, s, "startup.complete")
           \/ surface' = [surface EXCEPT ![s] = "dead"] /\ Send(outbox, s, "startup.failed")
    BY <1>2 DEF SurfaceStarts
  <2>2. /\ inbox'[s] = Tail(inbox[s]) /\ \A r \in Surfaces \ {s} : inbox'[r] = inbox[r]
        /\ inbox' = [r \in Surfaces |-> inbox'[r]]
    BY <1>1, <2>1
  <2>3. /\ \/ surface'[s] = "up" /\ outbox'[s] = Append(outbox[s], "startup.complete")
           \/ surface'[s] = "dead" /\ outbox'[s] = Append(outbox[s], "startup.failed")
        /\ \A r \in Surfaces \ {s} : surface'[r] = surface[r] /\ outbox'[r] = outbox[r]
        /\ surface' \in [Surfaces -> {"none", "starting", "up", "stopped", "dead"}]
        /\ outbox' = [r \in Surfaces |-> outbox'[r]]
    BY <1>1, <2>1, Sent
  <2>4. /\ ~Fresh(s) /\ ~Started(s) /\ ~Broken(s) /\ ~Stopping(s) /\ ~Crashed(s) /\ ~Done(s)
        /\ Starting(s) => Is(s, "starting", <<"startup">>, <<>>)
    BY <2>1 DEF Fresh, Starting, Started, Broken, Stopping, Crashed, Done, Is
  <2>5. /\ Tail(<<"startup">>) = <<>> /\ Append(<<>>, "startup.complete") = <<"startup.complete">>
        /\ Append(<<>>, "startup.failed") = <<"startup.failed">>
    BY Queues
  <2>6. Starting(s) => Starting(s)'
    BY <2>2, <2>3, <2>4, <2>5 DEF Starting, Is
  <2> QED
    BY <2>2, <2>3, <2>4, <2>6
<1>3. CASE SurfaceStops(s)
  <2>1. /\ surface[s] = "up" /\ inbox[s] # <<>> /\ inbox' = [inbox EXCEPT ![s] = Tail(@)]
        /\ surface' = [surface EXCEPT ![s] = "stopped"] /\ Send(outbox, s, "shutdown.complete")
    BY <1>3 DEF SurfaceStops
  <2>2. /\ inbox'[s] = Tail(inbox[s]) /\ \A r \in Surfaces \ {s} : inbox'[r] = inbox[r]
        /\ inbox' = [r \in Surfaces |-> inbox'[r]]
    BY <1>1, <2>1
  <2>3. /\ surface'[s] = "stopped" /\ outbox'[s] = Append(outbox[s], "shutdown.complete")
        /\ \A r \in Surfaces \ {s} : surface'[r] = surface[r] /\ outbox'[r] = outbox[r]
        /\ surface' \in [Surfaces -> {"none", "starting", "up", "stopped", "dead"}]
        /\ outbox' = [r \in Surfaces |-> outbox'[r]]
    BY <1>1, <2>1, Sent
  <2>4. /\ ~Fresh(s) /\ ~Started(s) /\ ~Broken(s) /\ ~Starting(s) /\ ~Crashed(s) /\ ~Done(s)
        /\ Stopping(s) => Is(s, "up", <<"shutdown">>, <<>>)
    BY <2>1 DEF Fresh, Starting, Started, Broken, Stopping, Crashed, Done, Is
  <2>5. /\ Tail(<<"shutdown">>) = <<>>
        /\ Append(<<>>, "shutdown.complete") = <<"shutdown.complete">>
    BY Queues
  <2>6. Stopping(s) => Stopping(s)'
    BY <2>2, <2>3, <2>4, <2>5 DEF Stopping, Is
  <2> QED
    BY <2>2, <2>3, <2>4, <2>6
<1>4. CASE SurfaceDies(s)
  <2>1. /\ surface[s] = "up" /\ UNCHANGED inbox
        /\ surface' = [surface EXCEPT ![s] = "dead"] /\ Send(outbox, s, "shutdown.failed")
    BY <1>4 DEF SurfaceDies
  <2>2. /\ surface'[s] = "dead" /\ outbox'[s] = Append(outbox[s], "shutdown.failed")
        /\ \A r \in Surfaces \ {s} : surface'[r] = surface[r] /\ outbox'[r] = outbox[r]
        /\ surface' \in [Surfaces -> {"none", "starting", "up", "stopped", "dead"}]
        /\ outbox' = [r \in Surfaces |-> outbox'[r]]
    BY <1>1, <2>1, Sent
  <2>3. /\ ~Fresh(s) /\ ~Broken(s) /\ ~Crashed(s) /\ ~Done(s)
        /\ Starting(s) => Is(s, "up", <<>>, <<"startup.complete">>)
        /\ Started(s) => Is(s, "up", <<>>, <<>>)
        /\ Stopping(s) => Is(s, "up", <<"shutdown">>, <<>>)
    BY <2>1 DEF Fresh, Starting, Started, Broken, Stopping, Crashed, Done, Is
  <2>4. /\ Append(<<>>, "shutdown.failed") = <<"shutdown.failed">>
        /\ Append(<<"startup.complete">>, "shutdown.failed") =
             <<"startup.complete", "shutdown.failed">>
    BY Queues
  <2>5. Starting(s) => Starting(s)'
    BY <2>1, <2>2, <2>3, <2>4 DEF Starting, Is
  <2>6. Started(s) => Started(s)'
    BY <2>1, <2>2, <2>3, <2>4 DEF Started, Is
  <2>7. Stopping(s) => Stopping(s)'
    BY <2>1, <2>2, <2>3, <2>4 DEF Stopping, Is
  <2> QED
    BY <1>1, <2>1, <2>2, <2>3, <2>5, <2>6, <2>7
<1> QED
  BY <1>2, <1>3, <1>4 DEF SurfaceStep

LEMMA SurfaceStepKeeps ==
  ASSUME LifespanOK, NEW s \in Surfaces, SurfaceStep(s)
  PROVE  LifespanOK'
<1>1. UNCHANGED <<dispatch, told>>
  BY DEF SurfaceStep, SurfaceStarts, SurfaceStops, SurfaceDies, SurfaceFrame
<1>2. ASSUME NEW i \in {1, 2}
      PROVE  SurfaceOK(i)'
  <2>1. SurfaceOK(i) /\ Routes[i] \in Surfaces
    BY RoutesAre DEF LifespanOK
  <2>2. CASE Routes[i] = s
    BY <1>1, <2>1, <2>2, SurfaceStays DEF SurfaceOK, Rising, Falling
  <2>3. CASE Routes[i] # s
    <3> DEFINE r == Routes[i]
    <3>1. /\ r \in Surfaces \ {s} /\ surface'[r] = surface[r] /\ inbox'[r] = inbox[r]
          /\ outbox'[r] = outbox[r]
      BY <2>1, <2>3, SurfaceStays
    <3>2. \A state, in, out : Is(r, state, in, out)' <=> Is(r, state, in, out)
      BY <3>1 DEF Is
    <3>3. /\ Fresh(r)' <=> Fresh(r)
          /\ Starting(r)' <=> Starting(r)
          /\ Started(r)' <=> Started(r)
          /\ Broken(r)' <=> Broken(r)
          /\ Stopping(r)' <=> Stopping(r)
          /\ Crashed(r)' <=> Crashed(r)
          /\ Done(r)' <=> Done(r)
      BY <3>1 DEF Is, Fresh, Starting, Started, Broken, Stopping, Crashed, Done
    <3> QED
      BY <1>1, <2>1, <3>3 DEF SurfaceOK, Rising, Falling
  <2> QED
    BY <2>2, <2>3
<1> QED
  BY <1>2, SurfaceStays DEF LifespanOK

\* Only the startup and the shutdown of the app move PathDispatch from outside.
LEMMA OutsideStep ==
  ASSUME DispatchOK, HoldsOK, [ProcessNext]_processVars, ~DispatchStep,
         \A s \in Surfaces : ~SurfaceStep(s)
  PROVE  /\ UNCHANGED <<inbox, outbox, surface, told, deaths>>
         /\ \/ UNCHANGED dispatch /\ (main' = main \/ (main' # "starting" /\ main' # "serving"))
            \/ UNCHANGED dispatch /\ dispatch.pc = "idle" /\ main' = "serving"
            \/ /\ dispatch.pc = "none" /\ dispatch.at = 1 /\ main' = "starting"
               /\ dispatch' = [dispatch EXCEPT !.pc = "startup"]
            \/ /\ dispatch.pc = "idle" /\ dispatch.at = 1 /\ main' = "stopping"
               /\ dispatch' = [dispatch EXCEPT !.pc = "shutdown"]
         /\ main' \in {"loading", "wiring", "wired"} => main \in {"loading", "wiring", "wired"}
<1>1. CASE LoadConfig \/ Wire \/ Finish
  BY <1>1 DEF LoadConfig, Wire, Finish, lifespanVars
<1>2. CASE Launch
  BY <1>2 DEF Launch, DispatchOK
<1>3. CASE OpenSockets
  <2>1. dispatch.pc = "idle" /\ dispatch.at = 1
    BY <1>3, NothingSaid DEF OpenSockets, DispatchOK, Messages
  <2> QED
    BY <1>3, <2>1 DEF OpenSockets, MainFrame
<1>4. CASE CloseSockets
  <2>1. dispatch.pc = "idle" /\ dispatch.at = 1 /\ ~AppEnded
    BY <1>4 DEF CloseSockets, DispatchOK, AppEnded
  <2> QED
    BY <1>4, <2>1 DEF CloseSockets, MainFrame
<1>5. CASE ServeReturns \/ Cancelled
  BY <1>5 DEF ServeReturns, Cancelled, CancelListener, MainFrame
<1>6. CASE AskToStop \/ ListenerEnds
  BY <1>6 DEF AskToStop, ListenerEnds, MainFrame
<1>7. ASSUME NEW path \in Paths, NEW token \in Presented, Request(path, token)
      PROVE  UNCHANGED <<inbox, outbox, surface, told, deaths, dispatch, main>>
  BY <1>7 DEF Request, MainFrame
<1>8. CASE Ended \/ UNCHANGED processVars
  BY <1>8 DEF Ended, processVars, lifespanVars
<1> QED
  BY <1>1, <1>2, <1>3, <1>4, <1>5, <1>6, <1>7, <1>8 DEF ProcessNext, MainStep

LEMMA LifespanStep ==
  ASSUME LifespanOK, DispatchOK, HoldsOK, [ProcessNext]_processVars
  PROVE  LifespanOK'
<1>1. CASE DispatchStep
  BY <1>1, DriveStartupStep, StartupReplyStep, DriveShutdownStep, ShutdownReplyStep, JoinStep
  DEF DispatchStep
<1>2. CASE \E s \in Surfaces : SurfaceStep(s)
  BY <1>2, SurfaceStepKeeps
<1>3. CASE ~DispatchStep /\ \A s \in Surfaces : ~SurfaceStep(s)
  <2>1. UNCHANGED <<inbox, outbox, surface, told>>
    BY <1>3, OutsideStep
  <2>2. ASSUME NEW i \in {1, 2}
        PROVE  SurfaceOK(i)'
    <3> DEFINE r == Routes[i]
    <3>1. /\ Fresh(r)' <=> Fresh(r)
          /\ Starting(r)' <=> Starting(r)
          /\ Started(r)' <=> Started(r)
          /\ Broken(r)' <=> Broken(r)
          /\ Stopping(r)' <=> Stopping(r)
          /\ Crashed(r)' <=> Crashed(r)
          /\ Done(r)' <=> Done(r)
      BY <2>1 DEF Is, Fresh, Starting, Started, Broken, Stopping, Crashed, Done
    <3>2. SurfaceOK(i)
      BY DEF LifespanOK
    <3>3. CASE UNCHANGED dispatch
      BY <2>1, <3>1, <3>2, <3>3 DEF SurfaceOK, Rising, Falling
    <3>4. CASE dispatch.pc = "none" /\ dispatch.at = 1 /\ dispatch' = [dispatch EXCEPT !.pc = "startup"]
      <4>1. dispatch'.pc = "startup" /\ dispatch'.at = 1 /\ told = Null
        BY <3>4 DEF DispatchOK
      <4>2. told' # "startup.failed" /\ told' # "shutdown.complete"
        BY <2>1, <4>1, NothingSaid DEF Messages
      <4>3. Fresh(r)'
        BY <3>1, <3>2, <3>4 DEF SurfaceOK
      <4> QED
        BY <4>1, <4>2, <4>3 DEF SurfaceOK, Rising, Falling
    <3>5. CASE dispatch.pc = "idle" /\ dispatch.at = 1 /\ dispatch' = [dispatch EXCEPT !.pc = "shutdown"]
      <4>1. dispatch'.pc = "shutdown" /\ dispatch'.at = 1 /\ told' = "startup.complete"
        BY <2>1, <3>5 DEF DispatchOK
      <4>2. Started(r)'
        BY <3>1, <3>2, <3>5 DEF SurfaceOK
      <4> QED
        BY <4>1, <4>2 DEF SurfaceOK, Rising, Falling
    <3> QED
      BY <1>3, <3>3, <3>4, <3>5, OutsideStep
  <2> QED
    BY <2>1, <2>2 DEF LifespanOK
<1> QED
  BY <1>1, <1>2, <1>3

LEMMA DispatchKeeps ==
  ASSUME DispatchOK, HoldsOK, [ProcessNext]_processVars
  PROVE  DispatchOK'
<1>1. CASE DriveStartup \/ DriveShutdown \/ ShutdownReply
  BY <1>1 DEF DriveStartup, DriveShutdown, ShutdownReply, DispatchFrame, DispatchOK
<1>2. CASE StartupReply
  <2>1. dispatch.pc = "starting" /\ UNCHANGED main /\ told = Null
    BY <1>2 DEF StartupReply, DispatchFrame, DispatchOK
  <2>2. CASE Head(outbox[Driven]) = "startup.complete" /\ dispatch.at < Last
    <3>1. dispatch' = [pc |-> "startup", at |-> dispatch.at + 1] /\ UNCHANGED told
      BY <1>2, <2>2, DrivenIs, RoutesAre DEF StartupReply, Last
    <3>2. dispatch.at = 1
      BY <2>2, DrivenIs, RoutesAre DEF Last
    <3> QED
      BY <2>1, <3>1, <3>2, NothingSaid DEF DispatchOK, Messages
  <2>3. CASE Head(outbox[Driven]) = "startup.complete" /\ dispatch.at >= Last
    <3>1. dispatch' = [pc |-> "idle", at |-> 1] /\ told' = "startup.complete"
      BY <1>2, <2>3, DrivenIs, RoutesAre DEF StartupReply, Last
    <3> QED
      BY <2>1, <3>1 DEF DispatchOK
  <2>4. CASE Head(outbox[Driven]) # "startup.complete"
    <3>1. dispatch' = [dispatch EXCEPT !.pc = "returned"] /\ told' = "startup.failed"
      BY <1>2, <2>4 DEF StartupReply
    <3> QED
      BY <2>1, <3>1 DEF DispatchOK
  <2> QED
    BY <2>2, <2>3, <2>4, DrivenIs, RoutesAre DEF Last
<1>3. CASE Join
  <2>1. dispatch.pc = "joining" /\ UNCHANGED main /\ told = "startup.complete"
    BY <1>3 DEF Join, DispatchFrame, DispatchOK
  <2>2. \/ dispatch' = [dispatch EXCEPT !.pc = "raised"] /\ UNCHANGED told
        \/ /\ dispatch' = [pc |-> "shutdown", at |-> dispatch.at + 1] /\ UNCHANGED told
           /\ dispatch.at = 1
        \/ /\ dispatch' = [dispatch EXCEPT !.pc = "returned"] /\ told' = "shutdown.complete"
           /\ dispatch.at = 2
    BY <1>3, DrivenIs, RoutesAre DEF Join
  <2> QED
    BY <2>1, <2>2 DEF DispatchOK
<1>4. ASSUME NEW s \in Surfaces, SurfaceStep(s)
      PROVE  DispatchOK'
  BY <1>4 DEF SurfaceStep, SurfaceStarts, SurfaceStops, SurfaceDies, SurfaceFrame, DispatchOK
<1>5. CASE ~DispatchStep /\ \A s \in Surfaces : ~SurfaceStep(s)
  BY <1>5, OutsideStep, NothingSaid DEF DispatchOK, Messages
<1> QED
  BY <1>1, <1>2, <1>3, <1>4, <1>5 DEF DispatchStep

-----------------------------------------------------------------------------
(* The surfaces that fail *)

\* Every surface is somewhere.
LEMMA Somewhere ==
  ASSUME LifespanOK, DispatchOK, NEW s \in Surfaces
  PROVE  Fresh(s) \/ Starting(s) \/ Started(s) \/ Broken(s) \/ Stopping(s) \/ Crashed(s) \/ Done(s)
<1>1. PICK i \in {1, 2} : s = Routes[i]
  BY RoutesAre
<1>2. SurfaceOK(i) /\ dispatch.at \in {1, 2}
  BY <1>1 DEF LifespanOK, DispatchOK
<1>3. i < dispatch.at \/ i = dispatch.at \/ i > dispatch.at
  BY <1>2
<1>4. CASE dispatch.pc \in {"none", "idle"}
  BY <1>1, <1>2, <1>4 DEF SurfaceOK
<1>5. CASE dispatch.pc \in {"startup", "starting"}
  BY <1>1, <1>2, <1>3, <1>5 DEF SurfaceOK, Rising
<1>6. CASE dispatch.pc \in {"shutdown", "stopping", "joining", "raised"}
  BY <1>1, <1>2, <1>3, <1>6 DEF SurfaceOK, Falling
<1>7. CASE dispatch.pc = "returned"
  <2>1. told = "startup.failed" \/ told = "shutdown.complete"
    BY <1>7 DEF DispatchOK
  <2> QED
    BY <1>1, <1>2, <1>3, <2>1 DEF SurfaceOK, Rising, Falling
<1> QED
  BY <1>4, <1>5, <1>6, <1>7 DEF DispatchOK

\* A surface falls in one step only, which is counted.
LEMMA Falls ==
  ASSUME LifespanOK, DispatchOK, HoldsOK, [ProcessNext]_processVars, NEW s \in Surfaces,
         Fallen(s)'
  PROVE  Fallen(s) \/ SurfaceDies(s)
<1>1. ASSUME UNCHANGED <<surface, outbox>>, told = "startup.failed" => UNCHANGED <<told, dispatch>>
      PROVE  Fallen(s)
  BY <1>1 DEF Fallen, Driven
<1>2. CASE ~DispatchStep /\ \A r \in Surfaces : ~SurfaceStep(r)
  <2>1. UNCHANGED <<surface, outbox, told>>
    BY <1>2, OutsideStep
  <2>2. told = "startup.failed" => dispatch.pc = "returned"
    BY NothingSaid DEF DispatchOK, Messages
  <2>3. told = "startup.failed" => UNCHANGED dispatch
    BY <1>2, <2>2, OutsideStep
  <2> QED
    BY <1>1, <2>1, <2>3
<1>3. DispatchStep => told # "startup.failed"
  BY NothingSaid
  DEF DispatchStep, DriveStartup, StartupReply, DriveShutdown, ShutdownReply, Join, DispatchOK, Messages
<1>4. CASE DriveStartup
  <2>1. surface'[s] = "starting" \/ surface'[s] = surface[s]
    BY <1>4 DEF DriveStartup, LifespanOK
  <2> QED
    BY <1>3, <1>4, <2>1 DEF Fallen, DriveStartup, DispatchStep
<1>5. CASE DriveShutdown \/ Join
  BY <1>1, <1>3, <1>5 DEF DriveShutdown, Join, DispatchStep
<1>6. CASE StartupReply
  <2>1. /\ UNCHANGED surface /\ told # "startup.failed" /\ dispatch.pc = "starting"
        /\ outbox' = [outbox EXCEPT ![Driven] = Tail(@)]
    BY <1>3, <1>6 DEF StartupReply, DispatchStep
  <2>2. CASE outbox[s] = <<"startup.failed">> /\ s = Driven
    <3>1. Head(outbox[Driven]) # "startup.complete"
      BY <2>2, Queues
    <3>2. told' = "startup.failed" /\ dispatch' = [dispatch EXCEPT !.pc = "returned"]
      BY <1>6, <3>1 DEF StartupReply
    <3>3. Driven' = Driven
      BY <3>2 DEF Driven, DispatchOK
    <3> QED
      BY <2>2, <3>2, <3>3 DEF Fallen
  <2>3. CASE outbox[s] = <<"startup.failed">> /\ s # Driven
    <3>1. outbox'[s] = outbox[s]
      BY <2>1, <2>3 DEF LifespanOK
    <3> QED
      BY <2>3, <3>1 DEF Fallen
  <2>4. CASE outbox[s] # <<"startup.failed">>
    BY <2>1, <2>4 DEF Fallen
  <2> QED
    BY <2>2, <2>3, <2>4
<1>7. CASE ShutdownReply
  <2>1. /\ UNCHANGED surface /\ told # "startup.failed" /\ dispatch.pc = "stopping"
        /\ outbox' = [outbox EXCEPT ![Driven] = Tail(@)]
    BY <1>3, <1>7 DEF ShutdownReply, DispatchStep
  <2>2. CASE s = Driven
    <3>1. PICK at \in {1, 2} : at = dispatch.at /\ s = Routes[at]
      BY <2>2, DrivenIs
    <3>2. Stopping(s)
      BY <2>1, <3>1 DEF LifespanOK, SurfaceOK
    <3>3. outbox[s] # <<"startup.failed">>
      BY <3>2 DEF Stopping, Is
    <3> QED
      BY <2>1, <3>3 DEF Fallen
  <2>3. CASE s # Driven
    <3>1. outbox'[s] = outbox[s]
      BY <2>1, <2>3 DEF LifespanOK
    <3> QED
      BY <2>1, <3>1 DEF Fallen
  <2> QED
    BY <2>2, <2>3
<1>8. ASSUME NEW r \in Surfaces, SurfaceStep(r)
      PROVE  Fallen(s) \/ SurfaceDies(s)
  <2>1. UNCHANGED <<told, dispatch>>
    BY <1>8 DEF SurfaceStep, SurfaceStarts, SurfaceStops, SurfaceDies, SurfaceFrame
  <2>2. CASE r # s
    <3>1. surface'[s] = surface[s] /\ outbox'[s] = outbox[s]
      BY <1>8, <2>2, SurfaceStays
    <3> QED
      BY <2>1, <3>1 DEF Fallen, Driven
  <2>3. CASE SurfaceStarts(s)
    <3>1. surface[s] = "starting"
      BY <2>3 DEF SurfaceStarts
    <3>2. outbox[s] = <<>>
      BY <3>1, Somewhere DEF Fresh, Starting, Started, Broken, Stopping, Crashed, Done, Is
    <3>3. surface'[s] = "dead" => outbox'[s] = Append(outbox[s], "startup.failed")
      BY <2>3, Sent DEF SurfaceStarts, LifespanOK
    <3>4. Append(<<>>, "startup.failed") = <<"startup.failed">>
      BY Queues
    <3> QED
      BY <3>2, <3>3, <3>4 DEF Fallen
  <2>4. CASE SurfaceStops(s)
    <3>1. surface'[s] = "stopped"
      BY <2>4 DEF SurfaceStops, LifespanOK
    <3> QED
      BY <3>1 DEF Fallen
  <2> QED
    BY <1>8, <2>2, <2>3, <2>4 DEF SurfaceStep
<1> QED
  BY <1>2, <1>4, <1>5, <1>6, <1>7, <1>8 DEF DispatchStep

LEMMA DeathsStep ==
  ASSUME LifespanOK, DispatchOK, HoldsOK, DeathsOK, [ProcessNext]_processVars
  PROVE  DeathsOK'
<1>1. \A s \in Surfaces : Fallen(s)' => Fallen(s) \/ SurfaceDies(s)
  BY Falls
<1>2. CASE UNCHANGED deaths /\ \A s \in Surfaces : ~SurfaceDies(s)
  BY <1>1, <1>2 DEF DeathsOK
<1>3. ASSUME NEW s \in Surfaces, SurfaceDies(s)
      PROVE  DeathsOK'
  <2>1. surface[s] = "up" /\ deaths < MaxDeaths /\ deaths' = deaths + 1
    BY <1>3 DEF SurfaceDies
  <2>2. deaths' \in 0..MaxDeaths /\ deaths' >= 1
    BY <2>1, ProcessAssumption DEF DeathsOK
  <2>3. ASSUME \A r \in Surfaces : Fallen(r)'
        PROVE  deaths >= 1
    <3>1. PICK r \in Surfaces : r # s
      BY RoutesAre
    <3>2. ~SurfaceDies(r)
      <4>1. surface'[r] = surface[r] /\ surface'[s] = "dead"
        BY <1>3, <3>1 DEF SurfaceDies, LifespanOK
      <4>2. SurfaceDies(r) => surface[r] = "up" /\ surface'[r] = "dead"
        BY DEF SurfaceDies, LifespanOK
      <4> QED
        BY <4>1, <4>2
    <3> QED
      BY <1>1, <2>3, <3>2 DEF DeathsOK
  <2> QED
    BY <2>1, <2>2, <2>3 DEF DeathsOK
<1>4. ASSUME \A s \in Surfaces : ~SurfaceDies(s)
      PROVE  UNCHANGED deaths
  <2>1. CASE DispatchStep
    BY <2>1 DEF DispatchStep, DriveStartup, StartupReply, DriveShutdown, ShutdownReply, Join,
                DispatchFrame
  <2>2. ASSUME NEW s \in Surfaces, SurfaceStarts(s) \/ SurfaceStops(s)
        PROVE  UNCHANGED deaths
    BY <2>2 DEF SurfaceStarts, SurfaceStops
  <2> QED
    BY <1>4, <2>1, <2>2, OutsideStep DEF SurfaceStep
<1> QED
  BY <1>2, <1>3, <1>4

-----------------------------------------------------------------------------
(* The life of the process *)

LEMMA ProcessInductive == ProcessSpec => []ProcessIInv
<1>1. ProcessInit => ProcessIInv
  <2> SUFFICES ASSUME ProcessInit PROVE ProcessIInv
    OBVIOUS
  <2>1. TokensOK /\ HoldsOK
    BY RoutesAre DEF ProcessInit, TokensOK, HoldsOK
  <2>2. told = Null /\ Null # "startup.failed" /\ Null # "shutdown.complete"
    BY NothingSaid DEF ProcessInit, Messages
  <2>3. LifespanOK
    BY <2>2, RoutesAre DEF ProcessInit, LifespanOK, SurfaceOK, Rising, Falling, Fresh, Is
  <2>4. DispatchOK
    BY <2>2 DEF ProcessInit, DispatchOK
  <2>5. DeathsOK
    BY RoutesAre, ProcessAssumption DEF ProcessInit, DeathsOK, Fallen
  <2> QED
    BY <2>1, <2>3, <2>4, <2>5 DEF ProcessIInv
<1>2. ProcessIInv /\ [ProcessNext]_processVars => ProcessIInv'
  BY TokensStep, HoldsStep, LifespanStep, DispatchKeeps, DeathsStep DEF ProcessIInv
<1> QED
  BY <1>1, <1>2, PTL DEF ProcessSpec

\* The queues of the drivers never hold more than two messages, and everything
\* else is of its type.
THEOREM ProcessTypes == ProcessSpec => []ProcessTypeOK
<1>1. ProcessIInv => ProcessTypeOK
  <2> SUFFICES ASSUME ProcessIInv PROVE ProcessTypeOK
    OBVIOUS
  <2>1. TokensOK /\ HoldsOK /\ LifespanOK /\ DispatchOK /\ DeathsOK
    BY DEF ProcessIInv
  <2>2. /\ listener \in {"none", "running", "cancelling", "ended"}
        /\ session \in {"none", "open", "closed"}
    BY <2>1 DEF HoldsOK
  <2>3. told \in Messages \cup {Null}
    BY <2>1 DEF DispatchOK, Messages
  <2>4. ASSUME NEW s \in Surfaces, NEW q \in {inbox[s], outbox[s]}
        PROVE  Len(q) <= 2 /\ \A i \in DOMAIN q : q[i] \in Messages
    <3>1. \/ q = <<>>
          \/ \E m \in Messages : q = <<m>>
          \/ q = <<"startup.complete", "shutdown.failed">>
      BY <2>1, <2>4, Somewhere
      DEF Fresh, Starting, Started, Broken, Stopping, Crashed, Done, Is, Messages
    <3>2. CASE q = <<>>
      BY <3>2
    <3>3. ASSUME NEW m \in Messages, q = <<m>>
          PROVE  Len(q) <= 2 /\ \A i \in DOMAIN q : q[i] \in Messages
      <4>1. Len(q) = 1 /\ DOMAIN q = {1} /\ q[1] = m
        BY <3>3
      <4> QED
        BY <4>1
    <3>4. CASE q = <<"startup.complete", "shutdown.failed">>
      <4>1. Len(q) = 2 /\ DOMAIN q = {1, 2} /\ q[1] = "startup.complete" /\ q[2] = "shutdown.failed"
        BY <3>4
      <4> QED
        BY <4>1 DEF Messages
    <3> QED
      BY <3>1, <3>2, <3>3, <3>4
  <2>5. reached \subseteq Surfaces \X LongTokens
    BY <2>1 DEF TokensOK
  <2>6. dispatch \in [pc : {"none", "startup", "starting", "idle", "shutdown", "stopping",
                            "joining", "returned", "raised"}, at : DOMAIN Routes]
    BY <2>1, RoutesAre DEF DispatchOK
  <2> QED
    BY <2>1, <2>2, <2>3, <2>4, <2>5, <2>6
    DEF ProcessTypeOK, TokensOK, HoldsOK, LifespanOK, DeathsOK
<1> QED
  BY <1>1, ProcessInductive, PTL

\* Requests are served with both surfaces started: what is not up has failed since.
THEOREM BothServe == ProcessSpec => []BothSurfacesServe
<1>1. ProcessIInv => BothSurfacesServe
  <2> SUFFICES ASSUME ProcessIInv, main = "serving"
               PROVE  Cardinality(Failed) <= deaths
    BY DEF BothSurfacesServe
  <2>1. LifespanOK /\ DispatchOK /\ DeathsOK /\ dispatch.pc = "idle" /\ told = "startup.complete"
    BY DEF ProcessIInv, DispatchOK
  <2>2. ASSUME NEW s \in Surfaces
        PROVE  Started(s)
    BY <2>1, RoutesAre DEF LifespanOK, SurfaceOK
  <2>3. ASSUME NEW s \in Failed
        PROVE  s \in Surfaces /\ Fallen(s)
    BY <2>1, <2>2, <2>3 DEF Failed, Started, Is, Fallen
  <2>4. deaths \in Nat
    BY <2>1 DEF DeathsOK
  <2>5. CASE Failed = {}
    BY <2>4, <2>5, FS_EmptySet
  <2>6. ASSUME NEW s \in Failed, Failed = {s}
        PROVE  Cardinality(Failed) <= deaths
    <3>1. Cardinality(Failed) = 1
      BY <2>6, FS_Singleton
    <3> QED
      BY <2>1, <2>3, <2>4, <3>1 DEF DeathsOK
  <2>7. CASE Failed = {"transfer", "mcp"}
    <3>1. Cardinality({"transfer"}) = 1 /\ IsFiniteSet({"transfer"})
      BY FS_Singleton
    <3>2. Cardinality({"transfer"} \cup {"mcp"}) = 2
      BY <3>1, FS_AddElement
    <3>3. Cardinality(Failed) = 2
      BY <2>7, <3>2
    <3>4. deaths >= 2
      BY <2>1, <2>3, <2>7, RoutesAre DEF DeathsOK
    <3> QED
      BY <2>4, <3>3, <3>4
  <2>8. Failed \subseteq {"transfer", "mcp"}
    BY RoutesAre DEF Failed
  <2> QED
    BY <2>5, <2>6, <2>7, <2>8
<1> QED
  BY <1>1, ProcessInductive, PTL

\* When PathDispatch says that the shutdown is complete, every surface was left in
\* order, also the one whose reply was an older message.
THEOREM ShutdownIsWhole == ProcessSpec => []ShutdownIsComplete
<1>1. ProcessIInv => ShutdownIsComplete
  <2> SUFFICES ASSUME ProcessIInv, told = "shutdown.complete", NEW s \in Surfaces
               PROVE  surface[s] = "stopped"
    BY DEF ShutdownIsComplete
  <2>1. PICK i \in {1, 2} : s = Routes[i]
    BY RoutesAre
  <2>2. SurfaceOK(i) /\ dispatch.at = 2
    BY DEF ProcessIInv, LifespanOK, DispatchOK
  <2>3. Done(s)
    BY <2>1, <2>2 DEF SurfaceOK, Falling
  <2> QED
    BY <2>3 DEF Done, Is
<1> QED
  BY <1>1, ProcessInductive, PTL
=============================================================================
