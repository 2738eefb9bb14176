------------------------------- MODULE Process -------------------------------
(***************************************************************************)
(* The life of the broker process (broker/run.py): reading the configuration, *)
(* wiring, starting the two surfaces, serving, stopping.                     *)
(*                                                                         *)
(* The tasks of the event loop are main(), the Matrix listener, PathDispatch  *)
(* as the lifespan app of the HTTP server, and the lifespan of each surface.  *)
(* They share queues; an action is what one task does between two awaits.     *)
(*                                                                         *)
(* uvicorn and Starlette are not in the repository.  uvicorn sends the        *)
(* lifespan messages in order, serves after startup.complete only, and waits  *)
(* at the end for an answer or the end of the app.  Starlette answers each    *)
(* message, and a lifespan that fails says so before it raises.              *)
(***************************************************************************)
EXTENDS Configuration, Sequences, FiniteSets

CONSTANTS
  Setups,       \* raw configurations, each with its environment
  Paths,        \* request paths, as sequences of segments
  Presented,    \* the bearer tokens that clients present
  MaxDeaths     \* bound on the surfaces that fail at work

ASSUME ProcessAssumption ==
  /\ Presented \subseteq LongTokens
  /\ MaxDeaths \in Nat

\* The messages of the ASGI lifespan protocol.
Messages == {"startup", "shutdown", "startup.complete", "startup.failed",
             "shutdown.complete", "shutdown.failed"}

ASSUME NothingSaid == Null \notin Messages

\* The routes, longest prefix first.
Routes == <<"transfer", "mcp">>
Surfaces == {Routes[i] : i \in DOMAIN Routes}

VARIABLES
  main,      \* how far main() is
  setup,     \* the configuration, until it is read
  tokens,    \* tokens[s]: the token of surface s
  audit,     \* the audit log is open
  store,     \* the grant store is open
  listener,  \* the listener task
  session,   \* the client of the homeserver
  dispatch,  \* PathDispatch: what it waits for, and the position of its driver
  inbox,     \* inbox[s]: _incoming of the driver of s
  outbox,    \* outbox[s]: _outgoing of the driver of s
  surface,   \* surface[s]: the lifespan of s
  told,      \* what PathDispatch last sent to the HTTP server
  stopping,  \* the process has been asked to stop
  deaths,    \* surfaces that failed at work so far
  reached    \* history: the requests that came through, by surface and token

wiringVars == <<setup, tokens, audit, store>>
lifespanVars == <<dispatch, inbox, outbox, surface, told, deaths>>
processVars == <<main, wiringVars, listener, session, lifespanVars, stopping, reached>>

ProcessInit ==
  /\ main = "loading"
  /\ setup \in Setups
  /\ tokens = [s \in Surfaces |-> Null]
  /\ audit = FALSE /\ store = FALSE
  /\ listener = "none" /\ session = "none"
  /\ dispatch = [pc |-> "none", at |-> 1]
  /\ inbox = [s \in Surfaces |-> <<>>]
  /\ outbox = [s \in Surfaces |-> <<>>]
  /\ surface = [s \in Surfaces |-> "none"]
  /\ told = Null
  /\ stopping = FALSE
  /\ deaths = 0
  /\ reached = {}

-----------------------------------------------------------------------------
(* main: configuration and wiring *)

\* load_config, then setup_logging and the posture banner.
LoadConfig ==
  /\ main = "loading"
  /\ setup' = Null
  /\ IF Accepts(setup.raw, setup.env) /\ AcceptsLogging(setup.raw)
     THEN /\ main' = "wiring"
          /\ tokens' = [mcp |-> AgentToken(setup.raw, setup.env),
                        transfer |-> TransferToken(setup.raw, setup.env)]
     ELSE main' = "ended" /\ UNCHANGED tokens
  /\ UNCHANGED <<audit, store, listener, session, lifespanVars, stopping, reached>>

\* The rest of wire_components: the audit log, which refuses a broken chain, then
\* the grant store.
Wire ==
  /\ main = "wiring"
  /\ \/ main' = "ended" /\ UNCHANGED <<audit, store>>
     \/ main' = "ended" /\ audit' = TRUE /\ UNCHANGED store
     \/ main' = "wired" /\ audit' = TRUE /\ store' = TRUE
  /\ UNCHANGED <<setup, tokens, listener, session, lifespanVars, stopping, reached>>

\* The listener task is created and the HTTP server started; it starts the app's
\* lifespan before it opens a socket.
Launch ==
  /\ main = "wired"
  /\ main' = "starting"
  /\ listener' = "running"
  /\ session' = "open"
  /\ dispatch' = [dispatch EXCEPT !.pc = "startup"]
  /\ UNCHANGED <<wiringVars, inbox, outbox, surface, told, deaths, stopping, reached>>

-----------------------------------------------------------------------------
(* PathDispatch and the drivers *)

DispatchFrame == UNCHANGED <<main, wiringVars, listener, session, deaths, stopping, reached>>

Driven == Routes[dispatch.at]

Send(box, s, message) == box' = [box EXCEPT ![s] = Append(@, message)]

\* startup() of the driver at hand, up to its await.
DriveStartup ==
  /\ dispatch.pc = "startup"
  /\ Send(inbox, Driven, "startup")
  /\ surface' = [surface EXCEPT ![Driven] = "starting"]
  /\ dispatch' = [dispatch EXCEPT !.pc = "starting"]
  /\ UNCHANGED <<outbox, told>>
  /\ DispatchFrame

\* Mutant: the startup of one surface is enough.
Last_First == 1

\* The last of the drivers.
Last == Len(Routes)

\* The reply: the next driver, the end of the startup, or its failure, after
\* which PathDispatch returns.
StartupReply ==
  /\ dispatch.pc = "starting"
  /\ outbox[Driven] # <<>>
  /\ outbox' = [outbox EXCEPT ![Driven] = Tail(@)]
  /\ LET ok == Head(outbox[Driven]) = "startup.complete" IN
       CASE ok /\ dispatch.at < Last ->
              /\ dispatch' = [pc |-> "startup", at |-> dispatch.at + 1]
              /\ UNCHANGED told
         [] ok /\ dispatch.at >= Last ->
              dispatch' = [pc |-> "idle", at |-> 1] /\ told' = "startup.complete"
         [] OTHER ->
              dispatch' = [dispatch EXCEPT !.pc = "returned"] /\ told' = "startup.failed"
  /\ UNCHANGED <<inbox, surface>>
  /\ DispatchFrame

\* Mutant: what is left in the queue is thrown away first.
DriveShutdown_Drained ==
  /\ dispatch.pc = "shutdown"
  /\ Send(inbox, Driven, "shutdown")
  /\ outbox' = [outbox EXCEPT ![Driven] = <<>>]
  /\ dispatch' = [dispatch EXCEPT !.pc = "stopping"]
  /\ UNCHANGED <<surface, told>>
  /\ DispatchFrame

\* shutdown() of the driver at hand, up to its await.
DriveShutdown ==
  /\ dispatch.pc = "shutdown"
  /\ Send(inbox, Driven, "shutdown")
  /\ dispatch' = [dispatch EXCEPT !.pc = "stopping"]
  /\ UNCHANGED <<outbox, surface, told>>
  /\ DispatchFrame

\* A message, which may be an older one, and then the await of the task.
ShutdownReply ==
  /\ dispatch.pc = "stopping"
  /\ outbox[Driven] # <<>>
  /\ outbox' = [outbox EXCEPT ![Driven] = Tail(@)]
  /\ dispatch' = [dispatch EXCEPT !.pc = "joining"]
  /\ UNCHANGED <<inbox, surface, told>>
  /\ DispatchFrame

\* Mutant: the exception of a surface is swallowed.
Raised_Never(s) == FALSE

\* The task of s has ended with an exception.
Raised(s) == surface[s] = "dead"

\* The task has ended: the next driver, or the end of the shutdown.  If it ended
\* with an exception, PathDispatch ends with it.
Join ==
  /\ dispatch.pc = "joining"
  /\ surface[Driven] \in {"stopped", "dead"}
  /\ CASE Raised(Driven) ->
            dispatch' = [dispatch EXCEPT !.pc = "raised"] /\ UNCHANGED told
       [] ~Raised(Driven) /\ dispatch.at < Len(Routes) ->
            dispatch' = [pc |-> "shutdown", at |-> dispatch.at + 1] /\ UNCHANGED told
       [] OTHER ->
            dispatch' = [dispatch EXCEPT !.pc = "returned"] /\ told' = "shutdown.complete"
  /\ UNCHANGED <<inbox, outbox, surface>>
  /\ DispatchFrame

-----------------------------------------------------------------------------
(* The lifespan of a surface *)

SurfaceFrame == UNCHANGED <<main, wiringVars, listener, session, dispatch, told, stopping, reached>>

\* The startup message: the session manager is entered, or that fails.
SurfaceStarts(s) ==
  /\ surface[s] = "starting"
  /\ inbox[s] # <<>>
  /\ inbox' = [inbox EXCEPT ![s] = Tail(@)]
  /\ \/ surface' = [surface EXCEPT ![s] = "up"] /\ Send(outbox, s, "startup.complete")
     \/ surface' = [surface EXCEPT ![s] = "dead"] /\ Send(outbox, s, "startup.failed")
  /\ UNCHANGED deaths
  /\ SurfaceFrame

\* The session manager is left on the shutdown message.
SurfaceStops(s) ==
  /\ surface[s] = "up"
  /\ inbox[s] # <<>>
  /\ inbox' = [inbox EXCEPT ![s] = Tail(@)]
  /\ surface' = [surface EXCEPT ![s] = "stopped"]
  /\ Send(outbox, s, "shutdown.complete")
  /\ UNCHANGED deaths
  /\ SurfaceFrame

\* The session manager fails: at work, or while it is being left.
SurfaceDies(s) ==
  /\ surface[s] = "up"
  /\ deaths < MaxDeaths
  /\ deaths' = deaths + 1
  /\ surface' = [surface EXCEPT ![s] = "dead"]
  /\ Send(outbox, s, "shutdown.failed")
  /\ UNCHANGED inbox
  /\ SurfaceFrame

-----------------------------------------------------------------------------
(* main: serving and stopping *)

MainFrame == UNCHANGED <<wiringVars, inbox, outbox, surface, told, deaths>>

AppEnded == dispatch.pc \in {"returned", "raised"}

\* The sockets are opened - or the port is taken, and the server shuts the app
\* down.
OpenSockets ==
  /\ main = "starting" /\ told = "startup.complete"
  /\ \/ main' = "serving" /\ UNCHANGED dispatch
     \/ main' = "stopping" /\ dispatch' = [dispatch EXCEPT !.pc = "shutdown"]
  /\ UNCHANGED <<listener, session, stopping, reached>>
  /\ MainFrame

\* A stop is asked for.
AskToStop ==
  /\ main \in {"starting", "serving"}
  /\ ~stopping
  /\ stopping' = TRUE
  /\ UNCHANGED <<main, listener, session, dispatch, reached>>
  /\ MainFrame

\* The server closes its sockets and shuts the app down.
CloseSockets ==
  /\ main = "serving" /\ stopping
  /\ main' = "stopping"
  /\ dispatch' = IF AppEnded THEN dispatch ELSE [dispatch EXCEPT !.pc = "shutdown"]
  /\ UNCHANGED <<listener, session, stopping, reached>>
  /\ MainFrame

\* finally: the listener is cancelled.
CancelListener ==
  /\ main' = "cancelling"
  /\ listener' = "cancelling"
  /\ UNCHANGED <<session, dispatch, reached>>
  /\ MainFrame

\* serve() returns: the app has ended, or never started.
ServeReturns ==
  /\ main \in {"starting", "stopping"}
  /\ AppEnded
  /\ CancelListener
  /\ UNCHANGED stopping

\* serve() is cancelled, and leaves the app where it is.
Cancelled ==
  /\ main \in {"starting", "serving", "stopping"}
  /\ CancelListener
  /\ stopping' = TRUE

\* The listener ends at its next await: `except Exception' lets a cancellation pass.
ListenerEnds ==
  /\ listener = "cancelling"
  /\ listener' = "ended"
  /\ UNCHANGED <<main, session, dispatch, stopping, reached>>
  /\ MainFrame

\* Mutant: the client is closed without waiting for the listener.
ListenerAwaited_Not == TRUE

\* await listener_task.
ListenerAwaited == listener = "ended"

\* listener.stop() closes the client; asyncio.run cancels the tasks that are left.
Finish ==
  /\ main = "cancelling"
  /\ ListenerAwaited
  /\ session' = "closed"
  /\ main' = "ended"
  /\ UNCHANGED <<wiringVars, listener, lifespanVars, stopping, reached>>

\* The route of a path: the prefix itself, or what is below it.
RouteOf(path) == IF path[1] \in Surfaces THEN path[1] ELSE Null

\* A request: PathDispatch picks the surface, its middleware compares the token.
Request(path, token) ==
  /\ main = "serving"
  /\ RouteOf(path) # Null
  /\ tokens[RouteOf(path)] = token
  /\ reached' = reached \cup {<<RouteOf(path), token>>}
  /\ UNCHANGED <<main, listener, session, dispatch, stopping>>
  /\ MainFrame

Ended == main = "ended" /\ UNCHANGED processVars

\* No task runs once main has ended.
Loop == main # "ended"

DispatchStep == DriveStartup \/ StartupReply \/ DriveShutdown \/ ShutdownReply \/ Join
SurfaceStep(s) == SurfaceStarts(s) \/ SurfaceStops(s) \/ SurfaceDies(s)
MainStep == LoadConfig \/ Wire \/ Launch \/ OpenSockets \/ CloseSockets \/ ServeReturns \/ Finish

ProcessNext ==
  \/ MainStep
  \/ AskToStop \/ Cancelled
  \/ ListenerEnds
  \/ Loop /\ DispatchStep
  \/ Loop /\ \E s \in Surfaces : SurfaceStep(s)
  \/ \E path \in Paths, token \in Presented : Request(path, token)
  \/ Ended

ProcessSpec == ProcessInit /\ [][ProcessNext]_processVars

\* The event loop runs every task that can go on, the HTTP server does what it is
\* asked, and a surface answers.  Nobody needs to ask for a stop or to make a
\* request, and no surface needs to fail.
FairProcess ==
  /\ ProcessSpec
  /\ WF_processVars(MainStep)
  /\ WF_processVars(ListenerEnds)
  /\ WF_processVars(Loop /\ DispatchStep)
  /\ \A s \in Surfaces : WF_processVars(Loop /\ (SurfaceStarts(s) \/ SurfaceStops(s)))

-----------------------------------------------------------------------------
(* Properties *)

\* Type invariant; a queue never holds more than two messages.
ProcessTypeOK ==
  /\ main \in {"loading", "wiring", "wired", "starting", "serving", "stopping",
               "cancelling", "ended"}
  /\ setup \in Setups \cup {Null}
  /\ tokens \in [Surfaces -> LongTokens \cup {Null}]
  /\ audit \in BOOLEAN /\ store \in BOOLEAN /\ stopping \in BOOLEAN
  /\ listener \in {"none", "running", "cancelling", "ended"}
  /\ session \in {"none", "open", "closed"}
  /\ dispatch \in [pc : {"none", "startup", "starting", "idle", "shutdown", "stopping",
                         "joining", "returned", "raised"}, at : DOMAIN Routes]
  /\ \A s \in Surfaces : \A q \in {inbox[s], outbox[s]} :
       Len(q) <= 2 /\ \A i \in DOMAIN q : q[i] \in Messages
  /\ surface \in [Surfaces -> {"none", "starting", "up", "stopped", "dead"}]
  /\ told \in Messages \cup {Null}
  /\ deaths \in 0..MaxDeaths
  /\ reached \subseteq Surfaces \X LongTokens

Failed == {s \in Surfaces : surface[s] # "up"}

\* While requests are served both surfaces have been started, and what is not
\* up has failed since (PathDispatch.__call__: "drive EVERY surface's lifespan").
BothSurfacesServe ==
  main = "serving" => Cardinality(Failed) <= deaths

\* shutdown.complete is said of surfaces that have been left in order
\* (_LifespanDriver.shutdown awaits the task).
ShutdownIsComplete ==
  told = "shutdown.complete" => \A s \in Surfaces : surface[s] = "stopped"

\* "Shutdown never leaves a dangling sync task or open homeserver session"
\* (main), and the session is not closed under a running listener.
NothingDangles ==
  /\ session = "closed" => listener = "ended"
  /\ main = "ended" => listener \in {"none", "ended"} /\ session \in {"none", "closed"}

\* A token opens one surface at most: the content tools answer to the transfer
\* token only (config._agent and BearerMiddleware).
SurfacesAreSeparate ==
  \A r1, r2 \in reached : r1[2] = r2[2] => r1[1] = r2[1]

\* A process that is asked to stop ends, and so does one that could not start;
\* nobody waits for a surface that has failed.
ProcessEnds ==
  (stopping \/ told = "startup.failed") ~> main = "ended"
=============================================================================
