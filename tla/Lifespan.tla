------------------------------ MODULE Lifespan ------------------------------
(***************************************************************************)
(* create_gateway's lifespan (fast_gateway/app.py) around the builder: the *)
(* store is opened, plugins are set up in order, the startup operation     *)
(* runs, the gateway serves, and everything is undone in reverse.  The     *)
(* store and the plugins are what the operations of GatewayBuilder.tla     *)
(* work with, so the question is who may still be working when they go.    *)
(*                                                                         *)
(* The server drains its requests before it ends the lifespan, and the     *)
(* MCP sessions end with mcp_app.lifespan, inside it; what is left then is *)
(* the background catalog refresh.  A gateway is not started twice: a      *)
(* start after a stop is a new process.                                    *)
(***************************************************************************)
EXTENDS GatewayBuilder

CONSTANTS
    Plugins     \* how many plugins define setup and teardown

ASSUME PluginsAssumption == Plugins \in Nat

VARIABLES
    stage,      \* of the lifespan
    started,    \* the plugins in "started", by number
    running,    \* those whose setup returned and whose teardown has not begun
    store       \* its connection

lifespan == <<stage, started, running, store>>
all == <<vars, lifespan>>

(* "failed" is a lifespan whose store could not be initialised, "raised"   *)
(* one that a teardown ended.                                              *)
Stages ==
    {"down", "setup", "starting", "serving", "stopping", "teardown", "raised", "failed"}

LifespanType ==
    /\ stage \in Stages
    /\ started \in 0..Plugins
    /\ running \in SUBSET (1..Plugins)
    /\ store \in {"open", "closed"}

LifespanInit ==
    /\ Init
    /\ stage = "down"
    /\ started = 0
    /\ running = {}
    /\ store = "closed"

(* store.initialize() *)
Initialize ==
    /\ stage = "down"
    /\ boots < MaxBoots
    /\ stage' = "setup"
    /\ store' = "open"
    /\ UNCHANGED <<vars, started, running>>

(* It raises before the "try": on connecting, or later, when the           *)
(* connection is open already, and nobody closes it.                       *)
InitializeRaises ==
    /\ stage = "down"
    /\ boots < MaxBoots
    /\ stage' = "failed"
    /\ store' \in {"open", "closed"}
    /\ UNCHANGED <<vars, started, running>>

SetUp ==
    /\ stage = "setup"
    /\ started < Plugins
    /\ started' = started + 1
    /\ running' = running \cup {started + 1}
    /\ UNCHANGED <<vars, stage, store>>

(* A setup raises: what the earlier ones opened is undone, its own part is *)
(* its own affair.                                                         *)
SetUpRaises ==
    /\ stage = "setup"
    /\ started < Plugins
    /\ stage' = "teardown"
    /\ UNCHANGED <<vars, started, running, store>>

(* builder.reload() or builder.rebuild_mounts() *)
Start ==
    /\ stage = "setup"
    /\ started = Plugins
    /\ Boot
    /\ stage' = "starting"
    /\ UNCHANGED <<started, running, store>>

(* Fault: an exception on the way up passes by the teardowns. *)
BugStartRaises ==
    /\ stage = "starting"
    /\ pc[Startup] \notin {"waiting"}
    /\ Stop
    /\ stage' = "down"
    /\ store' = "closed"
    /\ UNCHANGED <<started, running>>

(* A read or a write of the startup operation raises: the lock is let go.  *)
StartRaises ==
    /\ stage = "starting"
    /\ pc[Startup] \notin {"waiting"}
    /\ Stop
    /\ stage' = "teardown"
    /\ UNCHANGED <<started, running, store>>

Yield ==
    /\ stage = "starting"
    /\ Serve
    /\ stage' = "serving"
    /\ UNCHANGED <<started, running, store>>

(* The sessions end; the background refresh has not heard of it yet. *)
Shutdown ==
    /\ stage = "serving"
    /\ \A t \in Tasks \ {Startup} : pc[t] = "idle"
    /\ stage' = "stopping"
    /\ UNCHANGED <<vars, started, running, store>>

(* Fault: the task is cancelled but not awaited. *)
BugCancelRefresh ==
    /\ stage = "stopping"
    /\ stage' = "teardown"
    /\ UNCHANGED <<vars, started, running, store>>

(* task.cancel() and its end are awaited, unless it was done: from here    *)
(* on no operation runs.                                                   *)
CancelRefresh ==
    /\ stage = "stopping"
    /\ Stop
    /\ stage' = "teardown"
    /\ UNCHANGED <<started, running, store>>

(* Fault: in the order they were set up. *)
BugTearDown ==
    /\ stage = "teardown"
    /\ started > 0
    /\ started' = started - 1
    /\ running' = running \ {Plugins + 1 - started}
    /\ UNCHANGED <<vars, stage, store>>

(* Fault: it stays in the list. *)
BugTearDownAgain ==
    /\ stage = "teardown"
    /\ started > 0
    /\ running' = running \ {started}
    /\ UNCHANGED <<vars, stage, started, store>>

(* In reverse. *)
TearDown ==
    /\ stage = "teardown"
    /\ started > 0
    /\ started' = started - 1
    /\ running' = running \ {started}
    /\ UNCHANGED <<vars, stage, store>>

(* A teardown raises: the others are not run and the store is not closed.  *)
TearDownRaises ==
    /\ stage = "teardown"
    /\ started > 0
    /\ running' = running \ {started}
    /\ stage' = "raised"
    /\ UNCHANGED <<vars, started, store>>

CloseStore ==
    /\ stage = "teardown"
    /\ started = 0
    /\ stage' = "down"
    /\ store' = "closed"
    /\ UNCHANGED <<vars, started, running>>

(* The process is killed, or exits after the lifespan raised. *)
Die ==
    /\ stage # "down"
    /\ IF phase = "down" THEN UNCHANGED vars ELSE Stop
    /\ stage' = "down"
    /\ started' = 0
    /\ running' = {}
    /\ store' = "closed"

(* What GatewayBuilder's tasks do meanwhile.  Requests come only while the *)
(* gateway serves.                                                         *)
Work ==
    /\ \/ \E t \in Tasks : Acquire(t) \/ Step(t)
       \/ \E i \in ServerIds, tools \in SUBSET Bares : UpstreamChanges(i, tools)
       \/ /\ stage = "serving"
          /\ \/ Admin
             \/ \E t \in Tasks \ {Startup}, operation \in TaskOps, target \in issued \cup {NoServer} :
                    Call(t, operation, target)
    /\ UNCHANGED lifespan

LifespanNext ==
    \/ Initialize \/ InitializeRaises \/ SetUp \/ SetUpRaises \/ Start \/ StartRaises \/ Yield
    \/ Shutdown \/ CancelRefresh \/ TearDown \/ TearDownRaises \/ CloseStore
    \/ Die
    \/ Work

(* Plugins' coroutines return or raise, the store's calls return, it       *)
(* closes, and a cancelled task ends; nobody has to shut the gateway down, *)
(* and no introspection has to return.  A startup operation that came to   *)
(* its end goes on or raises.                                              *)
LifespanFairness ==
    /\ \A t \in Tasks : WF_all(StoreStep(t) /\ UNCHANGED lifespan)
                     /\ SF_all(Acquire(t) /\ UNCHANGED lifespan)
    /\ WF_all(SetUp) /\ WF_all(Start) /\ WF_all(Yield)
    /\ WF_all(pc[Startup] = "idle" /\ StartRaises)
    /\ WF_all(CancelRefresh) /\ WF_all(TearDown) /\ WF_all(CloseStore)

LifespanSpec == LifespanInit /\ [][LifespanNext]_all /\ LifespanFairness

-----------------------------------------------------------------------------
(* Properties *)

(* No operation of the builder, the background refresh included, runs      *)
(* without an open store and the plugins whose hooks its connections call, *)
(* however the gateway stops.                                              *)
WorkersHaveTheirStore ==
    stage = "serving" \/ (\E t \in Tasks : pc[t] # "idle") =>
        store = "open" /\ running = 1..Plugins

(* A plugin is torn down before those it was set up after, and with the    *)
(* store still open: what it flushes, it can flush through them.           *)
DependenciesOutlive ==
    /\ running # {} => store = "open"
    /\ \A p, q \in 1..Plugins : p < q /\ q \in running => p \in running

(* A lifespan that is over leaves no plugin running and no connection      *)
(* open, also when a setup or the startup operation raised; but for two    *)
(* exceptions.  Of a teardown that raised, the plugins set up before its   *)
(* own are left, all of them, and the store; of a store that could not be  *)
(* initialised, at most its connection.                                    *)
NothingLeaks ==
    /\ stage = "down" => running = {} /\ store = "closed"
    /\ stage = "raised" => running = 1..(started - 1) /\ store = "open"
    /\ stage = "failed" => running = {}

(* A lifespan that was entered serves or ends, if the introspections of a  *)
(* startup reload return; one that was left ends, for then the one that is *)
(* under way is cancelled.                                                 *)
LifespanEnds ==
    /\ IntrospectionsReturn => (stage = "setup" ~> stage \in {"serving", "down", "raised"})
    /\ stage = "stopping" ~> stage \in {"down", "raised"}
=============================================================================
