-------------------------------- MODULE Sandbox --------------------------------
(***************************************************************************)
(* A room's sandbox in the runner: the registry of sessions with its sweep *)
(* (apps/runner/src/room-session.ts), the RunManager of each session       *)
(* (runs.ts), the one container they all reach by its name (sandbox.ts),   *)
(* terminals (terminal.ts) and the databases that sleep with it            *)
(* (databases.ts, docker-databases.ts), for one room on Docker.            *)
(*                                                                         *)
(* A request is a run, a terminal or a restart.  Every await of its        *)
(* handler ends a step.  Of time there is what the code measures: a        *)
(* session was touched within the idle minutes or it was not.  A handler's *)
(* awaits are much shorter than that.                                      *)
(***************************************************************************)
EXTENDS Naturals, FiniteSets

CONSTANTS
    Requests,       \* runs, terminals and restarts people ask for
    NoRun,          \* not a request
    Databases,      \* "asleep" where the room has databases, or "none"
    MaxSessions,    \* bound on the sessions made for the room over time
    MaxResets,      \* bound on resets because the sandbox is out of processes
    MaxRestarts     \* bound on restarts of the runner

ASSUME RequestsAssumption == IsFiniteSet(Requests) /\ NoRun \notin Requests
ASSUME DatabasesAssumption == Databases \in {"asleep", "none"}
ASSUME BoundsAssumption == MaxSessions \in Nat /\ MaxResets \in Nat /\ MaxRestarts \in Nat

Sessions == 1..MaxSessions

VARIABLES
    registry,   \* the room's session in the registry, or 0
    opened,     \* how many there have been
    active,     \* RunManager.active of each session
    fresh,      \* touched within the idle minutes
    terminals,  \* each session's count of terminals
    link,       \* its agent: none, connected, or attached with the files in place
    closing,    \* how far close() is
    kind, pc, of, target,   \* each request: what it is, where, in which session, and
                            \* the run it waits to stop
    gone,       \* requests whose client has gone
    asked,      \* runs somebody is stopping
    timers,     \* runs whose time limit is ahead
    alive,      \* requests whose process runs in the container
    container, databases,
    resuming,   \* what a databases.resume nobody awaits has asked Docker for
    sweep,      \* what the sweep's list of containers says to stop
    stops,      \* stops Docker carries out for a sweep, or for a runner that is gone
    overlapped, \* history: a start went on while another one did
    leaked,     \* history: sessions that count a terminal that is not there
    missed,     \* history: what came between the databases and the files put in place last
    resets, restarts

session  == <<registry, opened, active, fresh, terminals, link, closing>>
request  == <<kind, pc, of, target, gone>>
runs     == <<asked, timers, alive>>
docker   == <<container, databases, resuming, sweep, stops>>
history  == <<overlapped, leaked, missed>>
bounds   == <<resets, restarts>>
vars     == <<session, request, runs, docker, history, bounds>>

Init ==
    /\ registry = 0 /\ opened = 0
    /\ active = [s \in Sessions |-> NoRun]
    /\ fresh = [s \in Sessions |-> FALSE] /\ terminals = [s \in Sessions |-> 0]
    /\ link = [s \in Sessions |-> "none"] /\ closing = [s \in Sessions |-> "no"]
    /\ kind = [q \in Requests |-> "none"] /\ pc = [q \in Requests |-> "new"]
    /\ of = [q \in Requests |-> 0] /\ target = [q \in Requests |-> NoRun]
    /\ gone = {} /\ asked = {} /\ timers = {} /\ alive = {}
    /\ container = "down" /\ databases = Databases /\ resuming = {}
    /\ sweep = "no" /\ stops = {}
    /\ overlapped = FALSE /\ leaked = {} /\ missed = {}
    /\ resets = 0 /\ restarts = 0

Underway(q) == pc[q] \notin {"new", "done"}

\* The steps of a start between its look at active and the run it makes active.
Starting(q) == kind[q] = "run" /\ pc[q] \in {"preparing", "exec", "execed"}

\* What stop() is called for: the run that is active now.
Current(s) == {active[s]} \ {NoRun}

\* Every process in the container ends and every agent's stream with it, and a
\* stop of the container has nothing left to do; s, if it is a session,
\* connects to the new agent.
Emptied(s) ==
    /\ alive' = {} /\ stops' = stops \ {"container"}
    /\ link' = [x \in Sessions |-> IF x = s THEN "connected" ELSE "none"]

\* Docker refuses a call and nobody hears of it, which matters to databases.
Refuses == missed' = IF databases = "none" THEN missed ELSE missed \cup {"refused"}

-----------------------------------------------------------------------------
(* A request arrives: rooms.get, and what follows at once.                 *)

Arrive(q, k, s) ==
    /\ pc[q] = "new"
    /\ s = IF registry # 0 THEN registry ELSE opened + 1
    /\ s \in Sessions
    /\ registry' = s /\ opened' = IF registry # 0 THEN opened ELSE opened + 1
    /\ kind' = [kind EXCEPT ![q] = k] /\ of' = [of EXCEPT ![q] = s]

\* Mutant: nobody waits for the stop.
StopUnawaited(q, s, next) ==
    /\ pc' = [pc EXCEPT ![q] = next] /\ target' = [target EXCEPT ![q] = NoRun]
    /\ asked' = asked \cup Current(s)

\* The current run is stopped first; without one the handler goes on.
StopFirst(q, s, next) ==
    /\ pc' = [pc EXCEPT ![q] = IF active[s] = NoRun THEN next ELSE "stopping"]
    /\ target' = [target EXCEPT ![q] = active[s]]
    /\ asked' = asked \cup Current(s)

\* ready() starts with a touch.
StartRun(q, s) ==
    /\ Arrive(q, "run", s) /\ StopFirst(q, s, "preparing")
    /\ fresh' = [fresh EXCEPT ![s] = @ \/ active[s] = NoRun]
    /\ overlapped' = (overlapped \/ (active[s] = NoRun /\ \E r \in Requests : Starting(r)))
    /\ UNCHANGED <<active, terminals, link, closing, gone, timers, alive, docker, leaked, missed, bounds>>

\* Mutant: a terminal counts when its shell is there.
OpenTerminalUncounted(q, s) ==
    /\ Arrive(q, "terminal", s) /\ pc' = [pc EXCEPT ![q] = "preparing"]
    /\ UNCHANGED <<active, fresh, terminals, link, closing, target, gone, runs, docker, history, bounds>>

OpenTerminal(q, s) ==
    /\ Arrive(q, "terminal", s) /\ pc' = [pc EXCEPT ![q] = "preparing"]
    /\ terminals' = [terminals EXCEPT ![s] = @ + 1] /\ fresh' = [fresh EXCEPT ![s] = TRUE]
    /\ UNCHANGED <<active, link, closing, target, gone, runs, docker, history, bounds>>

\* A restart touches nothing before its reset, but a new session is fresh.
Restart(q, s) ==
    /\ Arrive(q, "restart", s) /\ StopFirst(q, s, "resetting")
    /\ fresh' = [fresh EXCEPT ![s] = @ \/ registry = 0]
    /\ UNCHANGED <<active, terminals, link, closing, gone, timers, alive, docker, history, bounds>>

\* The stop in front of a start or a restart comes back: its run has ended, or
\* its stream is destroyed and its end a matter of one more await.
StopReturns(q) ==
    /\ pc[q] = "stopping" /\ pc[target[q]] \in {"finishing", "done"}
    /\ pc' = [pc EXCEPT ![q] = IF kind[q] = "run" THEN "preparing" ELSE "resetting"]
    /\ fresh' = [fresh EXCEPT ![of[q]] = @ \/ kind[q] = "run"]
    /\ overlapped' = (overlapped \/ (kind[q] = "run" /\ \E r \in Requests \ {target[q]} :
                                       Starting(r) \/ pc[r] = "running"))
    /\ UNCHANGED <<registry, opened, active, terminals, link, closing, kind, of, target, gone,
                   runs, docker, leaked, missed, bounds>>

\* sandbox.reset() kills the container and connects to a new agent; ready() follows.
Reset(q) ==
    /\ pc[q] = "resetting" /\ pc' = [pc EXCEPT ![q] = "preparing"]
    /\ Emptied(of[q]) /\ container' = "up"
    /\ fresh' = [fresh EXCEPT ![of[q]] = TRUE]
    /\ UNCHANGED <<registry, opened, active, terminals, closing, kind, of, target, gone, asked, timers,
                   databases, resuming, sweep, history, bounds>>

-----------------------------------------------------------------------------
(* ready() and exec().                                                     *)

\* ensure(): the container starts, or its agent answers a ping.  Whoever of
\* the session waits shares it.
Connect(s) ==
    /\ link[s] = "none" /\ \E q \in Requests : of[q] = s /\ pc[q] \in {"preparing", "exec"}
    /\ link' = [link EXCEPT ![s] = "connected"] /\ container' = "up"
    /\ UNCHANGED <<registry, opened, active, fresh, terminals, closing, request, runs, databases, resuming,
                   sweep, stops, history, bounds>>

\* The files are put in place, and databases that slept are to wake up, which
\* nobody waits for.
Attach(s) ==
    /\ link[s] = "connected" /\ \E q \in Requests : of[q] = s /\ pc[q] = "preparing"
    /\ link' = [link EXCEPT ![s] = "attached"] /\ resuming' = resuming \cup {"list"}
    /\ missed' = {}
    /\ UNCHANGED <<registry, opened, active, fresh, terminals, closing, request, runs, container, databases,
                   sweep, stops, overlapped, leaked, bounds>>

\* resume() lists the databases that are stopped, and starts those there are.
\* A list that fails counts as an empty one, a start that fails is logged.
ResumeLists ==
    /\ "list" \in resuming
    /\ \/ resuming' = (resuming \ {"list"}) \cup (IF databases = "asleep" THEN {"start"} ELSE {})
          /\ UNCHANGED missed
       \/ resuming' = resuming \ {"list"} /\ Refuses
    /\ UNCHANGED <<session, request, runs, container, databases, sweep, stops, overlapped, leaked, bounds>>

ResumeStarts ==
    /\ "start" \in resuming /\ resuming' = resuming \ {"start"}
    /\ \/ databases' = "up" /\ UNCHANGED missed
       \/ Refuses /\ UNCHANGED databases
    /\ UNCHANGED <<session, request, runs, container, sweep, stops, overlapped, leaked, bounds>>

\* ready() finds the sandbox nearly out of processes and resets it, whatever
\* else runs in it.
ReadyResets(q) ==
    /\ pc[q] = "preparing" /\ link[of[q]] # "none"
    /\ resets < MaxResets /\ resets' = resets + 1
    /\ Emptied(of[q]) /\ container' = "up"
    /\ UNCHANGED <<registry, opened, active, fresh, terminals, closing, request, asked, timers,
                   databases, resuming, sweep, history, restarts>>

Prepared(q) ==
    /\ pc[q] = "preparing" /\ link[of[q]] = "attached"
    /\ pc' = [pc EXCEPT ![q] = CASE kind[q] = "restart" -> "done"
                                 [] kind[q] = "terminal" /\ q \in gone -> "done"
                                 [] OTHER -> "exec"]
    \* openTerminal returns here without taking the terminal off the count.
    /\ leaked' = IF kind[q] = "terminal" /\ q \in gone THEN leaked \cup {of[q]} ELSE leaked
    /\ UNCHANGED <<session, kind, of, target, gone, runs, docker, overlapped, missed, bounds>>

\* ready() fails, or the file is not there any more.
Fails(q) ==
    /\ pc[q] \in {"preparing", "exec"} /\ pc' = [pc EXCEPT ![q] = "done"]
    /\ terminals' = [terminals EXCEPT ![of[q]] = @ - IF kind[q] = "terminal" THEN 1 ELSE 0]
    /\ UNCHANGED <<registry, opened, active, fresh, link, closing, kind, of, target, gone, runs, docker,
                   history, bounds>>

\* The process is there; the handler has not heard of it yet.
Exec(q) ==
    /\ pc[q] = "exec" /\ link[of[q]] # "none"
    /\ pc' = [pc EXCEPT ![q] = "execed"] /\ alive' = alive \cup {q}
    /\ UNCHANGED <<session, kind, of, target, gone, asked, timers, docker, history, bounds>>

\* The run is the active one; its time limit runs.
Begin(q) ==
    /\ kind[q] = "run" /\ pc[q] = "execed" /\ pc' = [pc EXCEPT ![q] = "running"]
    /\ active' = [active EXCEPT ![of[q]] = q] /\ timers' = timers \cup {q}
    /\ UNCHANGED <<registry, opened, fresh, terminals, link, closing, kind, of, target, gone, asked, alive,
                   docker, history, bounds>>

\* A terminal's shell is there, unless the tab was closed meanwhile.
Shell(q) ==
    /\ kind[q] = "terminal" /\ pc[q] = "execed"
    /\ pc' = [pc EXCEPT ![q] = IF q \in gone THEN "done" ELSE "open"]
    /\ terminals' = [terminals EXCEPT ![of[q]] = @ - IF q \in gone THEN 1 ELSE 0]
    /\ alive' = IF q \in gone THEN alive \ {q} ELSE alive
    /\ UNCHANGED <<registry, opened, active, fresh, link, closing, kind, of, target, gone, asked, timers,
                   docker, history, bounds>>

-----------------------------------------------------------------------------
(* Programs, and stop().                                                   *)

\* A program ends by itself.
Exits(q) ==
    /\ q \in alive /\ pc[q] \in {"execed", "running"} /\ alive' = alive \ {q}
    /\ UNCHANGED <<session, request, asked, timers, docker, history, bounds>>

\* Mutant: the time limit asks for nothing.
TimeoutLost(q) ==
    /\ q \in timers /\ timers' = timers \ {q} /\ UNCHANGED asked
    /\ UNCHANGED <<session, request, alive, docker, history, bounds>>

\* The time limit of a run stops whichever run is active.
Timeout(q) ==
    /\ q \in timers /\ timers' = timers \ {q}
    /\ asked' = asked \cup Current(of[q])
    /\ UNCHANGED <<session, request, alive, docker, history, bounds>>

\* POST runs/stop; a run at its output limit does the same.
Stop ==
    /\ registry # 0 /\ Current(registry) \ asked # {}
    /\ asked' = asked \cup Current(registry)
    /\ UNCHANGED <<session, request, timers, alive, docker, history, bounds>>

\* A browser tab or the API goes.  A run that has begun is stopped, one that
\* has not is left to begin; a terminal that is open is closed.
Leave(q) ==
    /\ Underway(q) /\ q \notin gone /\ gone' = gone \cup {q}
    /\ IF kind[q] = "terminal" /\ pc[q] = "open"
       THEN /\ pc' = [pc EXCEPT ![q] = "done"] /\ alive' = alive \ {q}
            /\ terminals' = [terminals EXCEPT ![of[q]] = @ - 1]
            /\ fresh' = [fresh EXCEPT ![of[q]] = TRUE]
       ELSE UNCHANGED <<pc, alive, terminals, fresh>>
    /\ asked' = IF active[of[q]] = q THEN asked \cup {q} ELSE asked
    /\ UNCHANGED <<registry, opened, active, link, closing, kind, of, target, timers, docker, history, bounds>>

\* Ctrl-C, or the kill of its process group, ends the process.
Kill(q) ==
    /\ q \in asked /\ q \in alive /\ alive' = alive \ {q}
    /\ UNCHANGED <<session, request, asked, timers, docker, history, bounds>>

\* The kill takes too long: stop() gives up and destroys the stream.
GiveUp(q) ==
    /\ q \in asked /\ pc[q] = "running" /\ q \in alive
    /\ pc' = [pc EXCEPT ![q] = "finishing"] /\ timers' = timers \ {q}
    /\ UNCHANGED <<session, kind, of, target, gone, asked, alive, docker, history, bounds>>

\* The kill cannot even exec: the sandbox is reset.
KillFails(q) ==
    /\ q \in asked /\ pc[q] = "running" /\ q \in alive
    /\ resets < MaxResets /\ resets' = resets + 1
    /\ Emptied(of[q]) /\ container' = "up"
    /\ UNCHANGED <<registry, opened, active, fresh, terminals, closing, request, asked, timers,
                   databases, resuming, sweep, history, restarts>>

\* The stream of a process that is gone ends.
Ends(q) ==
    /\ q \notin alive
    /\ \/ pc[q] = "running" /\ pc' = [pc EXCEPT ![q] = "finishing"] /\ timers' = timers \ {q}
          /\ UNCHANGED terminals
       \/ pc[q] = "open" /\ pc' = [pc EXCEPT ![q] = "done"]
          /\ terminals' = [terminals EXCEPT ![of[q]] = @ - 1] /\ UNCHANGED timers
    /\ UNCHANGED <<registry, opened, active, fresh, link, closing, kind, of, target, gone, asked, alive,
                   docker, history, bounds>>

\* Mutant: the run that has ended stays the active one.
FinishKeeps(q) ==
    /\ pc[q] = "finishing" /\ pc' = [pc EXCEPT ![q] = "done"]
    /\ UNCHANGED <<session, kind, of, target, gone, runs, docker, history, bounds>>

\* finish() has its exit code: the run is not active any more.
Finish(q) ==
    /\ pc[q] = "finishing" /\ pc' = [pc EXCEPT ![q] = "done"]
    /\ active' = [active EXCEPT ![of[q]] = IF @ = q THEN NoRun ELSE @]
    /\ UNCHANGED <<registry, opened, fresh, terminals, link, closing, kind, of, target, gone, runs, docker,
                   history, bounds>>

\* Its output says the sandbox is out of processes: a reset comes first.
FinishExhausted(q) ==
    /\ pc[q] = "finishing" /\ resets < MaxResets /\ resets' = resets + 1
    /\ Emptied(of[q]) /\ container' = "up"
    /\ UNCHANGED <<registry, opened, active, fresh, terminals, closing, request, asked, timers,
                   databases, resuming, sweep, history, restarts>>

-----------------------------------------------------------------------------
(* The sweep.                                                              *)

\* The idle minutes go by, with no handler of the session in the middle of
\* its awaits.
Cool(s) ==
    /\ fresh[s] /\ fresh' = [fresh EXCEPT ![s] = FALSE]
    /\ \A q \in Requests : of[q] = s => pc[q] \in {"new", "running", "open", "done"}
    /\ UNCHANGED <<registry, opened, active, terminals, link, closing, request, runs, docker, history, bounds>>

\* Mutant: terminals are not looked at.
IsIdleButTerminals(s) == active[s] = NoRun /\ ~fresh[s]

IsIdle(s) == active[s] = NoRun /\ terminals[s] = 0 /\ ~fresh[s]

\* An idle session leaves the registry and is closed: no run to stop, then
\* the databases, then the container.  A handler that stop() is about to
\* resume comes before the next tick.
Sweep(s) ==
    /\ registry = s /\ IsIdle(s) /\ \A q \in Requests : of[q] = s => pc[q] # "stopping"
    /\ registry' = 0 /\ closing' = [closing EXCEPT ![s] = "pausing"]
    /\ UNCHANGED <<opened, active, fresh, terminals, link, request, runs, docker, history, bounds>>

\* The databases have stopped, or Docker refused.
Pauses ==
    /\ \/ databases' = Databases /\ stops' = stops \ {"databases"}
       \/ UNCHANGED <<databases, stops>>
    /\ UNCHANGED <<link, alive, container, missed>>

\* The container of s has stopped, or Docker refused; s has left its agent.
ContainerStops(s) ==
    /\ \/ container' = "down" /\ Emptied(0) /\ UNCHANGED missed
       \/ link' = [link EXCEPT ![s] = "none"] /\ Refuses
          /\ UNCHANGED <<alive, container, stops>>
    /\ UNCHANGED databases

\* Mutant: the container is stopped first.
CloseBackwards(s) ==
    /\ \/ closing[s] = "pausing" /\ closing' = [closing EXCEPT ![s] = "stopping"] /\ ContainerStops(s)
       \/ closing[s] = "stopping" /\ closing' = [closing EXCEPT ![s] = "closed"] /\ Pauses
    /\ UNCHANGED <<registry, opened, active, fresh, terminals, request, asked, timers, resuming, sweep,
                   overlapped, leaked, bounds>>

Close(s) ==
    /\ \/ closing[s] = "pausing" /\ closing' = [closing EXCEPT ![s] = "stopping"] /\ Pauses
       \/ closing[s] = "stopping" /\ closing' = [closing EXCEPT ![s] = "closed"] /\ ContainerStops(s)
    /\ UNCHANGED <<registry, opened, active, fresh, terminals, request, asked, timers, resuming, sweep,
                   overlapped, leaked, bounds>>

\* The rest of a sweep goes by a list: a container that runs is to be stopped,
\* and if none does the databases that run ...
SweepLists ==
    /\ sweep = "no"
    /\ \/ container = "up" /\ sweep' = "container"
       \/ container = "down" /\ databases = "up" /\ sweep' = "databases"
    /\ UNCHANGED <<session, request, runs, container, databases, resuming, stops, history, bounds>>

Up == {x \in {"container", "databases"} : (IF x = "container" THEN container ELSE databases) = "up"}

\* ... unless the room has a session when their turn comes.  The stop is
\* awaited; no session hears of it.
SweepStops ==
    /\ sweep # "no" /\ sweep' = "no"
    /\ stops' = IF registry = 0 THEN stops \cup ({sweep} \cap Up) ELSE stops
    /\ UNCHANGED <<session, request, runs, container, databases, resuming, history, bounds>>

\* A stop has its effect, or none.
StopEnds(x) ==
    /\ stops' = stops \ {x}
    /\ \/ x = "container" /\ container' = "down" /\ Emptied(0) /\ UNCHANGED <<databases, missed>>
       \/ x = "databases" /\ databases' = Databases /\ missed' = missed \cup {"taken"}
          /\ UNCHANGED <<container, alive, link>>
       \/ UNCHANGED <<container, alive, link, databases, missed>>
    /\ UNCHANGED <<registry, opened, active, fresh, terminals, closing, request, asked, timers, resuming, sweep,
                   overlapped, leaked, bounds>>

\* What close() waits for Docker to stop.
Awaited ==
    {x \in Up :
        \E s \in Sessions : closing[s] = IF x = "databases" THEN "pausing" ELSE "stopping"}

\* The runner restarts: sessions and requests are gone, the container and what
\* runs in it stay, and Docker goes on with the stops it was asked for.
RunnerRestart ==
    /\ restarts < MaxRestarts /\ restarts' = restarts + 1
    /\ registry' = 0 /\ active' = [s \in Sessions |-> NoRun]
    /\ terminals' = [s \in Sessions |-> 0] /\ link' = [s \in Sessions |-> "none"]
    /\ fresh' = [s \in Sessions |-> FALSE]
    /\ closing' = [s \in Sessions |-> IF s <= opened THEN "closed" ELSE "no"]
    /\ pc' = [q \in Requests |-> IF Underway(q) THEN "done" ELSE pc[q]]
    /\ timers' = {} /\ asked' = {}
    /\ resuming' = {} /\ sweep' = "no" /\ stops' = stops \cup Awaited
    /\ UNCHANGED <<opened, kind, of, target, gone, alive, container, databases, history, resets>>

-----------------------------------------------------------------------------
Ask(q) == \E s \in Sessions : StartRun(q, s) \/ OpenTerminal(q, s) \/ Restart(q, s)
Handle(q) == StopReturns(q) \/ Reset(q) \/ Prepared(q) \/ Exec(q) \/ Begin(q) \/ Shell(q) \/ Ends(q) \/ Finish(q)
Session(s) == Connect(s) \/ Attach(s)

Next ==
    \/ \E q \in Requests : \/ Ask(q) \/ Handle(q) \/ Fails(q) \/ ReadyResets(q) \/ FinishExhausted(q)
                           \/ Exits(q) \/ Timeout(q) \/ Leave(q) \/ Kill(q) \/ GiveUp(q)
                           \/ KillFails(q)
    \/ \E s \in Sessions : Session(s) \/ Cool(s) \/ Sweep(s) \/ Close(s)
    \/ \E x \in stops : StopEnds(x)
    \/ ResumeLists \/ ResumeStarts \/ Stop \/ SweepLists \/ SweepStops \/ RunnerRestart

Spec == Init /\ [][Next]_vars

\* Handlers go on when what they await has come, time limits pass, a kill
\* kills, and the sweep comes by.  No program has to end by itself.
Fairness ==
    /\ \A q \in Requests : WF_vars(Handle(q)) /\ WF_vars(Timeout(q)) /\ WF_vars(Kill(q))
    /\ \A s \in Sessions : WF_vars(Session(s)) /\ WF_vars(Cool(s)) /\ WF_vars(Sweep(s)) /\ WF_vars(Close(s))

FairSpec == Spec /\ Fairness
-----------------------------------------------------------------------------
(* What the code must keep.                                                *)

Live(q) == q \in alive /\ kind[q] = "run" /\ pc[q] \in {"execed", "running"}

TypeOK ==
    /\ registry \in 0..MaxSessions /\ opened \in 0..MaxSessions
    /\ active \in [Sessions -> Requests \cup {NoRun}]
    /\ fresh \in [Sessions -> BOOLEAN] /\ terminals \in [Sessions -> Nat]
    /\ link \in [Sessions -> {"none", "connected", "attached"}]
    /\ closing \in [Sessions -> {"no", "pausing", "stopping", "closed"}]
    /\ kind \in [Requests -> {"none", "run", "terminal", "restart"}]
    /\ pc \in [Requests -> {"new", "stopping", "resetting", "preparing", "exec", "execed",
                            "running", "finishing", "open", "done"}]
    /\ of \in [Requests -> 0..MaxSessions] /\ target \in [Requests -> Requests \cup {NoRun}]
    /\ gone \subseteq Requests /\ asked \subseteq Requests /\ timers \subseteq Requests
    /\ alive \subseteq Requests
    /\ container \in {"up", "down"} /\ databases \in {"up", Databases} /\ resuming \subseteq {"list", "start"}
    /\ sweep \in {"no", "container", "databases"} /\ stops \subseteq {"container", "databases"}
    /\ overlapped \in BOOLEAN /\ leaked \subseteq Sessions /\ missed \subseteq {"refused", "taken"}
    /\ resets \in 0..MaxResets /\ restarts \in 0..MaxRestarts

\* Two programs of the room never run at once, whatever sessions, resets,
\* stops and time limits there were, unless two starts had both passed their
\* look at active.  (A program stop() gave
\* up on, or a restarted runner has forgotten, does not count.)
OneRun == ~overlapped => \A q, r \in Requests : Live(q) /\ Live(r) => q = r

\* A session the sweep has taken has no run and no terminal under way: close()
\* never kills a run or a shell of the session it closes.  (A restart may be:
\* it does not touch the session before its reset.)
SweptIsUnused ==
    \A s \in Sessions : closing[s] # "no" =>
        \A q \in Requests : of[q] = s /\ Underway(q) => kind[q] = "restart" \/ overlapped

\* The room's sandbox has its files in place, and no close() is under way.
Attached ==
    /\ \E s \in Sessions : s = registry /\ link[s] = "attached"
    /\ \A s \in Sessions : closing[s] \in {"no", "closed"}

\* A sandbox with its files in place has its databases up or on their way, also
\* after an older session's close() has stopped both under the new one: the
\* databases go first, so that what takes them takes the agent after.  Two
\* things nobody hears of can come between: a call Docker refuses, and a stop
\* of the databases that ends after the files are there.
DatabasesAwake == Attached /\ missed = {} => databases # "asleep" \/ resuming # {}

\* Every run comes to an end, though programs may run for ever, the sandbox be
\* reset under them and an older session stop it: no stop waits for good, no
\* time limit is lost.  Overlapped runs are the exception.
Answered == []<>(overlapped \/ \A q \in Requests : kind[q] = "run" => pc[q] = "done")

InUse(s) == \E q \in Requests : of[q] = s /\ Underway(q)

\* A session with nothing under way is closed in the end, unless a terminal
\* was closed before its sandbox was ready.
IdleIsClosed == []<>(registry = 0 \/ InUse(registry) \/ registry \in leaked)

\* Claim of runs.ts: one run at a time; a new one never overlaps the previous.
OneAtATime == \A q, r \in Requests : Live(q) /\ Live(r) => q = r

\* Claim of room-session.ts: databases wake with the sandbox, where Docker does
\* what it is asked for.
WakesWithSandbox == Attached /\ "refused" \notin missed => databases # "asleep" \/ resuming # {}

\* Claim of room-session.ts: a session is closed after the idle minutes with
\* no run and no terminal.
ClosedWithoutRunOrTerminal == []<>(registry = 0 \/ InUse(registry))
=============================================================================
