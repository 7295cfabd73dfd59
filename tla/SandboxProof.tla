----------------------------- MODULE SandboxProof -----------------------------
(***************************************************************************)
(* Proofs about Sandbox, for any finite set of requests and any bounds.    *)
(***************************************************************************)
EXTENDS SandboxInv, FiniteSetTheorems, TLAPS

USE RequestsAssumption, DatabasesAssumption, BoundsAssumption
    DEF session, request, runs, docker, history, bounds, Sessions

Everywhere == {"new", "stopping", "resetting", "preparing", "exec", "execed", "running", "finishing",
               "open", "done"}

\* TypeOK but for the terminals and what is Boolean.
Rest ==
    /\ registry \in 0..MaxSessions /\ opened \in 0..MaxSessions
    /\ active \in [Sessions -> Requests \cup {NoRun}]
    /\ fresh \in [Sessions -> BOOLEAN]
    /\ link \in [Sessions -> {"none", "connected", "attached"}]
    /\ closing \in [Sessions -> {"no", "pausing", "stopping", "closed"}]
    /\ kind \in [Requests -> {"none", "run", "terminal", "restart"}]
    /\ pc \in [Requests -> Everywhere]
    /\ of \in [Requests -> 0..MaxSessions] /\ target \in [Requests -> Requests \cup {NoRun}]

Sets ==
    /\ gone \subseteq Requests /\ asked \subseteq Requests /\ timers \subseteq Requests
    /\ alive \subseteq Requests
    /\ container \in {"up", "down"} /\ databases \in {"up", Databases} /\ resuming \subseteq {"list", "start"}
    /\ sweep \in {"no", "container", "databases"} /\ stops \subseteq {"container", "databases"}
    /\ leaked \subseteq Sessions /\ missed \subseteq {"refused", "taken"}
    /\ resets \in 0..MaxResets /\ restarts \in 0..MaxRestarts

LEMMA Parts == TypeOK <=> Rest /\ Sets /\ terminals \in [Sessions -> Nat] /\ overlapped \in BOOLEAN
  BY DEF TypeOK, Rest, Sets, Everywhere

LEMMA RestStep == Rest /\ [Next]_vars => Rest'
<1> SUFFICES ASSUME Rest, [Next]_vars PROVE Rest'
  OBVIOUS
<1> USE DEF Rest, Everywhere
<1>1. ASSUME NEW q \in Requests, NEW s \in Sessions, StartRun(q, s) PROVE Rest'
  BY <1>1 DEF StartRun, Arrive, StopFirst
<1>2. ASSUME NEW q \in Requests, NEW s \in Sessions, OpenTerminal(q, s) PROVE Rest'
  BY <1>2 DEF OpenTerminal, Arrive
<1>3. ASSUME NEW q \in Requests, NEW s \in Sessions, Restart(q, s) PROVE Rest'
  BY <1>3 DEF Restart, Arrive, StopFirst
<1>4. ASSUME NEW q \in Requests, StopReturns(q) PROVE Rest'
  BY <1>4 DEF StopReturns
<1>5. ASSUME NEW q \in Requests, Reset(q) PROVE Rest'
  BY <1>5 DEF Reset, Emptied
<1>6. ASSUME NEW q \in Requests, Prepared(q) \/ Fails(q) \/ Exec(q) \/ Shell(q) PROVE Rest'
  BY <1>6 DEF Prepared, Fails, Exec, Shell
<1>7. ASSUME NEW q \in Requests, Begin(q) \/ Finish(q) PROVE Rest'
  <2>1. CASE Begin(q)
    BY <2>1 DEF Begin
  <2>2. CASE Finish(q)
    <3>1. active' \in [Sessions -> Requests \cup {NoRun}]
      BY <2>2 DEF Finish
    <3> QED
      BY <2>2, <3>1 DEF Finish
  <2> QED
    BY <1>7, <2>1, <2>2
<1>8. ASSUME NEW q \in Requests, Ends(q) \/ GiveUp(q) PROVE Rest'
  BY <1>8 DEF Ends, GiveUp
<1>9. ASSUME NEW q \in Requests, ReadyResets(q) \/ FinishExhausted(q) \/ KillFails(q) PROVE Rest'
  BY <1>9 DEF ReadyResets, FinishExhausted, KillFails, Emptied
<1>10. ASSUME NEW q \in Requests, Exits(q) \/ Timeout(q) \/ Kill(q) PROVE Rest'
  BY <1>10 DEF Exits, Timeout, Kill
<1>11. ASSUME NEW q \in Requests, Leave(q) PROVE Rest'
  BY <1>11 DEF Leave
<1>12. ASSUME NEW s \in Sessions, Connect(s) \/ Attach(s) PROVE Rest'
  BY <1>12 DEF Connect, Attach
<1>13. ASSUME NEW s \in Sessions, Cool(s) \/ Sweep(s) PROVE Rest'
  <2>1. CASE Cool(s)
    BY <2>1 DEF Cool
  <2>2. CASE Sweep(s)
    BY <2>2 DEF Sweep
  <2> QED
    BY <1>13, <2>1, <2>2
<1>14. ASSUME NEW s \in Sessions, Close(s) PROVE Rest'
  <2>1. UNCHANGED <<registry, opened, active, fresh, kind, pc, of, target>>
    BY <1>14 DEF Close
  <2>2. closing' \in [Sessions -> {"no", "pausing", "stopping", "closed"}]
    BY <1>14 DEF Close
  <2>3. link' \in [Sessions -> {"none", "connected", "attached"}]
    BY <1>14 DEF Close, Pauses, ContainerStops, Emptied
  <2> QED
    BY <2>1, <2>2, <2>3
<1>15. CASE ResumeLists \/ ResumeStarts \/ Stop \/ SweepLists \/ SweepStops
  BY <1>15 DEF ResumeLists, ResumeStarts, Stop, SweepLists, SweepStops
<1>18. ASSUME NEW x \in stops, StopEnds(x) PROVE Rest'
  BY <1>18 DEF StopEnds, Emptied
<1>16. CASE RunnerRestart
  BY <1>16 DEF RunnerRestart, Underway
<1>17. CASE UNCHANGED vars
  BY <1>17 DEF vars
<1> QED
  BY <1>1, <1>2, <1>3, <1>4, <1>5, <1>6, <1>7, <1>8, <1>9, <1>10, <1>11, <1>12, <1>13, <1>14, <1>15, <1>16, <1>17,
     <1>18 DEF Next, Ask, Handle, Session

LEMMA PlaceStep == Rest /\ InPlace /\ [Next]_vars => InPlace'
<1> SUFFICES ASSUME Rest, InPlace, [Next]_vars PROVE InPlace'
  OBVIOUS
<1> USE DEF InPlace, Places
<1>a. /\ kind \in [Requests -> {"none", "run", "terminal", "restart"}] /\ pc \in [Requests -> Everywhere]
      /\ of \in [Requests -> 0..MaxSessions]
  BY DEF Rest
<1>1. ASSUME NEW q \in Requests, NEW s \in Sessions, StartRun(q, s) \/ OpenTerminal(q, s) \/ Restart(q, s)
      PROVE  InPlace'
  <2>1. /\ of'[q] = s /\ UNCHANGED timers
        /\ \A r \in Requests \ {q} : kind'[r] = kind[r] /\ pc'[r] = pc[r] /\ of'[r] = of[r]
    BY <1>1, <1>a DEF StartRun, OpenTerminal, Restart, Arrive, StopFirst
  <2>2. \/ kind'[q] = "run" /\ pc'[q] \in {"stopping", "preparing"}
        \/ kind'[q] = "terminal" /\ pc'[q] = "preparing"
        \/ kind'[q] = "restart" /\ pc'[q] \in {"stopping", "resetting"}
    BY <1>1, <1>a DEF StartRun, OpenTerminal, Restart, Arrive, StopFirst
  <2> QED
    BY <2>1, <2>2
<1>2. ASSUME NEW q \in Requests, Handle(q) \/ Fails(q) \/ GiveUp(q) \/ Leave(q) PROVE InPlace'
  <2>1. UNCHANGED <<kind, of>> /\ pc[q] # "new" /\ timers' \subseteq timers \cup {q}
    BY <1>2 DEF Handle, StopReturns, Reset, Prepared, Exec, Begin, Shell, Ends, Finish, Fails, GiveUp, Leave, Underway
  <2>2. pc' = pc \/ \E x : pc' = [pc EXCEPT ![q] = x]
    BY <1>2 DEF Handle, StopReturns, Reset, Prepared, Exec, Begin, Shell, Ends, Finish, Fails, GiveUp, Leave
  <2>3. \A r \in Requests \ {q} : pc'[r] = pc[r]
    BY <2>2, <1>a
  <2>4. pc'[q] \in Places(kind[q]) /\ pc'[q] # "new"
    <3>1. CASE StopReturns(q) \/ Reset(q) \/ Prepared(q)
      BY <3>1, <1>a DEF StopReturns, Reset, Prepared
    <3>2. CASE Exec(q) \/ Begin(q) \/ Shell(q)
      BY <3>2, <1>a DEF Exec, Begin, Shell
    <3>3. CASE Ends(q) \/ Finish(q) \/ Fails(q) \/ GiveUp(q)
      BY <3>3, <1>a DEF Ends, Finish, Fails, GiveUp
    <3>4. CASE Leave(q)
      BY <3>4, <1>a DEF Leave, Underway
    <3> QED
      BY <1>2, <3>1, <3>2, <3>3, <3>4 DEF Handle
  <2> QED
    BY <2>1, <2>3, <2>4
<1>3. CASE UNCHANGED <<kind, pc, of>> /\ timers' \subseteq timers
  BY <1>3
<1>4. ASSUME NEW q \in Requests, ReadyResets(q) \/ FinishExhausted(q) \/ Exits(q) \/ Timeout(q) \/ Kill(q) \/ KillFails(q)
      PROVE  UNCHANGED <<kind, pc, of>> /\ timers' \subseteq timers
  BY <1>4 DEF ReadyResets, FinishExhausted, Exits, Timeout, Kill, KillFails
<1>5. ASSUME NEW s \in Sessions, Session(s) \/ Cool(s) \/ Sweep(s) \/ Close(s)
      PROVE  UNCHANGED <<kind, pc, of, timers>>
  BY <1>5 DEF Session, Connect, Attach, Cool, Sweep, Close
<1>6. CASE ResumeLists \/ ResumeStarts \/ Stop \/ SweepLists \/ SweepStops \/ (\E x \in stops : StopEnds(x)) \/ UNCHANGED vars
  BY <1>6 DEF ResumeLists, ResumeStarts, Stop, SweepLists, SweepStops, StopEnds, vars
<1>7. CASE RunnerRestart
  <2>1. \A q \in Requests : pc'[q] = pc[q] \/ (pc[q] # "new" /\ pc'[q] = "done")
    BY <1>7, <1>a DEF RunnerRestart, Underway
  <2>2. \A q \in Requests : pc[q] # "new" => kind[q] # "none"
    BY <1>a
  <2> QED
    BY <1>7, <1>a, <2>1, <2>2 DEF RunnerRestart
<1> QED
  BY <1>1, <1>2, <1>3, <1>4, <1>5, <1>6, <1>7 DEF Next, Ask

LEMMA SetsStep ==
    ASSUME TypeOK, InPlace, [Next]_vars
    PROVE  Sets' /\ overlapped' \in BOOLEAN
<1>a. Rest /\ Sets /\ overlapped \in BOOLEAN
  BY Parts
<1>b. \A s \in Sessions : Current(s) \subseteq Requests
  BY <1>a DEF Rest, Current
<1>c. \A q \in Requests : pc[q] # "new" => of[q] \in Sessions
  BY DEF InPlace
<1>e. overlapped' \in BOOLEAN
  <2>1. \/ UNCHANGED overlapped
        \/ \E q \in Requests, s \in Sessions : StartRun(q, s)
        \/ \E q \in Requests : StopReturns(q)
    BY DEF Next, vars, Ask, Handle, Session, OpenTerminal, Restart, Reset, Prepared, Exec,
       Begin, Shell, Ends, Finish, Fails, GiveUp, Leave, ReadyResets, FinishExhausted, Exits, Timeout, Kill,
       KillFails, Connect, Attach, Cool, Sweep, Close, ResumeLists, ResumeStarts, Stop, SweepLists, SweepStops,
       StopEnds, RunnerRestart
  <2>2. ASSUME NEW q \in Requests, NEW s \in Sessions, StartRun(q, s) PROVE overlapped' \in BOOLEAN
    BY <2>2, Zenon DEF StartRun
  <2>3. ASSUME NEW q \in Requests, StopReturns(q) PROVE overlapped' \in BOOLEAN
    BY <2>3, Zenon DEF StopReturns
  <2> QED
    BY <2>1, <2>2, <2>3, <1>a
<1> USE DEF Sets
<1>1. ASSUME NEW q \in Requests, NEW s \in Sessions, StartRun(q, s) \/ OpenTerminal(q, s) \/ Restart(q, s)
      PROVE  Sets'
  BY <1>1, <1>a, <1>b DEF StartRun, OpenTerminal, Restart, Arrive, StopFirst
<1>2. ASSUME NEW q \in Requests, StopReturns(q) \/ Reset(q) \/ Prepared(q) PROVE Sets'
  <2>1. CASE Prepared(q)
    BY <2>1, <1>a, <1>c DEF Prepared
  <2> QED
    BY <1>2, <2>1, <1>a DEF StopReturns, Reset, Emptied
<1>3. ASSUME NEW q \in Requests, Exec(q) \/ Begin(q) \/ Shell(q) \/ Ends(q) \/ Finish(q) \/ Fails(q) \/ GiveUp(q)
      PROVE  Sets'
  BY <1>3, <1>a DEF Exec, Begin, Shell, Ends, Finish, Fails, GiveUp
<1>4. ASSUME NEW q \in Requests, Leave(q) PROVE Sets'
  BY <1>4, <1>a DEF Leave
<1>5. ASSUME NEW q \in Requests, ReadyResets(q) \/ FinishExhausted(q) \/ KillFails(q) PROVE Sets'
  <2>1. /\ alive' = {} /\ stops' \subseteq stops /\ container' = "up" /\ resets' \in 0..MaxResets
        /\ UNCHANGED <<gone, asked, timers, databases, resuming, sweep, leaked, missed, restarts>>
    BY <1>5, <1>a DEF ReadyResets, FinishExhausted, KillFails, Emptied
  <2> QED
    BY <2>1, <1>a
<1>6. ASSUME NEW q \in Requests, Exits(q) \/ Kill(q) PROVE Sets'
  BY <1>6, <1>a DEF Exits, Kill
<1>7. ASSUME NEW q \in Requests, Timeout(q) PROVE Sets'
  <2>1. of[q] \in Sessions
    BY <1>7, <1>c DEF Timeout, InPlace
  <2> QED
    BY <1>7, <2>1, <1>a, <1>b DEF Timeout
<1>8. ASSUME NEW s \in Sessions, Connect(s) \/ Attach(s) \/ Cool(s) \/ Sweep(s) PROVE Sets'
  BY <1>8, <1>a DEF Connect, Attach, Cool, Sweep
<1>9. ASSUME NEW s \in Sessions, Close(s) PROVE Sets'
  <2>1. /\ container' \in {"up", "down"} /\ databases' \in {"up", Databases} /\ alive' \subseteq Requests
        /\ stops' \subseteq {"container", "databases"} /\ missed' \subseteq {"refused", "taken"}
    BY <1>9, <1>a DEF Close, Pauses, ContainerStops, Refuses, Emptied
  <2>2. UNCHANGED <<gone, asked, timers, resuming, sweep, leaked, resets, restarts>>
    BY <1>9 DEF Close
  <2> QED
    BY <2>1, <2>2, <1>a
<1>10. CASE ResumeLists \/ ResumeStarts
  BY <1>10, <1>a DEF ResumeLists, ResumeStarts, Refuses
<1>11. CASE Stop
  <2>1. registry \in Sessions
    BY <1>11, <1>a DEF Stop, Rest
  <2> QED
    BY <1>11, <2>1, <1>a, <1>b DEF Stop
<1>12. CASE SweepLists \/ SweepStops
  BY <1>12, <1>a DEF SweepLists, SweepStops
<1>15. ASSUME NEW x \in stops, StopEnds(x) PROVE Sets'
  BY <1>15, <1>a DEF StopEnds, Emptied
<1>13. CASE RunnerRestart
  <2>1. restarts' \in 0..MaxRestarts
    BY <1>13, <1>a DEF RunnerRestart
  <2>2. /\ timers' = {} /\ asked' = {} /\ UNCHANGED <<gone, alive, container, databases, leaked, missed, resets>>
        /\ resuming' = {} /\ sweep' = "no" /\ stops' \subseteq stops \cup {"container", "databases"}
    BY <1>13 DEF RunnerRestart, Awaited, Up
  <2> QED
    BY <2>1, <2>2, <1>a, <1>e
<1>14. CASE UNCHANGED vars
  BY <1>14, <1>a DEF vars
<1> QED
  BY <1>e, <1>1, <1>2, <1>3, <1>4, <1>5, <1>6, <1>7, <1>8, <1>9, <1>10, <1>11, <1>12, <1>13, <1>14, <1>15
     DEF Next, Ask, Handle, Session

-----------------------------------------------------------------------------
(* Terminals.                                                              *)

\* What the steps do to the terminals under way: none comes, or one does and
\* is counted, or one goes and is not any more.
LEMMA CountKeeps ==
    ASSUME CountInv, terminals \in [Sessions -> Nat], UNCHANGED terminals,
           \A q \in Requests : kind'[q] = "terminal" /\ Underway(q)' =>
               kind[q] = "terminal" /\ of'[q] = of[q] /\ Underway(q)
    PROVE  CountInv' /\ terminals' \in [Sessions -> Nat]
<1>1. ASSUME NEW s \in Sessions PROVE terminals'[s] >= Cardinality(Terminals(s)')
  <2>1. Terminals(s)' \in SUBSET Terminals(s) /\ IsFiniteSet(Terminals(s))
    BY FS_Subset DEF Terminals
  <2>2. /\ Cardinality(Terminals(s)') <= Cardinality(Terminals(s))
        /\ Cardinality(Terminals(s)) \in Nat /\ Cardinality(Terminals(s)') \in Nat
    BY <2>1, FS_Subset, FS_CardinalityType
  <2> QED
    BY <2>2 DEF CountInv
<1> QED
  BY <1>1 DEF CountInv

LEMMA CountGoes ==
    ASSUME CountInv, terminals \in [Sessions -> Nat], NEW q \in Requests, of[q] \in Sessions,
           kind[q] = "terminal", Underway(q), UNCHANGED <<kind, of>>, ~Underway(q)',
           \A r \in Requests \ {q} : pc'[r] = pc[r],
           terminals' = [terminals EXCEPT ![of[q]] = @ - 1]
    PROVE  CountInv' /\ terminals' \in [Sessions -> Nat]
<1>1. ASSUME NEW s \in Sessions PROVE terminals'[s] \in Nat /\ terminals'[s] >= Cardinality(Terminals(s)')
  <2>1. /\ Terminals(s)' = Terminals(s) \ {q} /\ IsFiniteSet(Terminals(s))
        /\ q \in Terminals(s) <=> s = of[q]
    BY FS_Subset DEF Terminals, Underway
  <2>2. /\ Cardinality(Terminals(s)) \in Nat /\ Cardinality(Terminals(s)') \in Nat
        /\ Cardinality(Terminals(s)') = IF s = of[q] THEN Cardinality(Terminals(s)) - 1 ELSE Cardinality(Terminals(s))
    BY <2>1, FS_RemoveElement, FS_CardinalityType
  <2>3. terminals'[s] = IF s = of[q] THEN terminals[s] - 1 ELSE terminals[s]
    OBVIOUS
  <2> QED
    BY <2>2, <2>3 DEF CountInv
<1> QED
  BY <1>1 DEF CountInv

LEMMA CountStep ==
    ASSUME TypeOK, InPlace, CountInv, [Next]_vars
    PROVE  CountInv' /\ terminals' \in [Sessions -> Nat]
<1>a. /\ Rest /\ terminals \in [Sessions -> Nat] /\ pc \in [Requests -> Everywhere]
      /\ kind \in [Requests -> {"none", "run", "terminal", "restart"}] /\ of \in [Requests -> 0..MaxSessions]
  BY Parts DEF Rest
<1>b. \A q \in Requests : pc[q] \in Places(kind[q]) /\ (pc[q] # "new" => of[q] \in Sessions)
  BY DEF InPlace
<1>1. ASSUME NEW q \in Requests, NEW s \in Sessions, OpenTerminal(q, s)
      PROVE  CountInv' /\ terminals' \in [Sessions -> Nat]
  <2>1. /\ pc[q] = "new" /\ kind'[q] = "terminal" /\ of'[q] = s /\ pc'[q] = "preparing"
        /\ \A r \in Requests \ {q} : kind'[r] = kind[r] /\ pc'[r] = pc[r] /\ of'[r] = of[r]
        /\ terminals' = [terminals EXCEPT ![s] = @ + 1]
    BY <1>1, <1>a DEF OpenTerminal, Arrive
  <2>2. ASSUME NEW x \in Sessions PROVE terminals'[x] \in Nat /\ terminals'[x] >= Cardinality(Terminals(x)')
    <3>1. /\ Terminals(x)' = IF x = s THEN Terminals(x) \cup {q} ELSE Terminals(x)
          /\ q \notin Terminals(x) /\ IsFiniteSet(Terminals(x))
      BY <2>1, FS_Subset DEF Terminals, Underway
    <3>2. /\ Cardinality(Terminals(x)) \in Nat
          /\ Cardinality(Terminals(x)') = IF x = s THEN Cardinality(Terminals(x)) + 1 ELSE Cardinality(Terminals(x))
      BY <3>1, FS_AddElement, FS_CardinalityType
    <3>3. terminals'[x] = IF x = s THEN terminals[x] + 1 ELSE terminals[x]
      BY <2>1, <1>a
    <3> QED
      BY <3>2, <3>3, <1>a DEF CountInv
  <2>3. terminals' \in [Sessions -> Nat]
    BY <2>1, <1>a
  <2> QED
    BY <2>2, <2>3 DEF CountInv
<1>2. ASSUME NEW q \in Requests, NEW s \in Sessions, StartRun(q, s) \/ Restart(q, s)
      PROVE  CountInv' /\ terminals' \in [Sessions -> Nat]
  <2>1. /\ UNCHANGED terminals /\ kind'[q] # "terminal"
        /\ \A r \in Requests \ {q} : kind'[r] = kind[r] /\ pc'[r] = pc[r] /\ of'[r] = of[r]
    BY <1>2, <1>a DEF StartRun, Restart, Arrive, StopFirst
  <2> QED
    BY <2>1, <1>a, CountKeeps DEF Underway
\* One request goes on, or ends with the terminals as they were.
<1>3. ASSUME NEW q \in Requests, UNCHANGED <<kind, of, terminals>>, pc[q] \notin {"new", "done"},
             \A r \in Requests \ {q} : pc'[r] = pc[r]
      PROVE  CountInv' /\ terminals' \in [Sessions -> Nat]
  BY <1>3, <1>a, CountKeeps DEF Underway
<1>4. ASSUME NEW q \in Requests, kind[q] = "terminal", Underway(q), pc' = [pc EXCEPT ![q] = "done"], UNCHANGED <<kind, of>>,
             terminals' = [terminals EXCEPT ![of[q]] = @ - 1]
      PROVE  CountInv' /\ terminals' \in [Sessions -> Nat]
  <2>1. ~Underway(q)' /\ \A r \in Requests \ {q} : pc'[r] = pc[r]
    BY <1>4, <1>a DEF Underway
  <2>2. of[q] \in Sessions
    BY <1>4, <1>b DEF Underway
  <2> QED
    BY <1>4, <1>a, <2>1, <2>2, CountGoes
<1>5. ASSUME NEW q \in Requests,
             StopReturns(q) \/ Reset(q) \/ Prepared(q) \/ Exec(q) \/ Begin(q) \/ Finish(q) \/ GiveUp(q)
      PROVE  CountInv' /\ terminals' \in [Sessions -> Nat]
  <2>1. UNCHANGED <<kind, of, terminals>> /\ pc[q] \notin {"new", "done"} /\ \A r \in Requests \ {q} : pc'[r] = pc[r]
    BY <1>5, <1>a DEF StopReturns, Reset, Prepared, Exec, Begin, Finish, GiveUp
  <2> QED
    BY <2>1, <1>3
<1>6. ASSUME NEW q \in Requests, Fails(q) PROVE CountInv' /\ terminals' \in [Sessions -> Nat]
  <2>1. UNCHANGED <<kind, of>> /\ pc' = [pc EXCEPT ![q] = "done"] /\ Underway(q)
    BY <1>6 DEF Fails, Underway
  <2>2. CASE kind[q] = "terminal"
    <3>1. terminals' = [terminals EXCEPT ![of[q]] = @ - 1]
      BY <1>6, <2>2 DEF Fails
    <3> QED
      BY <2>1, <2>2, <3>1, <1>4
  <2>3. CASE kind[q] # "terminal"
    <3>1. of[q] \in Sessions
      BY <2>1, <1>b DEF Underway
    <3>2. UNCHANGED terminals
      BY <1>6, <2>3, <3>1, <1>a DEF Fails
    <3> QED
      BY <2>1, <3>2, <1>a, <1>3 DEF Underway
  <2> QED
    BY <2>2, <2>3
<1>7. ASSUME NEW q \in Requests, Shell(q) PROVE CountInv' /\ terminals' \in [Sessions -> Nat]
  <2>1. UNCHANGED <<kind, of>> /\ kind[q] = "terminal" /\ pc[q] = "execed" /\ Underway(q)
    BY <1>7 DEF Shell, Underway
  <2>2. CASE q \in gone
    <3>1. pc' = [pc EXCEPT ![q] = "done"] /\ terminals' = [terminals EXCEPT ![of[q]] = @ - 1]
      BY <1>7, <2>2 DEF Shell
    <3> QED
      BY <2>1, <3>1, <1>4
  <2>3. CASE q \notin gone
    <3>1. of[q] \in Sessions
      BY <2>1, <1>b
    <3>2. UNCHANGED terminals /\ pc' = [pc EXCEPT ![q] = "open"]
      BY <1>7, <2>3, <3>1, <1>a DEF Shell
    <3> QED
      BY <2>1, <3>2, <1>a, <1>3
  <2> QED
    BY <2>2, <2>3
<1>8. ASSUME NEW q \in Requests, Ends(q) PROVE CountInv' /\ terminals' \in [Sessions -> Nat]
  <2>1. CASE pc[q] = "running"
    BY <1>8, <2>1, <1>a, <1>3 DEF Ends
  <2>2. CASE pc[q] = "open"
    <3>1. kind[q] = "terminal"
      BY <2>2, <1>a, <1>b DEF Places
    <3> QED
      BY <1>8, <2>2, <3>1, <1>4 DEF Ends, Underway
  <2> QED
    BY <1>8, <2>1, <2>2 DEF Ends
<1>9. ASSUME NEW q \in Requests, Leave(q) PROVE CountInv' /\ terminals' \in [Sessions -> Nat]
  <2>1. CASE kind[q] = "terminal" /\ pc[q] = "open"
    BY <1>9, <2>1, <1>4 DEF Leave
  <2>2. CASE ~(kind[q] = "terminal" /\ pc[q] = "open")
    BY <1>9, <2>2, <1>a, <1>3 DEF Leave, Underway
  <2> QED
    BY <2>1, <2>2
<1>10. CASE UNCHANGED <<kind, of, pc, terminals>>
  BY <1>10, <1>a, CountKeeps DEF Underway
<1>11. CASE RunnerRestart
  <2>1. \A q \in Requests : ~Underway(q)'
    BY <1>11, <1>a DEF RunnerRestart, Underway
  <2>2. \A s \in Sessions : Terminals(s)' = {}
    BY <2>1 DEF Terminals
  <2>3. terminals' = [s \in Sessions |-> 0]
    BY <1>11 DEF RunnerRestart
  <2>4. \A s \in Sessions : terminals'[s] = 0 /\ Cardinality(Terminals(s)') = 0
    BY <2>2, <2>3, FS_EmptySet
  <2>5. terminals' \in [Sessions -> Nat]
    BY <2>3
  <2> QED
    BY <2>4, <2>5 DEF CountInv
<1>12. ASSUME NEW q \in Requests,
              ReadyResets(q) \/ FinishExhausted(q) \/ Exits(q) \/ Timeout(q) \/ Kill(q) \/ KillFails(q)
       PROVE  UNCHANGED <<kind, of, pc, terminals>>
  BY <1>12 DEF ReadyResets, FinishExhausted, Exits, Timeout, Kill, KillFails
<1>13. ASSUME NEW s \in Sessions, Session(s) \/ Cool(s) \/ Sweep(s) \/ Close(s)
       PROVE  UNCHANGED <<kind, of, pc, terminals>>
  BY <1>13 DEF Session, Connect, Attach, Cool, Sweep, Close
<1>14. CASE ResumeLists \/ ResumeStarts \/ Stop \/ SweepLists \/ SweepStops \/ (\E x \in stops : StopEnds(x)) \/ UNCHANGED vars
  BY <1>14, <1>10 DEF ResumeLists, ResumeStarts, Stop, SweepLists, SweepStops, StopEnds, vars
<1> QED
  BY <1>1, <1>2, <1>5, <1>6, <1>7, <1>8, <1>9, <1>10, <1>11, <1>12, <1>13, <1>14 DEF Next, Ask, Handle

LEMMA TypeStep == TypeOK /\ InPlace /\ CountInv /\ [Next]_vars => TypeOK'
<1> SUFFICES ASSUME TypeOK, InPlace, CountInv, [Next]_vars PROVE TypeOK'
  OBVIOUS
<1>1. Rest' /\ Sets' /\ terminals' \in [Sessions -> Nat] /\ overlapped' \in BOOLEAN
  BY Parts, RestStep, SetsStep, CountStep
<1> QED
  BY <1>1 DEF TypeOK, Rest, Sets, Everywhere

-----------------------------------------------------------------------------
(* The registry, and who holds its session.                                *)

LEMMA NumberedStep == Rest /\ Numbered /\ [Next]_vars => Numbered'
<1> SUFFICES ASSUME Rest, Numbered, [Next]_vars PROVE Numbered'
  OBVIOUS
<1> USE DEF Numbered
<1>a. /\ registry \in 0..MaxSessions /\ opened \in 0..MaxSessions
      /\ closing \in [Sessions -> {"no", "pausing", "stopping", "closed"}]
  BY DEF Rest
<1>1. ASSUME NEW q \in Requests, NEW s \in Sessions, StartRun(q, s) \/ OpenTerminal(q, s) \/ Restart(q, s)
      PROVE  Numbered'
  <2>1. /\ UNCHANGED closing /\ s = IF registry # 0 THEN registry ELSE opened + 1
        /\ registry' = s /\ opened' = IF registry # 0 THEN opened ELSE opened + 1
    BY <1>1 DEF StartRun, OpenTerminal, Restart, Arrive
  <2> QED
    BY <2>1, <1>a
<1>2. CASE UNCHANGED <<registry, opened, closing>>
  BY <1>2
<1>3. ASSUME NEW s \in Sessions, Sweep(s) PROVE Numbered'
  BY <1>3, <1>a DEF Sweep
<1>4. ASSUME NEW s \in Sessions, Close(s) PROVE Numbered'
  <2>1. UNCHANGED <<registry, opened>> /\ closing[s] # "no" /\ \A x \in Sessions \ {s} : closing'[x] = closing[x]
    BY <1>4, <1>a DEF Close
  <2> QED
    BY <2>1
<1>5. CASE RunnerRestart
  BY <1>5, <1>a DEF RunnerRestart
<1>6. ASSUME NEW q \in Requests, Handle(q) \/ Fails(q) \/ GiveUp(q) \/ Leave(q)
      PROVE  UNCHANGED <<registry, opened, closing>>
  BY <1>6 DEF Handle, StopReturns, Reset, Prepared, Exec, Begin, Shell, Ends, Finish, Fails, GiveUp, Leave
<1>7. ASSUME NEW q \in Requests,
             ReadyResets(q) \/ FinishExhausted(q) \/ Exits(q) \/ Timeout(q) \/ Kill(q) \/ KillFails(q)
      PROVE  UNCHANGED <<registry, opened, closing>>
  BY <1>7 DEF ReadyResets, FinishExhausted, Exits, Timeout, Kill, KillFails
<1>8. ASSUME NEW s \in Sessions, Session(s) \/ Cool(s) PROVE UNCHANGED <<registry, opened, closing>>
  BY <1>8 DEF Session, Connect, Attach, Cool
<1>9. CASE ResumeLists \/ ResumeStarts \/ Stop \/ SweepLists \/ SweepStops \/ (\E x \in stops : StopEnds(x)) \/ UNCHANGED vars
  BY <1>9, <1>2 DEF ResumeLists, ResumeStarts, Stop, SweepLists, SweepStops, StopEnds, vars
<1> QED
  BY <1>1, <1>2, <1>3, <1>4, <1>5, <1>6, <1>7, <1>8, <1>9 DEF Next, Ask

\* Most steps leave alone all that these invariants speak of.
holding == <<registry, active, fresh, kind, pc, of, overlapped>>

LEMMA HoldingMoves ==
    ASSUME [Next]_vars
    PROVE  \/ UNCHANGED holding
           \/ \E q \in Requests, s \in Sessions : StartRun(q, s) \/ OpenTerminal(q, s) \/ Restart(q, s)
           \/ \E q \in Requests : Handle(q) \/ Fails(q) \/ GiveUp(q) \/ Leave(q)
           \/ \E s \in Sessions : Cool(s) \/ Sweep(s)
           \/ RunnerRestart
  BY DEF Next, Ask, Session, vars, holding, ReadyResets, FinishExhausted, Exits, Timeout, Kill, KillFails,
         Connect, Attach, Close, ResumeLists, ResumeStarts, Stop, SweepLists, SweepStops, StopEnds

\* A request that arrives leaves the others what they hold, and the session is
\* the one in the registry.
LEMMA Arrives ==
    ASSUME Rest, NEW q \in Requests, NEW s \in Sessions,
           StartRun(q, s) \/ OpenTerminal(q, s) \/ Restart(q, s)
    PROVE  /\ pc[q] = "new" /\ Held(q)' /\ registry' = s /\ (registry # 0 => s = registry)
           /\ UNCHANGED active
           /\ \A x \in Sessions : fresh[x] => fresh'[x]
           /\ \A r \in Requests \ {q} : /\ kind'[r] = kind[r] /\ pc'[r] = pc[r] /\ of'[r] = of[r]
                                        /\ Held(r) => registry = s /\ Held(r)'
<1>a. /\ registry \in 0..MaxSessions /\ fresh \in [Sessions -> BOOLEAN]
      /\ kind \in [Requests -> {"none", "run", "terminal", "restart"}] /\ pc \in [Requests -> Everywhere]
      /\ of \in [Requests -> 0..MaxSessions]
  BY DEF Rest
<1>1. /\ pc[q] = "new" /\ registry' = s /\ (registry # 0 => s = registry) /\ of' = [of EXCEPT ![q] = s]
      /\ UNCHANGED active
  BY DEF StartRun, OpenTerminal, Restart, Arrive
<1>2. \A r \in Requests \ {q} : kind'[r] = kind[r] /\ pc'[r] = pc[r]
  BY <1>a DEF StartRun, OpenTerminal, Restart, Arrive, StopFirst
<1>3. \A x \in Sessions : fresh[x] => fresh'[x]
  BY <1>a DEF StartRun, OpenTerminal, Restart
<1> QED
  BY <1>1, <1>2, <1>3, <1>a DEF Held

\* A handler that goes on leaves the registry and the other requests alone.
LEMMA Handles ==
    ASSUME Rest, InPlace, NEW q \in Requests, Handle(q) \/ Fails(q) \/ GiveUp(q) \/ Leave(q)
    PROVE  /\ pc[q] # "new" /\ of[q] \in Sessions /\ UNCHANGED <<registry, kind, of>>
           /\ \A x \in Sessions : fresh[x] => fresh'[x]
           /\ \A r \in Requests \ {q} : pc'[r] = pc[r]
<1>a. fresh \in [Sessions -> BOOLEAN] /\ pc \in [Requests -> Everywhere]
  BY DEF Rest
<1>1. pc[q] # "new" /\ UNCHANGED <<registry, kind, of>>
  BY DEF Handle, StopReturns, Reset, Prepared, Exec, Begin, Shell, Ends, Finish, Fails, GiveUp, Leave, Underway
<1>2. pc' = pc \/ \E x : pc' = [pc EXCEPT ![q] = x]
  BY DEF Handle, StopReturns, Reset, Prepared, Exec, Begin, Shell, Ends, Finish, Fails, GiveUp, Leave
<1>3. \A x \in Sessions : fresh[x] => fresh'[x]
  BY <1>a DEF Handle, StopReturns, Reset, Prepared, Exec, Begin, Shell, Ends, Finish, Fails, GiveUp, Leave
<1> QED
  BY <1>1, <1>2, <1>3, <1>a DEF InPlace

LEMMA HoldersStep == TypeOK /\ RunInv /\ [Next]_vars => HoldersInv'
<1> SUFFICES ASSUME TypeOK, Rest, InPlace, Numbered, HoldersInv, CountInv, [Next]_vars PROVE HoldersInv'
  BY Parts DEF RunInv
<1> USE DEF HoldersInv
<1>a. /\ registry \in 0..MaxSessions /\ fresh \in [Sessions -> BOOLEAN]
      /\ kind \in [Requests -> {"none", "run", "terminal", "restart"}] /\ pc \in [Requests -> Everywhere]
      /\ of \in [Requests -> 0..MaxSessions] /\ terminals \in [Sessions -> Nat]
  BY Parts DEF Rest
<1>1. CASE UNCHANGED holding
  BY <1>1 DEF holding, Held, Halfway
<1>2. ASSUME NEW q \in Requests, NEW s \in Sessions, StartRun(q, s) \/ OpenTerminal(q, s) \/ Restart(q, s)
      PROVE  HoldersInv'
  <2>1. Held(q)' /\ registry' = s /\ (kind'[q] \in {"run", "terminal"} /\ Halfway(q)' => fresh'[s])
    <3>1. Held(q)' /\ registry' = s
      BY <1>2, Arrives
    <3>2. CASE StartRun(q, s)
      <4>1. Halfway(q)' => active[s] = NoRun
        BY <3>2, <1>a DEF StartRun, StopFirst, Halfway
      <4>2. active[s] = NoRun => fresh'[s]
        BY <3>2, <1>a DEF StartRun
      <4> QED
        BY <3>1, <4>1, <4>2
    <3>3. CASE OpenTerminal(q, s)
      <4>1. fresh'[s]
        BY <3>3, <1>a DEF OpenTerminal
      <4> QED
        BY <3>1, <4>1
    <3>4. CASE Restart(q, s)
      <4>1. kind'[q] = "restart"
        BY <3>4, <1>a DEF Restart, Arrive
      <4> QED
        BY <3>1, <4>1
    <3> QED
      BY <1>2, <3>1, <3>2, <3>3, <3>4
  <2>2. ASSUME NEW r \in Requests, r # q, kind'[r] \in {"run", "terminal"}
        PROVE  /\ Halfway(r)' \/ pc'[r] \in {"stopping", "open"} => Held(r)'
               /\ Halfway(r)' => fresh'[registry']
    <3>1. /\ kind'[r] = kind[r] /\ pc'[r] = pc[r] /\ (Held(r) => registry = s /\ Held(r)')
          /\ fresh[s] => fresh'[s]
      BY <1>2, <2>2, Arrives
    <3> QED
      BY <2>1, <2>2, <3>1 DEF Halfway
  <2> QED
    BY <2>1, <2>2
<1>3. ASSUME NEW q \in Requests, Handle(q) \/ Fails(q) \/ GiveUp(q) \/ Leave(q) PROVE HoldersInv'
  <2>1. /\ pc[q] # "new" /\ of[q] \in Sessions /\ UNCHANGED <<registry, kind, of>>
        /\ \A x \in Sessions : fresh[x] => fresh'[x]
        /\ \A r \in Requests \ {q} : pc'[r] = pc[r]
    BY <1>3, Handles
  <2>2. ASSUME kind[q] \in {"run", "terminal"}, Halfway(q)' \/ pc'[q] \in {"stopping", "open"}
        PROVE  Held(q) /\ (Halfway(q)' => fresh'[registry])
    <3>0. pc[q] \in Places(kind[q])
      BY DEF InPlace
    <3>1. CASE StopReturns(q)
      <4>1. kind[q] = "run" /\ Held(q)
        BY <2>2, <3>0, <3>1 DEF StopReturns, Places
      <4>2. fresh'[of[q]]
        BY <2>1, <3>1, <4>1, <1>a DEF StopReturns
      <4> QED
        BY <4>1, <4>2 DEF Held
    <3>2. CASE Reset(q)
      BY <2>2, <3>0, <3>2 DEF Reset, Places
    <3>3. CASE Prepared(q) \/ Exec(q)
      BY <2>1, <2>2, <3>3, <1>a DEF Prepared, Exec, Halfway, Held
    <3>4. CASE Shell(q)
      BY <2>1, <2>2, <3>4, <1>a DEF Shell, Halfway, Held
    <3>5. CASE Begin(q) \/ Ends(q) \/ Finish(q) \/ Fails(q) \/ GiveUp(q)
      BY <2>2, <3>5, <1>a DEF Begin, Ends, Finish, Fails, GiveUp, Halfway
    <3>6. CASE Leave(q)
      BY <2>1, <2>2, <3>6, <1>a DEF Leave, Halfway, Held
    <3> QED
      BY <1>3, <3>1, <3>2, <3>3, <3>4, <3>5, <3>6 DEF Handle
  <2>3. ASSUME NEW r \in Requests, r # q, kind'[r] \in {"run", "terminal"}
        PROVE  /\ Halfway(r)' \/ pc'[r] \in {"stopping", "open"} => Held(r)'
               /\ Halfway(r)' => fresh'[registry']
    BY <2>1, <2>3 DEF Halfway, Held
  <2>4. Held(q) => Held(q)'
    BY <2>1 DEF Held
  <2> QED
    BY <2>1, <2>2, <2>3, <2>4
<1>4. ASSUME NEW s \in Sessions, Cool(s) PROVE HoldersInv'
  <2>1. /\ UNCHANGED <<registry, kind, pc, of>> /\ \A x \in Sessions \ {s} : fresh'[x] = fresh[x]
        /\ \A q \in Requests : of[q] = s => ~Halfway(q)
    BY <1>4, <1>a DEF Cool, Halfway
  <2> QED
    BY <2>1 DEF Held, Halfway
<1>5. ASSUME NEW s \in Sessions, Sweep(s) PROVE HoldersInv'
  <2>1. /\ registry = s /\ IsIdle(s) /\ \A q \in Requests : of[q] = s => pc[q] # "stopping"
        /\ UNCHANGED <<fresh, kind, pc, of>>
    BY <1>5 DEF Sweep
  <2>2. ASSUME NEW q \in Requests, kind[q] \in {"run", "terminal"}
        PROVE  ~Halfway(q) /\ pc[q] \notin {"stopping", "open"}
    <3>1. ~Halfway(q)
      BY <2>1, <2>2 DEF IsIdle
    <3>2. pc[q] # "stopping"
      BY <2>1, <2>2 DEF Held
    <3>3. ASSUME pc[q] = "open" PROVE FALSE
      <4>1. kind[q] = "terminal" /\ of[q] = s
        BY <2>1, <2>2, <3>3 DEF Held, InPlace, Places
      <4>2. q \in Terminals(s) /\ IsFiniteSet(Terminals(s))
        BY <3>3, <4>1, FS_Subset DEF Terminals, Underway
      <4>3. Cardinality(Terminals(s)) \in Nat /\ Cardinality(Terminals(s)) # 0
        BY <4>2, FS_CardinalityType, FS_EmptySet
      <4>4. terminals[s] >= Cardinality(Terminals(s)) /\ terminals[s] = 0
        BY <2>1 DEF CountInv, IsIdle
      <4> QED
        BY <4>3, <4>4
    <3> QED
      BY <3>1, <3>2, <3>3
  <2> QED
    BY <2>1, <2>2 DEF Halfway
<1>6. CASE RunnerRestart
  <2>1. \A q \in Requests : pc'[q] \in {"new", "done"}
    BY <1>6, <1>a DEF RunnerRestart, Underway
  <2> QED
    BY <2>1 DEF Halfway
<1> QED
  BY <1>1, <1>2, <1>3, <1>4, <1>5, <1>6, HoldingMoves

LEMMA OverlappedStays == ASSUME [Next]_vars, ~overlapped' PROVE ~overlapped
<1>1. \/ UNCHANGED overlapped
      \/ \E q \in Requests, s \in Sessions : StartRun(q, s)
      \/ \E q \in Requests : StopReturns(q)
  BY HoldingMoves DEF holding, Handle, OpenTerminal, Restart, Reset, Prepared, Exec, Begin, Shell, Ends, Finish,
     Fails, GiveUp, Leave, Cool, Sweep, RunnerRestart
<1>2. ASSUME NEW q \in Requests, NEW s \in Sessions, StartRun(q, s) PROVE ~overlapped
  BY <1>2, Zenon DEF StartRun
<1>3. ASSUME NEW q \in Requests, StopReturns(q) PROVE ~overlapped
  BY <1>3, Zenon DEF StopReturns
<1> QED
  BY <1>1, <1>2, <1>3

LEMMA AloneStep == TypeOK /\ RunInv /\ [Next]_vars => AloneInv'
<1> SUFFICES ASSUME Rest, InPlace, HoldersInv, ActiveInv, AloneInv, [Next]_vars, ~overlapped'
             PROVE  \A q, r \in Requests : InStart(q)' /\ InStart(r)' => q = r
  BY Parts DEF RunInv, AloneInv
<1>a. /\ registry \in 0..MaxSessions
      /\ kind \in [Requests -> {"none", "run", "terminal", "restart"}] /\ pc \in [Requests -> Everywhere]
      /\ of \in [Requests -> 0..MaxSessions]
  BY DEF Rest
<1>b. ~overlapped
  BY OverlappedStays
<1>c. \A q, r \in Requests : InStart(q) /\ InStart(r) => q = r
  BY <1>b DEF AloneInv
\* Whoever is between the look at active and the end of a run was so before.
<1>d. ASSUME \A q \in Requests : InStart(q)' => InStart(q)
      PROVE  \A q, r \in Requests : InStart(q)' /\ InStart(r)' => q = r
  BY <1>c, <1>d
<1>e. ASSUME NEW q \in Requests, \A r \in Requests \ {q} : ~InStart(r)'
      PROVE  \A p, r \in Requests : InStart(p)' /\ InStart(r)' => p = r
  BY <1>e
<1> USE DEF InStart, Starting
<1>1. CASE UNCHANGED holding
  BY <1>1, <1>c DEF holding
<1>2. ASSUME NEW q \in Requests, NEW s \in Sessions, StartRun(q, s)
      PROVE  \A p, r \in Requests : InStart(p)' /\ InStart(r)' => p = r
  <2>1. /\ registry' = s /\ (registry # 0 => s = registry) /\ UNCHANGED active
        /\ \A r \in Requests \ {q} : kind'[r] = kind[r] /\ pc'[r] = pc[r]
    BY <1>2, Arrives
  <2>2. CASE active[s] # NoRun
    <3>1. pc'[q] = "stopping"
      BY <1>2, <2>2, <1>a DEF StartRun, StopFirst
    <3> QED
      BY <2>1, <3>1, <1>d
  <2>3. CASE active[s] = NoRun
    <3>1. \A r \in Requests : ~Starting(r)
      BY <1>2, <2>3, Zenon DEF StartRun
    <3>2. ASSUME NEW r \in Requests, pc[r] = "running" PROVE FALSE
      <4>1. Held(r) /\ active[registry] = r
        BY <1>b, <3>2 DEF ActiveInv
      <4> QED
        BY <2>1, <2>3, <4>1, RequestsAssumption DEF Held
    <3> QED
      BY <2>1, <3>1, <3>2, <1>e
  <2> QED
    BY <2>2, <2>3
<1>3. ASSUME NEW q \in Requests, NEW s \in Sessions, OpenTerminal(q, s) \/ Restart(q, s)
      PROVE  \A p, r \in Requests : InStart(p)' /\ InStart(r)' => p = r
  <2>1. \A r \in Requests \ {q} : kind'[r] = kind[r] /\ pc'[r] = pc[r]
    BY <1>3, Arrives
  <2>2. kind'[q] # "run" /\ pc'[q] # "running"
    BY <1>3, <1>a DEF OpenTerminal, Restart, Arrive, StopFirst
  <2> QED
    BY <2>1, <2>2, <1>d
<1>4. ASSUME NEW q \in Requests, Handle(q) \/ Fails(q) \/ GiveUp(q) \/ Leave(q)
      PROVE  \A p, r \in Requests : InStart(p)' /\ InStart(r)' => p = r
  <2>1. UNCHANGED kind /\ \A r \in Requests \ {q} : pc'[r] = pc[r]
    BY <1>4, Handles
  <2>2. CASE StopReturns(q) /\ kind[q] = "run"
    <3>1. pc[target[q]] \in {"finishing", "done"}
      BY <2>2 DEF StopReturns
    <3>2. \A r \in Requests \ {target[q]} : ~Starting(r) /\ pc[r] # "running"
      BY <2>2, Zenon DEF StopReturns
    <3> QED
      BY <2>1, <3>1, <3>2, <1>e
  <2>3. CASE StopReturns(q) /\ kind[q] # "run"
    <3>1. pc'[q] = "resetting"
      BY <2>3, <1>a DEF StopReturns
    <3> QED
      BY <2>1, <3>1, <1>d
  <2>4. ASSUME ~StopReturns(q) PROVE InStart(q)' => InStart(q)
    <3>1. CASE Reset(q)
      <4>1. kind[q] # "run" /\ pc'[q] = "preparing"
        BY <3>1, <1>a DEF Reset, InPlace, Places
      <4> QED
        BY <2>1, <4>1
    <3>2. CASE Prepared(q) \/ Exec(q) \/ Begin(q)
      BY <3>2, <2>1, <1>a DEF Prepared, Exec, Begin
    <3>3. CASE Shell(q) \/ Ends(q) \/ Finish(q) \/ Fails(q) \/ GiveUp(q)
      BY <3>3, <2>1, <1>a DEF Shell, Ends, Finish, Fails, GiveUp
    <3>4. CASE Leave(q)
      BY <3>4, <2>1, <1>a DEF Leave
    <3> QED
      BY <1>4, <2>4, <3>1, <3>2, <3>3, <3>4 DEF Handle
  <2> QED
    BY <2>1, <2>2, <2>3, <2>4, <1>d
<1>5. ASSUME NEW s \in Sessions, Cool(s) \/ Sweep(s)
      PROVE  \A p, r \in Requests : InStart(p)' /\ InStart(r)' => p = r
  BY <1>5, <1>d DEF Cool, Sweep
<1>6. CASE RunnerRestart
  <2>1. \A q \in Requests : pc'[q] \in {"new", "done"}
    BY <1>6, <1>a DEF RunnerRestart, Underway
  <2> QED
    BY <2>1
<1> QED
  BY <1>1, <1>2, <1>3, <1>4, <1>5, <1>6, HoldingMoves

LEMMA ActiveStep == TypeOK /\ RunInv /\ [Next]_vars => ActiveInv'
<1> SUFFICES ASSUME TypeOK, Rest, InPlace, HoldersInv, ActiveInv, AloneInv, [Next]_vars, ~overlapped, ~overlapped'
             PROVE  ActiveInv'
  BY Parts, OverlappedStays DEF RunInv, ActiveInv
<1> USE DEF ActiveInv
<1>a. /\ registry \in 0..MaxSessions /\ fresh \in [Sessions -> BOOLEAN]
      /\ active \in [Sessions -> Requests \cup {NoRun}]
      /\ kind \in [Requests -> {"none", "run", "terminal", "restart"}] /\ pc \in [Requests -> Everywhere]
      /\ of \in [Requests -> 0..MaxSessions]
  BY DEF Rest
<1>1. CASE UNCHANGED holding
  BY <1>1 DEF holding, Held
<1>2. ASSUME NEW q \in Requests, NEW s \in Sessions, StartRun(q, s) \/ OpenTerminal(q, s) \/ Restart(q, s)
      PROVE  ActiveInv'
  <2>1. /\ registry' = s /\ UNCHANGED active
        /\ \A x \in Sessions : fresh[x] => fresh'[x]
        /\ \A r \in Requests \ {q} : pc'[r] = pc[r] /\ (Held(r) => registry = s /\ Held(r)')
    BY <1>2, Arrives
  <2>2. pc'[q] \notin {"running", "finishing"}
    BY <1>2, <1>a DEF StartRun, OpenTerminal, Restart, Arrive, StopFirst
  <2> QED
    BY <2>1, <2>2
<1>3. ASSUME NEW q \in Requests, Handle(q) \/ Fails(q) \/ GiveUp(q) \/ Leave(q) PROVE ActiveInv'
  <2>1. /\ pc[q] # "new" /\ of[q] \in Sessions /\ UNCHANGED <<registry, kind, of>>
        /\ \A x \in Sessions : fresh[x] => fresh'[x]
        /\ \A r \in Requests \ {q} : pc'[r] = pc[r]
        /\ \A r \in Requests : Held(r) => Held(r)'
    BY <1>3, Handles DEF Held
  <2>2. CASE Begin(q)
    <3>1. /\ Held(q) /\ fresh[registry] /\ InStart(q)
          /\ active' = [active EXCEPT ![of[q]] = q] /\ pc'[q] = "running"
      BY <2>2, <1>a DEF Begin, HoldersInv, Halfway, InStart, Starting
    <3>2. active'[registry] = q
      BY <3>1, <1>a DEF Held
    <3>3. \A r \in Requests \ {q} : pc[r] # "running"
      BY <3>1 DEF AloneInv, InStart
    <3> QED
      BY <2>1, <3>1, <3>2, <3>3 DEF Held
  <2>3. CASE Finish(q)
    <3>1. /\ active' = [active EXCEPT ![of[q]] = IF @ = q THEN NoRun ELSE @] /\ pc'[q] = "done"
          /\ pc[q] = "finishing" /\ Held(q)
      BY <2>3, <1>a DEF Finish
    <3>2. active'[registry] = active[registry] \/ active[registry] = q
      BY <3>1, <1>a DEF Held
    <3> QED
      BY <2>1, <3>1, <3>2 DEF Held
  <2>4. ASSUME UNCHANGED active, pc'[q] = "running" => pc[q] = "running",
               pc'[q] = "finishing" => pc[q] \in {"running", "finishing"}
        PROVE  ActiveInv'
    BY <2>1, <2>4 DEF Held
  <2>5. CASE StopReturns(q) \/ Reset(q) \/ Prepared(q) \/ Exec(q) \/ Fails(q)
    BY <2>4, <2>5, <1>a DEF StopReturns, Reset, Prepared, Exec, Fails
  <2>6. CASE Shell(q) \/ Ends(q) \/ GiveUp(q)
    BY <2>4, <2>6, <1>a DEF Shell, Ends, GiveUp
  <2>7. CASE Leave(q)
    BY <2>4, <2>7, <1>a DEF Leave
  <2> QED
    BY <1>3, <2>2, <2>3, <2>5, <2>6, <2>7 DEF Handle
<1>4. ASSUME NEW s \in Sessions, Cool(s) PROVE ActiveInv'
  <2>1. /\ UNCHANGED <<registry, active, kind, pc, of>> /\ \A x \in Sessions \ {s} : fresh'[x] = fresh[x]
        /\ \A q \in Requests : of[q] = s => pc[q] # "finishing"
    BY <1>4, <1>a DEF Cool
  <2> QED
    BY <2>1 DEF Held
<1>5. ASSUME NEW s \in Sessions, Sweep(s) PROVE ActiveInv'
  <2>1. registry = s /\ active[s] = NoRun /\ ~fresh[s] /\ UNCHANGED pc
    BY <1>5 DEF Sweep, IsIdle
  <2> QED
    BY <2>1
<1>6. CASE RunnerRestart
  <2>1. \A q \in Requests : pc'[q] \in {"new", "done"}
    BY <1>6, <1>a DEF RunnerRestart, Underway
  <2> QED
    BY <2>1
<1> QED
  BY <1>1, <1>2, <1>3, <1>4, <1>5, <1>6, HoldingMoves

-----------------------------------------------------------------------------
(* The databases.                                                          *)

LEMMA AwakeStep == TypeOK /\ Numbered /\ AwakeInv /\ [Next]_vars => AwakeInv'
<1> SUFFICES ASSUME Rest, Sets, Numbered, AwakeInv, [Next]_vars PROVE AwakeInv'
  BY Parts
<1> USE DEF AwakeInv
<1>a. /\ link \in [Sessions -> {"none", "connected", "attached"}]
      /\ closing \in [Sessions -> {"no", "pausing", "stopping", "closed"}]
  BY DEF Rest
<1>b. databases \in {"up", Databases}
  BY DEF Sets
<1>1. CASE UNCHANGED <<link, container, databases, resuming, missed, closing>>
  BY <1>1
\* The agents go, and one may come.
<1>2. ASSUME NEW s \in 0..MaxSessions, Emptied(s), container' = "up", UNCHANGED <<databases, resuming, missed, closing>>
      PROVE  AwakeInv'
  <2>1. \A x \in Sessions : link'[x] \in {"none", "connected"}
    BY <1>2 DEF Emptied
  <2> QED
    BY <1>2, <2>1
<1>3. ASSUME Emptied(0) PROVE AwakeInv'
  <2>1. \A x \in Sessions : link'[x] = "none"
    BY <1>3 DEF Emptied
  <2> QED
    BY <2>1
<1>4. ASSUME NEW q \in Requests, Reset(q) \/ ReadyResets(q) \/ FinishExhausted(q) \/ KillFails(q) PROVE AwakeInv'
  <2>1. of[q] \in 0..MaxSessions
    BY DEF Rest
  <2>2. Emptied(of[q]) /\ container' = "up" /\ UNCHANGED <<databases, resuming, missed, closing>>
    BY <1>4 DEF Reset, ReadyResets, FinishExhausted, KillFails
  <2> QED
    BY <2>1, <2>2, <1>2
<1>5. ASSUME NEW s \in Sessions, Connect(s) PROVE AwakeInv'
  <2>1. /\ container' = "up" /\ link' = [link EXCEPT ![s] = "connected"]
        /\ UNCHANGED <<databases, resuming, missed, closing>>
    BY <1>5 DEF Connect
  <2>2. \A x \in Sessions : link'[x] = "attached" => link[x] = "attached"
    BY <2>1, <1>a
  <2> QED
    BY <2>1, <2>2
<1>6. ASSUME NEW s \in Sessions, Attach(s) PROVE AwakeInv'
  <2>1. "list" \in resuming' /\ UNCHANGED container /\ link[s] = "connected" /\ link' = [link EXCEPT ![s] = "attached"]
    BY <1>6 DEF Attach
  <2>2. \A x \in Sessions : link'[x] # "none" => link[x] # "none"
    BY <2>1, <1>a
  <2> QED
    BY <2>1, <2>2
\* A resume ends with the databases up, or it was refused.
<1>7. CASE ResumeLists
  <2>1. UNCHANGED <<link, container, databases, closing>>
    BY <1>7 DEF ResumeLists
  <2>2. databases # "asleep" \/ resuming' # {} \/ missed' # {}
    BY <1>7 DEF ResumeLists, Refuses
  <2> QED
    BY <2>1, <2>2
<1>15. CASE ResumeStarts
  <2>1. UNCHANGED <<link, container, closing>>
    BY <1>15 DEF ResumeStarts
  <2>2. databases' # "asleep" \/ missed' # {}
    BY <1>15, <1>b DEF ResumeStarts, Refuses
  <2> QED
    BY <2>1, <2>2
<1>8. ASSUME NEW s \in Sessions, Sweep(s) PROVE AwakeInv'
  <2>1. UNCHANGED <<link, container, databases, resuming, missed>>
    BY <1>8 DEF Sweep
  <2>2. \A x \in Sessions : closing[x] = "stopping" => closing'[x] = "stopping"
    <3>1. closing[s] = "no" /\ closing' = [closing EXCEPT ![s] = "pausing"]
      BY <1>8, <1>a DEF Sweep, Numbered
    <3> QED
      BY <3>1, <1>a
  <2> QED
    BY <2>1, <2>2
\* What takes the databases takes the container next, or is refused that.
<1>9. ASSUME NEW s \in Sessions, Close(s) PROVE AwakeInv'
  <2>1. CASE Emptied(0)
    BY <2>1, <1>3
  <2>2. CASE closing' = [closing EXCEPT ![s] = "stopping"] /\ Pauses
    <3>1. closing'[s] = "stopping" /\ UNCHANGED <<link, container>>
      BY <2>2, <1>a DEF Pauses
    <3> QED
      BY <2>2, <3>1
  <2>3. CASE link' = [link EXCEPT ![s] = "none"] /\ Refuses /\ UNCHANGED <<container, databases>>
    <3>1. \A x \in Sessions : link'[x] # "none" => link'[x] = link[x]
      BY <2>3, <1>a
    <3>2. databases' # "asleep" \/ missed' # {}
      BY <2>3 DEF Refuses
    <3> QED
      BY <2>3, <3>1, <3>2
  <2> QED
    BY <1>9, <2>1, <2>2, <2>3 DEF Close, ContainerStops
<1>10. ASSUME NEW x \in stops, StopEnds(x) PROVE AwakeInv'
  <2>1. CASE Emptied(0)
    BY <2>1, <1>3
  <2>2. CASE UNCHANGED <<container, link>> /\ missed' = missed \cup {"taken"}
    BY <2>2
  <2>3. CASE UNCHANGED <<container, link, databases, missed, resuming, closing>>
    BY <2>3, <1>1
  <2> QED
    BY <1>10, <2>1, <2>2, <2>3 DEF StopEnds
<1>11. CASE RunnerRestart
  <2>1. \A x \in Sessions : link'[x] = "none"
    BY <1>11 DEF RunnerRestart
  <2> QED
    BY <2>1
<1>12. ASSUME NEW q \in Requests, Ask(q) \/ StopReturns(q) \/ Prepared(q) \/ Exec(q) \/ Begin(q) \/ Shell(q) \/ Ends(q)
              \/ Finish(q) \/ Fails(q) \/ Exits(q) \/ Timeout(q) \/ Leave(q) \/ Kill(q) \/ GiveUp(q)
       PROVE  UNCHANGED <<link, container, databases, resuming, missed, closing>>
  BY <1>12 DEF Ask, StartRun, OpenTerminal, Restart, StopReturns, Prepared, Exec, Begin, Shell, Ends, Finish, Fails,
     Exits, Timeout, Leave, Kill, GiveUp
<1>13. ASSUME NEW s \in Sessions, Cool(s) PROVE UNCHANGED <<link, container, databases, resuming, missed, closing>>
  BY <1>13 DEF Cool
<1>14. CASE Stop \/ SweepLists \/ SweepStops \/ UNCHANGED vars
  BY <1>14, <1>1 DEF Stop, SweepLists, SweepStops, vars
<1> QED
  BY <1>1, <1>4, <1>5, <1>6, <1>7, <1>8, <1>9, <1>10, <1>11, <1>12, <1>13, <1>14, <1>15 DEF Next, Handle, Session

LEMMA InitInv == Init => IInv
<1> SUFFICES ASSUME Init PROVE IInv
  OBVIOUS
<1>1. TypeOK
  <2>1. Rest
    BY DEF Init, Rest, Everywhere
  <2>2. Sets
    BY DEF Init, Sets
  <2>3. terminals \in [Sessions -> Nat]
    BY DEF Init
  <2>4. overlapped \in BOOLEAN
    BY DEF Init
  <2> QED
    BY <2>1, <2>2, <2>3, <2>4, Parts
<1>2. InPlace /\ Numbered /\ HoldersInv /\ ActiveInv /\ AloneInv
  BY DEF Init, InPlace, Places, Numbered, HoldersInv, Halfway, ActiveInv, AloneInv, InStart, Starting
<1>3. CountInv
  <2>1. \A s \in Sessions : Terminals(s) = {} /\ terminals[s] = 0
    BY DEF Init, Terminals, Underway
  <2> QED
    BY <2>1, FS_EmptySet DEF CountInv
<1>4. AwakeInv
  BY DEF Init, AwakeInv
<1> QED
  BY <1>1, <1>2, <1>3, <1>4 DEF IInv, RunInv

LEMMA Invariance == Spec => []IInv
<1>1. IInv /\ [Next]_vars => IInv'
  <2> SUFFICES ASSUME TypeOK, RunInv, AwakeInv, [Next]_vars PROVE IInv'
    BY DEF IInv
  <2>1. Rest /\ InPlace /\ Numbered /\ CountInv
    BY Parts DEF RunInv
  <2>2. TypeOK' /\ InPlace' /\ Numbered'
    BY <2>1, TypeStep, PlaceStep, NumberedStep
  <2>3. HoldersInv' /\ ActiveInv' /\ AloneInv'
    BY HoldersStep, ActiveStep, AloneStep
  <2>4. CountInv'
    BY <2>1, CountStep
  <2>5. AwakeInv'
    BY <2>1, AwakeStep
  <2> QED
    BY <2>2, <2>3, <2>4, <2>5 DEF IInv, RunInv
<1> QED
  BY InitInv, <1>1, PTL DEF Spec

\* The state is what the code can hold: a session counts no terminals below
\* zero whichever way openTerminal and its tab end.
THEOREM SandboxTypeCorrect == Spec => []TypeOK
<1>1. IInv => TypeOK
  BY DEF IInv
<1> QED
  BY Invariance, <1>1, PTL

\* RunManager: two programs of a room do not run at once, over any sessions,
\* resets, stops and restarts of the runner, while no two starts overlapped
\* between the look at active and its setting.
THEOREM RunsAreAlone == Spec => []OneRun
<1>1. IInv => OneRun
  <2> SUFFICES ASSUME AloneInv, ~overlapped, NEW q \in Requests, NEW r \in Requests, Live(q), Live(r)
               PROVE  q = r
    BY DEF IInv, RunInv, OneRun
  <2>1. InStart(q) /\ InStart(r)
    BY DEF Live, InStart, Starting
  <2> QED
    BY <2>1 DEF AloneInv
<1> QED
  BY Invariance, <1>1, PTL

\* The sweep: close() runs on a session that nobody uses any more, neither a
\* run nor a terminal, from the request's first step to its last.
THEOREM SweptSessionsAreUnused == Spec => []SweptIsUnused
<1>1. IInv => SweptIsUnused
  <2> SUFFICES ASSUME TypeOK, InPlace, Numbered, HoldersInv, ActiveInv, ~overlapped,
                      NEW s \in Sessions, closing[s] # "no",
                      NEW q \in Requests, of[q] = s, Underway(q), kind[q] # "restart"
               PROVE  FALSE
    BY DEF IInv, RunInv, SweptIsUnused
  <2>1. s # registry
    BY DEF Numbered
  <2>2. kind[q] \in {"run", "terminal"}
    BY DEF TypeOK, InPlace, Places, Underway
  <2>3. ~Halfway(q) /\ pc[q] \notin {"stopping", "open"}
    BY <2>1, <2>2 DEF HoldersInv, Held
  <2>4. pc[q] \notin {"running", "finishing"}
    BY <2>1 DEF ActiveInv, Held
  <2> QED
    BY <2>2, <2>3, <2>4 DEF InPlace, Places, Halfway, Underway
<1> QED
  BY Invariance, <1>1, PTL

\* Databases and sandbox: files in place mean databases that are there or on
\* their way, because what takes the databases of a room takes its container
\* after; but for a call Docker refused and a sweep's stop that ended since.
THEOREM DatabasesAreAwake == Spec => []DatabasesAwake
<1>1. IInv => DatabasesAwake
  <2> SUFFICES ASSUME AwakeInv, Attached, missed = {}
               PROVE  databases # "asleep" \/ resuming # {}
    BY DEF IInv, DatabasesAwake
  <2>1. PICK s \in Sessions : s = registry /\ link[s] = "attached"
    BY DEF Attached
  <2>2. \A x \in Sessions : closing[x] # "stopping"
    BY DEF Attached
  <2> QED
    BY <2>1, <2>2 DEF AwakeInv
<1> QED
  BY Invariance, <1>1, PTL
=============================================================================
