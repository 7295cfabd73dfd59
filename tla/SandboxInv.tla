------------------------------ MODULE SandboxInv ------------------------------
(***************************************************************************)
(* The inductive invariants behind the safety properties of Sandbox: which *)
(* requests hold the room's session in the registry, and by what: a run by *)
(* being active, a terminal by its count, a handler half-way by the touch  *)
(* it began with.                                                          *)
(***************************************************************************)
EXTENDS Sandbox

Places(k) ==
    CASE k = "none"     -> {"new"}
      [] k = "run"      -> {"stopping", "preparing", "exec", "execed", "running", "finishing", "done"}
      [] k = "terminal" -> {"preparing", "exec", "execed", "open", "done"}
      [] k = "restart"  -> {"stopping", "resetting", "preparing", "done"}

\* A request is where its kind goes, in a session once it has arrived.
InPlace == \A q \in Requests :
    /\ pc[q] \in Places(kind[q])
    /\ pc[q] # "new" => of[q] \in Sessions
    /\ q \in timers => pc[q] # "new"

\* Sessions are numbered as they come, and one that is closed is not the one
\* in the registry.
Numbered ==
    /\ registry <= opened
    /\ \A s \in Sessions : closing[s] # "no" => s <= opened /\ s # registry

\* The run or terminal q is one of the session in the registry.
Held(q) == registry \in Sessions /\ of[q] = registry

Halfway(q) == pc[q] \in {"preparing", "exec", "execed"}

\* A handler half-way, one that waits for a stop and an open terminal are of
\* the session in the registry; the first has touched it.
HoldersInv == \A q \in Requests : kind[q] \in {"run", "terminal"} =>
    /\ Halfway(q) \/ pc[q] \in {"stopping", "open"} => Held(q)
    /\ Halfway(q) => fresh[registry]

\* So are, unless two starts overlapped, a run that is under way, which is the
\* active one, and one that ends, which is or somebody has touched the session
\* since.
ActiveInv == ~overlapped => \A q \in Requests :
    /\ pc[q] = "running" => Held(q) /\ active[registry] = q
    /\ pc[q] = "finishing" => Held(q) /\ (active[registry] = q \/ fresh[registry])

\* And no two runs are between the look at active and their end.
InStart(q) == Starting(q) \/ pc[q] = "running"
AloneInv == ~overlapped => \A q, r \in Requests : InStart(q) /\ InStart(r) => q = r

\* A session counts at least the terminals it has.
Terminals(s) == {q \in Requests : kind[q] = "terminal" /\ of[q] = s /\ Underway(q)}
CountInv == \A s \in Sessions : terminals[s] >= Cardinality(Terminals(s))

RunInv == InPlace /\ Numbered /\ HoldersInv /\ ActiveInv /\ AloneInv /\ CountInv

\* An agent is one of a container that runs; a sandbox with its files in place
\* has its databases up or on their way, or a refused call or a stop came
\* between, or somebody who took them is about to take the container too.
AwakeInv == \A s \in Sessions :
    /\ link[s] # "none" => container = "up"
    /\ link[s] = "attached" => \/ databases # "asleep" \/ resuming # {} \/ missed # {}
                               \/ \E x \in Sessions : closing[x] = "stopping"

IInv == TypeOK /\ RunInv /\ AwakeInv
=============================================================================
