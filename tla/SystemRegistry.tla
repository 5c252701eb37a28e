--------------------------- MODULE SystemRegistry ---------------------------
(***************************************************************************)
(* SystemRegistry (runtime/registry.py) while a kernel boots: the enabled   *)
(* systems are put into an order in which every one comes after its hard    *)
(* dependencies, initialised in that order, and asked for their health.     *)
(*                                                                         *)
(* The depth-first search of resolve() is modelled one call of visit() at a *)
(* time: the Python stack is a sequence of frames, each with the place its  *)
(* loop over HARD_DEPENDENCIES has reached.  The set `visiting` of the code *)
(* is the systems of the frames, `visited` is the systems of the order.     *)
(***************************************************************************)
EXTENDS Naturals, Sequences, SequencesExt, FiniteSets

CONSTANT Plugins   \* SYSTEM_ID of every registered class

VARIABLES
    enabled,    \* systems.enabled of the frozen configuration, a sequence
    depends,    \* HARD_DEPENDENCIES: a sequence of names for every plug-in
    phase,      \* what boot() does next, or "ready", or why it has raised
    roots,      \* enabled systems the loop of resolve() has still to visit
    stack,      \* calls of visit() that have not returned, the last on top
    order,      \* boot_order so far
    started     \* instances, in the order of their initialisation

config == <<enabled, depends>>
vars == <<config, phase, roots, stack, order, started>>

Raised == {"unregistered", "cycle", "not_initialised", "unhealthy"}

Visiting == {f.system : f \in ToSet(stack)}
Frame(s) == [system |-> s, at |-> 1]
Top == Last(stack)

\* Dependencies that are not enabled are passed over.
Hard(s) == ToSet(depends[s]) \cap ToSet(enabled)

Init ==
    /\ enabled \in Seq(STRING) /\ depends \in [Plugins -> Seq(STRING)]
    /\ phase = "resolve" /\ roots = enabled
    /\ stack = <<>> /\ order = <<>> /\ started = <<>>

Missing ==
    /\ phase = "resolve" /\ ~ToSet(enabled) \subseteq Plugins
    /\ phase' = "unregistered"
    /\ UNCHANGED <<config, roots, stack, order, started>>

\* The loop over the dependencies of a frame goes on behind the one it calls.
Advanced == [stack EXCEPT ![Len(stack)].at = @ + 1]

\* Mutant: a call that has not returned counts as done.
VisitUnaware(s, frames) ==
    /\ stack' = IF s \in ToSet(order) \cup Visiting THEN frames
                ELSE Append(frames, Frame(s))
    /\ phase' = "resolve"
    /\ UNCHANGED <<config, order, started>>

\* visit(s), called with the given frames below it.
Visit(s, frames) ==
    /\ IF s \in ToSet(order) THEN stack' = frames /\ phase' = "resolve"
       ELSE IF s \in Visiting THEN stack' = frames /\ phase' = "cycle"
       ELSE stack' = Append(frames, Frame(s)) /\ phase' = "resolve"
    /\ UNCHANGED <<config, order, started>>

VisitRoot ==
    /\ phase = "resolve" /\ ToSet(enabled) \subseteq Plugins
    /\ stack = <<>> /\ roots # <<>>
    /\ roots' = Tail(roots)
    /\ Visit(Head(roots), <<>>)

VisitDependency ==
    /\ phase = "resolve" /\ stack # <<>> /\ Top.at <= Len(depends[Top.system])
    /\ LET d == depends[Top.system][Top.at]
       IN  IF d \in ToSet(enabled) THEN Visit(d, Advanced)
           ELSE stack' = Advanced /\ UNCHANGED <<config, phase, order, started>>
    /\ UNCHANGED roots

Return ==
    /\ phase = "resolve" /\ stack # <<>> /\ Top.at > Len(depends[Top.system])
    /\ stack' = Front(stack)
    /\ order' = Append(order, Top.system)
    /\ UNCHANGED <<config, phase, roots, started>>

Resolved ==
    /\ phase = "resolve" /\ stack = <<>> /\ roots = <<>>
    /\ phase' = "instantiate"
    /\ UNCHANGED <<config, roots, stack, order, started>>

\* Mutant: the systems are initialised in the order of the configuration.
InstantiateAsListed ==
    /\ phase = "instantiate" /\ Len(started) < Len(order)
    /\ started' = Append(started, enabled[Len(started) + 1])
    /\ UNCHANGED <<config, phase, roots, stack, order>>

\* initialize() may raise; the instances made so far go with the registry.
Instantiate ==
    /\ phase = "instantiate" /\ Len(started) < Len(order)
    /\ \/ started' = Append(started, order[Len(started) + 1]) /\ UNCHANGED phase
       \/ phase' = "not_initialised" /\ UNCHANGED started
    /\ UNCHANGED <<config, roots, stack, order>>

HealthCheck ==
    /\ phase = "instantiate" /\ Len(started) = Len(order)
    /\ phase' \in {"ready", "unhealthy"}
    /\ UNCHANGED <<config, roots, stack, order, started>>

Next == \/ Missing \/ VisitRoot \/ VisitDependency \/ Return \/ Resolved
        \/ Instantiate \/ HealthCheck

Spec == Init /\ [][Next]_vars

-----------------------------------------------------------------------------
(***************************************************************************)
(* A system is initialised after every enabled system it depends on, once,  *)
(* and a kernel that is ready has initialised them all (resolve and        *)
(* instantiate): a dependency met twice, from two sides or as a root of its *)
(* own, neither returns to the order nor is left out of it.                 *)
(***************************************************************************)
DependenciesFirst ==
    /\ \A i \in DOMAIN started : \A d \in Hard(started[i]) :
          \E j \in DOMAIN started : j < i /\ started[j] = d
    /\ IsInjective(started)
    /\ phase = "ready" => ToSet(started) = ToSet(enabled)

\* Some enabled systems each of which has a hard dependency among them.
Cyclic == \E C \in SUBSET ToSet(enabled) : C # {} /\ \A s \in C : Hard(s) \cap C # {}

(***************************************************************************)
(* resolve() reports a cycle exactly if the enabled systems have one among *)
(* their hard dependencies: a system that several others depend on is no   *)
(* cycle, and one that is not enabled breaks it.                            *)
(***************************************************************************)
CycleIsReal ==
    /\ phase = "cycle" => Cyclic
    /\ phase = "instantiate" => ~Cyclic
=============================================================================
