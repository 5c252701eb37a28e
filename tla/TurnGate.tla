------------------------------ MODULE TurnGate ------------------------------
(***************************************************************************)
(* The inside of one turn of the kernel, RuntimeKernel._execute_turn: the   *)
(* governance pre-scan, S1, the choice of a route from the configuration,   *)
(* the readiness report of the capability registry, the authorization of   *)
(* the task-competency layer, the systems of the route, the S13 gate, and   *)
(* the record in the temporal sphere.  Before any turn, the boot check of   *)
(* InvariantChecker decides whether a configuration may be run at all, and  *)
(* SystemRegistry brings up the systems it enables.                         *)
(*                                                                         *)
(* RuntimeKernel models what happens to the outcome of this turn (commit,   *)
(* rejection, exception); here only the outcome itself is computed.         *)
(*                                                                         *)
(* Abstractions.  A text is what the code reads off it: the verdict of the  *)
(* pre-scan and the findings of S1.  Health is an input of the report, for  *)
(* it is only read there: a provider may fail at any moment, and one that   *)
(* fails after the report raises (Fault).  Numeric thresholds are reduced   *)
(* to their outcome.  Receipts and observability events are left out.       *)
(***************************************************************************)
EXTENDS Sequences, SequencesExt, FiniteSets

CONSTANTS
    Plugins,       \* default_plugins(): the systems that have an adapter
    TaskClasses,   \* what S1 may make of a text
    Files,         \* a function to the configurations, valid or not, a file may hold
    MaxDown        \* how many providers may be unhealthy in one report

\* The systems the code names by itself have adapters; a route lists systems.
ASSUME TurnAssumption ==
    /\ {"S1", "S2", "S5", "S6", "S7", "S8", "S9", "S10", "S13"} \subseteq Plugins
    /\ \A f \in DOMAIN Files : \A k \in DOMAIN Files[f].routes :
          LET r == Files[f].routes[k]
          IN  r.systems \in Seq(STRING) /\ r.optional \in Seq(STRING)

VARIABLES
    file,       \* which of Files the kernel was given
    phase, roots, stack, order, started,   \* of the registry, see there
    pc,         \* the next step: of boot, of a turn, or "refused" or "done"
    verdict,    \* the decision of the pre-scan
    s1,         \* what S1 found in the text
    route,      \* the chosen route
    report,     \* the capability report: [exec, gate], two sets of systems
    plan,       \* what the task planner has written down, for S2 to S13 to see
    todo,       \* required systems still to run
    extra,      \* optional systems still to run or to skip
    ran,        \* the systems that have run, in order
    approved,   \* the S13 output holds an approved decision
    outcome     \* "none", "raised", "recorded" or the code of a rejection

booted == <<file, phase, roots, stack, order, started>>
turnvars == <<verdict, s1, route, report, plan, todo, extra, ran, approved, outcome>>
vars == <<booted, pc, turnvars>>

\* The frozen configuration, read again by every part at every turn.
config == Files[file]

\* The hard dependencies come with the classes; a record of Files holds both.
Registry == INSTANCE SystemRegistry
                WITH enabled <- config.enabled, depends <- config.depends

Rejections == {"GOVERNANCE_REJECT", "CAPABILITY_UNAVAILABLE",
               "REVIEW_REQUIRED", "QESAE_REJECT"}

NoS1 == [class |-> "none", objective |-> FALSE,
         ambiguous |-> FALSE, critical |-> FALSE]
NoRoute == [key |-> "none", systems |-> <<>>, gates |-> {}, optional |-> <<>>]
NoReport == [exec |-> {}, gate |-> {}]
NoPlan == [disposition |-> "none", blockedBy |-> {}, ready |-> {}, unavailable |-> {}]

(***************************************************************************)
(* The configuration: enabled (a sequence), kernelSystem, maturity (empty   *)
(* when there is no such table), execMaturities, gateMaturities, routes     *)
(* (empty when there is no such table), policy, classRoutes, tcol (is the   *)
(* layer configured), objectiveClasses, competencies, providers; planning   *)
(* (is there a table for the planner) and depends, see Registry.            *)
(***************************************************************************)
Configured(c) == DOMAIN c.routes # {}

\* Mutant: a hard gate need not be among the systems of the route.
RouteWithoutGates(c, r) ==
    /\ IsInjective(r.systems)
    /\ ToSet(r.systems) \cap ToSet(r.optional) = {}
    /\ ToSet(r.systems) \cup ToSet(r.optional) \subseteq ToSet(c.enabled)

RouteOK(c, r) ==
    /\ IsInjective(r.systems)                              \* I-ROUTE-04
    /\ r.gates \subseteq ToSet(r.systems)                  \* I-ROUTE-05
    /\ ToSet(r.systems) \cap ToSet(r.optional) = {}        \* I-ROUTE-06
    /\ ToSet(r.systems) \cup ToSet(r.optional)
         \subseteq ToSet(c.enabled)                        \* I-ROUTE-07

CompetenciesOK(c) ==
    /\ Configured(c) => DOMAIN c.routes \subseteq DOMAIN c.competencies
    /\ \A k \in DOMAIN c.competencies : \A q \in c.competencies[k] :
          q \in DOMAIN c.providers /\ c.providers[q] # {}

\* What must hold for a configuration to boot, the thresholds aside.
Checked(c) ==
    /\ c.kernelSystem \in ToSet(c.enabled)
    /\ IsInjective(c.enabled)
    /\ DOMAIN c.maturity # {} => ToSet(c.enabled) \subseteq DOMAIN c.maturity
    /\ c.gateMaturities # {} /\ c.gateMaturities \subseteq c.execMaturities
    /\ Configured(c) =>
          /\ \A d \in {"block", "review", "default"} :
                c.policy[d] \in DOMAIN c.routes
          /\ \A k \in DOMAIN c.routes : RouteOK(c, c.routes[k])
    /\ c.tcol => CompetenciesOK(c)

----------------------------------------------------------------------------
\* Router

Legacy(class, decision) ==
    IF decision = "REVIEW"
    THEN [key |-> "deep_review", gates |-> {"S8", "S13"}, optional |-> <<>>,
          systems |-> <<"S1", "S2", "S5", "S7", "S8", "S9", "S13">>]
    ELSE IF class \in {"creative", "artistic"}
    THEN [key |-> "creative", gates |-> {"S8"}, optional |-> <<"S10">>,
          systems |-> <<"S1", "S5", "S8", "S9">>]
    ELSE [key |-> "default", gates |-> {"S8"}, optional |-> <<>>,
          systems |-> <<"S1", "S2", "S6", "S7", "S8">>]

RouteKey(c, class, decision) ==
    IF decision = "REVIEW" THEN c.policy["review"]
    ELSE IF class \in DOMAIN c.classRoutes THEN c.classRoutes[class]
    ELSE c.policy["default"]

\* A task class may name a route that is not declared: choose raises.
Routable(c, class, decision) ==
    Configured(c) => RouteKey(c, class, decision) \in DOMAIN c.routes

Chosen(c, class, decision) ==
    IF ~Configured(c) THEN Legacy(class, decision)
    ELSE LET k == RouteKey(c, class, decision)
             r == c.routes[k]
         IN  [key |-> k, systems |-> r.systems,
              gates |-> r.gates, optional |-> r.optional]

----------------------------------------------------------------------------
\* SystemRegistry.capability and assess_route

Maturity(c, s) ==
    IF s \in DOMAIN c.maturity THEN c.maturity[s]
    ELSE IF s \in Plugins THEN "implemented_adapter" ELSE "undeclared"

Requested(r) == ToSet(r.systems) \cup r.gates \cup ToSet(r.optional)

\* Mutant: every enabled system is reported, whatever the route.
ReportedAll(c, r, down) ==
    LET base == ToSet(c.enabled) \ down
    IN  [exec |-> {s \in base : Maturity(c, s) \in c.execMaturities},
         gate |-> {s \in base : Maturity(c, s) \in c.gateMaturities}]

Reported(c, r, down) ==
    LET base == (Requested(r) \cap ToSet(c.enabled) \cap ToSet(started)) \ down
    IN  [exec |-> {s \in base : Maturity(c, s) \in c.execMaturities},
         gate |-> {s \in base : Maturity(c, s) \in c.gateMaturities}]

RouteReady(r, rep) == /\ ToSet(r.systems) \subseteq rep.exec
                      /\ r.gates \subseteq rep.gate

----------------------------------------------------------------------------
\* TaskCompetencyPlanner

Required(r) == {"S1"} \cup ToSet(r.systems)   \* S1 has a row in every plan

\* Mutant: optional systems are looked up as gates are.
AvailableAsGate(r, rep, s) == IF s \in ToSet(r.optional) \cup r.gates
                              THEN s \in rep.gate ELSE s \in rep.exec

Available(r, rep, s) == IF s \in (r.gates \cap ToSet(r.systems)) \ {"S1"}
                        THEN s \in rep.gate ELSE s \in rep.exec

Planned(r, rep) ==
    LET blocked == (r.gates \ rep.gate) \cup (ToSet(r.systems) \ rep.exec)
        rows == Required(r) \cup ToSet(r.optional)
        available == {s \in rows : Available(r, rep, s)}
    IN  [disposition |-> IF blocked # {} THEN "blocked"
                         ELSE IF ToSet(r.optional) \subseteq rep.exec THEN "ready"
                         ELSE "ready_with_optional_gaps",
         blockedBy |-> blocked, ready |-> available, unavailable |-> rows \ available]

----------------------------------------------------------------------------
\* TaskCompetencyOrchestrator

ContractGap(c, f) == \/ f.class \in c.objectiveClasses /\ ~f.objective
                     \/ f.ambiguous

\* Mutant: the uncertainty of S1 is no barrier (as in an earlier TCOL).
BarrierOfAmbiguity(f) == f.ambiguous

Barrier(f) == f.critical \/ f.ambiguous

HardGate(c, r, q) == c.providers[q] \cap r.gates # {}

Covered(c, r, rep, q) ==
    LET eligible == IF HardGate(c, r, q) THEN rep.gate ELSE rep.exec
    IN  c.providers[q] \cap eligible # {}

\* Without declared routes the layer may have no competencies for a route.
CompetenciesOf(c, r) ==
    IF r.key \in DOMAIN c.competencies THEN c.competencies[r.key] ELSE {}

\* Mutant: the task is looked at before the competencies.
AuthorizationOfTask(c, r, rep, f) ==
    IF ~c.tcol THEN "AUTHORIZED"
    ELSE IF ContractGap(c, f) \/ Barrier(f) THEN "REVIEW"
    ELSE IF \E q \in CompetenciesOf(c, r) : ~Covered(c, r, rep, q)
    THEN "BLOCKED" ELSE "AUTHORIZED"

Authorization(c, r, rep, f) ==
    IF ~c.tcol THEN "AUTHORIZED"
    ELSE IF \E q \in CompetenciesOf(c, r) : ~Covered(c, r, rep, q)
    THEN "BLOCKED"
    ELSE IF ContractGap(c, f) \/ Barrier(f) THEN "REVIEW"
    ELSE "AUTHORIZED"

----------------------------------------------------------------------------
Fresh(step) ==
    /\ pc' = step
    /\ verdict' = "none" /\ s1' = NoS1 /\ route' = NoRoute
    /\ report' = NoReport /\ plan' = NoPlan
    /\ todo' = <<>> /\ extra' = <<>> /\ ran' = <<>> /\ approved' = FALSE
    /\ outcome' = "none"

Init ==
    /\ file \in DOMAIN Files /\ pc = "boot" /\ Registry!Init
    /\ verdict = "none" /\ s1 = NoS1 /\ route = NoRoute
    /\ report = NoReport /\ plan = NoPlan
    /\ todo = <<>> /\ extra = <<>> /\ ran = <<>> /\ approved = FALSE
    /\ outcome = "none"

\* RuntimeKernel.boot: the invariants, then the registry, step by step.
Boot == /\ pc = "boot"
        /\ pc' = IF Checked(config) THEN "registry" ELSE "refused"
        /\ UNCHANGED <<booted, turnvars>>

BootRegistry ==
    /\ pc = "registry" /\ UNCHANGED <<file, turnvars>> /\ Registry!Next
    /\ pc' = IF phase' = "ready" THEN "scan"
             ELSE IF phase' \in Registry!Raised THEN "refused" ELSE pc

\* The next command: every local of _execute_turn starts anew.
NewTurn == pc = "done" /\ Fresh("scan") /\ UNCHANGED booted

End(code) == pc' = "done" /\ outcome' = code

PreScan ==
    /\ pc = "scan"
    /\ \E d \in {"BLOCK", "REVIEW", "PASS"} :
          /\ verdict' = d
          /\ IF d = "BLOCK" THEN End("GOVERNANCE_REJECT")
             ELSE pc' = "s1" /\ UNCHANGED outcome
    /\ UNCHANGED <<booted, s1, route, report, plan, todo, extra, ran, approved>>

\* S1 runs before the route and before any report of readiness; where the
\* configuration does not enable it, the look-up in the registry raises.
RunS1 ==
    /\ pc = "s1" /\ "S1" \in ToSet(started)
    /\ \E t \in TaskClasses, o, a, u \in BOOLEAN :
          s1' = [class |-> t, objective |-> o, ambiguous |-> a, critical |-> u]
    /\ ran' = <<"S1">> /\ pc' = "route"
    /\ UNCHANGED <<booted, verdict, route, report, plan, todo, extra, approved, outcome>>

Choose ==
    /\ pc = "route"
    /\ IF Routable(config, s1.class, verdict)
       THEN /\ route' = Chosen(config, s1.class, verdict)
            /\ pc' = "assess" /\ UNCHANGED outcome
       ELSE End("raised") /\ UNCHANGED route
    /\ UNCHANGED <<booted, verdict, s1, report, plan, todo, extra, ran, approved>>

Assess ==
    /\ pc = "assess"
    /\ \E down \in SUBSET Requested(route) :
          /\ Cardinality(down) <= MaxDown
          /\ report' = Reported(config, route, down)
    /\ pc' = "plan"
    /\ UNCHANGED <<booted, verdict, s1, route, plan, todo, extra, ran, approved, outcome>>

Plan ==
    /\ pc = "plan" /\ pc' = "authorize"
    /\ plan' = IF config.planning THEN Planned(route, report) ELSE NoPlan
    /\ UNCHANGED <<booted, verdict, s1, route, report, todo, extra, ran, approved, outcome>>

\* Planning has no say; the layer and the report decide together.
Authorize ==
    /\ pc = "authorize"
    /\ LET ready == RouteReady(route, report)
           status == Authorization(config, route, report, s1)
       IN  IF ready /\ status = "AUTHORIZED"
           THEN /\ pc' = "run" /\ todo' = route.systems
                /\ extra' = route.optional /\ UNCHANGED outcome
           ELSE /\ End(IF ~ready \/ status = "BLOCKED"
                       THEN "CAPABILITY_UNAVAILABLE" ELSE "REVIEW_REQUIRED")
                /\ UNCHANGED <<todo, extra>>
    /\ UNCHANGED <<booted, verdict, s1, route, report, plan, ran, approved>>

\* The output of S13, if it is s that runs; no other output is looked at.
Decided(s) == \E a \in BOOLEAN : /\ s # "S13" => a = approved
                                 /\ approved' = a

\* The kernel's own system has no call: its pre-scan stands as its output.
RunRequired ==
    /\ pc = "run" /\ todo # <<>>
    /\ IF Head(todo) = "S1" THEN UNCHANGED <<ran, approved>>
       ELSE /\ ran' = Append(ran, Head(todo))
            /\ IF Head(todo) = config.kernelSystem THEN UNCHANGED approved
               ELSE Decided(Head(todo))
    /\ todo' = Tail(todo)
    /\ UNCHANGED <<booted, pc, verdict, s1, route, report, plan, extra, outcome>>

RunOptional ==
    /\ pc = "run" /\ todo = <<>> /\ extra # <<>>
    /\ IF Head(extra) \in report.exec
       THEN ran' = Append(ran, Head(extra)) /\ Decided(Head(extra))
       ELSE UNCHANGED <<ran, approved>>
    /\ extra' = Tail(extra)
    /\ UNCHANGED <<booted, pc, verdict, s1, route, report, plan, todo, outcome>>

Verify ==
    /\ pc = "run" /\ todo = <<>> /\ extra = <<>>
    /\ IF "S13" \in route.gates /\ ~approved
       THEN End("QESAE_REJECT")
       ELSE pc' = "record" /\ UNCHANGED outcome
    /\ UNCHANGED <<booted, verdict, s1, route, report, plan, todo, extra, ran, approved>>

Record == /\ pc = "record" /\ End("recorded")
          /\ UNCHANGED <<booted, verdict, s1, route, report, plan, todo, extra, ran, approved>>

\* Any call made through execute may raise; a failed provider is one reason.
Fault == /\ pc \notin {"boot", "registry", "refused", "done"} /\ End("raised")
         /\ UNCHANGED <<booted, verdict, s1, route, report, plan, todo, extra, ran, approved>>

\* A refused configuration leaves no kernel behind.
Refused == pc = "refused" /\ UNCHANGED vars

Next == \/ Boot \/ BootRegistry \/ NewTurn \/ PreScan \/ RunS1 \/ Choose
        \/ Assess \/ Plan \/ Authorize \/ RunRequired \/ RunOptional \/ Verify \/ Record \/ Fault \/ Refused

Spec == Init /\ [][Next]_vars

----------------------------------------------------------------------------
\* Shapes of the turn's locals, whatever the configuration.
TypeOK ==
    /\ file \in DOMAIN Files
    /\ pc \in {"boot", "registry", "refused", "scan", "s1", "route", "assess",
               "plan", "authorize", "run", "record", "done"}
    /\ verdict \in {"none", "BLOCK", "REVIEW", "PASS"}
    /\ report.exec \cup report.gate \subseteq Requested(route)
    /\ plan.ready \cup plan.unavailable \cup ToSet(ran) \subseteq Plugins
    /\ approved \in BOOLEAN
    /\ outcome \in {"none", "raised", "recorded"} \cup Rejections

Downstream == ToSet(ran) \ {"S1"}
Ended == pc = "done"

(***************************************************************************)
(* Fail closed: a system beyond S1 runs only in a turn that governance did  *)
(* not block, whose required systems and hard gates were reported ready,   *)
(* and, with the competency layer, whose competencies all have a ready     *)
(* provider and whose task has no gap and no barrier                       *)
(* (task_competency_orchestration.md, I-TCOL-02 to I-TCOL-05).              *)
(***************************************************************************)
FailClosed ==
    Downstream # {} =>
        /\ verdict \in {"PASS", "REVIEW"}
        /\ ToSet(route.systems) \subseteq report.exec
        /\ route.gates \subseteq report.gate
        /\ config.tcol =>
              /\ \A q \in CompetenciesOf(config, route) :
                    \E s \in config.providers[q] :
                       /\ s \in report.exec
                       /\ HardGate(config, route, q) => s \in report.gate
              /\ ~s1.ambiguous /\ ~s1.critical
              /\ s1.class \in config.objectiveClasses => s1.objective

\* The list has an x that stands before a y.
ListedBefore(list, x, y) ==
    \E a, b \in DOMAIN list : a < b /\ list[a] = x /\ list[b] = y

(***************************************************************************)
(* A turn that reaches the temporal sphere ran its whole route: every      *)
(* hard gate, every required system exactly once and in the route's order,  *)
(* an optional one only if it was ready; and S13, where it is a hard gate,  *)
(* had approved.  It relates the end of the turn to the boot check: a hard  *)
(* gate outside the route's systems would be counted as passed unheard.     *)
(***************************************************************************)
RecordedTurnIsWhole ==
    (Ended /\ outcome = "recorded") =>
        LET required == ToSet(route.systems) \ {"S1"}
        IN  /\ ran[1] = "S1" /\ required \cup route.gates \subseteq ToSet(ran)
            /\ \A i \in 2..Len(ran) :
                  ran[i] \in required \cup (ToSet(route.optional) \cap report.exec)
            /\ \A i, j \in 2..Len(ran) : i < j /\ ran[j] \in required =>
                  ran[i] # ran[j] /\ ListedBefore(route.systems, ran[i], ran[j])
            /\ "S13" \in route.gates => approved

(***************************************************************************)
(* The code of a rejection says how far the turn went.  A review is asked   *)
(* for only when nothing is missing, so that consent alone would be        *)
(* enough; a missing capability is named only when one is missing; neither  *)
(* lets a system beyond S1 run; and S13 rejects only what ran in full.      *)
(***************************************************************************)
RejectionsTruthful ==
    Ended =>
        LET ready == RouteReady(route, report)
            covered == config.tcol => \A q \in CompetenciesOf(config, route) :
                                         Covered(config, route, report, q)
        IN  /\ outcome = "REVIEW_REQUIRED" =>
                  ready /\ covered /\ Downstream = {}
            /\ outcome = "CAPABILITY_UNAVAILABLE" =>
                  ~(ready /\ covered) /\ Downstream = {}
            /\ outcome = "GOVERNANCE_REJECT" => ran = <<>>
            /\ outcome = "QESAE_REJECT" =>
                  {"S13"} \cup ToSet(route.systems) \subseteq ToSet(ran)

(***************************************************************************)
(* The plan that every system of a turn is shown is the turn that happens:  *)
(* what _map_competencies calls ready is what runs, no more and no less,    *)
(* what the report calls missing has a row that is not available, and a     *)
(* plan that is blocked is not executed, although the planner has no say.   *)
(***************************************************************************)
PlanIsTheTurn ==
    plan # NoPlan =>
        /\ plan.blockedBy \ {"S1"} \subseteq plan.unavailable
        /\ plan.disposition = "blocked" =>
              Downstream = {} /\ outcome \in {"none", "raised", "CAPABILITY_UNAVAILABLE"}
        /\ Ended /\ outcome = "recorded" => Downstream = plan.ready \ {"S1"}

\* SystemRegistry, checked for the boot of every file.
DependenciesFirst == Registry!DependenciesFirst
CycleIsReal == Registry!CycleIsReal
=============================================================================
