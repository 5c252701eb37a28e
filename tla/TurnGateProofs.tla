---------------------------- MODULE TurnGateProofs ----------------------------
(***************************************************************************)
(* One turn of the kernel, for every configuration a file may hold, every   *)
(* set of systems and every number of unhealthy ones.                       *)
(*                                                                         *)
(* First the turn fails closed.  What has to be known before the            *)
(* authorization: the boot check accepted the configuration, so that the   *)
(* maturities that may carry a gate are among those that may run; therefore *)
(* a system reported gate-ready is also reported ready, and the one         *)
(* provider the authorization found for a competency answers both.         *)
(*                                                                         *)
(* Then the registry's theorems are carried into the kernel that boots it,  *)
(* and the course of a turn is followed from the route to its end: what is  *)
(* recorded ran in full and in order, as planned, and codes are true.       *)
(***************************************************************************)
EXTENDS TurnGate, TLAPS

\* The promise of FailClosed, without the condition that a system has run.
Authorized ==
    /\ verdict \in {"PASS", "REVIEW"}
    /\ ToSet(route.systems) \subseteq report.exec
    /\ route.gates \subseteq report.gate
    /\ config.tcol =>
          /\ \A q \in CompetenciesOf(config, route) :
                \E s \in config.providers[q] :
                   /\ s \in report.exec
                   /\ HardGate(config, route, q) => s \in report.gate
          /\ ~s1.ambiguous /\ ~s1.critical
          /\ s1.class \in config.objectiveClasses => s1.objective

(* What a turn knows at each of its steps.                                 *)
TurnInv ==
    /\ pc \notin {"boot", "refused"} => Checked(config)
    /\ pc \in {"s1", "route", "assess", "plan", "authorize"} => verdict \in {"PASS", "REVIEW"}
    /\ report.gate \subseteq report.exec
    /\ pc \notin {"run", "record", "done"} => Downstream = {}
    /\ pc \in {"run", "record"} \/ Downstream # {} => Authorized

LEMMA NothingRan ==
    /\ ToSet(<<>>) \ {"S1"} = {}
    /\ ToSet(<<"S1">>) \ {"S1"} = {}
  BY SMT DEF ToSet

LEMMA GateReadyIsReady ==
    ASSUME NEW c, c.gateMaturities \subseteq c.execMaturities, NEW r, NEW down
    PROVE  Reported(c, r, down).gate \subseteq Reported(c, r, down).exec
  BY DEF Reported

-----------------------------------------------------------------------------
LEMMA InitTurnInv == Init => TurnInv
  BY NothingRan DEF Init, TurnInv, NoReport, Downstream

\* A turn that begins knows what the boot check found, and nothing else.
LEMMA FreshTurn ==
    ASSUME Fresh("scan"), UNCHANGED file, Checked(config)
    PROVE  TurnInv'
  BY NothingRan DEF Fresh, TurnInv, NoReport, Downstream, config

\* Booting touches nothing a turn speaks of.
LEMMA BootedInv ==
    ASSUME TurnInv, UNCHANGED <<file, turnvars>>, pc \in {"boot", "registry"},
           pc' \in {"registry", "refused", "scan"},
           pc' # "refused" => Checked(config)
    PROVE  TurnInv'
  BY DEF TurnInv, turnvars, Authorized, Downstream, config

\* The whole of the argument: what the authorization looks at.
LEMMA AuthorizeGates ==
    ASSUME TurnInv, pc = "authorize", RouteReady(route, report),
           Authorization(config, route, report, s1) = "AUTHORIZED"
    PROVE  Authorized
  <1>1. verdict \in {"PASS", "REVIEW"} /\ report.gate \subseteq report.exec
    BY DEF TurnInv
  <1>2. ToSet(route.systems) \subseteq report.exec /\ route.gates \subseteq report.gate
    BY DEF RouteReady
  <1>3. ASSUME config.tcol
        PROVE  /\ \A q \in CompetenciesOf(config, route) : Covered(config, route, report, q)
               /\ ~ContractGap(config, s1) /\ ~Barrier(s1)
    BY <1>3 DEF Authorization
  <1>4. ASSUME config.tcol, NEW q \in CompetenciesOf(config, route)
        PROVE  \E s \in config.providers[q] :
                  /\ s \in report.exec
                  /\ HardGate(config, route, q) => s \in report.gate
    <2>1. Covered(config, route, report, q)
      BY <1>3, <1>4
    <2>2. CASE HardGate(config, route, q)
      BY <1>1, <2>1, <2>2 DEF Covered
    <2>3. CASE ~HardGate(config, route, q)
      BY <2>1, <2>3 DEF Covered
    <2> QED BY <2>2, <2>3
  <1>5. ASSUME config.tcol
        PROVE  /\ ~s1.ambiguous /\ ~s1.critical
               /\ s1.class \in config.objectiveClasses => s1.objective
    BY <1>3, <1>5 DEF ContractGap, Barrier
  <1> QED BY <1>1, <1>2, <1>4, <1>5 DEF Authorized

\* A step of a turn that keeps everything Authorized speaks of.
LEMMA SameGates ==
    ASSUME TurnInv, UNCHANGED <<booted, verdict, s1, route, report>>,
           pc \notin {"boot", "registry", "refused"},
           pc' \in {"run", "record", "done"},
           pc' \in {"run", "record"} \/ Downstream' # {} =>
               pc \in {"run", "record"} \/ Downstream # {}
    PROVE  TurnInv'
  BY DEF TurnInv, Authorized, config, booted

LEMMA NextTurnInv == TurnInv /\ [Next]_vars => TurnInv'
  <1> SUFFICES ASSUME TurnInv, [Next]_vars PROVE TurnInv'
    OBVIOUS
  <1>1. CASE Boot
    BY <1>1, BootedInv DEF Boot, booted
  <1>2. CASE BootRegistry
    BY <1>2, BootedInv DEF BootRegistry, TurnInv
  <1>3. CASE NewTurn
    BY <1>3, FreshTurn DEF NewTurn, TurnInv, booted
  <1>4. CASE PreScan
    BY <1>4 DEF PreScan, End, TurnInv, Authorized, Downstream, config, booted
  <1>5. CASE RunS1
    BY <1>5, NothingRan DEF RunS1, TurnInv, Downstream, config, booted
  <1>6. CASE Choose
    BY <1>6 DEF Choose, End, TurnInv, Authorized, Downstream, config, booted
  <1>7. CASE Assess
    <2>1. config.gateMaturities \subseteq config.execMaturities
      BY <1>7 DEF Assess, TurnInv, Checked
    <2>2. report'.gate \subseteq report'.exec
      BY <1>7, <2>1, GateReadyIsReady DEF Assess
    <2> QED BY <1>7, <2>2 DEF Assess, TurnInv, Downstream, config, booted
  <1>8. CASE Plan
    BY <1>8 DEF Plan, TurnInv, Downstream, config, booted
  <1>9. CASE Authorize
    BY <1>9, AuthorizeGates
       DEF Authorize, End, TurnInv, Authorized, Downstream, config, booted
  <1>10. CASE RunRequired
    BY <1>10, SameGates DEF RunRequired
  <1>11. CASE RunOptional
    BY <1>11, SameGates DEF RunOptional
  <1>12. CASE Verify
    BY <1>12, SameGates DEF Verify, End, Downstream
  <1>13. CASE Record
    BY <1>13, SameGates DEF Record, End, Downstream
  <1>14. CASE Fault
    BY <1>14, SameGates DEF Fault, End, Downstream
  <1>15. CASE Refused \/ UNCHANGED vars
    BY <1>15 DEF Refused, vars, turnvars, booted, TurnInv, Authorized, Downstream, config
  <1> QED BY <1>1, <1>2, <1>3, <1>4, <1>5, <1>6, <1>7, <1>8, <1>9, <1>10,
             <1>11, <1>12, <1>13, <1>14, <1>15 DEF Next

(***************************************************************************)
(* Fail closed (RuntimeKernel._execute_turn): a system beyond S1 runs only  *)
(* in a turn whose verdict, required systems, hard gates, competencies and *)
(* task the kernel has found in order, whatever the configuration.         *)
(***************************************************************************)
THEOREM TurnsFailClosed == Spec => []FailClosed
  <1>1. TurnInv => FailClosed
    BY DEF TurnInv, FailClosed, Authorized
  <1> QED BY InitTurnInv, NextTurnInv, <1>1, PTL DEF Spec

-----------------------------------------------------------------------------
Proved == INSTANCE SystemRegistryProofs
             WITH enabled <- config.enabled, depends <- config.depends

LEMMA BootsTheRegistry == Spec => Proved!Spec
  <1>1. Init => Proved!Init
    BY DEF Init, Registry!Init, Proved!Init
  <1>2. [Next]_vars => [Proved!Next]_(Proved!vars)
    <2> SUFFICES ASSUME [Next]_vars PROVE Proved!Next \/ UNCHANGED Proved!vars
      OBVIOUS
    <2>1. UNCHANGED booted => UNCHANGED Proved!vars
      BY DEF booted, config, Proved!vars, Proved!config
    <2>2. Registry!Next => Proved!Next
      BY DEF Registry!Next, Registry!Missing, Registry!VisitRoot, Registry!VisitDependency,
             Registry!Return, Registry!Resolved, Registry!Instantiate, Registry!HealthCheck,
             Registry!Visit, Registry!Visiting, Registry!Advanced, Registry!Frame,
             Registry!Top, Registry!config, Registry!ToSet, Registry!Last, Registry!Front,
             Proved!Next, Proved!Missing, Proved!VisitRoot, Proved!VisitDependency,
             Proved!Return, Proved!Resolved, Proved!Instantiate, Proved!HealthCheck,
             Proved!Visit, Proved!Visiting, Proved!Advanced, Proved!Frame,
             Proved!Top, Proved!config, Proved!ToSet, Proved!Last, Proved!Front
    <2>3. BootRegistry => Registry!Next
      BY DEF BootRegistry
    <2>4. ~BootRegistry => UNCHANGED booted
      BY DEF Next, vars, Boot, NewTurn, PreScan, RunS1, Choose, Assess, Plan, Authorize,
             RunRequired, RunOptional, Verify, Record, Fault, Refused
    <2> QED BY <2>1, <2>2, <2>3, <2>4
  <1> QED BY <1>1, <1>2, PTL DEF Spec, Proved!Spec

(***************************************************************************)
(* In every boot of every file the systems are initialised after their hard *)
(* dependencies: the theorem of the registry, for the kernel that boots it.  *)
(***************************************************************************)
THEOREM KernelBootsInOrder == Spec => []DependenciesFirst
  <1>1. Proved!DependenciesFirst => DependenciesFirst
    BY DEF DependenciesFirst, Registry!DependenciesFirst, Proved!DependenciesFirst,
           Registry!Hard, Proved!Hard, Registry!ToSet, Proved!ToSet,
           Registry!IsInjective, Proved!IsInjective
  <1> QED BY BootsTheRegistry, Proved!BootsInOrder, <1>1, PTL

(***************************************************************************)
(* And the kernel refuses a graph for a cycle only if there is one, and     *)
(* never starts the systems of one that has.                                *)
(***************************************************************************)
THEOREM KernelFindsCycles == Spec => []CycleIsReal
  <1>1. Proved!CycleIsReal => CycleIsReal
    BY DEF CycleIsReal, Registry!CycleIsReal, Proved!CycleIsReal,
           Registry!Cyclic, Proved!Cyclic, Registry!Hard, Proved!Hard,
           Registry!ToSet, Proved!ToSet
  <1> QED BY BootsTheRegistry, Proved!CyclesFound, <1>1, PTL

-----------------------------------------------------------------------------
(* The systems of a route, one after another.                              *)

LEMMA SetOfAppend ==
    ASSUME NEW S, NEW s \in Seq(S), NEW e \in S
    PROVE  /\ Append(s, e) \in Seq(S) /\ Len(Append(s, e)) = Len(s) + 1
           /\ ToSet(Append(s, e)) = ToSet(s) \cup {e}
           /\ \A i \in 1..Len(s) : Append(s, e)[i] = s[i]
           /\ Append(s, e)[Len(s) + 1] = e
  <1>1. /\ DOMAIN s = 1..Len(s) /\ Len(s) \in Nat
        /\ DOMAIN Append(s, e) = 1..(Len(s) + 1)
        /\ \A i \in 1..Len(s) : Append(s, e)[i] = s[i]
        /\ Append(s, e)[Len(s) + 1] = e
        /\ Append(s, e) \in Seq(S) /\ Len(Append(s, e)) = Len(s) + 1
    OBVIOUS
  <1>2. \A i \in 1..(Len(s) + 1) : i \in 1..Len(s) \/ i = Len(s) + 1
    BY <1>1
  <1>3. ToSet(s) \cup {e} \subseteq ToSet(Append(s, e))
    BY <1>1 DEF ToSet
  <1>4. ToSet(Append(s, e)) \subseteq ToSet(s) \cup {e}
    BY <1>1, <1>2 DEF ToSet
  <1> QED BY <1>1, <1>3, <1>4

LEMMA SetOfTail ==
    ASSUME NEW S, NEW s \in Seq(S), s # <<>>
    PROVE  /\ Tail(s) \in Seq(S) /\ Head(s) = s[1] /\ s[1] \in S
           /\ Len(s) \in Nat \ {0} /\ Len(Tail(s)) = Len(s) - 1
           /\ \A i \in 1..Len(Tail(s)) : Tail(s)[i] = s[i + 1]
           /\ ToSet(s) = ToSet(Tail(s)) \cup {s[1]}
  <1>1. /\ Len(s) \in Nat \ {0} /\ DOMAIN s = 1..Len(s) /\ Head(s) = s[1]
        /\ s[1] \in S /\ Len(Tail(s)) = Len(s) - 1
        /\ Tail(s) \in Seq(S) /\ DOMAIN Tail(s) = 1..(Len(s) - 1)
        /\ \A i \in 1..(Len(s) - 1) : Tail(s)[i] = s[i + 1]
    OBVIOUS
  <1>2. ToSet(Tail(s)) \cup {s[1]} \subseteq ToSet(s)
    BY <1>1 DEF ToSet
  <1>3. ASSUME NEW i \in 1..Len(s) PROVE s[i] \in ToSet(Tail(s)) \cup {s[1]}
    <2>1. CASE i = 1
      BY <2>1
    <2>2. CASE i # 1
      <3>1. i - 1 \in 1..(Len(s) - 1) /\ Tail(s)[i - 1] = s[i]
        BY <1>1, <2>2
      <3> QED BY <1>1, <3>1 DEF ToSet
    <2> QED BY <2>1, <2>2
  <1>4. ToSet(s) \subseteq ToSet(Tail(s)) \cup {s[1]}
    BY <1>1, <1>3 DEF ToSet
  <1> QED BY <1>1, <1>2, <1>4

LEMMA Single ==
    ASSUME NEW S, NEW e \in S PROVE <<e>> \in Seq(S)
  OBVIOUS

LEMMA SetOfOne ==
    /\ ToSet(<<>>) = {} /\ ToSet(<<"S1">>) = {"S1"}
    /\ <<"S1">> \in Seq(Plugins) /\ Len(<<"S1">>) = 1 /\ <<"S1">>[1] = "S1"
  <1>1. ToSet(<<>>) = {} /\ ToSet(<<"S1">>) = {"S1"}
    BY SMT DEF ToSet
  <1>2. <<"S1">> \in Seq(Plugins)
    BY TurnAssumption, Single
  <1>3. Len(<<"S1">>) = 1 /\ <<"S1">>[1] = "S1"
    OBVIOUS
  <1> QED BY <1>1, <1>2, <1>3

\* So many of the required systems have been passed.
Passed(list, left) == Len(list) - Len(left)

\* What has run while "left" is still to come: S1, then the required systems
\* that were passed, in their order, and, behind all of them, optional ones.
InOrder(list, options, left, done) ==
    /\ left \in Seq(Plugins) /\ Len(left) <= Len(list)
    /\ \A i \in 1..Len(left) : left[i] = list[Passed(list, left) + i]
    /\ done \in Seq(Plugins) /\ Len(done) >= 1 /\ done[1] = "S1"
    /\ \A i \in 2..Len(done) :
          \/ left = <<>> /\ done[i] \in options
          \/ done[i] # "S1" /\ \E a \in 1..Passed(list, left) : list[a] = done[i]
    /\ \A i, j \in 2..Len(done) : i < j /\ done[j] \in ToSet(list) \ {"S1"} =>
          ListedBefore(list, done[i], done[j])

(* The next required system runs.                                          *)
LEMMA RequiredInOrder ==
    ASSUME NEW list \in Seq(Plugins), NEW options, NEW left, NEW done,
           InOrder(list, options, left, done), left # <<>>, Head(left) # "S1"
    PROVE  InOrder(list, options, Tail(left), Append(done, Head(left)))
  <1>1. PICK rest : rest = Tail(left)
    OBVIOUS
  <1>2. PICK s : s = Head(left)
    OBVIOUS
  <1>3. PICK more : more = Append(done, s)
    OBVIOUS
  <1>4. PICK n : n = Passed(list, left)
    OBVIOUS
  <1>5. PICK m : m = Len(done)
    OBVIOUS
  <1>6. /\ left \in Seq(Plugins) /\ Len(left) <= Len(list) /\ done \in Seq(Plugins)
        /\ Len(done) >= 1 /\ done[1] = "S1"
        /\ \A i \in 1..Len(left) : left[i] = list[n + i]
    BY <1>4 DEF InOrder
  <1>7. /\ rest \in Seq(Plugins) /\ s = left[1] /\ s \in Plugins
        /\ Len(left) \in Nat \ {0} /\ Len(rest) = Len(left) - 1
        /\ \A i \in 1..Len(rest) : rest[i] = left[i + 1]
    BY <1>1, <1>2, <1>6, SetOfTail
  <1>8. /\ more \in Seq(Plugins) /\ Len(more) = m + 1 /\ m \in Nat
        /\ \A i \in 1..m : more[i] = done[i]
        /\ more[m + 1] = s
    BY <1>3, <1>5, <1>6, <1>7, SetOfAppend
  <1>9. Len(list) \in Nat /\ n \in Nat /\ Passed(list, rest) = n + 1 /\ n + 1 <= Len(list)
    BY <1>4, <1>6, <1>7 DEF Passed
  <1>10. list[n + 1] = s
    BY <1>6, <1>7
  <1>11. \A i \in 1..Len(rest) : rest[i] = list[Passed(list, rest) + i]
    <2> SUFFICES ASSUME NEW i \in 1..Len(rest) PROVE rest[i] = list[(n + 1) + i]
      BY <1>9
    <2>1. i + 1 \in 1..Len(left) /\ n + (i + 1) = (n + 1) + i
      BY <1>7, <1>9
    <2> QED BY <1>6, <1>7, <2>1
  <1>12. ASSUME NEW i \in 2..m
         PROVE  done[i] # "S1" /\ \E a \in 1..n : list[a] = done[i]
    <2>1. left # <<>>
      OBVIOUS
    <2> QED BY <1>4, <1>5, <1>12, <2>1 DEF InOrder
  <1>13. s # "S1" /\ n + 1 \in 1..(n + 1) /\ \A a \in 1..n : a \in 1..(n + 1)
    BY <1>2, <1>9
  <1>14. ASSUME NEW i \in 2..(m + 1)
         PROVE  more[i] # "S1" /\ \E a \in 1..(n + 1) : list[a] = more[i]
    <2>1. CASE i = m + 1
      BY <1>8, <1>10, <1>13, <2>1
    <2>2. CASE i # m + 1
      <3>1. i \in 2..m /\ i \in 1..m
        BY <1>8, <2>2
      <3> QED BY <1>8, <1>12, <1>13, <3>1
    <2> QED BY <2>1, <2>2
  <1>15. ASSUME NEW i \in 2..(m + 1), NEW j \in 2..(m + 1), i < j,
                more[j] \in ToSet(list) \ {"S1"}
         PROVE  ListedBefore(list, more[i], more[j])
    <2>1. i \in 2..m /\ i \in 1..m
      BY <1>8, <1>15
    <2>2. CASE j = m + 1
      <3>1. PICK a \in 1..n : list[a] = done[i]
        BY <1>12, <2>1
      <3>2. a \in DOMAIN list /\ n + 1 \in DOMAIN list /\ a < n + 1
        BY <1>9, <3>1
      <3> QED BY <1>8, <1>10, <2>1, <2>2, <3>1, <3>2 DEF ListedBefore
    <2>3. CASE j # m + 1
      <3>1. j \in 2..m /\ j \in 1..m
        BY <1>8, <2>3
      <3>2. more[i] = done[i] /\ more[j] = done[j]
        BY <1>8, <2>1, <3>1
      <3> QED BY <1>5, <1>15, <2>1, <3>1, <3>2 DEF InOrder
    <2> QED BY <2>2, <2>3
  <1>16. Len(rest) <= Len(list) /\ Len(more) >= 1 /\ more[1] = "S1"
    BY <1>5, <1>6, <1>7, <1>8, <1>9
  <1>17. InOrder(list, options, rest, more)
    BY <1>7, <1>8, <1>9, <1>11, <1>14, <1>15, <1>16 DEF InOrder
  <1> QED BY <1>1, <1>2, <1>3, <1>17

(* S1, which has run, is passed over.                                      *)
LEMMA FirstInOrder ==
    ASSUME NEW list \in Seq(Plugins), NEW options, NEW left, NEW done,
           InOrder(list, options, left, done), left # <<>>
    PROVE  InOrder(list, options, Tail(left), done)
  <1>1. PICK rest : rest = Tail(left)
    OBVIOUS
  <1>2. PICK n : n = Passed(list, left)
    OBVIOUS
  <1>3. /\ left \in Seq(Plugins) /\ Len(left) <= Len(list)
        /\ \A i \in 1..Len(left) : left[i] = list[n + i]
    BY <1>2 DEF InOrder
  <1>4. /\ rest \in Seq(Plugins)
        /\ Len(left) \in Nat \ {0} /\ Len(rest) = Len(left) - 1
        /\ \A i \in 1..Len(rest) : rest[i] = left[i + 1]
    BY <1>1, <1>3, SetOfTail
  <1>5. Len(list) \in Nat /\ n \in Nat /\ Passed(list, rest) = n + 1
    BY <1>2, <1>3, <1>4 DEF Passed
  <1>6. \A i \in 1..Len(rest) : rest[i] = list[Passed(list, rest) + i]
    <2> SUFFICES ASSUME NEW i \in 1..Len(rest) PROVE rest[i] = list[(n + 1) + i]
      BY <1>5
    <2>1. i + 1 \in 1..Len(left) /\ n + (i + 1) = (n + 1) + i
      BY <1>4, <1>5
    <2> QED BY <1>3, <1>4, <2>1
  <1>7. \A a \in 1..n : a \in 1..(n + 1)
    BY <1>5
  <1>8. \A i \in 2..Len(done) : done[i] # "S1" /\ \E a \in 1..(n + 1) : list[a] = done[i]
    BY <1>2, <1>7 DEF InOrder
  <1>9. InOrder(list, options, rest, done)
    BY <1>3, <1>4, <1>5, <1>6, <1>8 DEF InOrder
  <1> QED BY <1>1, <1>9

(* An optional system runs when no required one is left.                   *)
LEMMA OptionInOrder ==
    ASSUME NEW list \in Seq(Plugins), NEW options, NEW s \in options, NEW done,
           s \in Plugins, s \notin ToSet(list), InOrder(list, options, <<>>, done)
    PROVE  InOrder(list, options, <<>>, Append(done, s))
  <1>1. PICK more : more = Append(done, s)
    OBVIOUS
  <1>2. PICK m : m = Len(done)
    OBVIOUS
  <1>3. done \in Seq(Plugins) /\ Len(done) >= 1 /\ done[1] = "S1"
    BY DEF InOrder
  <1>4. /\ more \in Seq(Plugins) /\ Len(more) = m + 1 /\ m \in Nat
        /\ \A i \in 1..m : more[i] = done[i]
        /\ more[m + 1] = s
    BY <1>1, <1>2, <1>3, SetOfAppend
  <1>5. ASSUME NEW i \in 2..(m + 1)
        PROVE  \/ more[i] \in options
               \/ more[i] # "S1" /\ \E a \in 1..Passed(list, <<>>) : list[a] = more[i]
    <2>1. CASE i = m + 1
      BY <1>4, <2>1
    <2>2. CASE i # m + 1
      <3>1. i \in 2..m /\ i \in 1..m
        BY <1>4, <2>2
      <3> QED BY <1>2, <1>4, <3>1 DEF InOrder
    <2> QED BY <2>1, <2>2
  <1>6. ASSUME NEW i \in 2..(m + 1), NEW j \in 2..(m + 1), i < j,
               more[j] \in ToSet(list) \ {"S1"}
        PROVE  ListedBefore(list, more[i], more[j])
    <2>1. j # m + 1
      BY <1>4, <1>6
    <2>2. j \in 2..m /\ j \in 1..m /\ i \in 2..m /\ i \in 1..m
      BY <1>4, <1>6, <2>1
    <2>3. more[i] = done[i] /\ more[j] = done[j]
      BY <1>4, <2>2
    <2> QED BY <1>2, <1>6, <2>2, <2>3 DEF InOrder
  <1>7. Len(more) >= 1 /\ more[1] = "S1"
    BY <1>2, <1>3, <1>4
  <1>8. InOrder(list, options, <<>>, more)
    BY <1>4, <1>5, <1>6, <1>7 DEF InOrder
  <1> QED BY <1>1, <1>8

-----------------------------------------------------------------------------
(* What a route is, whoever made it.                                       *)

GoodRoute(r) ==
    /\ r.systems \in Seq(Plugins) /\ r.optional \in Seq(Plugins)
    /\ IsInjective(r.systems) /\ r.gates \subseteq ToSet(r.systems)
    /\ ToSet(r.systems) \cap ToSet(r.optional) = {}

LEMMA NoRouteGood == GoodRoute(NoRoute)
  BY SetOfOne DEF GoodRoute, NoRoute, IsInjective

(* The routes of a kernel without a table of routes.                       *)
LEMMA LegacyGood ==
    ASSUME NEW class, NEW decision
    PROVE  GoodRoute(Legacy(class, decision))
  <1> DEFINE a == <<"S1", "S2", "S5", "S7", "S8", "S9", "S13">>
             b == <<"S1", "S5", "S8", "S9">>
             c == <<"S1", "S2", "S6", "S7", "S8">>
             d == <<"S10">>
  <1>1. a \in Seq(Plugins) /\ b \in Seq(Plugins) /\ c \in Seq(Plugins) /\ d \in Seq(Plugins)
    BY TurnAssumption
  <1>2. ToSet(a) = {"S1", "S2", "S5", "S7", "S8", "S9", "S13"}
    BY SMT DEF ToSet
  <1>3. ToSet(b) = {"S1", "S5", "S8", "S9"} /\ ToSet(d) = {"S10"}
    BY SMT DEF ToSet
  <1>4. ToSet(c) = {"S1", "S2", "S6", "S7", "S8"}
    BY SMT DEF ToSet
  <1>5. IsInjective(a)
    BY SMT DEF IsInjective
  <1>6. IsInjective(b) /\ IsInjective(c)
    BY SMT DEF IsInjective
  <1>7. ToSet(<<>>) = {}
    BY SetOfOne
  <1> HIDE DEF a, b, c, d
  <1>8. CASE decision = "REVIEW"
    <2>1. /\ Legacy(class, decision).systems = a /\ Legacy(class, decision).optional = <<>>
          /\ Legacy(class, decision).gates = {"S8", "S13"}
      BY <1>8 DEF Legacy, a
    <2> QED BY <1>1, <1>2, <1>5, <1>7, <2>1 DEF GoodRoute
  <1>9. CASE decision # "REVIEW" /\ class \in {"creative", "artistic"}
    <2>1. /\ Legacy(class, decision).systems = b /\ Legacy(class, decision).optional = d
          /\ Legacy(class, decision).gates = {"S8"}
      BY <1>9 DEF Legacy, b, d
    <2> QED BY <1>1, <1>3, <1>6, <2>1 DEF GoodRoute
  <1>10. CASE decision # "REVIEW" /\ class \notin {"creative", "artistic"}
    <2>1. /\ Legacy(class, decision).systems = c /\ Legacy(class, decision).optional = <<>>
          /\ Legacy(class, decision).gates = {"S8"}
      BY <1>10 DEF Legacy, c
    <2> QED BY <1>1, <1>4, <1>6, <1>7, <2>1 DEF GoodRoute
  <1> QED BY <1>8, <1>9, <1>10

(* A list of members is a list of anything that has them.                  *)
LEMMA ListOf ==
    ASSUME NEW S, NEW s \in Seq(S), NEW T, ToSet(s) \subseteq T
    PROVE  s \in Seq(T)
  BY DEF ToSet

(* The boot check makes every declared route a good one.                   *)
LEMMA ChosenGood ==
    ASSUME NEW class, NEW decision, file \in DOMAIN Files, Checked(config),
           Routable(config, class, decision), ToSet(config.enabled) \subseteq Plugins
    PROVE  GoodRoute(Chosen(config, class, decision))
  <1>1. CASE ~Configured(config)
    BY <1>1, LegacyGood DEF Chosen
  <1>2. CASE Configured(config)
    <2>1. PICK k : k = RouteKey(config, class, decision)
      OBVIOUS
    <2>2. PICK r : r = config.routes[k]
      OBVIOUS
    <2>3. PICK chosen : chosen = Chosen(config, class, decision)
      OBVIOUS
    <2>4. k \in DOMAIN config.routes
      BY <1>2, <2>1 DEF Routable
    <2>5. r.systems \in Seq(STRING) /\ r.optional \in Seq(STRING)
      BY <2>2, <2>4, TurnAssumption DEF config
    <2>6. RouteOK(config, r)
      BY <1>2, <2>2, <2>4 DEF Checked
    <2>7. r.systems \in Seq(Plugins) /\ r.optional \in Seq(Plugins)
      BY <2>5, <2>6, ListOf DEF RouteOK
    <2>8. /\ chosen.systems = r.systems /\ chosen.optional = r.optional
          /\ chosen.gates = r.gates
      BY <1>2, <2>1, <2>2, <2>3 DEF Chosen
    <2>9. GoodRoute(chosen)
      BY <2>6, <2>7, <2>8 DEF GoodRoute, RouteOK
    <2> QED BY <2>3, <2>9
  <1> QED BY <1>1, <1>2

LEMMA RouteInPlugins ==
    ASSUME NEW r, GoodRoute(r)
    PROVE  /\ Requested(r) \subseteq Plugins /\ Required(r) \subseteq Plugins
           /\ ToSet(r.systems) \subseteq Plugins /\ ToSet(r.optional) \subseteq Plugins
  <1>1. ToSet(r.systems) \subseteq Plugins /\ ToSet(r.optional) \subseteq Plugins
    BY DEF GoodRoute, ToSet
  <1> QED BY <1>1, TurnAssumption DEF GoodRoute, Requested, Required

-----------------------------------------------------------------------------
(* The course of a turn.                                                   *)

\* What has run and what is still to come is the whole of a ready route.
Walk ==
    /\ RouteReady(route, report)
    /\ InOrder(route.systems, ToSet(route.optional) \cap report.exec, todo, ran)
    /\ extra \in Seq(Plugins) /\ ToSet(extra) \subseteq ToSet(route.optional)
    /\ ToSet(route.systems) \subseteq ToSet(todo) \cup ToSet(ran)
    /\ ToSet(route.optional) \cap report.exec \subseteq ToSet(extra) \cup ToSet(ran)

AllCovered ==
    config.tcol => \A q \in CompetenciesOf(config, route) :
                       Covered(config, route, report, q)

CodesTrue ==
    /\ outcome = "REVIEW_REQUIRED" => RouteReady(route, report) /\ AllCovered
    /\ outcome = "CAPABILITY_UNAVAILABLE" => ~(RouteReady(route, report) /\ AllCovered)

\* What a turn has decided and done, by where it is or how it has ended.
At(steps, ends) == pc \in steps \/ outcome \in ends

Course ==
    /\ TypeOK /\ GoodRoute(route) /\ ran \in Seq(Plugins)
    /\ pc # "done" => outcome = "none"
    /\ pc \notin {"boot", "registry", "refused"} => phase = "ready"
    /\ At({"boot", "registry", "refused", "scan", "s1"}, {"GOVERNANCE_REJECT"}) =>
          ran = <<>> /\ plan = NoPlan
    /\ pc \in {"boot", "registry", "refused", "scan", "s1", "route"} =>
          report = NoReport
    /\ At({"route", "assess", "plan", "authorize"},
          {"REVIEW_REQUIRED", "CAPABILITY_UNAVAILABLE"}) => ran = <<"S1">>
    /\ pc \in {"route", "assess", "plan"} => plan = NoPlan
    /\ plan # NoPlan => plan = Planned(route, report)
    /\ At({"run", "record"}, {"QESAE_REJECT", "recorded"}) => Walk
    /\ At({"record"}, {"QESAE_REJECT", "recorded"}) => todo = <<>> /\ extra = <<>>
    /\ At({"record"}, {"recorded"}) /\ "S13" \in route.gates => approved
    /\ outcome = "QESAE_REJECT" => "S13" \in route.gates
    /\ CodesTrue

Registered == phase = "ready" => ToSet(config.enabled) \subseteq Plugins

LEMMA InitCourse == Init => Course
  <1> SUFFICES ASSUME Init PROVE Course
    OBVIOUS
  <1>1. TypeOK
    BY SetOfOne DEF Init, TypeOK, NoReport, NoPlan, Rejections
  <1>2. GoodRoute(route) /\ ran \in Seq(Plugins)
    BY NoRouteGood DEF Init
  <1> QED BY <1>1, <1>2 DEF Init, Course, At, CodesTrue

\* A step that leaves alone what the turn has found and done.
Untouched == UNCHANGED <<file, verdict, s1, route, report, plan, todo, extra, ran, approved>>

LEMMA SameWalk ==
    ASSUME Untouched
    PROVE  /\ TypeOK /\ pc' \in {"boot", "registry", "refused", "scan", "s1", "route",
                           "assess", "plan", "authorize", "run", "record", "done"}
                     /\ outcome' \in {"none", "raised", "recorded"} \cup Rejections => TypeOK'
           /\ Walk => Walk'
           /\ outcome' = outcome /\ CodesTrue => CodesTrue'
           /\ Planned(route, report)' = Planned(route, report)
  BY DEF Untouched, TypeOK, Walk, AllCovered, CodesTrue, config

\* The two codes speak of the authorization only.
LEMMA OtherCode ==
    ASSUME outcome' \notin {"REVIEW_REQUIRED", "CAPABILITY_UNAVAILABLE"}
    PROVE  CodesTrue'
  BY DEF CodesTrue

LEMMA BootCourse ==
    ASSUME Course, Boot \/ BootRegistry
    PROVE  Course'
  <1>1. /\ Untouched /\ outcome' = outcome /\ pc \in {"boot", "registry"}
        /\ pc' \in {"registry", "refused", "scan"}
        /\ pc' \notin {"registry", "refused"} => phase' = "ready"
    BY DEF Boot, BootRegistry, Untouched, booted, turnvars
  <1> QED BY <1>1, SameWalk, OtherCode DEF Untouched, Course, At

LEMMA NewCourse ==
    ASSUME Course, NewTurn
    PROVE  Course'
  <1>1. /\ UNCHANGED <<file, phase>> /\ pc = "done" /\ Fresh("scan")
    BY DEF NewTurn, booted
  <1>2. TypeOK'
    BY <1>1, SetOfOne DEF Course, Fresh, TypeOK, NoReport, NoPlan, Rejections
  <1>3. GoodRoute(route') /\ ran' \in Seq(Plugins)
    BY <1>1, NoRouteGood DEF Fresh
  <1> QED BY <1>1, <1>2, <1>3, OtherCode DEF Course, Fresh, At

LEMMA ScanCourse ==
    ASSUME Course, PreScan
    PROVE  Course'
  <1>1. /\ UNCHANGED <<file, phase, s1, route, report, plan, todo, extra, ran, approved>>
        /\ pc = "scan" /\ verdict' \in {"BLOCK", "REVIEW", "PASS"}
        /\ \/ pc' = "done" /\ outcome' = "GOVERNANCE_REJECT"
           \/ pc' = "s1" /\ outcome' = outcome
    BY DEF PreScan, End, booted
  <1>2. TypeOK'
    BY <1>1 DEF Course, TypeOK, Rejections
  <1> QED BY <1>1, <1>2, OtherCode DEF Course, At

LEMMA FirstCourse ==
    ASSUME Course, RunS1
    PROVE  Course'
  <1>1. /\ UNCHANGED <<file, phase, verdict, route, report, plan, todo, extra, approved, outcome>>
        /\ pc = "s1" /\ pc' = "route" /\ ran' = <<"S1">>
    BY DEF RunS1, booted
  <1>2. TypeOK'
    BY <1>1, SetOfOne, TurnAssumption DEF Course, TypeOK
  <1> QED BY <1>1, <1>2, SetOfOne, OtherCode DEF Course, At

LEMMA ChooseCourse ==
    ASSUME Course, TurnInv, Registered, Choose
    PROVE  Course'
  <1>1. /\ UNCHANGED <<file, phase, verdict, s1, report, plan, todo, extra, ran, approved>>
        /\ pc = "route"
        /\ \/ pc' = "assess" /\ outcome' = outcome
           \/ pc' = "done" /\ outcome' = "raised"
    BY DEF Choose, End, booted
  <1>2. GoodRoute(route')
    <2>1. CASE Routable(config, s1.class, verdict)
      <3>1. route' = Chosen(config, s1.class, verdict)
        BY <2>1 DEF Choose
      <3>2. Checked(config) /\ file \in DOMAIN Files /\ ToSet(config.enabled) \subseteq Plugins
        BY <1>1 DEF Course, TurnInv, Registered, TypeOK
      <3> QED BY <2>1, <3>1, <3>2, ChosenGood
    <2>2. CASE ~Routable(config, s1.class, verdict)
      BY <2>2 DEF Choose, Course
    <2> QED BY <2>1, <2>2
  <1>3. TypeOK'
    BY <1>1 DEF Course, TypeOK, NoReport
  <1> QED BY <1>1, <1>2, <1>3, OtherCode DEF Course, At

LEMMA AssessCourse ==
    ASSUME Course, Assess
    PROVE  Course'
  <1>1. /\ UNCHANGED <<file, phase, verdict, s1, route, plan, todo, extra, ran, approved, outcome>>
        /\ pc = "assess" /\ pc' = "plan"
    BY DEF Assess, booted
  <1>2. report'.exec \cup report'.gate \subseteq Requested(route)
    BY DEF Assess, Reported
  <1>3. TypeOK'
    BY <1>1, <1>2 DEF Course, TypeOK
  <1> QED BY <1>1, <1>3, OtherCode DEF Course, At

LEMMA PlanCourse ==
    ASSUME Course, Plan
    PROVE  Course'
  <1>1. /\ UNCHANGED <<file, phase, verdict, s1, route, report, todo, extra, ran, approved, outcome>>
        /\ pc = "plan" /\ pc' = "authorize"
        /\ plan' \in {NoPlan, Planned(route, report)}
    BY DEF Plan, booted
  <1>2. plan'.ready \cup plan'.unavailable \subseteq Plugins
    <2>1. GoodRoute(route)
      BY DEF Course
    <2>2. Required(route) \cup ToSet(route.optional) \subseteq Plugins
      BY <2>1, RouteInPlugins
    <2>3. Planned(route, report).ready \cup Planned(route, report).unavailable \subseteq Plugins
      BY <2>2 DEF Planned
    <2> QED BY <1>1, <2>3 DEF NoPlan
  <1>3. TypeOK'
    BY <1>1, <1>2 DEF Course, TypeOK
  <1> QED BY <1>1, <1>3, OtherCode DEF Course, At

(* The authorization starts the walk, or ends the turn with a true code.   *)
LEMMA AuthorizeCourse ==
    ASSUME Course, Authorize
    PROVE  Course'
  <1>1. /\ UNCHANGED <<file, phase, verdict, s1, route, report, plan, ran, approved>>
        /\ pc = "authorize" /\ ran = <<"S1">> /\ outcome = "none" /\ GoodRoute(route)
    BY DEF Authorize, booted, Course, At
  <1>2. CASE /\ RouteReady(route, report)
             /\ Authorization(config, route, report, s1) = "AUTHORIZED"
    <2>1. pc' = "run" /\ todo' = route.systems /\ extra' = route.optional /\ outcome' = outcome
      BY <1>2 DEF Authorize
    <2>2. TypeOK'
      BY <1>1, <2>1 DEF Course, TypeOK
    <2>3. PICK list : list = route.systems
      OBVIOUS
    <2>4. PICK options : options = ToSet(route.optional) \cap report.exec
      OBVIOUS
    <2>5. list \in Seq(Plugins)
      BY <1>1, <2>3 DEF GoodRoute
    <2>6. InOrder(list, options, list, <<"S1">>)
      <3>1. Passed(list, list) = 0 /\ Len(list) \in Nat
        BY <2>5 DEF Passed
      <3> QED BY <2>5, <3>1, SetOfOne DEF InOrder
    <2>7. Walk'
      <3>1. /\ todo' = list /\ ran' = <<"S1">> /\ extra' = route.optional
            /\ route' = route /\ report' = report
        BY <1>1, <2>1, <2>3
      <3>2. extra' \in Seq(Plugins)
        BY <1>1, <3>1 DEF GoodRoute
      <3> QED BY <1>2, <2>3, <2>4, <2>6, <3>1, <3>2 DEF Walk
    <2> QED BY <1>1, <2>1, <2>2, <2>7, OtherCode DEF Course, At
  <1>3. CASE ~ (/\ RouteReady(route, report)
                /\ Authorization(config, route, report, s1) = "AUTHORIZED")
    <2>1. /\ pc' = "done" /\ UNCHANGED <<todo, extra>>
          /\ outcome' = IF \/ ~RouteReady(route, report)
                           \/ Authorization(config, route, report, s1) = "BLOCKED"
                        THEN "CAPABILITY_UNAVAILABLE" ELSE "REVIEW_REQUIRED"
      BY <1>3 DEF Authorize, End
    <2>2. Untouched
      BY <1>1, <2>1 DEF Untouched
    <2>3. TypeOK'
      BY <2>1, <2>2, SameWalk DEF Course, Rejections
    <2>4. AllCovered <=> Authorization(config, route, report, s1) # "BLOCKED"
      BY DEF AllCovered, Authorization
    <2>5. /\ outcome' = "REVIEW_REQUIRED" => RouteReady(route, report) /\ AllCovered
          /\ outcome' = "CAPABILITY_UNAVAILABLE" => ~(RouteReady(route, report) /\ AllCovered)
      <3>1. CASE \/ ~RouteReady(route, report)
                 \/ Authorization(config, route, report, s1) = "BLOCKED"
        <4>1. outcome' = "CAPABILITY_UNAVAILABLE"
          BY <2>1, <3>1
        <4>2. ~(RouteReady(route, report) /\ AllCovered)
          BY <2>4, <3>1
        <4> QED BY <4>1, <4>2
      <3>2. CASE ~(\/ ~RouteReady(route, report)
                   \/ Authorization(config, route, report, s1) = "BLOCKED")
        <4>1. outcome' = "REVIEW_REQUIRED"
          BY <2>1, <3>2
        <4>2. RouteReady(route, report) /\ AllCovered
          BY <2>4, <3>2
        <4> QED BY <4>1, <4>2
      <3> QED BY <3>1, <3>2
    <2>6. outcome' \in {"REVIEW_REQUIRED", "CAPABILITY_UNAVAILABLE"}
      BY <2>1
    <2>7. CodesTrue'
      BY <1>1, <2>5 DEF CodesTrue, AllCovered, config
    <2> QED BY <1>1, <2>1, <2>2, <2>3, <2>6, <2>7, SameWalk DEF Course, At
  <1> QED BY <1>2, <1>3

(* A required system runs, or S1 is passed over.                           *)
LEMMA RequiredCourse ==
    ASSUME Course, RunRequired
    PROVE  Course'
  <1>1. /\ UNCHANGED <<file, phase, verdict, s1, route, report, plan, extra, outcome, pc>>
        /\ pc = "run" /\ outcome = "none" /\ todo # <<>> /\ todo' = Tail(todo)
    BY DEF RunRequired, booted, Course
  <1>2. Walk /\ GoodRoute(route) /\ ran \in Seq(Plugins)
    BY <1>1 DEF Course, At
  <1>3. approved' \in BOOLEAN
    BY DEF RunRequired, Decided, Course, TypeOK
  <1>4. PICK list : list = route.systems
    OBVIOUS
  <1>5. PICK options : options = ToSet(route.optional) \cap report.exec
    OBVIOUS
  <1>6. PICK s : s = Head(todo)
    OBVIOUS
  <1>7. InOrder(list, options, todo, ran) /\ list \in Seq(Plugins) /\ todo \in Seq(Plugins)
    BY <1>2, <1>4, <1>5 DEF Walk, GoodRoute, InOrder
  <1>8. s \in Plugins /\ ToSet(todo) = ToSet(todo') \cup {s}
    BY <1>1, <1>6, <1>7, SetOfTail
  <1>9. /\ ran' \in Seq(Plugins) /\ InOrder(list, options, todo', ran')
        /\ ToSet(ran') \subseteq Plugins
        /\ ToSet(ran) \cup {s} \subseteq ToSet(ran')
    <2>1. CASE s = "S1"
      <3>1. ran' = ran
        BY <1>6, <2>1 DEF RunRequired
      <3>2. ran[1] = "S1" /\ Len(ran) >= 1
        BY <1>7 DEF InOrder
      <3>3. "S1" \in ToSet(ran) /\ ToSet(ran) \subseteq Plugins
        BY <1>2, <3>2 DEF ToSet
      <3>4. InOrder(list, options, Tail(todo), ran)
        BY <1>1, <1>7, FirstInOrder
      <3> QED BY <1>1, <1>2, <2>1, <3>1, <3>3, <3>4
    <2>2. CASE s # "S1"
      <3>1. ran' = Append(ran, s)
        BY <1>6, <2>2 DEF RunRequired
      <3>2. InOrder(list, options, Tail(todo), Append(ran, Head(todo)))
        BY <1>1, <1>6, <1>7, <2>2, RequiredInOrder
      <3>3. ran' \in Seq(Plugins) /\ ToSet(ran') = ToSet(ran) \cup {s}
        BY <1>2, <1>8, <3>1, SetOfAppend
      <3>4. ToSet(ran) \subseteq Plugins
        BY <1>2 DEF ToSet
      <3> QED BY <1>1, <1>6, <1>8, <3>1, <3>2, <3>3, <3>4
    <2> QED BY <2>1, <2>2
  <1>10. Walk'
    <2>1. /\ ToSet(list) \subseteq ToSet(todo) \cup ToSet(ran)
          /\ options \subseteq ToSet(extra) \cup ToSet(ran)
      BY <1>2, <1>4, <1>5 DEF Walk
    <2>2. /\ ToSet(list) \subseteq ToSet(todo') \cup ToSet(ran')
          /\ options \subseteq ToSet(extra) \cup ToSet(ran')
      BY <1>8, <1>9, <2>1
    <2> QED BY <1>1, <1>2, <1>4, <1>5, <1>9, <2>2 DEF Walk
  <1>11. TypeOK'
    BY <1>1, <1>3, <1>9 DEF Course, TypeOK
  <1> QED BY <1>1, <1>9, <1>10, <1>11, OtherCode DEF Course, At

(* An optional system runs if it is ready.                                 *)
LEMMA OptionalCourse ==
    ASSUME Course, RunOptional
    PROVE  Course'
  <1>1. /\ UNCHANGED <<file, phase, verdict, s1, route, report, plan, todo, outcome, pc>>
        /\ pc = "run" /\ outcome = "none" /\ todo = <<>>
        /\ extra # <<>> /\ extra' = Tail(extra)
    BY DEF RunOptional, booted, Course
  <1>2. Walk /\ GoodRoute(route) /\ ran \in Seq(Plugins) /\ extra \in Seq(Plugins)
    BY <1>1 DEF Course, At, Walk
  <1>3. approved' \in BOOLEAN
    BY DEF RunOptional, Decided, Course, TypeOK
  <1>4. PICK list : list = route.systems
    OBVIOUS
  <1>5. PICK options : options = ToSet(route.optional) \cap report.exec
    OBVIOUS
  <1>6. PICK s : s = Head(extra)
    OBVIOUS
  <1>7. InOrder(list, options, <<>>, ran) /\ list \in Seq(Plugins)
    BY <1>1, <1>2, <1>4, <1>5 DEF Walk, GoodRoute
  <1>8. /\ s \in Plugins /\ ToSet(extra) = ToSet(extra') \cup {s}
        /\ extra' \in Seq(Plugins)
    BY <1>1, <1>2, <1>6, SetOfTail
  <1>9. s \in ToSet(route.optional) /\ s \notin ToSet(list)
    BY <1>2, <1>4, <1>8 DEF Walk, GoodRoute
  <1>10. /\ ran' \in Seq(Plugins) /\ InOrder(list, options, <<>>, ran')
         /\ ToSet(ran') \subseteq Plugins
         /\ ToSet(ran) \subseteq ToSet(ran')
         /\ s \in options => s \in ToSet(ran')
    <2>1. CASE s \in report.exec
      <3>1. ran' = Append(ran, s)
        BY <1>6, <2>1 DEF RunOptional
      <3>2. s \in options
        BY <1>5, <1>9, <2>1
      <3>3. InOrder(list, options, <<>>, Append(ran, s))
        BY <1>7, <1>8, <1>9, <3>2, OptionInOrder
      <3>4. ran' \in Seq(Plugins) /\ ToSet(ran') = ToSet(ran) \cup {s}
        BY <1>2, <1>8, <3>1, SetOfAppend
      <3>5. ToSet(ran) \subseteq Plugins
        BY <1>2 DEF ToSet
      <3> QED BY <1>8, <3>1, <3>3, <3>4, <3>5
    <2>2. CASE s \notin report.exec
      <3>1. ran' = ran
        BY <1>6, <2>2 DEF RunOptional
      <3>2. s \notin options
        BY <1>5, <2>2
      <3>3. ToSet(ran) \subseteq Plugins
        BY <1>2 DEF ToSet
      <3> QED BY <1>2, <1>7, <3>1, <3>2, <3>3
    <2> QED BY <2>1, <2>2
  <1>11. Walk'
    <2>1. /\ ToSet(list) \subseteq ToSet(todo) \cup ToSet(ran)
          /\ options \subseteq ToSet(extra) \cup ToSet(ran)
      BY <1>2, <1>4, <1>5 DEF Walk
    <2>2. /\ ToSet(list) \subseteq ToSet(todo) \cup ToSet(ran')
          /\ options \subseteq ToSet(extra') \cup ToSet(ran')
      BY <1>8, <1>10, <2>1
    <2>3. ToSet(extra') \subseteq ToSet(route.optional)
      BY <1>2, <1>8 DEF Walk
    <2> QED BY <1>1, <1>2, <1>4, <1>5, <1>8, <1>10, <2>2, <2>3 DEF Walk
  <1>12. TypeOK'
    BY <1>1, <1>3, <1>10 DEF Course, TypeOK
  <1> QED BY <1>1, <1>10, <1>11, <1>12, OtherCode DEF Course, At

(* The S13 gate, the record, and an exception.                             *)
LEMMA EndCourse ==
    ASSUME Course, Verify \/ Record \/ Fault
    PROVE  Course'
  <1>1. /\ Untouched /\ phase' = phase /\ outcome = "none"
        /\ pc \notin {"boot", "registry", "refused", "done"}
    BY DEF Verify, Record, Fault, Untouched, booted, Course
  <1>2. CASE Verify
    <2>1. /\ pc = "run" /\ todo = <<>> /\ extra = <<>> /\ todo' = todo /\ extra' = extra
          /\ \/ /\ pc' = "done" /\ outcome' = "QESAE_REJECT" /\ "S13" \in route.gates
             \/ /\ pc' = "record" /\ outcome' = "none"
                /\ "S13" \in route.gates => approved
      BY <1>1, <1>2 DEF Verify, End
    <2>2. TypeOK' /\ Walk'
      BY <1>1, <2>1, SameWalk DEF Course, At, Rejections
    <2>3. route' = route /\ report' = report /\ ran' = ran /\ plan' = plan /\ approved' = approved
      BY <1>1 DEF Untouched
    <2> QED BY <1>1, <2>1, <2>2, <2>3, OtherCode DEF Course, At
  <1>3. CASE Record
    <2>1. /\ pc = "record" /\ pc' = "done" /\ outcome' = "recorded"
          /\ todo' = todo /\ extra' = extra
      BY <1>3 DEF Record, End
    <2>2. TypeOK' /\ Walk'
      BY <1>1, <2>1, SameWalk DEF Course, At
    <2>3. route' = route /\ report' = report /\ ran' = ran /\ plan' = plan /\ approved' = approved
      BY <1>1 DEF Untouched
    <2> QED BY <1>1, <2>1, <2>2, <2>3, OtherCode DEF Course, At
  <1>4. CASE Fault
    <2>1. pc' = "done" /\ outcome' = "raised"
      BY <1>4 DEF Fault, End
    <2>2. TypeOK'
      BY <1>1, <2>1, SameWalk DEF Course
    <2>3. route' = route /\ report' = report /\ ran' = ran /\ plan' = plan
      BY <1>1 DEF Untouched
    <2> QED BY <1>1, <2>1, <2>2, <2>3, OtherCode DEF Course, At
  <1> QED BY <1>2, <1>3, <1>4

LEMMA NextCourse ==
    Course /\ TurnInv /\ Registered /\ [Next]_vars => Course'
  <1> SUFFICES ASSUME Course, TurnInv, Registered, [Next]_vars PROVE Course'
    OBVIOUS
  <1>1. CASE Refused \/ UNCHANGED vars
    <2>1. /\ Untouched /\ phase' = phase /\ outcome' = outcome /\ pc' = pc
          /\ todo' = todo /\ extra' = extra
      BY <1>1 DEF Refused, vars, turnvars, booted, Untouched
    <2>2. TypeOK'
      BY <2>1, SameWalk DEF Course, TypeOK
    <2>3. route' = route /\ report' = report /\ ran' = ran /\ plan' = plan /\ approved' = approved
      BY <2>1 DEF Untouched
    <2> QED BY <2>1, <2>2, <2>3, SameWalk DEF Course, At
  <1> QED BY <1>1, BootCourse, NewCourse, ScanCourse, FirstCourse, ChooseCourse,
             AssessCourse, PlanCourse, AuthorizeCourse, RequiredCourse,
             OptionalCourse, EndCourse DEF Next

LEMMA AlwaysOnCourse == Spec => []Course
  <1>1. Proved!Spec => [](phase = "ready" => Proved!ToSet(config.enabled) \subseteq Plugins)
    BY Proved!ReadyIsRegistered
  <1>2. (phase = "ready" => Proved!ToSet(config.enabled) \subseteq Plugins) => Registered
    BY DEF Registered, Proved!ToSet, ToSet
  <1> QED BY InitCourse, NextCourse, InitTurnInv, NextTurnInv, BootsTheRegistry,
             <1>1, <1>2, PTL DEF Spec

(* The shapes of a turn's locals.                                          *)
THEOREM TypeCorrect == Spec => []TypeOK
  <1>1. Course => TypeOK
    BY DEF Course
  <1> QED BY AlwaysOnCourse, <1>1, PTL

(* When nothing is left of a walk, S1 and every required system have run.  *)
LEMMA WalkedThrough ==
    ASSUME Walk, GoodRoute(route), todo = <<>>, extra = <<>>, ran \in Seq(Plugins)
    PROVE  /\ ran[1] = "S1" /\ "S1" \in ToSet(ran)
           /\ ToSet(route.systems) \cup route.gates \subseteq ToSet(ran)
           /\ ToSet(route.optional) \cap report.exec \subseteq ToSet(ran)
           /\ \A i \in 2..Len(ran) :
                 \/ ran[i] \in ToSet(route.optional) \cap report.exec
                 \/ ran[i] \in ToSet(route.systems) \ {"S1"}
  <1>1. InOrder(route.systems, ToSet(route.optional) \cap report.exec, <<>>, ran)
    BY DEF Walk
  <1>2. ran[1] = "S1" /\ Len(ran) >= 1
    BY <1>1 DEF InOrder
  <1>3. "S1" \in ToSet(ran)
    BY <1>2 DEF ToSet
  <1>4. ToSet(todo) = {} /\ ToSet(extra) = {}
    BY SetOfOne
  <1>5. /\ ToSet(route.systems) \cup route.gates \subseteq ToSet(ran)
        /\ ToSet(route.optional) \cap report.exec \subseteq ToSet(ran)
    BY <1>4 DEF Walk, GoodRoute
  <1>6. PICK list : list = route.systems
    OBVIOUS
  <1>7. list \in Seq(Plugins) /\ Passed(list, <<>>) = Len(list)
    BY <1>6 DEF GoodRoute, Passed
  <1>8. \A a \in 1..Len(list) : list[a] \in ToSet(list)
    BY <1>7 DEF ToSet
  <1>9. \A i \in 2..Len(ran) :
            \/ ran[i] \in ToSet(route.optional) \cap report.exec
            \/ ran[i] # "S1" /\ \E a \in 1..Len(list) : list[a] = ran[i]
    BY <1>1, <1>6, <1>7 DEF InOrder
  <1> QED BY <1>2, <1>3, <1>5, <1>6, <1>8, <1>9

(***************************************************************************)
(* A recorded turn ran its whole route, in order and once, and S13 had      *)
(* approved where it is a hard gate (RuntimeKernel._execute_turn), for      *)
(* every configuration the boot check lets pass.                            *)
(***************************************************************************)
THEOREM RecordedTurnsWhole == Spec => []RecordedTurnIsWhole
  <1>1. Course => RecordedTurnIsWhole
    <2> SUFFICES ASSUME Course, outcome = "recorded" PROVE RecordedTurnIsWhole
      BY DEF RecordedTurnIsWhole
    <2>1. /\ Walk /\ GoodRoute(route) /\ todo = <<>> /\ extra = <<>> /\ ran \in Seq(Plugins)
          /\ "S13" \in route.gates => approved
      BY DEF Course, At
    <2>2. PICK list : list = route.systems
      OBVIOUS
    <2>3. PICK required : required = ToSet(list) \ {"S1"}
      OBVIOUS
    <2>4. ASSUME NEW i \in 2..Len(ran), NEW j \in 2..Len(ran), i < j, ran[j] \in required
          PROVE  ran[i] # ran[j] /\ ListedBefore(list, ran[i], ran[j])
      <3>1. ListedBefore(list, ran[i], ran[j])
        BY <2>1, <2>2, <2>3, <2>4 DEF Walk, InOrder
      <3>2. PICK a, b \in DOMAIN list : a < b /\ list[a] = ran[i] /\ list[b] = ran[j]
        BY <3>1 DEF ListedBefore
      <3>3. list \in Seq(Plugins) /\ IsInjective(list)
        BY <2>1, <2>2 DEF GoodRoute
      <3>4. a \in Nat /\ b \in Nat
        BY <3>3
      <3>5. ran[i] # ran[j]
        BY <3>2, <3>3, <3>4 DEF IsInjective
      <3> QED BY <3>1, <3>5
    <2>5. /\ ran[1] = "S1" /\ required \cup route.gates \subseteq ToSet(ran)
          /\ \A i \in 2..Len(ran) :
                ran[i] \in required \cup (ToSet(route.optional) \cap report.exec)
      BY <2>1, <2>2, <2>3, WalkedThrough
    <2> QED BY <2>1, <2>2, <2>3, <2>4, <2>5 DEF RecordedTurnIsWhole
  <1> QED BY AlwaysOnCourse, <1>1, PTL

(***************************************************************************)
(* The code of a rejection says how far the turn went and what was missing, *)
(* and only a turn that ran in full is rejected by S13.                     *)
(***************************************************************************)
THEOREM RejectionsTrue == Spec => []RejectionsTruthful
  <1>1. Course => RejectionsTruthful
    <2> SUFFICES ASSUME Course PROVE RejectionsTruthful
      OBVIOUS
    <2>1. outcome = "REVIEW_REQUIRED" =>
             RouteReady(route, report) /\ AllCovered /\ Downstream = {}
      BY NothingRan DEF Course, At, CodesTrue, Downstream
    <2>2. outcome = "CAPABILITY_UNAVAILABLE" =>
             ~(RouteReady(route, report) /\ AllCovered) /\ Downstream = {}
      BY NothingRan DEF Course, At, CodesTrue, Downstream
    <2>3. outcome = "GOVERNANCE_REJECT" => ran = <<>>
      BY DEF Course, At
    <2>4. outcome = "QESAE_REJECT" => {"S13"} \cup ToSet(route.systems) \subseteq ToSet(ran)
      <3> SUFFICES ASSUME outcome = "QESAE_REJECT"
                   PROVE  {"S13"} \cup ToSet(route.systems) \subseteq ToSet(ran)
        OBVIOUS
      <3>1. /\ Walk /\ GoodRoute(route) /\ todo = <<>> /\ extra = <<>>
            /\ ran \in Seq(Plugins) /\ "S13" \in route.gates
        BY DEF Course, At
      <3> QED BY <3>1, WalkedThrough
    <2> QED BY <2>1, <2>2, <2>3, <2>4 DEF RejectionsTruthful, AllCovered
  <1> QED BY AlwaysOnCourse, <1>1, PTL

(***************************************************************************)
(* The plan the systems of a turn are shown is the turn that happens        *)
(* (TaskCompetencyPlanner against RuntimeKernel._execute_turn).             *)
(***************************************************************************)
THEOREM PlansHold == Spec => []PlanIsTheTurn
  <1>1. Course /\ TurnInv => PlanIsTheTurn
    <2> SUFFICES ASSUME Course, TurnInv, plan # NoPlan PROVE PlanIsTheTurn
      BY DEF PlanIsTheTurn
    <2>1. /\ GoodRoute(route) /\ report.gate \subseteq report.exec
          /\ plan = Planned(route, report)
      BY DEF Course, TurnInv
    <2>2. PICK blocked : blocked = (route.gates \ report.gate) \cup (ToSet(route.systems) \ report.exec)
      OBVIOUS
    <2>3. PICK rows : rows = Required(route) \cup ToSet(route.optional)
      OBVIOUS
    <2>4. /\ plan.blockedBy = blocked
          /\ plan.ready = {s \in rows : Available(route, report, s)}
          /\ plan.unavailable = rows \ plan.ready
          /\ plan.disposition = "blocked" => blocked # {}
      BY <2>1, <2>2, <2>3 DEF Planned
    <2>5. plan.blockedBy \ {"S1"} \subseteq plan.unavailable
      BY <2>1, <2>2, <2>3, <2>4 DEF Available, GoodRoute, Required
    <2>6. ASSUME plan.disposition = "blocked"
          PROVE  Downstream = {} /\ outcome \in {"none", "raised", "CAPABILITY_UNAVAILABLE"}
      <3>1. ~RouteReady(route, report)
        BY <2>2, <2>4, <2>6 DEF RouteReady
      <3>2. Downstream = {}
        BY <3>1 DEF TurnInv, Authorized, RouteReady
      <3>3. outcome \notin {"QESAE_REJECT", "recorded", "REVIEW_REQUIRED", "GOVERNANCE_REJECT"}
        BY <3>1 DEF Course, At, Walk, CodesTrue
      <3> QED BY <3>2, <3>3 DEF Course, TypeOK, Rejections
    <2>7. ASSUME outcome = "recorded"
          PROVE  Downstream = plan.ready \ {"S1"}
      <3>1. /\ Walk /\ todo = <<>> /\ extra = <<>> /\ ran \in Seq(Plugins)
            /\ RouteReady(route, report)
        BY <2>7 DEF Course, At, Walk
      <3>2. PICK options : options = ToSet(route.optional) \cap report.exec
        OBVIOUS
      <3>3. ToSet(ran) = {"S1"} \cup ToSet(route.systems) \cup options
        <4>1. {"S1"} \cup ToSet(route.systems) \cup options \subseteq ToSet(ran)
          BY <2>1, <3>1, <3>2, WalkedThrough
        <4>2. ASSUME NEW i \in 1..Len(ran)
              PROVE  ran[i] \in {"S1"} \cup ToSet(route.systems) \cup options
          <5>1. Len(ran) \in Nat
            BY <3>1
          <5>2. i = 1 \/ i \in 2..Len(ran)
            BY <5>1
          <5> QED BY <2>1, <3>1, <3>2, <5>2, WalkedThrough
        <4>3. ToSet(ran) \subseteq {"S1"} \cup ToSet(route.systems) \cup options
          BY <3>1, <4>2 DEF ToSet
        <4> QED BY <4>1, <4>3
      <3>4. ASSUME NEW s, s # "S1"
            PROVE  s \in plan.ready <=> s \in ToSet(route.systems) \cup options
        <4>1. CASE s \in ToSet(route.systems)
          BY <2>3, <2>4, <3>1, <4>1 DEF Available, Required, RouteReady
        <4>2. CASE s \notin ToSet(route.systems)
          BY <2>3, <2>4, <3>2, <3>4, <4>2 DEF Available, Required
        <4> QED BY <4>1, <4>2
      <3> QED BY <3>3, <3>4 DEF Downstream
    <2> QED BY <2>5, <2>6, <2>7 DEF PlanIsTheTurn
  <1> QED BY AlwaysOnCourse, InitTurnInv, NextTurnInv, <1>1, PTL DEF Spec
===============================================================================
