------------------------ MODULE SystemRegistryProofs ------------------------
(***************************************************************************)
(* The registry boots every set of systems in an order that respects every *)
(* graph of hard dependencies, and refuses exactly the cyclic ones.         *)
(*                                                                         *)
(* The argument is about the frames of the search.  What a frame has passed *)
(* in its list of dependencies is in the order already, but for the one the *)
(* frame above it stands for; so a frame that returns has all its enabled   *)
(* dependencies before it.  From the frame of a system that is met again    *)
(* each frame leads to the next, and the last one back: these systems are   *)
(* a cycle.  And an order that grew in this way has no cycle among its      *)
(* members, for the newest of them would have to depend on a newer one.     *)
(***************************************************************************)
EXTENDS SystemRegistry, TLAPS

Enabled == ToSet(enabled)
Ordered == ToSet(order)

TypeInv ==
    /\ enabled \in Seq(STRING) /\ depends \in [Plugins -> Seq(STRING)]
    /\ phase \in {"resolve", "instantiate", "ready"} \cup Raised
    /\ roots \in Seq(Enabled)
    /\ stack \in Seq([system : Enabled, at : Nat \ {0}])
    /\ order \in Seq(Enabled) /\ started \in Seq(Enabled)
    /\ stack # <<>> \/ order # <<>> => Enabled \subseteq Plugins

\* Each frame is the dependency that the one below it has called.
Path ==
    \A i \in 1..(Len(stack) - 1) :
        /\ stack[i].at > 1 /\ stack[i].at - 1 <= Len(depends[stack[i].system])
        /\ depends[stack[i].system][stack[i].at - 1] = stack[i + 1].system

\* What a frame has passed is in the order, or is the frame above it.
Passed ==
    \A i \in DOMAIN stack : \A k \in 1..(stack[i].at - 1) :
        LET d == depends[stack[i].system][k]
        IN  \/ d \notin Enabled \/ d \in Ordered
            \/ i < Len(stack) /\ d = stack[i + 1].system

Apart ==
    /\ \A i, j \in DOMAIN stack : stack[i].system = stack[j].system => i = j
    /\ Visiting \cap Ordered = {}

Grounded ==
    /\ IsInjective(order)
    /\ \A i \in DOMAIN order : \A d \in Hard(order[i]) :
          \E j \in DOMAIN order : j < i /\ order[j] = d
    /\ \A C \in SUBSET Ordered : C # {} => \E s \in C : Hard(s) \cap C = {}

Complete == IF phase = "resolve" THEN Enabled \subseteq Ordered \cup Visiting \cup ToSet(roots)
            ELSE phase \in {"instantiate", "ready"} => Enabled \subseteq Ordered

Prefix ==
    /\ phase = "resolve" => started = <<>>
    /\ Len(started) <= Len(order)
    /\ \A i \in DOMAIN started : started[i] = order[i]
    /\ phase = "ready" => Len(started) = Len(order)

RegistryInv ==
    /\ TypeInv /\ Grounded /\ Complete /\ Prefix
    /\ phase = "resolve" => Path /\ Passed /\ Apart
    /\ phase = "cycle" => Cyclic

-----------------------------------------------------------------------------
\* Sequences

LEMMA SetOfAppend ==
    ASSUME NEW S, NEW s \in Seq(S), NEW e
    PROVE  /\ ToSet(Append(s, e)) = ToSet(s) \cup {e}
           /\ Len(Append(s, e)) = Len(s) + 1
           /\ \A i \in DOMAIN s : i \in DOMAIN Append(s, e) /\ Append(s, e)[i] = s[i]
           /\ Append(s, e)[Len(s) + 1] = e
  <1>1. /\ DOMAIN s = 1..Len(s) /\ Len(s) \in Nat
        /\ DOMAIN Append(s, e) = 1..(Len(s) + 1)
        /\ \A i \in 1..Len(s) : Append(s, e)[i] = s[i]
        /\ Append(s, e)[Len(s) + 1] = e
    OBVIOUS
  <1>2. \A i \in 1..(Len(s) + 1) : i \in 1..Len(s) \/ i = Len(s) + 1
    BY <1>1
  <1>3. ToSet(Append(s, e)) = ToSet(s) \cup {e}
    <2>1. ToSet(s) \cup {e} \subseteq ToSet(Append(s, e))
      BY <1>1 DEF ToSet
    <2>2. ToSet(Append(s, e)) \subseteq ToSet(s) \cup {e}
      BY <1>1, <1>2 DEF ToSet
    <2> QED BY <2>1, <2>2
  <1> QED BY <1>1, <1>3

LEMMA SetOfTail ==
    ASSUME NEW S, NEW s \in Seq(S), s # <<>>
    PROVE  /\ Tail(s) \in Seq(S) /\ Head(s) \in S
           /\ ToSet(s) = ToSet(Tail(s)) \cup {Head(s)}
  <1>1. /\ Len(s) \in Nat \ {0} /\ DOMAIN s = 1..Len(s) /\ Head(s) = s[1]
        /\ Tail(s) \in Seq(S) /\ DOMAIN Tail(s) = 1..(Len(s) - 1)
        /\ \A i \in 1..(Len(s) - 1) : Tail(s)[i] = s[i + 1]
    OBVIOUS
  <1>2. ToSet(Tail(s)) \cup {Head(s)} \subseteq ToSet(s)
    BY <1>1 DEF ToSet
  <1>3. ASSUME NEW i \in 1..Len(s) PROVE s[i] \in ToSet(Tail(s)) \cup {Head(s)}
    <2>1. CASE i = 1
      BY <1>1, <2>1
    <2>2. CASE i # 1
      <3>1. i - 1 \in 1..(Len(s) - 1) /\ Tail(s)[i - 1] = s[i]
        BY <1>1, <2>2
      <3> QED BY <1>1, <3>1 DEF ToSet
    <2> QED BY <2>1, <2>2
  <1>4. ToSet(s) \subseteq ToSet(Tail(s)) \cup {Head(s)}
    BY <1>1, <1>3 DEF ToSet
  <1> QED BY <1>1, <1>2, <1>4

LEMMA Members ==
    ASSUME NEW S, NEW s \in Seq(S)
    PROVE  /\ ToSet(s) \subseteq S /\ s \in Seq(ToSet(s))
           /\ DOMAIN s = 1..Len(s) /\ Len(s) \in Nat
           /\ \A i \in 1..Len(s) : s[i] \in S /\ s[i] \in ToSet(s)
  BY DEF ToSet

\* The systems of the frames.
LEMMA Systems ==
    ASSUME NEW st
    PROVE  {f.system : f \in ToSet(st)} = {st[i].system : i \in DOMAIN st}
  BY DEF ToSet

LEMMA Frames ==
    ASSUME TypeInv
    PROVE  /\ Visiting = {stack[i].system : i \in DOMAIN stack}
           /\ DOMAIN stack = 1..Len(stack) /\ Len(stack) \in Nat
           /\ \A i \in DOMAIN stack : /\ stack[i].system \in Enabled
                                      /\ stack[i].at \in Nat \ {0}
                                      /\ stack[i] = [system |-> stack[i].system,
                                                     at |-> stack[i].at]
  <1>1. stack \in Seq([system : Enabled, at : Nat \ {0}])
    BY DEF TypeInv
  <1>2. /\ DOMAIN stack = 1..Len(stack) /\ Len(stack) \in Nat
        /\ \A i \in 1..Len(stack) : stack[i] \in [system : Enabled, at : Nat \ {0}]
    BY <1>1, Members
  <1>3. Visiting = {stack[i].system : i \in DOMAIN stack}
    BY DEF Visiting, ToSet
  <1> QED BY <1>2, <1>3

-----------------------------------------------------------------------------
LEMMA InitRegistry == Init => RegistryInv
  <1> SUFFICES ASSUME Init PROVE RegistryInv
    OBVIOUS
  <1>1. enabled \in Seq(Enabled) /\ ToSet(<<>>) = {}
    BY Members DEF Init, Enabled, ToSet
  <1>2. TypeInv
    BY <1>1 DEF Init, TypeInv, Raised
  <1>3. Grounded
    BY <1>1 DEF Init, Grounded, Ordered, IsInjective
  <1>4. Complete /\ Prefix
    BY DEF Init, Complete, Prefix, Enabled
  <1>5. Path /\ Passed /\ Apart
    BY <1>1 DEF Init, Path, Passed, Apart, Visiting, Ordered
  <1>6. phase # "cycle"
    BY DEF Init
  <1> QED BY <1>2, <1>3, <1>4, <1>5, <1>6 DEF RegistryInv

LEMMA StillGrounded ==
    ASSUME Grounded, UNCHANGED <<config, order>>
    PROVE  Enabled' = Enabled /\ Ordered' = Ordered /\ Grounded'
  BY DEF config, Grounded, Enabled, Ordered, Hard

\* What no call of visit() touches.
LEMMA SameOrder ==
    ASSUME RegistryInv, UNCHANGED <<config, order, started>>,
           phase = "resolve", phase' \in {"resolve", "cycle"}
    PROVE  /\ Enabled' = Enabled /\ Ordered' = Ordered /\ Grounded' /\ Prefix'
           /\ Cyclic => Cyclic'
  <1>1. /\ enabled' = enabled /\ depends' = depends /\ order' = order
        /\ started' = started
    BY DEF config
  <1>2. Grounded'
    BY <1>1 DEF RegistryInv, Grounded, Ordered, Hard
  <1>3. Prefix'
    BY <1>1 DEF RegistryInv, Prefix
  <1> QED BY <1>1, <1>2, <1>3 DEF Enabled, Ordered, Cyclic, Hard

LEMMA RootInv ==
    ASSUME RegistryInv, VisitRoot
    PROVE  RegistryInv'
  <1> DEFINE s == Head(roots)
  <1>1. /\ UNCHANGED <<config, order, started>> /\ phase = "resolve"
        /\ phase' \in {"resolve", "cycle"} /\ roots' = Tail(roots)
        /\ stack = <<>> /\ roots # <<>> /\ Enabled \subseteq Plugins
    BY DEF VisitRoot, Visit, Enabled
  <1>2. /\ Enabled' = Enabled /\ Ordered' = Ordered /\ Grounded' /\ Prefix'
        /\ enabled' = enabled /\ depends' = depends /\ order' = order /\ started' = started
    BY <1>1, SameOrder DEF config
  <1>3. /\ TypeInv /\ roots \in Seq(Enabled) /\ roots' \in Seq(Enabled) /\ s \in Enabled
        /\ ToSet(roots) = ToSet(roots') \cup {s}
    BY <1>1, SetOfTail DEF RegistryInv, TypeInv
  <1>4. Visiting = {}
    BY <1>1 DEF Visiting, ToSet
  <1>5. Enabled \subseteq Ordered \cup {s} \cup ToSet(roots')
    BY <1>1, <1>3, <1>4 DEF RegistryInv, Complete
  <1>6. CASE s \in Ordered
    <2>1. stack' = <<>> /\ phase' = "resolve"
      BY <1>6 DEF VisitRoot, Visit, Ordered
    <2>2. TypeInv'
      BY <1>1, <1>2, <1>3, <2>1 DEF TypeInv
    <2>3. Complete'
      BY <1>2, <1>5, <1>6, <2>1 DEF Complete
    <2>4. Path' /\ Passed' /\ Apart'
      BY <2>1 DEF Path, Passed, Apart, Visiting, ToSet
    <2> QED BY <1>2, <2>1, <2>2, <2>3, <2>4 DEF RegistryInv
  <1>7. CASE s \notin Ordered
    <2>1. stack' = <<Frame(s)>> /\ phase' = "resolve"
      BY <1>4, <1>7 DEF VisitRoot, Visit, Ordered
    <2>2. /\ stack' \in Seq([system : Enabled, at : Nat \ {0}]) /\ Len(stack') = 1
          /\ DOMAIN stack' = {1} /\ stack'[1].system = s /\ stack'[1].at = 1
          /\ stack' # <<>>
      BY <1>3, <2>1 DEF Frame
    <2>3. Visiting' = {s}
      BY <2>2 DEF Visiting, ToSet
    <2>4. TypeInv'
      BY <1>1, <1>2, <1>3, <2>1, <2>2 DEF TypeInv
    <2>5. Complete'
      BY <1>2, <1>5, <2>1, <2>3 DEF Complete
    <2>6. Path'
      BY <2>2 DEF Path
    <2>7. Passed'
      BY <2>2 DEF Passed
    <2>8. Apart'
      BY <1>2, <1>7, <2>2, <2>3 DEF Apart
    <2> QED BY <1>2, <2>1, <2>4, <2>5, <2>6, <2>7, <2>8 DEF RegistryInv
  <1> QED BY <1>6, <1>7

\* A frame whose loop goes on.
LEMMA AdvancedFrames ==
    ASSUME TypeInv, stack # <<>>
    PROVE  /\ Advanced \in Seq([system : Enabled, at : Nat \ {0}])
           /\ Len(Advanced) = Len(stack) /\ Len(stack) \in Nat \ {0}
           /\ DOMAIN Advanced = DOMAIN stack /\ Top = stack[Len(stack)]
           /\ \A i \in DOMAIN stack :
                 /\ Advanced[i].system = stack[i].system
                 /\ Advanced[i].at = stack[i].at + (IF i = Len(stack) THEN 1 ELSE 0)
  <1> DEFINE F == [system : Enabled, at : Nat \ {0}]
             n == Len(stack)
             f == [system |-> stack[n].system, at |-> stack[n].at + 1]
  <1>1. stack \in Seq(F) /\ DOMAIN stack = 1..n /\ n \in Nat
    BY Members DEF TypeInv
  <1>2. n \in Nat \ {0}
    <2> HIDE DEF F
    <2> QED BY <1>1
  <1>3. \A i \in 1..n : /\ stack[i].system \in Enabled /\ stack[i].at \in Nat \ {0}
                       /\ stack[i] = [system |-> stack[i].system, at |-> stack[i].at]
    BY <1>1, Frames
  <1>4. f \in F
    <2>1. n \in 1..n
      BY <1>2
    <2>2. stack[n].system \in Enabled /\ stack[n].at \in Nat \ {0}
      <3> HIDE DEF n
      <3> QED BY <1>3, <2>1
    <2>3. stack[n].at + 1 \in Nat \ {0}
      <3> DEFINE a == stack[n].at
      <3>1. a \in Nat
        BY <2>2
      <3> HIDE DEF a
      <3>2. a + 1 \in Nat \ {0}
        BY <3>1
      <3> QED BY <3>2 DEF a
    <2> QED BY <2>2, <2>3
  <1>5. Advanced = [stack EXCEPT ![n] = f]
    <2>1. stack[n] = [system |-> stack[n].system, at |-> stack[n].at]
      BY <1>2, <1>3
    <2>2. [stack[n] EXCEPT !.at = @ + 1] = f
      BY <2>1
    <2>3. Advanced = [stack EXCEPT ![n] = [stack[n] EXCEPT !.at = @ + 1]]
      BY DEF Advanced
    <2> QED BY <2>2, <2>3
  <1>6. /\ [stack EXCEPT ![n] = f] \in Seq(F) /\ Len([stack EXCEPT ![n] = f]) = n
        /\ DOMAIN [stack EXCEPT ![n] = f] = 1..n
        /\ \A i \in 1..n : [stack EXCEPT ![n] = f][i] = IF i = n THEN f ELSE stack[i]
    <2> HIDE DEF F, f
    <2> QED BY <1>1, <1>2, <1>4
  <1>7. \A i \in 1..n : Advanced[i] = IF i = n THEN f ELSE stack[i]
    BY <1>5, <1>6
  <1>8. Top = stack[n]
    BY DEF Top, Last
  <1>9. ASSUME NEW i \in 1..n
        PROVE  /\ Advanced[i].system = stack[i].system
               /\ Advanced[i].at = stack[i].at + (IF i = n THEN 1 ELSE 0)
    <2>1. CASE i = n
      <3>1. Advanced[i] = f
        BY <1>7, <2>1
      <3> QED BY <2>1, <3>1
    <2>2. CASE i # n
      <3>1. Advanced[i] = stack[i] /\ stack[i].at \in Nat
        BY <1>3, <1>7, <2>2
      <3> QED BY <2>2, <3>1
    <2> QED BY <2>1, <2>2
  <1> QED BY <1>1, <1>2, <1>5, <1>6, <1>8, <1>9

LEMMA Between ==
    ASSUME NEW n \in Nat, NEW m \in 1..n, NEW i \in m..n
    PROVE  /\ i \in 1..n
           /\ i # n => i \in 1..(n - 1) /\ i + 1 \in m..n /\ i + 1 \in 1..n
  OBVIOUS

LEMMA UpTo ==
    ASSUME NEW n \in Nat \ {0}
    PROVE  /\ n \in 1..n /\ 1..(n - 1) \subseteq 1..n
           /\ \A i \in 1..(n - 1) : i \in 1..n /\ i # n /\ i + 1 \in 1..n
  OBVIOUS

\* The systems from the frame of d up to the top, which depends on d.
LEMMA MetAgain ==
    ASSUME RegistryInv, phase = "resolve", stack # <<>>, Enabled \subseteq Plugins,
           NEW d \in Visiting, d \in Hard(Top.system)
    PROVE  Cyclic
  <1> DEFINE n == Len(stack)
  <1>1. TypeInv /\ Path
    BY DEF RegistryInv
  <1>2. /\ DOMAIN stack = 1..n /\ n \in Nat \ {0} /\ Top = stack[n]
        /\ \A i \in 1..n : stack[i].system \in Enabled /\ stack[i].at \in Nat \ {0}
        /\ Visiting = {stack[i].system : i \in 1..n}
    BY <1>1, Frames, AdvancedFrames
  <1>3. PICK m \in 1..n : stack[m].system = d
    BY <1>2
  <1> DEFINE C == {stack[i].system : i \in m..n}
  <1>4. m..n \subseteq 1..n /\ m \in m..n /\ n \in m..n
    BY <1>2, <1>3
  <1>5. C \subseteq Enabled /\ d \in C
    BY <1>2, <1>3, <1>4
  <1>6. ASSUME NEW i \in m..n PROVE Hard(stack[i].system) \cap C # {}
    <2>1. CASE i = n
      BY <1>2, <1>5, <2>1
    <2>2. CASE i # n
      <3>1. i \in 1..(n - 1) /\ i \in 1..n /\ i + 1 \in m..n /\ i + 1 \in 1..n
        BY <1>2, <2>2, Between
      <3> DEFINE s == stack[i].system
                 k == stack[i].at - 1
      <3>2. s \in Plugins /\ k \in Nat \ {0} /\ k <= Len(depends[s])
            /\ depends[s][k] = stack[i + 1].system
        BY <1>1, <1>2, <3>1 DEF Path
      <3>3. depends[s] \in Seq(STRING)
        BY <1>1, <3>2 DEF TypeInv
      <3>4. depends[s][k] \in ToSet(depends[s])
        <4> HIDE DEF s, k
        <4>1. k \in 1..Len(depends[s])
          BY <3>2, <3>3
        <4> QED BY <3>3, <4>1, Members
      <3>5. stack[i + 1].system \in Hard(s)
        BY <1>2, <3>1, <3>2, <3>4 DEF Hard, Enabled
      <3>6. stack[i + 1].system \in C
        BY <3>1
      <3> QED BY <3>5, <3>6
    <2> QED BY <2>1, <2>2
  <1>7. \A s \in C : Hard(s) \cap C # {}
    BY <1>6
  <1> QED BY <1>5, <1>7 DEF Cyclic, Enabled

LEMMA DependencyInv ==
    ASSUME RegistryInv, VisitDependency
    PROVE  RegistryInv'
  <1> DEFINE n == Len(stack)
             top == stack[n]
             d == depends[top.system][top.at]
  <1>1. /\ TypeInv /\ Path /\ Passed /\ Apart /\ Complete
        /\ phase = "resolve" /\ stack # <<>> /\ roots' = roots
    BY DEF VisitDependency, RegistryInv
  <1>2. /\ Advanced \in Seq([system : Enabled, at : Nat \ {0}])
        /\ Len(Advanced) = n /\ n \in Nat \ {0} /\ DOMAIN stack = 1..n
        /\ DOMAIN Advanced = DOMAIN stack /\ Top = top
        /\ \A i \in 1..n :
              /\ Advanced[i].system = stack[i].system
              /\ Advanced[i].at = stack[i].at + (IF i = n THEN 1 ELSE 0)
              /\ stack[i].system \in Enabled /\ stack[i].at \in Nat \ {0}
        /\ Visiting = {stack[i].system : i \in 1..n}
    BY <1>1, AdvancedFrames, Frames
  <1>3. /\ Enabled \subseteq Plugins /\ top.system \in Enabled
        /\ top.at \in Nat \ {0} /\ top.at <= Len(depends[top.system])
        /\ depends[top.system] \in Seq(STRING)
    <2>1. n \in 1..n
      BY <1>2, UpTo
    <2>2. top.system \in Enabled /\ top.at \in Nat \ {0}
      <3> HIDE DEF n
      <3> QED BY <1>2, <2>1
    <2>3. Enabled \subseteq Plugins
      BY <1>1 DEF TypeInv
    <2>4. Top.at <= Len(depends[Top.system])
      BY DEF VisitDependency
    <2> QED BY <1>1, <1>2, <2>2, <2>3, <2>4 DEF TypeInv
  <1>4. /\ d \in STRING /\ d \in ToSet(depends[top.system])
        /\ d \in Enabled => d \in Hard(Top.system)
    <2>1. top.at \in 1..Len(depends[top.system])
      BY <1>3
    <2>2. d \in STRING /\ d \in ToSet(depends[top.system])
      <3> HIDE DEF top
      <3> QED BY <1>3, <2>1, Members
    <2> QED BY <1>2, <2>2 DEF Hard, Enabled
  <1>5. /\ UNCHANGED <<config, order, started>>
        /\ IF d \notin Enabled \/ d \in Ordered THEN stack' = Advanced /\ phase' = phase
           ELSE IF d \in Visiting THEN stack' = Advanced /\ phase' = "cycle"
           ELSE stack' = Append(Advanced, Frame(d)) /\ phase' = phase
    BY <1>1, <1>2 DEF VisitDependency, Visit, Enabled, Ordered
  <1>6. /\ Enabled' = Enabled /\ Ordered' = Ordered /\ Grounded' /\ Prefix'
        /\ enabled' = enabled /\ depends' = depends /\ order' = order /\ started' = started
        /\ Cyclic => Cyclic'
    BY <1>1, <1>5, SameOrder DEF config
  <1>7. /\ \A i \in 1..(n - 1) : Advanced[i].at = stack[i].at
        /\ Advanced[n].at = top.at + 1
        /\ 1..(n - 1) \subseteq 1..n /\ n \in 1..n
    <2>1. n \in 1..n /\ \A i \in 1..(n - 1) : i \in 1..n /\ i # n
      BY <1>2, UpTo
    <2>2. ASSUME NEW i \in 1..(n - 1) PROVE Advanced[i].at = stack[i].at
      <3>1. Advanced[i].at = stack[i].at + 0 /\ stack[i].at \in Nat
        <4> HIDE DEF n
        <4> QED BY <1>2, <2>1, <2>2
      <3> QED BY <3>1
    <2>3. Advanced[n].at = top.at + 1
      <3> HIDE DEF n
      <3> QED BY <1>2, <2>1 DEF top
    <2> QED BY <2>1, <2>2, <2>3
  \* what the top has passed: all of it is in the order, up to d
  <1>8. \A k \in 1..(top.at - 1) : \/ depends[top.system][k] \notin Enabled
                                  \/ depends[top.system][k] \in Ordered
    BY <1>1, <1>2, <1>7 DEF Passed
  <1> DEFINE F == [system : Enabled, at : Nat \ {0}]
  <1>12. n \in Nat \ {0} /\ Len(stack) = n /\ stack[n] = top
    BY <1>2
  <1>13. /\ n \in 1..n /\ n + 1 \in 1..(n + 1) /\ n < n + 1 /\ n + 1 - 1 = n
         /\ \A i \in 1..(n - 1) : i \in 1..n /\ i # n /\ i + 1 \in 1..n /\ i < n /\ i < n + 1
         /\ \A i \in 1..n : (i = n \/ i \in 1..(n - 1)) /\ i \in 1..(n + 1) /\ i # n + 1
         /\ \A i \in 1..(n + 1) : i \in 1..n \/ i = n + 1
    <2> HIDE DEF n
    <2> QED BY <1>12
  <1>14. d = depends[top.system][top.at] /\ Advanced \in Seq(F)
    BY <1>2
  <1> HIDE DEF n, top, d, F
  <1>9. CASE d \notin Enabled \/ d \in Ordered
    <2>1. stack' = Advanced /\ phase' = "resolve"
      BY <1>1, <1>5, <1>9
    <2>2. TypeInv'
      <3>1. stack' # <<>>
        BY <1>2, <2>1
      <3> QED BY <1>1, <1>2, <1>3, <1>6, <2>1, <3>1 DEF TypeInv
    <2>3. Visiting' = Visiting
      <3>1. Visiting' = {stack'[i].system : i \in DOMAIN stack'}
        BY Systems DEF Visiting
      <3> QED BY <1>2, <2>1, <3>1
    <2>4. Complete'
      BY <1>1, <1>6, <2>1, <2>3 DEF Complete
    <2>5. Path'
      <3> SUFFICES ASSUME NEW i \in 1..(n - 1)
                   PROVE  /\ Advanced[i].at > 1
                          /\ Advanced[i].at - 1 <= Len(depends[Advanced[i].system])
                          /\ depends[Advanced[i].system][Advanced[i].at - 1] = Advanced[i + 1].system
        BY <1>2, <1>6, <1>12, <2>1 DEF Path
      <3>1. /\ Advanced[i].system = stack[i].system /\ Advanced[i].at = stack[i].at
            /\ Advanced[i + 1].system = stack[i + 1].system
        BY <1>2, <1>7, <1>13
      <3> QED BY <1>1, <1>12, <3>1 DEF Path
    <2>6. Passed'
      <3> SUFFICES ASSUME NEW i \in 1..n, NEW k \in 1..(Advanced[i].at - 1)
                   PROVE  LET e == depends[stack[i].system][k]
                          IN  \/ e \notin Enabled \/ e \in Ordered
                              \/ i < n /\ e = Advanced[i + 1].system
        BY <1>2, <1>6, <1>12, <2>1 DEF Passed
      <3>1. CASE i = n
        <4>1. k \in 1..(top.at - 1) \/ k = top.at
          BY <1>3, <1>7, <3>1
        <4> QED BY <1>8, <1>9, <1>12, <1>14, <3>1, <4>1
      <3>2. CASE i \in 1..(n - 1)
        <4>1. i \in 1..n /\ i + 1 \in 1..n /\ i < n
          BY <1>13, <3>2
        <4>2. k \in 1..(stack[i].at - 1) /\ Advanced[i + 1].system = stack[i + 1].system
          BY <1>2, <1>7, <3>2, <4>1
        <4> QED BY <1>1, <1>2, <1>12, <4>1, <4>2 DEF Passed
      <3> QED BY <1>13, <3>1, <3>2
    <2>7. Apart'
      BY <1>1, <1>2, <1>6, <2>1, <2>3 DEF Apart
    <2> QED BY <1>6, <2>1, <2>2, <2>4, <2>5, <2>6, <2>7 DEF RegistryInv
  <1>10. CASE d \in Enabled /\ d \notin Ordered /\ d \in Visiting
    <2>1. stack' = Advanced /\ phase' = "cycle"
      BY <1>5, <1>10
    <2>2. Cyclic
      BY <1>1, <1>3, <1>4, <1>10, MetAgain
    <2>3. TypeInv'
      <3>1. stack' # <<>>
        BY <1>2, <2>1
      <3> QED BY <1>1, <1>2, <1>3, <1>6, <2>1, <3>1 DEF TypeInv, Raised
    <2>4. Complete'
      BY <2>1 DEF Complete
    <2> QED BY <1>6, <2>1, <2>2, <2>3, <2>4 DEF RegistryInv
  <1>11. CASE d \in Enabled /\ d \notin Ordered /\ d \notin Visiting
    <2>1. stack' = Append(Advanced, Frame(d)) /\ phase' = "resolve"
      BY <1>1, <1>5, <1>11
    <2>2. Frame(d) \in [system : Enabled, at : Nat \ {0}]
          /\ Frame(d).system = d /\ Frame(d).at = 1
      BY <1>11 DEF Frame
    <2>3. /\ Len(stack') = n + 1 /\ DOMAIN stack' = 1..(n + 1)
          /\ stack' \in Seq([system : Enabled, at : Nat \ {0}]) /\ stack' # <<>>
          /\ \A i \in 1..n : stack'[i] = Advanced[i]
          /\ stack'[n + 1] = Frame(d)
          /\ ToSet(stack') = ToSet(Advanced) \cup {Frame(d)}
      <3>1. /\ Advanced \in Seq(F) /\ Frame(d) \in F
            /\ Len(Advanced) = n /\ DOMAIN Advanced = 1..n
        BY <1>2, <1>12, <1>14, <2>2 DEF F
      <3>2. /\ Append(Advanced, Frame(d)) \in Seq(F)
            /\ DOMAIN Append(Advanced, Frame(d)) = 1..(n + 1)
            /\ Append(Advanced, Frame(d)) # <<>>
        BY <1>12, <3>1
      <3>3. /\ ToSet(stack') = ToSet(Advanced) \cup {Frame(d)}
            /\ Len(stack') = n + 1 /\ stack'[n + 1] = Frame(d)
            /\ \A i \in 1..n : stack'[i] = Advanced[i]
        BY <2>1, <3>1, SetOfAppend
      <3> QED BY <2>1, <3>2, <3>3 DEF F
    <2>4. TypeInv'
      BY <1>1, <1>2, <1>3, <1>6, <2>1, <2>3 DEF TypeInv
    <2>5. Visiting' = Visiting \cup {d}
      <3>1. Visiting' = {stack'[i].system : i \in 1..(n + 1)}
        BY <2>3, Systems DEF Visiting
      <3>2. \A i \in 1..n : stack'[i].system = stack[i].system
        BY <1>2, <1>12, <2>3
      <3> QED BY <1>2, <1>12, <1>13, <2>2, <2>3, <3>1, <3>2
    <2>6. Complete'
      BY <1>1, <1>6, <2>1, <2>5 DEF Complete
    <2>7. Path'
      <3> SUFFICES ASSUME NEW i \in 1..n
                   PROVE  /\ stack'[i].at > 1 /\ stack'[i].at - 1 <= Len(depends[stack'[i].system])
                          /\ depends[stack'[i].system][stack'[i].at - 1] = stack'[i + 1].system
        <4>1. Len(stack') - 1 = n
          BY <1>13, <2>3
        <4> QED BY <1>6, <4>1 DEF Path
      <3>1. CASE i = n
        <4>1. /\ stack'[i].system = top.system /\ stack'[i].at = top.at + 1
              /\ stack'[i + 1].system = d
          BY <1>2, <1>7, <1>12, <1>13, <2>2, <2>3, <3>1
        <4>2. stack'[i].at - 1 = top.at /\ stack'[i].at > 1
          BY <1>3, <4>1
        <4> QED BY <1>3, <1>14, <4>1, <4>2
      <3>2. CASE i \in 1..(n - 1)
        <4>1. i \in 1..n /\ i + 1 \in 1..n
          BY <1>13, <3>2
        <4>2. /\ stack'[i].system = stack[i].system /\ stack'[i].at = stack[i].at
              /\ stack'[i + 1].system = stack[i + 1].system
          BY <1>2, <1>7, <2>3, <3>2, <4>1
        <4> QED BY <1>1, <1>12, <3>2, <4>2 DEF Path
      <3> QED BY <1>13, <3>1, <3>2
    <2>8. Passed'
      <3> SUFFICES ASSUME NEW i \in 1..(n + 1), NEW k \in 1..(stack'[i].at - 1)
                   PROVE  LET e == depends[stack'[i].system][k]
                          IN  \/ e \notin Enabled \/ e \in Ordered
                              \/ i < n + 1 /\ e = stack'[i + 1].system
        BY <1>6, <2>3 DEF Passed
      <3>1. CASE i = n + 1
        BY <2>2, <2>3, <3>1
      <3>2. CASE i = n
        <4>1. /\ stack'[i].system = top.system /\ stack'[i].at = top.at + 1
              /\ stack'[i + 1].system = d /\ i < n + 1
          BY <1>2, <1>7, <1>12, <1>13, <2>2, <2>3, <3>2
        <4>2. k \in 1..(top.at - 1) \/ k = top.at
          BY <1>3, <4>1
        <4> QED BY <1>8, <1>14, <4>1, <4>2
      <3>3. CASE i \in 1..(n - 1)
        <4>1. i \in 1..n /\ i + 1 \in 1..n /\ i < n /\ i < n + 1
          BY <1>13, <3>3
        <4>2. /\ stack'[i].system = stack[i].system /\ stack'[i].at = stack[i].at
              /\ stack'[i + 1].system = stack[i + 1].system
          BY <1>2, <1>7, <2>3, <3>3, <4>1
        <4> QED BY <1>1, <1>2, <1>12, <4>1, <4>2 DEF Passed
      <3> QED BY <1>13, <3>1, <3>2, <3>3
    <2>9. Apart'
      <3>1. \A i \in 1..n : stack'[i].system = stack[i].system /\ stack'[i].system \in Visiting
        BY <1>2, <2>3
      <3>2. \A i, j \in 1..n : stack[i].system = stack[j].system => i = j
        BY <1>1, <1>2 DEF Apart
      <3>3. stack'[n + 1].system = d
        BY <2>2, <2>3
      <3>4. \A i, j \in 1..(n + 1) : stack'[i].system = stack'[j].system => i = j
        BY <1>11, <1>13, <3>1, <3>2, <3>3
      <3> QED BY <1>1, <1>6, <1>11, <2>3, <2>5, <3>4 DEF Apart
    <2> QED BY <1>6, <2>1, <2>4, <2>6, <2>7, <2>8, <2>9 DEF RegistryInv
  <1> QED BY <1>9, <1>10, <1>11

-----------------------------------------------------------------------------
\* An order that grows by a system whose dependencies it holds.
LEMMA GrowsGrounded ==
    ASSUME TypeInv, Grounded, NEW s \in Enabled, s \notin Ordered, Hard(s) \subseteq Ordered,
           order' = Append(order, s), UNCHANGED config
    PROVE  Grounded' /\ Ordered' = Ordered \cup {s}
  <1> DEFINE m == Len(order)
  <1>1. order \in Seq(Enabled) /\ DOMAIN order = 1..m /\ m \in Nat
    BY Members DEF TypeInv
  <1>2. /\ DOMAIN order' = 1..(m + 1) /\ order'[m + 1] = s
        /\ \A i \in 1..m : order'[i] = order[i] /\ order[i] \in Ordered
        /\ Ordered' = Ordered \cup {s}
    <2>1. DOMAIN Append(order, s) = 1..(m + 1)
      BY <1>1
    <2> QED BY <1>1, <2>1, SetOfAppend, Members DEF Ordered
  <1>3. enabled' = enabled /\ depends' = depends
    BY DEF config
  <1>4. m \in Nat /\ \A i \in 1..(m + 1) : (i \in 1..m /\ i < m + 1) \/ i = m + 1
    BY <1>1
  <1>5. 1..m \subseteq 1..(m + 1)
    BY <1>4
  <1> HIDE DEF m
  <1>6. IsInjective(order)'
    <2>1. \A i, j \in 1..m : order[i] = order[j] => i = j
      BY <1>1 DEF Grounded, IsInjective
    <2>2. \A i, j \in 1..(m + 1) : order'[i] = order'[j] => i = j
      BY <1>2, <1>4, <2>1
    <2> QED BY <1>2, <2>2 DEF IsInjective
  <1>7. ASSUME NEW i \in 1..(m + 1), NEW d \in Hard(order'[i])
        PROVE  \E j \in 1..(m + 1) : j < i /\ order'[j] = d
    <2>1. CASE i \in 1..m
      <3>1. PICK j \in 1..m : j < i /\ order[j] = d
        BY <1>1, <1>2, <1>7, <2>1 DEF Grounded
      <3> QED BY <1>2, <1>5, <3>1
    <2>2. CASE i = m + 1
      <3>1. d \in Ordered
        BY <1>2, <1>7, <2>2
      <3>2. PICK j \in 1..m : order[j] = d
        BY <1>1, <3>1 DEF Ordered, ToSet
      <3> QED BY <1>2, <1>4, <1>5, <2>2, <3>2
    <2> QED BY <1>4, <2>1, <2>2
  <1>8. ASSUME NEW C \in SUBSET (Ordered \cup {s}), C # {}
        PROVE  \E t \in C : Hard(t) \cap C = {}
    <2> DEFINE D == C \ {s}
    <2>1. CASE D = {}
      BY <1>8, <2>1
    <2>2. CASE D # {}
      <3>1. PICK t \in D : Hard(t) \cap D = {}
        BY <2>2 DEF Grounded
      <3>2. t \in Ordered
        OBVIOUS
      <3>3. Hard(t) \subseteq Ordered
        <4>1. PICK i \in 1..m : order[i] = t
          BY <1>1, <3>2 DEF Ordered, ToSet
        <4> QED BY <1>1, <1>2, <4>1 DEF Grounded
      <3> QED BY <3>1, <3>3
    <2> QED BY <2>1, <2>2
  <1>9. (\A i \in DOMAIN order : \A d \in Hard(order[i]) :
            \E j \in DOMAIN order : j < i /\ order[j] = d)'
    <2>1. \A t : Hard(t) = ToSet(depends'[t]) \cap ToSet(enabled')
      BY <1>3 DEF Hard
    <2>2. \A i \in 1..(m + 1) : \A d \in ToSet(depends'[order'[i]]) \cap ToSet(enabled') :
             \E j \in 1..(m + 1) : j < i /\ order'[j] = d
      BY <1>7, <2>1
    <2>3. \A i \in DOMAIN order' : \A d \in ToSet(depends'[order'[i]]) \cap ToSet(enabled') :
             \E j \in DOMAIN order' : j < i /\ order'[j] = d
      <3>1. DOMAIN order' = 1..(m + 1)
        BY <1>2
      <3> SUFFICES ASSUME NEW i \in DOMAIN order',
                          NEW d \in ToSet(depends'[order'[i]]) \cap ToSet(enabled')
                   PROVE  \E j \in DOMAIN order' : j < i /\ order'[j] = d
        OBVIOUS
      <3>2. i \in 1..(m + 1)
        BY <3>1
      <3>3. PICK j \in 1..(m + 1) : j < i /\ order'[j] = d
        BY <2>2, <3>2
      <3> QED BY <3>1, <3>3
    <2> QED BY <2>3, Zenon DEF Hard
  <1>10. (\A C \in SUBSET Ordered : C # {} => \E t \in C : Hard(t) \cap C = {})'
    BY <1>2, <1>3, <1>8 DEF Hard
  <1> QED BY <1>2, <1>6, <1>9, <1>10 DEF Grounded

LEMMA ReturnInv ==
    ASSUME RegistryInv, Return
    PROVE  RegistryInv'
  <1> DEFINE n == Len(stack)
             top == stack[n]
             F == [system : Enabled, at : Nat \ {0}]
  <1>1. /\ TypeInv /\ Path /\ Passed /\ Apart /\ Complete /\ Grounded /\ Prefix
        /\ phase = "resolve" /\ phase' = "resolve" /\ stack # <<>>
        /\ UNCHANGED <<config, roots, started>>
        /\ enabled' = enabled /\ depends' = depends /\ Enabled' = Enabled
    BY DEF Return, RegistryInv, config, Enabled
  <1>2. /\ n \in Nat \ {0} /\ DOMAIN stack = 1..n /\ Top = top
        /\ \A i \in 1..n : stack[i].system \in Enabled
        /\ Visiting = {stack[i].system : i \in 1..n}
        /\ stack \in Seq(F) /\ Len(stack) = n /\ top.at \in Nat \ {0}
    <2>1. n \in Nat \ {0} /\ DOMAIN stack = 1..n /\ Top = top
      BY <1>1, AdvancedFrames, Frames
    <2>2. n \in 1..n
      BY <2>1, UpTo
    <2>3. top.at \in Nat \ {0}
      <3> HIDE DEF n
      <3> QED BY <1>1, <2>1, <2>2, Frames
    <2> QED BY <1>1, <2>1, <2>3, Frames DEF TypeInv
  <1>3. /\ stack' = SubSeq(stack, 1, n - 1) /\ order' = Append(order, top.system)
        /\ top.at > Len(depends[top.system])
    BY <1>2 DEF Return, Front
  <1> HIDE DEF n, top, F
  <1>4. /\ n \in 1..n /\ n - 1 \in Nat
        /\ \A i \in 1..(n - 1) : i \in 1..n /\ i # n /\ i + 1 \in 1..n /\ i < n
        /\ \A i \in 1..n : i = n \/ i \in 1..(n - 1)
        /\ \A i \in 1..(n - 2) : i \in 1..(n - 1) /\ i + 1 \in 1..(n - 1)
        /\ \A i \in 1..(n - 1) : i < n - 1 \/ (i = n - 1 /\ i + 1 = n)
        /\ n - 1 - 1 = n - 2
    BY <1>2
  <1>5. /\ stack' \in Seq(F) /\ Len(stack') = n - 1 /\ DOMAIN stack' = 1..(n - 1)
        /\ \A i \in 1..(n - 1) : stack'[i] = stack[i]
    BY <1>2, <1>3, <1>4
  <1>6. top = stack[n] /\ top.system \in Enabled /\ top.system \in Visiting
    BY <1>2, <1>4 DEF n, top
  <1>7. top.system \notin Ordered
    BY <1>1, <1>6 DEF Apart
  <1>8. Hard(top.system) \subseteq Ordered
    <2> SUFFICES ASSUME NEW d \in Hard(top.system) PROVE d \in Ordered
      OBVIOUS
    <2>1. depends[top.system] \in Seq(STRING) /\ d \in Enabled
      BY <1>1, <1>6 DEF TypeInv, Hard, Enabled
    <2>2. PICK k \in DOMAIN depends[top.system] : depends[top.system][k] = d
      BY DEF Hard, ToSet
    <2>3. k \in 1..(top.at - 1)
      <3>1. k \in 1..Len(depends[top.system]) /\ Len(depends[top.system]) \in Nat
        BY <2>1, <2>2
      <3> QED BY <1>2, <1>3, <3>1
    <2>4. ~(n < Len(stack))
      BY <1>2
    <2> QED BY <1>1, <1>2, <1>4, <1>6, <2>1, <2>2, <2>3, <2>4 DEF Passed
  <1>9. Grounded' /\ Ordered' = Ordered \cup {top.system}
    BY <1>1, <1>3, <1>6, <1>7, <1>8, GrowsGrounded
  <1>10. /\ Visiting' = {stack[i].system : i \in 1..(n - 1)}
         /\ Visiting = Visiting' \cup {top.system}
    <2>1. Visiting' = {stack'[i].system : i \in 1..(n - 1)}
      BY <1>5, Systems DEF Visiting
    <2> QED BY <1>2, <1>4, <1>5, <1>6, <2>1
  <1>11. TypeInv'
    <2>1. order' \in Seq(Enabled) /\ Enabled \subseteq Plugins
      BY <1>1, <1>3, <1>6 DEF TypeInv
    <2> QED BY <1>1, <1>5, <2>1 DEF TypeInv, F
  <1>12. Complete'
    BY <1>1, <1>9, <1>10 DEF Complete
  <1>13. Prefix'
    <2>1. started' = <<>>
      BY <1>1 DEF Prefix
    <2>2. Len(order') \in Nat
      BY <1>11, Members DEF TypeInv
    <2> QED BY <1>1, <2>1, <2>2 DEF Prefix
  <1>14. Path'
    <2>1. \A i \in 1..(n - 2) : stack'[i] = stack[i] /\ stack'[i + 1] = stack[i + 1]
      BY <1>4, <1>5
    <2>2. Len(stack) - 1 = n - 1 /\ Len(stack') - 1 = n - 2
      BY <1>2, <1>4, <1>5
    <2>3. \A i \in 1..(n - 2) : i \in 1..(n - 1)
      BY <1>4
    <2> QED BY <1>1, <2>1, <2>2, <2>3 DEF Path
  <1>15. Passed'
    <2> SUFFICES ASSUME NEW i \in 1..(n - 1), NEW k \in 1..(stack[i].at - 1)
                 PROVE  LET e == depends[stack[i].system][k]
                        IN  \/ e \notin Enabled \/ e \in Ordered'
                            \/ i < n - 1 /\ e = stack'[i + 1].system
      BY <1>1, <1>5 DEF Passed
    <2> DEFINE e == depends[stack[i].system][k]
    <2>1. e \notin Enabled \/ e \in Ordered \/ e = stack[i + 1].system
      BY <1>1, <1>2, <1>4 DEF Passed
    <2>2. CASE i < n - 1
      <3>1. i \in 1..(n - 2)
        BY <1>2, <2>2
      <3> QED BY <1>4, <1>5, <1>9, <2>1, <2>2, <3>1
    <2>3. CASE i = n - 1 /\ i + 1 = n
      BY <1>6, <1>9, <2>1, <2>3
    <2> QED BY <1>4, <2>2, <2>3
  <1>16. Apart'
    <2>1. \A i, j \in 1..n : stack[i].system = stack[j].system => i = j
      BY <1>1, <1>2 DEF Apart
    <2>2. \A i, j \in 1..(n - 1) : stack'[i].system = stack'[j].system => i = j
      BY <1>4, <1>5, <2>1
    <2>3. top.system \notin Visiting'
      BY <1>4, <1>6, <1>10, <2>1
    <2>4. (Visiting \cap Ordered = {}) /\ Visiting' \cap Ordered' = {}
      BY <1>1, <1>9, <1>10, <2>3 DEF Apart
    <2> QED BY <1>5, <2>2, <2>4 DEF Apart
  <1> QED BY <1>1, <1>9, <1>11, <1>12, <1>13, <1>14, <1>15, <1>16 DEF RegistryInv

LEMMA NextRegistry == RegistryInv /\ [Next]_vars => RegistryInv'
  <1> SUFFICES ASSUME RegistryInv, [Next]_vars PROVE RegistryInv'
    OBVIOUS
  <1>1. CASE Missing
    <2>1. UNCHANGED <<config, roots, stack, order, started>> /\ phase' = "unregistered"
          /\ phase = "resolve"
      BY <1>1 DEF Missing
    <2>2. Grounded' /\ Enabled' = Enabled /\ Ordered' = Ordered
      BY <2>1, StillGrounded DEF RegistryInv
    <2>3. TypeInv' /\ Prefix'
      BY <2>1, <2>2 DEF RegistryInv, TypeInv, Prefix, config, Raised
    <2>4. Complete' /\ phase' # "resolve" /\ phase' # "cycle"
      BY <2>1 DEF Complete
    <2> QED BY <2>2, <2>3, <2>4 DEF RegistryInv
  <1>2. CASE VisitRoot
    BY <1>2, RootInv
  <1>3. CASE VisitDependency
    BY <1>3, DependencyInv
  <1>4. CASE Return
    BY <1>4, ReturnInv
  <1>5. CASE Resolved
    <2>1. /\ UNCHANGED <<config, roots, stack, order, started>> /\ phase' = "instantiate"
          /\ phase = "resolve" /\ stack = <<>> /\ roots = <<>>
      BY <1>5 DEF Resolved
    <2>2. Visiting = {} /\ ToSet(roots) = {}
      BY <2>1 DEF Visiting, ToSet
    <2>3. Grounded' /\ Enabled' = Enabled /\ Ordered' = Ordered
      BY <2>1, StillGrounded DEF RegistryInv
    <2>4. TypeInv' /\ Prefix'
      BY <2>1, <2>3 DEF RegistryInv, TypeInv, Prefix, config
    <2>5. Complete' /\ phase' # "resolve" /\ phase' # "cycle"
      BY <2>1, <2>2, <2>3 DEF RegistryInv, Complete
    <2> QED BY <2>3, <2>4, <2>5 DEF RegistryInv
  <1>6. CASE Instantiate
    <2>1. /\ UNCHANGED <<config, roots, stack, order>> /\ phase = "instantiate"
          /\ Len(started) < Len(order)
          /\ \/ started' = Append(started, order[Len(started) + 1]) /\ phase' = phase
             \/ phase' = "not_initialised" /\ started' = started
      BY <1>6 DEF Instantiate
    <2>2. TypeInv /\ Prefix /\ order \in Seq(Enabled) /\ started \in Seq(Enabled)
      BY DEF RegistryInv, TypeInv
    <2>3. /\ Len(started) \in Nat /\ Len(order) \in Nat
          /\ DOMAIN started = 1..Len(started) /\ DOMAIN order = 1..Len(order)
      BY <2>2, Members
    <2>4. Len(started) + 1 \in 1..Len(order)
      BY <2>1, <2>3
    <2>5. order[Len(started) + 1] \in Enabled
      BY <2>2, <2>4, Members
    <2>6. started' \in Seq(Enabled) /\ Prefix'
      <3>1. CASE started' = started /\ phase' = "not_initialised"
        BY <2>1, <2>2, <3>1 DEF Prefix
      <3>2. CASE started' = Append(started, order[Len(started) + 1]) /\ phase' = phase
        <4>1. /\ started' \in Seq(Enabled) /\ Len(started') = Len(started) + 1
              /\ DOMAIN started' = 1..(Len(started) + 1)
              /\ \A i \in 1..Len(started) : started'[i] = started[i]
              /\ started'[Len(started) + 1] = order[Len(started) + 1]
          BY <2>2, <2>3, <2>5, <3>2
        <4>2. \A i \in 1..(Len(started) + 1) : i \in 1..Len(started) \/ i = Len(started) + 1
          BY <2>3
        <4>3. Len(started) + 1 <= Len(order)
          BY <2>4
        <4> QED BY <2>1, <2>2, <2>3, <3>2, <4>1, <4>2, <4>3 DEF Prefix
      <3> QED BY <2>1, <3>1, <3>2
    <2>7. Grounded' /\ Enabled' = Enabled /\ Ordered' = Ordered
      BY <2>1, StillGrounded DEF RegistryInv
    <2>8. TypeInv'
      BY <2>1, <2>2, <2>6, <2>7 DEF TypeInv, config, Raised
    <2>9. Complete' /\ phase' # "resolve" /\ phase' # "cycle"
      BY <2>1, <2>7 DEF RegistryInv, Complete
    <2> QED BY <2>6, <2>7, <2>8, <2>9 DEF RegistryInv
  <1>7. CASE HealthCheck
    <2>1. /\ UNCHANGED <<config, roots, stack, order, started>> /\ phase = "instantiate"
          /\ phase' \in {"ready", "unhealthy"} /\ Len(started) = Len(order)
      BY <1>7 DEF HealthCheck
    <2> QED BY <2>1 DEF config, RegistryInv, TypeInv, Grounded, Complete, Prefix,
                        Enabled, Ordered, Hard, Raised
  <1>8. CASE UNCHANGED vars
    <2>1. UNCHANGED <<config, phase, roots, stack, order, started>>
      BY <1>8 DEF vars
    <2>2. Grounded' /\ Enabled' = Enabled /\ Ordered' = Ordered /\ Visiting' = Visiting
      BY <2>1, StillGrounded DEF RegistryInv, Visiting
    <2>3. TypeInv' /\ Prefix' /\ Complete'
      BY <2>1, <2>2 DEF RegistryInv, TypeInv, Prefix, Complete, config
    <2>4. (Path => Path') /\ (Passed => Passed') /\ (Apart => Apart')
      BY <2>1, <2>2 DEF Path, Passed, Apart, config
    <2>5. Cyclic => Cyclic'
      BY <2>1 DEF Cyclic, Hard, config
    <2> QED BY <2>1, <2>2, <2>3, <2>4, <2>5 DEF RegistryInv
  <1> QED BY <1>1, <1>2, <1>3, <1>4, <1>5, <1>6, <1>7, <1>8 DEF Next

(***************************************************************************)
(* Whatever the classes declare, a system is initialised after every       *)
(* enabled one it depends on, no system twice, and none is missing from a   *)
(* registry that is ready (SystemRegistry.resolve, instantiate).            *)
(***************************************************************************)
THEOREM BootsInOrder == Spec => []DependenciesFirst
  <1>1. RegistryInv => DependenciesFirst
    <2> SUFFICES ASSUME RegistryInv PROVE DependenciesFirst
      OBVIOUS
    <2>1. /\ TypeInv /\ Grounded /\ Prefix /\ Complete
          /\ order \in Seq(Enabled) /\ started \in Seq(Enabled)
      BY DEF RegistryInv, TypeInv
    <2>2. /\ Len(started) \in Nat /\ Len(order) \in Nat
          /\ DOMAIN started = 1..Len(started) /\ DOMAIN order = 1..Len(order)
          /\ ToSet(started) \subseteq Enabled
      BY <2>1, Members
    <2>3. /\ Len(started) <= Len(order) /\ \A i \in 1..Len(started) : started[i] = order[i]
          /\ phase = "ready" => Len(started) = Len(order)
      BY <2>1, <2>2 DEF Prefix
    <2>4. \A i \in 1..Len(started) : /\ i \in 1..Len(order)
                                    /\ \A j \in 1..Len(order) : j < i => j \in 1..Len(started)
      <3> DEFINE a == Len(started)
                 b == Len(order)
      <3>1. a \in Nat /\ b \in Nat /\ a <= b
        BY <2>2, <2>3
      <3> HIDE DEF a, b
      <3>2. \A i \in 1..a : i \in 1..b /\ \A j \in 1..b : j < i => j \in 1..a
        BY <3>1
      <3> QED BY <3>2 DEF a, b
    <2>5. \A i \in DOMAIN started : \A d \in Hard(started[i]) :
             \E j \in DOMAIN started : j < i /\ started[j] = d
      BY <2>1, <2>2, <2>3, <2>4 DEF Grounded
    <2>6. IsInjective(started)
      BY <2>1, <2>2, <2>3, <2>4 DEF Grounded, IsInjective
    <2>7. phase = "ready" => ToSet(started) = Enabled
      <3>1. phase = "ready" => ToSet(started) = ToSet(order)
        BY <2>2, <2>3 DEF ToSet
      <3>2. phase = "ready" => Enabled \subseteq ToSet(order)
        BY <2>1 DEF Complete, Ordered
      <3> QED BY <2>2, <3>1, <3>2
    <2> QED BY <2>5, <2>6, <2>7 DEF DependenciesFirst, Enabled
  <1> QED BY InitRegistry, NextRegistry, <1>1, PTL DEF Spec

(***************************************************************************)
(* A registry that is ready has a class for every enabled system            *)
(* (SystemRegistry.resolve looks for the missing ones first).               *)
(***************************************************************************)
THEOREM ReadyIsRegistered ==
    Spec => [](phase = "ready" => ToSet(enabled) \subseteq Plugins)
  <1>1. RegistryInv => (phase = "ready" => ToSet(enabled) \subseteq Plugins)
    <2> SUFFICES ASSUME RegistryInv, phase = "ready" PROVE Enabled \subseteq Plugins
      BY DEF Enabled
    <2>1. TypeInv /\ Enabled \subseteq Ordered
      BY DEF RegistryInv, Complete
    <2>2. CASE order = <<>>
      <3>1. Ordered = {}
        BY <2>2 DEF Ordered, ToSet
      <3> QED BY <2>1, <3>1
    <2>3. CASE order # <<>>
      BY <2>1, <2>3 DEF TypeInv
    <2> QED BY <2>2, <2>3
  <1> QED BY InitRegistry, NextRegistry, <1>1, PTL DEF Spec

(***************************************************************************)
(* The registry refuses to boot for a cycle exactly if there is one, in     *)
(* every graph of hard dependencies (SystemRegistry.resolve).               *)
(***************************************************************************)
THEOREM CyclesFound == Spec => []CycleIsReal
  <1>1. RegistryInv => CycleIsReal
    <2> SUFFICES ASSUME RegistryInv, phase = "instantiate", Cyclic PROVE FALSE
      BY DEF RegistryInv, CycleIsReal
    <2>1. Enabled \subseteq Ordered
      BY DEF RegistryInv, Complete
    <2>2. PICK C \in SUBSET ToSet(enabled) : C # {} /\ \A s \in C : Hard(s) \cap C # {}
      BY DEF Cyclic
    <2>3. C \in SUBSET Ordered
      BY <2>1 DEF Enabled
    <2> QED BY <2>2, <2>3 DEF RegistryInv, Grounded
  <1> QED BY InitRegistry, NextRegistry, <1>1, PTL DEF Spec
=============================================================================
