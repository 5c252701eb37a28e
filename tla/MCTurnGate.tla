----------------------------- MODULE MCTurnGate -----------------------------
(* Instances of TurnGate: the shipped configuration (config/systemos_base.toml)
   as it is, with S10 and S13 promoted, with S13 a prototype, without its
   tables, and without S1; every configuration of one route over a few
   systems, valid or not; and every graph of hard dependencies over them. *)
EXTENDS TurnGate

AllPlugins == {"S1", "S2", "S5", "S6", "S7", "S8", "S9", "S10", "S11", "S12", "S13"}

Exec == {"implemented", "implemented_adapter", "tested_prototype_adapter",
         "kernel_governance"}
Gate == Exec \ {"tested_prototype_adapter"}

\* HARD_DEPENDENCIES of systems/adapters.py
BaseDepends ==
    [s \in AllPlugins |->
        CASE s \in {"S2", "S5"} -> <<"S1">>
          [] s \in {"S6", "S7"} -> <<"S1", "S2">>
          [] s = "S9" -> <<"S1", "S5", "S8">>
          [] s = "S10" -> <<"S1", "S2", "S9">>
          [] s = "S13" -> <<"S8", "S11", "S7">>
          [] OTHER -> <<>>]

BaseMaturity ==
    [s \in AllPlugins |->
        CASE s \in {"S1", "S2"} -> "implemented"
          [] s = "S6" -> "tested_prototype_adapter"
          [] s = "S8" -> "kernel_governance"
          [] s \in {"S10", "S11", "S13"} -> "candidate"
          [] OTHER -> "implemented_adapter"]

Base ==
    [enabled |-> <<"S1", "S2", "S5", "S6", "S7", "S8", "S9", "S10", "S11", "S12", "S13">>,
     depends |-> BaseDepends, planning |-> TRUE, kernelSystem |-> "S8", maturity |-> BaseMaturity,
     execMaturities |-> Exec, gateMaturities |-> Gate,
     policy |-> [block |-> "safety", review |-> "deep_review", default |-> "default"],
     classRoutes |-> [creative |-> "creative"],
     routes |->
       [safety |-> [systems |-> <<"S8">>, gates |-> {"S8"}, optional |-> <<>>],
        deep_review |-> [systems |-> <<"S1", "S2", "S5", "S7", "S8", "S9", "S13">>,
                         gates |-> {"S8", "S13"}, optional |-> <<>>],
        creative |-> [systems |-> <<"S1", "S5", "S8", "S9">>,
                      gates |-> {"S8"}, optional |-> <<"S10">>],
        default |-> [systems |-> <<"S1", "S2", "S6", "S7", "S8">>,
                     gates |-> {"S8"}, optional |-> <<>>]],
     tcol |-> TRUE, objectiveClasses |-> {"systemic", "creative"},
     competencies |->
       [safety |-> {"governance"},
        deep_review |-> {"analysis", "concepts", "ethics", "governance", "adaptation"},
        creative |-> {"analysis", "ethics", "governance"},
        default |-> {"analysis", "concepts", "influence", "governance"}],
     providers |-> [analysis |-> {"S1"}, concepts |-> {"S2"}, ethics |-> {"S5"},
                    influence |-> {"S6"}, governance |-> {"S8"},
                    adaptation |-> {"S13"}]]

Promoted == [Base EXCEPT !.maturity["S10"] = "implemented_adapter",
                         !.maturity["S13"] = "implemented"]
Prototype == [Base EXCEPT !.maturity["S13"] = "tested_prototype_adapter"]
Bare == [Promoted EXCEPT !.routes = <<>>, !.tcol = FALSE, !.planning = FALSE]

Headless == [Bare EXCEPT !.enabled = Tail(Base.enabled)]

Shipped == <<Base, Promoted, Prototype, Bare, Headless>>

(* Every table of one route over S1, S8, S13 and S10, with a competency that
   its optional system alone provides, and a task class whose route is lost. *)
Few == {"S1", "S8", "S13"}
SmallSeqs == UNION {[1..n -> Few] : n \in 0..2}

Small(systems, gates, optional, mature) ==
    [Promoted EXCEPT
        !.routes = [only |-> [systems |-> systems, gates |-> gates, optional |-> optional]],
        !.policy = [block |-> "only", review |-> "only", default |-> "only"],
        !.classRoutes = [creative |-> "lost"],
        !.competencies = [only |-> {"analysis", "style"}],
        !.providers = [analysis |-> {"S1", "S13"}, style |-> {"S8", "S10"}],
        !.maturity["S13"] = mature]

SmallTables ==
    [systems : SmallSeqs, gates : SUBSET Few,
     optional : {<<>>, <<"S10">>, <<"S13">>, <<"S10", "S10">>},
     mature : {"implemented", "tested_prototype_adapter"}]

\* Three systems in a row, in any order or but two of them or one that has no
\* class, and every set of dependencies of each, itself included.
Lists == {<<>>, <<"S1">>, <<"S8">>, <<"S13">>, <<"S1", "S8">>, <<"S13", "S1">>,
          <<"S8", "S13">>, <<"S1", "S8", "S13">>}
Graphs ==
    [enabled : {<<"S1", "S8", "S13">>, <<"S13", "S8", "S1">>, <<"S13", "S8">>,
                <<"S8", "S3">>},
     depends : [Few -> Lists]]

Graph(enabled, depends) ==
    [Bare EXCEPT !.enabled = enabled, !.maturity = <<>>,
        !.depends = [s \in AllPlugins |-> IF s \in Few THEN depends[s] ELSE <<>>]]

MCFiles ==
    [f \in ({"shipped"} \X DOMAIN Shipped) \cup ({"table"} \X SmallTables)
              \cup ({"graph"} \X Graphs) |->
        CASE f[1] = "shipped" -> Shipped[f[2]]
          [] f[1] = "table" -> Small(f[2].systems, f[2].gates, f[2].optional, f[2].mature)
          [] f[1] = "graph" -> Graph(f[2].enabled, f[2].depends)]

MCTaskClasses == {"systemic", "creative", "general"}
=============================================================================
