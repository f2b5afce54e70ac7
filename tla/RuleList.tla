------------------------------ MODULE RuleList ------------------------------
(***************************************************************************)
(* From the configurations on disk to the engine's list of rules:          *)
(* RuleEngine::load_rules (crates/doumi-core/src/engine.rs) keeps the      *)
(* enabled rules and sorts them, stably, by priority.                      *)
(***************************************************************************)
EXTENDS Integers, Sequences, FiniteSets

(* Mutant: rules of equal priority change places. *)
Before_unstable(configs, i, j) ==
    \/ configs[i].priority < configs[j].priority
    \/ configs[i].priority = configs[j].priority /\ i > j

(* sort_by_key is stable: among equals the earlier one comes first. *)
Before(configs, i, j) ==
    \/ configs[i].priority < configs[j].priority
    \/ configs[i].priority = configs[j].priority /\ i < j

load_rules(configs) ==
    LET enabled == {i \in DOMAIN configs : configs[i].enabled}
        rank(i) == Cardinality({j \in enabled : Before(configs, j, i)})
    IN  [k \in 1..Cardinality(enabled) |->
            configs[CHOOSE i \in enabled : rank(i) = k - 1]]
=============================================================================
