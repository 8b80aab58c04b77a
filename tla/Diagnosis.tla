----------------------------- MODULE Diagnosis ------------------------------
(***************************************************************************)
(* How explain, and with it validate and emit, judge the values of one     *)
(* environment (features/env/explain.go), next to what run makes of them   *)
(* (materialize.go).  How references between variables are followed is     *)
(* module Substitution's matter; here only what they come to counts, for   *)
(* values that refer to one variable each.                                 *)
(***************************************************************************)
EXTENDS Workspace

CONSTANT
    Variable    \* per item that refers to a variable: its name, as a key

(* ResolveProject, then the merge under the settings of the manifest, with *)
(* the OS environment over it.                                             *)
Settled(m, project) == EnvmergeParams(m, project, NoSettings, NoSettings)

Merged(params, env, os) ==
    LET composed == Composed(files, params.includes, env, params.require)
    IN  [ok |-> composed.ok,
         state |-> Selected(Affixed(composed.state, params.prefix, params.suffix),
                            os, params.overload, FALSE)]

Items(leaf) == IF leaf.kind = "opaque" THEN {} ELSE ToSet(leaf.items)
Targets(leaf) == {Variable[x] : x \in Items(leaf) \cap DOMAIN Variable}

(* Every variable that the value of a key is composed from.                *)
Behind(values, key) ==
    FoldLeft(LAMBDA found, step :
        found \cup UNION {Targets(values[k]) : k \in found \cap DOMAIN values},
        Targets(values[key]), [n \in 1..Cardinality(DOMAIN values) |-> n])

(* Substituter.Status of a key: a value that cannot be read, or a variable *)
(* that is nowhere, leaves it unresolved.                                  *)
Status(values, key, st, os, reveal) ==
    LET all == Behind(values, key) \cup {key} IN
    IF \E k \in all \cap DOMAIN values : k \in Behind(values, k)
    THEN "circular_variable_reference"
    ELSE IF /\ all \subseteq DOMAIN values \cup os
            /\ \A k \in all \cap DOMAIN values : \A x \in Items(values[k]) :
                  Resolves(x, st, scenario.held, reveal)
    THEN "ok" ELSE "unresolved_variable_reference"

(* diagnoseEntry: what it is, what is wrong with it, and whether there is  *)
(* a value.                                                                *)
Diagnosed(values, key, st, os, reveal) ==
    LET leaf == values[key]
        composed == Status(values, key, st, os, reveal)
        worst == Worst(leaf.items, st, scenario.held)
        secret == Items(leaf) \cap (Reference \cup Misspelt) # {}
    IN  IF leaf.kind = "opaque"
        THEN [kind |-> "config", code |-> "ok", resolved |-> reveal]
        ELSE IF Targets(leaf) # {}
        THEN [kind |-> "variable", code |-> composed,
              resolved |-> reveal /\ composed = "ok"]
        ELSE [kind |-> IF secret THEN "secret" ELSE "config", code |-> worst,
              resolved |-> reveal /\ worst = "ok" /\ leaf.items # <<>>]

(* run reads every item and then composes.                                 *)
Materializes(values, key, st, os) ==
    /\ \A x \in Items(values[key]) : Resolves(x, st, scenario.held, TRUE)
    /\ Targets(values[key]) # {} => Status(values, key, st, os, TRUE) = "ok"
=============================================================================
