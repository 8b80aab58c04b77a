------------------------------- MODULE Layers -------------------------------
(***************************************************************************)
(* What a namespace file means to envx, and how layers of files become one *)
(* environment (features/env/flatten.go, merge.go, effective.go).          *)
(*                                                                         *)
(* A document is a set of nodes by path.  A path is a sequence of YAML     *)
(* mapping keys, a Part; the environment variable a path stands for is the *)
(* sequence of words its parts are made of, so that log.level and          *)
(* log_level are two paths of one variable.                                *)
(***************************************************************************)
EXTENDS Naturals, Sequences, FiniteSets, SequencesExt

CONSTANTS
    Part,       \* the keys of YAML mappings
    Words       \* per part: the words that dots, hyphens and "_" separate

ASSUME WordsAssumption == \A p \in Part : Words[p] \in Seq(STRING)

(* A leaf keeps its items and whether they were a list; "nested" is a list *)
(* with an item that is not a scalar.                                      *)
Scalar(v) == [kind |-> "scalar", items |-> <<v>>]
Mapping == [kind |-> "map", items |-> <<>>]
Opaque(v) == [kind |-> "opaque", items |-> <<v>>]

(* The content of a file: text that is not a YAML mapping, or its nodes.   *)
Malformed == [yaml |-> FALSE, nodes |-> <<>>]
Yaml(nodes) == [yaml |-> TRUE, nodes |-> nodes]
Empty == Yaml(<<>>)

Leaves(nodes) == {p \in DOMAIN nodes : nodes[p].kind # "map"}

(* toEnvKey: dots and hyphens become underscores.                          *)
EnvKey(path) == FlattenSeq([i \in DOMAIN path |-> Words[path[i]]])

(* flatten refuses two paths of one variable in one file.                  *)
Flattens(content) ==
    /\ content.yaml
    /\ \A p \in Leaves(content.nodes) :
          /\ content.nodes[p].kind # "nested"
          /\ \A q \in Leaves(content.nodes) : EnvKey(p) = EnvKey(q) => p = q

Keys(content) == {EnvKey(p) : p \in Leaves(content.nodes)}

(* flattenKeys: the path that a variable was written as.                   *)
PathOf(content, key) ==
    CHOOSE p \in Leaves(content.nodes) : EnvKey(p) = key

Flat(content) ==
    [k \in Keys(content) |-> content.nodes[PathOf(content, k)]]

-----------------------------------------------------------------------------
(* Files.  An include is a directory and a stem; its base is <stem>.yaml   *)
(* and its overlay <stem>.<env>.yaml.  Stems and environments are cut      *)
(* before each dot, so <<"a">> \o <<".dev">> is the stem <<"a", ".dev">>.  *)

Base(inc) == inc
Overlay(inc, env) == [inc EXCEPT !.stem = @ \o env]

(* One layer over another.                                                 *)
Over(upper, lower) ==
    [k \in DOMAIN lower \cup DOMAIN upper |->
        IF k \in DOMAIN upper THEN upper[k] ELSE lower[k]]

(* The sources one file contributes to a key.                              *)
SourcesIn(file, content, key) ==
    IF key \in Keys(content)
    THEN <<[file |-> file, path |-> PathOf(content, key)]>> ELSE <<>>

NoLayers == [values |-> <<>>, origins |-> <<>>]

\* Mutant of Integrate: what an earlier namespace said is forgotten.
IntegrateForgets(state, inc, env, base, over) ==
    LET sources(k) == SourcesIn(Base(inc), base, k)
                      \o SourcesIn(Overlay(inc, env), over, k)
        flat == Over(Flat(over), Flat(base))
    IN  [values |-> Over(flat, state.values),
         origins |-> Over([k \in DOMAIN flat |->
             [winner |-> Last(sources(k)), shadowed |-> Front(sources(k))]],
             state.origins)]

(* One namespace goes on top of those before it: its overlay over its base,*)
(* the former winner at the end of what is shadowed.                       *)
Integrate(state, inc, env, base, over) ==
    LET sources(k) == SourcesIn(Base(inc), base, k)
                      \o SourcesIn(Overlay(inc, env), over, k)
        before(k) == IF k \in DOMAIN state.origins
                     THEN Append(state.origins[k].shadowed, state.origins[k].winner)
                     ELSE <<>>
        flat == Over(Flat(over), Flat(base))
    IN  [values |-> Over(flat, state.values),
         origins |-> Over([k \in DOMAIN flat |->
             [winner |-> Last(sources(k)),
              shadowed |-> before(k) \o Front(sources(k))]], state.origins)]

(* The global affixes; prefix and suffix are sequences of words.           *)
Affixed(state, prefix, suffix) ==
    LET wrap(k) == prefix \o k \o suffix
        plain(k) == SubSeq(k, Len(prefix) + 1, Len(k) - Len(suffix))
        keys == {wrap(k) : k \in DOMAIN state.values}
    IN  [values |-> [k \in keys |-> state.values[plain(k)]],
         origins |-> [k \in keys |-> state.origins[plain(k)]]]

OsSource(key) == [file |-> [dir |-> <<"OS environment">>, stem |-> <<>>], path |-> key]

(* applyOSEnvironment: which of the namespaces and the OS has the last     *)
(* word on a key; the loser is the newest shadowed source.                 *)
Selected(state, os, overload, union) ==
    LET shared == os \cap DOMAIN state.values
        wins == (IF overload THEN {} ELSE shared)
                \cup (IF union THEN os \ shared ELSE {})
        source(k) ==
            IF k \notin shared
            THEN [winner |-> OsSource(k), shadowed |-> <<>>]
            ELSE LET o == state.origins[k] IN
                 IF overload
                 THEN [o EXCEPT !.shadowed = Append(@, OsSource(k))]
                 ELSE [winner |-> OsSource(k), shadowed |-> Append(o.shadowed, o.winner)]
    IN  [values |-> Over([k \in wins |-> Opaque("os")], state.values),
         origins |-> Over([k \in wins \cup shared |-> source(k)], state.origins)]

-----------------------------------------------------------------------------
(* What a project's includes compose to in an environment, all at once; ok *)
(* is FALSE when a base is missing, a demanded overlay is, or a file does  *)
(* not flatten.                                                            *)

ContentOr(files, f) == IF f \in DOMAIN files THEN files[f] ELSE Empty

Loads(files, inc, env, require) ==
    /\ Base(inc) \in DOMAIN files
    /\ Flattens(files[Base(inc)])
    /\ require => Overlay(inc, env) \in DOMAIN files
    /\ Flattens(ContentOr(files, Overlay(inc, env)))

Composed(files, includes, env, require) ==
    LET state[i \in 0..Len(includes)] ==
            IF i = 0 THEN NoLayers
            ELSE Integrate(state[i - 1], includes[i], env, files[Base(includes[i])],
                           ContentOr(files, Overlay(includes[i], env)))
    IN
    IF \A i \in DOMAIN includes : Loads(files, includes[i], env, require)
    THEN [ok |-> TRUE, state |-> state[Len(includes)]]
    ELSE [ok |-> FALSE, state |-> NoLayers]
=============================================================================
