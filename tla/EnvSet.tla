------------------------------- MODULE EnvSet -------------------------------
(***************************************************************************)
(* envx set: write one value at a key path of one overlay                  *)
(* (features/env/cli/set/action.go, core/result.go).  The overlay is read, *)
(* edited in memory and replaced, without a lock.                          *)
(***************************************************************************)
EXTENDS Workspace

VARIABLES
    setter,     \* per set command: its parameters and how far it is
    committed   \* per set command: the content it had read and the one it wrote

setVars == <<setter, committed>>

Setter == DOMAIN setter

(* Commands: [include, path, value, flags, variables].                     *)
SetInit ==
    /\ setter = [p \in DOMAIN scenario.setters |->
           [cmd |-> scenario.setters[p], at |-> "start", target |-> <<>>,
            doc |-> Empty]]
    /\ committed = [p \in DOMAIN scenario.setters |-> <<>>]

Prefix(path, n) == SubSeq(path, 1, n)
Above(path) == {Prefix(path, n) : n \in 1..(Len(path) - 1)}

(* OverlayPath: the resolved environment must be declared, the include     *)
(* must be some project's.                                                 *)
OverlayEnv(cmd) ==
    DefaultEnvironment(PrecedenceString(cmd.flags.env, cmd.variables.env,
                                        <<manifest.settings.env>>))

\* Mutant of Refuses: a list on the way is refined like a scalar.
RefusesOnlyLast(nodes, path) ==
    path \in DOMAIN nodes /\ nodes[path].kind \in {"list", "nested", "map"}

(* setNestedKey refuses to go through a list and to overwrite a list or a  *)
(* mapping.                                                                *)
Refuses(nodes, path) ==
    \/ \E q \in Above(path) \cap DOMAIN nodes : nodes[q].kind \in {"list", "nested"}
    \/ path \in DOMAIN nodes /\ nodes[path].kind \in {"list", "nested", "map"}

\* Mutant of Edited: the mappings on the way are not made.
EditedShallow(nodes, path, value) ==
    [q \in DOMAIN nodes \cup {path} |-> IF q = path THEN Scalar(value) ELSE nodes[q]]

(* A scalar on the way becomes a mapping, a missing one is made, the last  *)
(* part is updated in place or appended.                                   *)
Edited(nodes, path, value) ==
    [q \in DOMAIN nodes \cup Above(path) \cup {path} |->
        IF q = path THEN Scalar(value)
        ELSE IF q \in Above(path) THEN Mapping
        ELSE nodes[q]]

SetMove(p, change) == setter' = [setter EXCEPT ![p] = Changed(@, change)]

(* ResolveWorkspace, OverlayPath, readDoc and apply: a missing overlay is  *)
(* an empty document.                                                      *)
SetRead(p) ==
    LET cmd == setter[p].cmd
        env == OverlayEnv(cmd)
        target == Overlay(cmd.include, env)
        doc == ContentOr(files, target)
    IN
    /\ setter[p].at = "start"
    /\ IF /\ ValidManifest(manifest)
          /\ HasEnvironment(env) /\ HasInclude(cmd.include)
          /\ doc.yaml /\ ~Refuses(doc.nodes, cmd.path)
       THEN SetMove(p, [at |-> "write", target |-> target, doc |-> doc])
       ELSE SetMove(p, [at |-> "refused"])
    /\ UNCHANGED <<workspace, committed>>

(* WriteAtomic: the file is replaced by the edited copy of what was read.  *)
SetWrite(p) ==
    LET cmd == setter[p].cmd
        f == setter[p].target
        new == Yaml(Edited(setter[p].doc.nodes, cmd.path, cmd.value))
    IN
    /\ setter[p].at = "write"
    /\ files' = Put(files, f, new)
    /\ committed' = [committed EXCEPT ![p] = <<[read |-> setter[p].doc, made |-> new]>>]
    /\ Touches("files")
    /\ SetMove(p, [at |-> "done"])
    /\ UNCHANGED <<scenario, manifest, store, ignore, edits>>

SetFails(p) ==
    /\ setter[p].at = "write"
    /\ SetMove(p, [at |-> "failed"])
    /\ UNCHANGED <<workspace, committed>>

SetNext == \E p \in Setter : SetRead(p) \/ SetWrite(p) \/ SetFails(p)

-----------------------------------------------------------------------------
(* What a set wrote is the value of its variable in that layer; every      *)
(* other variable is as it was in the content the set had read, so that    *)
(* only what changed after the read can be lost; nothing but a scalar was  *)
(* overwritten, on the path too; and a file that loaded still does, unless *)
(* it spells the same variable in another way (action.go, setNestedKey).   *)
SetTakesEffect ==
    \A p \in Setter : committed[p] # <<>> =>
        LET read == committed[p][1].read
            made == committed[p][1].made
            path == setter[p].cmd.path
            key == EnvKey(path)
            refined == {q \in Above(path) \cap DOMAIN read.nodes :
                            read.nodes[q].kind = "scalar"}
            respelled == \E q \in Leaves(read.nodes) \ (refined \cup {path}) :
                             EnvKey(q) = key
            kept == Keys(read) \ ({key} \cup {EnvKey(q) : q \in refined})
        IN  Flattens(read) =>
            /\ path \in DOMAIN read.nodes => read.nodes[path].kind = "scalar"
            /\ Flattens(made) <=> ~respelled
            /\ ~respelled => /\ Keys(made) = kept \cup {key}
                            /\ Flat(made)[key] = Scalar(setter[p].cmd.value)
                            /\ \A k \in kept : Flat(made)[k] = Flat(read)[k]
=============================================================================
