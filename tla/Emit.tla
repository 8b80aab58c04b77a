-------------------------------- MODULE Emit --------------------------------
(***************************************************************************)
(* envx emit (features/emit): one environment, revealed, as documents for  *)
(* another program.  Targets are "k8s" (a ConfigMap and a Secret),         *)
(* "k8s-bundle" (one of them with everything under a single key) and       *)
(* "flat" (json and dotenv).  A secret's text is represented by its        *)
(* reference, and a composed value by its own text.                        *)
(***************************************************************************)
EXTENDS Diagnosis

VARIABLES
    emitter,    \* how far the command is, and its locals
    output      \* the documents at its destination

emitVars == <<emitter, output>>

Earlier == << [kind |-> "earlier", name |-> "", data |-> <<>>] >>

(* Commands: [project, target, secrets, config, named, out, os]; out is    *)
(* "file", "stdout", or "nowhere" for a directory that does not exist.     *)
EmitInit ==
    /\ emitter = [at |-> IF scenario.emit = <<>> THEN "idle" ELSE "start"]
    /\ output = Earlier

EmitMove(change) == emitter' = Changed(emitter, change)

(* Neither slice asked for means both.                                     *)
Slices(cmd) ==
    IF cmd.secrets \/ cmd.config THEN [secrets |-> cmd.secrets, config |-> cmd.config]
    ELSE [secrets |-> TRUE, config |-> TRUE]

(* checkOutputDir, then ResolveProject.                                    *)
EmitStart ==
    LET cmd == scenario.emit[1] IN
    /\ emitter.at = "start"
    /\ IF /\ cmd.out # "nowhere"
          /\ ValidManifest(manifest) /\ cmd.project \in DOMAIN manifest.projects
       THEN EmitMove([at |-> "explain", cmd |-> cmd,
                      params |-> Settled(manifest, cmd.project)])
       ELSE EmitMove([at |-> "refused", cmd |-> cmd])
    /\ Begins("emit")
    /\ UNCHANGED <<scenario, files, manifest, store, ignore, edits, output>>

EmitExplain ==
    LET env == Environment(<<>>, emitter.params)
        merged == Merged(emitter.params, env, emitter.cmd.os)
    IN
    /\ emitter.at = "explain"
    /\ IF env \in ToSet(emitter.params.environments) /\ merged.ok
       THEN EmitMove([at |-> "entries", values |-> merged.state.values])
       ELSE EmitMove([at |-> "refused"])
    /\ UNCHANGED <<workspace, output>>

Diagnoses ==
    [k \in DOMAIN emitter.values |->
        Diagnosed(emitter.values, k, store, emitter.cmd.os, TRUE)]

Entries ==
    [k \in {k \in DOMAIN emitter.values : Diagnoses[k].resolved} |->
        [value |-> emitter.values[k].items, secret |-> Diagnoses[k].kind = "secret"]]

\* Mutant of EmitEntries: what does not resolve is left out.
EmitEntriesPartial ==
    /\ emitter.at = "entries"
    /\ EmitMove([at |-> "write", entries |-> Entries])
    /\ UNCHANGED <<workspace, output>>

(* entriesFromExplanation, after the store has been opened: all or nothing.*)
EmitEntries ==
    /\ emitter.at = "entries"
    /\ IF \A k \in DOMAIN emitter.values : Diagnoses[k].resolved
       THEN EmitMove([at |-> "write", entries |-> Entries])
       ELSE EmitMove([at |-> "refused"])
    /\ UNCHANGED <<workspace, output>>

Named(cmd, suffix) == IF cmd.named THEN "" ELSE suffix

Document(kind, name, entries, keys) ==
    [kind |-> kind, name |-> name, data |-> [k \in keys |-> entries[k].value]]
SecretManifest(name, entries, keys) == Document("Secret", name, entries, keys)
ConfigMapManifest(name, entries, keys) == Document("ConfigMap", name, entries, keys)

(* secretEntries, and the part of the entries that the slices ask for.     *)
Classified(entries, secret) == {k \in DOMAIN entries : entries[k].secret = secret}
Asked(entries, slices) ==
    {k \in DOMAIN entries : IF entries[k].secret THEN slices.secrets ELSE slices.config}

(* renderK8sCombined: the ConfigMap first, and neither of them empty.      *)
Combined(entries, cmd) ==
    LET plain == Classified(entries, FALSE)
        secrets == Classified(entries, TRUE)
    IN  (IF plain = {} THEN <<>>
         ELSE << ConfigMapManifest(Named(cmd, "-config"), entries, plain) >>)
        \o (IF secrets = {} THEN <<>>
            ELSE << SecretManifest(Named(cmd, "-secrets"), entries, secrets) >>)

(* renderK8sBundle: one resource, a Secret as soon as it may hold one; its *)
(* single data key and the format of the body are left out.                *)
Bundle(entries, cmd) ==
    LET slices == Slices(cmd)
        asked == Asked(entries, slices)
    IN  IF slices.secrets /\ slices.config
        THEN SecretManifest(Named(cmd, "-config-secrets"), entries, asked)
        ELSE IF slices.secrets
        THEN SecretManifest(Named(cmd, "-secrets"), entries, asked)
        ELSE ConfigMapManifest(Named(cmd, "-config"), entries, asked)

(* Render: a document of one kind is written even if it is empty.          *)
Rendered(entries, cmd) ==
    LET slices == Slices(cmd)
        asked == Asked(entries, slices)
    IN  CASE cmd.target = "flat" -> << Document("flat", "", entries, asked) >>
          [] cmd.target = "k8s-bundle" -> << Bundle(entries, cmd) >>
          [] cmd.target = "k8s" /\ slices.secrets /\ slices.config ->
               Combined(entries, cmd)
          [] cmd.target = "k8s" /\ ~slices.config ->
               << SecretManifest(Named(cmd, "-secrets"), entries, asked) >>
          [] cmd.target = "k8s" /\ ~slices.secrets ->
               << ConfigMapManifest(Named(cmd, "-config"), entries, asked) >>

(* The buffer is complete before anything is written; the caller is warned *)
(* of a file with secret entries.                                          *)
EmitWrite ==
    LET cmd == emitter.cmd IN
    /\ emitter.at = "write"
    /\ output' = Rendered(emitter.entries, cmd)
    /\ EmitMove([at |-> "done", warned |->
           /\ cmd.out = "file" /\ Slices(cmd).secrets
           /\ \E k \in DOMAIN emitter.entries : emitter.entries[k].secret])
    /\ UNCHANGED workspace

EmitFails ==
    /\ emitter.at = "write"
    /\ EmitMove([at |-> "failed"])
    /\ UNCHANGED <<workspace, output>>

EmitNext == EmitStart \/ EmitExplain \/ EmitEntries \/ EmitWrite \/ EmitFails

-----------------------------------------------------------------------------
(* emit delivers all of what run would give the child for the keys of the  *)
(* namespaces, or nothing: every selected key once, with run's value and,  *)
(* if the value is a secret's (not one composed from other variables), in  *)
(* no ConfigMap and not without a warning; when run would succeed it is    *)
(* refused only for an empty list (action.go: "fail closed if any value is *)
(* unresolved").                                                           *)
EmitWhole ==
    LET cmd == emitter.cmd
        params == Settled(manifest, cmd.project)
        values == Merged(params, Environment(<<>>, params), cmd.os).state.values
        runs(k) == Materializes(values, k, store, cmd.os)
        secretive(k) == Targets(values[k]) = {} /\ Items(values[k]) \cap Reference # {}
        asked == {k \in DOMAIN values :
                    IF secretive(k) THEN Slices(cmd).secrets ELSE Slices(cmd).config}
        holders(k) == {d \in DOMAIN output : k \in DOMAIN output[d].data}
    IN
    /\ emitter.at # "done" => output = Earlier
    /\ emitter.at = "done" /\ touched.emit = {} =>
          /\ \A k \in DOMAIN values : runs(k)
          /\ UNION {DOMAIN output[d].data : d \in DOMAIN output} = asked
          /\ \A k \in asked : \E d \in DOMAIN output :
                /\ holders(k) = {d}
                /\ output[d].data[k] = values[k].items
                /\ secretive(k) => output[d].kind # "ConfigMap"
                /\ secretive(k) /\ cmd.out = "file" => emitter.warned
    /\ emitter.at = "refused" /\ "values" \in DOMAIN emitter /\ touched.emit = {} =>
          \E k \in DOMAIN values : ~runs(k) \/ values[k].items = <<>>
=============================================================================
