------------------------------ MODULE Validate ------------------------------
(***************************************************************************)
(* envx validate (core/workspace.go, features/validate): every project in  *)
(* every declared environment is explained, then the store is looked       *)
(* through.  The manifest is read once to enumerate the projects and once  *)
(* more for each of them, the files and the store for each environment, and*)
(* the store again for each of its checks.  The loads of one check are one *)
(* step.                                                                   *)
(***************************************************************************)
EXTENDS Diagnosis

VARIABLE
    auditor     \* how far the command is, and its locals

ResolutionCodes == {"secret_reference_not_found", "invalid_secret_reference",
                    "secret_reference_is_unresolved", "circular_variable_reference",
                    "unresolved_variable_reference", "property_not_declared_in_base"}

(* Commands: [selected: codes, severity: levels by code, strict, os].      *)
ValidateInit ==
    auditor = [at |-> IF scenario.validate = <<>> THEN "idle" ELSE "start"]

ValidateMove(change) == auditor' = Changed(auditor, change)

Runs(cmd, code) == cmd.selected = {} \/ code \in cmd.selected

\* Mutant of NeedsMerge: only the resolution checks are thought to need it.
NeedsMergeResolution(cmd) == \E code \in ResolutionCodes : Runs(cmd, code)

NeedsMerge(cmd) ==
    \E code \in ResolutionCodes \cup {"secret_is_not_referenced"} : Runs(cmd, code)

(* The override, else the default.                                         *)
Level(cmd, code) ==
    IF code \in DOMAIN cmd.severity THEN cmd.severity[code]
    ELSE IF code = "private_key_is_unavailable" THEN "warn"
    ELSE IF code = "property_not_declared_in_base" THEN "off"
    ELSE "error"

Finding(code, project, env, key) ==
    [code |-> code, project |-> project, env |-> env, key |-> key]

(* Report.record of those findings whose check runs.                       *)
Recorded(cmd, findings) ==
    {f \in findings : Runs(cmd, f.code) /\ Level(cmd, f.code) # "off"}

(* ResolveWorkspace: the projects to visit, and the environments.          *)
ValidateStart ==
    /\ auditor.at = "start"
    /\ IF ValidManifest(manifest)
       THEN ValidateMove([at |-> "resolve", cmd |-> scenario.validate[1],
                names |-> Declared(manifest),
                envs |-> manifest.environments, params |-> <<>>,
                i |-> 1, refs |-> {}, report |-> {}])
       ELSE ValidateMove([at |-> "failed"])
    /\ Begins("validate")
    /\ UNCHANGED <<scenario, files, manifest, store, ignore, edits>>

(* ResolveProject for each of them, from the manifest of the moment.       *)
ResolveNext ==
    LET project == auditor.names[Len(auditor.params) + 1]
        params == Append(auditor.params, Settled(manifest, project))
    IN
    /\ auditor.at = "resolve"
    /\ IF ValidManifest(manifest) /\ project \in DOMAIN manifest.projects
       THEN ValidateMove([params |-> params, at |->
                IF Len(params) < Len(auditor.names) THEN "resolve"
                ELSE IF NeedsMerge(auditor.cmd) THEN "diagnose" ELSE "secrets"])
       ELSE ValidateMove([at |-> "failed"])
    /\ UNCHANGED workspace

(* isBaseSource: a file whose name does not end like an overlay.           *)
IsBase(file, env) ==
    /\ file.dir # <<"OS environment">>
    /\ ~IsSuffix(env, file.stem)

DeclaredInBase(origin, env) ==
    \E source \in {origin.winner} \cup ToSet(origin.shadowed) : IsBase(source.file, env)

\* Mutant of FindingsIn: only secret references are looked at.
FindingsInSecrets(project, env, state) ==
    LET code(k) == Diagnosed(state.values, k, store, auditor.cmd.os, FALSE).code
        here(c, k) == Finding(c, project, env, k)
        secret == {k \in DOMAIN state.values : Items(state.values[k]) \cap Reference # {}}
    IN  {here(code(k), k) : k \in {k \in secret : code(k) \in ResolutionCodes}}

(* diagnoseEnvironment: of what explain says only the resolution codes.    *)
FindingsIn(project, env, state) ==
    LET code(k) == Diagnosed(state.values, k, store, auditor.cmd.os, FALSE).code
        here(c, k) == Finding(c, project, env, k)
        undeclared == {k \in DOMAIN state.values : ~DeclaredInBase(state.origins[k], env)}
    IN  {here("property_not_declared_in_base", k) : k \in undeclared}
        \cup {here(code(k), k) : k \in {k \in DOMAIN state.values : code(k) \in ResolutionCodes}}

(* One project in one environment; projects in the outer loop.             *)
DiagnoseNext ==
    LET n == Len(auditor.envs)
        project == ((auditor.i - 1) \div n) + 1
        env == auditor.envs[((auditor.i - 1) % n) + 1]
        params == auditor.params[project]
        merged == Merged(params, env, auditor.cmd.os)
        values == merged.state.values
    IN
    /\ auditor.at = "diagnose"
    /\ IF env \in ToSet(params.environments) /\ merged.ok
       THEN ValidateMove(
                [i |-> auditor.i + 1,
                 at |-> IF auditor.i = n * Len(auditor.params) THEN "secrets" ELSE "diagnose",
                 refs |-> auditor.refs \cup (Reference \cap
                              UNION {Items(values[k]) : k \in DOMAIN values}),
                 report |-> auditor.report \cup Recorded(auditor.cmd,
                     FindingsIn(auditor.names[project], env, merged.state))])
       ELSE ValidateMove([at |-> "failed"])
    /\ UNCHANGED workspace

(* addSecretFindings over StoredSecrets.                                   *)
CheckSecrets ==
    LET about(code, refs) == {Finding(code, "", <<>>, <<r>>) : r \in refs} IN
    /\ auditor.at = "secrets"
    /\ ValidateMove([at |-> "public", report |-> auditor.report \cup Recorded(auditor.cmd,
           about("secret_is_not_encrypted", Unsealed(store))
           \cup about("secret_algorithm_mismatch", Mismatched(store))
           \cup about("secret_is_not_referenced", Stored(store) \ auditor.refs))])
    /\ UNCHANGED workspace

CheckPublicKeys ==
    /\ auditor.at = "public"
    /\ ValidateMove([at |-> "keypairs", report |-> auditor.report \cup Recorded(auditor.cmd,
           {Finding("public_key_is_missing", "", <<>>, <<g>>) : g \in Keyless(store)})])
    /\ UNCHANGED workspace

(* addKeypairFindings over ListKeypairs, if one of its checks runs.        *)
CheckKeypairs ==
    LET health == {"private_key_is_invalid", "private_key_is_unavailable"}
        poor == {g \in DOMAIN PublicKeys(store) :
                    KeyStatus(store, scenario.held, g) # "ok"}
        cmd == auditor.cmd
    IN
    /\ auditor.at = "keypairs"
    /\ IF \A code \in health : ~Runs(cmd, code)
       THEN ValidateMove([at |-> "grade"])
       ELSE IF Inspectable(store, scenario.held)
       THEN ValidateMove([at |-> "grade", report |-> auditor.report \cup Recorded(cmd,
                {Finding(KeyStatus(store, scenario.held, g), "", <<>>, <<g>>) : g \in poor})])
       ELSE ValidateMove([at |-> "failed"])
    /\ UNCHANGED workspace

(* Report.grade: an error fails the run, a warning under --strict.         *)
Grade ==
    LET at(level) == {f \in auditor.report : Level(auditor.cmd, f.code) = level} IN
    /\ auditor.at = "grade"
    /\ ValidateMove([at |-> "done",
           verdict |-> at("error") # {} \/ (auditor.cmd.strict /\ at("warn") # {})])
    /\ UNCHANGED workspace

ValidateNext ==
    \/ ValidateStart \/ ResolveNext \/ DiagnoseNext \/ CheckSecrets
    \/ CheckPublicKeys \/ CheckKeypairs \/ Grade

-----------------------------------------------------------------------------
Audited == auditor.at = "done" /\ touched.validate = {}

(* What each project is in each environment, as run would find it.         *)
Worlds ==
    {[project |-> p, env |-> e,
      values |-> Merged(Settled(manifest, p), e, scenario.validate[1].os).state.values] :
        p \in DOMAIN manifest.projects, e \in ToSet(manifest.environments)}

(* Whatever checks were selected, a secret that is reported as never       *)
(* referenced is in no value that run would read, in any project and any   *)
(* environment (registry.go, needsMerge; validate.go, collectReferences).  *)
OrphansReal ==
    Audited => \A f \in auditor.report : f.code = "secret_is_not_referenced" =>
        \A u \in Worlds : \A k \in DOMAIN u.values : Reference \cap Items(u.values[k])
            \cap ToSet(f.key) = {}

(* The store as if every secret of a group whose key pair is in order were *)
(* sealed under that pair; the others of these secrets are stale.          *)
Healed(st) ==
    LET fit(r) == GroupOf[r] \in DOMAIN PublicKeys(st)
                  /\ KeyStatus(st, scenario.held, GroupOf[r]) = "ok"
        cell(r) == IF fit(r) /\ Cells(st)[r].sealed
                   THEN [Cells(st)[r] EXCEPT !.pair = PublicKeys(st)[GroupOf[r]]]
                   ELSE Cells(st)[r]
    IN  IF st = <<>> THEN st
        ELSE <<[cells |-> [r \in Stored(st) |-> cell(r)], pub |-> PublicKeys(st)]>>

Stale == {r \in Stored(store) : Cells(Healed(store))[r] # Cells(store)[r]}

(* A value has one code: a list does not show that a secret is missing if  *)
(* another item is composed (explain.go:211-213), nor that an item is      *)
(* missing or misspelt if another is a stale secret (explain.go:308-313).  *)
Hides(leaf) ==
    LET nowhere == (Items(leaf) \cap (Reference \cup Misspelt)) \ Stored(store) IN
    IF Targets(leaf) # {} THEN nowhere \cap Reference # {}
    ELSE nowhere # {} /\ Items(leaf) \cap Stale # {}

(* A full report at the default levels has, for every value that run would *)
(* fail on with the store st, a finding about the value, a variable it is  *)
(* composed from, a secret in them, or the group of one, if none of them   *)
(* hides anything.                                                         *)
Reports(st) ==
    LET os == auditor.cmd.os
        keys(u, k) == Behind(u.values, k) \cup {k}
        concerns(f, u, k) ==
            LET items == UNION {Items(u.values[j]) : j \in keys(u, k) \cap DOMAIN u.values}
            IN  \/ f.project = u.project /\ f.env = u.env /\ f.key \in keys(u, k)
                \/ \E x \in items \cap Reference : f.key \in {<<x>>, <<GroupOf[x]>>}
    IN  Audited /\ auditor.cmd.selected = {} /\ auditor.cmd.severity = <<>> =>
            \A u \in Worlds : \A k \in DOMAIN u.values :
                /\ ~Materializes(u.values, k, st, os)
                /\ \A j \in keys(u, k) \cap DOMAIN u.values : ~Hides(u.values[j])
                => \E f \in auditor.report : concerns(f, u, k)

(* validate reports everything that run would fail on (doc.go), but for    *)
(* what a list hides and for a stale secret: see UndecryptableReported.    *)
FailuresReported == Reports(Healed(store))

(* "A reference that passed every store check yet still failed to decrypt" *)
(* is reported too (status.go:42-44).                                      *)
UndecryptableReported == Reports(store)
=============================================================================
