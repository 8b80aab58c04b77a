-------------------------------- MODULE Pack --------------------------------
(***************************************************************************)
(* envx pack (features/pack): copy the files of the selected projects and  *)
(* environments into a bundle with a manifest and a filtered secrets       *)
(* store.  Every file is read in the step that needs it, while the         *)
(* workspace may change; every write may fail and end the command.         *)
(*                                                                         *)
(* Names are sequences of pieces, as in Layers; their length counts only   *)
(* in how many suffixes a name has room for.                               *)
(***************************************************************************)
EXTENDS Workspace

CONSTANTS
    Sanitized,  \* per project name: sanitizeDirName's result, <<text>>
    Suffix      \* "-2", "-3", ...: as many as maxFilenameLen leaves room for

ASSUME NamesAssumption ==
    /\ Suffix \in Seq(STRING)
    /\ \A p \in ToSet(Project) : Sanitized[p] \in Seq(STRING)

VARIABLES
    bundle,     \* the output directory
    packer      \* how far the command is, and its locals

packVars == <<bundle, packer>>

NoBundle == [manifest |-> <<>>, files |-> <<>>, store |-> <<>>, stray |-> FALSE]

PackInit ==
    /\ bundle = [NoBundle EXCEPT !.stray = scenario.stray]
    /\ packer = [at |-> IF scenario.pack = <<>> THEN "idle" ELSE "start"]

PackMove(change) == packer' = Changed(packer, change)

-----------------------------------------------------------------------------
(* Names.                                                                  *)

Attempts == 1..(Len(Suffix) + 1)

Candidate(name, n) == IF n = 1 THEN name ELSE Append(name, Suffix[n - 1])
Lowest(S) == CHOOSE n \in S : \A k \in S : n <= k

(* assignProjectDirs: sanitised, and distinct from each other and from the *)
(* files at the bundle's root; a name that grows too long ends the list.   *)
ProjectDirs(names, hasStore) ==
    LET reserved == {<<"envx">>} \cup (IF hasStore THEN {<<"secrets">>} ELSE {})
        dirs[n \in 0..Len(names)] ==
            IF n = 0 THEN <<>>
            ELSE LET base == Sanitized[names[n]]
                     free == {k \in Attempts :
                                Candidate(base, k) \notin reserved \cup ToSet(dirs[n - 1])}
                 IN  IF free = {} THEN dirs[n - 1]
                     ELSE Append(dirs[n - 1], Candidate(base, Lowest(free)))
    IN  dirs[Len(names)]

(* outputFilenames: the stems of the files an include has in the bundle.   *)
Outputs(found, stem) ==
    (IF found.base THEN {stem} ELSE {}) \cup {stem \o env : env \in ToSet(found.overlays)}

(* assignProjectNames: a stem of its own for every include, whose files    *)
(* are nobody else's; an include for which all are too long has no name.   *)
Stems(includes) ==
    LET named[n \in 0..Len(includes)] ==
            IF n = 0 THEN [names |-> <<>>, used |-> {}]
            ELSE LET found == includes[n]
                     old == named[n - 1]
                     stem(k) == Candidate(found.include.stem, k)
                     free == {k \in Attempts :
                                /\ \A inc \in DOMAIN old.names : old.names[inc] # stem(k)
                                /\ Outputs(found, stem(k)) \cap old.used = {}}
                     mine == stem(Lowest(free))
                 IN  IF free = {} THEN old
                     ELSE [names |-> Put(old.names, found.include, mine),
                           used |-> old.used \cup Outputs(found, mine)]
    IN  named[Len(includes)].names

-----------------------------------------------------------------------------
(* The plan.                                                               *)

(* selectValues, selectProjects: in declared order, all if none is asked.  *)
Chosen(declared, requested) ==
    IF requested = {} THEN declared
    ELSE Those(declared, requested)

(* discoverProjectIncludes, each include once: which of its files exist.   *)
Found(inc, envs) ==
    [include |-> inc, base |-> Base(inc) \in DOMAIN files,
     overlays |-> Those(envs, {e \in ToSet(envs) : Overlay(inc, e) \in DOMAIN files})]

Once(includes) ==
    LET once[n \in 0..Len(includes)] ==
            IF n = 0 THEN <<>>
            ELSE IF includes[n] \in ToSet(once[n - 1]) THEN once[n - 1]
            ELSE Append(once[n - 1], includes[n])
    IN  once[Len(includes)]

Discovered(includes, envs) ==
    LET once == Once(includes) IN [i \in DOMAIN once |-> Found(once[i], envs)]

ProjectPlan(layout, project, dir, envs) ==
    LET found == Discovered(layout.projects[project].includes, envs)
    IN  [name |-> project, dir |-> dir, includes |-> found, names |-> Stems(found)]

(* planProjects.  An include without a file, or without a name, refuses    *)
(* the whole pack.                                                         *)
Bundles(layout, projects, dirs, envs) ==
    [j \in DOMAIN projects |-> ProjectPlan(layout, projects[j], dirs[j], envs)]

Packable(plan) ==
    \A j \in DOMAIN plan : \A i \in DOMAIN plan[j].includes :
        LET found == plan[j].includes[i] IN
        /\ found.base \/ found.overlays # <<>>
        /\ found.include \in DOMAIN plan[j].names

(* planFiles: what is copied where, base first.                            *)
Target(b, stem) == [dir |-> b.dir, stem |-> stem]

CopiesOf(b, found) ==
    LET stem == b.names[found.include] IN
    (IF found.base
     THEN <<[src |-> Base(found.include), dest |-> Target(b, stem)]>> ELSE <<>>)
    \o [e \in DOMAIN found.overlays |->
         [src |-> Overlay(found.include, found.overlays[e]),
          dest |-> Target(b, stem \o found.overlays[e])]]

Copies(plan) ==
    FlattenSeq([j \in DOMAIN plan |->
        FlattenSeq([i \in DOMAIN plan[j].includes |-> CopiesOf(plan[j], plan[j].includes[i])])])

\* Mutant of Rewritten: the path of the store stays.
RewrittenKeepsStore(m, plan) ==
    LET named == {plan[j].name : j \in DOMAIN plan} \cap DOMAIN m.projects
        of(p) == plan[CHOOSE j \in DOMAIN plan : plan[j].name = p]
        moved(p, inc) == IF inc \in DOMAIN of(p).names
                         THEN [dir |-> of(p).dir, stem |-> of(p).names[inc]] ELSE inc
    IN  [m EXCEPT !.projects = [p \in named |-> [m.projects[p] EXCEPT !.includes =
             [i \in DOMAIN @ |-> moved(p, @[i])]]]]

(* rewriteManifest: the selected projects with their new includes, an      *)
(* include without a name as it was, and the store at its default place.   *)
Rewritten(m, plan) ==
    LET named == {plan[j].name : j \in DOMAIN plan} \cap DOMAIN m.projects
        of(p) == plan[CHOOSE j \in DOMAIN plan : plan[j].name = p]
        moved(p, inc) == IF inc \in DOMAIN of(p).names
                         THEN [dir |-> of(p).dir, stem |-> of(p).names[inc]] ELSE inc
    IN  [m EXCEPT !.store = NoPath,
             !.projects = [p \in named |-> [m.projects[p] EXCEPT !.includes =
                 [i \in DOMAIN @ |-> moved(p, @[i])]]]]

ItemsOf(content) ==
    UNION {ToSet(content.nodes[p].items) : p \in Leaves(content.nodes)}
ReferencesOf(content) == ItemsOf(content) \cap Reference

-----------------------------------------------------------------------------
(* The command: [environments, projects, force], each selection a set.     *)

(* ResolveWorkspaceLayout, the check of the output directory, and the      *)
(* selections.                                                             *)
PackStart ==
    LET cmd == scenario.pack[1] IN
    /\ packer.at = "start"
    /\ IF /\ ValidManifest(manifest)
          /\ cmd.force \/ bundle = NoBundle
          /\ cmd.environments \subseteq ToSet(manifest.environments)
          /\ cmd.projects \subseteq DOMAIN manifest.projects
       THEN packer' = [at |-> "plan", layout |-> manifest, before |-> bundle,
                       force |-> cmd.force,
                       envs |-> Chosen(manifest.environments, cmd.environments),
                       projects |-> Chosen(Declared(manifest), cmd.projects)]
       ELSE packer' = [at |-> "refused", before |-> bundle]
    /\ Begins("pack")
    /\ UNCHANGED <<scenario, files, manifest, store, ignore, edits, bundle>>

\* Mutant of Plan: --force clears the directory before the includes are known.
PlanClears ==
    LET hasStore == store # <<>>
        dirs == ProjectDirs(packer.projects, hasStore)
        plan == Bundles(packer.layout, packer.projects, dirs, packer.envs)
    IN
    /\ packer.at = "plan"
    /\ bundle' = IF packer.force THEN NoBundle ELSE bundle
    /\ IF Len(dirs) = Len(packer.projects) /\ Packable(plan)
       THEN PackMove([at |-> "rewrite", hasStore |-> hasStore, plan |-> plan,
                      copies |-> Copies(plan)])
       ELSE PackMove([at |-> "refused"])
    /\ UNCHANGED workspace

(* exists(ws.SecretsPath), assignProjectDirs, planProjects and planFiles.  *)
Plan ==
    LET hasStore == store # <<>>
        dirs == ProjectDirs(packer.projects, hasStore)
        plan == Bundles(packer.layout, packer.projects, dirs, packer.envs)
    IN
    /\ packer.at = "plan"
    /\ IF Len(dirs) = Len(packer.projects) /\ Packable(plan)
       THEN PackMove([at |-> "rewrite", hasStore |-> hasStore, plan |-> plan,
                      copies |-> Copies(plan)])
       ELSE PackMove([at |-> "refused"])
    /\ UNCHANGED <<workspace, bundle>>

(* The manifest is read again, and rewritten.                              *)
Rewrite ==
    /\ packer.at = "rewrite"
    /\ PackMove([at |-> "clear", manifest |-> Rewritten(manifest, packer.plan)])
    /\ UNCHANGED <<workspace, bundle>>

(* RemoveAll with --force.                                                 *)
Clear ==
    /\ packer.at = "clear"
    /\ PackMove([at |-> "manifest"])
    /\ bundle' = IF packer.force THEN NoBundle ELSE bundle
    /\ UNCHANGED workspace

WriteManifest ==
    /\ packer.at = "manifest"
    /\ bundle' = [bundle EXCEPT !.manifest = <<packer.manifest>>]
    /\ PackMove([at |-> "copy", i |-> 1])
    /\ UNCHANGED workspace

(* copyInto: the source is read when its turn comes; one that is gone ends *)
(* the command.                                                            *)
Copy ==
    LET c == packer.copies[packer.i] IN
    /\ packer.at = "copy" /\ packer.i \in DOMAIN packer.copies
    /\ IF c.src \in DOMAIN files
       THEN /\ bundle' = [bundle EXCEPT !.files = Put(@, c.dest, files[c.src])]
            /\ PackMove([i |-> packer.i + 1])
       ELSE UNCHANGED bundle /\ PackMove([at |-> "failed"])
    /\ UNCHANGED workspace

\* Mutant of Scan: only the base files are scanned.
ScanBases ==
    LET sources == {c.src : c \in ToSet(packer.copies)} IN
    /\ packer.at = "copy" /\ packer.i \notin DOMAIN packer.copies
    /\ IF packer.hasStore
       THEN PackMove([at |-> "secrets", refs |-> UNION {ReferencesOf(files[f]) :
                f \in {f \in sources \cap DOMAIN files : Len(f.stem) = 1}}])
       ELSE PackMove([at |-> "done", refs |-> {}, missed |-> {}])
    /\ UNCHANGED <<workspace, bundle>>

(* scanReferences reads the workspace's files once more; a file that is    *)
(* gone or no longer YAML ends the command.                                *)
Scan ==
    LET sources == {c.src : c \in ToSet(packer.copies)} IN
    /\ packer.at = "copy" /\ packer.i \notin DOMAIN packer.copies
    /\ \/ ~packer.hasStore /\ PackMove([at |-> "done", refs |-> {}, missed |-> {}])
       \/ /\ packer.hasStore
          /\ IF sources \subseteq DOMAIN files /\ \A f \in sources : files[f].yaml
             THEN PackMove([at |-> "secrets",
                      refs |-> UNION {ReferencesOf(files[f]) : f \in sources}])
             ELSE PackMove([at |-> "failed"])
    /\ UNCHANGED <<workspace, bundle>>

(* GetSecret for every reference, those the store lacks left out, then     *)
(* SetSecrets into the bundle's own store, without public keys.            *)
CopySecrets ==
    LET here == packer.refs \cap Stored(store) IN
    /\ packer.at = "secrets"
    /\ bundle' = IF here = {} THEN bundle ELSE [bundle EXCEPT !.store =
           <<[cells |-> [r \in here |-> Cells(store)[r]], pub |-> <<>>]>>]
    /\ PackMove([at |-> "done", missed |-> packer.refs \ Stored(store)])
    /\ UNCHANGED workspace

(* A write fails, or the process dies: what is written stays.              *)
PackFails ==
    /\ \/ packer.at \in {"clear", "manifest", "copy", "secrets"} /\ UNCHANGED bundle
       \/ packer.at = "clear" /\ packer.force /\ bundle' = [bundle EXCEPT !.manifest = <<>>]
    /\ PackMove([at |-> "failed"])
    /\ UNCHANGED workspace

PackNext ==
    \/ PackStart \/ Plan \/ Rewrite \/ Clear \/ WriteManifest
    \/ Copy \/ Scan \/ CopySecrets \/ PackFails

-----------------------------------------------------------------------------
(* What a project is in an environment to whoever runs it from these files:*)
(* its settings, its values, and which of its secrets can be read.         *)
View(fs, m, secrets, project, env) ==
    LET params == EnvmergeParams(m, project, NoSettings, NoSettings)
        composed == Composed(fs, params.includes, env, params.require)
        values == composed.state.values
        items == UNION {ToSet(values[k].items) : k \in DOMAIN values}
    IN  [settings |-> [params EXCEPT !.includes = <<>>],
         loads |-> composed.ok,
         values |-> values,
         readable |-> {x \in items : Resolves(x, secrets, scenario.held, TRUE)}]

(* The store at the bundle's root is the one its manifest leads to.        *)
BundleSecrets ==
    IF SecretsParams(bundle.manifest[1]).store = DefaultStore
    THEN bundle.store ELSE <<>>

(* A bundle packed while nothing else changed the workspace runs every     *)
(* selected project in every selected environment exactly as the workspace *)
(* does: the same settings, the same values, the same secrets (doc.go:     *)
(* "the copied workspace runs through the exact same `envx run --config`   *)
(* that development uses").                                                *)
BundleFaithful ==
    packer.at = "done" /\ touched.pack = {} =>
        \A p \in ToSet(packer.projects), e \in ToSet(packer.envs) :
            View(bundle.files, bundle.manifest[1], BundleSecrets, p, e)
            = View(files, manifest, store, p, e)

(* No two projects of the plan share a directory, no two includes of a     *)
(* project a name, and no two sources a file: "two namespaces sharing a    *)
(* stem would be merged into one include at resolution time" (names.go).   *)
Apart ==
    /\ \A j, k \in DOMAIN packer.plan :
          packer.plan[j].dir = packer.plan[k].dir => j = k
    /\ \A j \in DOMAIN packer.plan : LET names == packer.plan[j].names IN
          \A inc, other \in DOMAIN names : names[inc] = names[other] => inc = other
    /\ \A c, d \in ToSet(packer.copies) : c.dest = d.dest => c.src = d.src

(* A finished bundle holds every planned file, each under a name of its    *)
(* own, and nothing else; and while no namespace file was changed under it,*)
(* every secret its files refer to, but for those the store did not have,  *)
(* and no other (pack.go: "a bundle never merges into stale files";        *)
(* references.go).                                                         *)
BundleExact ==
    packer.at = "done" =>
        /\ ~bundle.stray
        /\ DOMAIN bundle.files = {c.dest : c \in ToSet(packer.copies)}
        /\ Apart
        /\ "files" \notin touched.pack /\ packer.hasStore =>
              UNION {ReferencesOf(bundle.files[f]) : f \in DOMAIN bundle.files}
                  = Stored(bundle.store) \cup packer.missed

(* A pack that is refused, for its output directory, its selection or its  *)
(* includes, leaves the old bundle as it was, also under --force (pack.go: *)
(* "a --force run that fails earlier leaves any existing bundle            *)
(* untouched").                                                            *)
RefusalKeepsBundle ==
    packer.at \in {"refused", "plan", "rewrite", "clear"} => bundle = packer.before
=============================================================================
