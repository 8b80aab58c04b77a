----------------------------- MODULE Workspace ------------------------------
(***************************************************************************)
(* The files that the commands share: namespace files, the manifest, the   *)
(* secrets store and .gitignore.  Every command reads a file in one step   *)
(* and replaces it in one step (module AtomicFile), without a lock.  An    *)
(* editor, which is any other program, changes a file at any time.         *)
(***************************************************************************)
EXTENDS Layers, Settings, Resolver, TLC

CONSTANTS
    Project,    \* the names a project may have, in sorted order
    Scenarios,  \* initial workspaces, each with what runs in it
    MaxEdits    \* how often the editor changes something

ASSUME ProjectAssumption == Project \in Seq(STRING)
ASSUME MaxEditsAssumption == MaxEdits \in Nat

VARIABLES
    scenario,   \* fixed: settings, commands, and what the editor may do
    files,      \* namespace files: content by [dir, stem]
    manifest,   \* projects: includes by name; environments in order
    store,      \* the secrets store, as in Resolver
    ignore,     \* the lines of .gitignore
    edits,      \* changes made by the editor
    touched     \* per command: the kinds of file that have changed since it began

workspace == <<scenario, files, manifest, store, ignore, edits, touched>>

Put(f, x, v) == [y \in DOMAIN f \cup {x} |-> IF y = x THEN v ELSE f[y]]
Changed(old, change) ==
    [x \in DOMAIN old \cup DOMAIN change |-> IF x \in DOMAIN change THEN change[x] ELSE old[x]]
Drop(f, x) == [y \in DOMAIN f \ {x} |-> f[y]]

(* The elements of s that are in S, in the order of s.                     *)
Those(s, S) ==
    LET those[n \in 0..Len(s)] ==
            IF n = 0 THEN <<>>
            ELSE IF s[n] \in S THEN Append(those[n - 1], s[n]) ELSE those[n - 1]
    IN  those[Len(s)]

(* What the properties need to know of the moment a command began.         *)
Touches(kind) == touched' = [c \in DOMAIN touched |-> touched[c] \cup {kind}]
Begins(command) == touched' = [touched EXCEPT ![command] = {}]

(* The declared projects, sorted (ResolveWorkspaceLayout,                  *)
(* ResolveWorkspaceProjects).                                              *)
Declared(m) == Those(Project, DOMAIN m.projects)

(* Workspace.HasInclude: some project declares it.                         *)
HasInclude(inc) ==
    \E p \in DOMAIN manifest.projects : inc \in ToSet(manifest.projects[p].includes)

(* Workspace.HasEnvironment, with the first declared one for "none".       *)
DefaultEnvironment(env) ==
    IF env = <<>> /\ manifest.environments # <<>>
    THEN Head(manifest.environments) ELSE env
HasEnvironment(env) == env \in ToSet(manifest.environments)

WorkspaceInit ==
    /\ scenario \in Scenarios
    /\ files = scenario.files
    /\ manifest = scenario.manifest
    /\ store = scenario.store
    /\ ignore = scenario.ignore
    /\ edits = 0
    /\ touched = [c \in {"pack", "validate", "emit"} |-> {}]

(* The editor: another program changes, creates or removes one thing.      *)
Edit ==
    /\ edits < MaxEdits
    /\ edits' = edits + 1
    /\ \/ \E e \in scenario.fileEdits :
              /\ files' = IF e.content = "removed" THEN Drop(files, e.file)
                          ELSE Put(files, e.file, e.nodes)
              /\ files' # files
              /\ Touches("files")
              /\ UNCHANGED <<manifest, store, ignore>>
       \/ \E m \in scenario.manifestEdits :
              /\ manifest' = m /\ manifest' # manifest
              /\ Touches("manifest")
              /\ UNCHANGED <<files, store, ignore>>
       \/ \E s \in scenario.storeEdits :
              /\ store' = s /\ store' # store
              /\ Touches("store")
              /\ UNCHANGED <<files, manifest, ignore>>
       \/ \E lines \in scenario.ignoreEdits :
              /\ ignore' = lines /\ ignore' # ignore
              /\ Touches("ignore")
              /\ UNCHANGED <<files, manifest, store>>
    /\ UNCHANGED scenario
=============================================================================
