------------------------------ MODULE Worktree ------------------------------
(***************************************************************************)
(* Everything that works on the files of one workspace at the same time:   *)
(* create, set, the commands that compose an environment, pack, validate,  *)
(* emit, the protection of the private keys, and an editor.                *)
(***************************************************************************)
EXTENDS Scaffold, EnvSet, EnvMerge, GitIgnore, Pack, Validate, Emit

vars == <<workspace, createVars, setVars, mergeVars, ignoreVars, packVars, auditor, emitVars>>

Init ==
    /\ WorkspaceInit /\ CreateInit /\ SetInit /\ MergeInit /\ IgnoreInit
    /\ PackInit /\ ValidateInit /\ EmitInit

Next ==
    \/ CreateNext /\ UNCHANGED <<setVars, mergeVars, ignoreVars, packVars, auditor, emitVars>>
    \/ SetNext /\ UNCHANGED <<createVars, mergeVars, ignoreVars, packVars, auditor, emitVars>>
    \/ MergeNext /\ UNCHANGED <<workspace, createVars, setVars, ignoreVars, packVars, auditor, emitVars>>
    \/ IgnoreNext /\ UNCHANGED <<createVars, setVars, mergeVars, packVars, auditor, emitVars>>
    \/ PackNext /\ UNCHANGED <<createVars, setVars, mergeVars, ignoreVars, auditor, emitVars>>
    \/ ValidateNext /\ UNCHANGED <<createVars, setVars, mergeVars, ignoreVars, packVars, emitVars>>
    \/ EmitNext /\ UNCHANGED <<createVars, setVars, mergeVars, ignoreVars, packVars, auditor>>
    \/ Edit /\ UNCHANGED <<createVars, setVars, mergeVars, ignoreVars, packVars, auditor, emitVars>>

Spec == Init /\ [][Next]_vars

(* A document is a tree: every node has all its ancestors, and they are    *)
(* mappings; the items of a leaf are text.                                 *)
ContentOK(c) ==
    /\ c.yaml \in BOOLEAN
    /\ \A p \in DOMAIN c.nodes :
          /\ p \in Seq(Part) \ {<<>>}
          /\ c.nodes[p].kind \in {"map", "scalar", "list", "nested"}
          /\ c.nodes[p].items \in Seq(STRING)
          /\ \A q \in Above(p) : q \in DOMAIN c.nodes /\ c.nodes[q].kind = "map"

(* A store has entries for references only, sealed under pairs with names. *)
StoreOK(st) ==
    /\ Stored(st) \subseteq Reference
    /\ \A r \in Stored(st) :
          LET cell == Cells(st)[r] IN
          /\ cell.pair \notin Unkeyed
          /\ cell \in {Sealed(cell.pair), Foreign(cell.pair), Bare}

(* A text setting is unset or text; a project has a name and includes; what*)
(* an environment adds to the name of a file begins with a dot.            *)
SettingsOK(settings) ==
    \A field \in {"env", "prefix", "suffix"} :
        settings[field] # Unset => settings[field] \in Seq(STRING)
ManifestOK(m) ==
    /\ DOMAIN m = {"environments", "settings", "projects", "store", "keys"}
    /\ m.environments \in Seq(Seq(STRING) \ {<<>>})
    /\ SettingsOK(m.settings)
    /\ DOMAIN m.projects \subseteq ToSet(Project)
    /\ \A p \in DOMAIN m.projects :
          /\ DOMAIN m.projects[p] = {"settings", "includes"}
          /\ SettingsOK(m.projects[p].settings)
          /\ m.projects[p].includes \in Seq([dir : Seq(STRING), stem : Seq(STRING)])

(* What is put into a namespace file is a document, and set is given a key *)
(* path of one part at least and a text (action.go, readDoc, strings.Split)*)
ASSUME DocumentsAssumption ==
    \A s \in Scenarios :
        /\ \A f \in DOMAIN s.files : ContentOK(s.files[f])
        /\ \A e \in s.fileEdits : ContentOK(e.nodes)
        /\ \A c \in DOMAIN s.creators : \A i \in DOMAIN s.creators[c].template :
              ContentOK(s.creators[c].template[i].content)
        /\ \A p \in DOMAIN s.setters :
              s.setters[p].path \in Seq(Part) \ {<<>>} /\ s.setters[p].value \in STRING

ASSUME StoresAssumption ==
    \A s \in Scenarios : StoreOK(s.store) /\ \A t \in s.storeEdits : StoreOK(t)

ASSUME ManifestsAssumption ==
    \A s \in Scenarios :
        /\ ManifestOK(s.manifest) /\ \A m \in s.manifestEdits : ManifestOK(m)
        /\ \A r \in DOMAIN s.readers :
              SettingsOK(s.readers[r].flags) /\ SettingsOK(s.readers[r].variables)

(* Where emit's documents go (flags.go, the targets and the slices).       *)
ASSUME TargetsAssumption ==
    \A s \in Scenarios : s.emit # <<>> =>
        /\ s.emit[1].target \in {"k8s", "k8s-bundle", "flat"}
        /\ s.emit[1].secrets \in BOOLEAN /\ s.emit[1].config \in BOOLEAN

(* The state of the workspace and of each command.                         *)
TypeOK ==
    /\ \A f \in DOMAIN files : ContentOK(files[f])
    /\ StoreOK(store) /\ ManifestOK(manifest)
    /\ ignore \in Seq(Line)
    /\ edits \in 0..MaxEdits
    /\ \A c \in DOMAIN touched : touched[c] \subseteq {"files", "manifest", "store", "ignore"}
    /\ \A c \in Creator : creator[c].at \in {"start", "check", "write", "done", "refused", "failed"}
    /\ \A p \in Setter : setter[p].at \in {"start", "write", "done", "refused", "failed"}
    /\ \A r \in Reader : reader[r].at \in {"start", "bases", "overlays", "done", "failed"}
    /\ \A g \in Guard : guard[g].at \in {"check", "read", "write", "done", "failed"}
    /\ packer.at \in {"idle", "start", "plan", "rewrite", "clear", "manifest", "copy",
                      "secrets", "done", "refused", "failed"}
    /\ auditor.at \in {"idle", "start", "resolve", "diagnose", "secrets", "public",
                       "keypairs", "grade", "done", "failed"}
    /\ emitter.at \in {"idle", "start", "explain", "entries", "write", "done",
                       "refused", "failed"}
=============================================================================
