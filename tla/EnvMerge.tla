------------------------------ MODULE EnvMerge ------------------------------
(***************************************************************************)
(* A command that composes an environment from the namespace files: run,   *)
(* get and explain for one environment, diff for two                       *)
(* (features/env/merge.go, manager.go, diff.go).  It reads one file per    *)
(* step, so the files may change between its reads.                        *)
(***************************************************************************)
EXTENDS Workspace

VARIABLES
    reader,     \* per reader: its command and how far it is
    seen        \* per reader: the contents it has read, for the properties

mergeVars == <<reader, seen>>

Reader == DOMAIN reader

(* Commands: [project, asked: one or two environments, union, flags,       *)
(* variables, os].  union is set for a child process (run).                *)
MergeInit ==
    /\ reader = [r \in DOMAIN scenario.readers |->
           [cmd |-> scenario.readers[r], at |-> "start", params |-> NoSettings,
            envs |-> <<>>, bases |-> <<>>, states |-> <<>>, i |-> 0]]
    /\ seen = [r \in DOMAIN scenario.readers |-> <<>>]

Sides(r) == Len(reader[r].states)
Step(r, change) == reader' = [reader EXCEPT ![r] = Changed(@, change)]
Fails(r) == Step(r, [at |-> "failed"]) /\ UNCHANGED seen

(* ResolveProject: load the manifest, resolve the settings, validate the   *)
(* environments the operation will use.                                    *)
MergeStart(r) ==
    LET cmd == reader[r].cmd
        known == ValidManifest(manifest) /\ cmd.project \in DOMAIN manifest.projects
        params == EnvmergeParams(manifest, cmd.project, cmd.flags, cmd.variables)
        envs == [s \in DOMAIN cmd.asked |-> Environment(cmd.asked[s], params)]
    IN
    /\ reader[r].at = "start"
    /\ IF known /\ \A s \in DOMAIN envs : envs[s] \in ToSet(params.environments)
       THEN /\ Step(r, [at |-> "bases", params |-> params, envs |-> envs, i |-> 1])
            /\ UNCHANGED seen
       ELSE Fails(r)

(* loadNamespaces: every base once, also for a diff; a base is required.   *)
ReadBase(r) ==
    LET m == reader[r]
        f == Base(m.params.includes[m.i])
    IN
    /\ m.at = "bases" /\ m.i \in DOMAIN m.params.includes
    /\ IF f \in DOMAIN files /\ Flattens(files[f])
       THEN /\ Step(r, [bases |-> Append(m.bases, files[f]), i |-> m.i + 1])
            /\ UNCHANGED seen
       ELSE Fails(r)

(* mergeLoaded begins one side with nothing.                               *)
OpenSide(r) ==
    LET m == reader[r] IN
    /\ \/ m.at = "bases"
       \/ m.at = "overlays" /\ Sides(r) < Len(m.envs)
    /\ m.i \notin DOMAIN m.params.includes
    /\ Step(r, [at |-> "overlays", i |-> 1, states |-> Append(m.states, NoLayers)])
    /\ seen' = [seen EXCEPT ![r] = Append(@, <<>>)]

\* Mutant of ReadOverlay: each side reads its bases again.
ReadOverlayAfresh(r) ==
    LET m == reader[r]
        inc == m.params.includes[m.i]
        env == m.envs[Sides(r)]
        over == ContentOr(files, Overlay(inc, env))
        base == ContentOr(files, Base(inc))
    IN
    /\ m.at = "overlays" /\ m.i \in DOMAIN m.params.includes
    /\ IF (m.params.require => Overlay(inc, env) \in DOMAIN files)
          /\ Flattens(over) /\ Flattens(base)
       THEN /\ Step(r, [i |-> m.i + 1, states |-> [m.states EXCEPT ![Sides(r)] =
                    Integrate(@, inc, env, base, over)]])
            /\ seen' = [seen EXCEPT ![r][Sides(r)] = Append(@, over)]
       ELSE Fails(r)

(* loadNamespace: one overlay is read and its namespace integrated.        *)
ReadOverlay(r) ==
    LET m == reader[r]
        inc == m.params.includes[m.i]
        env == m.envs[Sides(r)]
        over == ContentOr(files, Overlay(inc, env))
    IN
    /\ m.at = "overlays" /\ m.i \in DOMAIN m.params.includes
    /\ IF /\ m.params.require => Overlay(inc, env) \in DOMAIN files
          /\ Flattens(over)
       THEN /\ Step(r, [i |-> m.i + 1, states |-> [m.states EXCEPT ![Sides(r)] =
                    Integrate(@, inc, env, m.bases[m.i], over)]])
            /\ seen' = [seen EXCEPT ![r][Sides(r)] = Append(@, over)]
       ELSE Fails(r)

(* All namespaces of all sides are in: affixes, then the OS environment.   *)
MergeDone(r) ==
    LET m == reader[r] IN
    /\ m.at = "overlays" /\ m.i \notin DOMAIN m.params.includes
    /\ Sides(r) = Len(m.envs)
    /\ Step(r, [at |-> "done", states |-> [s \in DOMAIN m.states |->
           Selected(Affixed(m.states[s], m.params.prefix, m.params.suffix),
                    m.cmd.os, m.params.overload, m.cmd.union)]])
    /\ UNCHANGED seen

MergeNext ==
    \E r \in Reader :
        \/ MergeStart(r) \/ ReadBase(r) \/ OpenSide(r)
        \/ ReadOverlay(r) \/ MergeDone(r)

-----------------------------------------------------------------------------
(* What the layers mean, without a loop: the files that were read, oldest  *)
(* first, and who of them says something about a key.                      *)

Chain(r, s) ==
    LET m == reader[r]
        base(i) == [file |-> Base(m.params.includes[i]), content |-> m.bases[i]]
        overlay(i) == [file |-> Overlay(m.params.includes[i], m.envs[s]),
                       content |-> seen[r][s][i]]
    IN  [j \in 1..(2 * Len(m.bases)) |->
            IF j % 2 = 1 THEN base((j + 1) \div 2) ELSE overlay(j \div 2)]

Wrapped(r, key) == reader[r].params.prefix \o key \o reader[r].params.suffix

Unwrapped(r, key) ==
    LET p == reader[r].params IN
    SubSeq(key, Len(p.prefix) + 1, Len(key) - Len(p.suffix))

Speakers(r, s, key) ==
    Those(Chain(r, s), {layer \in ToSet(Chain(r, s)) :
        \E k \in Keys(layer.content) : Wrapped(r, k) = key})

(* A finished composition gives every key the value of the last file that  *)
(* mentions it, or of the OS environment when that goes first, and names   *)
(* every file that mentions it, oldest first, exactly once per reading: a  *)
(* namespace included twice is read, and named, twice (merge.go,           *)
(* integrateSources; effective.go, applyOSEnvironment).                    *)
LastSpeakerWins ==
    \A r \in Reader : reader[r].at = "done" =>
        \A s \in DOMAIN reader[r].states :
        LET state == reader[r].states[s]
            os(k) == k \in reader[r].cmd.os
            overload == reader[r].params.overload
            named(k) == [j \in DOMAIN Speakers(r, s, k) |->
                           Speakers(r, s, k)[j].file]
            told(k) == LET o == state.origins[k]
                           all == Append(o.shadowed, o.winner)
                       IN  [j \in DOMAIN all |-> all[j].file]
        IN
        /\ DOMAIN state.origins = DOMAIN state.values
        /\ \A k \in DOMAIN state.values :
            IF Speakers(r, s, k) = <<>>
            THEN reader[r].cmd.union /\ os(k)
            ELSE LET last == Last(Speakers(r, s, k)).content IN
              /\ state.values[k] = IF os(k) /\ ~overload THEN Opaque("os")
                                   ELSE Flat(last)[Unwrapped(r, k)]
              /\ IF ~os(k) THEN told(k) = named(k)
                 ELSE IF overload
                 THEN told(k) = Front(named(k)) \o <<OsSource(k).file, Last(named(k))>>
                 ELSE told(k) = Append(named(k), OsSource(k).file)

(* Two sides of a diff differ in a key only where an overlay of one of     *)
(* them mentions it: the bases are one snapshot, whoever writes a base in  *)
(* the meantime (diff.go, Diff).                                           *)
DiffExplained ==
    \A r \in Reader : reader[r].at = "done" /\ Sides(r) = 2 =>
        LET a == reader[r].states[1].values
            b == reader[r].states[2].values
            mentioned == UNION {Keys(seen[r][s][i]) :
                s \in 1..2, i \in DOMAIN reader[r].params.includes}
        IN  \A k \in DOMAIN a \cup DOMAIN b :
              Unwrapped(r, k) \notin mentioned =>
                  k \in DOMAIN a \cap DOMAIN b /\ a[k] = b[k]
=============================================================================
