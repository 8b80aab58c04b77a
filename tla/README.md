# Verification of envx

TLA+ modules that model the parts of envx where the order of steps matters, the
TLC runs that check them on small instances, and TLAPS proofs of what holds for
every instance. Paths below are relative to `app/internal/` in the repository.

## 1. The system

envx is a command-line tool. Every command is a short-lived process of its own;
processes share nothing but files, and take no locks on them
(`features/secrets/filestore/repository.go:26` has a TODO for one). Inside a
process there is one goroutine, except in `envx run`.

| component | state | operations | hard behaviour | what makes it correct |
|---|---|---|---|---|
| secrets service (`features/secrets`) | none of its own | set, get, delete, encrypt, decrypt, keypair generate, keypair rotate; queries | several loads and saves per command, a prompt in the middle, a crash or another process between any two | no value moves to another entry, private key before public key before values, bulk commands all or nothing |
| secrets file (`features/secrets/filestore`) | public key per group, values per group and key | load, edit a copy, save whole | last writer wins | what is saved can be loaded again |
| private keys (`features/privatekey`) | `envx.keys`; two environment variables | Resolve over three sources, Set | precedence of sources, a broken source | a broken source is an error and never a fallback; one key per group |
| atomic file (`utils/filex`) | a file, temporary files | WriteAtomic, WriteAtomicPrivate, Read | failures and kills between the system calls, concurrent writers and readers, power loss | old or new content, never a mixture; mode kept; private bytes private; no litter |
| git ignore (`utils/git`) | `.gitignore` | EnsureIgnored | read-modify-write, negated rules | Git ignores the file when it returns, and after it |
| runner (`features/runner`) | child, signal channel, relaying goroutine | Run | signals at any moment, a channel of capacity 1, terminal against supervisor | signals relayed once, twice only where standard input misleads, status mirrored, envx ends with its child |
| substitution (`features/env/syntax`) | value cache, visiting set and stack, memo of raw values | Resolve, Compose, Status | cycles, failures half-way, any order of the keys (Go map iteration) | the outcome of a key depends on the table only, not on what was resolved before |
| environment composition (`features/env`) | merged state with origins | merge, flatten, materialise, get, explain, diff | precedence, tolerant mode, partial failure | the winner is the last layer; a failed key never clobbers the value of the OS |
| env set (`features/env/cli/set`) | an overlay file | read-modify-write of one key path | concurrent sets, structures in the way | structured data is never overwritten; only what changed after the read can be lost |
| pack (`features/pack`) | output directory | Pack, with `--force` | every file read when its turn comes, failure at every write, name collisions | the bundle runs as the workspace does; it holds what was planned and nothing else; a refusal leaves the old one |
| validate (`features/validate`, `core/workspace.go`) | none | checks over all projects, environments and the store | reads spread over the command, two groups of checks that leave codes to each other | what run would fail on is reported; a secret is called unreferenced only if it is |
| emit (`features/emit`) | a document | Render | partial failure, slices | all of what run would give, each entry in the document of its kind, or nothing |
| create (`features/scaffold`) | a directory | Create, with `--force` | lookups before writes, leftovers of a failed create | nothing that was there is replaced |
| configuration (`core`), workspace (`features/workspace`) | the manifest | flags, `ENVX_*`, project layer, global layer | precedence; the manifest read several times per command | the most specific source wins |
| ciphers, shared values, utilities, commands | none | third-party cryptography, YAML nodes, output, cobra | - | - |

**How they interact.** A secrets command calls the secrets service, which calls
the secrets file and the private keys; both write through the atomic file, and
the private keys first through git ignore. `envx run` composes an environment
(composition, materialisation with the secrets resolver, substitution) and hands
it to the runner. set and create write the files that run, get, explain, diff,
pack, validate and emit read; validate and emit judge values through explain;
pack reads manifest, namespace files and the secrets file, and writes a directory.

`PROJECT.json` lists the hazards of each part at their lines.

## 2. The modules

| module | models | source |
|---|---|---|
| `PrivateKeys` | the lookup of a private key over three sources, as an operator | `features/privatekey/service.go`, `filestore/document.go` |
| `SecretsStore` | the seven commands as processes over the secrets file and `envx.keys` | `features/secrets/service_*.go`, `filestore/`, `features/privatekey/filestore/`, `utils/git/ignore.go` |
| `SecretsVault` | what the commands promise when run one at a time: a vault that only set and delete change | abstract |
| `SecretsStore_proofs` | theorems about `SecretsStore`, with any number of processes; with one command at a time also that it implements `SecretsVault` | - |
| `AtomicFile` | writers and readers of one file, system call by system call | `utils/filex/writeAtomic.go`, `read.go` |
| `FileRegister` | an atomic register | abstract |
| `AtomicFile_proofs` | theorems about `AtomicFile` | - |
| `Runner` | `envx run`: main goroutine, relaying goroutine, Go signal runtime, terminal, supervisor, child | `features/runner/service.go`, `process.go`, `cmd/envx/main.go` |
| `Runner_proofs` | theorems about `Runner` | - |
| `Substitution` | the composition of `{{NAME}}` references, as run, get, diff and explain drive it | `features/env/syntax/substitute.go`, `features/env/substitution.go`, `materialize.go`, `effective.go`, `get.go`, `explain.go` |
| `Substitution_proofs` | theorems about `Substitution`: types, cycles, failures | - |
| `SubstitutionValues_proofs` | theorems about `Substitution`: the values and what the commands say | - |
| `Layers` | flattening, layering, provenance, affixes, the OS overlay, as operators | `features/env/flatten.go`, `load.go`, `merge.go`, `effective.go` |
| `Settings` | precedence of flags, variables and the two layers of the manifest, as operators | `core/config.go`, `features/env/flags.go`, `features/workspace` |
| `Resolver` | what a secret reference comes to, and the audit of the store, as operators | `features/secrets/service_resolver.go`, `service_audit.go`, `service_keypair.go` |
| `Workspace` | the files that commands share, and an editor of them | `features/workspace`, `core/workspace.go` |
| `Scaffold` | create | `features/scaffold/service.go` |
| `EnvSet` | set | `features/env/cli/set/action.go`, `core/result.go` |
| `EnvMerge` | run, get, explain and diff as readers of the namespace files | `features/env/manager.go`, `merge.go`, `diff.go` |
| `GitIgnore` | EnsureIgnored over the lines of `.gitignore` | `utils/git/ignore.go` |
| `Pack` | pack | `features/pack` |
| `Diagnosis` | how explain judges a value, next to what run makes of it | `features/env/explain.go`, `materialize.go` |
| `Validate`, `Emit` | validate, emit | `features/validate`, `core/workspace.go`, `features/emit` |
| `Worktree` | all of them over one workspace | - |
| `Worktree_proofs` | theorems about `Worktree`: types and the commands that write | - |
| `WorktreeReads_proofs` | theorems about `Worktree`: emit, validate, and the commands that compose layers | - |
| `Bundle_proofs` | theorems about `Worktree`: what a finished bundle of pack is | - |
| `MC*` | values and symmetries for TLC | - |

The mapping under which `SecretsStore` implements `SecretsVault` (`Vault`, with what
`get` would read of each entry) is at the end of `SecretsStore`, that of `AtomicFile`
onto `FileRegister` (`Register`) at the end of `AtomicFile`.

### SecretsStore

One action per load and per rename, in the order of the code; `run[p]` is the
memory of process `p` and `run[p].pc` where it stands.

| command | actions, in order |
|---|---|
| set | `Begin`, `SetLookup` (public key), `SetPrompt` or `Decline`, `Load`, `Save` |
| get | `Begin`, `GetLookup`, `GetResolve` |
| delete | `Begin`, `DeleteLookup`, `Load`, `Save` |
| encrypt, decrypt | `Begin`, `BulkList`, `EncryptOne`/`DecryptOne` per entry, `Load`, `Save` |
| generate | `Begin`, `GenerateLookup`, `EnsureIgnored`, `LoadKeys`, `SaveKeys`, `Load`, `Save` |
| rotate | `Begin`, `RotateLookup`, `RotateResolve`, `RotateList`, `EnsureIgnored`, `LoadKeys`, `SaveKeys`, `Load`, `Save` (public key), `Load`, `Save` (values) |

`Refuse` is every error the code returns from a check; `Abort` is a failing
system call or a killed process. Both leave the files as the last rename left
them, which is what `AtomicFile` shows of a rename. `Faults` names the commands
during which `Abort` may happen.

Abstractions: a value is a cell (nothing, a plaintext, a text sealed under a key
pair), a key pair is a name, and a ciphertext opens with the private half of its
pair and with nothing else; the names a rotation or a generation mints are
counted from the start of the command. YAML layout, comments, group spelling,
flags and output are left out; so is a plaintext that is itself a complete valid
envelope (`Lookalike` holds those that only start like one), and an `envx.keys`
that somebody broke by hand. Loading `envx.keys` for a save and the save are
separate steps; the Git rule is one step. `ignoreRule` says what `.gitignore`
makes of `envx.keys`: nothing (`"none"`), Git ignores it (`"effective"`), or there is a
rule that a later line negates (`"negated"`); `RulesBefore` holds what it may have been
at the beginning. `EnsureIgnored` adds a rule in the first case only: it takes a
negated rule for one (`utils/git/ignore.go:45`), as `GitIgnore` shows line by line.

### AtomicFile

A directory entry is the variable `target`, or a member of `temps`; `file[f]` is
content, number of blocks written and mode. Actions are the system calls:
`Stat` (fileMode), `CreateTemp`, `WriteBlock`, `Chmod`, `Rename`, `Cleanup` (the
deferred remove), `Fail` for an error of any of them, `Kill`. A reader opens,
reads block by block, and ends. `PowerLoss` belongs to `SpecPower` only.

### Runner

`main` walks through `Start`, `Notify`, `Wait`, `Close`, `Exit`; `relay` is the
goroutine's select loop (`Take`, `Send`, `Leave`). The kernel and the runtime
are external: `Reach` is what a signal does to envx (caught only between
`signal.Notify` and `signal.Stop`), `HandOver` the non-blocking send of
os/signal, `Press` a key on the terminal (envx and child), `Supervise` a signal
to envx alone. `terminal` is a pair: whether envx is the foreground job of one, and
whether standard input is one, which is what the code looks at (`Interactive`);
`pressed` counts the keys. Messages of the runtime that cost no ordering (stdin, stdout, the
environment) are left out.

### Substitution

One command composes the values of an environment. The recursive engine is a
stack machine: `call` says what it is about to do (resolve a name, compose,
return a value or an error), `stack` and `visiting` are the code's, `next` and
`built` are the locals of the `Compose` activations.

| code | actions |
|---|---|
| `materialize` (run, diff) | `Materialize` |
| the key asked of get and explain | `Request` |
| the loops over keys of `substituteAll`, `resolveEffectiveTolerant`, `Explain` | `Ask`, `Diagnose` (a value explain judges without the engine), `Finish` |
| `Substituter.Resolve` | `Hit` (cache), `Circle` (visiting), `Enter` (memo, opaque), `Composes` and `Unwind` (leaving the path) |
| `Substituter.Compose`, `reference` | `Reference`, `Receive` |
| what a caller does with the result | `Succeed`, `Fail`; `Downgraded` is `downgradeFailures` |

The input `w` is a merged namespace (per name: absent, plain text or secret, the
references in its text, whether it can be read), the names the OS environment
sets, `--overload`, the command and the key it was given (`Asked` is that key, or
all). `Declared`, `Opaque` and `Selected` are the
symbol tables: run and diff build theirs from what they could read, get and
explain read on demand. Keys are asked in any order, which covers Go's map order
and explain's sorted one. A text is its sequence of references and a value is
the tree of what it was composed from, so that two values are equal if they were
composed in the same way; a secret's references are those in its plaintext.
`reads` counts per variable how often its value was given to the resolver: by
`Materialize` for all, by `RawValue` on demand, and by `Diagnose` for a row of explain.

The reference definition (`Good`, `Fate`, `Meaning`, `Needed`) has no engine: the
names that have a value are the least set closed under composing, a name is
circular if its first references without a value lead round, and a value is the
unfolding of its text.

Left out: tokenising (escapes, custom patterns), malformed secret references, a
list with several secrets, masked get and diff (they compose nothing), and the
resolver itself beyond success and failure. diff composes two environments one
after the other; each is one command here.

### Worktree

`Workspace` holds what the commands share: `files` (a content per directory and
stem), `manifest`, `store`, `ignore`. A content is a tree of nodes by key path, or
not YAML at all. A command is a record that says how far it is (`at`) and what
it has in memory; each of its actions reads, or replaces, one file as a whole,
which `AtomicFile` shows to be sound. `Edit` is any other program. `scenario`
is the initial workspace with the commands that run in it and the changes the
editor may make. `touched` has a set for each of pack, validate and emit: the kinds
of file (namespace files, manifest, store, ignore rules) changed by anyone since
that command began, for properties that compare its outcome with what the files
were.

| command | actions, in order |
|---|---|
| create | `CreateStart`, `CheckConflict` per file unless forced, `CreateWrite` per file |
| set | `SetRead`, `SetWrite` |
| run, get, explain (one side), diff (two) | `MergeStart`, `ReadBase` per namespace, then per side `OpenSide`, `ReadOverlay` per namespace, `MergeDone` |
| EnsureIgnored | `CheckIgnore`, `ReadIgnore`, `WriteIgnore` |
| pack | `PackStart`, `Plan`, `Rewrite`, `Clear`, `WriteManifest`, `Copy` per file, `Scan`, `CopySecrets` |
| validate | `ValidateStart`, `ResolveNext` per project, `DiagnoseNext` per project and environment, `CheckSecrets`, `CheckPublicKeys`, `CheckKeypairs`, `Grade` |
| emit | `EmitStart`, `EmitExplain`, `EmitEntries`, `EmitWrite` |

`SetFails`, `CreateFails`, `IgnoreFails`, `PackFails` and `EmitFails` are a
failing write or a killed process.

Stems, key names and environments are sequences of pieces, so that a stem can end
like an overlay (`a.dev`) and a path can spell a variable in two ways
(`log.level`, `log_level`). A secret's text is its reference; a key pair is a
name. Explain and the scan of pack read all namespace files of one environment in
one step, the checks of one group of key pairs in `CheckKeypairs` too; `EnvMerge`
is where reads interleave file by file. `Diagnosis` takes from `Substitution` what
references between variables come to.

The limit on the length of file names in pack is the sequence `Suffix` of the suffixes
for which there is room, the same for all names: when the last one is taken the
name is too long and pack refuses.

Left out: comments, indentation and blank lines of an edited overlay; flags of emit
and validate that only override settings of the manifest; the texts of YAML, JSON and
dotenv, and the data key of a bundle resource.

What the models assume, because the code does nothing about it, and what a reader
should therefore not expect: two concurrent sets of one overlay may lose one of
the two; a set of a path that spells an existing variable in another way leaves an
overlay that no longer loads; two creates, or an editor, may replace each other's
files after both have looked; an output directory that is filled between pack's
check and its first write is merged into; `pack --force` into a directory that
holds its own sources removes them; when the manifest changes between pack's two
reads of it, an include that the plan does not name keeps its old path; a
reference added to a file between pack's copy and its scan is not in the store of
the bundle; a secret and its first reference added while validate is between its
reads are reported as unreferenced, and so is a secret whose only reference is
hidden by an OS variable; `isBaseSource` takes a base file whose name ends like
an overlay for an overlay; a private-key source that cannot be read ends validate,
although a failure of one value does not; emit refuses an environment with an empty
list that run accepts; a value that is composed from a secret (`{{NAME}}`) counts
as config and goes to the ConfigMap without a warning.

## 3. The runs

| run | instance | what it shows |
|---|---|---|
| `secrets_serial` | one process at a time, one group, two keys, two texts per entry (one looks like an envelope), five environments, three key pairs; any command but rotate may be killed anywhere | `VaultSpec`: the commands implement the vault; `RecoverableAtRest`: between commands every sealed value opens with `envx.keys`; `BulkAllOrNothing`; `RotatorCanRead`; `AlwaysLoadable` |
| `secrets_concurrent` | two processes, one group, two keys, two key pairs, any command, killed anywhere | what survives without locks: `ValuesAuthentic`, `DeliveredFirst`, `IgnoredFirst`, with no rule in `.gitignore` or a negated one |
| `secrets_rotate_crash` | one process that may die in a rotation | **violation** of `ReadableAtRest` |
| `atomic_file` | two writers, one reader, two contents of two blocks, three modes, four files | `RegisterSpec`: an atomic register; `TargetWhole`, `NeverExposed`, `NoLitter`, `ModeKept` |
| `worktree` | 1862 workspaces in families, one per question (below), each with its commands and one edit at any moment | `CreateSpares`, `SetTakesEffect`, `LastSpeakerWins`, `DiffExplained`, `IgnoredAsTold`, `BundleFaithful`, `BundleExact`, `RefusalKeepsBundle`, `OrphansReal`, `FailuresReported`, `EmitWhole` |
| `pack_capture` | an include without an overlay beside one whose stem reads like that overlay | **violation** of `BundleFaithful` |
| `validate_clean` | a secret sealed under a pair that is no longer its group's | **violation** of `UndecryptableReported` |
| `atomic_power_loss` | one writer, power loss | **violation** of `TargetWhole` |
| `runner` | two signals (one the terminal sends), each sent up to twice, terminal or supervisor, standard input redirected or not | `DeliveredOnce`, `Mirrored`, `EndsWithChild`, `Responds` |
| `runner_orphan` | the same | **violation** of `NoOrphan` |
| `substitution` | every table of three names with at most two references in a value and three in all, at most one variable of the OS, `--overload` or not, six commands, get of each key, explain of each or of all, keys in any order (up to the names exchanged) | `OutcomeExact`, `CacheExact` (the engine computes the reference definition), `CycleReal`, `ReadNarrowly`, `ChildConsistent`, `AllOrNothing`, `NeverClobbered`, `AgreesWithRun`, `Terminates` |
| `explain_status` | two names, a masked explain | **violation** of `StatusMeaningful` |

**Why the bounds are enough.** The secrets invariants relate one entry to its
group's two key halves; a wrong interleaving needs two processes (a third can
only repeat what the second does to the files), two entries (to confuse one with
another) and two pairs (old and new); a serial history needs a third pair to
rotate twice. A file of two blocks can be torn; four files let two writers be in
the middle of a write while the target and an orphan exist. Two signals are
enough to fill a channel of one. In a table of three names, three references
form every cycle with and without a tail, a name reached twice, a failure behind
a success in one text, and two failures that meet; names are numbered by the
`Weight` of their values (the number of references, then absent before plain before
secret), which leaves out only tables with names exchanged. `--overload` is varied
where it can matter, with a name that both the OS and a namespace have; without it
the text that the OS hides is never looked at and is one and the same. At most
one value per table is of the kind that explain alone tells from others
(`Hidden`).

The families of `worktree`: two creates over every set of existing files; every
document over `log`, `log.level` and `log_level` with every key path, and pairs
of sets; two namespaces, one of them included twice, with every way to set an
affix, `overload` and `require` in flag, variable, project and global layer, for
one environment and for a diff; every `.gitignore` of the interesting shapes with
two processes and every condition of Git; four projects whose names collide after
sanitising, with includes whose stems collide or end like an overlay, a store,
`--force` and old files; two suffixes (`MCSuffix`), with more includes, and more
projects, of one name than that; environments that are declared twice; every condition of a secret and its key (sealed,
foreign algorithm, plain, absent; public key or not; private key right, wrong,
unavailable, broken) under values that are plain, secret, misspelt, composed,
circular and composed from nothing; lists of two items, one of them a secret that is
missing, misspelt, plain, stale or in order, the other a secret, a text or composed
(`ListScenarios`); every target and slice of emit. One edit is
enough: a property that a change can break compares two reads, and one change
between them makes them differ; a second could only undo it or bring it about
in two steps. Two namespaces and two environments give every order of
base, overlay, namespace and OS; three stems in one directory give every collision
of a name with the first, with a numbered one and with an overlay, and a fourth file of
the name finds no suffix left.

The type invariants of `AtomicFile` and `Runner` are proved and not run again.

**Deadlock** is checked except in the configurations of the runner of the
substitution and of the worktree: there the system ends, with envx gone or every
command done, refused or failed.

**Fairness** is assumed in `Runner` and `Substitution` only. A command that
composes is one goroutine that never waits: weak fairness of `Next` says that it
goes on. In the runner it is weak fairness of each step of the two
goroutines and of the runtime's hand-over, which the Go scheduler and the kernel
give to whatever can run. Nothing is assumed about the child ending, about
users or about supervisors. The secrets commands promise nothing that must
eventually happen, since every step may be the last of its process.

## 4. What the violations say

* `secrets_rotate_crash`: rotation stores the new private key over the only copy
  of the old one and commits the values two file writes later
  (`features/secrets/service_keypair.go:212`, `:219`, `:227`). The comment at
  152 claims generation's safe write order; for rotation the same order is not
  safe.
* `atomic_power_loss`: "durably" (`utils/filex/writeAtomic.go:11`) holds for a
  crash of the process, not of the machine: nothing is synced.
* `runner_orphan`: handlers are installed after the child has been started.
* `explain_status`: `features/env/explain.go:80` says that diagnosis still
  decrypts when masked, so that the status stays meaningful. It does for a key
  that is a secret reference; for a key that refers to one the masked resolver
  answers with the canonical reference (`features/secrets/service_resolver.go:114`)
  and the status is ok whether or not run can decrypt it.
* `pack_capture`: pack gives each include a stem of its own and keeps free the names
  of the files it copies, but not those of the overlays that an include does not
  have (`features/pack/names.go:123`). Beside `x/a`, the file of `y/a.dev` becomes
  `a.dev.yaml` in the bundle, where it is also read as the overlay of `a` for `dev`.
  `BundlesAreFaithful` shows that this is the only way in which such a bundle can differ.
* `validate_clean`: a ciphertext that does not open with its group's key gets a code
  that validate leaves to the checks of the store
  (`features/validate/validate.go:127`), and these compare the two halves of the
  pair only. `SECRET_REFERENCE_IS_UNRESOLVED`, which the comments reserve for it
  (`shared/status/status.go:42`), is never produced.

Proving `FailuresReported` showed two more places where validate says less than
`.plans/20260921-PLAN.md:113` asks of it ("a dangling reference exits non-zero and
lists it"), both for a list, which gets one code for all its items. If one item is
composed (`{{NAME}}`), the list is judged as composed and a missing secret beside it
is not looked for (`features/env/explain.go:210`); if one item is a stale secret, its
code, which validate leaves to the checks of the store, stands for the whole list, and
a missing or misspelt item after it is not shown, being no more severe
(`features/env/explain.go:312`). `Hides` says which lists these
are, `FailuresReported` excludes them, and `ListScenarios` has both. A run with no
finding about such a list still fails when it is composed.

Two limits of the runner are in the model. Four signals share a channel of one, so a
signal that finds it full is dropped (`Responds` says what is left: one of them
arrives). And standard input stands in for "attached to a terminal": a foreground envx
whose input is redirected takes the terminal for absent and gives its child Ctrl+C a
second time, against `features/runner/process.go:22`, which calls that duplicate what
the check is there to avoid. The runs include this case; `DeliveredOnce` allows there,
and nowhere else, one more delivery per key press (`Misjudged`), and TLC finds states in
which each of two presses has arrived twice, so nothing tighter is true.

The same holds for a rule that `.gitignore` negates later on. EnsureIgnored leaves it
as it is and the private key is written to a file that Git does not ignore
(`utils/git/ignore.go:45`, `features/privatekey/filestore/repository.go:84`).
`IgnoredFirst` and `IgnoredAsTold` exempt this case by name, and it is in the bounds of
both.

How often a secret is decrypted: composing decrypts what a variable holds once, however
often it is referred to. explain decrypts it once more for the variable's own row, which
goes to the resolver past the memo (`features/env/explain.go:308`), masked or not; so a
variable that is explained and referred to is read twice, and `ReadNarrowly` says so.
Two variables that refer to one secret are two variables to it.

What two secrets commands at once may do to each other is more than the properties of
`secrets_concurrent` exclude: an update may be lost or an old value come back, and two
generations may leave a key pair whose halves do not match. `ValuesAuthentic` and
`DeliveredFirst` hold in spite of this and would not show it; that nothing of the kind
happens to commands one at a time is what `VaultSpec` and `RecoverableAtRest` say.

Two more differences between explain and run, both from the literal text that
`diagnoseEntry` looks at, are in the model and in the inputs of `substitution`,
and are why `AgreesWithRun` has two premises: a revealed secret whose plaintext
holds a reference is substituted by run and shown as it is by explain, and a
list with an item that contains the delimiter fails in run and is joined by
explain.

## 5. The proofs

Every invariant and every action property that a passing run checks is a theorem,
except those named under *Only model-checked*. `BundleFaithful` needs a
premise, as a run that violates it shows. The theorems hold for every value
of the constants that satisfies the assumptions the modules name; TLC evaluates
each of these assumptions in the runs.

### Secrets

`SecretsStore_proofs` proves, for any sets of processes, groups, keys, texts and
environments, any number of key pairs, and failures anywhere:

* `TypeCorrect`: `Spec => []TypeOK`;
* `WriteOrder`: `Spec => []DeliveredFirst`;
* `Authenticity`: `Spec => []ValuesAuthentic`;
* `IgnoreRuleFirst`: `Spec => []IgnoredFirst`, whatever rule there was before;
* `Loadable`: `Spec => []AlwaysLoadable`.

They rest on the assumptions the modules name (`PairsAssumption`,
`NoKeyAssumption`, `StoreAssumption`) and on nothing else.

None of the five is inductive: what reaches the file was read, often several
steps earlier, into some process's memory. The inductive invariant `IInv`
therefore says the same of every document, key and staged value in memory as of
the file (`DocOK`, `CellOK`), and ties each step label to what the process must
hold at that point (`RunOK`: for instance a process past `SaveKeys` holds a pair
that is in `delivered`; one past `EnsureIgnored` runs where there is a rule, if only
a negated one).
Since `delivered` only grows and a rule never goes, what a process once knew stays true
while others move, and one lemma per action shows that the actor's own new
memory satisfies `RunOK`.

It also proves, on top of these and assuming `OneAtATime` (no two
processes) and `RotationsFinish` (every command but rotate may fail or be killed
anywhere):

* `AtRest`: `Spec => []RecoverableAtRest`;
* `BulkComplete`: `Spec => BulkAllOrNothing`;
* `RotatorReads`: `Spec => RotatorCanRead`;
* `ImplementsVault`: `Spec => VaultSpec`.

Both assumptions are needed: `secrets_concurrent` leaves out what two processes break,
and `secrets_rotate_crash` shows what a rotation that dies does. `SInv` says that each
group is `Settled` (the private key is that of the public key, and opens every value)
unless a rotation is between its two saves (`FilesOK`); that what the process has in
memory is what the files hold (`CopiesOK`); that the staged cells of a bulk command
(`BulkOK`) and of a rotation (`RotateOK`) are the group's cells converted, no more and
no fewer; and that a set seals under the key of its group, and a generation meets a
group in which nothing is sealed. For the
refinement, a save of set or delete is a step of the vault, and each other step
leaves what can be read of each entry as it is: a bulk save because staged and stored
cells have the same text, a rotation because `ReadBack` finds in
the staged cells what the file and `envx.keys` do not show between its saves.

### Substitution

`Substitution_proofs` proves, for any finite set of names, any inputs and any
order of the keys:

* `TypeCorrect`: `Spec => []TypeOK`;
* `OutcomeSound`: a key is answered with a value exactly if it is in `Good`, and
  only names in `Good` are cached;
* `FailClosed`: `Spec => []AllOrNothing`;
* `OsPreserved`: `Spec => []NeverClobbered`;
* `CyclesReal`: `Spec => []CycleReal`.

They rest on `WorldsAssumption` (the inputs have their types). The inductive
invariant `IInv` says of the path that each name on it is reached by the
reference at which the one below it stands, and that every reference before that
has composed (`PathOK`); of the call, that a value is returned only for a name
in `Good` and an error only for one outside (`CallOK`). Leaving the path with a
value then needs `GoodClosed` (all references settled: the name is in `Good`),
leaving it with an error `GoodComposable` (one unsettled: it is not), and
reporting a cycle `NoGoodCycle`: a set of names each of which refers into the set
is disjoint from the least set of names that compose. `CommandOK` carries this
over to answers and results.

`SubstitutionValues_proofs` proves what the values are:

* `OutcomeIsFate`: `Spec => []OutcomeExact`; beyond `OutcomeSound` it tells circular
  from unresolved. `ErrorOK` ties an error that travels up the path to the name it
  blames, and a path of first unsettled references either comes round or ends
  (`Blamed`);
* `ReadsNarrow`: `Spec => []ReadNarrowly`; for get and explain what is memoised, or on
  the path, is needed for the keys that are composed, since each name is reached through
  references, and a variable was given to the resolver no more than once for the memo and
  once for a row that is through (`LazyOK`);
* `ChildSeesOne`: `Spec => []ChildConsistent`; each value that is cached, built or
  handed out was composed from cached values (`ValuesOK`, `OutOK`);
* `CacheMeans`: `Spec => []CacheExact`; `Meaning` unfolds the table to
  a depth, so `DepthOK` says that a cached value is its name's unfolding at every depth
  that is at least the number of cached names, and each name that is added needs one
  more;
* `CommandsAgree`: `Spec => []AgreesWithRun`; `JudgedOK` has which
  keys a command answers, and that an answer is that of `Good` but for the literals that
  explain judges without the engine.

### Atomic file, runner

`AtomicFile_proofs` proves, for any sets of files, writers, readers and contents,
any number of blocks, and kills anywhere, from `FileAssumption`:

* `TypeCorrect`, `Whole`, `Privacy`, `Clean`: `Spec => []` of `TypeOK`,
  `TargetWhole`, `NeverExposed`, `NoLitter`;
* `ModePreserved`: `Spec => ModeKept`;
* `Refines`: `Spec => RegisterSpec`.

`IInv` adds that no two writers share a temporary file (`Apart`) and that the target
is no temporary file, so that nobody writes to what another one renames; that a
writer about to rename holds a whole file with the content it was given; and that
the mode it looked up first is still the one the target has to get (`Promised`):
all writers of a file look it up in the same way, so each rename keeps what the
others have seen. For the refinement, `Mapped` shows that the mapped variables are
never torn; a rename then is a write of the register, an open a read, and
everything else a stutter.

`Runner_proofs` proves, for any signals, capacity and exit codes, from
`RunnerAssumption`:

* `TypeCorrect`, `Mirror`: `Spec => []TypeOK`, `Spec => []Mirrored`;
* `OnceOnly`: `Spec => []DeliveredOnce`, with any terminal and any standard input.

`LifeOK` ties the main goroutine's position to the child's life; `Mirror` follows.
`OnceOnly` needs a count: for a signal that is relayed, what has arrived, what the
runtime has caught, what is in the channel and what the goroutine has in its hand
are together never more than what was sent, or what was pressed where the terminal
delivers and the relay is misled (`CountOK`). The channel is a sequence,
and the lemmas about `Positions` say how its tail and an append change the number of
a signal's places in it.

### Worktree

`Worktree_proofs` proves, for any scenarios and any number of commands:

* `TypeCorrect`: `Spec => []TypeOK`;
* `RefusalSafe`: `Spec => []RefusalKeepsBundle`;
* `FreshBundle`: a finished bundle has planned files only;
* `IgnoreKept`: `Spec => []IgnoredAsTold`;
* `SetExact`: `Spec => []SetTakesEffect`;
* `CreateKeeps`: `Spec => []CreateSpares`, assuming that two creates write the same to a
  file (`OneTemplate`: envx embeds one template) and that no set runs beside them
  (`NothingSet`).

`PackInv` says what bundle and plan are at each position of the command. `IgnoreInv`
carries, per call, that what it settled on ignores the file; a write ends in the
rule, which settles the matter for every other call at once (`IgnoreSettled`).
`CreateInv` says that a file is one of those at the beginning or is as the template has
it (`Explained`), and what each create has found out about the former by its lookups
(`Knows`): a create that gets to writing knows that no file of its template was there
at the beginning, so that what it replaces, if anything, is what another create wrote.
`FilesInv` says that every content, in the files and in the memory of every command, is
a document, and of a set what it read and what it made of that (`SetOK`); `SetEffect`
then is a fact about one document: which leaves it has after the edit, and which
variables these spell.
`PlacesInv` has the positions of the commands, for `TypeOK`.

`WorktreeReads_proofs` proves about the commands that read:

* `EmittedWhole`: `Spec => []EmitWhole`;
* `OrphansAreReal`: `Spec => []OrphansReal`;
* `FailuresAreReported`: `Spec => []FailuresReported`;
* `LastWordWins`: `Spec => []LastSpeakerWins`;
* `DiffIsOfOverlays`: `Spec => []DiffExplained`.

`EmitInv` says that as long as nothing was touched since emit began, what it has
explained and selected is what the files come to (`EmitKnows`), and that the output is
the earlier one until the last step. `AuditInv` does so for validate: the worlds it has
been through are the first of those of the manifest, and its report has what each of
them calls for (`AuditKnows`); `OrphansKnown` says that an orphan is a secret that the
merges did not come across. From there both are facts about one workspace: what explain says of a
value against what run makes of it.

For the layers, `ReadInv` says of every side of a run or diff that its state is `Layered`
over the chain of the files read so far (`ChainOf`): every key has the value that the
last file of the chain that mentions it gives it, and its origins are all that do.
`LayeredGrows` carries this over one namespace (its base, then its overlay);
`AffixedTold` and `SelectedOrigins` over the affixes and the OS. For a
diff, `SidesShare` says that of a key that no overlay of either side mentions the two
chains tell the same, since they have their bases in common: what differs comes from
an overlay.

`Bundle_proofs` proves what pack makes, for any workspace, names, environments and
number of suffixes:

* `BundlesAreExact`: `Spec => []BundleExact`;
* `BundlesAreFaithful`: `Spec => [](NoCapture => BundleFaithful)`.

*Names.* Each new name is tried against all that were given before, so the directories
(`DirsApart`), the stems of a project's includes (`StemsApart`) and the places of all
copies (`CopiesApart`) are apart, whatever the projects and files are called and
however few suffixes there are. The last is not immediate: two stems that differ may
still make one file name with two environments (`a` with `b.dev`, `a.b` with `dev`), and
it takes the set of output names that the code keeps to exclude it. Nothing is assumed
about environments: one may be declared twice, and then a file is planned twice, from
one source to one place. This is why `Apart` says that copies with one place have one
source, and not that places are distinct.

*Steps.* `BundleInv` says what bundle and plan are at each position: while copying, that
the files written are the places of the copies done so far and, if no namespace file was
touched, have the content of their sources (`Copied`); after the scan, that the
references collected are those of the sources (`Scanned`); in the end, that the store has
those of them that it could have. `BundleExact` follows with `CopiesApart`: a later copy
overwrites an earlier one with the same content only.

*Faithfulness.* `StillInv` says that as long as nothing is touched the plan is that
of the workspace as it is (`PlanFits`), the manifest in the bundle is the rewritten one,
and the secrets in its store are those of the workspace. The same files under other
names then compose to the same values (`MovedComposes`), and every item of these values
stands in a copied file (`ComposedItems`), so that its secret was scanned. What is left is
that an include finds under its new name its own base and overlay, or none if it had none
(`LayerMoved`). It finds its own since `Outputs` are apart; that it finds none is what
`NoCapture` says, and what the code does not see to: `pack_capture` is a workspace without
it. So a capture is the only way in which the bundle of a still workspace can
run otherwise than the workspace. TLC found `NoCapture` true of every finished pack in the
scenarios of `worktree`.

The assumptions on the scenarios are types: files and edits hold documents
(`DocumentsAssumption`), stores and manifests have their shape (`StoresAssumption`,
`ManifestsAssumption`), emit is asked for a target it knows (`TargetsAssumption`),
projects are names (`ProjectAssumption`), key names spell words (`WordsAssumption`),
sanitised names and suffixes are text (`NamesAssumption`).

**Recursive definitions.** What the layers and the values come to is recursive: a depth
(`Meaning`), a sequence of files (`Composed`, `Those`) or of key parts (`EnvKey`). The names that pack
gives are built one after another (`ProjectDirs`, `Stems`, `Once`). These
are recursive functions, not recursive operators. `SetInduction` states induction over
the naturals with the set of numbers for which a claim holds, and follows from the
well-foundedness of `<`; each recursive function then has a lemma with its two
equations and one by induction on its argument. For a function that is built step by
step, `Recursion` gives both at once.

**Only model-checked**: `EndsWithChild`, `Responds` and `Terminates`, since liveness, and
what is enabled, is out of the prover's reach; and that `BundleFaithful` holds without the
premise `NoCapture` in the workspaces of `worktree`.

## 6. Plan

The modules planned at first are written, and their safety properties proved. What is
left, in this order:

1. `SecretsStore` and `Worktree` over one secrets file, so that a rotation runs beside
   pack, validate and emit; now they meet in the editor's changes of `store`.
2. The search for the manifest and the wiring in `core/composer.go`.

## 7. Not modelled

Output and wording (printer, style, the renderers of explain, diff and validate,
the texts that emit writes), YAML nodes and strict decoding (library glue),
cryptography (third-party), the contents of templates and flag parsing (cobra).
