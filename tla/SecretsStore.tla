------------------------------ MODULE SecretsStore ------------------------------
(***************************************************************************)
(* The secrets commands of envx (features/secrets) over the two files they *)
(* share: the secrets file, which holds the public key of each group and   *)
(* its stored values, and the private-key file envx.keys.                  *)
(*                                                                         *)
(* Every command is an operating-system process of its own.  A process     *)
(* reads a whole file, works on the copy in memory and renames a complete  *)
(* new file into place; there is no lock.  So the steps below are the      *)
(* loads and the renames, one action each, and processes interleave        *)
(* between them.  A process that fails or is killed leaves both files as   *)
(* its last rename left them.                                              *)
(*                                                                         *)
(* A stored value is a cell: nothing, a plaintext, or a text sealed under  *)
(* a key pair (the envelope "encrypted-<algorithm>:<payload>").            *)
(***************************************************************************)
EXTENDS PrivateKeys, FiniteSets

CONSTANTS
  Proc,          \* envx processes that may be alive at the same time
  Key,           \* key names inside a group
  Text,          \* plaintexts
  Lookalike,     \* plaintexts that start like an envelope without being one
  TextFor,       \* TextFor[s]: the plaintexts users give for the slot s
  NoText,        \* no plaintext
  Every,         \* an empty selector: every group, or every key
  Envs,          \* environments processes are started with
  Commands,      \* commands users issue
  Faults,        \* commands whose process may fail or be killed, at any step
  GitAvailable,  \* TRUE: git answers "is envx.keys ignored?"
  RulesBefore    \* what the ignore files may say of envx.keys at the beginning

Slot == Group \X Key

\* No rule and not ignored; ignored by Git; named by a rule that a later line negates.
IgnoreRules == {"none", "effective", "negated"}

ASSUME StoreAssumption ==
  /\ Lookalike \subseteq Text
  /\ TextFor \in [Slot -> SUBSET Text]
  /\ NoText \notin Text
  /\ Every \notin Group /\ Every \notin Key
  /\ Envs \subseteq Environment /\ Envs # {}
  /\ Faults \subseteq Commands
  /\ GitAvailable \in BOOLEAN
  /\ RulesBefore \subseteq IgnoreRules

VARIABLES
  secretsFile,   \* the secrets file: public keys and cells
  keysFile,      \* envx.keys: private keys
  ignoreRule,    \* what the ignore files say of envx.keys
  minted,        \* minted[g]: key pairs named so far for g
  delivered,     \* history: private keys the key file has accepted
  run            \* run[p]: the command process p is executing

vars == <<secretsFile, keysFile, ignoreRule, minted, delivered, run>>

--------------------------------------------------------------------------------
(* Cells and documents *)

NoCell       == [text |-> NoText, under |-> NoKey]
Plain(t)     == [text |-> t, under |-> NoKey]
Sealed(t, k) == [text |-> t, under |-> k]

Cell == {NoCell} \cup [text : Text, under : KeyPair \cup {NoKey}]

IsSealed(c) == c.under # NoKey
IsPlain(c)  == c # NoCell /\ ~IsSealed(c)

Document == [pub : [Group -> KeyPair \cup {NoKey}], cell : [Slot -> Cell]]
Blank    == [s \in Slot |-> NoCell]
NewDoc   == [pub |-> [g \in Group |-> NoKey], cell |-> Blank]

\* ValidateSecretValue: a value that claims the envelope must be one.
Storable(c) == ~(IsPlain(c) /\ c.text \in Lookalike)

--------------------------------------------------------------------------------
(* Commands *)

Request ==
       [op : {"set", "get", "delete"},   group : Group,           key : Key]
  \cup [op : {"encrypt", "decrypt"},     group : Group \cup {Every}, key : Key \cup {Every}]
  \cup [op : {"generate", "rotate"},     group : Group,           key : {Every}]

\* selection.matches: an empty selector matches everything in its dimension.
Selected(r) == {s \in Slot : r.group \in {Every, s[1]} /\ r.key \in {Every, s[2]}}
Explicit(r) == r.group # Every \/ r.key # Every
Target(r)   == <<r.group, r.key>>

Untried == [key |-> NoKey, origin |-> "untried"]

(***************************************************************************)
(* The memory of a process.  `doc` is the secrets file as last loaded,     *)
(* `keys` the key file as last loaded for an update, `held` the key the    *)
(* command works with (the public key for set, the old private key for     *)
(* rotate), `new` the pair it generates, `todo` the entries a bulk command *)
(* has still to convert, `staged` the cells it is going to write, `cache`  *)
(* the private keys a bulk decryption has resolved, and `edit` what the    *)
(* next save changes.                                                      *)
(***************************************************************************)
Idle == [pc |-> "idle", req |-> [op |-> "none", group |-> Every, key |-> Every],
         env |-> CHOOSE e \in Envs : TRUE, edit |-> "none",
         doc |-> NewDoc, keys |-> [g \in Group |-> NoKey],
         held |-> NoKey, new |-> NoKey, todo |-> {}, staged |-> Blank,
         cache |-> [g \in Group |-> Untried], answer |-> NoText]

At(p, l) == run[p].pc = l
Op(p)    == run[p].req.op
Become(p, r) == run' = [run EXCEPT ![p] = r]

Init ==
  /\ secretsFile \in [pub : {NewDoc.pub},
                      cell : {c \in [Slot -> {NoCell} \cup {Plain(t) : t \in Text \ Lookalike}] :
                                \A s \in Slot : c[s] = NoCell \/ c[s].text \in TextFor[s]}]
  /\ keysFile = [g \in Group |-> NoKey]
  /\ ignoreRule \in RulesBefore
  /\ minted = [g \in Group |-> 0]
  /\ delivered = {}
  /\ run = [p \in Proc |-> Idle]

\* A user starts a command.  A generate or rotate names the pair it will mint.
Begin(p) ==
  /\ At(p, "idle")
  /\ \E r \in Request, e \in Envs :
       /\ r.op \in Commands
       /\ \/ /\ r.op \notin {"generate", "rotate"}
             /\ Become(p, [Idle EXCEPT !.pc = "lookup", !.req = r, !.env = e])
             /\ UNCHANGED minted
          \/ /\ r.op \in {"generate", "rotate"}
             /\ minted[r.group] < MaxPairs
             /\ minted' = [minted EXCEPT ![r.group] = @ + 1]
             /\ Become(p, [Idle EXCEPT !.pc = "lookup", !.req = r, !.env = e,
                                       !.new = <<r.group, minted[r.group] + 1>>])
  /\ UNCHANGED <<secretsFile, keysFile, ignoreRule, delivered>>

--------------------------------------------------------------------------------
(* set *)

\* Require the group's public key before asking for the plaintext.
SetLookup(p) ==
  /\ At(p, "lookup") /\ Op(p) = "set"
  /\ secretsFile.pub[run[p].req.group] # NoKey
  /\ Become(p, [run[p] EXCEPT !.pc = "prompt", !.held = secretsFile.pub[run[p].req.group]])
  /\ UNCHANGED <<secretsFile, keysFile, ignoreRule, minted, delivered>>

\* The user answers the prompt; the value is sealed under the key read before it.
SetPrompt(p) ==
  /\ At(p, "prompt")
  /\ \E t \in TextFor[Target(run[p].req)] :
       Become(p, [run[p] EXCEPT !.pc = "load", !.edit = "values",
                                !.staged[Target(run[p].req)] = Sealed(t, run[p].held)])
  /\ UNCHANGED <<secretsFile, keysFile, ignoreRule, minted, delivered>>

\* The user leaves the prompt, gives nothing or does not confirm.
Decline(p) ==
  /\ At(p, "prompt")
  /\ Become(p, Idle)
  /\ UNCHANGED <<secretsFile, keysFile, ignoreRule, minted, delivered>>

--------------------------------------------------------------------------------
(* get *)

GetLookup(p) ==
  /\ At(p, "lookup") /\ Op(p) = "get"
  /\ IsSealed(secretsFile.cell[Target(run[p].req)])
  /\ Become(p, [run[p] EXCEPT !.pc = "resolve", !.doc = secretsFile])
  /\ UNCHANGED <<secretsFile, keysFile, ignoreRule, minted, delivered>>

\* Resolve the private key only now, and print what it opens.
GetResolve(p) ==
  LET c == run[p].doc.cell[Target(run[p].req)]
  IN  /\ At(p, "resolve") /\ Op(p) = "get"
      /\ Resolve(run[p].env, keysFile, run[p].req.group).key = c.under
      /\ Become(p, [Idle EXCEPT !.req = run[p].req, !.answer = c.text])
      /\ UNCHANGED <<secretsFile, keysFile, ignoreRule, minted, delivered>>

--------------------------------------------------------------------------------
(* delete *)

DeleteLookup(p) ==
  /\ At(p, "lookup") /\ Op(p) = "delete"
  /\ secretsFile.cell[Target(run[p].req)] # NoCell
  /\ Become(p, [run[p] EXCEPT !.pc = "load", !.edit = "delete"])
  /\ UNCHANGED <<secretsFile, keysFile, ignoreRule, minted, delivered>>

--------------------------------------------------------------------------------
(* encrypt and decrypt: convert every selected entry in memory, then save once *)

\* Mutant of Staging: saves as soon as one entry is converted.
StagingEager(r) ==
  IF r.staged # Blank THEN [r EXCEPT !.pc = "load", !.edit = "values"]
  ELSE IF r.todo # {} THEN [r EXCEPT !.pc = "stage"] ELSE Idle

\* Entries still to convert first; then one save of the staged cells, or none
\* when nothing changed.
Staging(r) ==
  IF r.todo # {} THEN [r EXCEPT !.pc = "stage"]
  ELSE IF r.staged = Blank THEN Idle
  ELSE [Idle EXCEPT !.pc = "load", !.edit = "values",
                    !.req = r.req, !.env = r.env, !.staged = r.staged]

Matches(r) == {s \in Selected(r) : secretsFile.cell[s] # NoCell}

BulkList(p) ==
  LET wanted == {s \in Matches(run[p].req) : IsSealed(secretsFile.cell[s]) <=> Op(p) = "decrypt"}
  IN  /\ At(p, "lookup") /\ Op(p) \in {"encrypt", "decrypt"}
      /\ Explicit(run[p].req) => Matches(run[p].req) # {}
      /\ Become(p, Staging([run[p] EXCEPT !.doc = secretsFile, !.todo = wanted]))
      /\ UNCHANGED <<secretsFile, keysFile, ignoreRule, minted, delivered>>

\* Mutant of EncryptOne: every entry gets the text of the entry listed first.
EncryptOneCaptured(p) ==
  /\ At(p, "stage") /\ Op(p) = "encrypt"
  /\ \E s \in run[p].todo :
       /\ secretsFile.pub[s[1]] # NoKey
       /\ LET first == CHOOSE x \in Selected(run[p].req) : IsPlain(run[p].doc.cell[x])
          IN  Become(p, Staging([run[p] EXCEPT
                  !.todo = @ \ {s},
                  !.staged[s] = Sealed(run[p].doc.cell[first].text, secretsFile.pub[s[1]])]))
  /\ UNCHANGED <<secretsFile, keysFile, ignoreRule, minted, delivered>>

\* One listed plaintext, sealed under the public key its group has at this moment.
EncryptOne(p) ==
  /\ At(p, "stage") /\ Op(p) = "encrypt"
  /\ \E s \in run[p].todo :
       /\ secretsFile.pub[s[1]] # NoKey
       /\ Become(p, Staging([run[p] EXCEPT
                      !.todo = @ \ {s},
                      !.staged[s] = Sealed(run[p].doc.cell[s].text, secretsFile.pub[s[1]])]))
  /\ UNCHANGED <<secretsFile, keysFile, ignoreRule, minted, delivered>>

\* privateKeyCache.resolve: each group's key is looked up once per command.
CachedKey(p, g) ==
  IF run[p].cache[g] # Untried THEN run[p].cache[g]
  ELSE Resolve(run[p].env, keysFile, g)

\* One listed ciphertext.  A group whose key is unavailable is skipped.
DecryptOne(p) ==
  /\ At(p, "stage") /\ Op(p) = "decrypt"
  /\ \E s \in run[p].todo :
       LET found == CachedKey(p, s[1])
           c     == run[p].doc.cell[s]
           next  == [run[p] EXCEPT !.todo = @ \ {s}, !.cache[s[1]] = found]
       IN  \/ /\ found.origin = "unavailable"
              /\ Become(p, Staging(next))
           \/ /\ found.key = c.under
              /\ Become(p, Staging([next EXCEPT !.staged[s] = Plain(c.text)]))
  /\ UNCHANGED <<secretsFile, keysFile, ignoreRule, minted, delivered>>

--------------------------------------------------------------------------------
(* keypair generate and keypair rotate *)

\* Mutant of GenerateLookup: an existing public key does not stop it.
GenerateAgain(p) ==
  /\ At(p, "lookup") /\ Op(p) = "generate"
  /\ Become(p, [run[p] EXCEPT !.pc = "ignore", !.edit = "pub"])
  /\ UNCHANGED <<secretsFile, keysFile, ignoreRule, minted, delivered>>

\* Mutant of GenerateLookup: the public key is committed before the private one.
GeneratePublicFirst(p) ==
  /\ At(p, "lookup") /\ Op(p) = "generate"
  /\ secretsFile.pub[run[p].req.group] = NoKey
  /\ Become(p, [run[p] EXCEPT !.pc = "load", !.edit = "pub"])
  /\ UNCHANGED <<secretsFile, keysFile, ignoreRule, minted, delivered>>

GenerateLookup(p) ==
  /\ At(p, "lookup") /\ Op(p) = "generate"
  /\ secretsFile.pub[run[p].req.group] = NoKey
  /\ Become(p, [run[p] EXCEPT !.pc = "ignore", !.edit = "pub"])
  /\ UNCHANGED <<secretsFile, keysFile, ignoreRule, minted, delivered>>

RotateLookup(p) ==
  /\ At(p, "lookup") /\ Op(p) = "rotate"
  /\ secretsFile.pub[run[p].req.group] # NoKey
  /\ Become(p, [run[p] EXCEPT !.pc = "resolve"])
  /\ UNCHANGED <<secretsFile, keysFile, ignoreRule, minted, delivered>>

\* Mutant of RotateResolve: accepts a key from any source.
RotateResolveAnySource(p) ==
  LET found == Resolve(run[p].env, keysFile, run[p].req.group)
  IN  /\ At(p, "resolve") /\ Op(p) = "rotate"
      /\ found.key # NoKey
      /\ Become(p, [run[p] EXCEPT !.pc = "list", !.held = found.key])
      /\ UNCHANGED <<secretsFile, keysFile, ignoreRule, minted, delivered>>

\* The old key must come from the key file: another source would shadow the new one.
RotateResolve(p) ==
  LET found == Resolve(run[p].env, keysFile, run[p].req.group)
  IN  /\ At(p, "resolve") /\ Op(p) = "rotate"
      /\ found.origin = "store"
      /\ Become(p, [run[p] EXCEPT !.pc = "list", !.held = found.key])
      /\ UNCHANGED <<secretsFile, keysFile, ignoreRule, minted, delivered>>

GroupCells(g) == {s \in Slot : s[1] = g /\ secretsFile.cell[s] # NoCell}

\* Open the whole group with the old key and seal it again, in memory.
RotateList(p) ==
  LET g == run[p].req.group
  IN  /\ At(p, "list")
      /\ \A s \in GroupCells(g) : secretsFile.cell[s].under = run[p].held
      /\ Become(p, [run[p] EXCEPT
             !.pc = "ignore", !.edit = "pub",
             !.staged = [s \in Slot |-> IF s \in GroupCells(g)
                                        THEN Sealed(secretsFile.cell[s].text, run[p].new)
                                        ELSE NoCell]])
      /\ UNCHANGED <<secretsFile, keysFile, ignoreRule, minted, delivered>>

--------------------------------------------------------------------------------
(* Delivery of a private key: git.EnsureIgnored, then load and save envx.keys *)

\* Mutant of EnsureIgnored: takes the file for ignored without asking.
EnsureIgnoredNoRule(p) ==
  /\ At(p, "ignore")
  /\ Become(p, [run[p] EXCEPT !.pc = "loadKeys"])
  /\ UNCHANGED <<secretsFile, keysFile, ignoreRule, minted, delivered>>

(***************************************************************************)
(* Ask Git; unless it ignores the file already, or .gitignore names the    *)
(* file, add a rule, after everything that is there.  Git does not obey a  *)
(* rule that a later line negates, and EnsureIgnored accepts it.           *)
(***************************************************************************)
EnsureIgnored(p) ==
  /\ At(p, "ignore")
  /\ ignoreRule' = IF GitAvailable /\ ignoreRule = "none" THEN "effective" ELSE ignoreRule
  /\ Become(p, [run[p] EXCEPT !.pc = "loadKeys"])
  /\ UNCHANGED <<secretsFile, keysFile, minted, delivered>>

LoadKeys(p) ==
  /\ At(p, "loadKeys")
  /\ Become(p, [run[p] EXCEPT !.pc = "saveKeys", !.keys = keysFile])
  /\ UNCHANGED <<secretsFile, keysFile, ignoreRule, minted, delivered>>

\* upsert: the group's previous private key, if any, is replaced.
SaveKeys(p) ==
  /\ At(p, "saveKeys")
  /\ keysFile' = [run[p].keys EXCEPT ![run[p].req.group] = run[p].new]
  /\ delivered' = delivered \cup {run[p].new}
  /\ Become(p, [run[p] EXCEPT !.pc = "load"])
  /\ UNCHANGED <<secretsFile, ignoreRule, minted>>

--------------------------------------------------------------------------------
(* An update of the secrets file: load, edit the copy, rename it into place *)

\* Mutant of Edited: a batch replaces all values instead of joining them.
EditedBatchOnly(r) ==
  CASE r.edit = "pub"    -> [r.doc EXCEPT !.pub[r.req.group] = r.new]
    [] r.edit = "delete" -> [r.doc EXCEPT !.cell[Target(r.req)] = NoCell]
    [] r.edit = "values" -> [r.doc EXCEPT !.cell = r.staged]

\* Mutant of Edited: delete blanks the text and leaves the envelope.
EditedBlank(r) ==
  CASE r.edit = "pub"    -> [r.doc EXCEPT !.pub[r.req.group] = r.new]
    [] r.edit = "delete" -> [r.doc EXCEPT !.cell[Target(r.req)].text = NoText]
    [] r.edit = "values" ->
         [r.doc EXCEPT !.cell = [s \in Slot |-> IF r.staged[s] # NoCell
                                                THEN r.staged[s] ELSE r.doc.cell[s]]]

Edited(r) ==
  CASE r.edit = "pub"    -> [r.doc EXCEPT !.pub[r.req.group] = r.new]
    [] r.edit = "delete" -> [r.doc EXCEPT !.cell[Target(r.req)] = NoCell]
    [] r.edit = "values" ->
         [r.doc EXCEPT !.cell = [s \in Slot |-> IF r.staged[s] # NoCell
                                                THEN r.staged[s] ELSE r.doc.cell[s]]]

\* Mutant of Editable: values are not validated.
EditableUnchecked(r, doc) ==
  r.edit = "delete" => doc.cell[Target(r.req)] # NoCell

\* What the copy in memory must allow for the edit to be saved.
Editable(r, doc) ==
  /\ r.edit = "delete" => doc.cell[Target(r.req)] # NoCell
  /\ r.edit = "values" => \A s \in Slot : Storable(r.staged[s])

Load(p) ==
  /\ At(p, "load")
  /\ Editable(run[p], secretsFile)
  /\ Become(p, [run[p] EXCEPT !.pc = "save", !.doc = secretsFile])
  /\ UNCHANGED <<secretsFile, keysFile, ignoreRule, minted, delivered>>

\* Mutant of AfterSave: the re-encrypted values are never committed.
AfterSaveForgets(r) == Idle

\* A rotation that has published its new key goes on to save the values.
AfterSave(r) ==
  IF r.edit = "pub" /\ r.staged # Blank
  THEN [r EXCEPT !.pc = "load", !.edit = "values"] ELSE Idle

Save(p) ==
  /\ At(p, "save")
  /\ secretsFile' = Edited(run[p])
  /\ Become(p, AfterSave(run[p]))
  /\ UNCHANGED <<keysFile, ignoreRule, minted, delivered>>

--------------------------------------------------------------------------------
(* Errors *)

\* The checks that make a command return an error, by the step they follow.
LookupFails(r) ==
  CASE r.op \in {"set", "rotate"}      -> secretsFile.pub[r.group] = NoKey
    [] r.op = "generate"               -> secretsFile.pub[r.group] # NoKey
    [] r.op = "get"                    -> ~IsSealed(secretsFile.cell[Target(r)])
    [] r.op = "delete"                 -> secretsFile.cell[Target(r)] = NoCell
    [] r.op \in {"encrypt", "decrypt"} -> Explicit(r) /\ Matches(r) = {}

ResolveFails(p) ==
  LET found == Resolve(run[p].env, keysFile, run[p].req.group)
  IN  IF Op(p) = "get" THEN found.key # run[p].doc.cell[Target(run[p].req)].under
                       ELSE found.origin # "store"

StageFails(p) ==
  \E s \in run[p].todo :
    IF Op(p) = "encrypt" THEN secretsFile.pub[s[1]] = NoKey
    ELSE /\ CachedKey(p, s[1]).origin # "unavailable"
         /\ CachedKey(p, s[1]).key # run[p].doc.cell[s].under

ListFails(p) ==
  \E s \in GroupCells(run[p].req.group) : secretsFile.cell[s].under # run[p].held

\* The command returns its error: nothing it staged reaches a file.
Refuse(p) ==
  /\ \/ At(p, "lookup")  /\ LookupFails(run[p].req)
     \/ At(p, "resolve") /\ ResolveFails(p)
     \/ At(p, "stage")   /\ StageFails(p)
     \/ At(p, "list")    /\ ListFails(p)
     \/ At(p, "load")    /\ ~Editable(run[p], secretsFile)
  /\ Become(p, Idle)
  /\ UNCHANGED <<secretsFile, keysFile, ignoreRule, minted, delivered>>

\* A read, a write or Git fails, or the process is killed: its memory is gone.
Abort(p) ==
  /\ ~At(p, "idle") /\ Op(p) \in Faults
  /\ Become(p, Idle)
  /\ UNCHANGED <<secretsFile, keysFile, ignoreRule, minted, delivered>>

Step(p) ==
  \/ Begin(p)
  \/ SetLookup(p) \/ SetPrompt(p) \/ Decline(p)
  \/ GetLookup(p) \/ GetResolve(p)
  \/ DeleteLookup(p)
  \/ BulkList(p) \/ EncryptOne(p) \/ DecryptOne(p)
  \/ GenerateLookup(p)
  \/ RotateLookup(p) \/ RotateResolve(p) \/ RotateList(p)
  \/ EnsureIgnored(p) \/ LoadKeys(p) \/ SaveKeys(p)
  \/ Load(p) \/ Save(p)
  \/ Refuse(p) \/ Abort(p)

Next == \E p \in Proc : Step(p)

Spec == Init /\ [][Next]_vars

--------------------------------------------------------------------------------
(* Invariants *)

Labels == {"idle", "lookup", "prompt", "resolve", "stage", "list", "ignore",
           "loadKeys", "saveKeys", "load", "save"}

RunState == [pc : Labels, req : Request \cup {Idle.req}, env : Envs,
             edit : {"none", "pub", "values", "delete"},
             doc : Document, keys : KeyFile,
             held : KeyPair \cup {NoKey}, new : KeyPair \cup {NoKey},
             todo : SUBSET Slot, staged : [Slot -> Cell],
             cache : [Group -> Lookup \cup {Untried}], answer : Text \cup {NoText}]

\* The types of the two files and of what the processes hold in memory.
TypeOK ==
  /\ secretsFile \in Document
  /\ keysFile \in KeyFile
  /\ ignoreRule \in IgnoreRules
  /\ minted \in [Group -> 0..MaxPairs]
  /\ delivered \subseteq KeyPair
  /\ run \in [Proc -> RunState]

(***************************************************************************)
(* However commands interleave, fail or are killed, a stored value is only *)
(* ever one that was given for that very group and key, and so is the      *)
(* plaintext a get prints: no bulk conversion, rotation or lost update     *)
(* moves a value to another entry.                                         *)
(***************************************************************************)
ValuesAuthentic ==
  /\ \A s \in Slot : secretsFile.cell[s] # NoCell => secretsFile.cell[s].text \in TextFor[s]
  /\ \A p \in Proc : run[p].answer # NoText => run[p].answer \in TextFor[Target(run[p].req)]

(***************************************************************************)
(* The write order of generate and rotate: a public key in the secrets     *)
(* file, and a key some value is sealed under, is one of the group's own   *)
(* whose private half envx.keys had accepted before.  It holds under any   *)
(* interleaving and any crash.                                             *)
(***************************************************************************)
DeliveredFirst ==
  /\ \A g \in Group : secretsFile.pub[g] # NoKey =>
                        secretsFile.pub[g] \in PairsOf(g) \cap delivered
  /\ \A s \in Slot : IsSealed(secretsFile.cell[s]) =>
                       secretsFile.cell[s].under \in PairsOf(s[1]) \cap delivered

(***************************************************************************)
(* Where Git can be asked, a private key is on the disk only if Git        *)
(* ignores the file, whoever wrote it and whatever was killed on the way - *)
(* or if .gitignore had a rule for it that a later line negates, which     *)
(* hasIgnoreRule takes for granted (ignore.go:45).                         *)
(***************************************************************************)
IgnoredFirst ==
  GitAvailable /\ (\E g \in Group : keysFile[g] # NoKey) =>
    ignoreRule \in {"effective", "negated"}

(***************************************************************************)
(* The secrets file never holds a plaintext that claims the envelope       *)
(* without being one: every later load of the file would reject it.        *)
(***************************************************************************)
AlwaysLoadable == \A s \in Slot : Storable(secretsFile.cell[s])

\* Every sealed value opens with the private key that envx.keys holds now.
Recoverable ==
  \A s \in Slot : IsSealed(secretsFile.cell[s]) => keysFile[s[1]] = secretsFile.cell[s].under

\* The same between commands only: rotation promises no more while it is at work.
ReadableAtRest == (\A p \in Proc : At(p, "idle")) => Recoverable

(***************************************************************************)
(* Between commands that run one at a time and complete, each published    *)
(* key has its private half in envx.keys and every sealed value opens.     *)
(***************************************************************************)
RecoverableAtRest ==
  (\A p \in Proc : At(p, "idle")) =>
    /\ Recoverable
    /\ \A g \in Group : secretsFile.pub[g] # NoKey => keysFile[g] = secretsFile.pub[g]

--------------------------------------------------------------------------------
(* What a step may do *)

(***************************************************************************)
(* A bulk command changes the file once and completely: after the save of  *)
(* an encrypt no selected entry is plaintext, after the save of a decrypt  *)
(* a selected entry is sealed only if its key is unavailable, and no entry *)
(* outside the selection changes.                                          *)
(***************************************************************************)
BulkSave(p) ==
  LET chosen == Selected(run[p].req)
      after  == secretsFile'.cell
  IN  /\ \A s \in Slot \ chosen : after[s] = secretsFile.cell[s]
      /\ \A s \in chosen :
           IF Op(p) = "encrypt" THEN ~IsPlain(after[s])
           ELSE IsSealed(after[s]) => Resolve(run[p].env, keysFile, s[1]).origin = "unavailable"

BulkAllOrNothing ==
  [][\A p \in Proc : Save(p) /\ Op(p) \in {"encrypt", "decrypt"} => BulkSave(p)]_vars

(***************************************************************************)
(* When a rotation completes, whoever ran it can read the whole group: the *)
(* key their process resolves, whatever its environment, is the new one.   *)
(***************************************************************************)
RotatorCanRead ==
  [][\A p \in Proc : Save(p) /\ Op(p) = "rotate" /\ run'[p].pc = "idle" =>
       LET g == run[p].req.group
           k == Resolve(run[p].env, keysFile, g).key
       IN  /\ secretsFile'.pub[g] = k
           /\ \A s \in Slot : s[1] = g /\ IsSealed(secretsFile'.cell[s]) =>
                               secretsFile'.cell[s].under = k]_vars

--------------------------------------------------------------------------------
(* The promise of SecretsVault *)

(***************************************************************************)
(* The value that can be read back at s: from the file with the key in     *)
(* envx.keys, or from the memory of the rotation that is replacing it.     *)
(***************************************************************************)
ReadBack(s) ==
  LET c == secretsFile.cell[s]
  IN  IF ~IsSealed(c) \/ c.under = keysFile[s[1]] THEN c.text
      ELSE IF \E p \in Proc : Op(p) = "rotate" /\ run[p].staged[s] = Sealed(c.text, keysFile[s[1]])
           THEN c.text ELSE NoText

Vault == INSTANCE SecretsVault WITH vault <- [s \in Slot |-> ReadBack(s)]

\* The commands, run one at a time, implement the vault.
VaultSpec == Vault!Spec
================================================================================
