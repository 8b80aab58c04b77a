--------------------------- MODULE Worktree_proofs ---------------------------
(***************************************************************************)
(* What holds of pack, of the protection of the private keys and of create *)
(* in any workspace, with any number of other commands and edits.          *)
(***************************************************************************)
EXTENDS Worktree, TLAPS

-----------------------------------------------------------------------------
(* pack *)

Planned == {packer.copies[j].dest : j \in DOMAIN packer.copies}

(* Until the old bundle may be removed it is what it was at the beginning; *)
(* once it is, only planned files are in the new one.                      *)
PackInv ==
    /\ "at" \in DOMAIN packer
    /\ DOMAIN bundle = {"manifest", "files", "store", "stray"}
    /\ packer.at \in {"refused", "plan", "rewrite", "clear"} =>
          "before" \in DOMAIN packer /\ bundle = packer.before
    /\ packer.at \in {"plan", "rewrite", "clear"} =>
          "force" \in DOMAIN packer /\ (packer.force \/ bundle = NoBundle)
    /\ packer.at \in {"rewrite", "clear", "manifest", "copy", "secrets", "done"} =>
          "copies" \in DOMAIN packer
    /\ packer.at \in {"manifest", "copy", "secrets", "done"} =>
          ~bundle.stray /\ DOMAIN bundle.files \subseteq Planned

LEMMA PackInitially == Init => PackInv
BY DEF Init, PackInit, PackInv, NoBundle

\* What a move of pack leaves of its record.
LEMMA Moved ==
    ASSUME NEW change, PackMove(change), "at" \in DOMAIN packer
    PROVE  /\ "at" \in DOMAIN packer'
           /\ packer'.at = IF "at" \in DOMAIN change THEN change.at ELSE packer.at
           /\ "before" \notin DOMAIN change /\ "before" \in DOMAIN packer =>
                 "before" \in DOMAIN packer' /\ packer'.before = packer.before
           /\ "force" \notin DOMAIN change /\ "force" \in DOMAIN packer =>
                 "force" \in DOMAIN packer' /\ packer'.force = packer.force
           /\ "copies" \in DOMAIN change => "copies" \in DOMAIN packer'
           /\ "copies" \notin DOMAIN change /\ "copies" \in DOMAIN packer =>
                 "copies" \in DOMAIN packer' /\ packer'.copies = packer.copies
BY DEF PackMove, Changed

LEMMA PackStep == ASSUME PackInv, [Next]_vars PROVE PackInv'
<1>1. CASE UNCHANGED packVars
  BY <1>1 DEF PackInv, packVars, Planned
<1>2. CASE PackStart
  <2>1. CASE packer' = [at |-> "refused", before |-> bundle]
    BY <1>2, <2>1 DEF PackStart, PackInv
  <2>2. CASE \E l, f, e, p : packer' = [at |-> "plan", layout |-> l, before |-> bundle,
                                       force |-> f, envs |-> e, projects |-> p]
             /\ (f \/ bundle = NoBundle)
    BY <1>2, <2>2 DEF PackStart, PackInv
  <2> QED
    BY <1>2, <2>1, <2>2, Zenon DEF PackStart
<1>3. CASE Plan
  <2>1. packer.at = "plan" /\ bundle' = bundle
    BY <1>3 DEF Plan
  <2>2. \/ PackMove([at |-> "refused"])
        \/ \E h, p, c : PackMove([at |-> "rewrite", hasStore |-> h, plan |-> p, copies |-> c])
    BY <1>3, Zenon DEF Plan
  <2>3. CASE PackMove([at |-> "refused"])
    BY <2>1, <2>3, Moved DEF PackInv
  <2>4. CASE \E h, p, c : PackMove([at |-> "rewrite", hasStore |-> h, plan |-> p, copies |-> c])
    BY <2>1, <2>4, Moved DEF PackInv
  <2> QED
    BY <2>2, <2>3, <2>4
<1>4. CASE Rewrite
  BY <1>4, Moved DEF Rewrite, PackInv
<1>5. CASE Clear
  BY <1>5, Moved DEF Clear, PackInv, NoBundle, Planned
<1>6. CASE WriteManifest
  BY <1>6, Moved DEF WriteManifest, PackInv, Planned
<1>7. CASE Copy
  BY <1>7, Moved DEF Copy, PackInv, Planned, Put
<1>8. CASE Scan
  BY <1>8, Moved DEF Scan, PackInv, Planned
<1>9. CASE CopySecrets
  BY <1>9, Moved DEF CopySecrets, PackInv, Planned
<1>10. CASE PackFails
  BY <1>10, Moved DEF PackFails, PackInv
<1> QED
  BY <1>1, <1>2, <1>3, <1>4, <1>5, <1>6, <1>7, <1>8, <1>9, <1>10 DEF Next, PackNext, vars

LEMMA PackInvariant == Spec => []PackInv
BY PackInitially, PackStep, PTL DEF Spec

\* A pack that is refused leaves the bundle that was there, whatever it holds and
\* whatever else happens in the workspace (pack.go, --force).
THEOREM RefusalSafe == Spec => []RefusalKeepsBundle
<1>1. PackInv => RefusalKeepsBundle
  BY DEF PackInv, RefusalKeepsBundle
<1> QED
  BY <1>1, PackInvariant, PTL

\* "A bundle never merges into stale files" (pack.go): what a finished pack leaves has
\* planned files only.
NothingStale ==
    packer.at = "done" => ~bundle.stray /\ DOMAIN bundle.files \subseteq Planned

\* With or without --force, nothing of an earlier bundle is in a finished one.
THEOREM FreshBundle == Spec => []NothingStale
<1>1. PackInv => NothingStale
  BY DEF PackInv, NothingStale
<1> QED
  BY <1>1, PackInvariant, PTL

-----------------------------------------------------------------------------
(* The protection of the private keys                                      *)

Negated(lines) == \E i, j \in DOMAIN lines :
    i < j /\ lines[i] \in Rules /\ lines[j] = "!name"

(* What a call that was content with a rule may say of .gitignore.         *)
Holds(by, lines) == Ignored(lines) \/ (by = "rule" /\ Negated(lines))

LEMMA RuleHolds ==
    ASSUME NEW lines \in Seq(Line), scenario.above \in Seq(Line), HasIgnoreRule(lines)
    PROVE  Holds("rule", lines)
<1>1. PICK i \in DOMAIN lines : lines[i] \in Rules
  BY DEF HasIgnoreRule
<1>2. SUFFICES ASSUME ~Negated(lines) PROVE Ignored(lines)
  BY DEF Holds
<1> DEFINE all == scenario.above \o lines
           n == Len(scenario.above)
<1>3. n + i \in DOMAIN all /\ all[n + i] = lines[i]
  OBVIOUS
<1>4. ASSUME NEW j \in DOMAIN all, j > n + i PROVE all[j] # "!name"
  <2>1. j - n \in DOMAIN lines /\ all[j] = lines[j - n] /\ i < j - n
    BY <1>4
  <2> QED
    BY <1>1, <1>2, <2>1 DEF Negated
<1> QED
  BY <1>1, <1>3, <1>4 DEF Ignored

LEMMA AppendHolds ==
    ASSUME NEW lines \in Seq(Line), scenario.above \in Seq(Line)
    PROVE  Ignored(Append(lines, "name"))
<1> DEFINE new == Append(lines, "name")
           all == scenario.above \o new
           n == Len(scenario.above) + Len(new)
<1>1. new \in Seq(Line) /\ Len(new) \in Nat \ {0} /\ new[Len(new)] = "name"
  BY DEF Line
<1> HIDE DEF new
<1>2. Len(all) = n /\ n \in DOMAIN all /\ all[n] = new[Len(new)] /\ DOMAIN all = 1..n
  BY <1>1
<1>3. all[n] \in Rules /\ \A j \in DOMAIN all : j > n => all[j] # "!name"
  BY <1>1, <1>2 DEF Rules
<1> QED
  BY <1>2, <1>3 DEF Ignored, new

IgnoreInv ==
    /\ scenario \in Scenarios /\ ignore \in Seq(Line) /\ edits \in Nat
    /\ DOMAIN relied = DOMAIN guard
    /\ \A g \in DOMAIN guard :
          /\ "lines" \in DOMAIN guard[g] /\ guard[g].lines \in Seq(Line)
          /\ relied[g] # <<>> =>
                /\ relied[g][1].lines \in Seq(Line)
                /\ Holds(relied[g][1].by, relied[g][1].lines)
                /\ edits = 0 => Holds(relied[g][1].by, ignore)

LEMMA IgnoreInitially == Init => IgnoreInv
BY IgnoreAssumption DEF Init, WorkspaceInit, IgnoreInit, IgnoreInv

\* A move of one call.
LEMMA GuardMoved ==
    ASSUME NEW g \in DOMAIN guard, NEW change, Moves(g, change), IgnoreInv,
           "lines" \in DOMAIN change => change.lines \in Seq(Line)
    PROVE  /\ DOMAIN guard' = DOMAIN guard
           /\ \A h \in DOMAIN guard :
                 "lines" \in DOMAIN guard'[h] /\ guard'[h].lines \in Seq(Line)
BY DEF Moves, Changed, IgnoreInv

\* A step of one call that settles on nothing.
LEMMA IgnoreMove ==
    ASSUME NEW g \in DOMAIN guard, NEW change, Moves(g, change), IgnoreInv,
           "lines" \in DOMAIN change => change.lines \in Seq(Line),
           UNCHANGED <<workspace, relied>>
    PROVE  IgnoreInv'
<1>1. UNCHANGED <<scenario, ignore, edits, relied>>
  BY DEF workspace
<1>2. \A b, l : Holds(b, l)' = Holds(b, l)
  BY <1>1 DEF Holds, Ignored
<1>3. /\ DOMAIN guard' = DOMAIN guard
      /\ \A h \in DOMAIN guard :
            "lines" \in DOMAIN guard'[h] /\ guard'[h].lines \in Seq(Line)
  BY GuardMoved
<1>4. ASSUME NEW h \in DOMAIN guard, relied[h] # <<>>
      PROVE  /\ relied[h][1].lines \in Seq(Line)
             /\ Holds(relied[h][1].by, relied[h][1].lines)
             /\ edits = 0 => Holds(relied[h][1].by, ignore)
  BY <1>4 DEF IgnoreInv
<1> QED
  BY <1>1, <1>2, <1>3, <1>4 DEF IgnoreInv

\* A step of one call that settles on the file it leaves.
LEMMA IgnoreSettled ==
    ASSUME NEW g \in DOMAIN guard, NEW by, IgnoreInv, Settles(g, by, ignore'),
           ignore' \in Seq(Line), UNCHANGED <<scenario, edits>>,
           ignore' = ignore \/ Ignored(ignore'), Holds(by, ignore')
    PROVE  IgnoreInv'
<1>1. Moves(g, [at |-> "done"]) /\ relied' = [relied EXCEPT ![g] = <<[by |-> by, lines |-> ignore']>>]
  BY DEF Settles
<1>2. /\ DOMAIN guard' = DOMAIN guard
      /\ \A h \in DOMAIN guard :
            "lines" \in DOMAIN guard'[h] /\ guard'[h].lines \in Seq(Line)
  BY <1>1, GuardMoved
<1>3. \A b, l : Holds(b, l)' = Holds(b, l)
  BY DEF Holds, Ignored
<1>4. ASSUME NEW h \in DOMAIN guard, relied'[h] # <<>>
      PROVE  /\ relied'[h][1].lines \in Seq(Line)
             /\ Holds(relied'[h][1].by, relied'[h][1].lines)
             /\ edits = 0 => Holds(relied'[h][1].by, ignore')
  <2>1. CASE h = g
    BY <1>1, <2>1 DEF IgnoreInv
  <2>2. CASE h # g
    <3>1. relied'[h] = relied[h]
      BY <1>1, <2>2 DEF IgnoreInv
    <3> QED
      BY <1>4, <3>1 DEF IgnoreInv, Holds
  <2> QED
    BY <2>1, <2>2
<1> QED
  BY <1>1, <1>2, <1>3, <1>4 DEF IgnoreInv

LEMMA IgnoreStep == ASSUME IgnoreInv, [Next]_vars PROVE IgnoreInv'
<1> USE DEF Guard
<1>1. CASE UNCHANGED <<ignoreVars, scenario, ignore, edits>>
  <2>1. \A b, l : Holds(b, l)' = Holds(b, l)
    BY <1>1 DEF Holds, Ignored
  <2> QED
    BY <1>1, <2>1 DEF IgnoreInv, ignoreVars
<1>2. CASE Edit /\ UNCHANGED ignoreVars
  <2>1. /\ scenario' = scenario /\ edits' = edits + 1 /\ UNCHANGED <<guard, relied>>
        /\ ignore' = ignore \/ ignore' \in scenario.ignoreEdits
    BY <1>2 DEF Edit, ignoreVars
  <2>2. edits' \in Nat /\ edits' # 0 /\ ignore' \in Seq(Line)
    BY <2>1, IgnoreAssumption DEF IgnoreInv
  <2>3. \A b, l : Holds(b, l)' = Holds(b, l)
    BY <2>1 DEF Holds, Ignored
  <2> QED
    BY <2>1, <2>2, <2>3 DEF IgnoreInv
<1>3. ASSUME NEW g \in DOMAIN guard, CheckIgnore(g) PROVE IgnoreInv'
  <2>1. UNCHANGED <<workspace, ignore, scenario, edits>> /\ ignore \in Seq(Line)
    BY <1>3 DEF CheckIgnore, workspace, IgnoreInv
  <2>2. CASE \E at : Moves(g, [at |-> at]) /\ UNCHANGED relied
    BY <2>1, <2>2, IgnoreMove
  <2>3. CASE Ignored(ignore) /\ Settles(g, "git", ignore)
    BY <2>1, <2>3, IgnoreSettled DEF Holds
  <2> QED
    BY <1>3, <2>2, <2>3 DEF CheckIgnore
<1>4. ASSUME NEW g \in DOMAIN guard, ReadIgnore(g) PROVE IgnoreInv'
  <2>1. /\ UNCHANGED <<workspace, ignore, scenario, edits>>
        /\ ignore \in Seq(Line) /\ scenario.above \in Seq(Line)
    BY <1>4, IgnoreAssumption DEF ReadIgnore, workspace, IgnoreInv
  <2>2. CASE Moves(g, [at |-> "write", lines |-> ignore]) /\ UNCHANGED relied
    BY <2>1, <2>2, IgnoreMove
  <2>3. CASE HasIgnoreRule(ignore) /\ Settles(g, "rule", ignore)
    BY <2>1, <2>3, RuleHolds, IgnoreSettled
  <2> QED
    BY <1>4, <2>2, <2>3 DEF ReadIgnore
<1>5. ASSUME NEW g \in DOMAIN guard, WriteIgnore(g) PROVE IgnoreInv'
  <2>1. /\ UNCHANGED <<scenario, edits>> /\ ignore' = Append(guard[g].lines, "name")
        /\ Settles(g, "write", ignore')
    BY <1>5 DEF WriteIgnore
  <2>2. guard[g].lines \in Seq(Line) /\ scenario.above \in Seq(Line)
    BY IgnoreAssumption DEF IgnoreInv
  <2>3. ignore' \in Seq(Line) /\ Ignored(ignore')
    <3>1. "name" \in Line
      BY DEF Line
    <3> QED
      BY <2>1, <2>2, <3>1, AppendHolds
  <2> QED
    BY <2>1, <2>3, IgnoreSettled DEF Holds
<1>6. ASSUME NEW g \in DOMAIN guard, IgnoreFails(g) PROVE IgnoreInv'
  BY <1>6, IgnoreMove DEF IgnoreFails
<1>7. CASE IgnoreNext
  BY <1>3, <1>4, <1>5, <1>6, <1>7 DEF IgnoreNext
<1>8. CASE ~IgnoreNext /\ ~Edit
  <2>1. UNCHANGED ignoreVars
    BY <1>8 DEF Next, vars
  <2>2. UNCHANGED <<scenario, ignore, edits>>
    BY <1>8 DEF Next, vars, workspace, CreateNext, CreateStart, CheckConflict, CreateWrite,
       CreateFails, SetNext, SetRead, SetWrite, SetFails, MergeNext,
       PackNext, PackStart, Plan, Rewrite, Clear, WriteManifest, Copy, Scan, CopySecrets,
       PackFails, ValidateNext, ValidateStart, ResolveNext, DiagnoseNext, CheckSecrets,
       CheckPublicKeys, CheckKeypairs, Grade, EmitNext, EmitStart, EmitExplain,
       EmitEntries, EmitWrite, EmitFails
  <2> QED
    BY <1>1, <2>1, <2>2
<1> QED
  BY <1>2, <1>7, <1>8 DEF Next, vars

LEMMA IgnoreInvariant == Spec => []IgnoreInv
BY IgnoreInitially, IgnoreStep, PTL DEF Spec

\* EnsureIgnored keeps its word for any .gitignore, any rules of the directories above
\* and any number of processes, but for a rule that was there and is negated (ignore.go).
THEOREM IgnoreKept == Spec => []IgnoredAsTold
<1>1. IgnoreInv => IgnoredAsTold
  BY DEF IgnoreInv, IgnoredAsTold, Holds, Negated, Guard
<1> QED
  BY <1>1, IgnoreInvariant, PTL
-----------------------------------------------------------------------------
(* create *)

\* templates/ holds one template: what two creates write to a file is the same.
OneTemplate ==
    \A s \in Scenarios : \A c, d \in DOMAIN s.creators :
        \A i \in DOMAIN s.creators[c].template, j \in DOMAIN s.creators[d].template :
            s.creators[c].template[i].file = s.creators[d].template[j].file =>
                s.creators[c].template[i].content = s.creators[d].template[j].content

\* Nobody sets a value in a directory in which a workspace is being created.
NothingSet == \A s \in Scenarios : DOMAIN s.creators # {} => DOMAIN s.setters = {}

Template(c) == scenario.creators[c].template
Spares ==
    /\ edits = 0 /\ DOMAIN creator # {}
    /\ \A c \in DOMAIN creator : ~scenario.creators[c].force
Made(m) == m.file \in DOMAIN files /\ files[m.file] = m.content
Original(m) == m.file \in DOMAIN scenario.files

\* Where a create stands, and what it holds.
CreateShape ==
    /\ scenario \in Scenarios /\ edits \in Nat
    /\ DOMAIN creator = DOMAIN scenario.creators
    /\ DOMAIN before = DOMAIN creator
    /\ DOMAIN setter = DOMAIN scenario.setters
    /\ \A c \in DOMAIN creator :
          /\ DOMAIN creator[c] = {"cmd", "at", "i", "conflict"}
          /\ creator[c].cmd = scenario.creators[c]
          /\ creator[c].at = "start" => creator[c].i = 1 /\ ~creator[c].conflict
          /\ creator[c].at \in {"check", "write"} => creator[c].i \in DOMAIN Template(c)

\* What a create that is not forced knows: the files it has looked up are none of those
\* that were there at the beginning, and the files it has written are as it wrote them.
Knows(c) ==
    /\ \A f \in DOMAIN before[c] : f \in DOMAIN files /\ files[f] = before[c][f]
    /\ creator[c].at = "check" /\ ~creator[c].conflict =>
          \A j \in 1..(creator[c].i - 1) : ~Original(Template(c)[j])
    /\ creator[c].at = "write" =>
          /\ \A j \in DOMAIN Template(c) : ~Original(Template(c)[j])
          /\ \A j \in 1..(creator[c].i - 1) : Made(Template(c)[j])
    /\ creator[c].at = "done" => \A j \in DOMAIN Template(c) : Made(Template(c)[j])

\* A file was there at the beginning, or it is as the template has it.
Explained ==
    /\ DOMAIN scenario.files \subseteq DOMAIN files
    /\ \A f \in DOMAIN files \ DOMAIN scenario.files :
          \E c \in DOMAIN creator : \E j \in DOMAIN Template(c) :
              Template(c)[j].file = f /\ files[f] = Template(c)[j].content

CreateInv == CreateShape /\ (Spares => Explained /\ \A c \in DOMAIN creator : Knows(c))

\* No file goes and none is replaced by another.
Grows == \A f \in DOMAIN files : f \in DOMAIN files' /\ files'[f] = files[f]

LEMMA CreateInitially == Init => CreateInv
BY DEF Init, WorkspaceInit, CreateInit, SetInit, CreateInv, CreateShape, Explained, Knows

\* A step that moves no create but c and only adds files leaves the others as they are.
LEMMA OthersKnow ==
    ASSUME NEW d \in DOMAIN creator, Knows(d), Grows, scenario' = scenario,
           creator'[d] = creator[d], before'[d] = before[d]
    PROVE  Knows(d)'
<1>1. \A m : Made(m) => Made(m)'
  BY DEF Made, Grows
<1>2. \A m : Original(m)' = Original(m)
  BY DEF Original
<1>3. Template(d)' = Template(d)
  BY DEF Template
<1>4. \A f \in DOMAIN before'[d] : f \in DOMAIN files' /\ files'[f] = before'[d][f]
  BY DEF Knows, Grows
<1> QED
  BY <1>1, <1>2, <1>3, <1>4 DEF Knows

\* What a move of create c leaves.
LEMMA CreateMoved ==
    ASSUME CreateShape, NEW c \in DOMAIN creator, NEW change, CreateMove(c, change),
           DOMAIN change \subseteq {"at", "i", "conflict"}
    PROVE  /\ DOMAIN creator' = DOMAIN creator
           /\ \A d \in DOMAIN creator : d # c => creator'[d] = creator[d]
           /\ DOMAIN creator'[c] = {"cmd", "at", "i", "conflict"}
           /\ creator'[c].cmd = creator[c].cmd
           /\ creator'[c].at = IF "at" \in DOMAIN change THEN change.at ELSE creator[c].at
           /\ creator'[c].i = IF "i" \in DOMAIN change THEN change.i ELSE creator[c].i
           /\ creator'[c].conflict = IF "conflict" \in DOMAIN change THEN change.conflict
                                     ELSE creator[c].conflict
BY DEF CreateMove, Changed, CreateShape

\* A step of create c that leaves it within its template leaves every create so.
LEMMA ShapeActed ==
    ASSUME CreateShape, NEW c \in DOMAIN creator, NEW change, CreateMove(c, change),
           DOMAIN change \subseteq {"at", "i", "conflict"},
           UNCHANGED scenario, edits' \in Nat, DOMAIN setter' = DOMAIN setter,
           DOMAIN before' = DOMAIN before,
           creator'[c].at # "start",
           creator'[c].at \in {"check", "write"} => creator'[c].i \in DOMAIN Template(c)
    PROVE  CreateShape'
<1>1. Template(c)' = Template(c)
  BY DEF Template
<1>2. /\ scenario' \in Scenarios /\ edits' \in Nat
      /\ DOMAIN creator' = DOMAIN scenario'.creators
      /\ DOMAIN before' = DOMAIN creator'
      /\ DOMAIN setter' = DOMAIN scenario'.setters
  BY CreateMoved DEF CreateShape
<1>3. ASSUME NEW d \in DOMAIN creator
      PROVE  /\ DOMAIN creator'[d] = {"cmd", "at", "i", "conflict"}
             /\ creator'[d].cmd = scenario'.creators[d]
             /\ creator'[d].at = "start" => creator'[d].i = 1 /\ ~creator'[d].conflict
             /\ creator'[d].at \in {"check", "write"} => creator'[d].i \in DOMAIN Template(d)'
  <2>1. CASE d = c
    BY <1>1, <2>1, CreateMoved DEF CreateShape
  <2>2. CASE d # c
    <3>1. creator'[d] = creator[d]
      BY <2>2, CreateMoved
    <3> QED
      BY <3>1 DEF CreateShape, Template
  <2> QED
    BY <2>1, <2>2
<1> QED
  BY <1>2, <1>3, CreateMoved DEF CreateShape

\* The invariant after a step of create c, from what c knows then.
LEMMA CreateActed ==
    ASSUME CreateInv, NEW c \in DOMAIN creator, NEW change, CreateMove(c, change),
           DOMAIN change \subseteq {"at", "i", "conflict"},
           UNCHANGED <<scenario, edits, setter>>,
           DOMAIN before' = DOMAIN before,
           \A d \in DOMAIN creator : d # c => before'[d] = before[d],
           creator'[c].at # "start",
           creator'[c].at \in {"check", "write"} => creator'[c].i \in DOMAIN Template(c),
           Spares => Grows /\ Explained' /\ Knows(c)'
    PROVE  CreateInv'
<1>1. CreateShape'
  <2>1. CreateShape /\ edits' \in Nat
    BY DEF CreateInv, CreateShape
  <2> QED
    BY <2>1, ShapeActed
<1>2. Spares' = Spares
  BY CreateMoved DEF CreateInv, Spares
<1>3. ASSUME Spares, NEW d \in DOMAIN creator PROVE Knows(d)'
  <2>1. CASE d = c
    BY <1>3, <2>1
  <2>2. CASE d # c
    BY <1>3, <2>2, OthersKnow, CreateMoved DEF CreateInv
  <2> QED
    BY <2>1, <2>2
<1> QED
  BY <1>1, <1>2, <1>3, CreateMoved DEF CreateInv

\* The template of a create, and its place in it.
LEMMA TemplateFacts ==
    ASSUME CreateShape, NEW c \in DOMAIN creator
    PROVE  /\ creator[c].cmd.template = Template(c)
           /\ DOMAIN Template(c) = 1..Len(Template(c)) /\ Len(Template(c)) \in Nat \ {0}
           /\ creator[c].at \in {"check", "write"} =>
                 /\ creator[c].i \in DOMAIN Template(c)
                 /\ creator[c].i \in 1..Len(Template(c)) /\ creator[c].i \in Nat \ {0}
<1>1. /\ scenario \in Scenarios /\ c \in DOMAIN scenario.creators
      /\ creator[c].cmd = scenario.creators[c]
      /\ creator[c].at \in {"check", "write"} => creator[c].i \in DOMAIN Template(c)
  BY DEF CreateShape
<1>2. DOMAIN Template(c) = 1..Len(Template(c)) /\ Len(Template(c)) \in Nat \ {0}
  BY <1>1, CreateAssumption DEF Template
<1> QED
  BY <1>1, <1>2 DEF Template

LEMMA CreateStep ==
    ASSUME CreateInv, [Next]_vars, OneTemplate, NothingSet
    PROVE  CreateInv'
<1>1. CASE UNCHANGED <<createVars, scenario, files, edits, setter>>
  <2>1. ASSUME Spares PROVE Explained' /\ \A d \in DOMAIN creator : Knows(d)'
    BY <1>1, <2>1, OthersKnow DEF CreateInv, createVars, Grows, Explained, Template
  <2>2. CreateShape' /\ Spares' = Spares /\ DOMAIN creator' = DOMAIN creator
    BY <1>1 DEF CreateInv, CreateShape, createVars, Spares, Template
  <2> QED
    BY <2>1, <2>2 DEF CreateInv
<1>2. CASE Edit /\ UNCHANGED <<createVars, setter>>
  <2>1. scenario' = scenario /\ edits' = edits + 1 /\ UNCHANGED <<creator, before, setter>>
    BY <1>2 DEF Edit, createVars
  <2>2. edits' \in Nat /\ edits' # 0
    BY <2>1 DEF CreateInv, CreateShape
  <2>3. CreateShape'
    BY <2>1, <2>2 DEF CreateInv, CreateShape, Template
  <2> QED
    BY <2>2, <2>3 DEF CreateInv, Spares
<1>3. CASE SetNext /\ UNCHANGED createVars
  <2>1. UNCHANGED <<scenario, edits, creator, before>> /\ DOMAIN setter' = DOMAIN setter
    BY <1>3 DEF SetNext, SetRead, SetWrite, SetFails, SetMove, workspace, createVars
  <2>2. CreateShape'
    BY <2>1 DEF CreateInv, CreateShape, Template
  <2>3. DOMAIN setter # {}
    BY <1>3 DEF SetNext, Setter
  <2>4. DOMAIN creator = {}
    BY <2>3 DEF NothingSet, CreateInv, CreateShape
  <2> QED
    BY <2>1, <2>2, <2>4 DEF CreateInv, Spares
<1>4. ASSUME NEW c \in DOMAIN creator, CreateStart(c), UNCHANGED setVars PROVE CreateInv'
  <2> DEFINE change == [at |-> IF creator[c].cmd.force THEN "write" ELSE "check"]
  <2>1. /\ CreateMove(c, change) /\ DOMAIN change = {"at"} /\ creator[c].at = "start"
        /\ UNCHANGED <<scenario, files, edits, setter>>
        /\ before' = [before EXCEPT ![c] = files]
    BY <1>4 DEF CreateStart, workspace, setVars
  <2>2. /\ creator'[c].at = change.at /\ creator'[c].i = 1 /\ 1 \in DOMAIN Template(c)
        /\ DOMAIN before' = DOMAIN before /\ before'[c] = files
        /\ \A d \in DOMAIN creator : d # c => before'[d] = before[d]
    BY <2>1, CreateMoved, CreateAssumption DEF CreateInv, CreateShape, Template
  <2>3. ASSUME Spares PROVE Grows /\ Explained' /\ Knows(c)'
    <3>1. Explained' /\ Grows
      BY <2>1, <2>3, CreateMoved DEF CreateInv, Explained, Grows, Template
    <3>2. creator'[c].at = "check"
      BY <2>2, <2>3 DEF CreateInv, CreateShape, Spares
    <3> QED
      BY <2>1, <2>2, <3>1, <3>2 DEF Knows
  <2> QED
    BY <2>1, <2>2, <2>3, CreateActed DEF CreateInv, CreateShape
<1>5. ASSUME NEW c \in DOMAIN creator, CheckConflict(c), UNCHANGED setVars PROVE CreateInv'
  <2> DEFINE here == Template(c)[creator[c].i]
             conflict == creator[c].conflict \/ here.file \in DOMAIN files
             last == creator[c].i = Len(Template(c))
             change == IF ~last THEN [i |-> creator[c].i + 1, conflict |-> conflict]
                       ELSE [i |-> 1, conflict |-> conflict,
                             at |-> IF conflict THEN "refused" ELSE "write"]
  <2>1. /\ creator[c].at = "check" /\ creator[c].i \in DOMAIN Template(c)
        /\ DOMAIN Template(c) = 1..Len(Template(c)) /\ Len(Template(c)) \in Nat \ {0}
        /\ creator[c].cmd.template = Template(c)
        /\ creator[c].i \in 1..Len(Template(c)) /\ creator[c].i \in Nat \ {0}
    <3>1. CreateShape /\ creator[c].at = "check"
      BY <1>5 DEF CheckConflict, CreateInv
    <3> QED
      BY <3>1, TemplateFacts
  <2>2. /\ CreateMove(c, change) /\ DOMAIN change \subseteq {"at", "i", "conflict"}
        /\ UNCHANGED <<scenario, files, edits, setter, before>>
    <3>1. (creator[c].i < Len(Template(c))) <=> ~last
      BY <2>1
    <3> QED
      BY <1>5, <2>1, <3>1 DEF CheckConflict, workspace, setVars
  <2>3. /\ ~last => creator'[c].at = "check" /\ creator'[c].i = creator[c].i + 1
                    /\ creator'[c].conflict = conflict
        /\ last => creator'[c].i = 1 /\ creator'[c].at = IF conflict THEN "refused" ELSE "write"
    BY <2>1, <2>2, CreateMoved DEF CreateInv
  <2>4. ASSUME Spares PROVE Grows /\ Explained' /\ Knows(c)'
    <3>1. Explained' /\ Grows
      <4>1. Explained /\ DOMAIN creator' = DOMAIN creator
        BY <2>2, <2>4, CreateMoved DEF CreateInv
      <4>2. \A d : Template(d)' = Template(d)
        BY <2>2 DEF Template
      <4> QED
        BY <2>2, <4>1, <4>2 DEF Explained, Grows
    <3>2. DOMAIN Template(c)' = 1..Len(Template(c))
      BY <2>1, <2>2 DEF Template
    <3>3. ~conflict => \A j \in 1..creator[c].i : ~Original(Template(c)[j])'
      <4>1. ~conflict => \A j \in 1..(creator[c].i - 1) : ~Original(Template(c)[j])
        BY <2>1, <2>4 DEF CreateInv, Knows
      <4>2. ~conflict => ~Original(Template(c)[creator[c].i])
        BY <2>4 DEF CreateInv, Explained, Original
      <4>3. \A m : Original(m)' = Original(m)
        BY <2>2 DEF Original
      <4>4. Template(c)' = Template(c)
        BY <2>2 DEF Template
      <4>5. \A j \in 1..creator[c].i : j \in 1..(creator[c].i - 1) \/ j = creator[c].i
        BY <2>1
      <4> QED
        BY <4>1, <4>2, <4>3, <4>4, <4>5
    <3>4. \A f \in DOMAIN before'[c] : f \in DOMAIN files' /\ files'[f] = before'[c][f]
      BY <2>2, <2>4 DEF CreateInv, Knows
    <3>5. CASE last
      BY <2>1, <2>3, <3>1, <3>2, <3>3, <3>4, <3>5 DEF Knows
    <3>6. CASE ~last
      <4>1. creator'[c].at = "check" /\ creator'[c].conflict = conflict
            /\ creator'[c].i - 1 = creator[c].i
        BY <2>1, <2>3, <3>6
      <4>2. ~creator'[c].conflict =>
                \A j \in 1..(creator'[c].i - 1) : ~Original(Template(c)[j])'
        BY <3>3, <4>1
      <4> QED
        BY <3>1, <3>4, <4>1, <4>2 DEF Knows
    <3> QED
      BY <3>5, <3>6
  <2>5. creator'[c].at # "start"
        /\ (creator'[c].at \in {"check", "write"} => creator'[c].i \in DOMAIN Template(c))
    BY <2>1, <2>3
  <2> HIDE DEF change
  <2> QED
    BY <2>2, <2>4, <2>5, CreateActed
<1>6. ASSUME NEW c \in DOMAIN creator, CreateWrite(c), UNCHANGED setVars PROVE CreateInv'
  <2> DEFINE here == Template(c)[creator[c].i]
             last == creator[c].i = Len(Template(c))
             change == [i |-> creator[c].i + 1, at |-> IF last THEN "done" ELSE "write"]
  <2>1. /\ creator[c].at = "write" /\ creator[c].i \in DOMAIN Template(c)
        /\ DOMAIN Template(c) = 1..Len(Template(c)) /\ Len(Template(c)) \in Nat \ {0}
        /\ creator[c].cmd.template = Template(c)
        /\ creator[c].i \in 1..Len(Template(c)) /\ creator[c].i \in Nat \ {0}
    <3>1. CreateShape /\ creator[c].at = "write"
      BY <1>6 DEF CreateWrite, CreateInv
    <3> QED
      BY <3>1, TemplateFacts
  <2>2. /\ CreateMove(c, change) /\ DOMAIN change \subseteq {"at", "i", "conflict"}
        /\ UNCHANGED <<scenario, edits, setter, before>>
        /\ files' = Put(files, here.file, here.content)
    <3>1. (creator[c].i < Len(Template(c))) <=> ~last
      BY <2>1
    <3> QED
      BY <1>6, <2>1, <3>1 DEF CreateWrite, setVars
  <2>3. /\ creator'[c].at = IF last THEN "done" ELSE "write"
        /\ creator'[c].i = creator[c].i + 1
    BY <2>1, <2>2, CreateMoved DEF CreateInv
  <2>4. ASSUME Spares PROVE Grows /\ Explained' /\ Knows(c)'
    <3>1. ~Original(here)
      BY <2>1, <2>4 DEF CreateInv, Knows
    <3>2. here.file \in DOMAIN files => files[here.file] = here.content
      <4>1. SUFFICES ASSUME here.file \in DOMAIN files PROVE files[here.file] = here.content
        OBVIOUS
      <4>2. PICK d \in DOMAIN creator : \E j \in DOMAIN Template(d) :
                Template(d)[j].file = here.file /\ files[here.file] = Template(d)[j].content
        BY <2>4, <3>1, <4>1 DEF CreateInv, Explained, Original
      <4>3. scenario \in Scenarios /\ c \in DOMAIN scenario.creators /\ d \in DOMAIN scenario.creators
        BY DEF CreateInv, CreateShape
      <4> QED
        BY <2>1, <4>2, <4>3 DEF OneTemplate, Template
    <3>3. Grows
      BY <2>2, <3>2 DEF Grows, Put
    <3>4. Explained'
      <4>1. DOMAIN scenario'.files \subseteq DOMAIN files'
        BY <2>2, <2>4 DEF CreateInv, Explained, Put
      <4>2. ASSUME NEW f \in DOMAIN files', f \notin DOMAIN scenario.files
            PROVE  \E d \in DOMAIN creator : \E j \in DOMAIN Template(d) :
                       Template(d)[j].file = f /\ files'[f] = Template(d)[j].content
        <5>1. CASE f = here.file
          BY <2>1, <2>2, <5>1 DEF Put
        <5>2. CASE f # here.file
          BY <2>2, <2>4, <4>2, <5>2 DEF CreateInv, Explained, Put
        <5> QED
          BY <5>1, <5>2
      <4>3. \A d : Template(d)' = Template(d)
        BY <2>2 DEF Template
      <4>4. DOMAIN creator' = DOMAIN creator
        BY <2>2, CreateMoved DEF CreateInv
      <4> QED
        BY <2>2, <4>1, <4>2, <4>3, <4>4 DEF Explained
    <3>5. /\ DOMAIN Template(c)' = 1..Len(Template(c))
          /\ \A j \in DOMAIN Template(c) : ~Original(Template(c)[j])'
      <4>1. \A j \in DOMAIN Template(c) : ~Original(Template(c)[j])
        BY <2>1, <2>4 DEF CreateInv, Knows
      <4> QED
        BY <2>1, <2>2, <4>1 DEF Original, Template
    <3>6. \A f \in DOMAIN before'[c] : f \in DOMAIN files' /\ files'[f] = before'[c][f]
      BY <2>2, <2>4, <3>3 DEF CreateInv, Knows, Grows
    <3>7. \A j \in 1..creator[c].i : Made(Template(c)[j])'
      <4>1. ASSUME NEW j, j = creator[c].i PROVE Made(Template(c)[j])'
        BY <2>2, <4>1 DEF Made, Put, Template
      <4>2. ASSUME NEW j \in 1..(creator[c].i - 1) PROVE Made(Template(c)[j])'
        <5>1. Made(Template(c)[j])
          BY <2>1, <2>4 DEF CreateInv, Knows
        <5> QED
          BY <2>2, <3>3, <5>1 DEF Made, Grows, Template
      <4>3. ASSUME NEW j \in 1..creator[c].i, j \notin 1..(creator[c].i - 1) PROVE j = creator[c].i
        BY <2>1, <4>3
      <4> QED
        BY <4>1, <4>2, <4>3
    <3>8. CASE last
      BY <2>1, <2>3, <3>3, <3>4, <3>5, <3>6, <3>7, <3>8 DEF Knows
    <3>9. CASE ~last
      BY <2>1, <2>3, <3>3, <3>4, <3>5, <3>6, <3>7, <3>9 DEF Knows
    <3> QED
      BY <3>8, <3>9
  <2>5. creator'[c].at # "start"
        /\ (creator'[c].at \in {"check", "write"} => creator'[c].i \in DOMAIN Template(c))
    BY <2>1, <2>3
  <2> HIDE DEF change
  <2> QED
    BY <2>2, <2>4, <2>5, CreateActed
<1>7. ASSUME NEW c \in DOMAIN creator, CreateFails(c), UNCHANGED setVars PROVE CreateInv'
  <2> DEFINE change == [at |-> "failed"]
  <2>1. /\ CreateMove(c, change) /\ DOMAIN change = {"at"}
        /\ UNCHANGED <<scenario, files, edits, setter, before>>
    BY <1>7 DEF CreateFails, workspace, setVars
  <2>2. creator'[c].at = "failed"
    BY <2>1, CreateMoved DEF CreateInv
  <2>3. ASSUME Spares PROVE Grows /\ Explained' /\ Knows(c)'
    BY <2>1, <2>2, <2>3, CreateMoved DEF CreateInv, Explained, Grows, Template, Knows
  <2> QED
    BY <2>1, <2>2, <2>3, CreateActed
<1>8. CASE CreateNext /\ UNCHANGED setVars
  BY <1>4, <1>5, <1>6, <1>7, <1>8 DEF CreateNext, Creator
<1>9. CASE ~CreateNext /\ ~SetNext /\ ~Edit
  <2>1. UNCHANGED <<createVars, setter>>
    BY <1>9 DEF Next, vars, setVars
  <2>2. UNCHANGED <<scenario, files, edits>>
    BY <1>9 DEF Next, vars, workspace, MergeNext, IgnoreNext, CheckIgnore, ReadIgnore,
       WriteIgnore, IgnoreFails,
       PackNext, PackStart, Plan, Rewrite, Clear, WriteManifest, Copy, Scan, CopySecrets,
       PackFails, ValidateNext, ValidateStart, ResolveNext, DiagnoseNext, CheckSecrets,
       CheckPublicKeys, CheckKeypairs, Grade, EmitNext, EmitStart, EmitExplain,
       EmitEntries, EmitWrite, EmitFails
  <2> QED
    BY <1>1, <2>1, <2>2
<1>10. CASE UNCHANGED vars
  BY <1>1, <1>10 DEF vars, workspace, setVars
<1> QED
  BY <1>2, <1>3, <1>8, <1>9, <1>10 DEF Next, setVars

\* Any number of creates of one template, beside any other command but set and until
\* another program edits something, replace no file that was there when they began,
\* and one that succeeds leaves the template complete (service.go, checkConflicts).
THEOREM CreateKeeps == OneTemplate /\ NothingSet => (Spec => []CreateSpares)
<1> SUFFICES ASSUME OneTemplate /\ NothingSet PROVE Spec => []CreateSpares
  OBVIOUS
<1>1. CreateInv => CreateSpares
  BY DEF CreateInv, CreateShape, CreateSpares, Spares, Knows, Made, Template, Creator
<1>2. CreateInv /\ [Next]_vars => CreateInv'
  BY CreateStep
<1> QED
  BY <1>1, <1>2, CreateInitially, PTL DEF Spec

-----------------------------------------------------------------------------
(* The files, and what set makes of them                                   *)

\* What no step but a create's does to the creates.
LEMMA ShapeKept ==
    ASSUME CreateShape, UNCHANGED <<createVars, scenario>>, edits' \in Nat,
           DOMAIN setter' = DOMAIN setter
    PROVE  CreateShape'
BY DEF CreateShape, createVars, Template

LEMMA ShapeStep == ASSUME CreateShape, [Next]_vars PROVE CreateShape'
<1>1. UNCHANGED scenario /\ edits' \in Nat /\ DOMAIN setter' = DOMAIN setter
  <2>1. CASE (Edit /\ UNCHANGED setVars) \/ UNCHANGED vars
    BY <2>1 DEF vars, Edit, CreateShape, workspace, setVars
  <2>2. CASE SetNext
    <3>1. PICK p \in Setter : SetRead(p) \/ SetWrite(p) \/ SetFails(p)
      BY <2>2 DEF SetNext
    <3>2. UNCHANGED <<scenario, edits>> /\ \E change : SetMove(p, change)
      <4>1. CASE SetRead(p)
        BY <4>1, Zenon DEF SetRead, workspace
      <4>2. CASE SetWrite(p)
        BY <4>2 DEF SetWrite
      <4>3. CASE SetFails(p)
        BY <4>3 DEF SetFails, workspace
      <4> QED
        BY <3>1, <4>1, <4>2, <4>3
    <3>3. DOMAIN setter' = DOMAIN setter
      BY <3>2 DEF SetMove
    <3> QED
      BY <3>2, <3>3 DEF CreateShape
  <2>3. CASE ~SetNext /\ ~Edit /\ ~UNCHANGED vars
    <3>1. UNCHANGED setter
      BY <2>3 DEF Next, setVars
    <3>2. UNCHANGED <<scenario, edits>>
      BY <2>3 DEF Next, vars, workspace, CreateNext, CreateStart, CheckConflict, CreateWrite,
         CreateFails, MergeNext, IgnoreNext, CheckIgnore, ReadIgnore, WriteIgnore, IgnoreFails,
         PackNext, PackStart, Plan, Rewrite, Clear, WriteManifest, Copy, Scan, CopySecrets,
         PackFails, ValidateNext, ValidateStart, ResolveNext, DiagnoseNext, CheckSecrets,
         CheckPublicKeys, CheckKeypairs, Grade, EmitNext, EmitStart, EmitExplain,
         EmitEntries, EmitWrite, EmitFails
    <3> QED
      BY <3>1, <3>2 DEF CreateShape
  <2> QED
    BY <2>1, <2>2, <2>3 DEF Next
<1>2. ASSUME NEW c \in DOMAIN creator, CreateStart(c) PROVE CreateShape'
  <2> DEFINE change == [at |-> IF creator[c].cmd.force THEN "write" ELSE "check"]
  <2>1. CreateMove(c, change) /\ creator[c].at = "start" /\ before' = [before EXCEPT ![c] = files]
    BY <1>2 DEF CreateStart
  <2>2. change.at # "start" /\ DOMAIN change = {"at"} /\ DOMAIN before' = DOMAIN before
    BY <2>1
  <2> HIDE DEF change
  <2>3. creator'[c].at = change.at /\ creator'[c].i = creator[c].i
    BY <2>1, <2>2, CreateMoved
  <2>4. creator[c].i \in DOMAIN Template(c)
    BY <2>1, CreateAssumption DEF CreateShape, Template
  <2> QED
    BY <1>1, <2>1, <2>2, <2>3, <2>4, ShapeActed
<1>3. ASSUME NEW c \in DOMAIN creator, CheckConflict(c) PROVE CreateShape'
  <2>1. /\ creator[c].at = "check" /\ creator[c].i \in 1..Len(Template(c))
        /\ DOMAIN Template(c) = 1..Len(Template(c)) /\ Len(Template(c)) \in Nat \ {0}
        /\ creator[c].cmd.template = Template(c) /\ before' = before
    BY <1>3, CreateAssumption DEF CheckConflict, CreateShape, Template
  <2> DEFINE b == creator[c].conflict \/ Template(c)[creator[c].i].file \in DOMAIN files
             change == IF creator[c].i < Len(Template(c))
                       THEN [i |-> creator[c].i + 1, conflict |-> b]
                       ELSE [i |-> 1, conflict |-> b, at |-> IF b THEN "refused" ELSE "write"]
  <2>2. CreateMove(c, change)
    BY <1>3, <2>1, Zenon DEF CheckConflict
  <2>3. /\ DOMAIN change \subseteq {"at", "i", "conflict"} /\ "i" \in DOMAIN change
        /\ change.i \in DOMAIN Template(c)
        /\ "at" \in DOMAIN change => change.at # "start"
    BY <2>1
  <2> HIDE DEF change
  <2>4. /\ creator'[c].at = IF "at" \in DOMAIN change THEN change.at ELSE creator[c].at
        /\ creator'[c].i = change.i
    BY <2>2, <2>3, CreateMoved
  <2>5. creator'[c].at # "start"
    BY <2>1, <2>3, <2>4
  <2> QED
    BY <1>1, <2>1, <2>2, <2>3, <2>4, <2>5, ShapeActed
<1>4. ASSUME NEW c \in DOMAIN creator, CreateWrite(c) PROVE CreateShape'
  <2>1. /\ creator[c].i \in 1..Len(Template(c)) /\ creator[c].cmd.template = Template(c)
        /\ DOMAIN Template(c) = 1..Len(Template(c)) /\ Len(Template(c)) \in Nat \ {0}
        /\ before' = before
    BY <1>4, CreateAssumption DEF CreateWrite, CreateShape, Template
  <2> DEFINE change == [i |-> creator[c].i + 1,
                        at |-> IF creator[c].i < Len(Template(c)) THEN "write" ELSE "done"]
  <2>2. CreateMove(c, change)
    BY <1>4, <2>1 DEF CreateWrite
  <2>3. /\ DOMAIN change = {"at", "i"} /\ change.at \in {"write", "done"}
        /\ change.at = "write" => change.i \in DOMAIN Template(c)
    BY <2>1
  <2> HIDE DEF change
  <2>4. creator'[c].at = change.at /\ creator'[c].i = change.i
    BY <2>2, <2>3, CreateMoved
  <2>5. DOMAIN change \subseteq {"at", "i", "conflict"} /\ creator'[c].at \notin {"start", "check"}
    BY <2>3, <2>4
  <2> QED
    BY <1>1, <2>1, <2>2, <2>3, <2>4, <2>5, ShapeActed
<1>5. ASSUME NEW c \in DOMAIN creator, CreateFails(c) PROVE CreateShape'
  <2> DEFINE change == [at |-> "failed"]
  <2>1. CreateMove(c, change) /\ before' = before /\ DOMAIN change = {"at"}
    BY <1>5 DEF CreateFails
  <2>2. creator'[c].at = "failed"
    BY <2>1, CreateMoved
  <2> HIDE DEF change
  <2> QED
    BY <1>1, <2>1, <2>2, ShapeActed
<1>6. CASE ~CreateNext
  <2>1. UNCHANGED createVars
    BY <1>6 DEF Next, vars
  <2> QED
    BY <1>1, <2>1, ShapeKept
<1> QED
  BY <1>2, <1>3, <1>4, <1>5, <1>6 DEF CreateNext, Creator

LEMMA AboveShorter ==
    ASSUME NEW path \in Seq(Part) \ {<<>>}, NEW q \in Above(path)
    PROVE  /\ q \in Seq(Part) \ {<<>>} /\ q # path
           /\ Above(q) \subseteq Above(path)
<1>1. PICK n \in 1..(Len(path) - 1) : q = SubSeq(path, 1, n)
  BY DEF Above, Prefix
<1>2. q \in Seq(Part) /\ Len(q) = n /\ n \in Nat \ {0} /\ n < Len(path)
  BY <1>1
<1>3. ASSUME NEW r \in Above(q) PROVE r \in Above(path)
  <2>1. PICK m \in 1..(n - 1) : r = SubSeq(q, 1, m)
    BY <1>2, <1>3 DEF Above, Prefix
  <2>2. r = SubSeq(path, 1, m)
    BY <1>1, <1>2, <2>1
  <2> QED
    BY <1>2, <2>1, <2>2 DEF Above, Prefix
<1> QED
  BY <1>2, <1>3

\* What set makes of a document is a document: nothing hangs below the new value or
\* below a list, and what the path goes through are mappings.
LEMMA EditedOK ==
    ASSUME NEW c, ContentOK(c), NEW path \in Seq(Part) \ {<<>>}, NEW v \in STRING,
           ~Refuses(c.nodes, path)
    PROVE  ContentOK(Yaml(Edited(c.nodes, path, v)))
<1> DEFINE new == Edited(c.nodes, path, v)
<1>1. DOMAIN new = DOMAIN c.nodes \cup Above(path) \cup {path} /\ path \notin Above(path)
  BY AboveShorter DEF Edited
<1>2. /\ new[path] = [kind |-> "scalar", items |-> <<v>>]
      /\ \A q \in Above(path) : new[q].kind = "map" /\ new[q].items = <<>>
      /\ \A q \in DOMAIN c.nodes \ (Above(path) \cup {path}) : new[q] = c.nodes[q]
  BY <1>1 DEF Edited, Scalar, Mapping
<1>4. <<v>> \in Seq(STRING) /\ <<>> \in Seq(STRING)
  OBVIOUS
<1>5. \A q \in Above(path) \cup {path} :
         new[q].kind \in {"map", "scalar"} /\ new[q].items \in Seq(STRING)
  <2> HIDE DEF new
  <2>1. new[path].kind = "scalar" /\ new[path].items = <<v>>
    BY <1>2
  <2>2. \A q \in Above(path) : new[q].kind = "map" /\ new[q].items \in Seq(STRING)
    BY <1>2, <1>4
  <2>3. new[path].items \in Seq(STRING)
    BY <1>4, <2>1, Zenon
  <2> QED
    BY <2>1, <2>2, <2>3
<1> HIDE DEF new
<1>3. ASSUME NEW p \in DOMAIN new
      PROVE  /\ p \in Seq(Part) \ {<<>>} /\ new[p].kind \in {"map", "scalar", "list", "nested"}
             /\ new[p].items \in Seq(STRING)
             /\ \A q \in Above(p) : q \in DOMAIN new /\ new[q].kind = "map"
  <2>1. CASE p \in Above(path) \cup {path}
    <3>1. p \in Seq(Part) \ {<<>>} /\ Above(p) \subseteq Above(path)
      BY <2>1, AboveShorter
    <3> QED
      BY <1>1, <1>2, <1>5, <2>1, <3>1
  <2>2. CASE p \in DOMAIN c.nodes \ (Above(path) \cup {path})
    <3>1. ASSUME NEW q \in Above(p) PROVE q \in DOMAIN new /\ new[q].kind = "map"
      <4>1. q \in DOMAIN c.nodes /\ c.nodes[q].kind = "map"
        BY <2>2, <3>1 DEF ContentOK
      <4>2. q # path
        BY <4>1 DEF Refuses
      <4> QED
        BY <1>1, <1>2, <4>1, <4>2
    <3> QED
      BY <1>2, <2>2, <3>1 DEF ContentOK
  <2> QED
    BY <1>1, <2>1, <2>2
<1> QED
  BY <1>3 DEF ContentOK, Yaml, new

LEMMA EmptyOK == ContentOK(Empty)
BY DEF ContentOK, Empty, Yaml

\* A document that the set command p may edit.
Editable(p, doc) == ContentOK(doc) /\ doc.yaml /\ ~Refuses(doc.nodes, setter[p].cmd.path)

\* What a set holds in its memory and has written.
SetOK(p) ==
    /\ DOMAIN setter[p] = {"cmd", "at", "target", "doc"}
    /\ setter[p].cmd = scenario.setters[p]
    /\ setter[p].at = "write" => Editable(p, setter[p].doc)
    /\ committed[p] # <<>> =>
          LET done == committed[p][1] IN
          /\ Editable(p, done.read)
          /\ done.made = Yaml(Edited(done.read.nodes, setter[p].cmd.path, setter[p].cmd.value))

SetShape ==
    /\ DOMAIN setter = DOMAIN scenario.setters /\ DOMAIN committed = DOMAIN setter
    /\ \A p \in DOMAIN setter : SetOK(p)

FilesInv ==
    /\ CreateShape /\ SetShape
    /\ \A f \in DOMAIN files : ContentOK(files[f])
    /\ StoreOK(store) /\ ManifestOK(manifest)

LEMMA FilesInitially == Init => FilesInv
<1>1. Init => CreateShape
  BY CreateInitially DEF CreateInv
<1> QED
  BY <1>1, DocumentsAssumption, StoresAssumption, ManifestsAssumption
     DEF Init, WorkspaceInit, SetInit, FilesInv, SetShape, SetOK

LEMMA SetMoved ==
    ASSUME SetShape, NEW p \in DOMAIN setter, NEW change, SetMove(p, change),
           DOMAIN change \subseteq {"at", "target", "doc"}
    PROVE  /\ DOMAIN setter' = DOMAIN setter
           /\ \A q \in DOMAIN setter : q # p => setter'[q] = setter[q]
           /\ DOMAIN setter'[p] = {"cmd", "at", "target", "doc"}
           /\ setter'[p].cmd = setter[p].cmd
           /\ "at" \in DOMAIN change => setter'[p].at = change.at
           /\ setter'[p].doc = IF "doc" \in DOMAIN change THEN change.doc ELSE setter[p].doc
BY DEF SetMove, Changed, SetShape, SetOK

\* A step of set p leaves every set with what it may edit, if p has it.
LEMMA SetActed ==
    ASSUME SetShape, NEW p \in DOMAIN setter, NEW change, SetMove(p, change),
           DOMAIN change \subseteq {"at", "target", "doc"}, UNCHANGED scenario,
           setter'[p].at = "write" => Editable(p, setter'[p].doc),
           DOMAIN committed' = DOMAIN committed,
           \A q \in DOMAIN setter : q # p => committed'[q] = committed[q],
           \/ committed'[p] = committed[p]
           \/ \E doc : /\ Editable(p, doc)
                       /\ committed'[p][1].read = doc
                       /\ committed'[p][1].made =
                             Yaml(Edited(doc.nodes, setter[p].cmd.path, setter[p].cmd.value))
    PROVE  SetShape'
<1>1. ASSUME NEW q \in DOMAIN setter, q # p PROVE SetOK(q)'
  <2>1. setter'[q] = setter[q] /\ committed'[q] = committed[q]
    BY <1>1, SetMoved
  <2> QED
    BY <2>1 DEF SetShape, SetOK, Editable
<1>2. SetOK(p)'
  <2>1. SetOK(p)
    BY DEF SetShape
  <2>2. /\ DOMAIN setter'[p] = {"cmd", "at", "target", "doc"}
        /\ setter'[p].cmd = setter[p].cmd /\ setter[p].cmd = scenario'.setters[p]
    BY <2>1, SetMoved DEF SetOK
  <2>3. setter'[p].at = "write" => Editable(p, setter[p].doc)'
    BY <2>2 DEF Editable
  <2>4. ASSUME committed'[p] # <<>>
        PROVE  /\ Editable(p, committed[p][1].read)'
               /\ committed'[p][1].made = Yaml(Edited(committed'[p][1].read.nodes,
                                             setter'[p].cmd.path, setter'[p].cmd.value))
    BY <2>1, <2>2, <2>4 DEF SetOK, Editable
  <2> QED
    BY <2>2, <2>3, <2>4 DEF SetOK
<1> QED
  BY <1>1, <1>2, SetMoved DEF SetShape

LEMMA StoresMove ==
    ASSUME FilesInv, [Next]_vars
    PROVE  StoreOK(store)' /\ ManifestOK(manifest)'
<1>1. scenario \in Scenarios
  BY DEF FilesInv, CreateShape
<1>2. CASE Edit
  <2>1. store' = store \/ store' \in scenario.storeEdits
    BY <1>2, Zenon DEF Edit
  <2>2. manifest' = manifest \/ manifest' \in scenario.manifestEdits
    BY <1>2, Zenon DEF Edit
  <2> QED
    BY <1>1, <2>1, <2>2, StoresAssumption, ManifestsAssumption DEF FilesInv
<1>3. CASE ~Edit
  <2>1. UNCHANGED <<store, manifest>>
    BY <1>3 DEF Next, vars, workspace, CreateNext, CreateStart, CheckConflict, CreateWrite,
       CreateFails, SetNext, SetRead, SetWrite, SetFails, MergeNext, IgnoreNext, CheckIgnore,
       ReadIgnore, WriteIgnore, IgnoreFails,
       PackNext, PackStart, Plan, Rewrite, Clear, WriteManifest, Copy, Scan, CopySecrets,
       PackFails, ValidateNext, ValidateStart, ResolveNext, DiagnoseNext, CheckSecrets,
       CheckPublicKeys, CheckKeypairs, Grade, EmitNext, EmitStart, EmitExplain,
       EmitEntries, EmitWrite, EmitFails
  <2> QED
    BY <2>1 DEF FilesInv
<1> QED
  BY <1>2, <1>3

LEMMA FilesStep == ASSUME FilesInv, [Next]_vars PROVE FilesInv'
<1>1. CreateShape'
  BY ShapeStep DEF FilesInv
<1>2. scenario \in Scenarios
  BY DEF FilesInv, CreateShape
<1>13. StoreOK(store)' /\ ManifestOK(manifest)'
  BY StoresMove
<1>3. ASSUME UNCHANGED <<scenario, setVars>> PROVE SetShape'
  BY <1>3 DEF FilesInv, SetShape, SetOK, setVars, Editable
<1>4. CASE Edit /\ UNCHANGED setVars
  <2>1. UNCHANGED scenario
    BY <1>4 DEF Edit
  <2>2. \A f \in DOMAIN files' : ContentOK(files'[f])
    <3>1. CASE \E e \in scenario.fileEdits :
                  files' = IF e.content = "removed" THEN Drop(files, e.file)
                           ELSE Put(files, e.file, e.nodes)
      BY <1>2, <3>1, DocumentsAssumption DEF FilesInv, Put, Drop
    <3>2. CASE UNCHANGED files
      BY <3>2 DEF FilesInv
    <3> QED
      BY <1>4, <3>1, <3>2 DEF Edit
  <2> QED
    BY <1>1, <1>3, <1>4, <1>13, <2>1, <2>2 DEF FilesInv
<1>5. CASE CreateNext /\ UNCHANGED setVars
  <2>1. PICK c \in DOMAIN creator : CreateStart(c) \/ CheckConflict(c) \/ CreateWrite(c) \/ CreateFails(c)
    BY <1>5 DEF CreateNext, Creator
  <2>2. UNCHANGED scenario
    BY <2>1 DEF CreateStart, CheckConflict, CreateWrite, CreateFails, workspace
  <2>3. CASE CreateWrite(c)
    <3>1. creator[c].i \in DOMAIN Template(c) /\ creator[c].cmd.template = Template(c)
      BY <2>3 DEF CreateWrite, FilesInv, CreateShape, Template
    <3>2. files' = Put(files, Template(c)[creator[c].i].file, Template(c)[creator[c].i].content)
      BY <2>3, <3>1 DEF CreateWrite
    <3>3. ContentOK(Template(c)[creator[c].i].content)
      BY <1>2, <3>1, DocumentsAssumption DEF Template, FilesInv, CreateShape
    <3>4. \A f \in DOMAIN files' : ContentOK(files'[f])
      BY <3>2, <3>3 DEF FilesInv, Put
    <3> QED
      BY <1>1, <1>13, <1>3, <1>5, <2>2, <3>4 DEF FilesInv
  <2>4. CASE UNCHANGED files
    BY <1>1, <1>13, <1>3, <1>5, <2>2, <2>4 DEF FilesInv
  <2> QED
    BY <2>1, <2>3, <2>4 DEF CreateStart, CheckConflict, CreateFails, workspace
<1>6. ASSUME NEW p \in DOMAIN setter, SetRead(p) PROVE FilesInv'
  <2> DEFINE cmd == setter[p].cmd
             doc == ContentOr(files, Overlay(cmd.include, OverlayEnv(cmd)))
  <2>1. UNCHANGED <<scenario, files, committed>> /\ SetShape
    BY <1>6 DEF SetRead, workspace, FilesInv
  <2>2. CASE SetMove(p, [at |-> "refused"])
    <3> DEFINE change == [at |-> "refused"]
    <3>1. setter'[p].at = "refused"
      BY <2>1, <2>2, SetMoved
    <3>2. SetMove(p, change) /\ DOMAIN change \subseteq {"at", "target", "doc"}
      BY <2>2
    <3> HIDE DEF change
    <3>3. SetShape'
      BY <2>1, <3>1, <3>2, SetActed
    <3> QED
      BY <1>1, <1>13, <2>1, <3>3 DEF FilesInv
  <2>3. CASE /\ doc.yaml /\ ~Refuses(doc.nodes, cmd.path)
             /\ \E target : SetMove(p, [at |-> "write", target |-> target, doc |-> doc])
    <3>1. ContentOK(doc)
      BY EmptyOK DEF ContentOr, FilesInv
    <3>2. Editable(p, doc)
      BY <2>3, <3>1 DEF Editable
    <3>3. PICK target : SetMove(p, [at |-> "write", target |-> target, doc |-> doc])
      BY <2>3
    <3> HIDE DEF doc, cmd
    <3> DEFINE change == [at |-> "write", target |-> target, doc |-> doc]
    <3>4. SetMove(p, change) /\ DOMAIN change \subseteq {"at", "target", "doc"}
      BY <3>3
    <3>5. setter'[p].doc = doc
      BY <2>1, <3>4, SetMoved
    <3> HIDE DEF change
    <3>6. SetShape'
      BY <2>1, <3>2, <3>4, <3>5, SetActed
    <3> QED
      BY <1>1, <1>13, <2>1, <3>6 DEF FilesInv
  <2> QED
    BY <1>6, <2>2, <2>3, Zenon DEF SetRead
<1>7. ASSUME NEW p \in DOMAIN setter, SetWrite(p) PROVE FilesInv'
  <2> DEFINE cmd == setter[p].cmd
             doc == setter[p].doc
             new == Yaml(Edited(doc.nodes, cmd.path, cmd.value))
             change == [at |-> "done"]
  <2>1. /\ SetShape /\ Editable(p, doc) /\ cmd.path \in Seq(Part) \ {<<>>}
        /\ \A f \in DOMAIN files : ContentOK(files[f])
    BY <1>2, <1>7, DocumentsAssumption DEF SetWrite, FilesInv, SetShape, SetOK
  <2>8. cmd.value \in STRING
    BY <1>2, <1>7, DocumentsAssumption DEF FilesInv, SetShape, SetOK
  <2>2. ContentOK(new)
    BY <2>1, <2>8, EditedOK DEF Editable
  <2>3. /\ UNCHANGED scenario /\ files' = Put(files, setter[p].target, new)
        /\ committed' = [committed EXCEPT ![p] = <<[read |-> doc, made |-> new]>>]
        /\ SetMove(p, change) /\ DOMAIN change \subseteq {"at", "target", "doc"}
    BY <1>7 DEF SetWrite
  <2>4. setter'[p].at = "done"
    BY <2>1, <2>3, SetMoved
  <2>5. /\ DOMAIN committed' = DOMAIN committed
        /\ \A q \in DOMAIN setter : q # p => committed'[q] = committed[q]
        /\ committed'[p][1].read = doc /\ committed'[p][1].made = new
    BY <2>1, <2>3 DEF SetShape
  <2> HIDE DEF change
  <2>6. SetShape'
    BY <2>1, <2>3, <2>4, <2>5, SetActed
  <2>7. \A f \in DOMAIN files' : ContentOK(files'[f])
    BY <2>1, <2>2, <2>3 DEF Put
  <2> QED
    BY <1>1, <1>13, <2>3, <2>6, <2>7 DEF FilesInv
<1>8. ASSUME NEW p \in DOMAIN setter, SetFails(p) PROVE FilesInv'
  <2> DEFINE change == [at |-> "failed"]
  <2>1. /\ UNCHANGED <<scenario, files, committed>> /\ SetShape
        /\ SetMove(p, change) /\ DOMAIN change \subseteq {"at", "target", "doc"}
    BY <1>8 DEF SetFails, workspace, FilesInv
  <2>2. setter'[p].at = "failed"
    BY <2>1, SetMoved
  <2> HIDE DEF change
  <2>3. SetShape'
    BY <2>1, <2>2, SetActed
  <2> QED
    BY <1>1, <1>13, <2>1, <2>3 DEF FilesInv
<1>9. CASE UNCHANGED <<scenario, files, setVars>>
  BY <1>1, <1>13, <1>3, <1>9 DEF FilesInv
<1>10. CASE ~CreateNext /\ ~SetNext /\ ~Edit
  <2>1. UNCHANGED setVars
    BY <1>10 DEF Next, vars
  <2>2. UNCHANGED <<scenario, files>>
    BY <1>10 DEF Next, vars, workspace, MergeNext, IgnoreNext, CheckIgnore, ReadIgnore,
       WriteIgnore, IgnoreFails,
       PackNext, PackStart, Plan, Rewrite, Clear, WriteManifest, Copy, Scan, CopySecrets,
       PackFails, ValidateNext, ValidateStart, ResolveNext, DiagnoseNext, CheckSecrets,
       CheckPublicKeys, CheckKeypairs, Grade, EmitNext, EmitStart, EmitExplain,
       EmitEntries, EmitWrite, EmitFails
  <2> QED
    BY <1>9, <2>1, <2>2
<1>11. CASE SetNext
  BY <1>6, <1>7, <1>8, <1>11 DEF SetNext, Setter
<1>12. CASE UNCHANGED vars
  BY <1>9, <1>12 DEF vars, workspace
<1> QED
  BY <1>4, <1>5, <1>10, <1>11, <1>12 DEF Next

LEMMA FilesInvariant == Spec => []FilesInv
BY FilesInitially, FilesStep, PTL DEF Spec

\* Of what was read: the scalars that become mappings on the way to path, whether the
\* variable is written in another way too, and the variables that are left alone.
Refined(read, path) ==
    {q \in Above(path) \cap DOMAIN read.nodes : read.nodes[q].kind = "scalar"}
Respelled(read, path) ==
    \E q \in Leaves(read.nodes) \ (Refined(read, path) \cup {path}) : EnvKey(q) = EnvKey(path)
Spared(read, path) ==
    Keys(read) \ ({EnvKey(path)} \cup {EnvKey(q) : q \in Refined(read, path)})

Effect(read, made, path, v) ==
    /\ path \in DOMAIN read.nodes => read.nodes[path].kind = "scalar"
    /\ Flattens(made) <=> ~Respelled(read, path)
    /\ ~Respelled(read, path) =>
          /\ Keys(made) = Spared(read, path) \cup {EnvKey(path)}
          /\ Flat(made)[EnvKey(path)] = Scalar(v)
          /\ \A k \in Spared(read, path) : Flat(made)[k] = Flat(read)[k]

LEMMA SetEffect ==
    ASSUME NEW read, ContentOK(read), Flattens(read), NEW path \in Seq(Part) \ {<<>>}, NEW v,
           ~Refuses(read.nodes, path),
           NEW made, made = Yaml(Edited(read.nodes, path, v))
    PROVE  Effect(read, made, path, v)
<1> DEFINE refined == Refined(read, path)
           respelled == Respelled(read, path)
           kept == Spared(read, path)
           left == Leaves(read.nodes) \ (refined \cup {path})
<1>0. /\ refined = {q \in Above(path) \cap DOMAIN read.nodes : read.nodes[q].kind = "scalar"}
      /\ respelled <=> \E q \in left : EnvKey(q) = EnvKey(path)
      /\ kept = Keys(read) \ ({EnvKey(path)} \cup {EnvKey(q) : q \in refined})
  BY DEF Refined, Respelled, Spared
<1> HIDE DEF refined, respelled, kept
<1>1. path \in DOMAIN read.nodes => read.nodes[path].kind = "scalar"
  BY DEF Refuses, ContentOK
<1>2. path \notin Above(path)
  BY AboveShorter
<1>3. /\ made.yaml /\ DOMAIN made.nodes = DOMAIN read.nodes \cup Above(path) \cup {path}
      /\ made.nodes[path] = Scalar(v)
      /\ \A q \in Above(path) : made.nodes[q].kind = "map"
      /\ \A q \in DOMAIN read.nodes \ (Above(path) \cup {path}) : made.nodes[q] = read.nodes[q]
  BY <1>2 DEF Yaml, Edited, Mapping
<1>4. \A q \in Above(path) \cap Leaves(read.nodes) : q \in refined
  BY <1>0 DEF Leaves, Refuses, ContentOK
<1>5. refined \subseteq Above(path) /\ refined \subseteq Leaves(read.nodes)
  BY <1>0 DEF Leaves
<1>6. left \cap Above(path) = {} /\ left \subseteq DOMAIN read.nodes
  BY <1>4 DEF Leaves
<1>7. Leaves(made.nodes) = left \cup {path}
  BY <1>3, <1>4, <1>5, <1>6 DEF Leaves, Scalar
<1>8. /\ made.nodes[path].kind # "nested"
      /\ \A q \in left : made.nodes[q] = read.nodes[q] /\ read.nodes[q].kind # "nested"
  BY <1>3, <1>6 DEF Flattens, Scalar
<1>10. \A p, q \in Leaves(read.nodes) : EnvKey(p) = EnvKey(q) => p = q
  BY DEF Flattens
<1>11. Flattens(made) <=> ~respelled
  <2>1. CASE respelled
    <3>1. PICK q \in left : EnvKey(q) = EnvKey(path)
      BY <1>0, <2>1
    <3>2. q # path /\ q \in Leaves(made.nodes) /\ path \in Leaves(made.nodes)
      BY <1>7, <3>1
    <3> QED
      BY <2>1, <3>1, <3>2 DEF Flattens
  <2>2. CASE ~respelled
    <3>1. \A p, q \in left \cup {path} : EnvKey(p) = EnvKey(q) => p = q
      BY <1>0, <1>10, <2>2
    <3> QED
      BY <1>3, <1>7, <1>8, <2>2, <3>1 DEF Flattens
  <2> QED
    BY <2>1, <2>2
<1>12. ASSUME ~respelled
       PROVE  /\ Keys(made) = kept \cup {EnvKey(path)}
              /\ Flat(made)[EnvKey(path)] = Scalar(v)
              /\ \A k \in kept : Flat(made)[k] = Flat(read)[k]
  <2>1. \A p, q \in Leaves(made.nodes) : EnvKey(p) = EnvKey(q) => p = q
    BY <1>11, <1>12 DEF Flattens
  <2>2. \A k \in kept : \E q \in left : EnvKey(q) = k
    BY <1>0 DEF Keys
  <2>3. \A q \in left : EnvKey(q) \in kept
    <3>1. ASSUME NEW q \in left PROVE EnvKey(q) # EnvKey(path)
      BY <1>0, <1>12
    <3>2. ASSUME NEW q \in left, NEW p \in refined PROVE EnvKey(q) # EnvKey(p)
      BY <1>5, <1>10, <3>2
    <3> QED
      BY <1>0, <3>1, <3>2 DEF Keys
  <2>4. Keys(made) = kept \cup {EnvKey(path)}
    BY <1>7, <2>2, <2>3 DEF Keys
  <2>5. \A q \in Leaves(made.nodes) : PathOf(made, EnvKey(q)) = q
    BY <2>1 DEF PathOf
  <2>6. \A q \in Leaves(read.nodes) : PathOf(read, EnvKey(q)) = q
    BY <1>10 DEF PathOf
  <2>7. \A q \in Leaves(made.nodes) : Flat(made)[EnvKey(q)] = made.nodes[q]
    BY <2>5 DEF Flat, Keys
  <2>8. \A q \in Leaves(read.nodes) : Flat(read)[EnvKey(q)] = read.nodes[q]
    BY <2>6 DEF Flat, Keys
  <2>9. Flat(made)[EnvKey(path)] = Scalar(v)
    BY <1>3, <1>7, <2>7
  <2>10. ASSUME NEW k \in kept PROVE Flat(made)[k] = Flat(read)[k]
    <3>1. PICK q \in left : EnvKey(q) = k
      BY <2>2
    <3> QED
      BY <1>7, <1>8, <2>7, <2>8, <3>1
  <2> QED
    BY <2>4, <2>9, <2>10
<1> QED
  BY <1>1, <1>11, <1>12 DEF respelled, kept, Effect

\* What set wrote is the value of its variable, every other variable is as it was in
\* what the set had read, and only a scalar is overwritten, on the path too: for any
\* documents and paths, and any number of sets and other writers (action.go).
THEOREM SetExact == Spec => []SetTakesEffect
<1>1. ASSUME FilesInv PROVE SetTakesEffect
  <2> SUFFICES ASSUME NEW p \in DOMAIN setter, committed[p] # <<>>, Flattens(committed[p][1].read)
      PROVE  Effect(committed[p][1].read, committed[p][1].made, setter[p].cmd.path,
                    setter[p].cmd.value)
    BY DEF SetTakesEffect, Setter, Refined, Respelled, Spared, Effect
  <2> DEFINE read == committed[p][1].read
             path == setter[p].cmd.path
  <2>1. SetOK(p) /\ scenario \in Scenarios /\ p \in DOMAIN scenario.setters
    BY <1>1 DEF FilesInv, SetShape, CreateShape
  <2>2. path \in Seq(Part) \ {<<>>}
    BY <2>1, DocumentsAssumption DEF SetOK
  <2>3. /\ ContentOK(read) /\ ~Refuses(read.nodes, path) /\ Flattens(read)
        /\ committed[p][1].made = Yaml(Edited(read.nodes, path, setter[p].cmd.value))
    BY <2>1 DEF SetOK, Editable
  <2> QED
    BY <2>2, <2>3, SetEffect
<1> QED
  BY <1>1, FilesInvariant, PTL

-----------------------------------------------------------------------------
(* The types of everything                                                 *)

CreateAts == {"start", "check", "write", "done", "refused", "failed"}
SetAts == {"start", "write", "done", "refused", "failed"}
ReadAts == {"start", "bases", "overlays", "done", "failed"}
GuardAts == {"check", "read", "write", "done", "failed"}
PackAts == {"idle", "start", "plan", "rewrite", "clear", "manifest", "copy", "secrets",
            "done", "refused", "failed"}
AuditAts == {"idle", "start", "resolve", "diagnose", "secrets", "public", "keypairs",
             "grade", "done", "failed"}
EmitAts == {"idle", "start", "explain", "entries", "write", "done", "refused", "failed"}

\* A process is at one of the places of its command.
Within(process, ats) == "at" \in DOMAIN process /\ process.at \in ats
AllWithin(processes, ats) == \A p \in DOMAIN processes : Within(processes[p], ats)

TouchedOK ==
    \A c \in DOMAIN touched : touched[c] \subseteq {"files", "manifest", "store", "ignore"}

PlacesInv ==
    /\ AllWithin(creator, CreateAts) /\ AllWithin(setter, SetAts)
    /\ AllWithin(reader, ReadAts) /\ AllWithin(guard, GuardAts)
    /\ Within(packer, PackAts) /\ Within(auditor, AuditAts) /\ Within(emitter, EmitAts)
    /\ edits \in 0..MaxEdits
    /\ TouchedOK

LEMMA PlacesInitially == Init => PlacesInv
BY MaxEditsAssumption
   DEF Init, WorkspaceInit, CreateInit, SetInit, MergeInit, IgnoreInit, PackInit, ValidateInit,
       EmitInit, PlacesInv, TouchedOK, Within, AllWithin, CreateAts, SetAts, ReadAts, GuardAts, PackAts,
       AuditAts, EmitAts

LEMMA ChangedWithin ==
    ASSUME NEW ats, NEW process, Within(process, ats), NEW change,
           "at" \in DOMAIN change => change.at \in ats
    PROVE  Within(Changed(process, change), ats)
BY DEF Within, Changed

LEMMA OneChanged ==
    ASSUME NEW ats, NEW processes, AllWithin(processes, ats), NEW new, NEW p, NEW change,
           "at" \in DOMAIN change => change.at \in ats,
           DOMAIN new = DOMAIN processes,
           \A q \in DOMAIN processes : q # p => new[q] = processes[q],
           p \in DOMAIN processes => new[p] = Changed(processes[p], change)
    PROVE  AllWithin(new, ats)
<1>1. ASSUME NEW q \in DOMAIN processes PROVE Within(new[q], ats)
  BY ChangedWithin DEF AllWithin
<1> QED
  BY <1>1 DEF AllWithin

LEMMA CreatePlaces == ASSUME CreateNext, AllWithin(creator, CreateAts) PROVE AllWithin(creator', CreateAts)
<1>1. PICK c \in Creator : CreateStart(c) \/ CheckConflict(c) \/ CreateWrite(c) \/ CreateFails(c)
  BY DEF CreateNext
<1>2. \E change : CreateMove(c, change) /\ ("at" \in DOMAIN change => change.at \in CreateAts)
  <2>1. CASE CreateStart(c)
    BY <2>1 DEF CreateStart, CreateAts
  <2>2. CASE CheckConflict(c)
    <3>1. CASE \E i, b : CreateMove(c, [i |-> i, conflict |-> b])
      BY <3>1
    <3>2. CASE \E i, b : \E at \in {"refused", "write"} : CreateMove(c, [i |-> i, conflict |-> b, at |-> at])
      BY <3>2 DEF CreateAts
    <3> QED
      BY <2>2, <3>1, <3>2, Zenon DEF CheckConflict
  <2>3. CASE CreateWrite(c)
    BY <2>3 DEF CreateWrite, CreateAts
  <2>4. CASE CreateFails(c)
    BY <2>4 DEF CreateFails, CreateAts
  <2> QED
    BY <1>1, <2>1, <2>2, <2>3, <2>4
<1>3. PICK change : CreateMove(c, change) /\ ("at" \in DOMAIN change => change.at \in CreateAts)
  BY <1>2
<1>4. /\ DOMAIN creator' = DOMAIN creator
      /\ \A q \in DOMAIN creator : q # c => creator'[q] = creator[q]
      /\ c \in DOMAIN creator => creator'[c] = Changed(creator[c], change)
  BY <1>3 DEF CreateMove
<1> QED
  BY <1>3, <1>4, OneChanged

LEMMA SetPlaces == ASSUME SetNext, AllWithin(setter, SetAts) PROVE AllWithin(setter', SetAts)
<1>1. PICK p \in Setter : SetRead(p) \/ SetWrite(p) \/ SetFails(p)
  BY DEF SetNext
<1>2. \E change : SetMove(p, change) /\ ("at" \in DOMAIN change => change.at \in SetAts)
  <2>1. CASE \E t, d : SetMove(p, [at |-> "write", target |-> t, doc |-> d])
    BY <2>1 DEF SetAts
  <2>2. CASE \E at \in {"refused", "done", "failed"} : SetMove(p, [at |-> at])
    BY <2>2 DEF SetAts
  <2>3. SetRead(p) => (\E t, d : SetMove(p, [at |-> "write", target |-> t, doc |-> d]))
                      \/ SetMove(p, [at |-> "refused"])
    BY Zenon DEF SetRead
  <2>4. (SetWrite(p) => SetMove(p, [at |-> "done"])) /\ (SetFails(p) => SetMove(p, [at |-> "failed"]))
    BY DEF SetWrite, SetFails
  <2> QED
    BY <1>1, <2>1, <2>2, <2>3, <2>4
<1>3. PICK change : SetMove(p, change) /\ ("at" \in DOMAIN change => change.at \in SetAts)
  BY <1>2
<1>4. /\ DOMAIN setter' = DOMAIN setter
      /\ \A q \in DOMAIN setter : q # p => setter'[q] = setter[q]
      /\ p \in DOMAIN setter => setter'[p] = Changed(setter[p], change)
  BY <1>3 DEF SetMove
<1> QED
  BY <1>3, <1>4, OneChanged

LEMMA MergePlaces == ASSUME MergeNext, AllWithin(reader, ReadAts) PROVE AllWithin(reader', ReadAts)
<1>1. PICK r \in Reader : MergeStart(r) \/ ReadBase(r) \/ OpenSide(r) \/ ReadOverlay(r) \/ MergeDone(r)
  BY DEF MergeNext
<1>2. \E change : Step(r, change) /\ ("at" \in DOMAIN change => change.at \in ReadAts)
  <2>1. CASE \E p, e : Step(r, [at |-> "bases", params |-> p, envs |-> e, i |-> 1])
    BY <2>1 DEF ReadAts
  <2>2. CASE \E b, i : Step(r, [bases |-> b, i |-> i])
    BY <2>2
  <2>3. CASE \E s, i : Step(r, [at |-> "overlays", i |-> i, states |-> s])
    BY <2>3 DEF ReadAts
  <2>4. CASE \E s, i : Step(r, [i |-> i, states |-> s])
    BY <2>4
  <2>5. CASE \E s : Step(r, [at |-> "done", states |-> s])
    BY <2>5 DEF ReadAts
  <2>6. CASE Step(r, [at |-> "failed"])
    BY <2>6 DEF ReadAts
  <2>7. MergeStart(r) => (\E p, e : Step(r, [at |-> "bases", params |-> p, envs |-> e, i |-> 1]))
                         \/ Step(r, [at |-> "failed"])
    BY Zenon DEF MergeStart, Fails
  <2>8. ReadBase(r) => (\E b, i : Step(r, [bases |-> b, i |-> i])) \/ Step(r, [at |-> "failed"])
    BY Zenon DEF ReadBase, Fails
  <2>9. OpenSide(r) => \E s, i : Step(r, [at |-> "overlays", i |-> i, states |-> s])
    BY Zenon DEF OpenSide
  <2>10. ReadOverlay(r) => (\E s, i : Step(r, [i |-> i, states |-> s])) \/ Step(r, [at |-> "failed"])
    BY Zenon DEF ReadOverlay, Fails
  <2>11. MergeDone(r) => \E s : Step(r, [at |-> "done", states |-> s])
    BY Zenon DEF MergeDone
  <2> QED
    BY <1>1, <2>1, <2>2, <2>3, <2>4, <2>5, <2>6, <2>7, <2>8, <2>9, <2>10, <2>11
<1>3. PICK change : Step(r, change) /\ ("at" \in DOMAIN change => change.at \in ReadAts)
  BY <1>2
<1>4. /\ DOMAIN reader' = DOMAIN reader
      /\ \A q \in DOMAIN reader : q # r => reader'[q] = reader[q]
      /\ r \in DOMAIN reader => reader'[r] = Changed(reader[r], change)
  BY <1>3 DEF Step
<1> QED
  BY <1>3, <1>4, OneChanged

LEMMA IgnorePlaces == ASSUME IgnoreNext, AllWithin(guard, GuardAts) PROVE AllWithin(guard', GuardAts)
<1>1. PICK g \in Guard : CheckIgnore(g) \/ ReadIgnore(g) \/ WriteIgnore(g) \/ IgnoreFails(g)
  BY DEF IgnoreNext
<1>2. \E change : Moves(g, change) /\ ("at" \in DOMAIN change => change.at \in GuardAts)
  <2>1. CASE \E at \in GuardAts : Moves(g, [at |-> at])
    BY <2>1
  <2>2. CASE \E lines : Moves(g, [at |-> "write", lines |-> lines])
    BY <2>2 DEF GuardAts
  <2> QED
    BY <1>1, <2>1, <2>2 DEF CheckIgnore, ReadIgnore, WriteIgnore, IgnoreFails, Settles, GuardAts
<1>3. PICK change : Moves(g, change) /\ ("at" \in DOMAIN change => change.at \in GuardAts)
  BY <1>2
<1>4. /\ DOMAIN guard' = DOMAIN guard
      /\ \A q \in DOMAIN guard : q # g => guard'[q] = guard[q]
      /\ g \in DOMAIN guard => guard'[g] = Changed(guard[g], change)
  BY <1>3 DEF Moves
<1> QED
  BY <1>3, <1>4, OneChanged

LEMMA PackPlaces == ASSUME PackNext, Within(packer, PackAts) PROVE Within(packer', PackAts)
<1>1. CASE PackStart
  BY <1>1 DEF PackStart, Within, PackAts
<1>2. ASSUME NEW change, PackMove(change), "at" \in DOMAIN change => change.at \in PackAts
      PROVE  Within(packer', PackAts)
  BY <1>2, ChangedWithin DEF PackMove
<1>3. CASE Plan
  <2>1. \/ PackMove([at |-> "refused"])
        \/ \E h, p, c : PackMove([at |-> "rewrite", hasStore |-> h, plan |-> p, copies |-> c])
    BY <1>3, Zenon DEF Plan
  <2> QED
    BY <1>2, <2>1 DEF PackAts
<1>4. CASE Rewrite \/ Clear \/ WriteManifest
  <2>1. \/ \E m : PackMove([at |-> "clear", manifest |-> m])
        \/ PackMove([at |-> "manifest"])
        \/ PackMove([at |-> "copy", i |-> 1])
    BY <1>4, Zenon DEF Rewrite, Clear, WriteManifest
  <2> QED
    BY <1>2, <2>1 DEF PackAts
<1>5. CASE Copy
  <2>1. (\E i : PackMove([i |-> i])) \/ PackMove([at |-> "failed"])
    BY <1>5, Zenon DEF Copy
  <2> QED
    BY <1>2, <2>1 DEF PackAts
<1>6. CASE Scan
  <2>1. \/ PackMove([at |-> "done", refs |-> {}, missed |-> {}])
        \/ \E refs : PackMove([at |-> "secrets", refs |-> refs])
        \/ PackMove([at |-> "failed"])
    BY <1>6, Zenon DEF Scan
  <2> QED
    BY <1>2, <2>1 DEF PackAts
<1>7. CASE CopySecrets \/ PackFails
  <2>1. (\E missed : PackMove([at |-> "done", missed |-> missed])) \/ PackMove([at |-> "failed"])
    BY <1>7, Zenon DEF CopySecrets, PackFails
  <2> QED
    BY <1>2, <2>1 DEF PackAts
<1> QED
  BY <1>1, <1>3, <1>4, <1>5, <1>6, <1>7 DEF PackNext

LEMMA ValidatePlaces == ASSUME ValidateNext, Within(auditor, AuditAts) PROVE Within(auditor', AuditAts)
<1>1. ASSUME NEW change, ValidateMove(change), "at" \in DOMAIN change => change.at \in AuditAts
      PROVE  Within(auditor', AuditAts)
  BY <1>1, ChangedWithin DEF ValidateMove
<1>2. CASE ValidateStart
  <2>1. \/ \E c, n, e : ValidateMove([at |-> "resolve", cmd |-> c, names |-> n, envs |-> e,
                            params |-> <<>>, i |-> 1, refs |-> {}, report |-> {}])
        \/ ValidateMove([at |-> "failed"])
    BY <1>2, Zenon DEF ValidateStart
  <2> QED
    BY <1>1, <2>1 DEF AuditAts
<1>3. CASE ResolveNext
  <2>1. PICK p, a : \/ ValidateMove([params |-> p, at |-> a]) /\ a \in {"resolve", "diagnose", "secrets"}
                    \/ ValidateMove([at |-> "failed"])
    <3>1. \A b, c : (IF b THEN "resolve" ELSE IF c THEN "diagnose" ELSE "secrets")
                      \in {"resolve", "diagnose", "secrets"}
      OBVIOUS
    <3> QED
      BY <1>3, <3>1, Zenon DEF ResolveNext
  <2> QED
    BY <1>1, <2>1 DEF AuditAts
<1>4. CASE DiagnoseNext
  <2>1. PICK i, a, f, p :
            \/ ValidateMove([i |-> i, at |-> a, refs |-> f, report |-> p]) /\ a \in {"diagnose", "secrets"}
            \/ ValidateMove([at |-> "failed"])
    <3>1. \A b : (IF b THEN "secrets" ELSE "diagnose") \in {"diagnose", "secrets"}
      OBVIOUS
    <3> QED
      BY <1>4, <3>1, Zenon DEF DiagnoseNext
  <2> QED
    BY <1>1, <2>1 DEF AuditAts
<1>5. CASE CheckSecrets \/ CheckPublicKeys \/ CheckKeypairs \/ Grade
  <2>1. PICK p, v : \/ ValidateMove([at |-> "public", report |-> p])
                    \/ ValidateMove([at |-> "keypairs", report |-> p])
                    \/ ValidateMove([at |-> "grade"])
                    \/ ValidateMove([at |-> "grade", report |-> p])
                    \/ ValidateMove([at |-> "failed"])
                    \/ ValidateMove([at |-> "done", verdict |-> v])
    BY <1>5, Zenon DEF CheckSecrets, CheckPublicKeys, CheckKeypairs, Grade
  <2> QED
    BY <1>1, <2>1 DEF AuditAts
<1> QED
  BY <1>2, <1>3, <1>4, <1>5 DEF ValidateNext

LEMMA EmitPlaces == ASSUME EmitNext, Within(emitter, EmitAts) PROVE Within(emitter', EmitAts)
<1>1. ASSUME NEW change, EmitMove(change), "at" \in DOMAIN change => change.at \in EmitAts
      PROVE  Within(emitter', EmitAts)
  BY <1>1, ChangedWithin DEF EmitMove
<1>2. PICK c, p, v, e, w : \/ EmitMove([at |-> "explain", cmd |-> c, params |-> p])
                           \/ EmitMove([at |-> "refused", cmd |-> c])
                           \/ EmitMove([at |-> "entries", values |-> v])
                           \/ EmitMove([at |-> "refused"])
                           \/ EmitMove([at |-> "write", entries |-> e])
                           \/ EmitMove([at |-> "done", warned |-> w])
                           \/ EmitMove([at |-> "failed"])
  <2>1. CASE EmitStart
    BY <2>1, Zenon DEF EmitStart
  <2>2. CASE EmitExplain
    BY <2>2, Zenon DEF EmitExplain
  <2>3. CASE EmitEntries
    BY <2>3, Zenon DEF EmitEntries
  <2>4. CASE EmitWrite \/ EmitFails
    BY <2>4, Zenon DEF EmitWrite, EmitFails
  <2> QED
    BY <2>1, <2>2, <2>3, <2>4 DEF EmitNext
<1> QED
  BY <1>1, <1>2 DEF EmitAts

LEMMA CountedStep ==
    ASSUME PlacesInv, [Next]_vars
    PROVE  /\ edits' \in 0..MaxEdits
           /\ TouchedOK'
<1> USE DEF PlacesInv
<1>1. CASE Edit
  <2>1. edits < MaxEdits /\ edits' = edits + 1
    BY <1>1 DEF Edit
  <2>2. \E kind \in {"files", "manifest", "store", "ignore"} : Touches(kind)
    BY <1>1 DEF Edit
  <2> QED
    BY <2>1, <2>2, MaxEditsAssumption DEF Touches, TouchedOK
<1>2. CASE SetNext \/ CreateNext
  BY <1>2 DEF CreateNext, CreateStart, CheckConflict, CreateWrite, CreateFails, SetNext,
     SetRead, SetWrite, SetFails, workspace, Touches, TouchedOK
<1>3. CASE ~Edit /\ ~SetNext /\ ~CreateNext
  <2>1. UNCHANGED edits /\ (UNCHANGED touched \/ \E command : Begins(command))
    BY <1>3 DEF Next, vars, workspace, MergeNext, IgnoreNext, CheckIgnore, ReadIgnore,
       WriteIgnore, IgnoreFails,
       PackNext, PackStart, Plan, Rewrite, Clear, WriteManifest, Copy, Scan, CopySecrets,
       PackFails, ValidateNext, ValidateStart, ResolveNext, DiagnoseNext, CheckSecrets,
       CheckPublicKeys, CheckKeypairs, Grade, EmitNext, EmitStart, EmitExplain,
       EmitEntries, EmitWrite, EmitFails
  <2> QED
    BY <2>1 DEF Begins, TouchedOK
<1> QED
  BY <1>1, <1>2, <1>3

LEMMA PlacesStep == ASSUME PlacesInv, [Next]_vars PROVE PlacesInv'
<1>1. CreateNext \/ UNCHANGED creator
  BY DEF Next, vars, createVars
<1>2. SetNext \/ UNCHANGED setter
  BY DEF Next, vars, setVars
<1>3. MergeNext \/ UNCHANGED reader
  BY DEF Next, vars, mergeVars
<1>4. IgnoreNext \/ UNCHANGED guard
  BY DEF Next, vars, ignoreVars
<1>5. PackNext \/ UNCHANGED packer
  BY DEF Next, vars, packVars
<1>6. ValidateNext \/ UNCHANGED auditor
  BY DEF Next, vars
<1>7. EmitNext \/ UNCHANGED emitter
  BY DEF Next, vars, emitVars
<1> QED
  BY <1>1, <1>2, <1>3, <1>4, <1>5, <1>6, <1>7, CreatePlaces, SetPlaces, MergePlaces, IgnorePlaces,
     PackPlaces, ValidatePlaces, EmitPlaces, CountedStep DEF PlacesInv

LEMMA PlacesInvariant == Spec => []PlacesInv
BY PlacesInitially, PlacesStep, PTL DEF Spec

\* Whatever runs and whoever edits, every namespace file is a document in which a node
\* has all its ancestors, and they are mappings; every process is at a place of its
\* command (yaml.Node; setNestedKey in action.go).
THEOREM TypeCorrect == Spec => []TypeOK
<1>1. FilesInv /\ PlacesInv /\ IgnoreInv => TypeOK
  BY DEF FilesInv, PlacesInv, TouchedOK, IgnoreInv, TypeOK, Within, AllWithin, Creator, Setter, Reader,
     Guard, CreateAts, SetAts, ReadAts, GuardAts, PackAts, AuditAts, EmitAts
<1> QED
  BY <1>1, FilesInvariant, PlacesInvariant, IgnoreInvariant, PTL
==============================================================================
