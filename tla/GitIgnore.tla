----------------------------- MODULE GitIgnore ------------------------------
(***************************************************************************)
(* EnsureIgnored (utils/git/ignore.go): before a private key is written,   *)
(* its file must be ignored by Git.  Git is asked first; only if it says   *)
(* no is .gitignore read, and replaced by a longer copy.                   *)
(*                                                                         *)
(* A line is "name" or "/name" (a rule for the file), "!name" (its         *)
(* negation), or anything else.  Whether Git can be asked is in the        *)
(* scenario: "ok", "norepo" (exit 128), "missing" or "broken".             *)
(***************************************************************************)
EXTENDS Workspace

Line == {"name", "/name", "!name", "other"}

ASSUME IgnoreAssumption ==
    \A s \in Scenarios :
        /\ s.ignore \in Seq(Line) /\ s.above \in Seq(Line)
        /\ s.ignoreEdits \subseteq Seq(Line)

VARIABLES
    guard,      \* per call: how far it is
    relied      \* per call: <<what it settled on: who by, and the lines>>

ignoreVars == <<guard, relied>>

Guard == DOMAIN guard

IgnoreInit ==
    /\ guard = [g \in scenario.guards |-> [at |-> "check", lines |-> <<>>]]
    /\ relied = [g \in scenario.guards |-> <<>>]

Rules == {"name", "/name"}

(* Git's verdict: the last line that matches decides, the lines of the     *)
(* directories above coming first.                                         *)
Ignored(lines) ==
    LET all == scenario.above \o lines IN
    \E i \in DOMAIN all :
        all[i] \in Rules /\ \A j \in DOMAIN all : j > i => all[j] # "!name"

(* Any line that is a rule will do.                                        *)
HasIgnoreRule(lines) == \E i \in DOMAIN lines : lines[i] \in Rules

Moves(g, change) == guard' = [guard EXCEPT ![g] = Changed(@, change)]

Settles(g, by, lines) ==
    /\ Moves(g, [at |-> "done"])
    /\ relied' = [relied EXCEPT ![g] = <<[by |-> by, lines |-> lines]>>]

CheckIgnore(g) ==
    LET git == scenario.git IN
    /\ guard[g].at = "check"
    /\ \/ /\ git = "broken"
          /\ Moves(g, [at |-> "failed"])
          /\ UNCHANGED relied
       \/ /\ git = "missing"
          /\ Moves(g, [at |-> "done"])
          /\ UNCHANGED relied
       \/ /\ git = "ok" /\ Ignored(ignore)
          /\ Settles(g, "git", ignore)
       \/ /\ git = "norepo" \/ (git = "ok" /\ ~Ignored(ignore))
          /\ Moves(g, [at |-> "read"])
          /\ UNCHANGED relied
    /\ UNCHANGED workspace

ReadIgnore(g) ==
    /\ guard[g].at = "read"
    /\ \/ HasIgnoreRule(ignore) /\ Settles(g, "rule", ignore)
       \/ /\ ~HasIgnoreRule(ignore)
          /\ Moves(g, [at |-> "write", lines |-> ignore])
          /\ UNCHANGED relied
    /\ UNCHANGED workspace

\* Mutant of WriteIgnore: the rule goes before what was there.
WriteIgnoreFirst(g) ==
    /\ guard[g].at = "write"
    /\ ignore' = <<"name">> \o guard[g].lines
    /\ Settles(g, "write", ignore')
    /\ UNCHANGED <<scenario, files, manifest, store, edits, touched>>

WriteIgnore(g) ==
    /\ guard[g].at = "write"
    /\ ignore' = Append(guard[g].lines, "name")
    /\ Settles(g, "write", ignore')
    /\ UNCHANGED <<scenario, files, manifest, store, edits, touched>>

IgnoreFails(g) ==
    /\ guard[g].at = "write"
    /\ Moves(g, [at |-> "failed"])
    /\ UNCHANGED <<workspace, relied>>

IgnoreNext ==
    \E g \in Guard :
        CheckIgnore(g) \/ ReadIgnore(g) \/ WriteIgnore(g) \/ IgnoreFails(g)

-----------------------------------------------------------------------------
(* When EnsureIgnored returns without an error and Git could be asked, the *)
(* .gitignore it settled on does ignore the file, and it still does after  *)
(* whatever the other process writes, as long as nobody else edits it.     *)
(* The one exception is a rule that was there and is negated by a later    *)
(* line (ignore.go:45), which hasIgnoreRule takes for granted.             *)
IgnoredAsTold ==
    LET assumed(g) == relied[g][1].by = "rule"
        negated(lines) == \E i, j \in DOMAIN lines :
            i < j /\ lines[i] \in Rules /\ lines[j] = "!name"
    IN  \A g \in Guard : relied[g] # <<>> =>
        LET holds(lines) == Ignored(lines) \/ (assumed(g) /\ negated(lines))
        IN  /\ holds(relied[g][1].lines)
            /\ edits = 0 => holds(ignore)

=============================================================================
