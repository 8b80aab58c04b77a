---------------------------- MODULE Substitution ----------------------------
(***************************************************************************)
(* The composition of {{NAME}} references (features/env/syntax/            *)
(* substitute.go), as the commands drive it: materialisation for run and a *)
(* revealed diff, its tolerant variant, get --reveal, and explain with and *)
(* without --reveal.                                                       *)
(*                                                                         *)
(* The engine is recursive in the code and a stack machine here: Resolve   *)
(* is entered by call.at = "resolve" and returns with "value" or "error".  *)
(* next and built are the locals of the Compose activations, one per name  *)
(* on the stack.  Keys are asked in any order, as Go ranges over a map.    *)
(*                                                                         *)
(* A value is the tree of what it was composed from: the text of a name    *)
(* with one part per reference, or a value of the OS environment.          *)
(***************************************************************************)
EXTENDS Naturals, Sequences, FiniteSets

CONSTANTS
    Name,       \* the names of variables
    Worlds      \* the inputs: namespaces, OS environment, settings, command,
                \* the key it names

VARIABLES
    w,          \* the input of this command
    phase,      \* "start", "resolve", then "done" or "failed"
    todo,       \* keys not asked yet
    answer,     \* per name: "none", "ok", "circular" or "unresolved"
    out,        \* the values the command returns so far
    cache,      \* composed values
    raw,        \* names whose unsubstituted value is memoised
    reads,      \* how often the resolver was given the value of a name
    visiting,   \* names on the active path
    stack,      \* the active path
    next,       \* per name on the stack: the reference Compose is at
    built,      \* per name on the stack: the parts Compose has so far
    call        \* what the engine is about to do

path == <<visiting, stack, next, built>>
engine == <<cache, raw, reads, path>>
vars == <<w, phase, todo, answer, out, engine, call>>

-----------------------------------------------------------------------------
(* The input.  A leaf is the merged namespace value of a name: absent,     *)
(* a plain text, or a reference to a secret; refs are the references in    *)
(* its text, for a secret those in the plaintext.  A broken leaf is a      *)
(* secret that cannot be decrypted or a list that cannot be joined.        *)

Mode == {"run", "tolerant", "diff", "get", "explain", "masked"}

LeafType == [kind : {"absent", "plain", "secret"},
             refs : Seq(Name), broken : BOOLEAN]

(* key holds the key that get or explain was given; explain may be given   *)
(* none, and run and diff never are.                                       *)
WorldType ==
    {world \in [leaf : [Name -> LeafType], os : SUBSET Name, overload : BOOLEAN,
                mode : Mode, key : {{}} \cup {{n} : n \in Name}] :
        CASE world.mode = "get" -> world.key # {}
          [] world.mode \in {"explain", "masked"} -> TRUE
          [] OTHER -> world.key = {}}

ASSUME NameAssumption == IsFiniteSet(Name)
ASSUME WorldsAssumption == Worlds \subseteq WorldType

(* Modes that read every value before they compose any.                    *)
Eager(m) == m \in {"run", "tolerant", "diff"}

Namespace == {n \in Name : w.leaf[n].kind # "absent"}

(* The OS environment wins over a namespace unless overloaded, and is      *)
(* carried through untouched.                                              *)
Opaque(n) == n \in w.os /\ (n \in Namespace => ~w.overload)

(* Only a materialised child gets the keys that the OS alone defines.      *)
Selected(m) == Namespace \cup (IF m \in {"run", "tolerant"} THEN w.os ELSE {})

(* The keys the command is for.                                            *)
Asked == IF w.key = {} THEN Selected(w.mode) ELSE w.key

(* A masked secret is its own canonical reference: nothing is decrypted,   *)
(* and nothing in it is substituted.                                       *)
Masked(m, n) == m = "masked" /\ w.leaf[n].kind = "secret"

Unreadable(m, n) == ~Opaque(n) /\ w.leaf[n].broken /\ ~Masked(m, n)

Refs(m, n) == IF Masked(m, n) THEN <<>> ELSE w.leaf[n].refs

(* SymbolTable.Declared: an eager table lacks what could not be read.      *)
Declared(m, n) == n \in Selected(m) /\ (Eager(m) => ~Unreadable(m, n))

\* Mutant of Source: the OS environment always comes first.
SourceOsFirst(m, n) ==
    IF n \in w.os THEN "os"
    ELSE IF Declared(m, n) THEN "namespace" ELSE "missing"

\* Mutant of Source: reading on demand ignores --overload.
SourceLazyOsFirst(m, n) ==
    IF n \in w.os /\ (~w.overload \/ ~Declared(m, n) \/ ~Eager(m)) THEN "os"
    ELSE IF Declared(m, n) THEN "namespace" ELSE "missing"

(* Where a reference to n gets its value.                                  *)
Source(m, n) ==
    IF n \in w.os /\ (~w.overload \/ ~Declared(m, n)) THEN "os"
    ELSE IF Declared(m, n) THEN "namespace" ELSE "missing"

OsValue(n) == [os |-> n]
Composed(n, parts) == [name |-> n, parts |-> parts]

-----------------------------------------------------------------------------
Idle == [at |-> "idle"]
Resolving(n) == [at |-> "resolve", key |-> n]
Composing == [at |-> "compose"]
Value(n, v) == [at |-> "value", key |-> n, value |-> v]
Error(n, kind, cycle) ==
    [at |-> "error", key |-> n, kind |-> kind, cycle |-> cycle]

NoValues == [n \in {} |-> OsValue(n)]
With(f, n, v) == [x \in DOMAIN f \cup {n} |-> IF x = n THEN v ELSE f[x]]

Top == stack[Len(stack)]
Pop(s) == SubSeq(s, 1, Len(s) - 1)
Pos == next[Len(next)]
Parts == built[Len(built)]

(* The value on top gets a part, and Compose goes on to the next reference.*)
Advance(v) ==
    /\ next' = Append(Pop(next), Pos + 1)
    /\ built' = Append(Pop(built), Append(Parts, v))

\* Mutant of Leave: the locals of the activation stay behind.
LeaveLocals ==
    /\ stack' = Pop(stack)
    /\ visiting' = visiting \ {Top}
    /\ UNCHANGED <<next, built>>

(* The value on top is off the path again.                                 *)
Leave ==
    /\ stack' = Pop(stack)
    /\ visiting' = visiting \ {Top}
    /\ next' = Pop(next)
    /\ built' = Pop(built)

Init ==
    /\ w \in Worlds
    /\ phase = "start"
    /\ todo = {}
    /\ answer = [n \in Name |-> "none"]
    /\ out = NoValues
    /\ cache = NoValues
    /\ raw = {}
    /\ reads = [n \in Name |-> 0]
    /\ visiting = {}
    /\ stack = <<>> /\ next = <<>> /\ built = <<>>
    /\ call = Idle

(* The eager modes materialise every selected leaf first, and go on to the *)
(* last; an unreadable one is recorded, and fatal unless tolerated.        *)
Materialize ==
    LET failed == {n \in Selected(w.mode) : Unreadable(w.mode, n)} IN
    /\ phase = "start" /\ Eager(w.mode)
    /\ answer' = [n \in Name |-> IF n \in failed THEN "unresolved" ELSE "none"]
    /\ IF failed # {} /\ w.mode # "tolerant"
       THEN phase' = "failed" /\ todo' = {}
       ELSE phase' = "resolve" /\ todo' = Selected(w.mode) \ failed
    /\ reads' = [n \in Name |->
           IF n \in Selected(w.mode) /\ ~Opaque(n) THEN 1 ELSE 0]
    /\ UNCHANGED <<w, out, cache, raw, path, call>>

(* get and explain refuse a key that no namespace has.                     *)
Request ==
    /\ phase = "start" /\ ~Eager(w.mode)
    /\ IF Asked \subseteq Selected(w.mode)
       THEN phase' = "resolve" /\ todo' = Asked
       ELSE phase' = "failed" /\ UNCHANGED todo
    /\ UNCHANGED <<w, answer, out, engine, call>>

(* Explaining judges a value whose literal text has no reference, and an   *)
(* OS value, by itself: the parts of a list are never joined, and what a   *)
(* revealed secret holds is not substituted.                               *)
Literal(n) ==
    \/ Opaque(n)
    \/ w.leaf[n].kind = "secret"
    \/ w.leaf[n].refs = <<>>

Explains == w.mode \in {"explain", "masked"}

\* Mutant of Ask: a key asked stays to be asked.
AskAgain(k) ==
    /\ phase = "resolve" /\ call.at = "idle" /\ k \in todo
    /\ ~(Explains /\ Literal(k))
    /\ call' = Resolving(k)
    /\ UNCHANGED <<w, phase, todo, answer, out, engine>>

Ask(k) ==
    /\ phase = "resolve" /\ call.at = "idle" /\ k \in todo
    /\ ~(Explains /\ Literal(k))
    /\ todo' = todo \ {k}
    /\ call' = Resolving(k)
    /\ UNCHANGED <<w, phase, answer, out, engine>>

(* The row of such a key takes its value to the resolver past the engine's *)
(* memo, and decrypts a secret even where the row will be masked.          *)
Diagnose(k) ==
    LET secret == ~Opaque(k) /\ w.leaf[k].kind = "secret" IN
    /\ phase = "resolve" /\ call.at = "idle" /\ k \in todo
    /\ Explains /\ Literal(k)
    /\ todo' = todo \ {k}
    /\ answer' = [answer EXCEPT ![k] =
           IF secret /\ w.leaf[k].broken THEN "unresolved" ELSE "ok"]
    /\ out' = IF w.mode = "explain" /\ answer'[k] = "ok"
              THEN With(out, k, IF Opaque(k) THEN OsValue(k)
                                ELSE Composed(k, w.leaf[k].refs))
              ELSE out
    /\ reads' = IF Opaque(k) THEN reads ELSE [reads EXCEPT ![k] = @ + 1]
    /\ UNCHANGED <<w, phase, cache, raw, path, call>>

-----------------------------------------------------------------------------
(* Resolve, from its entry to Compose.                                     *)

Hit ==
    /\ call.at = "resolve" /\ call.key \in DOMAIN cache
    /\ call' = Value(call.key, cache[call.key])
    /\ UNCHANGED <<w, phase, todo, answer, out, engine>>

\* Mutant of Cycle: the whole path, not the part that is a cycle.
CycleWholePath(n) == Append(stack, n)

(* The active path from the earlier visit of n, closed with n.             *)
Cycle(n) ==
    LET start == CHOOSE i \in DOMAIN stack :
                     stack[i] = n /\ \A j \in 1..(i - 1) : stack[j] # n
    IN  Append(SubSeq(stack, start, Len(stack)), n)

Circle ==
    /\ call.at = "resolve"
    /\ call.key \notin DOMAIN cache /\ call.key \in visiting
    /\ call' = Error(call.key, "circular", Cycle(call.key))
    /\ UNCHANGED <<w, phase, todo, answer, out, engine>>

(* Where the symbol table's Value has to go to the resolver: not for what  *)
(* was materialised, an OS value or a masked secret.                       *)
Lazy(n) == ~Eager(w.mode) /\ ~Opaque(n) /\ ~Masked(w.mode, n)

\* Mutant of RawValue: what was read is not kept.
RawValueForgotten(n) ==
    /\ reads' = IF Lazy(n) THEN [reads EXCEPT ![n] = @ + 1] ELSE reads
    /\ UNCHANGED raw

(* rawValue: the symbol table is asked once per name, its error kept too.  *)
RawValue(n) ==
    /\ raw' = raw \cup {n}
    /\ reads' = IF n \notin raw /\ Lazy(n) THEN [reads EXCEPT ![n] = @ + 1]
                ELSE reads

Enter ==
    LET n == call.key IN
    /\ call.at = "resolve" /\ n \notin DOMAIN cache /\ n \notin visiting
    /\ RawValue(n)
    /\ \/ /\ Unreadable(w.mode, n)
          /\ call' = Error(n, "value", <<>>)
          /\ UNCHANGED <<cache, path>>
       \/ /\ ~Unreadable(w.mode, n) /\ Opaque(n)
          /\ cache' = With(cache, n, OsValue(n))
          /\ call' = Value(n, OsValue(n))
          /\ UNCHANGED path
       \/ /\ ~Unreadable(w.mode, n) /\ ~Opaque(n)
          /\ visiting' = visiting \cup {n}
          /\ stack' = Append(stack, n)
          /\ next' = Append(next, 1)
          /\ built' = Append(built, <<>>)
          /\ call' = Composing
          /\ UNCHANGED cache
    /\ UNCHANGED <<w, phase, todo, answer, out>>

\* Mutant of Reference: a missing reference is an empty value.
ReferenceEmpty ==
    LET refs == Refs(w.mode, Top)
        n == refs[Pos]
    IN
    /\ call.at = "compose" /\ Pos \in DOMAIN refs
    /\ \/ Source(w.mode, n) # "namespace" /\ Advance(OsValue(n)) /\ UNCHANGED call
       \/ /\ Source(w.mode, n) = "namespace"
          /\ call' = Resolving(n)
          /\ UNCHANGED <<next, built>>
    /\ UNCHANGED <<w, phase, todo, answer, out, cache, raw, reads, visiting, stack>>

(* Compose meets the next reference of the value on top.                   *)
Reference ==
    LET refs == Refs(w.mode, Top)
        n == refs[Pos]
    IN
    /\ call.at = "compose" /\ Pos \in DOMAIN refs
    /\ \/ /\ Source(w.mode, n) = "os"
          /\ Advance(OsValue(n))
          /\ UNCHANGED call
       \/ /\ Source(w.mode, n) = "namespace"
          /\ call' = Resolving(n)
          /\ UNCHANGED <<next, built>>
       \/ /\ Source(w.mode, n) = "missing"
          /\ call' = Error(n, "missing", <<>>)
          /\ UNCHANGED <<next, built>>
    /\ UNCHANGED <<w, phase, todo, answer, out, cache, raw, reads, visiting, stack>>

(* A reference returned to the Compose that made it.                       *)
Receive ==
    /\ call.at = "value" /\ stack # <<>>
    /\ Advance(call.value)
    /\ call' = Composing
    /\ UNCHANGED <<w, phase, todo, answer, out, cache, raw, reads, visiting, stack>>

(* Compose is through: leave the path, then cache.                         *)
Composes ==
    LET value == Composed(Top, Parts) IN
    /\ call.at = "compose" /\ Pos \notin DOMAIN Refs(w.mode, Top)
    /\ Leave
    /\ cache' = With(cache, Top, value)
    /\ call' = Value(Top, value)
    /\ UNCHANGED <<w, phase, todo, answer, out, raw, reads>>

\* Mutant of Unwind: what was composed until the failure is cached.
UnwindCached ==
    /\ call.at = "error" /\ stack # <<>>
    /\ Leave
    /\ cache' = With(cache, Top, Composed(Top, Parts))
    /\ call' = Error(Top, call.kind, call.cycle)
    /\ UNCHANGED <<w, phase, todo, answer, out, raw, reads>>

(* Compose failed: leave the path, cache nothing, pass the error on.       *)
Unwind ==
    /\ call.at = "error" /\ stack # <<>>
    /\ Leave
    /\ call' = Error(Top, call.kind, call.cycle)
    /\ UNCHANGED <<w, phase, todo, answer, out, cache, raw, reads>>

-----------------------------------------------------------------------------
(* The outermost Resolve has returned to the command.                      *)

Succeed ==
    /\ call.at = "value" /\ stack = <<>>
    /\ answer' = [answer EXCEPT ![call.key] = "ok"]
    /\ out' = IF w.mode = "masked" THEN out
              ELSE With(out, call.key, call.value)
    /\ call' = Idle
    /\ UNCHANGED <<w, phase, todo, engine>>

\* Mutant of Fail: the values composed so far are returned.
FailPartly ==
    /\ call.at = "error" /\ stack = <<>>
    /\ answer' = [answer EXCEPT ![call.key] =
           IF call.kind = "circular" THEN "circular" ELSE "unresolved"]
    /\ phase' = IF w.mode \in {"run", "diff"} THEN "failed" ELSE phase
    /\ call' = Idle
    /\ UNCHANGED <<w, todo, out, engine>>

(* run and diff stop at the first error and return no values at all.       *)
Fail ==
    /\ call.at = "error" /\ stack = <<>>
    /\ answer' = [answer EXCEPT ![call.key] =
           IF call.kind = "circular" THEN "circular" ELSE "unresolved"]
    /\ IF w.mode \in {"run", "diff"}
       THEN phase' = "failed" /\ out' = NoValues
       ELSE UNCHANGED <<phase, out>>
    /\ call' = Idle
    /\ UNCHANGED <<w, todo, engine>>

Failures == {n \in Name : answer[n] \in {"circular", "unresolved"}}

\* Mutant of Downgraded: a failed key is always left out.
DowngradedOmitted(values) == values

(* downgradeFailures: a failed key keeps the value the OS gave it.         *)
Downgraded(values) ==
    [n \in DOMAIN values \cup (Failures \cap w.os) |->
        IF n \in Failures THEN OsValue(n) ELSE values[n]]

Finish ==
    /\ phase = "resolve" /\ call.at = "idle" /\ todo = {}
    /\ phase' = "done"
    /\ out' = IF w.mode = "tolerant" THEN Downgraded(out) ELSE out
    /\ UNCHANGED <<w, todo, answer, engine, call>>

Next ==
    \/ Materialize \/ Request
    \/ \E k \in Name : Ask(k) \/ Diagnose(k)
    \/ Hit \/ Circle \/ Enter \/ Reference \/ Receive \/ Composes \/ Unwind
    \/ Succeed \/ Fail \/ Finish

Spec == Init /\ [][Next]_vars
FairSpec == Spec /\ WF_vars(Next)

-----------------------------------------------------------------------------
(* What a table of references means, without an engine.                    *)

(* The body of n needs nothing outside `known`.                            *)
Composable(m, n, known) ==
    /\ Declared(m, n) /\ ~Unreadable(m, n)
    /\ \/ Opaque(n)
       \/ \A i \in DOMAIN Refs(m, n) :
              LET r == Refs(m, n)[i] IN
              \/ Source(m, r) = "os"
              \/ Source(m, r) = "namespace" /\ r \in known

(* The names that have a value: the least set that contains every name it  *)
(* can compose.                                                            *)
Good(m) ==
    {n \in Name : \A S \in SUBSET Name :
        (\A x \in Name : Composable(m, x, S) => x \in S) => n \in S}

(* The first reference in the text of n that has no value.                 *)
Culprit(m, n) ==
    LET bad(i) == LET r == Refs(m, n)[i] IN
                  ~(Source(m, r) = "os" \/ r \in Good(m))
    IN  Refs(m, n)[CHOOSE i \in DOMAIN Refs(m, n) :
                       bad(i) /\ \A j \in 1..(i - 1) : ~bad(j)]

(* From n, one first culprit after the other, a text is met again.         *)
Loops(m, n) ==
    \E C \in SUBSET (Name \ Good(m)) :
        /\ n \in C
        /\ \A x \in C : /\ Declared(m, x) /\ ~Unreadable(m, x)
                        /\ Source(m, Culprit(m, x)) = "namespace"
                        /\ Culprit(m, x) \in C

Fate(m, n) == IF n \in Good(m) THEN "ok"
              ELSE IF Loops(m, n) THEN "circular" ELSE "unresolved"

(* The value of a name, unfolded as deep as names can nest.                *)
Meaning(m, name) ==
    LET V[d \in Nat] == [n \in Name |->
        IF Opaque(n) THEN OsValue(n)
        ELSE Composed(n, [i \in DOMAIN Refs(m, n) |->
            LET r == Refs(m, n)[i] IN
            IF Source(m, r) = "os" \/ d = 0 THEN OsValue(r) ELSE V[d - 1][r]])]
    IN  V[Cardinality(Name)][name]

Edge(m, a, b) == \E i \in DOMAIN Refs(m, a) : Refs(m, a)[i] = b

(* The names a command may have to read for the keys K: a reference leads  *)
(* to its name only where the namespace is its source.                     *)
Needed(m, K) ==
    {n \in Name : \A S \in SUBSET Name :
        /\ K \subseteq S
        /\ \A a \in S, b \in Name :
               (~Opaque(a) /\ Edge(m, a, b) /\ Source(m, b) = "namespace")
                   => b \in S
        => n \in S}

(* The keys asked for that explain judges by themselves.                   *)
Itself == {k \in Asked : Explains /\ Literal(k)}

Once(b) == IF b THEN 1 ELSE 0

-----------------------------------------------------------------------------
(* Properties *)

(* Every variable keeps its type.                                          *)
TypeOK ==
    /\ w \in Worlds
    /\ phase \in {"start", "resolve", "done", "failed"}
    /\ todo \subseteq Name
    /\ answer \in [Name -> {"none", "ok", "circular", "unresolved"}]
    /\ DOMAIN out \subseteq Name
    /\ DOMAIN cache \subseteq Name
    /\ raw \subseteq Name
    /\ reads \in [Name -> Nat]
    /\ visiting \subseteq Name
    /\ stack \in Seq(Name)
    /\ next \in Seq(Nat \ {0})
    /\ Len(next) = Len(stack)
    /\ call.at \in {"idle", "resolve", "compose", "value", "error"}
    /\ call.at \in {"resolve", "value", "error"} => call.key \in Name

(* What the engine says of a key is what the table means, whatever was     *)
(* asked before and however that ended: a value exactly when everything it *)
(* needs has one, a cycle only where composing would never end.            *)
(* (substitute.go:161-204; a failure half-way leaves nothing behind.)      *)
OutcomeExact ==
    ~Explains => \A k \in Name : answer[k] # "none" =>
        answer[k] = IF Declared(w.mode, k) THEN Fate(w.mode, k)
                    ELSE "unresolved"

(* A cached value is the composition of its references, as of any moment.  *)
(* A partial value never gets into the cache.  (substitute.go:181-190)     *)
CacheExact ==
    /\ DOMAIN cache # {} => DOMAIN cache \subseteq Good(w.mode)
    /\ \A n \in DOMAIN cache : cache[n] = Meaning(w.mode, n)

(* A reported cycle is one: a path of live references from a name back to  *)
(* it, that meets no name twice.  (substitute.go:254-260)                  *)
CycleReal ==
    call.at = "error" /\ call.kind = "circular" =>
        LET c == call.cycle IN
        /\ Len(c) > 1 /\ c[1] = c[Len(c)]
        /\ \A i \in 1..(Len(c) - 1) :
               /\ Edge(w.mode, c[i], c[i + 1])
               /\ Source(w.mode, c[i + 1]) = "namespace"
               /\ \A j \in 1..(i - 1) : c[i] # c[j]

(* What a command gives the resolver, and so decrypts: run and diff every  *)
(* selected variable once; get and explain only what the keys they are     *)
(* asked for need, each variable at most once to compose them all, however *)
(* often it is referred to and whatever failed, and once more for a row of *)
(* explain that shows it.  (substitute.go:146-155, :228-231;               *)
(* substitution.go:139-143; explain.go:200-214, :308)                      *)
ReadNarrowly ==
    \A n \in Name :
        reads[n] <= IF Eager(w.mode) THEN Once(n \in Selected(w.mode))
                    ELSE Once(n \in Itself)
                         + Once(/\ n \in Needed(w.mode, Asked \ Itself)
                                /\ ~Masked(w.mode, n))

(* The child sees one environment: a variable that refers to another one   *)
(* holds of it what the child itself finds under that name.                *)
(* (substitute.go:225-231: the same precedence a run child process sees)   *)
ChildConsistent ==
    phase = "done" /\ w.mode \in {"run", "tolerant"} =>
        \A n \in DOMAIN out : answer[n] = "ok" /\ ~Opaque(n) =>
            \A i \in DOMAIN Refs(w.mode, n) :
                LET r == Refs(w.mode, n)[i] IN
                r \in DOMAIN out /\ out[n].parts[i] = out[r]

(* Fail closed: run and a revealed diff return every value or none.        *)
(* (substitution.go:45-62, materialize.go:104-115)                         *)
AllOrNothing ==
    w.mode \in {"run", "diff"} /\ phase \in {"done", "failed"} =>
        IF phase = "done"
        THEN DOMAIN out = Selected(w.mode) /\ DOMAIN out \subseteq Good(w.mode)
        ELSE out = NoValues /\ ~(Selected(w.mode) \subseteq Good(w.mode))

(* Ignoring errors never takes a variable of the OS away from the child,   *)
(* and changes it only where --overload lets a sound namespace value win.  *)
(* (substitution.go:78-137)                                                *)
NeverClobbered ==
    phase = "done" /\ w.mode = "tolerant" =>
        /\ DOMAIN out = w.os \cup (Good(w.mode) \cap Namespace)
        /\ \A n \in w.os :
               \/ out[n] = OsValue(n)
               \/ w.overload /\ n \in Good(w.mode) \cap Namespace

(* Where everything can be read, get, diff and explain give a key the      *)
(* value that run gives it, or fail where run fails; explain only if no    *)
(* secret holds a reference.  (get.go:49-51, diff.go:78-79,                *)
(* explain.go:200-203)                                                     *)
AgreesWithRun ==
    /\ \A n \in Namespace : ~Unreadable("run", n)
    /\ Explains => \A n \in Namespace :
                      w.leaf[n].kind = "secret" => w.leaf[n].refs = <<>>
    =>
        \A k \in Name :
            /\ answer[k] # "none" => (answer[k] = "ok" <=> k \in Good("run"))
            /\ k \in DOMAIN out /\ answer[k] = "ok" =>
                   out[k] = Meaning("run", k)

(* Every command ends, whatever refers to what.                            *)
Terminates == <>(phase \in {"done", "failed"})

(* A key explained as ok resolves: explain's status means what it says     *)
(* with secrets masked as with secrets revealed.  (explain.go:79-82)       *)
StatusMeaningful ==
    Explains => \A k \in Name : answer[k] = "ok" => k \in Good("explain")
=============================================================================
