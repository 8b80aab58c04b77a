------------------------- MODULE Substitution_proofs -------------------------
(***************************************************************************)
(* For every table of references, every OS environment and every order in  *)
(* which keys are asked: a key gets a value exactly if all it needs has    *)
(* one, run and diff return all values or none, ignoring errors never      *)
(* takes a variable of the OS away, and a reported cycle is one.           *)
(***************************************************************************)
EXTENDS Substitution, SequenceTheorems, TLAPS

-----------------------------------------------------------------------------
(* The inductive invariant, in terms of the command that runs.             *)

Fine(n) == n \in Good(w.mode)
Text(n) == Refs(w.mode, n)
From(n) == Source(w.mode, n)
Known(n) == Declared(w.mode, n)
Chosen(n) == n \in Selected(w.mode)
Dark(n) == Unreadable(w.mode, n)
InNamespace(n) == n \in Namespace

(* A reference that composes.                                              *)
Settled(r) == From(r) = "os" \/ (From(r) = "namespace" /\ Fine(r))

(* The names on the path, each reached by a reference of the one below it; *)
(* every reference before the one Compose is at has composed.              *)
PathOK ==
    /\ visiting = {stack[i] : i \in 1..Len(stack)}
    /\ \A i, j \in 1..Len(stack) : stack[i] = stack[j] => i = j
    /\ \A i \in 1..Len(stack) :
           /\ Known(stack[i]) /\ ~Dark(stack[i]) /\ ~Opaque(stack[i])
           /\ \A j \in 1..Len(Text(stack[i])) :
                  j < next[i] => Settled(Text(stack[i])[j])
    /\ \A i \in 1..(Len(stack) - 1) :
           /\ next[i] \in 1..Len(Text(stack[i]))
           /\ Text(stack[i])[next[i]] = stack[i + 1]
           /\ From(stack[i + 1]) = "namespace"

(* The reference the top of the path waits for.                            *)
Awaits(r) == Pos \in 1..Len(Text(Top)) /\ Text(Top)[Pos] = r

CallOK ==
    /\ call.at = "idle" => stack = <<>>
    /\ call.at = "compose" => stack # <<>>
    /\ call.at \in {"resolve", "value", "error"} =>
           IF stack = <<>> THEN Known(call.key)
           ELSE Awaits(call.key) /\ From(call.key) # "os"
    /\ call.at \in {"resolve", "value"} /\ stack # <<>> =>
           From(call.key) = "namespace"
    /\ call.at = "value" =>
           Fine(call.key) /\ (Opaque(call.key) => call.value = OsValue(call.key))
    /\ call.at = "error" => ~Fine(call.key)

CacheOK ==
    \A n \in DOMAIN cache : Fine(n) /\ (Opaque(n) => cache[n] = OsValue(n))

(* The key asked last, until it is answered.                               *)
Pending(k) ==
    call.at # "idle" /\ k = (IF stack = <<>> THEN call.key ELSE stack[1])

AnswersOK ==
    \A k \in Name :
        /\ answer[k] = "ok" => Fine(k)
        /\ answer[k] \in {"circular", "unresolved"} => ~Fine(k)

Answered(k) == answer[k] = "ok"

RunOK ==
    /\ phase \in {"resolve", "done"} =>
           \A k \in Name : answer[k] \in {"none", "ok"}
    /\ phase \in {"resolve", "done"} => DOMAIN out = {k \in Name : Answered(k)}
    /\ phase = "failed" => out = NoValues /\ \E k \in Name : Chosen(k) /\ ~Fine(k)

TolerantOK ==
    /\ phase # "failed"
    /\ phase = "resolve" =>
           /\ DOMAIN out = {k \in Name : Answered(k)}
           /\ \A n \in DOMAIN out : Opaque(n) => out[n] = OsValue(n)
    /\ phase = "done" => NeverClobbered

EagerOK ==
    /\ phase = "resolve" =>
           \A k \in Name : Chosen(k) => k \in todo \/ answer[k] # "none" \/ Pending(k)
    /\ phase = "done" => \A k \in Name : Chosen(k) => answer[k] # "none"

CommandOK ==
    /\ phase # "resolve" => call.at = "idle"
    /\ phase = "start" => out = NoValues /\ \A k \in Name : answer[k] = "none"
    /\ \A k \in todo : Known(k)
    /\ ~Explains => AnswersOK
    /\ Eager(w.mode) => EagerOK
    /\ w.mode \in {"run", "diff"} => RunOK
    /\ w.mode = "tolerant" => TolerantOK

IInv == TypeOK /\ PathOK /\ CallOK /\ CacheOK /\ CommandOK

-----------------------------------------------------------------------------
(* What does not change while a command runs.                              *)

LEMMA WorldTyped == ASSUME w \in Worlds PROVE w \in WorldType
  BY WorldsAssumption

LEMMA RefsType ==
    ASSUME w \in Worlds, NEW m, NEW n \in Name
    PROVE  Refs(m, n) \in Seq(Name)
<1>1. w.leaf[n] \in LeafType
  BY WorldTyped DEF WorldType
<1>2. w.leaf[n].refs \in Seq(Name) /\ <<>> \in Seq(Name)
  BY <1>1 DEF LeafType
<1> QED
  BY <1>2 DEF Refs

LEMMA TextType ==
    ASSUME w \in Worlds, NEW n \in Name
    PROVE  Text(n) \in Seq(Name)
  BY RefsType DEF Text

LEMMA Fixed ==
    ASSUME w' = w
    PROVE  /\ \A n : Fine(n)' = Fine(n)
           /\ \A n : Text(n)' = Text(n)
           /\ \A n : From(n)' = From(n)
           /\ \A n : Known(n)' = Known(n)
           /\ \A n : Chosen(n)' = Chosen(n)
           /\ \A n : Dark(n)' = Dark(n)
           /\ \A n : Opaque(n)' = Opaque(n)
           /\ Explains' = Explains
<1> USE DEF Opaque, Namespace, Selected, Masked, Unreadable, Refs, Declared, Source
<1>1. \A n : Text(n)' = Text(n)
  BY DEF Text
<1>2. \A n : From(n)' = From(n)
  BY DEF From
<1>3. \A n : /\ Known(n)' = Known(n) /\ Chosen(n)' = Chosen(n)
             /\ Dark(n)' = Dark(n) /\ Opaque(n)' = Opaque(n)
  BY DEF Known, Chosen, Dark
<1>4. \A n : Fine(n)' = Fine(n)
  BY DEF Fine, Good, Composable
<1>5. Explains' = Explains
  BY DEF Explains
<1> QED
  BY <1>1, <1>2, <1>3, <1>4, <1>5

LEMMA GoodFixed ==
    ASSUME w' = w
    PROVE  (Good(w.mode) \cap Namespace)' = Good(w.mode) \cap Namespace
<1>1. Good(w.mode) = {n \in Name : Fine(n)}
  BY DEF Fine, Good
<1>2. Good(w.mode)' = {n \in Name : Fine(n)'}
  BY DEF Fine, Good
<1>3. Good(w.mode)' = Good(w.mode)
  BY <1>1, <1>2, Fixed
<1>4. Namespace' = Namespace
  BY DEF Namespace
<1> QED
  BY <1>3, <1>4

-----------------------------------------------------------------------------
(* The names that have a value.                                            *)

LEMMA GoodClosed ==
    ASSUME NEW m, NEW n \in Name, Composable(m, n, Good(m))
    PROVE  n \in Good(m)
<1> SUFFICES ASSUME NEW S \in SUBSET Name,
                    \A x \in Name : Composable(m, x, S) => x \in S
             PROVE  n \in S
  BY DEF Good
<1>1. Good(m) \subseteq S
  BY DEF Good
<1>2. Composable(m, n, S)
  BY <1>1 DEF Composable
<1> QED
  BY <1>2

LEMMA GoodComposable ==
    ASSUME NEW m, NEW n \in Good(m)
    PROVE  n \in Name /\ Composable(m, n, Good(m))
<1> DEFINE S == {x \in Name : Composable(m, x, Good(m))}
<1>1. S \subseteq Good(m)
  BY GoodClosed
<1>2. ASSUME NEW x \in Name, Composable(m, x, S)
      PROVE  x \in S
  <2>1. Composable(m, x, Good(m))
    BY <1>1, <1>2 DEF Composable
  <2> QED
    BY <2>1
<1>3. n \in S
  BY <1>2 DEF Good
<1> QED
  BY <1>3

(* No name has a value whose text refers into a set of names that all do.  *)
LEMMA NoGoodCycle ==
    ASSUME NEW m, NEW C \in SUBSET Name,
           \A x \in C : /\ ~Opaque(x)
                        /\ \E i \in DOMAIN Refs(m, x) :
                               /\ Refs(m, x)[i] \in C
                               /\ Source(m, Refs(m, x)[i]) # "os"
    PROVE  C \cap Good(m) = {}
<1> DEFINE S == Name \ C
<1>1. \A x \in Name : Composable(m, x, S) => x \in S
  BY DEF Composable
<1> QED
  BY <1>1 DEF Good

(* The table in terms of the command that runs.                            *)
LEMMA Table ==
    ASSUME w \in Worlds, NEW n \in Name
    PROVE  /\ Fine(n) => Known(n) /\ ~Dark(n)
           /\ Fine(n) /\ ~Opaque(n) =>
                  \A j \in 1..Len(Text(n)) : Settled(Text(n)[j])
           /\ Known(n) /\ ~Dark(n) /\ Opaque(n) => Fine(n)
           /\ Known(n) /\ ~Dark(n)
              /\ (\A j \in 1..Len(Text(n)) : Settled(Text(n)[j])) => Fine(n)
           /\ From(n) \in {"os", "namespace", "missing"}
           /\ From(n) = "namespace" => Known(n)
           /\ From(n) = "missing" => ~Known(n)
           /\ Known(n) => Chosen(n)
           /\ Chosen(n) /\ ~Dark(n) => Known(n)
<1>1. DOMAIN Text(n) = 1..Len(Text(n))
  BY TextType
<1>2. Known(n) /\ ~Dark(n)
      /\ (Opaque(n) \/ \A j \in 1..Len(Text(n)) : Settled(Text(n)[j]))
          <=> Composable(w.mode, n, Good(w.mode))
  BY <1>1 DEF Composable, Known, Dark, Text, Settled, From, Fine
<1>3. Fine(n) <=> Composable(w.mode, n, Good(w.mode))
  BY GoodClosed, GoodComposable DEF Fine
<1>4. /\ From(n) \in {"os", "namespace", "missing"}
      /\ From(n) = "namespace" => Known(n)
      /\ From(n) = "missing" => ~Known(n)
  BY DEF From, Source, Known
<1>5. /\ Known(n) => Chosen(n)
      /\ Chosen(n) /\ ~Dark(n) => Known(n)
  BY DEF Known, Chosen, Dark, Declared
<1> QED
  BY <1>2, <1>3, <1>4, <1>5

-----------------------------------------------------------------------------
(* Sequences as stacks.                                                    *)

LEMMA AppendFacts ==
    ASSUME NEW S, NEW s \in Seq(S), NEW e \in S
    PROVE  /\ Append(s, e) \in Seq(S)
           /\ Len(Append(s, e)) = Len(s) + 1
           /\ Append(s, e)[Len(s) + 1] = e
           /\ \A i \in 1..Len(s) : Append(s, e)[i] = s[i]
           /\ Append(s, e) # <<>>
  OBVIOUS

LEMMA PopFacts ==
    ASSUME NEW S, NEW s \in Seq(S), s # <<>>
    PROVE  /\ Len(s) \in Nat \ {0}
           /\ Pop(s) \in Seq(S)
           /\ Len(Pop(s)) = Len(s) - 1
           /\ \A i \in 1..(Len(s) - 1) : Pop(s)[i] = s[i]
<1>1. Len(s) \in Nat \ {0} /\ \A i \in 1..Len(s) : s[i] \in S
  BY EmptySeq, LenProperties
<1> DEFINE n == Len(s) - 1
<1>2. n \in Int /\ n \in Nat /\ \A i \in 1..n : s[i] \in S
  BY <1>1
<1>3. /\ SubSeq(s, 1, n) \in Seq(S)
      /\ Len(SubSeq(s, 1, n)) = IF 1 <= n THEN n - 1 + 1 ELSE 0
      /\ \A i \in 1..(n - 1 + 1) : SubSeq(s, 1, n)[i] = s[1 + i - 1]
  BY <1>2, SubSeqProperties
<1> HIDE DEF n
<1>4. Len(SubSeq(s, 1, n)) = n
  BY <1>2, <1>3
<1>5. ASSUME NEW i \in 1..n
      PROVE  SubSeq(s, 1, n)[i] = s[i]
  <2>1. i \in 1..(n - 1 + 1) /\ 1 + i - 1 = i
    BY <1>2
  <2> QED
    BY <2>1, <1>3
<1> QED
  BY <1>1, <1>3, <1>4, <1>5 DEF Pop, n

LEMMA EmptyFacts ==
    ASSUME NEW S, NEW s \in Seq(S)
    PROVE  Len(s) \in Nat /\ (s = <<>> <=> Len(s) = 0)
  OBVIOUS

-----------------------------------------------------------------------------
(* Steps of the engine leave the command where it is.                      *)

LEMMA EngineCommand ==
    ASSUME IInv, call.at # "idle",
           UNCHANGED <<w, phase, todo, answer, out>>,
           \A k \in Name : Pending(k) => Pending(k)'
    PROVE  CommandOK'
<1>1. phase = "resolve" /\ phase' = "resolve"
  BY DEF IInv, CommandOK
<1>2. (~Explains => AnswersOK)'
  BY Fixed DEF IInv, CommandOK, AnswersOK
<1>3. (Eager(w.mode) => EagerOK)'
  BY <1>1, Fixed DEF IInv, CommandOK, EagerOK
<1>4. (w.mode \in {"run", "diff"} => RunOK)'
  BY <1>1 DEF IInv, CommandOK, RunOK, Answered
<1>5. (w.mode = "tolerant" => TolerantOK)'
  <2> SUFFICES ASSUME w.mode = "tolerant" PROVE TolerantOK'
    OBVIOUS
  <2>1. TolerantOK
    BY DEF IInv, CommandOK
  <2>2. (\A n : Opaque(n)' = Opaque(n)) /\ \A k : Answered(k)' = Answered(k)
    BY Fixed DEF Answered
  <2>3. \A n : OsValue(n)' = OsValue(n)
    BY DEF OsValue
  <2> QED
    BY <1>1, <2>1, <2>2, <2>3 DEF TolerantOK
<1> QED
  BY <1>1, <1>2, <1>3, <1>4, <1>5, Fixed DEF IInv, CommandOK

LEMMA PathSame ==
    ASSUME PathOK, UNCHANGED <<w, visiting, stack, next>>
    PROVE  PathOK'
  BY Fixed DEF PathOK, Settled

LEMMA CacheSame ==
    ASSUME CacheOK, UNCHANGED <<w, cache>>
    PROVE  CacheOK'
  BY Fixed DEF CacheOK

-----------------------------------------------------------------------------
(* One lemma per step of the engine.                                       *)

LEMMA HitStep == IInv /\ Hit => IInv'
<1> SUFFICES ASSUME IInv, Hit PROVE IInv'
  OBVIOUS
<1> USE DEF Hit, Value
<1>1. TypeOK'
  BY DEF IInv, TypeOK, engine, path
<1>2. PathOK' /\ CacheOK'
  BY PathSame, CacheSame DEF IInv, engine, path
<1>3. CallOK'
  BY Fixed DEF IInv, CallOK, CacheOK, Awaits, Pos, Top, engine, path
<1>4. CommandOK'
  BY EngineCommand DEF Pending, engine, path
<1> QED
  BY <1>1, <1>2, <1>3, <1>4 DEF IInv

(* A name met again on the path refers, over the names above it, to        *)
(* itself: none of them has a value.                                       *)
LEMMA CircleFails ==
    ASSUME IInv, call.at = "resolve", call.key \in visiting
    PROVE  ~Fine(call.key)
<1>1. /\ w \in Worlds /\ stack \in Seq(Name) /\ next \in Seq(Nat \ {0})
      /\ Len(stack) \in Nat
  BY DEF IInv, TypeOK
<1>2. PICK p \in 1..Len(stack) : call.key = stack[p]
  BY DEF IInv, PathOK
<1> DEFINE C == {stack[i] : i \in p..Len(stack)}
<1>3. C \subseteq Name /\ call.key \in C
  BY <1>1, <1>2
<1>4. ASSUME NEW x \in C
      PROVE  /\ ~Opaque(x)
             /\ \E i \in DOMAIN Refs(w.mode, x) :
                    /\ Refs(w.mode, x)[i] \in C
                    /\ Source(w.mode, Refs(w.mode, x)[i]) # "os"
  <2>1. PICK i \in p..Len(stack) : x = stack[i]
    OBVIOUS
  <2>2. x \in Name /\ i \in 1..Len(stack) /\ ~Opaque(x)
    BY <1>1, <1>2, <2>1 DEF IInv, PathOK
  <2>3. DOMAIN Text(x) = 1..Len(Text(x))
    BY <1>1, <2>2, TextType
  <2>4. CASE i = Len(stack)
    <3>1. stack # <<>> /\ Top = x
      BY <1>1, <2>1, <2>2, <2>4 DEF Top
    <3>2. Awaits(call.key) /\ From(call.key) # "os"
      BY <3>1 DEF IInv, CallOK
    <3>3. Pos \in DOMAIN Text(x) /\ Text(x)[Pos] = call.key
      BY <2>3, <3>1, <3>2 DEF Awaits
    <3> QED
      BY <1>3, <2>2, <3>2, <3>3 DEF Text, From
  <2>5. CASE i # Len(stack)
    <3>1. i \in 1..(Len(stack) - 1) /\ i + 1 \in p..Len(stack)
      BY <1>1, <1>2, <2>1, <2>5
    <3>2. /\ next[i] \in 1..Len(Text(x))
          /\ Text(x)[next[i]] = stack[i + 1]
          /\ From(stack[i + 1]) = "namespace"
      BY <2>1, <3>1 DEF IInv, PathOK
    <3>3. stack[i + 1] \in C
      BY <3>1
    <3> QED
      BY <2>2, <2>3, <3>2, <3>3 DEF Text, From
  <2> QED
    BY <2>4, <2>5
<1>5. C \cap Good(w.mode) = {}
  <2> HIDE DEF C
  <2> QED
    BY <1>3, <1>4, NoGoodCycle
<1> QED
  BY <1>3, <1>5 DEF Fine

LEMMA CircleStep == IInv /\ Circle => IInv'
<1> SUFFICES ASSUME IInv, Circle PROVE IInv'
  OBVIOUS
<1> USE DEF Circle, Error
<1>1. TypeOK'
  BY DEF IInv, TypeOK, engine, path
<1>2. PathOK' /\ CacheOK'
  BY PathSame, CacheSame DEF IInv, engine, path
<1>3. CallOK'
  BY Fixed, CircleFails DEF IInv, CallOK, Awaits, Pos, Top, engine, path
<1>4. CommandOK'
  BY EngineCommand DEF Pending, engine, path
<1> QED
  BY <1>1, <1>2, <1>3, <1>4 DEF IInv

LEMMA EnterStep == IInv /\ Enter => IInv'
<1> SUFFICES ASSUME IInv, Enter PROVE IInv'
  OBVIOUS
<1> DEFINE n == call.key
<1>0. /\ call.at = "resolve" /\ n \in Name /\ n \notin visiting
      /\ w \in Worlds /\ w' = w
      /\ stack \in Seq(Name) /\ next \in Seq(Nat \ {0})
      /\ Len(stack) \in Nat /\ Len(next) = Len(stack)
  BY DEF IInv, TypeOK, Enter
<1>1. Known(n)
  BY <1>0, Table DEF IInv, CallOK
<1>2. raw' \subseteq Name /\ reads' \in [Name -> Nat]
  BY <1>0 DEF IInv, TypeOK, Enter, RawValue
<1>3. UNCHANGED <<w, phase, todo, answer, out>>
  BY DEF Enter
<1>4. CASE Unreadable(w.mode, n)
  <2>1. call' = Error(n, "value", <<>>) /\ UNCHANGED <<cache, path>>
    BY <1>4 DEF Enter
  <2>2. ~Fine(n)
    BY <1>0, <1>4, Table DEF Dark
  <2>3. TypeOK'
    BY <1>0, <1>2, <1>3, <2>1 DEF IInv, TypeOK, path, Error
  <2>4. PathOK' /\ CacheOK'
    BY <1>3, <2>1, PathSame, CacheSame DEF IInv, path
  <2>5. CallOK'
    BY <1>0, <2>1, <2>2, Fixed DEF IInv, CallOK, Awaits, Pos, Top, path, Error
  <2>6. CommandOK'
    BY <1>0, <1>3, <2>1, EngineCommand DEF Pending, path, Error
  <2> QED
    BY <2>3, <2>4, <2>5, <2>6 DEF IInv
<1>5. CASE ~Unreadable(w.mode, n) /\ Opaque(n)
  <2>1. /\ call' = Value(n, OsValue(n)) /\ cache' = With(cache, n, OsValue(n))
        /\ UNCHANGED path
    BY <1>5 DEF Enter
  <2>2. Fine(n)
    BY <1>0, <1>1, <1>5, Table DEF Dark
  <2>3. TypeOK'
    BY <1>0, <1>2, <1>3, <2>1 DEF IInv, TypeOK, path, Value, With
  <2>4. PathOK'
    BY <1>3, <2>1, PathSame DEF IInv, path
  <2>5. CacheOK'
    BY <1>0, <2>1, <2>2, Fixed DEF IInv, CacheOK, With
  <2>6. CallOK'
    BY <1>0, <2>1, <2>2, Fixed DEF IInv, CallOK, Awaits, Pos, Top, path, Value
  <2>7. CommandOK'
    BY <1>0, <1>3, <2>1, EngineCommand DEF Pending, path, Value
  <2> QED
    BY <2>3, <2>4, <2>5, <2>6, <2>7 DEF IInv
<1>6. CASE ~Unreadable(w.mode, n) /\ ~Opaque(n)
  <2>1. /\ visiting' = visiting \cup {n} /\ stack' = Append(stack, n)
        /\ next' = Append(next, 1) /\ call' = Composing /\ cache' = cache
    BY <1>6 DEF Enter
  <2>2. /\ stack' \in Seq(Name) /\ Len(stack') = Len(stack) + 1
        /\ stack'[Len(stack) + 1] = n
        /\ \A i \in 1..Len(stack) : stack'[i] = stack[i]
        /\ stack' # <<>>
    BY <1>0, <2>1, AppendFacts
  <2>3. /\ next' \in Seq(Nat \ {0}) /\ Len(next') = Len(next) + 1
        /\ next'[Len(stack) + 1] = 1
        /\ \A i \in 1..Len(stack) : next'[i] = next[i]
    BY <1>0, <2>1, AppendFacts
  <2>4. TypeOK'
    BY <1>0, <1>2, <1>3, <2>1, <2>2, <2>3 DEF IInv, TypeOK, Composing
  <2>5. PathOK'
    <3>1. (visiting = {stack[i] : i \in 1..Len(stack)})'
      BY <1>0, <2>1, <2>2 DEF IInv, PathOK
    <3>2. (\A i, j \in 1..Len(stack) : stack[i] = stack[j] => i = j)'
      BY <1>0, <2>2 DEF IInv, PathOK
    <3>3. ASSUME NEW i \in 1..Len(stack')
          PROVE  (/\ Known(stack[i]) /\ ~Dark(stack[i]) /\ ~Opaque(stack[i])
                  /\ \A j \in 1..Len(Text(stack[i])) :
                         j < next[i] => Settled(Text(stack[i])[j]))'
      <4>1. CASE i = Len(stack) + 1
        BY <1>0, <1>1, <1>6, <2>2, <2>3, <4>1, Fixed DEF Dark
      <4>2. CASE i \in 1..Len(stack)
        <5>1. stack'[i] = stack[i] /\ next'[i] = next[i]
          BY <1>0, <2>2, <2>3, <4>2
        <5>2. /\ Known(stack[i]) /\ ~Dark(stack[i]) /\ ~Opaque(stack[i])
              /\ \A j \in 1..Len(Text(stack[i])) :
                     j < next[i] => Settled(Text(stack[i])[j])
          BY <4>2 DEF IInv, PathOK
        <5> QED
          BY <1>0, <5>1, <5>2, Fixed DEF Settled
      <4> QED
        BY <1>0, <2>2, <4>1, <4>2
    <3>4. ASSUME NEW i \in 1..(Len(stack') - 1)
          PROVE  (/\ next[i] \in 1..Len(Text(stack[i]))
                  /\ Text(stack[i])[next[i]] = stack[i + 1]
                  /\ From(stack[i + 1]) = "namespace")'
      <4>1. CASE i = Len(stack)
        <5>1. stack # <<>>
          BY <1>0, <2>2, <4>1
        <5>2. Awaits(n) /\ From(n) = "namespace"
          BY <1>0, <5>1 DEF IInv, CallOK
        <5> QED
          BY <1>0, <2>2, <2>3, <4>1, <5>2, Fixed DEF Awaits, Top, Pos
      <4>2. CASE i \in 1..(Len(stack) - 1)
        <5>1. i \in 1..Len(stack) /\ i + 1 \in 1..Len(stack)
          BY <1>0, <4>2
        <5>2. /\ stack'[i] = stack[i] /\ next'[i] = next[i]
              /\ stack'[i + 1] = stack[i + 1]
          BY <1>0, <2>2, <2>3, <5>1
        <5>3. /\ next[i] \in 1..Len(Text(stack[i]))
              /\ Text(stack[i])[next[i]] = stack[i + 1]
              /\ From(stack[i + 1]) = "namespace"
          BY <4>2 DEF IInv, PathOK
        <5> QED
          BY <1>0, <5>2, <5>3, Fixed
      <4> QED
        BY <1>0, <2>2, <4>1, <4>2
    <3> QED
      BY <3>1, <3>2, <3>3, <3>4 DEF PathOK
  <2>6. CacheOK'
    BY <1>3, <2>1, CacheSame DEF IInv
  <2>7. CallOK'
    BY <2>1, <2>2 DEF CallOK, Composing
  <2>8. \A k \in Name : Pending(k) => Pending(k)'
    BY <1>0, <2>1, <2>2, EmptyFacts DEF Pending, Composing
  <2>9. CommandOK'
    BY <1>0, <1>3, <2>8, EngineCommand
  <2> QED
    BY <2>4, <2>5, <2>6, <2>7, <2>9 DEF IInv
<1> QED
  BY <1>4, <1>5, <1>6

-----------------------------------------------------------------------------
(* The path when Compose goes on to the next reference, and when it leaves.*)

LEMMA PathAdvance ==
    ASSUME IInv, stack # <<>>, UNCHANGED <<w, visiting, stack>>,
           next' = Append(Pop(next), Pos + 1),
           \A j \in 1..Len(Text(Top)) : j = Pos => Settled(Text(Top)[j])
    PROVE  /\ next' \in Seq(Nat \ {0}) /\ Len(next') = Len(stack)
           /\ PathOK'
<1>1. /\ w \in Worlds /\ stack \in Seq(Name) /\ next \in Seq(Nat \ {0})
      /\ Len(stack) \in Nat \ {0} /\ Len(next) = Len(stack)
      /\ next # <<>> /\ Pos \in Nat \ {0}
  BY DEF IInv, TypeOK, Pos
<1> DEFINE top == Len(stack)
<1>2. /\ Pop(next) \in Seq(Nat \ {0}) /\ Len(Pop(next)) = top - 1
      /\ \A i \in 1..(top - 1) : Pop(next)[i] = next[i]
  BY <1>1, PopFacts
<1>3. Pos + 1 \in Nat \ {0}
  BY <1>1
<1>4. /\ next' \in Seq(Nat \ {0}) /\ Len(next') = top - 1 + 1
      /\ next'[top - 1 + 1] = Pos + 1
      /\ \A i \in 1..(top - 1) : next'[i] = Pop(next)[i]
  BY <1>2, <1>3, AppendFacts
<1>5. /\ Len(next') = top /\ next'[top] = Pos + 1
      /\ \A i \in 1..(top - 1) : next'[i] = next[i]
  BY <1>1, <1>2, <1>4
<1>6. (visiting = {stack[i] : i \in 1..Len(stack)})'
      /\ (\A i, j \in 1..Len(stack) : stack[i] = stack[j] => i = j)'
  BY DEF IInv, PathOK
<1>7. ASSUME NEW i \in 1..Len(stack)
      PROVE  (/\ Known(stack[i]) /\ ~Dark(stack[i]) /\ ~Opaque(stack[i])
              /\ \A j \in 1..Len(Text(stack[i])) :
                     j < next[i] => Settled(Text(stack[i])[j]))'
  <2>1. /\ Known(stack[i]) /\ ~Dark(stack[i]) /\ ~Opaque(stack[i])
        /\ \A j \in 1..Len(Text(stack[i])) :
               j < next[i] => Settled(Text(stack[i])[j])
    BY DEF IInv, PathOK
  <2>2. stack[i] \in Name /\ Len(Text(stack[i])) \in Nat
    BY <1>1, TextType
  <2>3. ASSUME NEW j \in 1..Len(Text(stack[i])), j < next'[i]
        PROVE  Settled(Text(stack[i])[j])
    <3>1. CASE i = top
      <4>1. stack[i] = Top /\ next[i] = Pos
        BY <1>1, <3>1 DEF Top, Pos
      <4>2. j < Pos \/ j = Pos
        BY <1>1, <1>5, <2>2, <2>3, <3>1
      <4> QED
        BY <2>1, <4>1, <4>2
    <3>2. CASE i # top
      <4>1. i \in 1..(top - 1)
        BY <1>1, <3>2
      <4> QED
        BY <1>5, <2>1, <2>3, <4>1
    <3> QED
      BY <3>1, <3>2
  <2> QED
    BY <2>1, <2>3, Fixed DEF Settled
<1>8. ASSUME NEW i \in 1..(Len(stack) - 1)
      PROVE  (/\ next[i] \in 1..Len(Text(stack[i]))
              /\ Text(stack[i])[next[i]] = stack[i + 1]
              /\ From(stack[i + 1]) = "namespace")'
  <2>1. /\ next[i] \in 1..Len(Text(stack[i]))
        /\ Text(stack[i])[next[i]] = stack[i + 1]
        /\ From(stack[i + 1]) = "namespace"
    BY DEF IInv, PathOK
  <2>2. next'[i] = next[i]
    BY <1>5
  <2> QED
    BY <2>1, <2>2, Fixed
<1> QED
  BY <1>4, <1>5, <1>6, <1>7, <1>8 DEF PathOK

LEMMA PathPop ==
    ASSUME IInv, stack # <<>>, Leave, w' = w, NEW n, n = Top
    PROVE  /\ stack' \in Seq(Name) /\ next' \in Seq(Nat \ {0})
           /\ Len(next') = Len(stack') /\ visiting' \subseteq Name
           /\ PathOK'
           /\ n \in Name /\ Known(n) /\ ~Dark(n) /\ ~Opaque(n)
           /\ \A j \in 1..Len(Text(n)) : j < Pos => Settled(Text(n)[j])
           /\ stack' # <<>> => Awaits(n)' /\ From(n) = "namespace"
           /\ \A k : (k = stack[1]) => k = IF stack' = <<>> THEN n ELSE stack'[1]
<1>1. /\ w \in Worlds /\ stack \in Seq(Name) /\ next \in Seq(Nat \ {0})
      /\ Len(stack) \in Nat \ {0} /\ Len(next) = Len(stack) /\ next # <<>>
      /\ visiting \subseteq Name
  BY DEF IInv, TypeOK
<1> DEFINE top == Len(stack)
<1>2. /\ stack' \in Seq(Name) /\ Len(stack') = top - 1
      /\ \A i \in 1..(top - 1) : stack'[i] = stack[i]
  BY <1>1, PopFacts DEF Leave
<1>3. /\ next' \in Seq(Nat \ {0}) /\ Len(next') = top - 1
      /\ \A i \in 1..(top - 1) : next'[i] = next[i]
  BY <1>1, PopFacts DEF Leave
<1>4. n = stack[top] /\ top \in 1..top
  BY <1>1 DEF Top
<1>5. /\ n \in Name /\ Known(n) /\ ~Dark(n) /\ ~Opaque(n)
      /\ \A j \in 1..Len(Text(n)) : j < Pos => Settled(Text(n)[j])
  BY <1>1, <1>4 DEF IInv, PathOK, Pos
<1>6. visiting' \subseteq Name /\ (visiting = {stack[i] : i \in 1..Len(stack)})'
  <2>1. visiting' = visiting \ {n}
    BY DEF Leave
  <2>2. visiting = {stack[i] : i \in 1..top}
    BY DEF IInv, PathOK
  <2>3. \A i \in 1..top : stack[i] = n <=> i = top
    BY <1>4 DEF IInv, PathOK
  <2>4. \A i \in 1..top : i \in 1..(top - 1) <=> i # top
    BY <1>1
  <2>5. visiting' = {stack[i] : i \in 1..(top - 1)}
    BY <1>1, <2>1, <2>2, <2>3, <2>4
  <2>6. {stack[i] : i \in 1..(top - 1)} = {stack'[i] : i \in 1..(top - 1)}
    BY <1>2
  <2> QED
    BY <1>1, <1>2, <2>1, <2>5, <2>6
<1>7. (\A i, j \in 1..Len(stack) : stack[i] = stack[j] => i = j)'
  BY <1>1, <1>2 DEF IInv, PathOK
<1>8. ASSUME NEW i \in 1..(top - 1)
      PROVE  (/\ Known(stack[i]) /\ ~Dark(stack[i]) /\ ~Opaque(stack[i])
              /\ \A j \in 1..Len(Text(stack[i])) :
                     j < next[i] => Settled(Text(stack[i])[j]))'
  <2>1. i \in 1..top
    BY <1>1
  <2>2. /\ Known(stack[i]) /\ ~Dark(stack[i]) /\ ~Opaque(stack[i])
        /\ \A j \in 1..Len(Text(stack[i])) :
               j < next[i] => Settled(Text(stack[i])[j])
    BY <2>1 DEF IInv, PathOK
  <2> QED
    BY <1>2, <1>3, <2>2, Fixed DEF Settled
<1>9. ASSUME NEW i \in 1..(top - 1)
      PROVE  /\ next[i] \in 1..Len(Text(stack[i]))
             /\ Text(stack[i])[next[i]] = stack[i + 1]
             /\ From(stack[i + 1]) = "namespace"
  BY DEF IInv, PathOK
<1>10. ASSUME NEW i \in 1..(top - 1 - 1)
       PROVE  (/\ next[i] \in 1..Len(Text(stack[i]))
               /\ Text(stack[i])[next[i]] = stack[i + 1]
               /\ From(stack[i + 1]) = "namespace")'
  <2>1. i \in 1..(top - 1) /\ i + 1 \in 1..(top - 1)
    BY <1>1
  <2>2. next'[i] = next[i] /\ stack'[i] = stack[i] /\ stack'[i + 1] = stack[i + 1]
    BY <1>2, <1>3, <2>1
  <2> QED
    BY <1>9, <2>1, <2>2, Fixed
<1>11. PathOK'
  BY <1>2, <1>6, <1>7, <1>8, <1>10 DEF PathOK
<1>12. ASSUME stack' # <<>>
       PROVE  Awaits(n)' /\ From(n) = "namespace"
  <2>1. top - 1 \in 1..(top - 1) /\ top - 1 + 1 = top
    BY <1>1, <1>2, <1>12
  <2>2. /\ next[top - 1] \in 1..Len(Text(stack[top - 1]))
        /\ Text(stack[top - 1])[next[top - 1]] = n
        /\ From(n) = "namespace"
    BY <1>4, <1>9, <2>1
  <2>3. Top' = stack[top - 1] /\ Pos' = next[top - 1]
    BY <1>2, <1>3, <2>1 DEF Top, Pos
  <2> QED
    BY <2>2, <2>3, Fixed DEF Awaits
<1>13. \A k : (k = stack[1]) => k = IF stack' = <<>> THEN n ELSE stack'[1]
  BY <1>1, <1>2, <1>4, EmptyFacts
<1> QED
  BY <1>2, <1>3, <1>5, <1>6, <1>11, <1>12, <1>13

LEMMA ReferenceStep == IInv /\ Reference => IInv'
<1> SUFFICES ASSUME IInv, Reference PROVE IInv'
  OBVIOUS
<1>0. PICK n : n = Text(Top)[Pos]
  OBVIOUS
<1>1. /\ call.at = "compose" /\ stack # <<>> /\ w \in Worlds
      /\ stack \in Seq(Name) /\ Len(stack) \in Nat \ {0}
      /\ Top \in Name
  BY DEF IInv, TypeOK, CallOK, Reference, Top
<1>2. Pos \in 1..Len(Text(Top)) /\ n \in Name
  <2>1. Pos \in DOMAIN Text(Top) /\ Text(Top) \in Seq(Name)
    BY <1>1, TextType DEF Reference, Text
  <2> QED
    BY <1>0, <2>1
<1>3. UNCHANGED <<w, phase, todo, answer, out, cache, raw, reads, visiting, stack>>
  BY DEF Reference
<1>4. CacheOK'
  BY <1>3, CacheSame DEF IInv
<1>5. ASSUME \A k \in Name : Pending(k) => Pending(k)'
      PROVE  CommandOK'
  BY <1>1, <1>3, <1>5, EngineCommand
<1>6. CASE From(n) = "os"
  <2>1. next' = Append(Pop(next), Pos + 1) /\ call' = call
    BY <1>0, <1>6 DEF Reference, From, Text, Advance
  <2>2. \A j \in 1..Len(Text(Top)) : j = Pos => Settled(Text(Top)[j])
    BY <1>0, <1>6 DEF Settled
  <2>3. next' \in Seq(Nat \ {0}) /\ Len(next') = Len(stack) /\ PathOK'
    BY <1>1, <1>3, <2>1, <2>2, PathAdvance
  <2>4. TypeOK'
    BY <1>3, <2>1, <2>3 DEF IInv, TypeOK
  <2>5. CallOK'
    BY <1>1, <1>3, <2>1 DEF CallOK
  <2>6. CommandOK'
    BY <1>1, <1>3, <1>5, <2>1 DEF Pending
  <2> QED
    BY <1>4, <2>3, <2>4, <2>5, <2>6 DEF IInv
<1>7. CASE From(n) # "os"
  <2>1. /\ UNCHANGED next
        /\ \/ From(n) = "namespace" /\ call' = Resolving(n)
           \/ From(n) = "missing" /\ call' = Error(n, "missing", <<>>)
    BY <1>0, <1>7 DEF Reference, From, Text
  <2>2. call'.key = n /\ call'.at \in {"resolve", "error"}
    BY <2>1 DEF Resolving, Error
  <2>3. PathOK'
    BY <1>3, <2>1, PathSame DEF IInv
  <2>4. TypeOK'
    BY <1>2, <1>3, <2>1, <2>2 DEF IInv, TypeOK
  <2>5. From(n) = "missing" => ~Fine(n)
    BY <1>1, <1>2, Table
  <2>6. Awaits(n)' /\ From(n)' = From(n) /\ Fine(n)' = Fine(n)
    BY <1>0, <1>2, <1>3, <2>1, Fixed DEF Awaits, Top, Pos
  <2>7. CallOK'
    <3>1. stack' # <<>> /\ call'.at \notin {"idle", "compose", "value"}
      BY <1>1, <1>3, <2>2
    <3>2. /\ (Awaits(call.key))' /\ (From(call.key))' # "os"
          /\ call'.at = "resolve" => (From(call.key))' = "namespace"
          /\ call'.at = "error" => ~(Fine(call.key))'
      BY <1>7, <2>1, <2>2, <2>5, <2>6 DEF Resolving, Error
    <3> QED
      BY <3>1, <3>2 DEF CallOK
  <2>8. CommandOK'
    BY <1>1, <1>3, <1>5, <2>2 DEF Pending
  <2> QED
    BY <1>4, <2>3, <2>4, <2>7, <2>8 DEF IInv
<1> QED
  BY <1>6, <1>7

LEMMA ReceiveStep == IInv /\ Receive => IInv'
<1> SUFFICES ASSUME IInv, Receive PROVE IInv'
  OBVIOUS
<1>1. call.at = "value" /\ stack # <<>> /\ call' = Composing
  BY DEF Receive
<1>2. UNCHANGED <<w, phase, todo, answer, out, cache, raw, reads, visiting, stack>>
  BY DEF Receive
<1>3. Awaits(call.key) /\ From(call.key) = "namespace" /\ Fine(call.key)
  BY <1>1 DEF IInv, CallOK
<1>4. \A j \in 1..Len(Text(Top)) : j = Pos => Settled(Text(Top)[j])
  BY <1>3 DEF Awaits, Settled
<1>5. next' \in Seq(Nat \ {0}) /\ Len(next') = Len(stack) /\ PathOK'
  BY <1>1, <1>2, <1>4, PathAdvance DEF Receive, Advance
<1>6. TypeOK'
  BY <1>1, <1>2, <1>5 DEF IInv, TypeOK, Composing
<1>7. CallOK'
  BY <1>1, <1>2 DEF CallOK, Composing
<1>8. CacheOK'
  BY <1>2, CacheSame DEF IInv
<1>9. CommandOK'
  BY <1>1, <1>2, EngineCommand DEF Pending, Composing
<1> QED
  BY <1>5, <1>6, <1>7, <1>8, <1>9 DEF IInv

LEMMA ComposesStep == IInv /\ Composes => IInv'
<1> SUFFICES ASSUME IInv, Composes PROVE IInv'
  OBVIOUS
<1> DEFINE v == Composed(Top, Parts)
<1>1. /\ call.at = "compose" /\ stack # <<>> /\ Leave /\ w' = w /\ w \in Worlds
      /\ cache' = With(cache, Top, v) /\ call' = Value(Top, v)
      /\ UNCHANGED <<phase, todo, answer, out, raw, reads>>
  BY DEF Composes, IInv, TypeOK, CallOK
<1> HIDE DEF v
<1>2. PICK n : n = Top
  OBVIOUS
<1>3. /\ stack' \in Seq(Name) /\ next' \in Seq(Nat \ {0})
      /\ Len(next') = Len(stack') /\ visiting' \subseteq Name
      /\ PathOK'
      /\ n \in Name /\ Known(n) /\ ~Dark(n) /\ ~Opaque(n)
      /\ \A j \in 1..Len(Text(n)) : j < Pos => Settled(Text(n)[j])
      /\ stack' # <<>> => Awaits(n)' /\ From(n) = "namespace"
      /\ \A k : (k = stack[1]) => k = IF stack' = <<>> THEN n ELSE stack'[1]
  BY <1>1, <1>2, PathPop
<1>4. Fine(n)
  <2>1. Pos \in Nat \ {0}
    BY <1>1 DEF IInv, TypeOK, Pos
  <2>2. Text(n) \in Seq(Name) /\ Pos \notin DOMAIN Text(n)
    BY <1>1, <1>2, <1>3, TextType DEF Composes, Text
  <2>3. \A j \in 1..Len(Text(n)) : j < Pos
    BY <2>1, <2>2
  <2> QED
    BY <1>1, <1>3, <2>3, Table
<1>5. call'.at = "value" /\ call'.key = n
  BY <1>1, <1>2 DEF Value
<1>6. TypeOK'
  BY <1>1, <1>2, <1>3, <1>5 DEF IInv, TypeOK, With
<1>7. CallOK'
  BY <1>1, <1>3, <1>4, <1>5, Fixed DEF CallOK
<1>8. CacheOK'
  BY <1>1, <1>2, <1>3, <1>4, Fixed DEF IInv, CacheOK, With
<1>9. \A k \in Name : Pending(k) => Pending(k)'
  BY <1>1, <1>3, <1>5 DEF Pending
<1>10. CommandOK'
  BY <1>1, <1>9, EngineCommand
<1> QED
  BY <1>3, <1>6, <1>7, <1>8, <1>10 DEF IInv

LEMMA UnwindStep == IInv /\ Unwind => IInv'
<1> SUFFICES ASSUME IInv, Unwind PROVE IInv'
  OBVIOUS
<1>1. /\ call.at = "error" /\ stack # <<>> /\ Leave /\ w' = w /\ w \in Worlds
      /\ call' = Error(Top, call.kind, call.cycle)
      /\ UNCHANGED <<phase, todo, answer, out, cache, raw, reads>>
  BY DEF Unwind, IInv, TypeOK
<1>2. PICK n : n = Top
  OBVIOUS
<1>3. /\ stack' \in Seq(Name) /\ next' \in Seq(Nat \ {0})
      /\ Len(next') = Len(stack') /\ visiting' \subseteq Name
      /\ PathOK'
      /\ n \in Name /\ Known(n) /\ ~Dark(n) /\ ~Opaque(n)
      /\ \A j \in 1..Len(Text(n)) : j < Pos => Settled(Text(n)[j])
      /\ stack' # <<>> => Awaits(n)' /\ From(n) = "namespace"
      /\ \A k : (k = stack[1]) => k = IF stack' = <<>> THEN n ELSE stack'[1]
  BY <1>1, <1>2, PathPop
<1>4. ~Fine(n)
  <2>1. Awaits(call.key) /\ From(call.key) # "os" /\ ~Fine(call.key)
    BY <1>1 DEF IInv, CallOK
  <2>2. Pos \in 1..Len(Text(n)) /\ ~Settled(Text(n)[Pos])
    BY <1>2, <2>1 DEF Awaits, Settled
  <2> QED
    BY <1>1, <1>3, <2>2, Table
<1>5. call'.at = "error" /\ call'.key = n
  BY <1>1, <1>2 DEF Error
<1>6. TypeOK'
  BY <1>1, <1>3, <1>5 DEF IInv, TypeOK
<1>7. CallOK'
  BY <1>1, <1>3, <1>4, <1>5, Fixed DEF CallOK
<1>8. CacheOK'
  BY <1>1, CacheSame DEF IInv
<1>9. \A k \in Name : Pending(k) => Pending(k)'
  BY <1>1, <1>3, <1>5 DEF Pending
<1>10. CommandOK'
  BY <1>1, <1>9, EngineCommand
<1> QED
  BY <1>3, <1>6, <1>7, <1>8, <1>10 DEF IInv

-----------------------------------------------------------------------------
(* One lemma per step of the command; the engine is idle or has returned.  *)

LEMMA SelectedType ==
    ASSUME w \in Worlds
    PROVE  Selected(w.mode) \subseteq Name /\ w.os \subseteq Name /\ w.mode \in Mode
  BY WorldTyped DEF WorldType, Selected, Namespace

LEMMA EngineRests ==
    ASSUME IInv, stack = <<>>, UNCHANGED <<w, engine>>, call' = Idle
    PROVE  PathOK' /\ CacheOK' /\ CallOK' /\ UNCHANGED <<visiting, stack, next>>
<1>1. UNCHANGED <<visiting, stack, next, cache>>
  BY DEF engine, path
<1>2. PathOK' /\ CacheOK'
  BY <1>1, PathSame, CacheSame DEF IInv
<1>3. CallOK'
  BY <1>1 DEF CallOK, Idle
<1> QED
  BY <1>1, <1>2, <1>3

LEMMA EngineUntouched ==
    ASSUME IInv, UNCHANGED <<w, cache, path, call>>
    PROVE  PathOK' /\ CacheOK' /\ CallOK' /\ UNCHANGED <<visiting, stack, next>>
<1>1. UNCHANGED <<visiting, stack, next, cache>>
  BY DEF path
<1>2. PathOK' /\ CacheOK'
  BY <1>1, PathSame, CacheSame DEF IInv
<1>3. CallOK'
  BY <1>1, Fixed DEF IInv, CallOK, Awaits, Pos, Top
<1> QED
  BY <1>1, <1>2, <1>3

LEMMA MaterializeStep == IInv /\ Materialize => IInv'
<1> SUFFICES ASSUME IInv, Materialize PROVE IInv'
  OBVIOUS
<1> DEFINE failed == {n \in Selected(w.mode) : Unreadable(w.mode, n)}
<1>1. /\ phase = "start" /\ Eager(w.mode) /\ w \in Worlds
      /\ answer' = [n \in Name |-> IF n \in failed THEN "unresolved" ELSE "none"]
      /\ \/ /\ failed # {} /\ w.mode # "tolerant"
            /\ phase' = "failed" /\ todo' = {}
         \/ /\ failed = {} \/ w.mode = "tolerant"
            /\ phase' = "resolve" /\ todo' = Selected(w.mode) \ failed
      /\ reads' \in [Name -> Nat]
      /\ UNCHANGED <<w, out, cache, raw, path, call>>
  BY DEF Materialize, IInv, TypeOK
<1>2. PathOK' /\ CacheOK' /\ CallOK' /\ UNCHANGED <<visiting, stack, next>>
  BY <1>1, EngineUntouched
<1>3. Selected(w.mode) \subseteq Name
  BY <1>1, SelectedType
<1>4. \A n : n \in failed <=> Chosen(n) /\ Dark(n)
  BY DEF Chosen, Dark
<1> HIDE DEF failed
<1>5. out = NoValues /\ call.at = "idle"
  BY <1>1 DEF IInv, CommandOK
<1>6. TypeOK'
  BY <1>1, <1>2, <1>3 DEF IInv, TypeOK, path
<1>7. \A k \in Name : k \in failed => ~Fine(k)
  BY <1>1, <1>4, Table
<1>8. \A k \in todo' : Known(k)
  <2> SUFFICES ASSUME NEW k \in todo' PROVE Known(k)
    OBVIOUS
  <2>1. Chosen(k) /\ ~Dark(k) /\ k \in Name
    BY <1>1, <1>3, <1>4 DEF Chosen
  <2> QED
    BY <1>1, <2>1, Table
<1>9. AnswersOK'
  BY <1>1, <1>7, Fixed DEF AnswersOK
<1>10. EagerOK'
  BY <1>1, <1>4, Fixed DEF EagerOK, Chosen
<1>11. (w.mode \in {"run", "diff"} => RunOK)'
  <2> SUFFICES ASSUME w.mode \in {"run", "diff"} PROVE RunOK'
    BY <1>1
  <2>1. CASE failed = {}
    <3>1. phase' = "resolve" /\ \A k \in Name : answer'[k] = "none"
      BY <1>1, <2>1
    <3> QED
      BY <1>1, <1>5, <3>1 DEF RunOK, Answered, NoValues
  <2>2. CASE failed # {}
    <3>1. PICK k : k \in failed
      BY <2>2
    <3>2. k \in Name /\ Chosen(k) /\ ~Fine(k)
      BY <1>3, <1>4, <1>7, <3>1 DEF Chosen
    <3>3. phase' = "failed" /\ out' = NoValues
      BY <1>1, <1>5, <2>2
    <3> QED
      BY <1>1, <3>2, <3>3, Fixed DEF RunOK
  <2> QED
    BY <2>1, <2>2
<1>12. (w.mode = "tolerant" => TolerantOK)'
  BY <1>1, <1>5 DEF TolerantOK, Answered, NoValues
<1> QED
  BY <1>1, <1>2, <1>5, <1>6, <1>8, <1>9, <1>10, <1>11, <1>12, Fixed
  DEF IInv, CommandOK

LEMMA RequestStep == IInv /\ Request => IInv'
<1> SUFFICES ASSUME IInv, Request PROVE IInv'
  OBVIOUS
<1>1. /\ phase = "start" /\ ~Eager(w.mode) /\ w \in Worlds
      /\ phase' \in {"resolve", "failed"}
      /\ todo' \subseteq Selected(w.mode) \/ todo' = todo
      /\ UNCHANGED <<w, answer, out, cache, raw, reads, path, call>>
  BY DEF Request, IInv, TypeOK, engine
<1>2. PathOK' /\ CacheOK' /\ CallOK' /\ UNCHANGED <<visiting, stack, next>>
  BY <1>1, EngineUntouched
<1>3. TypeOK'
  BY <1>1, <1>2, SelectedType DEF IInv, TypeOK, path
<1>4. call.at = "idle" /\ \A k \in Name : answer[k] = "none"
  BY <1>1 DEF IInv, CommandOK
<1>5. \A k \in todo' : Known(k)
  <2>1. \A k \in todo : Known(k)
    BY DEF IInv, CommandOK
  <2>2. \A k \in Selected(w.mode) : Known(k)
    BY <1>1 DEF Known, Declared
  <2> QED
    BY <1>1, <2>1, <2>2
<1>6. AnswersOK'
  BY <1>1, <1>4 DEF AnswersOK
<1>7. ~Eager(w.mode)' /\ w.mode' \notin {"run", "diff", "tolerant"}
  BY <1>1 DEF Eager
<1> QED
  BY <1>1, <1>2, <1>3, <1>4, <1>5, <1>6, <1>7, Fixed DEF IInv, CommandOK

LEMMA AskStep == ASSUME NEW k \in Name PROVE IInv /\ Ask(k) => IInv'
<1> SUFFICES ASSUME IInv, Ask(k) PROVE IInv'
  OBVIOUS
<1>1. /\ phase = "resolve" /\ call.at = "idle" /\ k \in todo
      /\ todo' = todo \ {k} /\ call' = Resolving(k)
      /\ UNCHANGED <<w, phase, answer, out>>
      /\ UNCHANGED <<cache, raw, reads, visiting, stack, next>>
  BY DEF Ask, engine, path
<1>2. stack = <<>>
  BY <1>1 DEF IInv, CallOK
<1>3. TypeOK'
  BY <1>1 DEF IInv, TypeOK, Resolving
<1>4. PathOK' /\ CacheOK'
  BY <1>1, PathSame, CacheSame DEF IInv
<1>5. Known(k)
  BY <1>1 DEF IInv, CommandOK
<1>6. CallOK'
  BY <1>1, <1>2, <1>5, Fixed DEF CallOK, Resolving
<1>7. EagerOK => EagerOK'
  BY <1>1, <1>2, Fixed DEF EagerOK, Pending, Resolving
<1>8. AnswersOK => AnswersOK'
  BY <1>1, Fixed DEF AnswersOK
<1>9. RunOK => RunOK'
  BY <1>1 DEF RunOK, Answered
<1>10. TolerantOK => TolerantOK'
  BY <1>1, Fixed DEF TolerantOK, Answered
<1> QED
  BY <1>1, <1>3, <1>4, <1>6, <1>7, <1>8, <1>9, <1>10, Fixed DEF IInv, CommandOK

LEMMA DiagnoseStep == ASSUME NEW k \in Name PROVE IInv /\ Diagnose(k) => IInv'
<1> SUFFICES ASSUME IInv, Diagnose(k) PROVE IInv'
  OBVIOUS
<1>1. /\ phase = "resolve" /\ call.at = "idle" /\ Explains
      /\ todo' = todo \ {k}
      /\ answer' \in [Name -> {"none", "ok", "circular", "unresolved"}]
      /\ DOMAIN out' \subseteq Name /\ reads' \in [Name -> Nat]
      /\ UNCHANGED <<w, phase, cache, raw, path, call>>
  BY DEF Diagnose, With, IInv, TypeOK
<1>2. PathOK' /\ CacheOK' /\ CallOK' /\ UNCHANGED <<visiting, stack, next>>
  BY <1>1, EngineUntouched
<1>3. TypeOK'
  BY <1>1, <1>2 DEF IInv, TypeOK, path
<1>4. Explains' /\ ~Eager(w.mode)' /\ w.mode' \notin {"run", "diff", "tolerant"}
  BY <1>1 DEF Explains, Eager
<1> QED
  BY <1>1, <1>2, <1>3, <1>4, Fixed DEF IInv, CommandOK

LEMMA SucceedStep == IInv /\ Succeed => IInv'
<1> SUFFICES ASSUME IInv, Succeed PROVE IInv'
  OBVIOUS
<1>0. PICK k : k = call.key
  OBVIOUS
<1>1. /\ call.at = "value" /\ stack = <<>> /\ k \in Name /\ call' = Idle
      /\ answer \in [Name -> {"none", "ok", "circular", "unresolved"}]
      /\ answer' = [answer EXCEPT ![k] = "ok"]
      /\ out' = IF w.mode = "masked" THEN out ELSE With(out, k, call.value)
      /\ UNCHANGED <<w, phase, todo, engine>>
  BY <1>0 DEF Succeed, IInv, TypeOK
<1>2. PathOK' /\ CacheOK' /\ CallOK' /\ UNCHANGED <<visiting, stack, next>>
  BY <1>1, EngineRests
<1>3. phase = "resolve"
  BY <1>1 DEF IInv, CommandOK
<1>4. Fine(k) /\ (Opaque(k) => call.value = OsValue(k))
  BY <1>0, <1>1 DEF IInv, CallOK
<1>5. TypeOK'
  BY <1>1, <1>2 DEF IInv, TypeOK, engine, path, Idle, With
<1>6. AnswersOK => AnswersOK'
  BY <1>1, <1>4, Fixed DEF AnswersOK
<1>7. \A n \in Name : Pending(n) => n = k
  BY <1>0, <1>1 DEF Pending
<1>8. EagerOK => EagerOK'
  BY <1>1, <1>3, <1>7, Fixed DEF EagerOK
<1>9. DOMAIN out = {n \in Name : Answered(n)} /\ w.mode # "masked"
      => DOMAIN out' = {n \in Name : Answered(n)'}
  <2> SUFFICES ASSUME DOMAIN out = {n \in Name : Answered(n)}, w.mode # "masked"
               PROVE  DOMAIN out' = {n \in Name : Answered(n)'}
    OBVIOUS
  <2>1. DOMAIN out' = DOMAIN out \cup {k}
    BY <1>1 DEF With
  <2>2. \A n \in Name : Answered(n)' <=> Answered(n) \/ n = k
    BY <1>1 DEF Answered
  <2> QED
    BY <1>1, <2>1, <2>2
<1>10. (w.mode \in {"run", "diff"} => RunOK)'
  <2> SUFFICES ASSUME w.mode \in {"run", "diff"} PROVE RunOK'
    BY <1>1
  <2>1. RunOK
    BY DEF IInv, CommandOK
  <2>2. \A n \in Name : answer'[n] \in {"none", "ok"}
    BY <1>1, <1>3, <2>1 DEF RunOK
  <2> QED
    BY <1>1, <1>3, <1>9, <2>1, <2>2 DEF RunOK
<1>11. (w.mode = "tolerant" => TolerantOK)'
  <2> SUFFICES ASSUME w.mode = "tolerant" PROVE TolerantOK'
    BY <1>1
  <2>1. DOMAIN out = {n \in Name : Answered(n)}
        /\ \A n \in DOMAIN out : Opaque(n) => out[n] = OsValue(n)
    BY <1>3 DEF IInv, CommandOK, TolerantOK
  <2>2. \A n \in DOMAIN out' : Opaque(n) => out'[n] = OsValue(n)
    BY <1>1, <1>4, <2>1 DEF With
  <2> QED
    BY <1>1, <1>3, <1>9, <2>1, <2>2, Fixed DEF TolerantOK
<1> QED
  BY <1>1, <1>2, <1>3, <1>5, <1>6, <1>8, <1>10, <1>11, Fixed DEF IInv, CommandOK

LEMMA FailStep == IInv /\ Fail => IInv'
<1> SUFFICES ASSUME IInv, Fail PROVE IInv'
  OBVIOUS
<1>0. PICK k : k = call.key
  OBVIOUS
<1>1. /\ call.at = "error" /\ stack = <<>> /\ k \in Name /\ call' = Idle
      /\ answer \in [Name -> {"none", "ok", "circular", "unresolved"}]
      /\ \E a \in {"circular", "unresolved"} :
             answer' = [answer EXCEPT ![k] = a]
      /\ \/ w.mode \in {"run", "diff"} /\ phase' = "failed" /\ out' = NoValues
         \/ w.mode \notin {"run", "diff"} /\ UNCHANGED <<phase, out>>
      /\ UNCHANGED <<w, todo, engine>>
  BY <1>0 DEF Fail, IInv, TypeOK
<1>2. PathOK' /\ CacheOK' /\ CallOK' /\ UNCHANGED <<visiting, stack, next>>
  BY <1>1, EngineRests
<1>3. phase = "resolve" /\ w \in Worlds
  BY <1>1 DEF IInv, CommandOK, TypeOK
<1>4. ~Fine(k) /\ Known(k)
  BY <1>0, <1>1 DEF IInv, CallOK
<1>5. Chosen(k)
  BY <1>1, <1>3, <1>4, Table
<1>6. TypeOK'
  BY <1>1, <1>2 DEF IInv, TypeOK, engine, path, Idle, NoValues
<1>7. AnswersOK => AnswersOK'
  BY <1>1, <1>4, Fixed DEF AnswersOK
<1>8. \A n \in Name : Pending(n) => n = k
  BY <1>0, <1>1 DEF Pending
<1>9. EagerOK => EagerOK'
  BY <1>1, <1>3, <1>8, Fixed DEF EagerOK
<1>10. (w.mode \in {"run", "diff"} => RunOK)'
  BY <1>1, <1>4, <1>5, Fixed DEF RunOK
<1>11. (w.mode = "tolerant" => TolerantOK)'
  <2> SUFFICES ASSUME w.mode = "tolerant" PROVE TolerantOK'
    BY <1>1
  <2>1. TolerantOK /\ AnswersOK
    BY DEF IInv, CommandOK, Explains
  <2>2. \A n \in Name : Answered(n)' <=> Answered(n)
    BY <1>1, <1>4, <2>1 DEF AnswersOK, Answered
  <2>3. UNCHANGED <<phase, out>>
    BY <1>1
  <2> QED
    BY <1>1, <1>3, <2>1, <2>2, <2>3, Fixed DEF TolerantOK
<1>12. phase' \in {"resolve", "failed"}
  BY <1>1, <1>3
<1> QED
  BY <1>1, <1>2, <1>6, <1>7, <1>9, <1>10, <1>11, <1>12, Fixed
  DEF IInv, CommandOK, Idle

(* What ignoring errors returns once every key is answered.                *)
LEMMA DowngradedFacts ==
    ASSUME IInv, w.mode = "tolerant", phase = "resolve",
           \A k \in Name : Chosen(k) => answer[k] # "none",
           out' = Downgraded(out), w' = w
    PROVE  NeverClobbered'
<1>1. /\ w \in Worlds
      /\ answer \in [Name -> {"none", "ok", "circular", "unresolved"}]
  BY DEF IInv, TypeOK
<1>2. w.os \subseteq Name /\ Namespace \subseteq Name
  BY <1>1, SelectedType DEF Namespace
<1>3. \A n \in Name : Chosen(n) <=> n \in Namespace \/ n \in w.os
  BY DEF Chosen, Selected
<1>4. \A n \in Name : /\ answer[n] = "ok" => Fine(n)
                      /\ n \in Failures => ~Fine(n)
  BY DEF IInv, CommandOK, Explains, AnswersOK, Failures
<1>5. DOMAIN out = {n \in Name : answer[n] = "ok"}
      /\ \A n \in DOMAIN out : Opaque(n) => out[n] = OsValue(n)
  BY DEF IInv, CommandOK, TolerantOK, Answered
<1>6. \A n \in Name : Chosen(n) => answer[n] = "ok" \/ n \in Failures
  BY <1>1 DEF Failures
<1>7. \A n \in Name : Fine(n) => Chosen(n)
  BY <1>1, Table
<1>8. DOMAIN out' = DOMAIN out \cup (Failures \cap w.os)
      /\ \A n \in DOMAIN out' :
             out'[n] = IF n \in Failures THEN OsValue(n) ELSE out[n]
  BY DEF Downgraded
<1>9. DOMAIN out' = w.os \cup (Good(w.mode) \cap Namespace)
  <2>1. \A n \in Name : Fine(n) <=> n \in Good(w.mode)
    BY DEF Fine
  <2> QED
    BY <1>2, <1>3, <1>4, <1>5, <1>6, <1>7, <1>8, <2>1
<1>10. ASSUME NEW n \in w.os
       PROVE  \/ out'[n] = OsValue(n)
              \/ w.overload /\ n \in Good(w.mode) \cap Namespace
  <2>1. n \in Name /\ n \in DOMAIN out'
    BY <1>2, <1>9
  <2>2. CASE n \in Failures
    BY <1>8, <2>1, <2>2
  <2>3. CASE n \notin Failures
    <3>1. answer[n] = "ok" /\ Fine(n) /\ out'[n] = out[n] /\ n \in DOMAIN out
      BY <1>3, <1>4, <1>5, <1>6, <1>8, <2>1, <2>3
    <3>2. CASE Opaque(n)
      BY <1>5, <3>1, <3>2
    <3>3. CASE ~Opaque(n)
      BY <3>1, <3>3 DEF Opaque, Fine
    <3> QED
      BY <3>2, <3>3
  <2> QED
    BY <2>2, <2>3
<1>11. /\ (w.mode)' = w.mode /\ (w.os)' = w.os /\ (w.overload)' = w.overload
       /\ (Good(w.mode) \cap Namespace)' = Good(w.mode) \cap Namespace
  BY GoodFixed
<1> QED
  BY <1>9, <1>10, <1>11 DEF NeverClobbered

LEMMA FinishStep == IInv /\ Finish => IInv'
<1> SUFFICES ASSUME IInv, Finish PROVE IInv'
  OBVIOUS
<1>1. /\ phase = "resolve" /\ call.at = "idle" /\ todo = {} /\ phase' = "done"
      /\ out' = IF w.mode = "tolerant" THEN Downgraded(out) ELSE out
      /\ UNCHANGED <<w, todo, answer, engine, call>> /\ w \in Worlds
  BY DEF Finish, IInv, TypeOK
<1>2. PathOK' /\ CacheOK' /\ CallOK' /\ UNCHANGED <<visiting, stack, next>>
  BY <1>1, EngineUntouched DEF engine
<1>3. TypeOK'
  <2>1. DOMAIN out' \subseteq Name
    BY <1>1, SelectedType DEF Downgraded, IInv, TypeOK
  <2> QED
    BY <1>1, <1>2, <2>1 DEF IInv, TypeOK, engine, path
<1>4. Eager(w.mode) => \A k \in Name : Chosen(k) => answer[k] # "none"
  BY <1>1 DEF IInv, CommandOK, EagerOK, Pending
<1>5. (Eager(w.mode) => EagerOK)'
  BY <1>1, <1>4, Fixed DEF EagerOK
<1>6. (~Explains => AnswersOK)'
  BY <1>1, Fixed DEF IInv, CommandOK, AnswersOK
<1>7. (w.mode \in {"run", "diff"} => RunOK)'
  BY <1>1 DEF IInv, CommandOK, RunOK, Answered
<1>8. (w.mode = "tolerant" => TolerantOK)'
  BY <1>1, <1>4, DowngradedFacts DEF TolerantOK, Eager
<1> QED
  BY <1>1, <1>2, <1>3, <1>5, <1>6, <1>7, <1>8 DEF IInv, CommandOK

-----------------------------------------------------------------------------
(* The invariant, and what it says of the command.                         *)

LEMMA InitOK == Init => IInv
<1> SUFFICES ASSUME Init PROVE IInv
  OBVIOUS
<1> USE DEF Init
<1>1. TypeOK
  BY DEF TypeOK, NoValues, Idle
<1>2. PathOK /\ CallOK /\ CacheOK
  BY DEF PathOK, CallOK, CacheOK, Idle, NoValues
<1>3. CommandOK
  BY DEF CommandOK, AnswersOK, EagerOK, RunOK, TolerantOK, NoValues, Idle
<1> QED
  BY <1>1, <1>2, <1>3 DEF IInv

LEMMA Stutter == IInv /\ UNCHANGED vars => IInv'
<1> SUFFICES ASSUME IInv, UNCHANGED vars PROVE IInv'
  OBVIOUS
<1>1. UNCHANGED <<w, phase, todo, answer, out, engine, call>>
  BY DEF vars
<1>2. PathOK' /\ CacheOK' /\ CallOK' /\ UNCHANGED <<visiting, stack, next>>
  BY <1>1, EngineUntouched DEF engine
<1>3. TypeOK'
  BY <1>1, <1>2 DEF IInv, TypeOK, engine, path
<1>4. \A k \in Name : Pending(k)' <=> Pending(k)
  BY <1>1, <1>2 DEF Pending
<1>5. NeverClobbered => NeverClobbered'
  BY <1>1, GoodFixed DEF NeverClobbered
<1>6. CommandOK'
  BY <1>1, <1>4, <1>5, Fixed
  DEF IInv, CommandOK, AnswersOK, EagerOK, RunOK, TolerantOK, Answered
<1> QED
  BY <1>2, <1>3, <1>6 DEF IInv

THEOREM Invariance == Spec => []IInv
<1>1. Init => IInv
  BY InitOK
<1>2. IInv /\ [Next]_vars => IInv'
  BY MaterializeStep, RequestStep, AskStep, DiagnoseStep, HitStep, CircleStep,
     EnterStep, ReferenceStep, ReceiveStep, ComposesStep, UnwindStep,
     SucceedStep, FailStep, FinishStep, Stutter DEF Next
<1> QED
  BY <1>1, <1>2, PTL DEF Spec

(* Every variable keeps its type, for every set of names and every table.  *)
THEOREM TypeCorrect == Spec => []TypeOK
<1>1. IInv => TypeOK
  BY DEF IInv
<1> QED
  BY <1>1, Invariance, PTL

(* A key is answered with a value exactly if everything it needs has one,  *)
(* and the cache holds no value of a name that does not compose, however   *)
(* many keys failed before (substitute.go:157-191).                        *)
THEOREM OutcomeSound == Spec => [](/\ ~Explains => AnswersOK
                                   /\ DOMAIN cache \subseteq Good(w.mode))
<1>1. IInv => (~Explains => AnswersOK) /\ DOMAIN cache \subseteq Good(w.mode)
  BY DEF IInv, CommandOK, CacheOK, Fine
<1> QED
  BY <1>1, Invariance, PTL

(* run and a revealed diff return all values or none, and none only if     *)
(* some selected name has no value (substitution.go:45-62).                *)
THEOREM FailClosed == Spec => []AllOrNothing
<1>1. ASSUME IInv
      PROVE  AllOrNothing
  <2> SUFFICES ASSUME w.mode \in {"run", "diff"}, phase \in {"done", "failed"}
               PROVE  IF phase = "done"
                      THEN /\ DOMAIN out = Selected(w.mode)
                           /\ DOMAIN out \subseteq Good(w.mode)
                      ELSE out = NoValues /\ ~(Selected(w.mode) \subseteq Good(w.mode))
    BY DEF AllOrNothing
  <2>1. RunOK /\ EagerOK /\ AnswersOK /\ w \in Worlds
    BY <1>1 DEF IInv, TypeOK, CommandOK, Explains, Eager
  <2>2. CASE phase = "done"
    <3>1. DOMAIN out = {k \in Name : answer[k] = "ok"}
      BY <2>1, <2>2 DEF RunOK, Answered
    <3>2. \A k \in Name : answer[k] = "ok" => k \in Good(w.mode) /\ Chosen(k)
      BY <2>1, Table DEF AnswersOK, Fine
    <3>3. \A k \in Name : Chosen(k) => answer[k] = "ok"
      BY <2>1, <2>2 DEF RunOK, EagerOK
    <3>4. Selected(w.mode) \subseteq Name
      BY <2>1, SelectedType
    <3> QED
      BY <2>2, <3>1, <3>2, <3>3, <3>4 DEF Chosen
  <2>3. CASE phase = "failed"
    BY <2>1, <2>3 DEF RunOK, Chosen, Fine
  <2> QED
    BY <2>2, <2>3
<1> QED
  BY <1>1, Invariance, PTL

(* Ignoring errors keeps every variable of the OS, at its value unless     *)
(* --overload lets a value that composes win (substitution.go:108-137).    *)
THEOREM OsPreserved == Spec => []NeverClobbered
<1>1. ASSUME IInv
      PROVE  NeverClobbered
  <2>1. w.mode = "tolerant" /\ phase = "done" => NeverClobbered
    BY <1>1 DEF IInv, CommandOK, TolerantOK
  <2> QED
    BY <2>1 DEF NeverClobbered
<1> QED
  BY <1>1, Invariance, PTL

-----------------------------------------------------------------------------
(* A reported cycle is one.                                                *)

RealCycle(c) ==
    /\ Len(c) > 1 /\ c[1] = c[Len(c)]
    /\ \A i \in 1..(Len(c) - 1) :
           /\ Edge(w.mode, c[i], c[i + 1])
           /\ Source(w.mode, c[i + 1]) = "namespace"
           /\ \A j \in 1..(i - 1) : c[i] # c[j]

ReportedReal == call.at = "error" /\ call.kind = "circular" => RealCycle(call.cycle)

LEMMA RealCycleFixed ==
    ASSUME w' = w, NEW c, RealCycle(c)
    PROVE  RealCycle(c)'
<1>1. \A m, a, b : Edge(m, a, b)' = Edge(m, a, b)
  BY DEF Edge, Refs, Masked
<1>2. \A m, n : Source(m, n)' = Source(m, n)
  BY DEF Source, Declared, Selected, Unreadable, Opaque, Masked, Namespace
<1> QED
  BY <1>1, <1>2 DEF RealCycle

LEMMA CircleReal ==
    ASSUME IInv, Circle
    PROVE  RealCycle(Cycle(call.key))
<1> DEFINE top == Len(stack)
<1>0. PICK n : n = call.key
  OBVIOUS
<1>1. /\ call.at = "resolve" /\ n \in visiting /\ n \in Name /\ w \in Worlds
      /\ stack \in Seq(Name) /\ top \in Nat
      /\ visiting = {stack[i] : i \in 1..top}
      /\ \A i, j \in 1..top : stack[i] = stack[j] => i = j
  BY <1>0 DEF Circle, IInv, TypeOK, PathOK
<1>2. PICK start \in 1..top : stack[start] = n
  BY <1>1
<1>3. Cycle(n) = Append(SubSeq(stack, start, top), n)
  <2>1. \A i \in DOMAIN stack :
            (stack[i] = n /\ \A j \in 1..(i - 1) : stack[j] # n) <=> i = start
    BY <1>1, <1>2
  <2>2. start \in DOMAIN stack
    BY <1>1, <1>2
  <2>3. (CHOOSE i \in DOMAIN stack :
            stack[i] = n /\ \A j \in 1..(i - 1) : stack[j] # n) = start
    BY <2>1, <2>2
  <2> QED
    BY <2>3 DEF Cycle
<1> DEFINE s == SubSeq(stack, start, top)
           c == Append(s, n)
           m == top - start + 1
<1>4. /\ s \in Seq(Name) /\ Len(s) = m /\ m \in Nat \ {0}
      /\ \A i \in 1..m : s[i] = stack[start + i - 1]
  <2>1. start \in 1..Len(stack) + 1 /\ top \in start - 1..Len(stack)
    BY <1>1, <1>2
  <2>2. /\ s \in Seq(Name)
        /\ Len(s) = IF start <= top THEN top - start + 1 ELSE 0
        /\ \A i \in 1..(top - start + 1) : s[i] = stack[start + i - 1]
    BY <1>1, <1>2, <2>1, SubSeqProperties
  <2> QED
    BY <1>1, <1>2, <2>2
<1> HIDE DEF s
<1>5. /\ Len(c) = m + 1 /\ c[m + 1] = n
      /\ \A i \in 1..m : c[i] = stack[start + i - 1]
  <2>1. /\ Len(c) = Len(s) + 1 /\ c[Len(s) + 1] = n
        /\ \A i \in 1..Len(s) : c[i] = s[i]
    <3>1. s \in Seq(Name) /\ n \in Name
      BY <1>1, <1>4
    <3> HIDE DEF m, top
    <3> QED
      BY <3>1, AppendFacts
  <2> HIDE DEF c, m
  <2> QED
    BY <1>4, <2>1
<1> HIDE DEF c
<1>6. Len(c) > 1 /\ c[1] = c[Len(c)]
  <2>1. 1 \in 1..m /\ start + 1 - 1 = start
    BY <1>2, <1>4
  <2> QED
    BY <1>2, <1>4, <1>5, <2>1
<1>7. ASSUME NEW i \in 1..(Len(c) - 1)
      PROVE  /\ Edge(w.mode, c[i], c[i + 1])
             /\ Source(w.mode, c[i + 1]) = "namespace"
             /\ \A j \in 1..(i - 1) : c[i] # c[j]
  <2>1. i \in 1..m
    BY <1>4, <1>5
  <2> DEFINE p == start + i - 1
  <2>2. p \in 1..top /\ c[i] = stack[p] /\ (p = top <=> i = m)
    BY <1>1, <1>2, <1>4, <1>5, <2>1
  <2>3. \A j \in 1..(i - 1) : c[i] # c[j]
    <3> SUFFICES ASSUME NEW j \in 1..(i - 1) PROVE c[i] # c[j]
      OBVIOUS
    <3>1. j \in 1..m /\ start + j - 1 \in 1..top /\ start + j - 1 # p
      <4>1. top \in Nat /\ start \in 1..top /\ i \in 1..m /\ j \in 1..(i - 1)
        BY <1>1, <1>2, <2>1
      <4> HIDE DEF top
      <4> QED
        BY <4>1
    <3>2. c[j] = stack[start + j - 1]
      BY <1>5, <3>1
    <3> QED
      BY <1>1, <2>2, <3>1, <3>2
  <2>4. stack[p] \in Name /\ DOMAIN Text(stack[p]) = 1..Len(Text(stack[p]))
    BY <1>1, <2>2, TextType
  <2>5. CASE i = m
    <3>1. stack # <<>> /\ Top = stack[p]
      BY <1>1, <2>2, <2>5 DEF Top
    <3>2. Awaits(n) /\ From(n) = "namespace"
      BY <1>0, <1>1, <3>1 DEF IInv, CallOK
    <3>3. c[i + 1] = n
      BY <1>5, <2>5
    <3>4. Pos \in DOMAIN Refs(w.mode, c[i]) /\ Refs(w.mode, c[i])[Pos] = c[i + 1]
      BY <2>2, <2>4, <3>1, <3>2, <3>3 DEF Awaits, Text
    <3> QED
      BY <2>3, <3>2, <3>3, <3>4 DEF Edge, From
  <2>6. CASE i # m
    <3>1. p \in 1..(top - 1) /\ i + 1 \in 1..m /\ start + (i + 1) - 1 = p + 1
      <4>1. top \in Nat /\ start \in 1..top /\ i \in 1..m
        BY <1>1, <1>2, <2>1
      <4> HIDE DEF top
      <4> QED
        BY <2>6, <4>1
    <3>2. c[i + 1] = stack[p + 1]
      BY <1>5, <3>1
    <3>3. /\ next[p] \in 1..Len(Text(stack[p]))
          /\ Text(stack[p])[next[p]] = stack[p + 1]
          /\ From(stack[p + 1]) = "namespace"
      BY <3>1 DEF IInv, PathOK
    <3>4. next[p] \in DOMAIN Refs(w.mode, c[i])
          /\ Refs(w.mode, c[i])[next[p]] = c[i + 1]
      BY <2>2, <2>4, <3>2, <3>3 DEF Text
    <3> QED
      BY <2>3, <3>2, <3>3, <3>4 DEF Edge, From
  <2> QED
    BY <2>5, <2>6
<1> QED
  <2>1. Cycle(call.key) = c
    BY <1>0, <1>3 DEF c, s
  <2> QED
    BY <1>6, <1>7, <2>1 DEF RealCycle

(* The reported path is a cycle of live references that meets no name      *)
(* twice, whichever key was asked and whatever failed before               *)
(* (substitute.go:254-260).                                                *)
THEOREM CyclesReal == Spec => []CycleReal
<1>1. CycleReal <=> ReportedReal
  BY DEF CycleReal, ReportedReal, RealCycle
<1>2. Init => ReportedReal
  BY DEF Init, Idle, ReportedReal
<1>3. IInv /\ ReportedReal /\ [Next]_vars => ReportedReal'
  <2> SUFFICES ASSUME IInv, ReportedReal, [Next]_vars PROVE ReportedReal'
    OBVIOUS
  <2>1. CASE Circle
    <3>1. PICK c : c = Cycle(call.key)
      OBVIOUS
    <3>2. RealCycle(c) /\ call'.cycle = c /\ w' = w
      BY <2>1, <3>1, CircleReal DEF Circle, Error
    <3> QED
      BY <3>2, RealCycleFixed DEF ReportedReal
  <2>2. CASE Unwind
    <3>1. PICK c : c = call.cycle
      OBVIOUS
    <3>2. /\ call.at = "error" /\ call'.cycle = c /\ call'.kind = call.kind
          /\ w' = w
      BY <2>2, <3>1 DEF Unwind, Error
    <3> QED
      BY <3>1, <3>2, RealCycleFixed DEF ReportedReal
  <2>3. CASE \/ UNCHANGED vars \/ Materialize \/ Request \/ Finish
             \/ \E k \in Name : Diagnose(k)
    <3>1. PICK c : c = call.cycle
      OBVIOUS
    <3>2. call' = call /\ w' = w
      BY <2>3 DEF vars, Materialize, Request, Finish, Diagnose
    <3> QED
      BY <3>1, <3>2, RealCycleFixed DEF ReportedReal
  <2>4. CASE \/ Hit \/ Enter \/ Receive \/ Composes \/ Succeed \/ Fail
             \/ \E k \in Name : Ask(k)
    <3>1. call'.at = "error" => call'.kind = "value"
      BY <2>4 DEF Hit, Enter, Receive, Composes, Succeed, Fail, Ask, Value,
                  Error, Composing, Idle, Resolving
    <3> QED
      BY <3>1 DEF ReportedReal
  <2>5. CASE Reference
    <3>1. call'.at = "error" => call.at # "error" /\ call'.kind = "missing"
      BY <2>5 DEF Reference, Error, Resolving
    <3> QED
      BY <3>1 DEF ReportedReal
  <2> QED
    BY <2>1, <2>2, <2>3, <2>4, <2>5 DEF Next
<1> QED
  BY <1>1, <1>2, <1>3, Invariance, PTL DEF Spec
=============================================================================
