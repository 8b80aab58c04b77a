---------------------- MODULE SubstitutionValues_proofs ----------------------
(***************************************************************************)
(* What the engine says and returns, for every table of references, every  *)
(* OS environment, every command and every order in which keys are asked:  *)
(* the outcome of a key is its fate in the table, a value is the meaning   *)
(* of its name, get and explain read only what their keys need, the child  *)
(* sees one environment, and every command agrees with run.                *)
(***************************************************************************)
EXTENDS Substitution_proofs, FiniteSetTheorems, WellFoundedInduction

-----------------------------------------------------------------------------
(* Induction over the natural numbers, in terms of sets.                   *)

LEMMA NatMin ==
    ASSUME NEW T \in SUBSET Nat, T # {}
    PROVE  \E x \in T : \A y \in T : x <= y
<1> DEFINE R == OpToRel(<, Nat)
<1>1. IsWellFoundedOn(R, Nat)
  BY NatLessThanWellFounded
<1>2. \A x, y \in Nat : <<y, x>> \in R <=> y < x
  BY DEF OpToRel
<1> HIDE DEF R
<1>3. PICK x \in T : \A y \in T : ~(<<y, x>> \in R)
  BY <1>1, WFMin
<1>4. \A y \in T : ~(y < x)
  BY <1>2, <1>3
<1> QED
  BY <1>4

LEMMA SetInduction ==
    ASSUME NEW S, 0 \in S, \A n \in Nat : n \in S => n + 1 \in S
    PROVE  Nat \subseteq S
<1> SUFFICES ASSUME Nat \ S # {} PROVE FALSE
  OBVIOUS
<1>1. PICK x \in Nat \ S : \A y \in Nat \ S : x <= y
  BY NatMin
<1>2. x - 1 \in Nat /\ x - 1 \in S /\ x = (x - 1) + 1
  BY <1>1
<1> QED
  BY <1>1, <1>2

-----------------------------------------------------------------------------
(* What an error says of a name.                                           *)

(* r is the first reference in the text of n that has no value.            *)
Blamed(n, r) ==
    \E p \in 1..Len(Text(n)) :
        /\ Text(n)[p] = r /\ ~Settled(r)
        /\ \A j \in 1..Len(Text(n)) : j < p => Settled(Text(n)[j])

(* From n, one blamed reference after the other, a text is met again.      *)
Circles(n) ==
    \E C \in SUBSET Name :
        /\ n \in C
        /\ \A x \in C : /\ ~Fine(x) /\ Known(x) /\ ~Dark(x)
                        /\ \E r \in C : Blamed(x, r) /\ From(r) = "namespace"

(* An error on its way says of the name it is about whether it circles.    *)
ErrorOK == call.at = "error" => (call.kind = "circular" <=> Circles(call.key))

LEMMA BlamedType ==
    ASSUME w \in Worlds, NEW n \in Name, NEW r, Blamed(n, r)
    PROVE  r \in Name
  BY TextType DEF Blamed

LEMMA BlamedOnce ==
    ASSUME w \in Worlds, NEW n \in Name, NEW r, NEW s, Blamed(n, r), Blamed(n, s)
    PROVE  r = s
<1>1. Len(Text(n)) \in Nat
  BY TextType
<1>2. PICK p \in 1..Len(Text(n)) :
          /\ Text(n)[p] = r /\ ~Settled(r)
          /\ \A j \in 1..Len(Text(n)) : j < p => Settled(Text(n)[j])
  BY DEF Blamed
<1>3. PICK q \in 1..Len(Text(n)) :
          /\ Text(n)[q] = s /\ ~Settled(s)
          /\ \A j \in 1..Len(Text(n)) : j < q => Settled(Text(n)[j])
  BY DEF Blamed
<1>4. p = q
  BY <1>1, <1>2, <1>3
<1> QED
  BY <1>2, <1>3, <1>4

(* A readable name without a value has a reference to blame.               *)
LEMMA BlameExists ==
    ASSUME w \in Worlds, NEW n \in Name, Known(n), ~Dark(n), ~Fine(n)
    PROVE  \E r \in Name : Blamed(n, r)
<1> DEFINE T == {j \in 1..Len(Text(n)) : ~Settled(Text(n)[j])}
<1>1. T # {}
  BY Table
<1>2. T \subseteq Nat
  OBVIOUS
<1>3. PICK p \in T : \A j \in T : p <= j
  BY <1>1, <1>2, NatMin
<1>4. Text(n) \in Seq(Name) /\ p \in 1..Len(Text(n)) /\ ~Settled(Text(n)[p])
  BY <1>3, TextType
<1>5. ASSUME NEW j \in 1..Len(Text(n)), j < p
      PROVE  Settled(Text(n)[j])
  BY <1>3, <1>4, <1>5
<1>6. Blamed(n, Text(n)[p]) /\ Text(n)[p] \in Name
  BY <1>4, <1>5 DEF Blamed
<1> QED
  BY <1>6

LEMMA CulpritBlamed ==
    ASSUME w \in Worlds, NEW n \in Name, NEW r, Blamed(n, r)
    PROVE  Culprit(w.mode, n) = r
<1>1. Text(n) \in Seq(Name) /\ DOMAIN Text(n) = 1..Len(Text(n))
  BY TextType
<1>2. PICK p \in 1..Len(Text(n)) :
          /\ Text(n)[p] = r /\ ~Settled(r)
          /\ \A j \in 1..Len(Text(n)) : j < p => Settled(Text(n)[j])
  BY DEF Blamed
<1> DEFINE bad(i) == ~( \/ Source(w.mode, Refs(w.mode, n)[i]) = "os"
                        \/ Refs(w.mode, n)[i] \in Good(w.mode))
           First(i) == bad(i) /\ \A j \in 1..(i - 1) : ~bad(j)
<1>3. \A i \in 1..Len(Text(n)) : bad(i) <=> ~Settled(Text(n)[i])
  <2> SUFFICES ASSUME NEW i \in 1..Len(Text(n))
               PROVE  bad(i) <=> ~Settled(Text(n)[i])
    OBVIOUS
  <2>1. Text(n)[i] \in Name
    BY <1>1
  <2>2. /\ From(Text(n)[i]) \in {"os", "namespace", "missing"}
        /\ From(Text(n)[i]) = "missing" => ~Known(Text(n)[i])
        /\ Fine(Text(n)[i]) => Known(Text(n)[i])
    BY <2>1, Table
  <2> QED
    BY <2>2 DEF Settled, From, Text, Fine
<1> HIDE DEF bad
<1>4. \A i \in DOMAIN Refs(w.mode, n) : First(i) <=> i = p
  <2> SUFFICES ASSUME NEW i \in 1..Len(Text(n)) PROVE First(i) <=> i = p
    BY <1>1 DEF Text
  <2>1. Len(Text(n)) \in Nat /\ p \in 1..Len(Text(n)) /\ i \in 1..Len(Text(n))
    BY <1>1
  <2>2. \A j \in 1..(i - 1) : j \in 1..Len(Text(n)) /\ j < i
    BY <2>1
  <2>3. i = p => First(i)
    BY <1>2, <1>3, <2>1, <2>2
  <2>4. ASSUME First(i), i # p
        PROVE  FALSE
    <3>1. CASE i < p
      BY <1>2, <1>3, <2>4, <3>1
    <3>2. CASE p < i
      <4>1. p \in 1..(i - 1)
        BY <2>1, <3>2
      <4> QED
        BY <1>2, <1>3, <2>4, <4>1
    <3> QED
      BY <2>1, <2>4, <3>1, <3>2
  <2> QED
    BY <2>3, <2>4
<1>5. p \in DOMAIN Refs(w.mode, n)
  BY <1>1 DEF Text
<1>6. (CHOOSE i \in DOMAIN Refs(w.mode, n) : First(i)) = p
  BY <1>4, <1>5
<1> QED
  BY <1>2, <1>6 DEF Culprit, First, bad, Text

(* Circling is what the table means by a loop.                             *)
LEMMA CirclesLoops ==
    ASSUME w \in Worlds, NEW n \in Name
    PROVE  Loops(w.mode, n) <=> Circles(n)
<1>1. ASSUME NEW x \in Name, ~Fine(x), Known(x), ~Dark(x)
      PROVE  Blamed(x, Culprit(w.mode, x))
  BY <1>1, BlameExists, CulpritBlamed
<1>2. ASSUME Loops(w.mode, n)
      PROVE  Circles(n)
  <2>1. PICK C \in SUBSET (Name \ Good(w.mode)) :
            /\ n \in C
            /\ \A x \in C : /\ Declared(w.mode, x) /\ ~Unreadable(w.mode, x)
                            /\ Source(w.mode, Culprit(w.mode, x)) = "namespace"
                            /\ Culprit(w.mode, x) \in C
    BY <1>2 DEF Loops
  <2>2. \A x \in C : /\ ~Fine(x) /\ Known(x) /\ ~Dark(x) /\ x \in Name
                     /\ Culprit(w.mode, x) \in C
                     /\ From(Culprit(w.mode, x)) = "namespace"
    BY <2>1 DEF Fine, Known, Dark, From
  <2>3. \A x \in C : Blamed(x, Culprit(w.mode, x))
    BY <1>1, <2>2
  <2> QED
    BY <2>1, <2>2, <2>3 DEF Circles
<1>3. ASSUME Circles(n)
      PROVE  Loops(w.mode, n)
  <2>1. PICK C \in SUBSET Name :
            /\ n \in C
            /\ \A x \in C : /\ ~Fine(x) /\ Known(x) /\ ~Dark(x)
                            /\ \E r \in C : Blamed(x, r) /\ From(r) = "namespace"
    BY <1>3 DEF Circles
  <2>2. \A x \in C : /\ Culprit(w.mode, x) \in C
                     /\ From(Culprit(w.mode, x)) = "namespace"
    BY <2>1, CulpritBlamed
  <2>3. C \subseteq Name \ Good(w.mode)
    BY <2>1 DEF Fine
  <2> QED
    BY <2>1, <2>2, <2>3 DEF Loops, Known, Dark, From
<1> QED
  BY <1>2, <1>3

LEMMA CirclesFixed ==
    ASSUME w' = w
    PROVE  \A n : Circles(n)' <=> Circles(n)
<1>1. \A n, r : Blamed(n, r)' <=> Blamed(n, r)
  BY Fixed DEF Blamed, Settled
<1> QED
  BY <1>1, Fixed DEF Circles

(* A name circles if the reference to blame does.                          *)
LEMMA CirclesPass ==
    ASSUME w \in Worlds, NEW n \in Name, NEW r \in Name,
           ~Fine(n), Known(n), ~Dark(n), Blamed(n, r), From(r) # "os"
    PROVE  Circles(n) <=> Circles(r)
<1>1. ASSUME Circles(n)
      PROVE  Circles(r)
  <2>1. PICK C \in SUBSET Name :
            /\ n \in C
            /\ \A x \in C : /\ ~Fine(x) /\ Known(x) /\ ~Dark(x)
                            /\ \E s \in C : Blamed(x, s) /\ From(s) = "namespace"
    BY <1>1 DEF Circles
  <2>2. r \in C
    BY <2>1, BlamedOnce
  <2> QED
    BY <2>1, <2>2 DEF Circles
<1>2. ASSUME Circles(r)
      PROVE  Circles(n)
  <2>1. PICK C \in SUBSET Name :
            /\ r \in C
            /\ \A x \in C : /\ ~Fine(x) /\ Known(x) /\ ~Dark(x)
                            /\ \E s \in C : Blamed(x, s) /\ From(s) = "namespace"
    BY <1>2 DEF Circles
  <2>2. From(r) = "namespace"
    BY <2>1, Table
  <2> DEFINE D == C \cup {n}
  <2>3. D \in SUBSET Name /\ n \in D
    OBVIOUS
  <2>4. \A x \in D : /\ ~Fine(x) /\ Known(x) /\ ~Dark(x)
                     /\ \E s \in D : Blamed(x, s) /\ From(s) = "namespace"
    BY <2>1, <2>2
  <2> HIDE DEF D
  <2> QED
    BY <2>3, <2>4 DEF Circles
<1> QED
  BY <1>1, <1>2

(* What is below the reference Compose is at has no value if that has none.*)
LEMMA PathBlames ==
    ASSUME IInv, NEW i \in 1..Len(stack), NEW r,
           next[i] \in 1..Len(Text(stack[i])), Text(stack[i])[next[i]] = r,
           From(r) # "os", ~Fine(r)
    PROVE  /\ stack[i] \in Name /\ Known(stack[i]) /\ ~Dark(stack[i])
           /\ ~Fine(stack[i]) /\ Blamed(stack[i], r)
<1>1. /\ w \in Worlds /\ stack[i] \in Name
      /\ Known(stack[i]) /\ ~Dark(stack[i]) /\ ~Opaque(stack[i])
      /\ \A j \in 1..Len(Text(stack[i])) :
             j < next[i] => Settled(Text(stack[i])[j])
  BY DEF IInv, TypeOK, PathOK
<1>2. ~Settled(r)
  BY DEF Settled
<1>3. ~Fine(stack[i])
  BY <1>1, <1>2, Table
<1> QED
  BY <1>1, <1>2, <1>3 DEF Blamed

(* A name met again on the path circles.                                   *)
LEMMA CircleCircles ==
    ASSUME IInv, Circle
    PROVE  Circles(call.key)
<1>1. /\ w \in Worlds /\ stack \in Seq(Name) /\ Len(stack) \in Nat
      /\ call.at = "resolve" /\ call.key \in visiting /\ call.key \in Name
  BY DEF IInv, TypeOK, Circle
<1>2. PICK p \in 1..Len(stack) : call.key = stack[p]
  BY <1>1 DEF IInv, PathOK
<1>3. stack # <<>>
  BY <1>1, <1>2
<1>4. Awaits(call.key) /\ From(call.key) = "namespace" /\ ~Fine(call.key)
  BY <1>1, <1>3, CircleFails DEF IInv, CallOK
<1> DEFINE C == {stack[i] : i \in p..Len(stack)}
<1>5. C \subseteq Name /\ call.key \in C
  BY <1>1, <1>2
<1>6. ASSUME NEW i \in p..Len(stack)
      PROVE  /\ i \in 1..Len(stack) /\ stack[i] \in Name /\ ~Opaque(stack[i])
             /\ \E r \in C : /\ next[i] \in 1..Len(Text(stack[i]))
                             /\ Text(stack[i])[next[i]] = r
                             /\ From(r) = "namespace"
  <2>1. i \in 1..Len(stack) /\ stack[i] \in Name /\ ~Opaque(stack[i])
    BY <1>1, <1>2 DEF IInv, PathOK
  <2>2. CASE i = Len(stack)
    <3>1. Top = stack[i] /\ Pos = next[i]
      BY <1>1, <2>2 DEF Top, Pos, IInv, TypeOK
    <3> QED
      BY <1>4, <1>5, <2>1, <3>1 DEF Awaits
  <2>3. CASE i # Len(stack)
    <3>1. i \in 1..(Len(stack) - 1) /\ i + 1 \in p..Len(stack)
      BY <1>1, <1>2, <2>3
    <3>2. stack[i + 1] \in C
      BY <3>1
    <3> QED
      BY <2>1, <3>1, <3>2 DEF IInv, PathOK
  <2> QED
    BY <2>2, <2>3
<1>7. \A x \in C : ~Fine(x)
  <2>1. ASSUME NEW x \in C
        PROVE  /\ ~Opaque(x)
               /\ \E i \in DOMAIN Refs(w.mode, x) :
                      /\ Refs(w.mode, x)[i] \in C
                      /\ Source(w.mode, Refs(w.mode, x)[i]) # "os"
    <3>1. PICK i \in p..Len(stack) : x = stack[i]
      OBVIOUS
    <3>2. DOMAIN Text(x) = 1..Len(Text(x))
      BY <1>1, <1>6, <3>1, TextType
    <3> QED
      BY <1>6, <3>1, <3>2 DEF Text, From
  <2> HIDE DEF C
  <2>2. C \cap Good(w.mode) = {}
    BY <1>5, <2>1, NoGoodCycle
  <2> QED
    BY <2>2 DEF Fine
<1>8. ASSUME NEW x \in C
      PROVE  /\ ~Fine(x) /\ Known(x) /\ ~Dark(x)
             /\ \E r \in C : Blamed(x, r) /\ From(r) = "namespace"
  <2>1. PICK i \in p..Len(stack) : x = stack[i]
    OBVIOUS
  <2>2. PICK r \in C : /\ next[i] \in 1..Len(Text(x)) /\ Text(x)[next[i]] = r
                       /\ From(r) = "namespace"
    BY <1>6, <2>1
  <2> QED
    BY <1>6, <1>7, <2>1, <2>2, PathBlames
<1> QED
  <2> HIDE DEF C
  <2> QED
    BY <1>5, <1>8 DEF Circles

(* No error is reported of a name as circular but where it circles: one    *)
(* lemma per step that makes an error or passes it on.                     *)

LEMMA EnterError == IInv /\ Enter => ErrorOK'
<1> SUFFICES ASSUME IInv, Enter, call'.at = "error" PROVE ErrorOK'
  BY DEF ErrorOK
<1>1. Dark(call.key) /\ call' = Error(call.key, "value", <<>>) /\ w' = w
  BY DEF Enter, Dark, Value, Composing
<1>2. PICK n : n = call.key
  OBVIOUS
<1>3. ~Circles(n)
  BY <1>1, <1>2 DEF Circles
<1>4. call'.kind = "value" /\ call'.key = n
  BY <1>1, <1>2 DEF Error
<1> QED
  BY <1>1, <1>3, <1>4, CirclesFixed DEF ErrorOK

LEMMA ReferenceError == IInv /\ Reference => ErrorOK'
<1> SUFFICES ASSUME IInv, Reference, call'.at = "error" PROVE ErrorOK'
  BY DEF ErrorOK
<1>1. PICK n : n = Text(Top)[Pos]
  OBVIOUS
<1>2. From(n) = "missing" /\ call' = Error(n, "missing", <<>>) /\ w' = w
  BY <1>1 DEF Reference, From, Text, Resolving
<1>3. n \in Name /\ w \in Worlds
  <2>1. Top \in Name /\ w \in Worlds
    BY DEF IInv, TypeOK, CallOK, Reference, Top
  <2>2. Text(Top) \in Seq(Name)
    BY <2>1, TextType
  <2> QED
    BY <1>1, <2>1, <2>2 DEF Reference, Text
<1>4. ~Circles(n)
  BY <1>2, <1>3, Table DEF Circles
<1>5. call'.kind = "missing" /\ call'.key = n
  BY <1>2 DEF Error
<1> QED
  BY <1>2, <1>4, <1>5, CirclesFixed DEF ErrorOK

LEMMA CircleError == IInv /\ Circle => ErrorOK'
<1> SUFFICES ASSUME IInv, Circle PROVE ErrorOK'
  OBVIOUS
<1>1. PICK n : n = call.key
  OBVIOUS
<1>2. Circles(n)
  BY <1>1, CircleCircles
<1>3. call'.kind = "circular" /\ call'.key = n /\ w' = w
  BY <1>1 DEF Circle, Error
<1> QED
  BY <1>2, <1>3, CirclesFixed DEF ErrorOK

LEMMA UnwindError == IInv /\ ErrorOK /\ Unwind => ErrorOK'
<1> SUFFICES ASSUME IInv, ErrorOK, Unwind PROVE ErrorOK'
  OBVIOUS
<1>1. PICK r, n : r = call.key /\ n = Top
  OBVIOUS
<1>2. /\ call.at = "error" /\ stack # <<>> /\ w' = w
      /\ call'.at = "error" /\ call'.key = n /\ call'.kind = call.kind
  BY <1>1 DEF Unwind, Error
<1>3. /\ w \in Worlds /\ stack \in Seq(Name) /\ Len(next) = Len(stack)
      /\ r \in Name
  BY <1>1, <1>2 DEF IInv, TypeOK
<1>4. Len(stack) \in 1..Len(stack) /\ n = stack[Len(stack)]
      /\ Pos = next[Len(stack)]
  BY <1>1, <1>2, <1>3 DEF Top, Pos
<1>5. Awaits(r) /\ From(r) # "os" /\ ~Fine(r)
  BY <1>1, <1>2 DEF IInv, CallOK
<1>6. /\ n \in Name /\ Known(n) /\ ~Dark(n) /\ ~Fine(n) /\ Blamed(n, r)
  BY <1>1, <1>4, <1>5, PathBlames DEF Awaits
<1>7. Circles(n) <=> Circles(r)
  BY <1>3, <1>5, <1>6, CirclesPass
<1> QED
  BY <1>1, <1>2, <1>7, CirclesFixed DEF ErrorOK

(* What the table means for a key, whether it is declared or not.          *)
Verdict(k) ==
    IF Fine(k) THEN "ok" ELSE IF Circles(k) THEN "circular" ELSE "unresolved"

VerdictsOK ==
    ~Explains => \A k \in Name : answer[k] # "none" => answer[k] = Verdict(k)

LEMMA VerdictFate ==
    ASSUME w \in Worlds, NEW k \in Name
    PROVE  Verdict(k) = IF Known(k) THEN Fate(w.mode, k) ELSE "unresolved"
<1>1. Fine(k) => Known(k)
  BY Table
<1>2. Circles(k) => Known(k)
  BY DEF Circles
<1>3. Loops(w.mode, k) <=> Circles(k)
  BY CirclesLoops
<1> QED
  BY <1>1, <1>2, <1>3 DEF Verdict, Fate, Fine

LEMMA VerdictFixed ==
    ASSUME w' = w
    PROVE  \A k : Verdict(k)' = Verdict(k)
  BY Fixed, CirclesFixed DEF Verdict

LEMMA VerdictsSame ==
    ASSUME VerdictsOK, UNCHANGED <<w, answer>>
    PROVE  VerdictsOK'
  BY Fixed, VerdictFixed DEF VerdictsOK

LEMMA AnswerStep ==
    ASSUME IInv, ErrorOK, VerdictsOK, [Next]_vars
    PROVE  VerdictsOK'
<1>1. CASE Materialize
  <2> DEFINE failed == {n \in Selected(w.mode) : Unreadable(w.mode, n)}
  <2>1. /\ answer' = [n \in Name |-> IF n \in failed THEN "unresolved" ELSE "none"]
        /\ w' = w /\ w \in Worlds
    BY <1>1 DEF Materialize, IInv, TypeOK
  <2>2. ASSUME NEW k \in Name, k \in failed
        PROVE  Verdict(k) = "unresolved"
    <3>1. Dark(k)
      BY <2>2 DEF Dark
    <3>2. ~Fine(k) /\ ~Circles(k)
      BY <2>1, <3>1, Table DEF Circles
    <3> QED
      BY <3>2 DEF Verdict
  <2> HIDE DEF failed
  <2> QED
    BY <2>1, <2>2, VerdictFixed DEF VerdictsOK
<1>2. CASE Succeed
  <2>1. PICK k : k = call.key
    OBVIOUS
  <2>2. /\ w' = w /\ answer' = [answer EXCEPT ![k] = "ok"]
        /\ answer \in [Name -> {"none", "ok", "circular", "unresolved"}]
    BY <1>2, <2>1 DEF Succeed, IInv, TypeOK
  <2>3. Verdict(k) = "ok"
    BY <1>2, <2>1 DEF Succeed, IInv, CallOK, Verdict
  <2> QED
    BY <2>2, <2>3, Fixed, VerdictFixed DEF VerdictsOK
<1>3. CASE Fail
  <2>1. PICK k, a : /\ k = call.key
                    /\ a = IF call.kind = "circular" THEN "circular" ELSE "unresolved"
    OBVIOUS
  <2>2. /\ w' = w /\ answer' = [answer EXCEPT ![k] = a]
        /\ answer \in [Name -> {"none", "ok", "circular", "unresolved"}]
    BY <1>3, <2>1 DEF Fail, IInv, TypeOK
  <2>3. ~Fine(k) /\ (call.kind = "circular" <=> Circles(k))
    BY <1>3, <2>1 DEF Fail, IInv, CallOK, ErrorOK
  <2>4. Verdict(k) = a
    BY <2>1, <2>3 DEF Verdict
  <2> QED
    BY <2>2, <2>4, Fixed, VerdictFixed DEF VerdictsOK
<1>4. CASE \E k \in Name : Diagnose(k)
  <2>1. Explains /\ w' = w
    BY <1>4 DEF Diagnose
  <2> QED
    BY <2>1, Fixed DEF VerdictsOK
<1>5. CASE UNCHANGED <<w, answer>>
  BY <1>5, VerdictsSame
<1>6. \/ UNCHANGED <<w, answer>>
      \/ Materialize \/ Succeed \/ Fail \/ \E k \in Name : Diagnose(k)
  BY DEF Next, vars, Request, Ask, Hit, Circle, Enter, Reference, Receive,
         Composes, Unwind, Finish
<1> QED
  BY <1>1, <1>2, <1>3, <1>4, <1>5, <1>6

LEMMA ErrorStep ==
    ASSUME IInv, ErrorOK, [Next]_vars
    PROVE  ErrorOK'
<1>1. CASE call'.at # "error"
  BY <1>1 DEF ErrorOK
<1>2. CASE UNCHANGED <<w, call>>
  <2>1. \A n : Circles(n)' <=> Circles(n)
    BY <1>2, CirclesFixed
  <2>2. PICK n : n = call.key
    OBVIOUS
  <2> QED
    BY <1>2, <2>1, <2>2 DEF ErrorOK
<1>3. \/ UNCHANGED <<w, call>>
      \/ Enter \/ Reference \/ Circle \/ Unwind
      \/ call'.at # "error"
  <2>1. CASE UNCHANGED vars \/ Materialize \/ Request \/ Finish
             \/ \E k \in Name : Diagnose(k)
    BY <2>1 DEF vars, Materialize, Request, Finish, Diagnose
  <2>2. CASE \/ Hit \/ Receive \/ Composes \/ Succeed \/ Fail
             \/ \E k \in Name : Ask(k)
    BY <2>2 DEF Hit, Receive, Composes, Succeed, Fail, Ask, Value, Composing,
                Idle, Resolving
  <2> QED
    BY <2>1, <2>2 DEF Next
<1> QED
  BY <1>1, <1>2, <1>3, EnterError, ReferenceError, CircleError, UnwindError

(* What the engine says of a key is its fate in the table: a value exactly *)
(* if everything it needs has one, a cycle exactly if composing it would   *)
(* never end, whatever was asked before and however that ended             *)
(* (substitute.go:161-204).                                                *)
THEOREM OutcomeIsFate == Spec => []OutcomeExact
<1>1. Init => ErrorOK /\ VerdictsOK
  BY DEF Init, Idle, ErrorOK, VerdictsOK
<1>2. IInv /\ ErrorOK /\ VerdictsOK /\ [Next]_vars => ErrorOK' /\ VerdictsOK'
  BY ErrorStep, AnswerStep
<1>3. IInv /\ VerdictsOK => OutcomeExact
  BY VerdictFate DEF IInv, TypeOK, VerdictsOK, OutcomeExact, Known
<1> QED
  BY <1>1, <1>2, <1>3, Invariance, PTL DEF Spec

-----------------------------------------------------------------------------
(* What is read.                                                           *)

(* What a command that reads on demand needs for the keys that it composes.*)
Fetching == Needed(w.mode, Asked \ Itself)

(* What the resolver was given: by a row of explain that is through, and   *)
(* by the engine for what it memoised, which is needed, as is all that is  *)
(* on its way to be read; or all of it by materialisation.                 *)
LazyOK ==
    /\ todo \subseteq Asked
    /\ raw \cup visiting \subseteq Fetching
    /\ call.at = "resolve" => call.key \in Fetching
    /\ \A n \in Name :
           reads[n] <= Once(n \in Itself \ todo)
                       + Once(n \in raw /\ ~Masked(w.mode, n))

ReadsOK ==
    /\ phase = "start" =>
           todo = {} /\ raw = {} /\ \A n \in Name : reads[n] = 0
    /\ Eager(w.mode) =>
           \A n \in Name : reads[n] <= Once(phase # "start" /\ n \in Selected(w.mode))
    /\ ~Eager(w.mode) => LazyOK

LEMMA NeededFacts ==
    ASSUME NEW K \in SUBSET Name
    PROVE  /\ K \subseteq Needed(w.mode, K)
           /\ \A a \in Needed(w.mode, K), b \in Name :
                  ~Opaque(a) /\ Edge(w.mode, a, b) /\ From(b) = "namespace"
                      => b \in Needed(w.mode, K)
  BY DEF Needed, From

LEMMA AskedFixed ==
    ASSUME w' = w
    PROVE  /\ Asked' = Asked /\ Itself' = Itself /\ Fetching' = Fetching
           /\ Selected(w.mode)' = Selected(w.mode)
           /\ \A n : Masked(w.mode, n)' = Masked(w.mode, n)
<1>1. Selected(w.mode)' = Selected(w.mode)
  BY DEF Selected, Namespace
<1>2. Asked' = Asked
  BY <1>1 DEF Asked
<1>3. \A n : Literal(n)' = Literal(n)
  BY Fixed DEF Literal
<1>4. Itself' = Itself
  BY <1>2, <1>3, Fixed DEF Itself
<1>5. \A a, b : Edge(w.mode, a, b)' <=> Edge(w.mode, a, b)
  BY DEF Edge, Refs, Masked
<1>6. \A n : /\ Opaque(n)' <=> Opaque(n)
             /\ Source(w.mode, n)' = Source(w.mode, n)
  BY Fixed DEF From
<1>7. (Asked \ Itself)' = Asked \ Itself
  BY <1>2, <1>4
<1>8. \A n : n \in Fetching' <=> n \in Fetching
  BY <1>5, <1>6, <1>7 DEF Fetching, Needed
<1>9. Fetching \subseteq Name /\ Fetching' \subseteq Name
  BY DEF Fetching, Needed
<1>10. Fetching' = Fetching
  BY <1>8, <1>9
<1> QED
  BY <1>1, <1>2, <1>4, <1>10 DEF Masked

LEMMA AskedType ==
    ASSUME w \in Worlds
    PROVE  Asked \subseteq Name /\ Itself \subseteq Asked
<1>1. Selected(w.mode) \subseteq Name
  BY SelectedType
<1>2. w.key \in {{}} \cup {{n} : n \in Name}
  BY WorldTyped DEF WorldType
<1> QED
  BY <1>1, <1>2 DEF Asked, Itself

LEMMA WorldStays == ASSUME [Next]_vars PROVE w' = w
  BY DEF Next, vars, Materialize, Request, Ask, Diagnose, Hit, Circle, Enter,
         Reference, Receive, Composes, Unwind, Succeed, Fail, Finish

(* Every step of a command that reads on demand reads along the references *)
(* of what it composes, and counts what it reads.                          *)
LEMMA LazyStep ==
    ASSUME IInv, ReadsOK, ~Eager(w.mode), [Next]_vars
    PROVE  LazyOK'
<1>1. /\ w' = w /\ Asked' = Asked /\ Itself' = Itself /\ Fetching' = Fetching
      /\ \A n : Masked(w.mode, n)' = Masked(w.mode, n)
  BY WorldStays, AskedFixed
<1>2. /\ todo \subseteq Asked /\ raw \subseteq Fetching /\ visiting \subseteq Fetching
      /\ call.at = "resolve" => call.key \in Fetching
      /\ \A n \in Name :
             reads[n] <= Once(n \in Itself \ todo)
                         + Once(n \in raw /\ ~Masked(w.mode, n))
  BY DEF ReadsOK, LazyOK
<1>3. w \in Worlds /\ reads \in [Name -> Nat] /\ todo \subseteq Name
  BY DEF IInv, TypeOK
<1>4. Asked \subseteq Name /\ Itself \subseteq Asked
  BY <1>3, AskedType
<1>5. /\ Asked \ Itself \subseteq Fetching
      /\ \A a \in Fetching, b \in Name :
             ~Opaque(a) /\ Edge(w.mode, a, b) /\ From(b) = "namespace"
                 => b \in Fetching
  BY <1>4, NeededFacts DEF Fetching
<1>6. ASSUME UNCHANGED <<todo, raw, reads>>, visiting' \subseteq visiting,
             call'.at # "resolve"
      PROVE  LazyOK'
  BY <1>1, <1>2, <1>6 DEF LazyOK
<1>7. CASE Request
  <2>1. /\ phase = "start" /\ todo' \in {Asked, todo} /\ UNCHANGED <<raw, reads, visiting, call>>
    BY <1>7 DEF Request, engine, path
  <2>2. call.at = "idle" /\ raw = {} /\ \A n \in Name : reads[n] = 0
    BY <2>1 DEF ReadsOK, IInv, CommandOK
  <2>3. \A n \in Name : reads'[n] = 0
    BY <2>1, <2>2
  <2>4. \A n \in Name :
            0 <= Once(n \in Itself \ todo') + Once(n \in raw' /\ ~Masked(w.mode, n))
    BY DEF Once
  <2> QED
    BY <1>1, <1>2, <2>1, <2>2, <2>3, <2>4 DEF LazyOK
<1>8. ASSUME NEW k \in Name, Ask(k) PROVE LazyOK'
  <2>1. /\ k \in todo /\ todo' = todo \ {k} /\ ~(Explains /\ Literal(k))
        /\ call'.key = k /\ UNCHANGED <<raw, reads, visiting>>
    BY <1>8 DEF Ask, Resolving, engine, path
  <2>2. k \in Asked \ Itself
    BY <1>2, <2>1 DEF Itself
  <2>3. Itself \ todo' = Itself \ todo
    BY <2>1, <2>2
  <2>4. k \in Fetching
    BY <1>5, <2>2
  <2> QED
    BY <1>1, <1>2, <2>1, <2>3, <2>4 DEF LazyOK
<1>9. ASSUME NEW k \in Name, Diagnose(k) PROVE LazyOK'
  <2>1. /\ k \in todo /\ todo' = todo \ {k} /\ Explains /\ Literal(k)
        /\ call.at = "idle" /\ UNCHANGED <<raw, visiting, call>>
        /\ reads' = IF Opaque(k) THEN reads ELSE [reads EXCEPT ![k] = @ + 1]
    BY <1>9 DEF Diagnose, path
  <2>2. k \in Itself
    BY <1>2, <2>1 DEF Itself
  <2>3. ASSUME NEW n \in Name
        PROVE  reads'[n] <= Once(n \in Itself \ todo')
                            + Once(n \in raw /\ ~Masked(w.mode, n))
    <3>1. reads[n] \in Nat /\ reads[n] <= Once(n \in Itself \ todo)
                                         + Once(n \in raw /\ ~Masked(w.mode, n))
      BY <1>2, <1>3
    <3>2. \/ reads'[n] = reads[n]
          \/ n = k /\ reads'[n] = reads[n] + 1
      BY <1>3, <2>1
    <3>3. n \in Itself \ todo' <=> n = k \/ n \in Itself \ todo
      BY <2>1, <2>2
    <3>4. k \notin Itself \ todo
      BY <2>1
    <3> QED
      BY <3>1, <3>2, <3>3, <3>4 DEF Once
  <2> QED
    BY <1>1, <1>2, <2>1, <2>3 DEF LazyOK
<1>10. CASE Enter
  <2>1. PICK k : k = call.key
    OBVIOUS
  <2>2. /\ call.at = "resolve" /\ raw' = raw \cup {k} /\ todo' = todo
        /\ visiting' \subseteq visiting \cup {k} /\ call'.at # "resolve"
        /\ reads' = IF k \notin raw /\ Lazy(k) THEN [reads EXCEPT ![k] = @ + 1]
                    ELSE reads
    BY <1>10, <2>1 DEF Enter, RawValue, path, Error, Value, Composing
  <2>3. k \in Fetching
    BY <1>2, <2>1, <2>2
  <2>4. ASSUME NEW n \in Name
        PROVE  reads'[n] <= Once(n \in Itself \ todo)
                            + Once(n \in raw' /\ ~Masked(w.mode, n))
    <3>1. reads[n] \in Nat /\ reads[n] <= Once(n \in Itself \ todo)
                                         + Once(n \in raw /\ ~Masked(w.mode, n))
      BY <1>2, <1>3
    <3>2. \/ reads'[n] = reads[n]
          \/ /\ n = k /\ n \notin raw /\ ~Masked(w.mode, n)
             /\ reads'[n] = reads[n] + 1
      BY <1>3, <2>2 DEF Lazy
    <3> QED
      BY <2>2, <3>1, <3>2 DEF Once
  <2> QED
    BY <1>1, <1>2, <2>2, <2>3, <2>4 DEF LazyOK
<1>11. CASE Reference
  <2>1. PICK n : n = Text(Top)[Pos]
    OBVIOUS
  <2>2. /\ call.at = "compose" /\ stack # <<>>
        /\ stack \in Seq(Name) /\ Len(stack) \in 1..Len(stack)
        /\ UNCHANGED <<todo, raw, reads, visiting>> /\ Pos \in DOMAIN Text(Top)
    BY <1>11 DEF Reference, IInv, TypeOK, CallOK, Text
  <2>3. Top \in Name /\ Top \in visiting /\ ~Opaque(Top)
    BY <2>2 DEF Top, IInv, PathOK
  <2>4. n \in Name
    BY <1>3, <2>1, <2>2, <2>3, TextType
  <2>5. Edge(w.mode, Top, n)
    BY <2>1, <2>2 DEF Edge, Text
  <2>6. From(n) = "namespace" => n \in Fetching
    BY <1>2, <1>5, <2>3, <2>4, <2>5
  <2>7. call'.at = "resolve" => From(n) = "namespace" /\ call'.key = n
    BY <2>1, <2>2, <1>11 DEF Reference, From, Text, Resolving, Error
  <2> QED
    BY <1>1, <1>2, <2>2, <2>6, <2>7 DEF LazyOK
<1>12. CASE UNCHANGED vars
  BY <1>1, <1>2, <1>12 DEF vars, engine, path, LazyOK
<1>13. CASE \/ Hit \/ Circle \/ Receive \/ Composes \/ Unwind \/ Succeed \/ Fail
            \/ Finish
  <2>1. /\ UNCHANGED <<todo, raw, reads>> /\ visiting' \subseteq visiting
        /\ call'.at # "resolve"
    BY <1>13 DEF Hit, Circle, Receive, Composes, Unwind, Succeed, Fail, Finish,
                 engine, path, Value, Error, Composing, Idle, Leave
  <2> QED
    BY <1>6, <2>1
<1>14. ~Materialize
  BY DEF Materialize
<1> QED
  BY <1>7, <1>8, <1>9, <1>10, <1>11, <1>12, <1>13, <1>14 DEF Next

(* Materialisation reads every selected variable once; what is composed of *)
(* them then comes from what it kept.                                      *)
LEMMA EagerStep ==
    ASSUME IInv, ReadsOK, Eager(w.mode), [Next]_vars
    PROVE  (\A n \in Name : reads[n] <= Once(phase # "start" /\ n \in Selected(w.mode)))'
<1>1. w' = w /\ Selected(w.mode)' = Selected(w.mode)
  BY WorldStays, AskedFixed
<1>2. \A n \in Name : reads[n] <= Once(phase # "start" /\ n \in Selected(w.mode))
  BY DEF ReadsOK
<1>3. CASE Materialize
  <2>1. /\ phase' # "start"
        /\ reads' = [n \in Name |->
               IF n \in Selected(w.mode) /\ ~Opaque(n) THEN 1 ELSE 0]
    BY <1>3 DEF Materialize
  <2> QED
    BY <1>1, <2>1 DEF Once
<1>4. CASE reads' = reads /\ (phase' = "start" => phase = "start")
  <2>1. reads \in [Name -> Nat]
    BY DEF IInv, TypeOK
  <2> QED
    BY <1>1, <1>2, <1>4, <2>1 DEF Once
<1>5. CASE Enter
  BY <1>4, <1>5 DEF Enter, RawValue, Lazy
<1>6. CASE UNCHANGED vars
  BY <1>4, <1>6 DEF vars, engine
<1>7. ~Request /\ \A k \in Name : ~Diagnose(k)
  BY DEF Request, Diagnose, Explains, Eager
<1>8. CASE \/ Hit \/ Circle \/ Reference \/ Receive \/ Composes \/ Unwind
           \/ Succeed \/ Fail \/ Finish \/ \E k \in Name : Ask(k)
  BY <1>4, <1>8 DEF Hit, Circle, Reference, Receive, Composes, Unwind, Succeed,
                    Fail, Finish, Ask, engine
<1> QED
  BY <1>3, <1>5, <1>6, <1>7, <1>8 DEF Next

LEMMA ReadsStep ==
    ASSUME IInv, ReadsOK, [Next]_vars
    PROVE  ReadsOK'
<1>1. w' = w
  BY WorldStays
<1>2. (~Eager(w.mode) => LazyOK)'
  BY <1>1, LazyStep
<1>3. (Eager(w.mode) => \A n \in Name :
           reads[n] <= Once(phase # "start" /\ n \in Selected(w.mode)))'
  BY <1>1, EagerStep
<1>4. ASSUME phase' = "start"
      PROVE  UNCHANGED <<phase, todo, raw, reads>>
  <2>1. phase = "start" => call.at = "idle"
    BY DEF IInv, CommandOK
  <2>2. CASE phase # "start"
    BY <1>4, <2>2 DEF Next, vars, Materialize, Request, Ask, Diagnose, Hit,
       Circle, Enter, Reference, Receive, Composes, Unwind, Succeed, Fail, Finish
  <2>3. CASE phase = "start"
    BY <1>4, <2>1, <2>3 DEF Next, vars, engine, Materialize, Request, Ask,
       Diagnose, Hit, Circle, Enter, Reference, Receive, Composes, Unwind,
       Succeed, Fail, Finish
  <2> QED
    BY <2>2, <2>3
<1>5. (phase = "start" =>
           todo = {} /\ raw = {} /\ \A n \in Name : reads[n] = 0)'
  BY <1>4 DEF ReadsOK
<1> QED
  BY <1>2, <1>3, <1>5 DEF ReadsOK

(* run and diff give the resolver every selected variable once; get and    *)
(* explain only what the keys asked for need, each variable at most once   *)
(* to compose them all and once more for its own row of explain, whatever  *)
(* the references and wherever composing fails (substitute.go:146-155,     *)
(* :228-231; explain.go:200-214, :308).                                    *)
THEOREM ReadsNarrow == Spec => []ReadNarrowly
<1>1. Init => ReadsOK
  <2> SUFFICES ASSUME Init PROVE ReadsOK
    OBVIOUS
  <2>1. /\ todo = {} /\ raw = {} /\ visiting = {} /\ call.at = "idle"
        /\ \A n \in Name : reads[n] = 0
    BY DEF Init, Idle
  <2> QED
    BY <2>1 DEF ReadsOK, LazyOK, Once
<1>2. IInv /\ ReadsOK /\ [Next]_vars => ReadsOK'
  BY ReadsStep
<1>3. IInv /\ ReadsOK => ReadNarrowly
  <2> SUFFICES ASSUME IInv, ReadsOK, NEW n \in Name
               PROVE  reads[n] <= IF Eager(w.mode) THEN Once(n \in Selected(w.mode))
                                  ELSE Once(n \in Itself)
                                       + Once(n \in Fetching /\ ~Masked(w.mode, n))
    BY DEF ReadNarrowly, Fetching
  <2>1. reads[n] \in Nat
    BY DEF IInv, TypeOK
  <2>2. CASE Eager(w.mode)
    BY <2>1, <2>2 DEF ReadsOK, Once
  <2>3. CASE ~Eager(w.mode)
    <3>1. /\ raw \subseteq Fetching
          /\ reads[n] <= Once(n \in Itself \ todo)
                         + Once(n \in raw /\ ~Masked(w.mode, n))
      BY <2>3 DEF ReadsOK, LazyOK
    <3> QED
      BY <2>1, <2>3, <3>1 DEF Once
  <2> QED
    BY <2>2, <2>3
<1> QED
  BY <1>1, <1>2, <1>3, Invariance, PTL DEF Spec

-----------------------------------------------------------------------------
(* What values are made of.                                                *)

(* What a reference to r puts into a value.                                *)
PartOf(r) == IF From(r) = "os" THEN OsValue(r) ELSE cache[r]
Cached(r) == From(r) = "os" \/ r \in DOMAIN cache

Held == {OsValue(n) : n \in Name} \cup {cache[n] : n \in DOMAIN cache}

(* parts are those of the first references in the text of n.               *)
PartsOK(n, parts) ==
    /\ Len(parts) <= Len(Text(n))
    /\ \A j \in 1..Len(parts) :
           Cached(Text(n)[j]) /\ parts[j] = PartOf(Text(n)[j])

(* Compose has the parts of the references it is past; a name on the path  *)
(* is not cached before it has left it.                                    *)
BuiltOK ==
    /\ built \in Seq(Seq(Held))
    /\ Len(built) = Len(stack)
    /\ \A i \in 1..Len(stack) :
           /\ Len(built[i]) + 1 = next[i]
           /\ PartsOK(stack[i], built[i])
           /\ stack[i] \notin DOMAIN cache

(* A cached value is made of cached values, one per reference.             *)
Whole(n) ==
    \E parts \in Seq(Held) : /\ cache[n] = Composed(n, parts)
                             /\ Len(parts) = Len(Text(n))
                             /\ PartsOK(n, parts)

WholeOK == \A n \in DOMAIN cache : ~Opaque(n) => Whole(n)

(* What Resolve returns is in the cache.                                   *)
ValueOK ==
    call.at = "value" =>
        call.key \in DOMAIN cache /\ call.value = cache[call.key]

ValuesOK == BuiltOK /\ WholeOK /\ ValueOK

(* The cache only grows.                                                   *)
Grows ==
    /\ w' = w
    /\ \A n \in DOMAIN cache : n \in DOMAIN cache' /\ cache'[n] = cache[n]

LEMMA SeqMonotone ==
    ASSUME NEW S, NEW T, S \subseteq T
    PROVE  Seq(S) \subseteq Seq(T) /\ Seq(Seq(S)) \subseteq Seq(Seq(T))
<1>1. \A A, B : A \subseteq B => Seq(A) \subseteq Seq(B)
  <2> SUFFICES ASSUME NEW A, NEW B, A \subseteq B, NEW s \in Seq(A)
               PROVE  s \in Seq(B)
    OBVIOUS
  <2>1. \A i \in 1..Len(s) : s[i] \in B
    OBVIOUS
  <2> QED
    BY <2>1
<1> QED
  BY <1>1

LEMMA Grown ==
    ASSUME Grows
    PROVE  /\ Held \subseteq Held'
           /\ \A n, parts : PartsOK(n, parts) => PartsOK(n, parts)'
<1>1. Held \subseteq Held'
  BY DEF Grows, Held
<1>2. \A r : Cached(r) => Cached(r)' /\ PartOf(r)' = PartOf(r)
  BY Fixed DEF Grows, Cached, PartOf
<1> QED
  BY <1>1, <1>2, Fixed DEF Grows, PartsOK

LEMMA WholeGrows ==
    ASSUME Grows, NEW n \in DOMAIN cache, Whole(n)
    PROVE  Whole(n)'
<1>1. PICK parts \in Seq(Held) : /\ cache[n] = Composed(n, parts)
                                 /\ Len(parts) = Len(Text(n))
                                 /\ PartsOK(n, parts)
  BY DEF Whole
<1>2. parts \in Seq(Held)'
  BY Grown, SeqMonotone
<1>3. PartsOK(n, parts)' /\ Text(n)' = Text(n)
  BY <1>1, Grown, Fixed DEF Grows
<1>4. cache'[n] = Composed(n, parts)
  BY <1>1 DEF Grows
<1> QED
  BY <1>1, <1>2, <1>3, <1>4 DEF Whole, Composed

LEMMA WholeSame ==
    ASSUME WholeOK, UNCHANGED <<w, cache>>
    PROVE  WholeOK'
<1>1. Grows
  BY DEF Grows
<1> QED
  BY <1>1, WholeGrows, Fixed DEF WholeOK

LEMMA BuiltGrows ==
    ASSUME BuiltOK, Grows, UNCHANGED <<stack, next, built>>,
           \A i \in 1..Len(stack) : stack[i] \notin DOMAIN cache'
    PROVE  BuiltOK'
<1>1. built \in Seq(Seq(Held)')
  BY Grown, SeqMonotone DEF BuiltOK
<1> QED
  BY <1>1, Grown DEF BuiltOK

LEMMA BuiltSame ==
    ASSUME BuiltOK, UNCHANGED <<w, cache, stack, next, built>>
    PROVE  BuiltOK'
<1>1. Grows
  BY DEF Grows
<1> QED
  BY <1>1, BuiltGrows DEF BuiltOK

LEMMA BuiltAdvance ==
    ASSUME IInv, BuiltOK, stack # <<>>, UNCHANGED <<w, cache, stack>>,
           NEW r, NEW v \in Held, Advance(v),
           Awaits(r), Cached(r), v = PartOf(r)
    PROVE  BuiltOK'
<1> DEFINE top == Len(stack)
<1>1. /\ w \in Worlds /\ stack \in Seq(Name) /\ next \in Seq(Nat \ {0})
      /\ top \in Nat \ {0} /\ Len(next) = top /\ next # <<>>
      /\ built \in Seq(Seq(Held)) /\ Len(built) = top /\ built # <<>>
      /\ top \in 1..top
  BY DEF IInv, TypeOK, BuiltOK
<1>2. /\ Pop(next) \in Seq(Nat \ {0}) /\ Len(Pop(next)) = top - 1
      /\ \A i \in 1..(top - 1) : Pop(next)[i] = next[i]
  BY <1>1, PopFacts
<1>3. /\ Pop(built) \in Seq(Seq(Held)) /\ Len(Pop(built)) = top - 1
      /\ \A i \in 1..(top - 1) : Pop(built)[i] = built[i]
  BY <1>1, PopFacts
<1>4. /\ Pos = next[top] /\ Parts = built[top] /\ Top = stack[top]
      /\ Pos \in Nat \ {0} /\ Parts \in Seq(Held)
  BY <1>1 DEF Pos, Parts, Top
<1>5. PICK parts : parts = Append(Parts, v)
  OBVIOUS
<1>6. /\ parts \in Seq(Held) /\ Len(parts) = Len(Parts) + 1
      /\ parts[Len(Parts) + 1] = v
      /\ \A j \in 1..Len(Parts) : parts[j] = Parts[j]
  BY <1>4, <1>5, AppendFacts
<1>7. /\ Len(next') = top - 1 + 1 /\ next'[top - 1 + 1] = Pos + 1
      /\ \A i \in 1..(top - 1) : next'[i] = Pop(next)[i]
  <2>1. Pos + 1 \in Nat \ {0}
    BY <1>4
  <2> QED
    BY <1>2, <2>1, AppendFacts DEF Advance
<1>8. /\ built' \in Seq(Seq(Held)) /\ Len(built') = top - 1 + 1
      /\ built'[top - 1 + 1] = parts
      /\ \A i \in 1..(top - 1) : built'[i] = Pop(built)[i]
  BY <1>3, <1>5, <1>6, AppendFacts DEF Advance
<1>9. Len(Parts) + 1 = Pos /\ PartsOK(Top, Parts) /\ Len(Parts) \in Nat
  BY <1>1, <1>4 DEF BuiltOK
<1>10. PartsOK(Top, parts)
  <2>1. Text(Top) \in Seq(Name) /\ Len(Text(Top)) \in Nat
    BY <1>1, <1>4, TextType
  <2>2. Pos \in 1..Len(Text(Top)) /\ Text(Top)[Pos] = r
    BY DEF Awaits
  <2>3. Len(parts) = Pos /\ parts[Pos] = v
    BY <1>6, <1>9
  <2>4. \A j \in 1..Pos : j # Pos => j \in 1..Len(Parts)
    BY <1>9
  <2> QED
    BY <1>6, <1>9, <2>1, <2>2, <2>3, <2>4 DEF PartsOK
<1>11. Grows
  BY DEF Grows
<1>12. built' \in Seq(Seq(Held))' /\ Len(built') = Len(stack')
  <2>1. Held' = Held
    BY DEF Held
  <2> QED
    BY <1>1, <1>8, <2>1
<1>13. ASSUME NEW i \in 1..top
       PROVE  /\ Len(built'[i]) + 1 = next'[i]
              /\ PartsOK(stack[i], built'[i])
              /\ stack[i] \notin DOMAIN cache
  <2>1. CASE i = top
    <3>1. built'[i] = parts /\ next'[i] = Pos + 1
      BY <1>1, <1>7, <1>8, <2>1
    <3>2. Len(parts) + 1 = Pos + 1
      BY <1>6, <1>9
    <3>3. stack[i] = Top
      BY <1>4, <2>1
    <3>4. stack[i] \notin DOMAIN cache
      BY <1>1 DEF BuiltOK
    <3> QED
      BY <1>10, <3>1, <3>2, <3>3, <3>4
  <2>2. CASE i # top
    <3>1. i \in 1..(top - 1)
      BY <1>1, <2>2
    <3>2. built'[i] = built[i] /\ next'[i] = next[i]
      BY <1>2, <1>3, <1>7, <1>8, <3>1
    <3> QED
      BY <3>2 DEF BuiltOK
  <2> QED
    BY <2>1, <2>2
<1> QED
  BY <1>11, <1>12, <1>13, Grown DEF BuiltOK

LEMMA BuiltPop ==
    ASSUME IInv, BuiltOK, stack # <<>>, Leave, Grows,
           \A n \in DOMAIN cache' : n \in DOMAIN cache \/ n = Top
    PROVE  BuiltOK'
<1> DEFINE top == Len(stack)
<1>1. /\ stack \in Seq(Name) /\ next \in Seq(Nat \ {0})
      /\ top \in Nat \ {0} /\ Len(next) = top /\ next # <<>>
      /\ built \in Seq(Seq(Held)) /\ Len(built) = top /\ built # <<>>
      /\ Top = stack[top]
  BY DEF IInv, TypeOK, BuiltOK, Top
<1>2. /\ Len(stack') = top - 1 /\ \A i \in 1..(top - 1) : stack'[i] = stack[i]
  BY <1>1, PopFacts DEF Leave
<1>3. \A i \in 1..(top - 1) : next'[i] = next[i]
  BY <1>1, PopFacts DEF Leave
<1>4. /\ built' \in Seq(Seq(Held)) /\ Len(built') = top - 1
      /\ \A i \in 1..(top - 1) : built'[i] = built[i]
  BY <1>1, PopFacts DEF Leave
<1>5. built' \in Seq(Seq(Held)')
  BY <1>4, Grown, SeqMonotone
<1>6. ASSUME NEW i \in 1..(top - 1)
      PROVE  /\ Len(built'[i]) + 1 = next'[i]
             /\ PartsOK(stack[i], built[i])'
             /\ stack'[i] \notin DOMAIN cache'
  <2>1. i \in 1..top /\ top \in 1..top /\ i # top
    BY <1>1
  <2>2. /\ Len(built[i]) + 1 = next[i]
        /\ PartsOK(stack[i], built[i])
        /\ stack[i] \notin DOMAIN cache
    BY <2>1 DEF BuiltOK
  <2>3. stack[i] # Top
    BY <1>1, <2>1 DEF IInv, PathOK
  <2> QED
    BY <1>2, <1>3, <1>4, <2>2, <2>3, Grown
<1> QED
  BY <1>2, <1>4, <1>5, <1>6 DEF BuiltOK

LEMMA TopUncached ==
    ASSUME IInv, BuiltOK, stack # <<>>
    PROVE  /\ w \in Worlds /\ Top \in Name /\ Top \notin DOMAIN cache /\ ~Opaque(Top)
           /\ Parts \in Seq(Held) /\ PartsOK(Top, Parts)
           /\ Len(Parts) + 1 = Pos /\ Pos \in Nat \ {0}
<1>1. /\ stack \in Seq(Name) /\ Len(stack) \in 1..Len(stack) /\ w \in Worlds
      /\ Len(next) = Len(stack) /\ Len(built) = Len(stack)
      /\ next \in Seq(Nat \ {0}) /\ built \in Seq(Seq(Held))
  BY DEF IInv, TypeOK, BuiltOK
<1>2. Top = stack[Len(stack)] /\ Pos = next[Len(stack)]
      /\ Parts = built[Len(stack)]
  BY <1>1 DEF Top, Pos, Parts
<1> QED
  BY <1>1, <1>2 DEF BuiltOK, IInv, PathOK

LEMMA CacheGrows ==
    ASSUME IInv, BuiltOK, [Next]_vars
    PROVE  Grows
<1>1. CASE Enter
  <2>1. w' = w /\ call.key \notin DOMAIN cache
        /\ \/ cache' = cache
           \/ cache' = With(cache, call.key, OsValue(call.key))
    BY <1>1 DEF Enter
  <2> QED
    BY <2>1 DEF Grows, With
<1>2. CASE Composes
  <2>1. w' = w /\ stack # <<>> /\ cache' = With(cache, Top, Composed(Top, Parts))
    BY <1>2 DEF Composes, IInv, CallOK
  <2> QED
    BY <2>1, TopUncached DEF Grows, With
<1>3. CASE UNCHANGED <<w, cache>>
  BY <1>3 DEF Grows
<1>4. Enter \/ Composes \/ UNCHANGED <<w, cache>>
  BY DEF Next, vars, engine, Materialize, Request, Ask, Diagnose, Hit, Circle,
         Reference, Receive, Unwind, Succeed, Fail, Finish
<1> QED
  BY <1>1, <1>2, <1>3, <1>4

LEMMA EnterValues == IInv /\ ValuesOK /\ Enter => ValuesOK'
<1> SUFFICES ASSUME IInv, ValuesOK, Enter PROVE ValuesOK'
  OBVIOUS
<1>0. PICK n : n = call.key
  OBVIOUS
<1>1. /\ call.at = "resolve" /\ n \in Name /\ n \notin visiting /\ w' = w
      /\ n \notin DOMAIN cache
      /\ stack \in Seq(Name) /\ next \in Seq(Nat \ {0}) /\ Len(next) = Len(stack)
  BY <1>0 DEF Enter, IInv, TypeOK
<1>2. BuiltOK /\ WholeOK
  BY DEF ValuesOK
<1>3. CASE UNCHANGED <<cache, path>> /\ call'.at = "error"
  BY <1>1, <1>2, <1>3, BuiltSame, WholeSame DEF ValuesOK, ValueOK, path
<1>4. CASE /\ Opaque(n) /\ cache' = With(cache, n, OsValue(n))
           /\ call' = Value(n, OsValue(n)) /\ UNCHANGED path
  <2>1. /\ DOMAIN cache' = DOMAIN cache \cup {n} /\ cache'[n] = OsValue(n)
        /\ \A x \in DOMAIN cache : cache'[x] = cache[x]
    BY <1>1, <1>4 DEF With
  <2>2. Grows
    BY <1>1, <2>1 DEF Grows
  <2>3. WholeOK'
    BY <1>1, <1>2, <1>4, <2>1, <2>2, WholeGrows, Fixed DEF WholeOK
  <2>4. \A i \in 1..Len(stack) : stack[i] # n
    BY <1>1 DEF IInv, PathOK
  <2>5. BuiltOK'
    BY <1>2, <1>4, <2>1, <2>2, <2>4, BuiltGrows DEF path, BuiltOK
  <2>6. ValueOK'
    BY <1>4, <2>1 DEF ValueOK, Value
  <2> QED
    BY <2>3, <2>5, <2>6 DEF ValuesOK
<1>5. CASE /\ stack' = Append(stack, n) /\ next' = Append(next, 1)
           /\ built' = Append(built, <<>>) /\ call' = Composing /\ cache' = cache
  <2>1. /\ Len(stack') = Len(stack) + 1 /\ stack'[Len(stack) + 1] = n
        /\ \A i \in 1..Len(stack) : stack'[i] = stack[i]
    BY <1>1, <1>5, AppendFacts
  <2>2. /\ next'[Len(stack) + 1] = 1
        /\ \A i \in 1..Len(stack) : next'[i] = next[i]
    <3>1. 1 \in Nat \ {0}
      OBVIOUS
    <3> QED
      BY <1>1, <1>5, <3>1, AppendFacts
  <2>3. /\ built' \in Seq(Seq(Held)) /\ Len(built') = Len(stack) + 1
        /\ built'[Len(stack) + 1] = <<>>
        /\ \A i \in 1..Len(stack) : built'[i] = built[i]
    <3>1. <<>> \in Seq(Held) /\ built \in Seq(Seq(Held)) /\ Len(built) = Len(stack)
      BY <1>2 DEF BuiltOK
    <3>2. /\ Append(built, <<>>) \in Seq(Seq(Held))
          /\ Len(Append(built, <<>>)) = Len(built) + 1
          /\ Append(built, <<>>)[Len(built) + 1] = <<>>
          /\ \A i \in 1..Len(built) : Append(built, <<>>)[i] = built[i]
      BY <3>1, AppendFacts
    <3> QED
      BY <1>5, <3>1, <3>2
  <2>4. Grows /\ Held' = Held
    BY <1>1, <1>5 DEF Grows, Held
  <2>5. ASSUME NEW i \in 1..(Len(stack) + 1)
        PROVE  (/\ Len(built[i]) + 1 = next[i]
                /\ PartsOK(stack[i], built[i])
                /\ stack[i] \notin DOMAIN cache)'
    <3>1. CASE i = Len(stack) + 1
      <4>1. PartsOK(n, <<>>)
        <5>1. Len(Text(n)) \in Nat /\ Len(<<>>) = 0
          BY TextType, <1>1 DEF IInv, TypeOK
        <5> QED
          BY <5>1 DEF PartsOK
      <4> QED
        BY <1>1, <1>5, <2>1, <2>2, <2>3, <2>4, <3>1, <4>1, Grown
    <3>2. CASE i # Len(stack) + 1
      <4>1. i \in 1..Len(stack)
        BY <1>1, <3>2
      <4> QED
        BY <1>2, <1>5, <2>1, <2>2, <2>3, <2>4, <4>1, Grown DEF BuiltOK
    <3> QED
      BY <3>1, <3>2
  <2>6. BuiltOK'
    BY <2>1, <2>3, <2>4, <2>5 DEF BuiltOK
  <2>7. WholeOK' /\ ValueOK'
    BY <1>1, <1>2, <1>5, WholeSame DEF ValueOK, Composing
  <2> QED
    BY <2>6, <2>7 DEF ValuesOK
<1> QED
  BY <1>0, <1>3, <1>4, <1>5 DEF Enter, Error

LEMMA ReferenceValues == IInv /\ ValuesOK /\ Reference => ValuesOK'
<1> SUFFICES ASSUME IInv, ValuesOK, Reference PROVE ValuesOK'
  OBVIOUS
<1>1. PICK n : n = Text(Top)[Pos]
  OBVIOUS
<1>2. /\ call.at = "compose" /\ stack # <<>> /\ BuiltOK /\ WholeOK
      /\ UNCHANGED <<w, cache, stack>>
      /\ Pos \in DOMAIN Text(Top)
  BY DEF Reference, Text, IInv, CallOK, ValuesOK
<1>3. n \in Name /\ Awaits(n)
  <2>1. Text(Top) \in Seq(Name)
    BY <1>2, TopUncached, TextType
  <2> QED
    BY <1>1, <1>2, <2>1 DEF Awaits
<1>4. CASE From(n) = "os"
  <2>1. Advance(OsValue(n)) /\ call' = call
    BY <1>1, <1>4 DEF Reference, From, Text
  <2>2. OsValue(n) \in Held /\ Cached(n) /\ OsValue(n) = PartOf(n)
    BY <1>3, <1>4 DEF Held, Cached, PartOf
  <2>3. BuiltOK'
    BY <1>2, <1>3, <2>1, <2>2, BuiltAdvance
  <2> QED
    BY <1>2, <2>1, <2>3, WholeSame DEF ValuesOK, ValueOK
<1>5. CASE From(n) # "os"
  <2>1. UNCHANGED <<next, built>> /\ call'.at # "value"
    BY <1>1, <1>5 DEF Reference, From, Text, Resolving, Error
  <2> QED
    BY <1>2, <2>1, WholeSame, BuiltSame DEF ValuesOK, ValueOK
<1> QED
  BY <1>4, <1>5

LEMMA ReceiveValues == IInv /\ ValuesOK /\ Receive => ValuesOK'
<1> SUFFICES ASSUME IInv, ValuesOK, Receive PROVE ValuesOK'
  OBVIOUS
<1>1. PICK n, v : n = call.key /\ v = call.value
  OBVIOUS
<1>2. /\ call.at = "value" /\ stack # <<>> /\ BuiltOK /\ WholeOK
      /\ Advance(v) /\ call' = Composing /\ UNCHANGED <<w, cache, stack>>
      /\ n \in DOMAIN cache /\ v = cache[n]
  BY <1>1 DEF Receive, ValuesOK, ValueOK
<1>3. Awaits(n) /\ From(n) = "namespace"
  BY <1>1, <1>2 DEF IInv, CallOK
<1>4. v \in Held /\ Cached(n) /\ v = PartOf(n)
  BY <1>2, <1>3 DEF Held, Cached, PartOf
<1>5. BuiltOK'
  BY <1>2, <1>3, <1>4, BuiltAdvance
<1> QED
  BY <1>2, <1>5, WholeSame DEF ValuesOK, ValueOK, Composing

LEMMA ComposesValues == IInv /\ ValuesOK /\ Composes => ValuesOK'
<1> SUFFICES ASSUME IInv, ValuesOK, Composes PROVE ValuesOK'
  OBVIOUS
<1>1. PICK n, parts : n = Top /\ parts = Parts
  OBVIOUS
<1>2. /\ stack # <<>> /\ BuiltOK /\ WholeOK /\ Leave /\ w' = w
      /\ cache' = With(cache, n, Composed(n, parts))
      /\ call' = Value(n, Composed(n, parts))
      /\ Pos \notin DOMAIN Text(n)
  BY <1>1 DEF Composes, IInv, CallOK, ValuesOK, Text
<1>3. /\ w \in Worlds /\ n \in Name /\ n \notin DOMAIN cache
      /\ parts \in Seq(Held) /\ PartsOK(n, parts)
      /\ Len(parts) + 1 = Pos /\ Pos \in Nat \ {0}
  BY <1>1, <1>2, TopUncached
<1>4. Len(parts) = Len(Text(n))
  <2>1. Text(n) \in Seq(Name) /\ Len(parts) \in Nat
    BY <1>3, TextType
  <2> QED
    BY <1>2, <1>3, <2>1 DEF PartsOK
<1>5. /\ DOMAIN cache' = DOMAIN cache \cup {n}
      /\ cache'[n] = Composed(n, parts)
      /\ \A x \in DOMAIN cache : cache'[x] = cache[x]
  BY <1>2, <1>3 DEF With
<1>6. Grows
  BY <1>2, <1>5 DEF Grows
<1>7. BuiltOK'
  BY <1>1, <1>2, <1>5, <1>6, BuiltPop
<1>8. Whole(n)'
  <2>1. parts \in Seq(Held)' /\ PartsOK(n, parts)' /\ Text(n)' = Text(n)
    BY <1>2, <1>3, <1>6, Grown, SeqMonotone, Fixed
  <2> QED
    BY <1>4, <1>5, <2>1 DEF Whole, Composed
<1>9. WholeOK'
  <2> SUFFICES ASSUME NEW x \in DOMAIN cache', ~Opaque(x)' PROVE Whole(x)'
    BY DEF WholeOK
  <2>1. CASE x = n
    BY <1>8, <2>1
  <2>2. CASE x \in DOMAIN cache
    <3>1. Whole(x)
      BY <1>2, <2>2, Fixed DEF WholeOK
    <3> QED
      BY <1>6, <2>2, <3>1, WholeGrows
  <2> QED
    BY <1>5, <2>1, <2>2
<1>10. ValueOK'
  BY <1>2, <1>5 DEF ValueOK, Value
<1> QED
  BY <1>7, <1>9, <1>10 DEF ValuesOK

LEMMA ValuesStep ==
    ASSUME IInv, ValuesOK, [Next]_vars
    PROVE  ValuesOK'
<1> USE DEF ValuesOK
<1>1. CASE Hit
  <2>1. /\ UNCHANGED <<w, cache, stack, next, built>>
        /\ call.key \in DOMAIN cache /\ call' = Value(call.key, cache[call.key])
    BY <1>1 DEF Hit, engine, path
  <2>2. ValueOK'
    BY <2>1 DEF ValueOK, Value
  <2> QED
    BY <2>1, <2>2, BuiltSame, WholeSame
<1>2. CASE Unwind
  <2>1. /\ stack # <<>> /\ Leave /\ UNCHANGED <<w, cache>> /\ call'.at = "error"
    BY <1>2 DEF Unwind, Error
  <2>2. Grows
    BY <2>1 DEF Grows
  <2> QED
    BY <2>1, <2>2, BuiltPop, WholeSame DEF ValueOK
<1>3. CASE /\ UNCHANGED <<w, cache, stack, next, built>>
           /\ call' = call \/ call'.at # "value"
  BY <1>3, BuiltSame, WholeSame DEF ValueOK
<1>4. CASE \/ UNCHANGED vars \/ Materialize \/ Request \/ Finish \/ Circle
           \/ Succeed \/ Fail \/ \E k \in Name : Ask(k) \/ Diagnose(k)
  <2>1. /\ UNCHANGED <<w, cache, stack, next, built>>
        /\ call' = call \/ call'.at # "value"
    BY <1>4 DEF vars, Materialize, Request, Finish, Circle, Succeed, Fail, Ask,
                Diagnose, engine, path, Error, Idle, Resolving
  <2> QED
    BY <1>3, <2>1
<1> QED
  BY <1>1, <1>2, <1>4, EnterValues, ReferenceValues, ReceiveValues,
     ComposesValues DEF Next

LEMMA ValuesInvariant == Spec => [](IInv /\ ValuesOK)
<1>1. Init => ValuesOK
  BY DEF Init, Idle, NoValues, ValuesOK, BuiltOK, WholeOK, ValueOK
<1>2. IInv /\ ValuesOK /\ [Next]_vars => ValuesOK'
  BY ValuesStep
<1> QED
  BY <1>1, <1>2, Invariance, PTL DEF Spec

-----------------------------------------------------------------------------
(* What a command returns.                                                 *)

(* Explaining judges a literal by itself.                                  *)
Judged(n) == Explains /\ Known(n) /\ Literal(n)
LiteralValue(n) == IF Opaque(n) THEN OsValue(n) ELSE Composed(n, w.leaf[n].refs)

ReturnsOK(n) ==
    \/ n \in DOMAIN cache /\ out[n] = cache[n]
    \/ Judged(n) /\ out[n] = LiteralValue(n)

OutOK ==
    /\ \A n \in DOMAIN out : answer[n] = "ok" => ReturnsOK(n)
    /\ w.mode = "masked" => DOMAIN out = {}

LEMMA JudgedFixed ==
    ASSUME w' = w
    PROVE  \A n : /\ Judged(n)' <=> Judged(n)
                  /\ LiteralValue(n)' = LiteralValue(n)
<1>1. \A n : Literal(n)' <=> Literal(n)
  BY Fixed DEF Literal
<1> QED
  BY <1>1, Fixed DEF Judged, LiteralValue, Composed, OsValue

LEMMA ReturnsGrows ==
    ASSUME Grows, UNCHANGED out, NEW n, ReturnsOK(n)
    PROVE  ReturnsOK(n)'
  BY JudgedFixed DEF ReturnsOK, Grows

LEMMA OutStep ==
    ASSUME IInv, ValuesOK, OutOK, [Next]_vars
    PROVE  OutOK'
<1>1. Grows
  BY CacheGrows DEF ValuesOK
<1>2. w' = w
  BY <1>1 DEF Grows
<1>3. CASE UNCHANGED <<answer, out>>
  BY <1>1, <1>2, <1>3, ReturnsGrows DEF OutOK
<1>4. CASE Materialize \/ Request
  <2>1. out' = out /\ out = NoValues
    BY <1>4 DEF Materialize, Request, IInv, CommandOK
  <2> QED
    BY <2>1 DEF OutOK, NoValues
<1>5. CASE \E k \in Name : Diagnose(k)
  <2>1. PICK k \in Name : Diagnose(k)
    BY <1>5
  <2> DEFINE a == IF /\ ~Opaque(k) /\ w.leaf[k].kind = "secret"
                     /\ w.leaf[k].broken
                  THEN "unresolved" ELSE "ok"
  <2>2. /\ Judged(k) /\ answer' = [answer EXCEPT ![k] = a]
        /\ answer \in [Name -> {"none", "ok", "circular", "unresolved"}]
        /\ out' = IF w.mode = "explain" /\ answer'[k] = "ok"
                  THEN With(out, k, LiteralValue(k)) ELSE out
    BY <2>1 DEF Diagnose, Judged, LiteralValue, IInv, TypeOK, CommandOK
  <2> HIDE DEF a
  <2>3. CASE w.mode = "explain" /\ answer'[k] = "ok"
    <3>1. /\ DOMAIN out' = DOMAIN out \cup {k} /\ out'[k] = LiteralValue(k)
          /\ \A n \in DOMAIN out : n # k => out'[n] = out[n]
      BY <2>2, <2>3 DEF With
    <3>2. \A n \in Name : n # k => answer'[n] = answer[n]
      BY <2>2
    <3>3. ASSUME NEW n \in DOMAIN out', answer'[n] = "ok"
          PROVE  ReturnsOK(n)'
      <4>1. CASE n = k
        BY <1>2, <2>2, <3>1, <4>1, JudgedFixed DEF ReturnsOK
      <4>2. CASE n # k
        <5>1. n \in DOMAIN out /\ n \in Name
          BY <3>1, <4>2 DEF IInv, TypeOK
        <5>2. ReturnsOK(n)
          BY <3>2, <3>3, <4>2, <5>1 DEF OutOK
        <5> QED
          BY <1>1, <3>1, <4>2, <5>1, <5>2, JudgedFixed DEF ReturnsOK, Grows
      <4> QED
        BY <4>1, <4>2
    <3> QED
      BY <1>2, <2>3, <3>3 DEF OutOK
  <2>4. CASE w.mode = "masked"
    BY <1>2, <2>2, <2>4 DEF OutOK
  <2>5. CASE w.mode = "explain" /\ answer'[k] # "ok"
    <3>1. out' = out /\ \A n \in Name : answer'[n] = "ok" => answer[n] = "ok"
      BY <2>2, <2>5
    <3> QED
      BY <1>1, <1>2, <2>5, <3>1, ReturnsGrows DEF OutOK, IInv, TypeOK
  <2> QED
    BY <2>2, <2>3, <2>4, <2>5 DEF Judged, Explains
<1>6. CASE Succeed
  <2>1. PICK k, v : k = call.key /\ v = call.value
    OBVIOUS
  <2>2. /\ answer' = [answer EXCEPT ![k] = "ok"] /\ k \in Name
        /\ answer \in [Name -> {"none", "ok", "circular", "unresolved"}]
        /\ out' = IF w.mode = "masked" THEN out ELSE With(out, k, v)
        /\ k \in DOMAIN cache /\ v = cache[k]
    BY <1>6, <2>1 DEF Succeed, IInv, TypeOK, ValuesOK, ValueOK
  <2>3. CASE w.mode = "masked"
    BY <1>2, <2>2, <2>3 DEF OutOK
  <2>4. CASE w.mode # "masked"
    <3>1. /\ DOMAIN out' = DOMAIN out \cup {k} /\ out'[k] = cache'[k]
          /\ k \in DOMAIN cache'
          /\ \A n \in DOMAIN out : n # k => out'[n] = out[n]
      BY <1>1, <2>2, <2>4 DEF With, Grows
    <3>2. ASSUME NEW n \in DOMAIN out', answer'[n] = "ok"
          PROVE  ReturnsOK(n)'
      <4>1. CASE n = k
        BY <3>1, <4>1 DEF ReturnsOK
      <4>2. CASE n # k
        <5>1. n \in DOMAIN out /\ n \in Name
          BY <3>1, <4>2 DEF IInv, TypeOK
        <5>2. ReturnsOK(n)
          BY <2>2, <3>2, <4>2, <5>1 DEF OutOK
        <5> QED
          BY <1>1, <3>1, <4>2, <5>1, <5>2, JudgedFixed DEF ReturnsOK, Grows
      <4> QED
        BY <4>1, <4>2
    <3> QED
      BY <1>2, <2>4, <3>2 DEF OutOK
  <2> QED
    BY <2>3, <2>4
<1>7. CASE Fail
  <2>1. /\ \A n \in Name : answer'[n] = "ok" => answer[n] = "ok"
        /\ out' = NoValues \/ out' = out
    <3>1. PICK k, a : /\ k = call.key /\ a \in {"circular", "unresolved"}
                      /\ answer' = [answer EXCEPT ![k] = a]
      BY <1>7 DEF Fail
    <3> QED
      BY <1>7, <3>1 DEF Fail, IInv, TypeOK
  <2> QED
    BY <1>1, <1>2, <2>1, ReturnsGrows DEF OutOK, NoValues, IInv, TypeOK
<1>8. CASE Finish
  <2>1. /\ answer' = answer /\ cache' = cache
        /\ out' = IF w.mode = "tolerant" THEN Downgraded(out) ELSE out
    BY <1>8 DEF Finish, engine
  <2>2. CASE w.mode = "tolerant"
    <3>1. \A n \in DOMAIN out' : answer[n] = "ok" =>
              n \in DOMAIN out /\ out'[n] = out[n]
      BY <2>1, <2>2 DEF Downgraded, Failures
    <3>2. ASSUME NEW n \in DOMAIN out', answer[n] = "ok"
          PROVE  ReturnsOK(n)'
      <4>1. ReturnsOK(n) /\ out'[n] = out[n]
        BY <3>1, <3>2 DEF OutOK
      <4> QED
        BY <1>1, <4>1, JudgedFixed DEF ReturnsOK, Grows
    <3> QED
      BY <1>2, <2>1, <2>2, <3>2 DEF OutOK
  <2>3. CASE w.mode # "tolerant"
    BY <1>3, <2>1, <2>3
  <2> QED
    BY <2>2, <2>3
<1>9. \/ UNCHANGED <<answer, out>> \/ Materialize \/ Request \/ Succeed \/ Fail
      \/ Finish \/ \E k \in Name : Diagnose(k)
  BY DEF Next, vars, Ask, Hit, Circle, Enter, Reference, Receive, Composes, Unwind
<1> QED
  BY <1>3, <1>4, <1>5, <1>6, <1>7, <1>8, <1>9

LEMMA ReturnsInvariant == Spec => [](IInv /\ ValuesOK /\ OutOK)
<1>1. Init => OutOK
  BY DEF Init, NoValues, OutOK
<1>2. IInv /\ ValuesOK /\ OutOK /\ [Next]_vars => OutOK'
  BY OutStep
<1> QED
  BY <1>1, <1>2, ValuesInvariant, PTL DEF Spec

(* What a reference to an OS variable holds is what the child finds there. *)
LEMMA OsReference ==
    ASSUME IInv, phase = "done", w.mode \in {"run", "tolerant"},
           OutOK, CacheOK, NEW r \in Name, From(r) = "os"
    PROVE  r \in DOMAIN out /\ out[r] = OsValue(r)
<1>1. w \in Worlds /\ r \in w.os /\ (~w.overload \/ ~Known(r)) /\ Chosen(r)
  BY DEF IInv, TypeOK, From, Source, Known, Chosen, Selected
<1>2. Fine(r) => Known(r) /\ ~Dark(r)
  BY <1>1, Table
<1>3. CASE w.mode = "tolerant"
  <2>1. NeverClobbered
    BY <1>3 DEF IInv, CommandOK, TolerantOK
  <2> QED
    BY <1>1, <1>2, <1>3, <2>1 DEF NeverClobbered, Fine
<1>4. CASE w.mode = "run"
  <2>1. RunOK /\ EagerOK /\ AnswersOK
    BY <1>4 DEF IInv, CommandOK, Explains, Eager
  <2>2. answer[r] = "ok" /\ Fine(r) /\ r \in DOMAIN out
    BY <1>1, <2>1 DEF RunOK, EagerOK, AnswersOK, Answered
  <2>3. Opaque(r)
    BY <1>1, <1>2, <2>2 DEF Opaque
  <2>4. r \in DOMAIN cache /\ out[r] = cache[r]
    BY <1>4, <2>2 DEF OutOK, ReturnsOK, Judged, Explains
  <2> QED
    BY <2>2, <2>3, <2>4 DEF CacheOK
<1> QED
  BY <1>3, <1>4

(* The child sees one environment: what a variable holds of another one is *)
(* what the child finds under that name, when everything composes as when  *)
(* what fails is downgraded to the OS (substitute.go:225-231).             *)
THEOREM ChildSeesOne == Spec => []ChildConsistent
<1>1. ASSUME IInv, ValuesOK, OutOK
      PROVE  ChildConsistent
  <2> SUFFICES ASSUME phase = "done", w.mode \in {"run", "tolerant"},
                      NEW n \in DOMAIN out, answer[n] = "ok", ~Opaque(n),
                      NEW i \in DOMAIN Text(n)
               PROVE  Text(n)[i] \in DOMAIN out
                      /\ out[n].parts[i] = out[Text(n)[i]]
    BY DEF ChildConsistent, Text
  <2>1. /\ w \in Worlds /\ n \in Name /\ CacheOK /\ EagerOK /\ AnswersOK
        /\ answer \in [Name -> {"none", "ok", "circular", "unresolved"}]
    BY <1>1 DEF IInv, TypeOK, CommandOK, Explains, Eager
  <2>2. Text(n) \in Seq(Name) /\ i \in 1..Len(Text(n)) /\ Text(n)[i] \in Name
    BY <2>1, TextType
  <2>3. PICK r : r = Text(n)[i]
    OBVIOUS
  <2>4. n \in DOMAIN cache /\ out[n] = cache[n]
    BY <1>1 DEF OutOK, ReturnsOK, Judged, Explains
  <2>5. PICK parts \in Seq(Held) : /\ cache[n] = Composed(n, parts)
                                   /\ Len(parts) = Len(Text(n))
                                   /\ PartsOK(n, parts)
    BY <1>1, <2>4 DEF ValuesOK, WholeOK, Whole
  <2>6. out[n].parts[i] = PartOf(r) /\ Cached(r)
    BY <2>2, <2>3, <2>4, <2>5 DEF PartsOK, Composed
  <2>7. CASE From(r) = "os"
    BY <1>1, <2>1, <2>2, <2>3, <2>6, <2>7, OsReference DEF PartOf
  <2>8. CASE From(r) # "os"
    <3>1. r \in DOMAIN cache /\ out[n].parts[i] = cache[r]
      BY <2>6, <2>8 DEF PartOf, Cached
    <3>2. Fine(r) /\ Chosen(r)
      BY <2>1, <2>2, <2>3, <3>1, Table DEF CacheOK
    <3>3. answer[r] = "ok"
      BY <2>1, <2>2, <2>3, <3>2 DEF EagerOK, AnswersOK
    <3>4. r \in DOMAIN out
      <4>1. CASE w.mode = "run"
        BY <1>1, <2>2, <2>3, <3>3, <4>1 DEF IInv, CommandOK, RunOK, Answered
      <4>2. CASE w.mode = "tolerant"
        <5>1. NeverClobbered
          BY <1>1, <4>2 DEF IInv, CommandOK, TolerantOK
        <5> QED
          BY <3>2, <4>2, <5>1 DEF NeverClobbered, Fine, Chosen, Selected
      <4> QED
        BY <4>1, <4>2
    <3>5. out[r] = cache[r]
      BY <1>1, <3>3, <3>4 DEF OutOK, ReturnsOK, Judged, Explains
    <3> QED
      BY <2>3, <3>1, <3>4, <3>5
  <2> QED
    BY <2>7, <2>8
<1> QED
  BY <1>1, ReturnsInvariant, PTL

-----------------------------------------------------------------------------
(* What a value means: the recursion that unfolds it has one solution.     *)

(* One level of unfolding: the parts of n are taken from V.                *)
Unfold(m, V, d, n) ==
    IF Opaque(n) THEN OsValue(n)
    ELSE Composed(n, [i \in DOMAIN Refs(m, n) |->
        IF Source(m, Refs(m, n)[i]) = "os" \/ d = 0 THEN OsValue(Refs(m, n)[i])
        ELSE V[d - 1][Refs(m, n)[i]]])

Unfolds(m, V) == V = [d \in Nat |-> [n \in Name |-> Unfold(m, V, d, n)]]

UnfoldsTo(m, V, k) == \A d \in 0..k, n \in Name : V[d][n] = Unfold(m, V, d, n)

LEMMA UnfoldSame ==
    ASSUME w \in Worlds, NEW m, NEW V, NEW W, NEW d \in Nat, NEW n \in Name,
           d # 0 => \A r \in Name : V[d - 1][r] = W[d - 1][r]
    PROVE  Unfold(m, V, d, n) = Unfold(m, W, d, n)
<1> DEFINE part(X, i) == IF Source(m, Refs(m, n)[i]) = "os" \/ d = 0
                         THEN OsValue(Refs(m, n)[i])
                         ELSE X[d - 1][Refs(m, n)[i]]
<1>1. \A i \in DOMAIN Refs(m, n) : part(V, i) = part(W, i)
  BY RefsType
<1>2. Unfold(m, V, d, n) = IF Opaque(n) THEN OsValue(n)
                        ELSE Composed(n, [i \in DOMAIN Refs(m, n) |-> part(V, i)])
  BY DEF Unfold
<1>3. Unfold(m, W, d, n) = IF Opaque(n) THEN OsValue(n)
                        ELSE Composed(n, [i \in DOMAIN Refs(m, n) |-> part(W, i)])
  BY DEF Unfold
<1> HIDE DEF part
<1>4. [i \in DOMAIN Refs(m, n) |-> part(V, i)] = [i \in DOMAIN Refs(m, n) |-> part(W, i)]
  BY <1>1
<1> QED
  BY <1>2, <1>3, <1>4

LEMMA UnfoldingUnique ==
    ASSUME w \in Worlds, NEW m, NEW V, NEW W, NEW k \in Nat,
           UnfoldsTo(m, V, k), UnfoldsTo(m, W, k)
    PROVE  \A n \in Name : V[k][n] = W[k][n]
<1> DEFINE S == {j \in Nat : j <= k => \A n \in Name : V[j][n] = W[j][n]}
<1>1. 0 \in S
  BY UnfoldSame DEF UnfoldsTo
<1>2. ASSUME NEW j \in Nat, j \in S
      PROVE  j + 1 \in S
  <2> SUFFICES ASSUME j + 1 <= k, NEW n \in Name
               PROVE  V[j + 1][n] = W[j + 1][n]
    BY DEF S
  <2>1. j + 1 \in 0..k /\ j + 1 \in Nat /\ j + 1 - 1 = j
    OBVIOUS
  <2>2. \A r \in Name : V[j][r] = W[j][r]
    BY <1>2
  <2>3. Unfold(m, V, j + 1, n) = Unfold(m, W, j + 1, n)
    BY <2>1, <2>2, UnfoldSame
  <2> QED
    BY <2>1, <2>3 DEF UnfoldsTo
<1> HIDE DEF S
<1>3. k \in S
  BY <1>1, <1>2, SetInduction
<1> QED
  BY <1>3 DEF S

LEMMA UnfoldingTo ==
    ASSUME w \in Worlds, NEW m, NEW k \in Nat
    PROVE  \E V : UnfoldsTo(m, V, k)
<1> DEFINE S == {j \in Nat : \E V : UnfoldsTo(m, V, j)}
<1>1. 0 \in S
  <2> DEFINE V == [d \in Nat |-> [n \in Name |-> Unfold(m, <<>>, d, n)]]
  <2>1. \A n \in Name : V[0][n] = Unfold(m, <<>>, 0, n)
    OBVIOUS
  <2> HIDE DEF V
  <2>2. \A n \in Name : V[0][n] = Unfold(m, V, 0, n)
    BY <2>1, UnfoldSame
  <2> QED
    BY <2>2 DEF UnfoldsTo
<1>2. ASSUME NEW j \in Nat, j \in S
      PROVE  j + 1 \in S
  <2>1. PICK W : UnfoldsTo(m, W, j)
    BY <1>2
  <2> DEFINE V == [d \in Nat |-> [n \in Name |-> Unfold(m, W, d, n)]]
  <2>2. \A d \in Nat, n \in Name : V[d][n] = Unfold(m, W, d, n)
    OBVIOUS
  <2> HIDE DEF V
  <2>3. \A d \in 0..j, n \in Name : V[d][n] = W[d][n]
    BY <2>1, <2>2 DEF UnfoldsTo
  <2>4. ASSUME NEW d \in 0..(j + 1), NEW n \in Name
        PROVE  V[d][n] = Unfold(m, V, d, n)
    <3>1. d \in Nat /\ (d # 0 => d - 1 \in 0..j)
      OBVIOUS
    <3>2. Unfold(m, W, d, n) = Unfold(m, V, d, n)
      BY <2>3, <3>1, UnfoldSame
    <3> QED
      BY <2>2, <3>1, <3>2
  <2> QED
    BY <2>4 DEF UnfoldsTo
<1> HIDE DEF S
<1>3. k \in S
  BY <1>1, <1>2, SetInduction
<1> QED
  BY <1>3 DEF S

LEMMA UnfoldingExists ==
    ASSUME w \in Worlds, NEW m
    PROVE  \E V : Unfolds(m, V)
<1> DEFINE at(k) == CHOOSE V : UnfoldsTo(m, V, k)
           V == [d \in Nat |-> [n \in Name |-> at(d)[d][n]]]
<1>1. \A k \in Nat : UnfoldsTo(m, at(k), k)
  BY UnfoldingTo
<1> HIDE DEF at
<1>2. \A d \in Nat, n \in Name : V[d][n] = at(d)[d][n]
  OBVIOUS
<1>3. ASSUME NEW d \in Nat, NEW n \in Name
      PROVE  V[d][n] = Unfold(m, V, d, n)
  <2>1. V[d][n] = Unfold(m, at(d), d, n)
    BY <1>1, <1>2 DEF UnfoldsTo
  <2>2. ASSUME d # 0, NEW r \in Name
        PROVE  at(d)[d - 1][r] = V[d - 1][r]
    <3>1. d - 1 \in Nat /\ UnfoldsTo(m, at(d), d - 1)
      BY <1>1, <2>2 DEF UnfoldsTo
    <3>2. at(d)[d - 1][r] = at(d - 1)[d - 1][r]
      BY <1>1, <3>1, UnfoldingUnique
    <3> QED
      BY <1>2, <3>1, <3>2
  <2> HIDE DEF V
  <2> QED
    BY <2>1, <2>2, UnfoldSame
<1>4. V = [d \in Nat |-> [n \in Name |-> Unfold(m, V, d, n)]]
  <2>1. V = [d \in Nat |-> [n \in Name |-> V[d][n]]]
    OBVIOUS
  <2> HIDE DEF V
  <2> QED
    BY <1>3, <2>1
<1> QED
  BY <1>4 DEF Unfolds

(* Meaning unfolds the names to the depth of their number.                 *)
LEMMA MeaningUnfolds ==
    ASSUME w \in Worlds, NEW m
    PROVE  \E V : Unfolds(m, V) /\ \A n : Meaning(m, n) = V[Cardinality(Name)][n]
<1> DEFINE X == CHOOSE V : Unfolds(m, V)
<1>1. Unfolds(m, X)
  BY UnfoldingExists
<1>2. \A n : Meaning(m, n) = X[Cardinality(Name)][n]
  BY DEF Meaning, Unfolds, Unfold
<1> QED
  BY <1>1, <1>2

LEMMA UnfoldsFixed ==
    ASSUME w' = w
    PROVE  \A V : Unfolds(w.mode, V)' <=> Unfolds(w.mode, V)
<1>1. ASSUME NEW V, NEW d, NEW n
      PROVE  Unfold(w.mode, V, d, n)' = Unfold(w.mode, V, d, n)
  BY Fixed DEF Unfold, OsValue, Composed, Text, From
<1> QED
  BY <1>1 DEF Unfolds

(* A cached value is its meaning, unfolded at least as deep as there are   *)
(* cached names.                                                           *)
DepthOK ==
    \A V : Unfolds(w.mode, V) =>
        \A n \in DOMAIN cache, d \in Nat :
            d >= Cardinality(DOMAIN cache) => cache[n] = V[d][n]

LEMMA CacheFinite ==
    ASSUME IInv
    PROVE  /\ IsFiniteSet(DOMAIN cache)
           /\ Cardinality(DOMAIN cache) \in Nat /\ Cardinality(Name) \in Nat
           /\ Cardinality(DOMAIN cache) <= Cardinality(Name)
<1>1. DOMAIN cache \subseteq Name /\ IsFiniteSet(Name)
  BY NameAssumption DEF IInv, TypeOK
<1> QED
  BY <1>1, FS_Subset, FS_CardinalityType

(* One more value in the cache, that unfolds into those that are in it.    *)
LEMMA DepthGrows ==
    ASSUME IInv, DepthOK, w' = w, NEW n \in Name, n \notin DOMAIN cache,
           NEW v, cache' = With(cache, n, v),
           \A V : Unfolds(w.mode, V) => \A d \in Nat \ {0} :
               (\A r \in DOMAIN cache : V[d - 1][r] = cache[r]) => v = V[d][n]
    PROVE  DepthOK'
<1>1. /\ DOMAIN cache' = DOMAIN cache \cup {n} /\ cache'[n] = v
      /\ \A x \in DOMAIN cache : cache'[x] = cache[x]
  BY DEF With
<1>2. /\ Cardinality(DOMAIN cache) \in Nat
      /\ Cardinality(DOMAIN cache') = Cardinality(DOMAIN cache) + 1
  BY <1>1, CacheFinite, FS_AddElement
<1> SUFFICES ASSUME NEW V, Unfolds(w.mode, V), NEW x \in DOMAIN cache', NEW d \in Nat,
                    d >= Cardinality(DOMAIN cache')
             PROVE  cache'[x] = V[d][x]
  BY UnfoldsFixed DEF DepthOK
<1>3. d \in Nat \ {0} /\ d - 1 \in Nat /\ d - 1 >= Cardinality(DOMAIN cache)
      /\ d >= Cardinality(DOMAIN cache)
  BY <1>2
<1>4. \A r \in DOMAIN cache : V[d - 1][r] = cache[r] /\ V[d][r] = cache[r]
  BY <1>3 DEF DepthOK
<1>5. v = V[d][n]
  BY <1>3, <1>4
<1> QED
  BY <1>1, <1>4, <1>5

LEMMA UnfoldsAt ==
    ASSUME NEW V, Unfolds(w.mode, V), NEW d \in Nat, NEW n \in Name
    PROVE  V[d][n] = Unfold(w.mode, V, d, n)
  BY DEF Unfolds

LEMMA DepthStep ==
    ASSUME IInv, ValuesOK, DepthOK, [Next]_vars
    PROVE  DepthOK'
<1>1. CASE UNCHANGED <<w, cache>>
  BY <1>1, UnfoldsFixed DEF DepthOK
<1>2. CASE Enter /\ cache' # cache
  <2>1. PICK n : n = call.key
    OBVIOUS
  <2>2. /\ n \in Name /\ n \notin DOMAIN cache /\ w' = w /\ Opaque(n)
        /\ cache' = With(cache, n, OsValue(n))
    BY <1>2, <2>1 DEF Enter, IInv, TypeOK
  <2>3. ASSUME NEW V, Unfolds(w.mode, V), NEW d \in Nat \ {0}
        PROVE  OsValue(n) = V[d][n]
    BY <2>2, <2>3, UnfoldsAt DEF Unfold, Text, From
  <2> QED
    BY <2>2, <2>3, DepthGrows
<1>3. CASE Composes
  <2>1. PICK n, parts : n = Top /\ parts = Parts
    OBVIOUS
  <2>2. /\ stack # <<>> /\ BuiltOK /\ w' = w
        /\ cache' = With(cache, n, Composed(n, parts))
        /\ Pos \notin DOMAIN Text(n)
    BY <1>3, <2>1 DEF Composes, IInv, CallOK, ValuesOK, Text
  <2>3. /\ w \in Worlds /\ n \in Name /\ n \notin DOMAIN cache /\ ~Opaque(n)
        /\ parts \in Seq(Held) /\ PartsOK(n, parts)
        /\ Len(parts) + 1 = Pos /\ Pos \in Nat \ {0}
    BY <2>1, <2>2, TopUncached
  <2>4. Text(n) \in Seq(Name) /\ Len(parts) = Len(Text(n))
    <3>1. Text(n) \in Seq(Name) /\ Len(parts) \in Nat
      BY <2>3, TextType
    <3> QED
      BY <2>2, <2>3, <3>1 DEF PartsOK
  <2>5. ASSUME NEW V, Unfolds(w.mode, V), NEW d \in Nat \ {0},
               \A r \in DOMAIN cache : V[d - 1][r] = cache[r]
        PROVE  Composed(n, parts) = V[d][n]
    <3> DEFINE part(i) == IF From(Text(n)[i]) = "os" \/ d = 0
                          THEN OsValue(Text(n)[i])
                          ELSE V[d - 1][Text(n)[i]]
    <3>1. V[d][n] = Composed(n, [i \in DOMAIN Text(n) |-> part(i)])
      BY <2>3, <2>5, UnfoldsAt DEF Unfold, Text, From
    <3>2. \A i \in DOMAIN Text(n) : parts[i] = part(i)
      <4> SUFFICES ASSUME NEW i \in 1..Len(parts) PROVE parts[i] = part(i)
        BY <2>4
      <4>1. parts[i] = PartOf(Text(n)[i]) /\ Cached(Text(n)[i])
        BY <2>3 DEF PartsOK
      <4> QED
        BY <2>5, <4>1 DEF PartOf, Cached
    <3> HIDE DEF part
    <3>3. parts = [i \in DOMAIN Text(n) |-> part(i)]
      <4>1. DOMAIN parts = DOMAIN Text(n) /\ parts = [i \in DOMAIN parts |-> parts[i]]
        BY <2>3, <2>4
      <4> QED
        BY <3>2, <4>1
    <3> QED
      BY <3>1, <3>3
  <2>6. PICK v : v = Composed(n, parts)
    OBVIOUS
  <2> QED
    BY <2>2, <2>3, <2>5, <2>6, DepthGrows
<1>4. \/ UNCHANGED <<w, cache>> \/ Composes \/ (Enter /\ cache' # cache)
  <2>1. Enter => w' = w
    BY DEF Enter
  <2> QED
    BY <2>1 DEF Next, vars, engine, Materialize, Request, Ask, Diagnose, Hit,
       Circle, Reference, Receive, Unwind, Succeed, Fail, Finish
<1> QED
  BY <1>1, <1>2, <1>3, <1>4

LEMMA DepthInvariant == Spec => [](IInv /\ ValuesOK /\ OutOK /\ DepthOK)
<1>1. Init => DepthOK
  BY DEF Init, NoValues, DepthOK
<1>2. IInv /\ ValuesOK /\ DepthOK /\ [Next]_vars => DepthOK'
  BY DepthStep
<1> QED
  BY <1>1, <1>2, ReturnsInvariant, PTL DEF Spec

LEMMA CachedMeaning ==
    ASSUME IInv, DepthOK, NEW n \in DOMAIN cache
    PROVE  cache[n] = Meaning(w.mode, n)
<1>1. PICK V : Unfolds(w.mode, V) /\ \A x : Meaning(w.mode, x) = V[Cardinality(Name)][x]
  BY MeaningUnfolds DEF IInv, TypeOK
<1>2. cache[n] = V[Cardinality(Name)][n]
  BY <1>1, CacheFinite DEF DepthOK
<1> QED
  BY <1>1, <1>2

(* A cached value is the full composition of its name, never a part of it  *)
(* (substitute.go:181-190).                                                *)
THEOREM CacheMeans == Spec => []CacheExact
<1>1. IInv /\ DepthOK => CacheExact
  BY CachedMeaning DEF CacheExact, IInv, CacheOK, Fine
<1> QED
  BY <1>1, DepthInvariant, PTL

-----------------------------------------------------------------------------
(* What run would do.                                                      *)

(* What explaining says of a literal does not go through the engine; only  *)
(* selected keys are answered.                                             *)
JudgedOK ==
    \A k \in Name :
        /\ answer[k] # "none" => Chosen(k)
        /\ answer[k] = "ok" => Fine(k) \/ Judged(k)
        /\ answer[k] \in {"circular", "unresolved"} =>
               ~Fine(k) \/ (~Opaque(k) /\ w.leaf[k].broken /\ Explains)

LEMMA JudgedStep ==
    ASSUME IInv, JudgedOK, [Next]_vars
    PROVE  JudgedOK'
<1>1. CASE UNCHANGED <<w, answer>>
  BY <1>1, Fixed, JudgedFixed DEF JudgedOK
<1>2. ASSUME w' = w, NEW k \in Name, NEW a, Chosen(k),
             answer' = [answer EXCEPT ![k] = a],
             a = "ok" => Fine(k) \/ Judged(k),
             a \in {"circular", "unresolved"} =>
                 ~Fine(k) \/ (~Opaque(k) /\ w.leaf[k].broken /\ Explains)
      PROVE  JudgedOK'
  <2>1. answer'[k] = a /\ \A n \in Name : n # k => answer'[n] = answer[n]
    BY <1>2 DEF IInv, TypeOK
  <2> QED
    BY <1>2, <2>1, Fixed, JudgedFixed DEF JudgedOK
<1>3. CASE Materialize
  <2> DEFINE failed == {n \in Selected(w.mode) : Unreadable(w.mode, n)}
  <2>1. /\ answer' = [n \in Name |-> IF n \in failed THEN "unresolved" ELSE "none"]
        /\ w' = w /\ w \in Worlds
    BY <1>3 DEF Materialize, IInv, TypeOK
  <2>2. \A k \in Name : k \in failed => ~Fine(k) /\ Chosen(k)
    BY <2>1, Table DEF Dark, Chosen
  <2> HIDE DEF failed
  <2> QED
    BY <2>1, <2>2, Fixed DEF JudgedOK
<1>4. CASE Succeed \/ Fail
  <2>1. PICK k : k = call.key
    OBVIOUS
  <2>2. /\ w' = w /\ k \in Name /\ w \in Worlds /\ Known(k)
        /\ Succeed => Fine(k)
        /\ Fail => ~Fine(k)
    BY <1>4, <2>1 DEF Succeed, Fail, IInv, TypeOK, CallOK
  <2>3. PICK a \in {"ok", "circular", "unresolved"} :
            /\ answer' = [answer EXCEPT ![k] = a]
            /\ a = "ok" => Succeed
            /\ a # "ok" => Fail
    <3>1. CASE Succeed
      BY <2>1, <3>1 DEF Succeed
    <3>2. CASE Fail
      BY <2>1, <3>2 DEF Fail
    <3> QED
      BY <1>4, <3>1, <3>2
  <2>4. /\ Chosen(k)
        /\ a = "ok" => Fine(k)
        /\ a \in {"circular", "unresolved"} => ~Fine(k)
    BY <2>2, <2>3, Table
  <2> QED
    BY <1>2, <2>2, <2>3, <2>4
<1>5. ASSUME NEW k \in Name, Diagnose(k)
      PROVE  JudgedOK'
  <2>1. w' = w /\ w \in Worlds /\ Judged(k) /\ Explains /\ Chosen(k)
    BY <1>5, Table DEF Diagnose, Judged, IInv, TypeOK, CommandOK
  <2>2. PICK a \in {"ok", "unresolved"} :
            /\ answer' = [answer EXCEPT ![k] = a]
            /\ a = "unresolved" => ~Opaque(k) /\ w.leaf[k].broken
    BY <1>5 DEF Diagnose
  <2> QED
    BY <1>2, <2>1, <2>2
<1>6. \/ UNCHANGED <<w, answer>> \/ Materialize \/ Succeed \/ Fail
      \/ \E k \in Name : Diagnose(k)
  BY DEF Next, vars, Request, Ask, Hit, Circle, Enter, Reference, Receive,
         Composes, Unwind, Finish
<1> QED
  BY <1>1, <1>3, <1>4, <1>5, <1>6

(* Where everything can be read and explaining meets no reference within a *)
(* secret, the table of a command is that of run, but that a variable of   *)
(* the OS alone may be declared or not.                                    *)
Comparable ==
    /\ \A n \in Namespace : ~Unreadable("run", n)
    /\ Explains => \A n \in Namespace :
                      w.leaf[n].kind = "secret" => w.leaf[n].refs = <<>>

LEMMA SameTable ==
    ASSUME w \in Worlds, Comparable, NEW n \in Name
    PROVE  /\ Refs("run", n) = Text(n)
           /\ Declared("run", n) <=> n \in Namespace \/ n \in w.os
           /\ Declared("run", n) => ~Unreadable("run", n)
           /\ Chosen(n) => n \in Namespace \/ n \in w.os
           /\ Chosen(n) => Known(n) /\ ~Dark(n)
           /\ n \in Namespace => Chosen(n)
           /\ Source("run", n) = "os" => From(n) = "os"
           /\ From(n) = "os" => Opaque(n) /\ n \in w.os
           /\ Source("run", n) \in {"os", "namespace", "missing"}
           /\ Source("run", n) = "missing" <=> ~Declared("run", n)
<1>1. w.mode \in Mode
  BY SelectedType
<1>2. Refs("run", n) = Text(n)
  BY DEF Comparable, Refs, Text, Masked, Explains, Namespace
<1>3. Unreadable("run", n) => n \notin Namespace /\ ~Opaque(n)
  BY DEF Comparable, Unreadable
<1>4. Dark(n) => Unreadable("run", n)
  BY DEF Dark, Unreadable, Masked
<1>5. /\ Selected("run") = Namespace \cup w.os
      /\ Chosen(n) => n \in Namespace \/ n \in w.os
      /\ n \in Namespace => Chosen(n)
  BY DEF Selected, Chosen
<1>6. n \in w.os /\ n \notin Namespace => Opaque(n)
  BY DEF Opaque
<1>7. /\ Declared("run", n) <=> n \in Namespace \/ n \in w.os
      /\ Declared("run", n) => ~Unreadable("run", n)
  BY <1>3, <1>5, <1>6 DEF Declared
<1>8. Chosen(n) => Known(n) /\ ~Dark(n)
  BY <1>3, <1>4, <1>5, <1>6 DEF Known, Declared, Dark, Chosen
<1>9. /\ Source("run", n) = "os" <=> n \in w.os /\ ~w.overload
      /\ Source("run", n) \in {"os", "namespace", "missing"}
      /\ Source("run", n) = "missing" <=> ~Declared("run", n)
  BY <1>7 DEF Source
<1>10. From(n) = "os" <=> n \in w.os /\ (~w.overload \/ ~Known(n))
  BY DEF From, Source, Known
<1>11. From(n) = "os" => Opaque(n) /\ n \in w.os
  BY <1>5, <1>8, <1>10 DEF Opaque
<1> QED
  BY <1>2, <1>5, <1>7, <1>8, <1>9, <1>10, <1>11

(* The same names have a value.                                            *)
LEMMA SameGood ==
    ASSUME w \in Worlds, Comparable, NEW k \in Name, Chosen(k)
    PROVE  k \in Good("run") <=> Fine(k)
<1>1. ASSUME NEW x \in Name, Composable(w.mode, x, Good("run"))
      PROVE  x \in Good("run")
  <2>1. Known(x) /\ ~Dark(x) /\ Chosen(x)
    BY <1>1, Table DEF Composable, Known, Dark
  <2>2. Declared("run", x) /\ ~Unreadable("run", x)
    BY <2>1, SameTable
  <2>3. CASE Opaque(x)
    BY <2>2, <2>3, GoodClosed DEF Composable
  <2>4. CASE ~Opaque(x)
    <3>1. ASSUME NEW i \in DOMAIN Refs("run", x)
          PROVE  \/ Source("run", Refs("run", x)[i]) = "os"
                 \/ /\ Source("run", Refs("run", x)[i]) = "namespace"
                    /\ Refs("run", x)[i] \in Good("run")
      <4>1. PICK r : r = Refs("run", x)[i]
        OBVIOUS
      <4>2. i \in DOMAIN Text(x) /\ r = Text(x)[i] /\ r \in Name
        BY <4>1, SameTable, TextType
      <4>3. \/ From(r) = "os"
            \/ From(r) = "namespace" /\ r \in Good("run")
        BY <1>1, <2>4, <4>2 DEF Composable, Text, From
      <4>4. CASE From(r) = "os"
        <5>1. Opaque(r) /\ Declared("run", r) /\ ~Unreadable("run", r)
          BY <4>2, <4>4, SameTable
        <5>2. r \in Good("run")
          BY <4>2, <5>1, GoodClosed DEF Composable
        <5> QED
          BY <4>1, <4>2, <5>1, <5>2, SameTable
      <4>5. CASE From(r) = "namespace" /\ r \in Good("run")
        <5>1. Declared("run", r)
          BY <4>5, GoodComposable DEF Composable
        <5> QED
          BY <4>1, <4>2, <4>5, <5>1, SameTable
      <4> QED
        BY <4>3, <4>4, <4>5
    <3> QED
      BY <2>2, <3>1, GoodClosed DEF Composable
  <2> QED
    BY <2>3, <2>4
<1>2. Fine(k) => k \in Good("run")
  BY <1>1 DEF Fine, Good
<1> DEFINE S == {x \in Name : Chosen(x) => Fine(x)}
<1>3. ASSUME NEW x \in Name, Composable("run", x, S), Chosen(x)
      PROVE  Fine(x)
  <2>1. Known(x) /\ ~Dark(x)
    BY <1>3, SameTable
  <2>2. CASE Opaque(x)
    BY <2>1, <2>2, Table
  <2>3. CASE ~Opaque(x)
    <3>1. ASSUME NEW i \in 1..Len(Text(x))
          PROVE  Settled(Text(x)[i])
      <4>1. PICK r : r = Text(x)[i]
        OBVIOUS
      <4>2. i \in DOMAIN Refs("run", x) /\ r = Refs("run", x)[i] /\ r \in Name
        BY <4>1, SameTable, TextType
      <4>3. \/ Source("run", r) = "os"
            \/ Source("run", r) = "namespace" /\ r \in S
        BY <1>3, <2>3, <4>2 DEF Composable
      <4>4. CASE Source("run", r) = "os"
        BY <4>1, <4>2, <4>4, SameTable DEF Settled
      <4>5. CASE Source("run", r) = "namespace" /\ r \in S
        <5>1. Declared("run", r)
          BY <4>2, <4>5, SameTable
        <5>2. CASE Chosen(r)
          <6>1. Fine(r) /\ Known(r) /\ From(r) # "missing"
            BY <4>2, <4>5, <5>2, SameTable, Table
          <6> QED
            BY <4>1, <4>2, <6>1, Table DEF Settled
        <5>3. CASE ~Chosen(r)
          <6>1. r \in w.os /\ ~Known(r)
            BY <4>2, <5>1, <5>3, SameTable, Table
          <6>2. From(r) = "os"
            BY <6>1 DEF From, Source, Known
          <6> QED
            BY <4>1, <6>2 DEF Settled
        <5> QED
          BY <5>2, <5>3
      <4> QED
        BY <4>3, <4>4, <4>5
    <3> QED
      BY <2>1, <3>1, Table
  <2> QED
    BY <2>2, <2>3
<1>4. k \in Good("run") => k \in S
  <2>1. S \in SUBSET Name /\ \A x \in Name : Composable("run", x, S) => x \in S
    BY <1>3
  <2> HIDE DEF S
  <2> QED
    BY <2>1 DEF Good
<1> QED
  BY <1>2, <1>4

(* The same names have the same value.                                     *)
LEMMA SameMeaning ==
    ASSUME w \in Worlds, Comparable, NEW k \in Name
    PROVE  Meaning(w.mode, k) = Meaning("run", k)
<1>1. PICK V : /\ Unfolds(w.mode, V)
               /\ \A n : Meaning(w.mode, n) = V[Cardinality(Name)][n]
  BY MeaningUnfolds
<1>2. PICK R : /\ Unfolds("run", R)
               /\ \A n : Meaning("run", n) = R[Cardinality(Name)][n]
  BY MeaningUnfolds
<1> DEFINE S == {d \in Nat : \A n \in Name : V[d][n] = R[d][n]}
<1>3. ASSUME NEW d \in Nat, d # 0 => d - 1 \in S, NEW n \in Name
      PROVE  V[d][n] = R[d][n]
  <2> DEFINE mine(i) == IF From(Text(n)[i]) = "os" \/ d = 0
                        THEN OsValue(Text(n)[i]) ELSE V[d - 1][Text(n)[i]]
             theirs(i) == IF Source("run", Text(n)[i]) = "os" \/ d = 0
                          THEN OsValue(Text(n)[i]) ELSE R[d - 1][Text(n)[i]]
  <2>1. V[d][n] = IF Opaque(n) THEN OsValue(n)
                  ELSE Composed(n, [i \in DOMAIN Text(n) |-> mine(i)])
    BY <1>1, UnfoldsAt DEF Unfold, Text, From
  <2>2. R[d][n] = IF Opaque(n) THEN OsValue(n)
                  ELSE Composed(n, [i \in DOMAIN Text(n) |-> theirs(i)])
    <3>1. Refs("run", n) = Text(n)
      BY SameTable
    <3>2. R[d][n] = Unfold("run", R, d, n)
      BY <1>2 DEF Unfolds
    <3> QED
      BY <3>1, <3>2 DEF Unfold
  <2>3. ASSUME NEW i \in DOMAIN Text(n)
        PROVE  mine(i) = theirs(i)
    <3>1. PICK r : r = Text(n)[i]
      OBVIOUS
    <3>2. r \in Name
      BY <3>1, TextType
    <3>3. CASE d = 0 \/ Source("run", r) = "os"
      BY <3>1, <3>2, <3>3, SameTable
    <3>4. CASE d # 0 /\ From(r) # "os"
      <4>1. Source("run", r) # "os" /\ V[d - 1][r] = R[d - 1][r]
        BY <1>3, <3>2, <3>4, SameTable
      <4> QED
        BY <3>1, <3>4, <4>1
    <3>5. CASE d # 0 /\ From(r) = "os" /\ Source("run", r) # "os"
      <4>1. Opaque(r) /\ d - 1 \in Nat
        BY <3>2, <3>5, SameTable
      <4>2. R[d - 1][r] = Unfold("run", R, d - 1, r)
        BY <1>2, <3>2, <4>1 DEF Unfolds
      <4> QED
        BY <3>1, <3>5, <4>1, <4>2 DEF Unfold
    <3> QED
      BY <3>3, <3>4, <3>5
  <2> HIDE DEF mine, theirs
  <2> QED
    BY <2>1, <2>2, <2>3
<1>4. 0 \in S
  BY <1>3
<1>5. ASSUME NEW d \in Nat, d \in S
      PROVE  d + 1 \in S
  <2>1. d + 1 \in Nat /\ d + 1 - 1 \in S
    BY <1>5
  <2>2. \A n \in Name : V[d + 1][n] = R[d + 1][n]
    BY <1>3, <2>1
  <2> QED
    BY <2>1, <2>2
<1>6. Cardinality(Name) \in Nat
  BY NameAssumption, FS_CardinalityType
<1>7. Cardinality(Name) \in S
  <2> HIDE DEF S
  <2> QED
    BY <1>4, <1>5, <1>6, SetInduction
<1> QED
  BY <1>1, <1>2, <1>7

(* A literal without a reference is its own meaning.                       *)
LEMMA LiteralMeaning ==
    ASSUME w \in Worlds, Comparable, NEW k \in Name, Judged(k)
    PROVE  LiteralValue(k) = Meaning("run", k) /\ k \in Good("run")
<1>1. Chosen(k) /\ Declared("run", k) /\ ~Unreadable("run", k)
  BY SameTable, Table DEF Judged
<1>2. k \in Namespace
  BY <1>1 DEF Judged, Explains, Chosen, Selected
<1>3. Opaque(k) \/ (w.leaf[k].refs = <<>> /\ Refs("run", k) = <<>>)
  BY <1>2 DEF Judged, Literal, Comparable, Refs
<1>4. k \in Good("run")
  BY <1>1, <1>3, GoodClosed DEF Composable
<1>5. PICK R : /\ Unfolds("run", R)
               /\ \A n : Meaning("run", n) = R[Cardinality(Name)][n]
  BY MeaningUnfolds
<1>6. Cardinality(Name) \in Nat
  BY NameAssumption, FS_CardinalityType
<1>7. Meaning("run", k) = Unfold("run", R, Cardinality(Name), k)
  BY <1>5, <1>6 DEF Unfolds
<1>8. CASE Opaque(k)
  BY <1>4, <1>7, <1>8 DEF Unfold, LiteralValue
<1>9. CASE ~Opaque(k)
  <2>1. Meaning("run", k) = Composed(k, <<>>)
    BY <1>3, <1>7, <1>9 DEF Unfold
  <2> QED
    BY <1>3, <1>4, <1>9, <2>1 DEF LiteralValue
<1> QED
  BY <1>8, <1>9

(* Where everything can be read, get, diff and explain give a key the      *)
(* value that run gives it, or fail where run fails (get.go:49-51,         *)
(* diff.go:78-79, explain.go:200-203).                                     *)
THEOREM CommandsAgree == Spec => []AgreesWithRun
<1>1. Init => JudgedOK
  BY DEF Init, JudgedOK
<1>2. IInv /\ JudgedOK /\ [Next]_vars => JudgedOK'
  BY JudgedStep
<1>3. ASSUME IInv, OutOK, DepthOK, JudgedOK
      PROVE  AgreesWithRun
  <2> SUFFICES ASSUME Comparable, NEW k \in Name
               PROVE  /\ answer[k] # "none" =>
                             (answer[k] = "ok" <=> k \in Good("run"))
                      /\ k \in DOMAIN out /\ answer[k] = "ok" =>
                             out[k] = Meaning("run", k)
    BY DEF AgreesWithRun, Comparable
  <2>1. /\ w \in Worlds
        /\ answer[k] \in {"none", "ok", "circular", "unresolved"}
    BY <1>3 DEF IInv, TypeOK
  <2>2. answer[k] = "ok" => k \in Good("run")
    BY <1>3, <2>1, SameGood, LiteralMeaning DEF JudgedOK
  <2>3. ASSUME answer[k] \in {"circular", "unresolved"}
        PROVE  k \notin Good("run")
    <3>1. Chosen(k)
      BY <1>3, <2>3 DEF JudgedOK
    <3>2. CASE ~Fine(k)
      BY <2>1, <3>1, <3>2, SameGood
    <3>3. CASE ~Opaque(k) /\ w.leaf[k].broken /\ Explains
      <4>1. k \in Namespace /\ ~Unreadable("run", k)
        BY <3>1, <3>3 DEF Explains, Chosen, Selected, Comparable
      <4> QED
        BY <3>3, <4>1 DEF Unreadable, Masked
    <3> QED
      BY <1>3, <2>3, <3>2, <3>3 DEF JudgedOK
  <2>4. ASSUME k \in DOMAIN out, answer[k] = "ok"
        PROVE  out[k] = Meaning("run", k)
    <3>1. CASE k \in DOMAIN cache /\ out[k] = cache[k]
      <4>1. cache[k] = Meaning(w.mode, k)
        BY <1>3, <3>1, CachedMeaning
      <4> QED
        BY <2>1, <3>1, <4>1, SameMeaning
    <3>2. CASE Judged(k) /\ out[k] = LiteralValue(k)
      BY <2>1, <3>2, LiteralMeaning
    <3> QED
      BY <1>3, <2>4, <3>1, <3>2 DEF OutOK, ReturnsOK
  <2> QED
    BY <2>1, <2>2, <2>3, <2>4
<1> QED
  BY <1>1, <1>2, <1>3, DepthInvariant, PTL DEF Spec
=============================================================================
