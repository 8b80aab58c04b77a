------------------------ MODULE WorktreeReads_proofs ------------------------
(***************************************************************************)
(* What the commands that compose environments make of the files they      *)
(* read, in any workspace, for any number of includes, environments and    *)
(* keys, and whatever else changes the files in the meantime.              *)
(***************************************************************************)
EXTENDS Worktree_proofs, SequenceTheorems, WellFoundedInduction

-----------------------------------------------------------------------------
(* Induction over the natural numbers, in terms of sets.                   *)

LEMMA NatMin ==
    ASSUME NEW T \in SUBSET Nat, T # {}
    PROVE  \E x \in T : \A y \in T : x <= y
<1> DEFINE R == OpToRel(<, Nat)
<1>1. IsWellFoundedOn(R, Nat)
  BY NatLessThanWellFounded
<1>2. \A x, y \in Nat : <<y, x>> \in R <=> y < x
  BY DEF OpToRel
<1> HIDE DEF R
<1>3. PICK x \in T : \A y \in T : ~(<<y, x>> \in R)
  BY <1>1, WFMin
<1>4. \A y \in T : ~(y < x)
  BY <1>2, <1>3
<1> QED
  BY <1>4

LEMMA SetInduction ==
    ASSUME NEW S, 0 \in S, \A n \in Nat : n \in S => n + 1 \in S
    PROVE  Nat \subseteq S
<1> SUFFICES ASSUME Nat \ S # {} PROVE FALSE
  OBVIOUS
<1>1. PICK x \in Nat \ S : \A y \in Nat \ S : x <= y
  BY NatMin
<1>2. x - 1 \in Nat /\ x - 1 \in S /\ x = (x - 1) + 1
  BY <1>1
<1> QED
  BY <1>1, <1>2

-----------------------------------------------------------------------------
(* Sequences that are built one after the other.                           *)

\* g joins the first k sequences, one after the other.
Flattening(g, seqs, k) ==
    g = [i \in 1..k |-> IF i = 1 THEN seqs[i] ELSE g[i - 1] \o seqs[i]]

LEMMA FlatteningExists ==
    ASSUME NEW seqs, NEW N \in Nat PROVE \E g : Flattening(g, seqs, N)
<1> DEFINE S == {k \in Nat : \E g : Flattening(g, seqs, k)}
<1>1. 0 \in S
  <2>1. Flattening([i \in 1..0 |-> 0], seqs, 0)
    BY DEF Flattening
  <2> QED
    BY <2>1
<1>2. ASSUME NEW k \in Nat, k \in S PROVE k + 1 \in S
  <2>1. PICK g : Flattening(g, seqs, k)
    BY <1>2
  <2> DEFINE h == [i \in 1..(k + 1) |->
                     IF i = k + 1 THEN IF i = 1 THEN seqs[i] ELSE g[k] \o seqs[i] ELSE g[i]]
  <2>2. \A i \in 1..k : h[i] = g[i]
    OBVIOUS
  <2>3. ASSUME NEW i \in 1..(k + 1)
        PROVE  h[i] = IF i = 1 THEN seqs[i] ELSE h[i - 1] \o seqs[i]
    <3>1. CASE i = k + 1
      <4>1. i # 1 => i - 1 = k /\ k \in 1..k
        BY <3>1
      <4> QED
        BY <2>2, <3>1, <4>1
    <3>2. CASE i # k + 1
      <4>1. i \in 1..k /\ (i # 1 => i - 1 \in 1..k)
        BY <3>2
      <4>2. g[i] = IF i = 1 THEN seqs[i] ELSE g[i - 1] \o seqs[i]
        BY <2>1, <4>1 DEF Flattening
      <4> QED
        BY <2>2, <4>1, <4>2
    <3> QED
      BY <3>1, <3>2
  <2>4. h = [i \in 1..(k + 1) |-> h[i]]
    OBVIOUS
  <2> HIDE DEF h
  <2>5. Flattening(h, seqs, k + 1)
    BY <2>3, <2>4 DEF Flattening
  <2> QED
    BY <2>5
<1> HIDE DEF S
<1>3. N \in S
  BY <1>1, <1>2, SetInduction
<1> QED
  BY <1>3 DEF S

\* The words of a path, joined, are a sequence of words.
LEMMA FlattenText ==
    ASSUME NEW seqs \in Seq(Seq(STRING))
    PROVE  FlattenSeq(seqs) \in Seq(STRING)
<1> DEFINE N == Len(seqs)
           f == CHOOSE g : Flattening(g, seqs, N)
           T == {k \in Nat : k \in 1..N => f[k] \in Seq(STRING)}
<1>1. Flattening(f, seqs, N)
  <2>1. N \in Nat
    OBVIOUS
  <2>2. \E g : Flattening(g, seqs, N)
    BY <2>1, FlatteningExists
  <2> QED
    BY <2>2
<1>2. N # 0 => FlattenSeq(seqs) = f[N]
  <2> SUFFICES ASSUME Len(seqs) # 0
      PROVE  FlattenSeq(seqs) = (CHOOSE g : Flattening(g, seqs, Len(seqs)))[Len(seqs)]
    OBVIOUS
  <2> QED
    BY Zenon DEF FlattenSeq, Flattening
<1>3. N = 0 => FlattenSeq(seqs) = seqs
  BY DEF FlattenSeq
<1> HIDE DEF f
<1>4. \A i \in 1..N : f[i] = IF i = 1 THEN seqs[i] ELSE f[i - 1] \o seqs[i]
  BY <1>1 DEF Flattening
<1>5. 0 \in T
  OBVIOUS
<1>6. ASSUME NEW k \in Nat, k \in T PROVE k + 1 \in T
  <2>1. CASE k + 1 \in 1..N
    <3>1. (k + 1) - 1 = k /\ (k + 1 # 1 => k \in 1..N)
      BY <2>1
    <3>2. f[k + 1] = IF k + 1 = 1 THEN seqs[k + 1] ELSE f[k] \o seqs[k + 1]
      BY <1>4, <2>1, <3>1
    <3>3. seqs[k + 1] \in Seq(STRING) /\ (k + 1 # 1 => f[k] \in Seq(STRING))
      BY <1>6, <2>1, <3>1
    <3>4. f[k + 1] \in Seq(STRING)
      <4> DEFINE a == f[k]
                 b == seqs[k + 1]
                 c == f[k + 1]
      <4>1. c = IF k + 1 = 1 THEN b ELSE a \o b
        BY <3>2
      <4>2. b \in Seq(STRING) /\ (k + 1 # 1 => a \in Seq(STRING))
        BY <3>3
      <4> HIDE DEF a, b, c
      <4>3. CASE k + 1 = 1
        BY <4>1, <4>2, <4>3 DEF c
      <4>4. CASE k + 1 # 1
        <5>1. c = a \o b /\ a \in Seq(STRING) /\ b \in Seq(STRING)
          BY <4>1, <4>2, <4>4
        <5>2. a \o b \in Seq(STRING)
          BY <5>1
        <5> QED
          BY <5>1, <5>2 DEF c
      <4> QED
        BY <4>3, <4>4
    <3> QED
      BY <3>4
  <2>2. CASE k + 1 \notin 1..N
    BY <2>2
  <2> QED
    BY <2>1, <2>2
<1> HIDE DEF T
<1>7. N \in T
  BY <1>5, <1>6, SetInduction
<1>8. N # 0 => f[N] \in Seq(STRING)
  BY <1>7 DEF T
<1>9. N = 0 => seqs = <<>>
  OBVIOUS
<1> QED
  BY <1>2, <1>3, <1>8, <1>9

LEMMA EnvKeyText == ASSUME NEW path \in Seq(Part) PROVE EnvKey(path) \in Seq(STRING)
<1> DEFINE words == [i \in DOMAIN path |-> Words[path[i]]]
<1>1. words \in Seq(Seq(STRING))
  <2>1. \A i \in 1..Len(path) : path[i] \in Part
    OBVIOUS
  <2>2. DOMAIN path = 1..Len(path) /\ Len(path) \in Nat
    OBVIOUS
  <2>3. \A i \in 1..Len(path) : words[i] \in Seq(STRING)
    BY <2>1, <2>2, WordsAssumption
  <2>4. words = [i \in 1..Len(path) |-> words[i]]
    BY <2>2
  <2> HIDE DEF words
  <2> QED
    BY <2>2, <2>3, <2>4
<1> HIDE DEF words
<1>2. FlattenSeq(words) \in Seq(STRING)
  BY <1>1, FlattenText
<1> QED
  BY <1>2 DEF EnvKey, words

\* Cutting off what was put around a sequence.
LEMMA Unwrapping ==
    ASSUME NEW p \in Seq(STRING), NEW k \in Seq(STRING), NEW s \in Seq(STRING)
    PROVE  /\ p \o k \o s \in Seq(STRING)
           /\ SubSeq(p \o k \o s, Len(p) + 1, Len(p \o k \o s) - Len(s)) = k
<1> DEFINE w == p \o k \o s
           u == SubSeq(w, Len(p) + 1, Len(w) - Len(s))
<1>1. w \in Seq(STRING) /\ Len(w) = Len(p) + Len(k) + Len(s)
  OBVIOUS
<1>2. \A i \in 1..Len(k) : w[Len(p) + i] = k[i]
  OBVIOUS
<1> HIDE DEF w
<1>3. u \in Seq(STRING) /\ Len(u) = Len(k) /\ \A i \in 1..Len(k) : u[i] = w[Len(p) + i]
  BY <1>1
<1>4. u = k
  BY <1>2, <1>3
<1> QED
  BY <1>1, <1>4 DEF w

\* f[n] is the sequence of those of the first n elements of s that are in S.
FilteringTo(f, s, S, k) ==
    f = [n \in 0..k |->
            IF n = 0 THEN <<>>
            ELSE IF s[n] \in S THEN Append(f[n - 1], s[n]) ELSE f[n - 1]]
Filtering(f, s, S) == FilteringTo(f, s, S, Len(s))

LEMMA FilteringExists ==
    ASSUME NEW s, NEW S, NEW N \in Nat PROVE \E f : FilteringTo(f, s, S, N)
<1> DEFINE K == {k \in Nat : \E g : FilteringTo(g, s, S, k)}
<1>1. 0 \in K
  <2>1. FilteringTo([n \in 0..0 |-> <<>>], s, S, 0)
    BY DEF FilteringTo
  <2> QED
    BY <2>1
<1>2. ASSUME NEW k \in Nat, k \in K PROVE k + 1 \in K
  <2>1. PICK g : FilteringTo(g, s, S, k)
    BY <1>2
  <2> DEFINE h == [n \in 0..(k + 1) |-> IF n = k + 1
                     THEN IF s[n] \in S THEN Append(g[k], s[n]) ELSE g[k] ELSE g[n]]
  <2>2. \A n \in 0..k : h[n] = g[n]
    OBVIOUS
  <2>3. ASSUME NEW n \in 0..(k + 1)
        PROVE  h[n] = IF n = 0 THEN <<>>
                      ELSE IF s[n] \in S THEN Append(h[n - 1], s[n]) ELSE h[n - 1]
    <3>1. CASE n = k + 1
      <4>1. n # 0 /\ n - 1 = k /\ k \in 0..k
        BY <3>1
      <4> QED
        BY <2>2, <3>1, <4>1
    <3>2. CASE n # k + 1
      <4>1. n \in 0..k /\ (n # 0 => n - 1 \in 0..k)
        BY <3>2
      <4>2. g[n] = IF n = 0 THEN <<>>
               ELSE IF s[n] \in S THEN Append(g[n - 1], s[n]) ELSE g[n - 1]
        BY <2>1, <4>1 DEF FilteringTo
      <4> QED
        BY <2>2, <4>1, <4>2
    <3> QED
      BY <3>1, <3>2
  <2>4. h = [n \in 0..(k + 1) |-> h[n]]
    OBVIOUS
  <2> HIDE DEF h
  <2>5. FilteringTo(h, s, S, k + 1)
    BY <2>3, <2>4 DEF FilteringTo
  <2> QED
    BY <2>5
<1> HIDE DEF K
<1>3. N \in K
  BY <1>1, <1>2, SetInduction
<1> QED
  BY <1>3 DEF K

LEMMA ThoseFiltered ==
    ASSUME NEW T, NEW s \in Seq(T), NEW S
    PROVE  \E f : Filtering(f, s, S) /\ Those(s, S) = f[Len(s)]
<1> DEFINE f == CHOOSE f : FilteringTo(f, s, S, Len(s))
<1>1. FilteringTo(f, s, S, Len(s))
  BY FilteringExists
<1>2. Those(s, S) = f[Len(s)]
  BY DEF Those, FilteringTo
<1> QED
  BY <1>1, <1>2 DEF Filtering

LEMMA FilteringStep ==
    ASSUME NEW f, NEW T, NEW s \in Seq(T), NEW S, Filtering(f, s, S)
    PROVE  /\ f[0] = <<>>
           /\ \A n \in Nat : n + 1 <= Len(s) =>
                 f[n + 1] = IF s[n + 1] \in S THEN Append(f[n], s[n + 1]) ELSE f[n]
<1>1. \A n \in 0..Len(s) : f[n] = IF n = 0 THEN <<>>
            ELSE IF s[n] \in S THEN Append(f[n - 1], s[n]) ELSE f[n - 1]
  BY DEF Filtering, FilteringTo
<1>2. ASSUME NEW n \in Nat, n + 1 <= Len(s)
      PROVE  f[n + 1] = IF s[n + 1] \in S THEN Append(f[n], s[n + 1]) ELSE f[n]
  <2>1. n + 1 \in 0..Len(s) /\ n + 1 # 0 /\ (n + 1) - 1 = n
    BY <1>2
  <2> QED
    BY <1>1, <2>1
<1> QED
  BY <1>1, <1>2

\* t consists of the elements of the first n of s that are in S.
Sifted(t, s, S, n) ==
    \A x : (\E i \in 1..Len(t) : t[i] = x) <=> (x \in S /\ \E i \in 1..n : s[i] = x)

LEMMA Filtered ==
    ASSUME NEW f, NEW T, NEW s \in Seq(T), NEW S, Filtering(f, s, S)
    PROVE  \A n \in 0..Len(s) : f[n] \in Seq(T) /\ Sifted(f[n], s, S, n)
<1> DEFINE K == {n \in Nat : n <= Len(s) => f[n] \in Seq(T) /\ Sifted(f[n], s, S, n)}
<1>1. 0 \in K
  <2>1. f[0] = <<>>
    BY FilteringStep
  <2>2. f[0] \in Seq(T) /\ Sifted(f[0], s, S, 0)
    BY <2>1 DEF Sifted
  <2> QED
    BY <2>2
<1>2. ASSUME NEW n \in Nat, n \in K PROVE n + 1 \in K
  <2> SUFFICES ASSUME n + 1 <= Len(s)
      PROVE  f[n + 1] \in Seq(T) /\ Sifted(f[n + 1], s, S, n + 1)
    OBVIOUS
  <2> DEFINE t == f[n]
             u == f[n + 1]
             x == s[n + 1]
  <2>1. t \in Seq(T) /\ Sifted(t, s, S, n)
    BY <1>2
  <2>2. u = IF x \in S THEN Append(t, x) ELSE t
    BY FilteringStep
  <2>3. x \in T
    OBVIOUS
  <2>4. \A y : (\E i \in 1..(n + 1) : s[i] = y) <=> (x = y \/ \E i \in 1..n : s[i] = y)
    OBVIOUS
  <2> HIDE DEF t, u, x
  <2>5. CASE x \in S
    <3>1. u = Append(t, x)
      BY <2>2, <2>5
    <3>2. u \in Seq(T) /\ Len(t) \in Nat /\ Len(u) = Len(t) + 1
      BY <2>1, <2>3, <3>1
    <3>3. u[Len(t) + 1] = x /\ \A i \in 1..Len(t) : u[i] = t[i]
      BY <2>1, <2>3, <3>1
    <3>4. ASSUME NEW y
          PROVE  (\E i \in 1..Len(u) : u[i] = y) <=> (x = y \/ \E i \in 1..Len(t) : t[i] = y)
      <4>1. 1..Len(u) = 1..Len(t) \cup {Len(t) + 1}
        BY <3>2
      <4> QED
        BY <3>3, <4>1
    <3>5. Sifted(u, s, S, n + 1)
      BY <2>1, <2>4, <2>5, <3>4 DEF Sifted
    <3> QED
      BY <3>2, <3>5 DEF u
  <2>6. CASE x \notin S
    <3>1. u = t
      BY <2>2, <2>6
    <3>2. Sifted(u, s, S, n + 1)
      BY <2>1, <2>4, <2>6, <3>1 DEF Sifted
    <3> QED
      BY <2>1, <3>1, <3>2 DEF u
  <2> QED
    BY <2>5, <2>6
<1> HIDE DEF K
<1>3. Nat \subseteq K
  BY <1>1, <1>2, SetInduction
<1>4. ASSUME NEW n \in 0..Len(s) PROVE f[n] \in Seq(T) /\ Sifted(f[n], s, S, n)
  <2>1. n \in K /\ n <= Len(s)
    BY <1>3
  <2> QED
    BY <2>1 DEF K
<1> QED
  BY <1>4

LEMMA ThoseAre ==
    ASSUME NEW T, NEW s \in Seq(T), NEW S
    PROVE  Those(s, S) \in Seq(T) /\ ToSet(Those(s, S)) = ToSet(s) \cap S
<1>1. PICK f : Filtering(f, s, S) /\ Those(s, S) = f[Len(s)]
  BY ThoseFiltered
<1> DEFINE t == f[Len(s)]
<1>2. t \in Seq(T) /\ Sifted(t, s, S, Len(s))
  <2>1. Len(s) \in 0..Len(s)
    OBVIOUS
  <2> QED
    BY <1>1, <2>1, Filtered
<1> HIDE DEF t
<1>3. ToSet(t) = ToSet(s) \cap S
  <2>1. DOMAIN t = 1..Len(t) /\ DOMAIN s = 1..Len(s)
    BY <1>2
  <2> QED
    BY <1>2, <2>1 DEF ToSet, Sifted
<1> QED
  BY <1>1, <1>2, <1>3 DEF t

-----------------------------------------------------------------------------
(* Layers.                                                                 *)

\* A value as merge.go carries it.
LeafOK(v) ==
    \/ v.kind = "opaque"
    \/ v.kind \in {"scalar", "list", "nested"} /\ v.items \in Seq(STRING)

\* The layers so far: each key is a sequence of words, each value a leaf.
StateOK(state) ==
    /\ DOMAIN state.origins = DOMAIN state.values
    /\ \A k \in DOMAIN state.values : k \in Seq(STRING) /\ LeafOK(state.values[k])

LEMMA FlatOK ==
    ASSUME NEW c, ContentOK(c)
    PROVE  /\ DOMAIN Flat(c) = Keys(c)
           /\ \A k \in Keys(c) : k \in Seq(STRING) /\ LeafOK(Flat(c)[k])
<1>1. ASSUME NEW k \in Keys(c) PROVE k \in Seq(STRING) /\ LeafOK(Flat(c)[k])
  <2>1. PathOf(c, k) \in Leaves(c.nodes) /\ EnvKey(PathOf(c, k)) = k
    BY DEF Keys, PathOf
  <2>2. Flat(c)[k] = c.nodes[PathOf(c, k)]
    BY DEF Flat
  <2>3. PathOf(c, k) \in Seq(Part) /\ LeafOK(c.nodes[PathOf(c, k)])
    BY <2>1 DEF Leaves, ContentOK, LeafOK
  <2> QED
    BY <2>1, <2>2, <2>3, EnvKeyText
<1> QED
  BY <1>1 DEF Flat

\* What integrating one namespace does to the values.
LEMMA Integrated ==
    ASSUME NEW state, NEW inc, NEW env, NEW base, NEW over,
           DOMAIN state.origins = DOMAIN state.values
    PROVE  LET new == Integrate(state, inc, env, base, over) IN
           /\ DOMAIN new.origins = DOMAIN new.values
           /\ DOMAIN new.values = DOMAIN state.values \cup Keys(base) \cup Keys(over)
           /\ \A k \in DOMAIN new.values :
                 new.values[k] = IF k \in Keys(over) THEN Flat(over)[k]
                                 ELSE IF k \in Keys(base) THEN Flat(base)[k]
                                 ELSE state.values[k]
<1> DEFINE flat == Over(Flat(over), Flat(base))
           new == Integrate(state, inc, env, base, over)
<1>1. DOMAIN Flat(over) = Keys(over) /\ DOMAIN Flat(base) = Keys(base)
  BY DEF Flat
<1>2. /\ DOMAIN flat = Keys(base) \cup Keys(over)
      /\ \A k \in DOMAIN flat : flat[k] = IF k \in Keys(over) THEN Flat(over)[k] ELSE Flat(base)[k]
  BY <1>1 DEF Over
<1>3. new.values = Over(flat, state.values)
  BY DEF Integrate
<1>4. DOMAIN new.origins = DOMAIN state.origins \cup DOMAIN flat
  BY DEF Integrate, Over
<1> HIDE DEF flat, new
<1>5. /\ DOMAIN new.values = DOMAIN state.values \cup DOMAIN flat
      /\ \A k \in DOMAIN new.values :
            new.values[k] = IF k \in DOMAIN flat THEN flat[k] ELSE state.values[k]
  BY <1>3 DEF Over
<1> QED
  BY <1>2, <1>4, <1>5 DEF new

LEMMA IntegrateOK ==
    ASSUME NEW state, StateOK(state), NEW inc, NEW env,
           NEW base, ContentOK(base), NEW over, ContentOK(over)
    PROVE  StateOK(Integrate(state, inc, env, base, over))
<1> DEFINE new == Integrate(state, inc, env, base, over)
<1>1. /\ DOMAIN new.origins = DOMAIN new.values
      /\ DOMAIN new.values = DOMAIN state.values \cup Keys(base) \cup Keys(over)
      /\ \A k \in DOMAIN new.values :
            new.values[k] = IF k \in Keys(over) THEN Flat(over)[k]
                            ELSE IF k \in Keys(base) THEN Flat(base)[k] ELSE state.values[k]
  BY Integrated DEF StateOK
<1> HIDE DEF new
<1>2. ASSUME NEW k \in DOMAIN new.values PROVE k \in Seq(STRING) /\ LeafOK(new.values[k])
  <2>1. CASE k \in Keys(over)
    BY <1>1, <2>1, FlatOK
  <2>2. CASE k \in Keys(base) /\ k \notin Keys(over)
    BY <1>1, <2>2, FlatOK
  <2>3. CASE k \notin Keys(base) /\ k \notin Keys(over)
    BY <1>1, <2>3 DEF StateOK
  <2> QED
    BY <2>1, <2>2, <2>3
<1>3. StateOK(new)
  BY <1>1, <1>2 DEF StateOK
<1> QED
  BY <1>3 DEF new

\* g[i] is what the first i of the includes compose to.
Composing(g, fs, includes, env, k) ==
    g = [i \in 0..k |->
            IF i = 0 THEN NoLayers
            ELSE Integrate(g[i - 1], includes[i], env, fs[Base(includes[i])],
                           ContentOr(fs, Overlay(includes[i], env)))]

LEMMA ComposingExists ==
    ASSUME NEW fs, NEW includes, NEW env, NEW N \in Nat
    PROVE  \E g : Composing(g, fs, includes, env, N)
<1> DEFINE add(state, i) == Integrate(state, includes[i], env, fs[Base(includes[i])],
                                      ContentOr(fs, Overlay(includes[i], env)))
           To(g, k) == g = [i \in 0..k |-> IF i = 0 THEN NoLayers ELSE add(g[i - 1], i)]
           K == {k \in Nat : \E g : Composing(g, fs, includes, env, k)}
<1>0. \A g, k : Composing(g, fs, includes, env, k) <=> To(g, k)
  BY DEF Composing
<1> HIDE DEF add
<1>1. 0 \in K
  <2>1. To([i \in 0..0 |-> NoLayers], 0)
    OBVIOUS
  <2> QED
    BY <1>0, <2>1
<1>2. ASSUME NEW k \in Nat, k \in K PROVE k + 1 \in K
  <2>1. PICK g : To(g, k)
    BY <1>0, <1>2
  <2> DEFINE h == [i \in 0..(k + 1) |-> IF i = k + 1 THEN add(g[k], i) ELSE g[i]]
  <2>2. \A i \in 0..k : h[i] = g[i]
    OBVIOUS
  <2>3. ASSUME NEW i \in 0..(k + 1)
        PROVE  h[i] = IF i = 0 THEN NoLayers ELSE add(h[i - 1], i)
    <3>1. CASE i = k + 1
      <4>1. i # 0 /\ i - 1 = k /\ k \in 0..k
        BY <3>1
      <4> QED
        BY <2>2, <3>1, <4>1
    <3>2. CASE i # k + 1
      <4>1. i \in 0..k /\ (i # 0 => i - 1 \in 0..k)
        BY <3>2
      <4>2. g[i] = IF i = 0 THEN NoLayers ELSE add(g[i - 1], i)
        BY <2>1, <4>1
      <4> QED
        BY <2>2, <4>1, <4>2
    <3> QED
      BY <3>1, <3>2
  <2>4. h = [i \in 0..(k + 1) |-> h[i]]
    OBVIOUS
  <2> HIDE DEF h
  <2>5. To(h, k + 1)
    BY <2>3, <2>4
  <2> HIDE DEF To
  <2>6. Composing(h, fs, includes, env, k + 1)
    BY <1>0, <2>5
  <2> QED
    BY <2>6
<1> HIDE DEF K
<1>3. N \in K
  BY <1>1, <1>2, SetInduction
<1> QED
  BY <1>3 DEF K

LEMMA ComposedOK ==
    ASSUME NEW fs, \A f \in DOMAIN fs : ContentOK(fs[f]),
           NEW includes, Len(includes) \in Nat, DOMAIN includes = 1..Len(includes),
           NEW env, NEW require
    PROVE  StateOK(Composed(fs, includes, env, require).state)
<1> DEFINE N == Len(includes)
           g == CHOOSE g : Composing(g, fs, includes, env, N)
           add(state, i) == Integrate(state, includes[i], env, fs[Base(includes[i])],
                                      ContentOr(fs, Overlay(includes[i], env)))
           loads == \A i \in DOMAIN includes : Loads(fs, includes[i], env, require)
<1>1. Composing(g, fs, includes, env, N)
  BY ComposingExists
<1>2. Composed(fs, includes, env, require).state = IF loads THEN g[N] ELSE NoLayers
  BY DEF Composed, Composing
<1> HIDE DEF g
<1>3. StateOK(NoLayers)
  BY DEF StateOK, NoLayers
<1>4. \A i \in 0..N : g[i] = IF i = 0 THEN NoLayers ELSE add(g[i - 1], i)
  BY <1>1 DEF Composing
<1>5. ASSUME loads PROVE StateOK(g[N])
  <2> DEFINE K == {k \in Nat : k <= N => StateOK(g[k])}
  <2>1. 0 \in K
    BY <1>3, <1>4
  <2>2. ASSUME NEW k \in Nat, k \in K PROVE k + 1 \in K
    <3> SUFFICES ASSUME k + 1 <= N PROVE StateOK(g[k + 1])
      OBVIOUS
    <3>1. k + 1 \in 0..N /\ k + 1 # 0 /\ (k + 1) - 1 = k /\ k + 1 \in DOMAIN includes
      OBVIOUS
    <3>2. g[k + 1] = add(g[k], k + 1)
      BY <1>4, <3>1
    <3>3. StateOK(g[k])
      BY <2>2
    <3>4. ContentOK(fs[Base(includes[k + 1])])
      BY <1>5, <3>1 DEF Loads
    <3>5. ContentOK(ContentOr(fs, Overlay(includes[k + 1], env)))
      BY EmptyOK DEF ContentOr
    <3> QED
      BY <3>2, <3>3, <3>4, <3>5, IntegrateOK
  <2> HIDE DEF K
  <2>3. N \in K
    BY <2>1, <2>2, SetInduction
  <2> QED
    BY <2>3 DEF K
<1> QED
  BY <1>2, <1>3, <1>5

\* The affixes change the names of the keys, and nothing else.
LEMMA AffixedAre ==
    ASSUME NEW state, \A k \in DOMAIN state.values : k \in Seq(STRING),
           NEW prefix \in Seq(STRING), NEW suffix \in Seq(STRING)
    PROVE  LET new == Affixed(state, prefix, suffix) IN
           /\ DOMAIN new.values = {prefix \o k \o suffix : k \in DOMAIN state.values}
           /\ DOMAIN new.origins = DOMAIN new.values
           /\ \A k \in DOMAIN state.values :
                 /\ new.values[prefix \o k \o suffix] = state.values[k]
                 /\ new.origins[prefix \o k \o suffix] = state.origins[k]
<1> DEFINE wrap(k) == prefix \o k \o suffix
           plain(k) == SubSeq(k, Len(prefix) + 1, Len(k) - Len(suffix))
           keys == {wrap(k) : k \in DOMAIN state.values}
           new == Affixed(state, prefix, suffix)
<1>1. \A k \in DOMAIN state.values : plain(wrap(k)) = k
  BY Unwrapping
<1>2. /\ new.values = [k \in keys |-> state.values[plain(k)]]
      /\ new.origins = [k \in keys |-> state.origins[plain(k)]]
  BY DEF Affixed
<1> HIDE DEF wrap, plain, new
<1>3. /\ DOMAIN new.values = keys /\ DOMAIN new.origins = keys
      /\ \A k \in DOMAIN state.values :
            new.values[wrap(k)] = state.values[k] /\ new.origins[wrap(k)] = state.origins[k]
  BY <1>1, <1>2
<1> QED
  BY <1>3 DEF wrap, new

LEMMA AffixedOK ==
    ASSUME NEW state, StateOK(state), NEW prefix \in Seq(STRING), NEW suffix \in Seq(STRING)
    PROVE  StateOK(Affixed(state, prefix, suffix))
<1> DEFINE new == Affixed(state, prefix, suffix)
<1>1. /\ DOMAIN new.values = {prefix \o k \o suffix : k \in DOMAIN state.values}
      /\ DOMAIN new.origins = DOMAIN new.values
      /\ \A k \in DOMAIN state.values : new.values[prefix \o k \o suffix] = state.values[k]
  <2>1. \A k \in DOMAIN state.values : k \in Seq(STRING)
    BY DEF StateOK
  <2> QED
    BY <2>1, AffixedAre
<1> HIDE DEF new
<1>2. ASSUME NEW w \in DOMAIN new.values PROVE w \in Seq(STRING) /\ LeafOK(new.values[w])
  <2>1. PICK k \in DOMAIN state.values : w = prefix \o k \o suffix
    BY <1>1
  <2>2. k \in Seq(STRING) /\ LeafOK(state.values[k])
    BY DEF StateOK
  <2> QED
    BY <1>1, <2>1, <2>2, Unwrapping
<1>3. StateOK(new)
  BY <1>1, <1>2 DEF StateOK
<1> QED
  BY <1>3 DEF new

\* A variable of the OS may take the place of a value.
LEMMA SelectedAre ==
    ASSUME NEW state, DOMAIN state.origins = DOMAIN state.values,
           NEW os, NEW overload, NEW union
    PROVE  LET new == Selected(state, os, overload, union) IN
           /\ DOMAIN new.values = DOMAIN state.values \cup (IF union THEN os ELSE {})
           /\ DOMAIN new.origins = DOMAIN new.values
           /\ \A k \in DOMAIN new.values :
                 new.values[k] = IF k \in os /\ (~overload \/ k \notin DOMAIN state.values)
                                 THEN Opaque("os") ELSE state.values[k]
<1> DEFINE shared == os \cap DOMAIN state.values
           wins == (IF overload THEN {} ELSE shared) \cup (IF union THEN os \ shared ELSE {})
           new == Selected(state, os, overload, union)
<1>1. new.values = Over([k \in wins |-> Opaque("os")], state.values)
  BY DEF Selected
<1>2. DOMAIN new.origins = DOMAIN state.origins \cup wins \cup shared
  BY DEF Selected, Over
<1> HIDE DEF new
<1>3. /\ DOMAIN new.values = DOMAIN state.values \cup wins
      /\ \A k \in DOMAIN new.values :
            new.values[k] = IF k \in wins THEN Opaque("os") ELSE state.values[k]
  BY <1>1 DEF Over
<1>4. DOMAIN new.values = DOMAIN state.values \cup (IF union THEN os ELSE {})
  BY <1>3
<1>5. \A k \in DOMAIN new.values :
         k \in wins <=> k \in os /\ (~overload \/ k \notin DOMAIN state.values)
  BY <1>3
<1> QED
  BY <1>2, <1>3, <1>4, <1>5 DEF new

-----------------------------------------------------------------------------
(* Settings.                                                               *)

ParamsOK(params) ==
    /\ params.prefix \in Seq(STRING) /\ params.suffix \in Seq(STRING)
    /\ params.overload \in BOOLEAN /\ params.require \in BOOLEAN
    /\ params.includes \in Seq([dir : Seq(STRING), stem : Seq(STRING)])
    /\ params.environments \in Seq(Seq(STRING))

Text == Seq(STRING) \cup {Unset}

\* The first of two layers that says something, if neither flag nor variable does.
LEMMA PrecedenceText ==
    ASSUME NEW a \in Text, NEW b \in Text, NEW c \in Text, NEW d \in Text
    PROVE  PrecedenceString(a, b, <<c, d>>) \in Seq(STRING)
<1> DEFINE layers == <<c, d>>
           I == {i \in 1..2 : layers[i] \notin {Unset, <<>>}}
           least == CHOOSE x \in I : \A y \in I : x <= y
<1>1. Len(layers) = 2
  OBVIOUS
<1>2. PrecedenceString(a, b, layers) =
          IF a # Unset THEN a ELSE IF b # Unset THEN b
          ELSE IF (IF I # {} THEN least ELSE 0) # 0
               THEN layers[IF I # {} THEN least ELSE 0] ELSE <<>>
  BY <1>1 DEF PrecedenceString, SelectInSeq, Min
<1>3. I # {} => least \in I /\ least \in 1..2
  <2>1. I \in SUBSET Nat
    OBVIOUS
  <2> QED
    BY <2>1, NatMin
<1>4. /\ \A i \in I : layers[i] \in Seq(STRING)
      /\ a # Unset => a \in Seq(STRING)
      /\ b # Unset => b \in Seq(STRING)
  BY DEF Text
<1>5. <<>> \in Seq(STRING)
  OBVIOUS
<1> HIDE DEF layers, I, least
<1>6. PrecedenceString(a, b, layers) \in Seq(STRING)
  BY <1>2, <1>3, <1>4, <1>5
<1> QED
  BY <1>6 DEF layers

LEMMA SettledOK ==
    ASSUME NEW m, ManifestOK(m), NEW project \in DOMAIN m.projects,
           NEW flags, SettingsOK(flags), NEW variables, SettingsOK(variables)
    PROVE  ParamsOK(EnvmergeParams(m, project, flags, variables))
<1> DEFINE params == EnvmergeParams(m, project, flags, variables)
           text(field) == PrecedenceString(flags[field], variables[field],
                              <<m.projects[project].settings[field], m.settings[field]>>)
<1>1. /\ params.prefix = text("prefix") /\ params.suffix = text("suffix")
      /\ params.includes = m.projects[project].includes
      /\ params.environments = m.environments
  BY DEF EnvmergeParams
<1>2. params.overload \in BOOLEAN /\ params.require \in BOOLEAN
  BY DEF EnvmergeParams, PrecedenceBool
<1>3. ASSUME NEW field \in {"prefix", "suffix"} PROVE text(field) \in Seq(STRING)
  BY PrecedenceText DEF ManifestOK, SettingsOK, Text
<1> HIDE DEF params, text
<1>4. ParamsOK(params)
  BY <1>1, <1>2, <1>3 DEF ParamsOK, ManifestOK
<1> QED
  BY <1>4 DEF params

LEMMA NoSettingsOK == SettingsOK(NoSettings)
BY DEF SettingsOK, NoSettings

\* What explain finds is typed, whatever it finds.
LEMMA MergedOK ==
    ASSUME \A f \in DOMAIN files : ContentOK(files[f]), NEW params, ParamsOK(params),
           NEW env, NEW os
    PROVE  \A k \in DOMAIN Merged(params, env, os).state.values :
              LeafOK(Merged(params, env, os).state.values[k])
<1> DEFINE composed == Composed(files, params.includes, env, params.require).state
           affixed == Affixed(composed, params.prefix, params.suffix)
           new == Merged(params, env, os).state
<1>1. new = Selected(affixed, os, params.overload, FALSE)
  BY DEF Merged
<1>2. StateOK(composed)
  <2>1. Len(params.includes) \in Nat /\ DOMAIN params.includes = 1..Len(params.includes)
    BY DEF ParamsOK
  <2> QED
    BY <2>1, ComposedOK
<1> HIDE DEF composed
<1>3. StateOK(affixed)
  BY <1>2, AffixedOK DEF ParamsOK
<1> HIDE DEF affixed, new
<1>4. /\ DOMAIN new.values = DOMAIN affixed.values
      /\ \A k \in DOMAIN new.values :
            new.values[k] = IF k \in os /\ (~params.overload \/ k \notin DOMAIN affixed.values)
                            THEN Opaque("os") ELSE affixed.values[k]
  <2>1. DOMAIN affixed.origins = DOMAIN affixed.values /\ params.overload \in BOOLEAN
    BY <1>3 DEF StateOK, ParamsOK
  <2>3. PICK union \in BOOLEAN : ~union /\ new = Selected(affixed, os, params.overload, union)
    BY <1>1
  <2> DEFINE sel == Selected(affixed, os, params.overload, union)
  <2>2. /\ DOMAIN sel.values = DOMAIN affixed.values \cup (IF union THEN os ELSE {})
        /\ \A k \in DOMAIN sel.values :
              sel.values[k] = IF k \in os /\ (~params.overload \/ k \notin DOMAIN affixed.values)
                              THEN Opaque("os") ELSE affixed.values[k]
    BY <2>1, SelectedAre
  <2> QED
    BY <2>2, <2>3
<1>5. LeafOK(Opaque("os"))
  BY DEF LeafOK, Opaque
<1> QED
  BY <1>3, <1>4, <1>5 DEF StateOK, new

-----------------------------------------------------------------------------
(* A command whose clock shows nothing sees what it saw when it began.     *)

Clocks == {"pack", "validate", "emit"}

LEMMA QuietStep ==
    ASSUME DOMAIN touched = Clocks, NEW c \in Clocks, [Next]_vars, touched'[c] = {}
    PROVE  /\ scenario' = scenario
           /\ \/ c = "pack" /\ PackStart
              \/ c = "validate" /\ ValidateStart
              \/ c = "emit" /\ EmitStart
              \/ touched[c] = {} /\ UNCHANGED <<files, manifest, store>>
<1>1. ASSUME NEW kind \in {"files", "manifest", "store", "ignore"}, Touches(kind) PROVE FALSE
  BY <1>1 DEF Touches
<1>2. CASE Edit
  BY <1>1, <1>2 DEF Edit
<1>3. CASE SetNext \/ CreateNext
  <2>1. UNCHANGED workspace \/ Touches("files")
    BY <1>3 DEF CreateNext, CreateStart, CheckConflict, CreateWrite, CreateFails, SetNext,
       SetRead, SetWrite, SetFails
  <2> QED
    BY <1>1, <2>1 DEF workspace
<1>4. CASE IgnoreNext
  BY <1>4 DEF IgnoreNext, CheckIgnore, ReadIgnore, WriteIgnore, IgnoreFails, workspace
<1>5. CASE MergeNext /\ UNCHANGED workspace
  BY <1>5 DEF workspace
<1>6. CASE PackNext
  <2>1. UNCHANGED workspace \/ PackStart
    BY <1>6 DEF PackNext, Plan, Rewrite, Clear, WriteManifest, Copy, Scan, CopySecrets, PackFails
  <2>2. CASE PackStart
    BY <2>2 DEF PackStart, Begins, Clocks
  <2> QED
    BY <2>1, <2>2 DEF workspace
<1>7. CASE ValidateNext
  <2>1. UNCHANGED workspace \/ ValidateStart
    BY <1>7 DEF ValidateNext, ResolveNext, DiagnoseNext, CheckSecrets, CheckPublicKeys,
       CheckKeypairs, Grade
  <2>2. CASE ValidateStart
    BY <2>2 DEF ValidateStart, Begins, Clocks
  <2> QED
    BY <2>1, <2>2 DEF workspace
<1>8. CASE EmitNext
  <2>1. UNCHANGED workspace \/ EmitStart
    BY <1>8 DEF EmitNext, EmitExplain, EmitEntries, EmitWrite, EmitFails
  <2>2. CASE EmitStart
    BY <2>2 DEF EmitStart, Begins, Clocks
  <2> QED
    BY <2>1, <2>2 DEF workspace
<1>9. CASE UNCHANGED vars
  BY <1>9 DEF vars, workspace
<1> QED
  BY <1>2, <1>3, <1>4, <1>5, <1>6, <1>7, <1>8, <1>9 DEF Next

LEMMA ClocksStep == ASSUME DOMAIN touched = Clocks, [Next]_vars PROVE DOMAIN touched' = Clocks
<1>1. \/ UNCHANGED touched
      \/ \E kind \in {"files", "manifest", "store", "ignore"} : Touches(kind)
      \/ \E command \in Clocks : Begins(command)
  BY DEF Next, vars, workspace, CreateNext, CreateStart, CheckConflict, CreateWrite,
     CreateFails, SetNext, SetRead, SetWrite, SetFails, MergeNext, IgnoreNext, CheckIgnore,
     ReadIgnore, WriteIgnore, IgnoreFails, PackNext, PackStart, Plan, Rewrite, Clear,
     WriteManifest, Copy, Scan, CopySecrets, PackFails, ValidateNext, ValidateStart,
     ResolveNext, DiagnoseNext, CheckSecrets, CheckPublicKeys, CheckKeypairs, Grade, EmitNext,
     EmitStart, EmitExplain, EmitEntries, EmitWrite, EmitFails, Edit, Clocks
<1> QED
  BY <1>1 DEF Touches, Begins

-----------------------------------------------------------------------------
(* emit: what a value comes to.                                            *)

LEMMA RankIs ==
    ASSUME NEW c
    PROVE  /\ Rank(c) \in {0, 1, 2} /\ (Rank(c) = 0 <=> c = "ok")
           /\ (Rank(c) = 1 <=> c = "private_key_is_unavailable")
BY DEF Rank

\* The worst of the items is one of them, and none is worse.
LEMMA WorstIs ==
    ASSUME NEW items \in Seq(STRING), items # <<>>, NEW st, NEW held
    PROVE  \E j \in DOMAIN items :
              /\ Worst(items, st, held) = Code(items[j], st, held)
              /\ \A i \in DOMAIN items :
                    Rank(Code(items[i], st, held)) <= Rank(Code(items[j], st, held))
<1> DEFINE code(i) == Code(items[i], st, held)
           worst == {i \in DOMAIN items : \A j \in DOMAIN items : Rank(code(j)) <= Rank(code(i))}
           first == CHOOSE i \in worst : \A j \in worst : i <= j
<1>1. DOMAIN items = 1..Len(items) /\ Len(items) \in Nat /\ 1 \in DOMAIN items
  OBVIOUS
<1>2. Worst(items, st, held) = code(first)
  BY DEF Worst
<1>3. first \in worst
  <2> HIDE DEF code
  <2>1. \A i \in DOMAIN items : Rank(code(i)) \in {0, 1, 2}
    BY RankIs
  <2>2. worst # {}
    <3>1. CASE \E i \in DOMAIN items : Rank(code(i)) = 2
      BY <2>1, <3>1
    <3>2. CASE /\ \A i \in DOMAIN items : Rank(code(i)) # 2
               /\ \E i \in DOMAIN items : Rank(code(i)) = 1
      BY <2>1, <3>2
    <3>3. CASE \A i \in DOMAIN items : Rank(code(i)) = 0
      BY <1>1, <3>3
    <3> QED
      BY <2>1, <3>1, <3>2, <3>3
  <2>3. worst \in SUBSET Nat
    BY <1>1
  <2> HIDE DEF worst
  <2> QED
    BY <2>2, <2>3, NatMin
<1> HIDE DEF first
<1>4. first \in DOMAIN items /\ \A i \in DOMAIN items : Rank(code(i)) <= Rank(code(first))
  BY <1>3
<1> QED
  BY <1>2, <1>4

\* It is ok exactly if each of them is.
LEMMA WorstOk ==
    ASSUME NEW items \in Seq(STRING), NEW st, NEW held
    PROVE  Worst(items, st, held) = "ok" <=>
               \A i \in DOMAIN items : Code(items[i], st, held) = "ok"
<1>1. CASE items = <<>>
  BY <1>1 DEF Worst
<1>2. CASE items # <<>>
  <2> DEFINE code(i) == Code(items[i], st, held)
  <2>1. PICK j \in DOMAIN items :
           /\ Worst(items, st, held) = code(j)
           /\ \A i \in DOMAIN items : Rank(code(i)) <= Rank(code(j))
    BY <1>2, WorstIs
  <2> HIDE DEF code
  <2>2. code(j) = "ok" <=> \A i \in DOMAIN items : code(i) = "ok"
    BY <2>1, RankIs
  <2> QED
    BY <2>1, <2>2 DEF code
<1> QED
  BY <1>1, <1>2

\* A code is ok exactly if the item resolves.
LEMMA CodeOk ==
    ASSUME NEW st, StoreOK(st), NEW item, NEW held
    PROVE  Code(item, st, held) = "ok" <=> Resolves(item, st, held, TRUE)
<1>1. CASE item \in Misspelt \/ item \notin Reference \/ item \notin Stored(st)
  BY <1>1 DEF Code, Resolves
<1>2. CASE item \notin Misspelt /\ item \in Reference /\ item \in Stored(st)
  <2>1. Cells(st)[item].pair \notin Unkeyed
    BY <1>2 DEF StoreOK
  <2> QED
    BY <1>2, <2>1 DEF Code, Resolves, Unkeyed
<1> QED
  BY <1>1, <1>2

\* What explain calls resolved is what run can deliver, but for an empty list.
LEMMA ResolvedRuns ==
    ASSUME NEW values, NEW k \in DOMAIN values, LeafOK(values[k]), NEW st, StoreOK(st), NEW os
    PROVE  LET d == Diagnosed(values, k, st, os, TRUE) IN
           /\ d.resolved => Materializes(values, k, st, os)
           /\ Materializes(values, k, st, os) /\ values[k].items # <<>> => d.resolved
           /\ d.resolved => (d.kind = "secret" <=>
                 Targets(values[k]) = {} /\ Items(values[k]) \cap Reference # {})
<1> DEFINE d == Diagnosed(values, k, st, os, TRUE)
           leaf == values[k]
           composed == Status(values, k, st, os, TRUE)
           worst == Worst(leaf.items, st, scenario.held)
<1>1. CASE leaf.kind = "opaque"
  <2>1. Items(leaf) = {} /\ Targets(leaf) = {}
    BY <1>1 DEF Items, Targets
  <2>2. d.resolved /\ d.kind = "config"
    BY <1>1 DEF Diagnosed
  <2>3. Materializes(values, k, st, os)
    BY <2>1 DEF Materializes
  <2> QED
    BY <2>1, <2>2, <2>3
<1>2. CASE leaf.kind # "opaque" /\ Targets(leaf) # {}
  <2>1. d.kind = "variable" /\ (d.resolved <=> composed = "ok")
    BY <1>2 DEF Diagnosed
  <2>2. composed = "ok" => \A x \in Items(leaf) : Resolves(x, st, scenario.held, TRUE)
    BY DEF Status
  <2>3. Materializes(values, k, st, os) <=> composed = "ok"
    BY <1>2, <2>2 DEF Materializes
  <2> QED
    BY <1>2, <2>1, <2>3
<1>3. CASE leaf.kind # "opaque" /\ Targets(leaf) = {}
  <2>1. leaf.items \in Seq(STRING) /\ Items(leaf) = ToSet(leaf.items)
    BY <1>3 DEF LeafOK, Items
  <2>2. d = [kind |-> IF Items(leaf) \cap (Reference \cup Misspelt) # {} THEN "secret" ELSE "config",
             code |-> worst, resolved |-> TRUE /\ worst = "ok" /\ leaf.items # <<>>]
    BY <1>3 DEF Diagnosed
  <2>3. worst = "ok" <=> \A x \in Items(leaf) : Resolves(x, st, scenario.held, TRUE)
    <3>1. PICK items \in Seq(STRING) : items = leaf.items
      BY <2>1
    <3>2. PICK held : held = scenario.held
      OBVIOUS
    <3>3. worst = Worst(items, st, held)
      BY <3>1, <3>2
    <3>4. worst = "ok" <=> \A i \in DOMAIN items : Code(items[i], st, held) = "ok"
      BY <3>3, WorstOk
    <3>5. \A x : Code(x, st, held) = "ok" <=> Resolves(x, st, held, TRUE)
      BY CodeOk
    <3>6. worst = "ok" <=> \A i \in DOMAIN items : Resolves(items[i], st, held, TRUE)
      BY <3>4, <3>5
    <3>7. Items(leaf) = {items[i] : i \in DOMAIN items}
      BY <2>1, <3>1 DEF ToSet
    <3> QED
      BY <3>2, <3>6, <3>7
  <2>4. Materializes(values, k, st, os) <=> worst = "ok"
    BY <1>3, <2>3 DEF Materializes
  <2>5. worst = "ok" => Items(leaf) \cap Misspelt = {}
    BY <2>3 DEF Resolves
  <2> HIDE DEF worst, leaf, d
  <2>6. /\ d.kind = IF Items(leaf) \cap (Reference \cup Misspelt) # {} THEN "secret" ELSE "config"
        /\ d.resolved <=> worst = "ok" /\ leaf.items # <<>>
    BY <2>2
  <2>7. d.resolved => (d.kind = "secret" <=> Items(leaf) \cap Reference # {})
    BY <2>5, <2>6
  <2> QED
    BY <1>3, <2>4, <2>6, <2>7 DEF d, leaf
<1> QED
  BY <1>1, <1>2, <1>3

-----------------------------------------------------------------------------
(* emit: what the documents hold.                                          *)

\* Every key that is asked for is in one document, with its value, and no secret is in
\* a ConfigMap.
Delivers(docs, entries, asked) ==
    /\ \A d \in DOMAIN docs : DOMAIN docs[d].data \subseteq asked
    /\ \A k \in asked : \E d \in DOMAIN docs :
          /\ {e \in DOMAIN docs : k \in DOMAIN docs[e].data} = {d}
          /\ docs[d].data[k] = entries[k].value
          /\ entries[k].secret => docs[d].kind # "ConfigMap"

LEMMA OneDocument ==
    ASSUME NEW kind, NEW name, NEW entries, NEW asked,
           kind = "ConfigMap" => \A k \in asked : ~entries[k].secret
    PROVE  Delivers(<<Document(kind, name, entries, asked)>>, entries, asked)
<1> DEFINE doc == Document(kind, name, entries, asked)
           docs == <<doc>>
<1>1. doc.kind = kind /\ DOMAIN doc.data = asked /\ \A k \in asked : doc.data[k] = entries[k].value
  BY DEF Document
<1>2. DOMAIN docs = {1} /\ docs[1] = doc
  OBVIOUS
<1> HIDE DEF doc, docs
<1>3. \A k \in asked : {e \in DOMAIN docs : k \in DOMAIN docs[e].data} = {1}
  BY <1>1, <1>2
<1> QED
  BY <1>1, <1>2, <1>3 DEF Delivers, docs, doc

LEMMA TwoDocuments ==
    ASSUME NEW entries, NEW first, NEW second, NEW S, NEW T, S \cap T = {},
           first.kind = "ConfigMap", DOMAIN first.data = S,
           \A k \in S : ~entries[k].secret /\ first.data[k] = entries[k].value,
           second.kind = "Secret", DOMAIN second.data = T,
           \A k \in T : second.data[k] = entries[k].value
    PROVE  Delivers(<<first>> \o <<second>>, entries, S \cup T)
<1> DEFINE docs == <<first>> \o <<second>>
<1>1. DOMAIN docs = {1, 2} /\ docs[1] = first /\ docs[2] = second
  OBVIOUS
<1> HIDE DEF docs
<1>2. \A k \in S : {e \in DOMAIN docs : k \in DOMAIN docs[e].data} = {1}
  BY <1>1
<1>3. \A k \in T : {e \in DOMAIN docs : k \in DOMAIN docs[e].data} = {2}
  BY <1>1
<1>4. \A d \in DOMAIN docs : DOMAIN docs[d].data \subseteq S \cup T
  BY <1>1
<1>5. ASSUME NEW k \in S \cup T
      PROVE  \E d \in DOMAIN docs :
                /\ {e \in DOMAIN docs : k \in DOMAIN docs[e].data} = {d}
                /\ docs[d].data[k] = entries[k].value
                /\ entries[k].secret => docs[d].kind # "ConfigMap"
  <2>1. CASE k \in S
    BY <1>1, <1>2, <2>1
  <2>2. CASE k \in T
    BY <1>1, <1>3, <2>2
  <2> QED
    BY <2>1, <2>2
<1>6. Delivers(docs, entries, S \cup T)
  BY <1>4, <1>5 DEF Delivers
<1> QED
  BY <1>6 DEF docs

LEMMA RenderedWhole ==
    ASSUME NEW entries, \A k \in DOMAIN entries : entries[k].secret \in BOOLEAN, NEW cmd,
           cmd.target \in {"k8s", "k8s-bundle", "flat"},
           cmd.secrets \in BOOLEAN, cmd.config \in BOOLEAN
    PROVE  Delivers(Rendered(entries, cmd), entries, Asked(entries, Slices(cmd)))
<1> DEFINE slices == Slices(cmd)
           asked == Asked(entries, slices)
           plain == Classified(entries, FALSE)
           secrets == Classified(entries, TRUE)
<1>1. /\ slices.secrets \in BOOLEAN /\ slices.config \in BOOLEAN
      /\ slices.secrets \/ slices.config
  BY DEF Slices
<1>2. /\ ~slices.secrets => \A k \in asked : ~entries[k].secret
      /\ slices.secrets /\ slices.config => asked = plain \cup secrets
  BY DEF Asked, Classified
<1>3. plain \cap secrets = {} /\ \A k \in plain : ~entries[k].secret
  BY DEF Classified
<1> HIDE DEF slices, asked, plain, secrets
<1>4. CASE cmd.target = "flat"
  <2>1. Rendered(entries, cmd) = <<Document("flat", "", entries, asked)>>
    BY <1>4 DEF Rendered, asked, slices
  <2> QED
    BY <2>1, OneDocument DEF asked, slices
<1>5. CASE cmd.target = "k8s-bundle"
  <2>1. Rendered(entries, cmd) = <<Bundle(entries, cmd)>>
    BY <1>5 DEF Rendered
  <2>2. PICK kind, name : /\ Bundle(entries, cmd) = Document(kind, name, entries, asked)
                          /\ kind = "ConfigMap" => ~slices.secrets
    <3>1. CASE slices.secrets
      <4>1. \E name : Bundle(entries, cmd) = Document("Secret", name, entries, asked)
        BY <3>1 DEF Bundle, SecretManifest, asked, slices
      <4> QED
        BY <4>1
    <3>2. CASE ~slices.secrets
      <4>1. \E name : Bundle(entries, cmd) = Document("ConfigMap", name, entries, asked)
        BY <3>2 DEF Bundle, ConfigMapManifest, asked, slices
      <4> QED
        BY <3>2, <4>1
    <3> QED
      BY <3>1, <3>2
  <2> QED
    BY <1>2, <2>1, <2>2, OneDocument DEF asked, slices
<1>6. CASE cmd.target = "k8s" /\ slices.secrets /\ slices.config
  <2> DEFINE first == ConfigMapManifest(Named(cmd, "-config"), entries, plain)
             second == SecretManifest(Named(cmd, "-secrets"), entries, secrets)
  <2>1. Rendered(entries, cmd) = Combined(entries, cmd)
    BY <1>6 DEF Rendered, slices
  <2>2. Combined(entries, cmd) = (IF plain = {} THEN <<>> ELSE <<first>>)
                                 \o (IF secrets = {} THEN <<>> ELSE <<second>>)
    BY DEF Combined, plain, secrets
  <2>3. /\ first.kind = "ConfigMap" /\ DOMAIN first.data = plain
        /\ \A k \in plain : first.data[k] = entries[k].value
    BY DEF ConfigMapManifest, Document
  <2>4. /\ second.kind = "Secret" /\ DOMAIN second.data = secrets
        /\ \A k \in secrets : second.data[k] = entries[k].value
    BY DEF SecretManifest, Document
  <2>5. asked = plain \cup secrets
    BY <1>2, <1>6
  <2>6. CASE plain # {} /\ secrets # {}
    <3> HIDE DEF first, second
    <3>1. Delivers(<<first>> \o <<second>>, entries, plain \cup secrets)
      BY <1>3, <2>3, <2>4, TwoDocuments
    <3> QED
      BY <2>1, <2>2, <2>5, <2>6, <3>1 DEF asked, slices
  <2>7. CASE plain = {} /\ secrets # {}
    <3>1. Combined(entries, cmd) = <<Document("Secret", Named(cmd, "-secrets"), entries, asked)>>
      <4>1. asked = secrets
        BY <2>5, <2>7
      <4>2. second = Document("Secret", Named(cmd, "-secrets"), entries, asked)
        BY <4>1 DEF SecretManifest
      <4> HIDE DEF second
      <4> QED
        BY <2>2, <2>7, <4>2
    <3> QED
      BY <2>1, <3>1, OneDocument DEF asked, slices
  <2>8. CASE secrets = {} /\ plain # {}
    <3>1. Combined(entries, cmd) = <<Document("ConfigMap", Named(cmd, "-config"), entries, asked)>>
      <4>1. asked = plain
        BY <2>5, <2>8
      <4>2. first = Document("ConfigMap", Named(cmd, "-config"), entries, asked)
        BY <4>1 DEF ConfigMapManifest
      <4> HIDE DEF first
      <4> QED
        BY <2>2, <2>8, <4>2
    <3>2. \A k \in asked : ~entries[k].secret
      BY <1>3, <2>5, <2>8
    <3> QED
      BY <2>1, <3>1, <3>2, OneDocument DEF asked, slices
  <2>9. CASE secrets = {} /\ plain = {}
    <3>1. Combined(entries, cmd) = <<>> /\ asked = {}
      BY <2>2, <2>5, <2>9
    <3> QED
      BY <2>1, <3>1 DEF Delivers, asked, slices
  <2> QED
    BY <2>6, <2>7, <2>8, <2>9
<1>7. CASE cmd.target = "k8s" /\ ~slices.config
  <2>1. Rendered(entries, cmd) = <<Document("Secret", Named(cmd, "-secrets"), entries, asked)>>
    BY <1>1, <1>7 DEF Rendered, SecretManifest, asked, slices
  <2> QED
    BY <2>1, OneDocument DEF asked, slices
<1>8. CASE cmd.target = "k8s" /\ ~slices.secrets
  <2>1. Rendered(entries, cmd) = <<Document("ConfigMap", Named(cmd, "-config"), entries, asked)>>
    BY <1>1, <1>8 DEF Rendered, ConfigMapManifest, asked, slices
  <2> QED
    BY <1>2, <1>8, <2>1, OneDocument DEF asked, slices
<1> QED
  BY <1>1, <1>4, <1>5, <1>6, <1>7, <1>8

-----------------------------------------------------------------------------
(* emit: what the command knows, as long as nothing changes under it.      *)

EmitCmd == scenario.emit[1]
EmitParams == Settled(manifest, EmitCmd.project)
EmitValues == Merged(EmitParams, Environment(<<>>, EmitParams), EmitCmd.os).state.values
EmitDiagnosed(k) == Diagnosed(EmitValues, k, store, EmitCmd.os, TRUE)
EmitDelivers == \A k \in DOMAIN EmitValues : EmitDiagnosed(k).resolved
EmitEntriesOf ==
    [k \in DOMAIN EmitValues |->
        [value |-> EmitValues[k].items, secret |-> EmitDiagnosed(k).kind = "secret"]]
EmitWarns ==
    /\ EmitCmd.out = "file" /\ Slices(EmitCmd).secrets
    /\ \E k \in DOMAIN EmitValues : EmitEntriesOf[k].secret

EmitKnows ==
    /\ emitter.at = "explain" => emitter.params = EmitParams
    /\ "values" \in DOMAIN emitter => emitter.values = EmitValues
    /\ emitter.at = "write" => EmitDelivers /\ emitter.entries = EmitEntriesOf
    /\ emitter.at = "done" =>
          /\ EmitDelivers
          /\ output = Rendered(EmitEntriesOf, EmitCmd)
          /\ emitter.warned <=> EmitWarns
    /\ emitter.at = "refused" /\ "values" \in DOMAIN emitter => ~EmitDelivers
    /\ emitter.at = "explain" \/ "values" \in DOMAIN emitter =>
          EmitCmd.project \in DOMAIN manifest.projects

EmitInv ==
    /\ DOMAIN touched = Clocks
    /\ "at" \in DOMAIN emitter
    /\ emitter.at \in {"idle", "start", "explain"} => "values" \notin DOMAIN emitter
    /\ emitter.at \in {"entries", "write", "done"} => "values" \in DOMAIN emitter
    /\ emitter.at # "done" => output = Earlier
    /\ emitter.at = "start" => scenario.emit # <<>>
    /\ emitter.at \notin {"idle", "start"} =>
          scenario.emit # <<>> /\ "cmd" \in DOMAIN emitter /\ emitter.cmd = EmitCmd
    /\ touched["emit"] = {} => EmitKnows

LEMMA EmitInitially == Init => EmitInv
BY DEF Init, WorkspaceInit, EmitInit, EmitInv, EmitKnows, Clocks

LEMMA EmitMoved ==
    ASSUME NEW change, EmitMove(change), "at" \in DOMAIN emitter
    PROVE  /\ \A x : x \in DOMAIN emitter' <=> x \in DOMAIN emitter \/ x \in DOMAIN change
           /\ \A x \in DOMAIN change : emitter'[x] = change[x]
           /\ \A x \in DOMAIN emitter : x \notin DOMAIN change => emitter'[x] = emitter[x]
BY DEF EmitMove, Changed

\* Nothing emit reads has changed.
EmitStill == UNCHANGED <<scenario, files, manifest, store>>

LEMMA EmitSame ==
    ASSUME EmitStill
    PROVE  /\ EmitCmd' = EmitCmd /\ EmitParams' = EmitParams /\ EmitValues' = EmitValues
           /\ EmitDelivers' <=> EmitDelivers
           /\ EmitEntriesOf' = EmitEntriesOf
           /\ EmitWarns' <=> EmitWarns
<1>1. EmitCmd' = EmitCmd
  BY DEF EmitStill, EmitCmd
<1>2. EmitParams' = EmitParams
  BY <1>1 DEF EmitStill, EmitParams
<1>3. EmitValues' = EmitValues
  BY <1>1, <1>2 DEF EmitStill, EmitValues, Merged
<1>4. \A k : EmitDiagnosed(k)' = EmitDiagnosed(k)
  BY <1>1, <1>3 DEF EmitStill, EmitDiagnosed, Diagnosed, Status
<1>5. EmitDelivers' <=> EmitDelivers
  BY <1>3, <1>4 DEF EmitDelivers
<1>6. EmitEntriesOf' = EmitEntriesOf
  BY <1>3, <1>4 DEF EmitEntriesOf
<1>7. EmitWarns' <=> EmitWarns
  BY <1>1, <1>3, <1>6 DEF EmitWarns
<1> QED
  BY <1>1, <1>2, <1>3, <1>5, <1>6, <1>7

LEMMA EmitStep == ASSUME EmitInv, [Next]_vars PROVE EmitInv'
<1>1. DOMAIN touched' = Clocks
  BY ClocksStep DEF EmitInv
<1>2. scenario' = scenario
  BY DEF Next, vars, workspace, Edit, CreateNext, CreateStart, CheckConflict, CreateWrite,
     CreateFails, SetNext, SetRead, SetWrite, SetFails, MergeNext, IgnoreNext, CheckIgnore,
     ReadIgnore, WriteIgnore, IgnoreFails, PackNext, PackStart, Plan, Rewrite, Clear,
     WriteManifest, Copy, Scan, CopySecrets, PackFails, ValidateNext, ValidateStart,
     ResolveNext, DiagnoseNext, CheckSecrets, CheckPublicKeys, CheckKeypairs, Grade, EmitNext,
     EmitStart, EmitExplain, EmitEntries, EmitWrite, EmitFails
<1>3. EmitCmd' = EmitCmd
  BY <1>2 DEF EmitCmd
<1>4. ASSUME touched'["emit"] = {}, ~EmitStart PROVE touched["emit"] = {} /\ EmitStill
  BY <1>4, QuietStep DEF EmitInv, Clocks, EmitStill
<1>5. CASE UNCHANGED emitVars
  <2>1. ASSUME touched'["emit"] = {} PROVE EmitKnows'
    <3>1. CASE ~EmitStart
      <4>1. EmitKnows /\ EmitStill
        BY <1>4, <2>1, <3>1 DEF EmitInv
      <4>2. emitter' = emitter /\ output' = output /\ manifest' = manifest
        BY <1>5, <4>1 DEF emitVars, EmitStill
      <4> QED
        BY <4>1, <4>2, EmitSame DEF EmitKnows
    <3>2. CASE EmitStart
      <4>1. emitter'.at # "start"
        <5>1. \E change : EmitMove(change) /\ "at" \in DOMAIN change /\ change.at # "start"
          BY <3>2 DEF EmitStart
        <5> QED
          BY <5>1, EmitMoved DEF EmitInv
      <4> QED
        BY <1>5, <3>2, <4>1 DEF EmitStart, emitVars
    <3> QED
      BY <3>1, <3>2
  <2> QED
    BY <1>1, <1>2, <1>3, <1>5, <2>1 DEF EmitInv, emitVars
<1>6. CASE EmitStart
  <2>1. UNCHANGED <<files, manifest, store, output>> /\ emitter.at = "start" /\ scenario.emit # <<>>
    BY <1>6 DEF EmitStart, EmitInv
  <2>2. EmitStill
    BY <1>2, <2>1 DEF EmitStill
  <2>3. CASE EmitMove([at |-> "refused", cmd |-> EmitCmd])
    <3>1. /\ emitter'.at = "refused" /\ emitter'.cmd = EmitCmd
          /\ {"at", "cmd"} \subseteq DOMAIN emitter' /\ "values" \notin DOMAIN emitter'
      BY <2>1, <2>3, EmitMoved DEF EmitInv
    <3> QED
      BY <1>1, <1>2, <1>3, <2>1, <3>1 DEF EmitInv, EmitKnows
  <2>4. CASE /\ EmitMove([at |-> "explain", cmd |-> EmitCmd, params |-> EmitParams])
             /\ EmitCmd.project \in DOMAIN manifest.projects
    <3>1. /\ emitter'.at = "explain" /\ emitter'.cmd = EmitCmd /\ emitter'.params = EmitParams
          /\ {"at", "cmd"} \subseteq DOMAIN emitter' /\ "values" \notin DOMAIN emitter'
      BY <2>1, <2>4, EmitMoved DEF EmitInv
    <3> QED
      BY <1>1, <1>2, <1>3, <2>1, <2>2, <2>4, <3>1, EmitSame DEF EmitInv, EmitKnows
  <2> QED
    BY <1>6, <2>3, <2>4 DEF EmitStart, EmitCmd, EmitParams
<1>7. CASE EmitExplain
  <2>1. EmitStill /\ UNCHANGED <<touched, output>> /\ emitter.at = "explain" /\ emitter.cmd = EmitCmd
        /\ scenario.emit # <<>> /\ "cmd" \in DOMAIN emitter /\ "values" \notin DOMAIN emitter
    BY <1>7 DEF EmitExplain, EmitInv, EmitStill, workspace
  <2>2. CASE EmitMove([at |-> "refused"])
    <3>1. /\ emitter'.at = "refused" /\ emitter'.cmd = EmitCmd
          /\ {"at", "cmd"} \subseteq DOMAIN emitter' /\ "values" \notin DOMAIN emitter'
      BY <2>1, <2>2, EmitMoved DEF EmitInv
    <3> QED
      BY <1>1, <1>2, <1>3, <2>1, <3>1 DEF EmitInv, EmitKnows
  <2>3. CASE EmitMove([at |-> "entries",
                       values |-> Merged(emitter.params, Environment(<<>>, emitter.params),
                                         emitter.cmd.os).state.values])
    <3>1. /\ emitter'.at = "entries" /\ emitter'.cmd = EmitCmd
          /\ {"at", "cmd"} \subseteq DOMAIN emitter' /\ "values" \in DOMAIN emitter'
          /\ emitter'.values = Merged(emitter.params, Environment(<<>>, emitter.params),
                                      emitter.cmd.os).state.values
      BY <2>1, <2>3, EmitMoved DEF EmitInv
    <3>2. touched["emit"] = {} => emitter'.values = EmitValues
      BY <2>1, <3>1 DEF EmitInv, EmitKnows, EmitValues
    <3> QED
      BY <1>1, <1>2, <1>3, <2>1, <3>1, <3>2, EmitSame DEF EmitInv, EmitKnows, EmitStill
  <2> QED
    BY <1>7, <2>2, <2>3 DEF EmitExplain
<1>8. CASE EmitEntries
  <2>1. EmitStill /\ UNCHANGED <<touched, output>> /\ emitter.at = "entries" /\ emitter.cmd = EmitCmd
        /\ scenario.emit # <<>> /\ "cmd" \in DOMAIN emitter /\ "values" \in DOMAIN emitter
    BY <1>8 DEF EmitEntries, EmitInv, EmitStill, workspace
  <2>2. ASSUME touched["emit"] = {}
        PROVE  /\ \A k \in DOMAIN emitter.values : Diagnoses[k] = EmitDiagnosed(k)
               /\ emitter.values = EmitValues
    BY <2>1, <2>2 DEF EmitInv, EmitKnows, Diagnoses, EmitDiagnosed
  <2>3. CASE EmitMove([at |-> "refused"]) /\ \E k \in DOMAIN emitter.values : ~Diagnoses[k].resolved
    <3>1. /\ emitter'.at = "refused" /\ emitter'.cmd = EmitCmd
          /\ {"at", "cmd"} \subseteq DOMAIN emitter' /\ "values" \in DOMAIN emitter' /\ emitter'.values = emitter.values
      BY <2>1, <2>3, EmitMoved DEF EmitInv
    <3>2. touched["emit"] = {} => ~EmitDelivers
      BY <2>2, <2>3 DEF EmitDelivers
    <3> QED
      BY <1>1, <1>2, <1>3, <2>1, <2>2, <3>1, <3>2, EmitSame DEF EmitInv, EmitKnows, EmitStill
  <2>4. CASE EmitMove([at |-> "write", entries |-> Entries])
             /\ \A k \in DOMAIN emitter.values : Diagnoses[k].resolved
    <3>1. /\ emitter'.at = "write" /\ emitter'.cmd = EmitCmd /\ emitter'.entries = Entries
          /\ {"at", "cmd"} \subseteq DOMAIN emitter' /\ "values" \in DOMAIN emitter' /\ emitter'.values = emitter.values
      BY <2>1, <2>4, EmitMoved DEF EmitInv
    <3>2. ASSUME touched["emit"] = {} PROVE EmitDelivers /\ Entries = EmitEntriesOf
      <4>1. EmitDelivers
        BY <2>2, <2>4, <3>2 DEF EmitDelivers
      <4>2. {k \in DOMAIN emitter.values : Diagnoses[k].resolved} = DOMAIN EmitValues
        BY <2>2, <2>4, <3>2
      <4>3. Entries = EmitEntriesOf
        BY <2>2, <3>2, <4>2 DEF Entries, EmitEntriesOf
      <4> QED
        BY <4>1, <4>3
    <3> QED
      BY <1>1, <1>2, <1>3, <2>1, <2>2, <3>1, <3>2, EmitSame DEF EmitInv, EmitKnows, EmitStill
  <2> QED
    BY <1>8, <2>3, <2>4 DEF EmitEntries
<1>9. CASE EmitWrite
  <2>1. EmitStill /\ UNCHANGED touched /\ emitter.at = "write" /\ emitter.cmd = EmitCmd
        /\ scenario.emit # <<>> /\ "cmd" \in DOMAIN emitter /\ "values" \in DOMAIN emitter
    BY <1>9 DEF EmitWrite, EmitInv, EmitStill, workspace
  <2>2. PICK warned : /\ EmitMove([at |-> "done", warned |-> warned])
                      /\ warned <=> /\ EmitCmd.out = "file" /\ Slices(EmitCmd).secrets
                                    /\ \E k \in DOMAIN emitter.entries : emitter.entries[k].secret
    BY <1>9, <2>1 DEF EmitWrite
  <2>3. /\ emitter'.at = "done" /\ emitter'.cmd = EmitCmd /\ emitter'.warned = warned
        /\ {"at", "cmd"} \subseteq DOMAIN emitter' /\ "values" \in DOMAIN emitter' /\ emitter'.values = emitter.values
    BY <2>1, <2>2, EmitMoved DEF EmitInv
  <2>4. ASSUME touched["emit"] = {}
        PROVE  output' = Rendered(EmitEntriesOf, EmitCmd) /\ (warned <=> EmitWarns) /\ EmitDelivers
    <3>1. emitter.entries = EmitEntriesOf /\ EmitDelivers
      BY <2>1, <2>4 DEF EmitInv, EmitKnows
    <3>2. DOMAIN EmitEntriesOf = DOMAIN EmitValues
      BY DEF EmitEntriesOf
    <3> QED
      BY <1>9, <2>1, <2>2, <3>1, <3>2 DEF EmitWrite, EmitWarns
  <2> QED
    BY <1>1, <1>2, <1>3, <2>1, <2>3, <2>4, EmitSame DEF EmitInv, EmitKnows, EmitStill
<1>10. CASE EmitFails
  <2>1. EmitStill /\ UNCHANGED <<touched, output>> /\ emitter.at = "write" /\ emitter.cmd = EmitCmd
        /\ scenario.emit # <<>> /\ "cmd" \in DOMAIN emitter /\ "values" \in DOMAIN emitter
    BY <1>10 DEF EmitFails, EmitInv, EmitStill, workspace
  <2>2. /\ emitter'.at = "failed" /\ emitter'.cmd = EmitCmd
        /\ {"at", "cmd"} \subseteq DOMAIN emitter' /\ "values" \in DOMAIN emitter' /\ emitter'.values = emitter.values
    BY <1>10, <2>1, EmitMoved DEF EmitFails, EmitInv
  <2> QED
    BY <1>1, <1>2, <1>3, <2>1, <2>2, EmitSame DEF EmitInv, EmitKnows, EmitStill
<1>11. EmitNext \/ UNCHANGED emitVars
  BY DEF Next, vars
<1> QED
  BY <1>5, <1>6, <1>7, <1>8, <1>9, <1>10, <1>11 DEF EmitNext

LEMMA EmitInvariant == Spec => []EmitInv
BY EmitInitially, EmitStep, PTL DEF Spec

\* emit delivers all of what run would give the child, each value in one document and no
\* secret in a ConfigMap or without a warning, or it delivers nothing, and refuses only
\* what run could not give either, or an empty list (action.go, k8s.go, flat.go), unless a
\* file has changed since it began.
THEOREM EmittedWhole == Spec => []EmitWhole
<1>1. ASSUME FilesInv, EmitInv PROVE EmitWhole
  <2> DEFINE cmd == emitter.cmd
             values == EmitValues
             runs(k) == Materializes(values, k, store, cmd.os)
             secretive(k) == Targets(values[k]) = {} /\ Items(values[k]) \cap Reference # {}
             E == EmitEntriesOf
             asked == Asked(E, Slices(cmd))
  <2>1. ASSUME NEW k \in DOMAIN values, emitter.at # "start", emitter.at # "idle",
               EmitCmd.project \in DOMAIN manifest.projects
        PROVE  /\ EmitDiagnosed(k).resolved => runs(k)
               /\ runs(k) /\ values[k].items # <<>> => EmitDiagnosed(k).resolved
               /\ EmitDiagnosed(k).resolved => (EmitDiagnosed(k).kind = "secret" <=> secretive(k))
    <3>1. ManifestOK(manifest) /\ StoreOK(store) /\ \A f \in DOMAIN files : ContentOK(files[f])
      BY <1>1 DEF FilesInv
    <3>2. ParamsOK(EmitParams)
      BY <2>1, <3>1, SettledOK, NoSettingsOK DEF EmitParams, Settled
    <3>3. LeafOK(values[k])
      BY <2>1, <3>1, <3>2, MergedOK DEF EmitValues
    <3>4. cmd.os = EmitCmd.os
      BY <1>1, <2>1 DEF EmitInv
    <3> DEFINE d == Diagnosed(values, k, store, EmitCmd.os, TRUE)
    <3>5. /\ d.resolved => Materializes(values, k, store, EmitCmd.os)
          /\ Materializes(values, k, store, EmitCmd.os) /\ values[k].items # <<>> => d.resolved
          /\ d.resolved => (d.kind = "secret" <=> secretive(k))
      <4> HIDE DEF values
      <4> QED
        BY <2>1, <3>1, <3>3, ResolvedRuns
    <3> QED
      BY <3>4, <3>5 DEF EmitDiagnosed
  <2>2. emitter.at # "done" => output = Earlier
    BY <1>1 DEF EmitInv
  <2>3. ASSUME emitter.at # "start", emitter.at # "idle", touched["emit"] = {}
        PROVE  values = Merged(Settled(manifest, cmd.project),
                               Environment(<<>>, Settled(manifest, cmd.project)), cmd.os).state.values
    BY <1>1, <2>3 DEF EmitInv, EmitValues, EmitParams
  <2>4. ASSUME emitter.at = "refused", "values" \in DOMAIN emitter, touched["emit"] = {}
        PROVE  \E k \in DOMAIN values : ~runs(k) \/ values[k].items = <<>>
    <3>1. ~EmitDelivers /\ EmitCmd.project \in DOMAIN manifest.projects
      BY <1>1, <2>4 DEF EmitInv, EmitKnows
    <3> QED
      BY <2>1, <2>4, <3>1 DEF EmitDelivers
  <2>5. ASSUME emitter.at = "done", touched["emit"] = {}
        PROVE  /\ \A k \in DOMAIN values : runs(k)
               /\ \A k \in DOMAIN values : E[k].secret <=> secretive(k)
               /\ \A k \in DOMAIN values : E[k].secret \in BOOLEAN
               /\ DOMAIN E = DOMAIN values
               /\ Delivers(output, E, asked)
               /\ \A k \in DOMAIN values :
                     cmd.out = "file" /\ Slices(cmd).secrets /\ E[k].secret => emitter.warned
    <3>1. /\ EmitDelivers /\ EmitCmd.project \in DOMAIN manifest.projects
          /\ cmd = EmitCmd /\ output = Rendered(E, cmd) /\ (emitter.warned <=> EmitWarns)
          /\ scenario.emit # <<>>
      BY <1>1, <2>5 DEF EmitInv, EmitKnows
    <3>2. \A k \in DOMAIN values : /\ runs(k)
                                   /\ EmitDiagnosed(k).kind = "secret" <=> secretive(k)
      BY <2>1, <2>5, <3>1 DEF EmitDelivers
    <3>3. DOMAIN E = DOMAIN values
      BY DEF EmitEntriesOf
    <3>4. \A k \in DOMAIN values : /\ E[k].secret \in BOOLEAN
                                   /\ E[k].secret <=> EmitDiagnosed(k).kind = "secret"
      BY DEF EmitEntriesOf
    <3>5. /\ cmd.target \in {"k8s", "k8s-bundle", "flat"}
          /\ cmd.secrets \in BOOLEAN /\ cmd.config \in BOOLEAN
      BY <1>1, <3>1, TargetsAssumption DEF EmitCmd, FilesInv, CreateShape
    <3>6. Delivers(output, E, asked)
      <4> HIDE DEF E, cmd
      <4> QED
        BY <3>1, <3>3, <3>4, <3>5, RenderedWhole
    <3> QED
      BY <3>1, <3>2, <3>3, <3>4, <3>6 DEF EmitWarns
  <2> DEFINE due == {k \in DOMAIN values :
                       IF secretive(k) THEN Slices(cmd).secrets ELSE Slices(cmd).config}
             holders(k) == {d \in DOMAIN output : k \in DOMAIN output[d].data}
  <2>6. ASSUME emitter.at = "done", touched["emit"] = {}
        PROVE  /\ \A k \in DOMAIN values : runs(k)
               /\ UNION {DOMAIN output[d].data : d \in DOMAIN output} = due
               /\ \A k \in due : \E d \in DOMAIN output :
                     /\ holders(k) = {d}
                     /\ output[d].data[k] = values[k].items
                     /\ secretive(k) => output[d].kind # "ConfigMap"
                     /\ secretive(k) /\ cmd.out = "file" => emitter.warned
    <3>1. asked = due
      <4> HIDE DEF E, secretive, values, cmd
      <4> QED
        BY <2>5, <2>6 DEF Asked
    <3>2. \A k \in DOMAIN values : E[k].value = values[k].items
      BY DEF EmitEntriesOf
    <3> HIDE DEF E, secretive, values, cmd, asked, runs
    <3>3. /\ \A k \in DOMAIN values : E[k].secret <=> secretive(k)
          /\ Delivers(output, E, due)
      BY <2>5, <2>6, <3>1
    <3>4. UNION {DOMAIN output[d].data : d \in DOMAIN output} = due
      BY <3>3 DEF Delivers
    <3>5. ASSUME NEW k \in due
          PROVE  \E d \in DOMAIN output :
                    /\ holders(k) = {d}
                    /\ output[d].data[k] = values[k].items
                    /\ secretive(k) => output[d].kind # "ConfigMap"
                    /\ secretive(k) /\ cmd.out = "file" => emitter.warned
      BY <2>5, <2>6, <3>2, <3>3, <3>5 DEF Delivers
    <3> QED
      BY <2>5, <2>6, <3>4, <3>5
  <2>7. CASE emitter.at = "done" /\ touched["emit"] = {}
    <3>1. values = Merged(Settled(manifest, cmd.project),
                          Environment(<<>>, Settled(manifest, cmd.project)), cmd.os).state.values
      BY <2>3, <2>7
    <3> HIDE DEF values
    <3> QED
      BY <2>6, <2>7, <3>1 DEF EmitWhole
  <2>8. CASE emitter.at = "refused" /\ "values" \in DOMAIN emitter /\ touched["emit"] = {}
    <3>1. values = Merged(Settled(manifest, cmd.project),
                          Environment(<<>>, Settled(manifest, cmd.project)), cmd.os).state.values
      BY <2>3, <2>8
    <3> HIDE DEF values
    <3> QED
      BY <2>2, <2>4, <2>8, <3>1 DEF EmitWhole
  <2>9. CASE /\ ~(emitter.at = "done" /\ touched["emit"] = {})
             /\ ~(emitter.at = "refused" /\ "values" \in DOMAIN emitter /\ touched["emit"] = {})
    BY <2>2, <2>9 DEF EmitWhole
  <2> QED
    BY <2>7, <2>8, <2>9
<1> QED
  BY <1>1, FilesInvariant, EmitInvariant, PTL

-----------------------------------------------------------------------------
(* validate: what the report holds, as long as nothing changes under it.   *)

PairOf(j, n) == <<((j - 1) \div n) + 1, ((j - 1) % n) + 1>>

\* Every pair of two counters has a place in the order of one.
LEMMA Paired ==
    ASSUME NEW n \in Nat, NEW m \in Nat, NEW a \in 1..m, NEW b \in 1..n,
           NEW N, N = n * m
    PROVE  \E j \in 1..N : PairOf(j, n) = <<a, b>>
<1> DEFINE j == (a - 1) * n + b
<1>1. j \in Nat /\ j >= 1
  OBVIOUS
<1>2. j - 1 = (a - 1) * n + (b - 1) /\ n > 0
  OBVIOUS
<1>3. (a - 1) * n + (b - 1) < n * m
  OBVIOUS
<1>4. ((a - 1) * n + (b - 1)) \div n = a - 1 /\ ((a - 1) * n + (b - 1)) % n = b - 1
  OBVIOUS
<1>5. j <= n * m
  BY <1>1, <1>2, <1>3
<1>6. ((j - 1) \div n) + 1 = a /\ ((j - 1) % n) + 1 = b
  BY <1>2, <1>4
<1> HIDE DEF j
<1>7. j \in 1..(n * m)
  BY <1>1, <1>5
<1> QED
  BY <1>6, <1>7 DEF PairOf

AuditCmd == scenario.validate[1]
AuditFields == {"at", "cmd", "names", "envs", "params", "i", "refs", "report"}
Running == {"resolve", "diagnose", "secrets", "public", "keypairs", "grade", "done"}
Merging == {"secrets", "public", "keypairs", "grade", "done"}

\* The j-th of the environments that are merged.
MergeOf(j) ==
    LET n == Len(auditor.envs) IN
    [project |-> auditor.names[((j - 1) \div n) + 1],
     params |-> auditor.params[((j - 1) \div n) + 1],
     env |-> auditor.envs[((j - 1) % n) + 1]]
MergedAt(j) == Merged(MergeOf(j).params, MergeOf(j).env, auditor.cmd.os).state

Visited(j) ==
    /\ \A k \in DOMAIN MergedAt(j).values :
          Reference \cap Items(MergedAt(j).values[k]) \subseteq auditor.refs
    /\ Recorded(auditor.cmd, FindingsIn(MergeOf(j).project, MergeOf(j).env, MergedAt(j)))
           \subseteq auditor.report

About(code, refs) == {Finding(code, "", <<>>, <<r>>) : r \in refs}
StoreFindings ==
    About("secret_is_not_encrypted", Unsealed(store))
    \cup About("secret_algorithm_mismatch", Mismatched(store))
GroupFindings == About("public_key_is_missing", Keyless(store))
Poor == {g \in DOMAIN PublicKeys(store) : KeyStatus(store, scenario.held, g) # "ok"}
KeyFindings == {Finding(KeyStatus(store, scenario.held, g), "", <<>>, <<g>>) : g \in Poor}
Health == {"private_key_is_invalid", "private_key_is_unavailable"}

AuditSet ==
    {Settled(manifest, Declared(manifest)[a]) : a \in 1..Len(Declared(manifest))}

AuditKnows ==
    /\ ValidManifest(manifest)
    /\ auditor.names = Declared(manifest) /\ auditor.envs = manifest.environments
    /\ auditor.params \in Seq(AuditSet)
    /\ \A a \in 1..Len(auditor.params) :
          auditor.params[a] = Settled(manifest, Declared(manifest)[a])
    /\ auditor.at = "resolve" =>
          /\ Len(auditor.params) < Len(auditor.names)
          /\ auditor.i = 1 /\ auditor.refs = {} /\ auditor.report = {}
    /\ auditor.at # "resolve" => Len(auditor.params) = Len(auditor.names)
    /\ auditor.i \in Nat /\ auditor.i >= 1
    /\ auditor.at \in Merging /\ NeedsMerge(auditor.cmd) =>
          auditor.i = Len(auditor.envs) * Len(auditor.params) + 1
    /\ \A j \in 1..(auditor.i - 1) : Visited(j)
    /\ auditor.at \in {"public", "keypairs", "grade", "done"} =>
          Recorded(auditor.cmd, StoreFindings) \subseteq auditor.report
    /\ auditor.at \in {"keypairs", "grade", "done"} =>
          Recorded(auditor.cmd, GroupFindings) \subseteq auditor.report
    /\ auditor.at \in {"grade", "done"} =>
          \/ \A code \in Health : ~Runs(auditor.cmd, code)
          \/ Recorded(auditor.cmd, KeyFindings) \subseteq auditor.report

\* An orphan is one that the merges did not come across.
OrphansKnown ==
    \A f \in auditor.report : f.code = "secret_is_not_referenced" =>
        /\ auditor.at \notin {"resolve", "diagnose", "secrets"}
        /\ Runs(auditor.cmd, f.code)
        /\ \E r : f.key = <<r>> /\ r \notin auditor.refs

AuditInv ==
    /\ DOMAIN touched = Clocks
    /\ Within(auditor, AuditAts)
    /\ auditor.at \in Running =>
          /\ AuditFields \subseteq DOMAIN auditor /\ auditor.cmd = AuditCmd
          /\ OrphansKnown
    /\ auditor.at \in Running /\ touched["validate"] = {} => AuditKnows

LEMMA AuditInitially == Init => AuditInv
BY DEF Init, WorkspaceInit, ValidateInit, AuditInv, Clocks, Within, AuditAts, Running

LEMMA AuditMoved ==
    ASSUME NEW change, ValidateMove(change)
    PROVE  /\ \A x : x \in DOMAIN auditor' <=> x \in DOMAIN auditor \/ x \in DOMAIN change
           /\ \A x \in DOMAIN change : auditor'[x] = change[x]
           /\ \A x \in DOMAIN auditor : x \notin DOMAIN change => auditor'[x] = auditor[x]
BY DEF ValidateMove, Changed

\* Neither what validate reads nor what it keeps of it has changed.
AuditStill == UNCHANGED <<scenario, files, manifest, store>>

LEMMA AuditSame ==
    ASSUME AuditStill
    PROVE  /\ AuditCmd' = AuditCmd /\ AuditSet' = AuditSet
           /\ StoreFindings' = StoreFindings /\ GroupFindings' = GroupFindings
           /\ KeyFindings' = KeyFindings
<1>1. AuditCmd' = AuditCmd /\ AuditSet' = AuditSet
  BY DEF AuditStill, AuditCmd, AuditSet
<1>2. StoreFindings' = StoreFindings /\ GroupFindings' = GroupFindings
  BY DEF AuditStill, StoreFindings, GroupFindings, About
<1>3. KeyFindings' = KeyFindings
  BY DEF AuditStill, KeyFindings, Poor
<1> QED
  BY <1>1, <1>2, <1>3

LEMMA VisitedStays ==
    ASSUME AuditStill, NEW j, Visited(j),
           auditor'.names = auditor.names, auditor'.envs = auditor.envs, auditor'.cmd = auditor.cmd,
           auditor'.params = auditor.params,
           auditor.refs \subseteq auditor'.refs, auditor.report \subseteq auditor'.report
    PROVE  Visited(j)'
<1>1. MergeOf(j)' = MergeOf(j)
  BY DEF MergeOf
<1>2. MergedAt(j)' = MergedAt(j)
  BY <1>1 DEF MergedAt, Merged, AuditStill
<1>3. FindingsIn(MergeOf(j).project, MergeOf(j).env, MergedAt(j))'
          = FindingsIn(MergeOf(j).project, MergeOf(j).env, MergedAt(j))
  BY <1>1, <1>2 DEF FindingsIn, Diagnosed, Status, AuditStill
<1> QED
  BY <1>1, <1>2, <1>3 DEF Visited

LEMMA OrphansStay ==
    ASSUME OrphansKnown, auditor.at \notin {"resolve", "diagnose"},
           auditor'.at \notin {"resolve", "diagnose", "secrets"},
           auditor'.cmd = auditor.cmd, auditor'.refs = auditor.refs,
           NEW X, auditor'.report = auditor.report \cup X,
           \A f \in X : f.code # "secret_is_not_referenced"
    PROVE  OrphansKnown'
BY DEF OrphansKnown

\* What is known stays known in the steps that come after the merges.
LEMMA KnowsLater ==
    ASSUME AuditKnows, AuditStill, auditor.at \in Merging, auditor'.at \in Merging,
           \A x \in AuditFields : x \notin {"at", "report"} => auditor'[x] = auditor[x],
           NEW X, auditor'.report = auditor.report \cup X,
           auditor'.at # "secrets" => auditor.at # "secrets"
               \/ Recorded(auditor.cmd, StoreFindings) \subseteq X,
           auditor'.at \in {"keypairs", "grade", "done"} =>
               \/ auditor.at \in {"keypairs", "grade", "done"}
               \/ Recorded(auditor.cmd, GroupFindings) \subseteq X,
           auditor'.at \in {"grade", "done"} =>
               \/ auditor.at \in {"grade", "done"}
               \/ \A code \in Health : ~Runs(auditor.cmd, code)
               \/ Recorded(auditor.cmd, KeyFindings) \subseteq X
    PROVE  AuditKnows'
<1>1. /\ auditor'.cmd = auditor.cmd /\ auditor'.names = auditor.names /\ auditor'.envs = auditor.envs
      /\ auditor'.params = auditor.params /\ auditor'.i = auditor.i /\ auditor'.refs = auditor.refs
  BY DEF AuditFields
<1>2. ASSUME NEW j \in 1..(auditor'.i - 1) PROVE Visited(j)'
  <2>1. Visited(j)
    BY <1>1, <1>2 DEF AuditKnows
  <2> QED
    BY <1>1, <2>1, VisitedStays
<1>3. /\ manifest' = manifest /\ AuditSet' = AuditSet /\ StoreFindings' = StoreFindings
      /\ GroupFindings' = GroupFindings /\ KeyFindings' = KeyFindings
  BY AuditSame DEF AuditStill
<1> QED
  BY <1>1, <1>2, <1>3 DEF AuditKnows, Merging

\* The steps of validate that come after the merges.
LEMMA AuditLater ==
    ASSUME AuditInv, AuditStill, UNCHANGED touched, auditor.at \in Merging, auditor'.at \in Merging,
           auditor.at # "secrets",
           AuditFields \subseteq DOMAIN auditor',
           \A x \in AuditFields : x \notin {"at", "report"} => auditor'[x] = auditor[x],
           NEW X, auditor'.report = auditor.report \cup X,
           \A f \in X : f.code # "secret_is_not_referenced",
           auditor'.at # "secrets",
           auditor'.at \in {"keypairs", "grade", "done"} =>
               \/ auditor.at \in {"keypairs", "grade", "done"}
               \/ Recorded(auditor.cmd, GroupFindings) \subseteq X,
           auditor'.at \in {"grade", "done"} =>
               \/ auditor.at \in {"grade", "done"}
               \/ \A code \in Health : ~Runs(auditor.cmd, code)
               \/ Recorded(auditor.cmd, KeyFindings) \subseteq X,
           DOMAIN touched' = Clocks
    PROVE  AuditInv'
<1>1. /\ auditor'.cmd = auditor.cmd /\ auditor'.names = auditor.names /\ auditor'.envs = auditor.envs
      /\ auditor'.params = auditor.params /\ auditor'.i = auditor.i /\ auditor'.refs = auditor.refs
      /\ "at" \in DOMAIN auditor'
  BY DEF AuditFields
<1>2. auditor.at \in Running /\ auditor'.at \in Running /\ auditor'.at \in AuditAts
  BY DEF Merging, Running, AuditAts
<1>3. /\ OrphansKnown /\ auditor.cmd = AuditCmd /\ (touched["validate"] = {} => AuditKnows)
      /\ auditor.at \notin {"resolve", "diagnose"} /\ auditor'.at \notin {"resolve", "diagnose"}
  BY <1>2 DEF AuditInv, Merging
<1>4. OrphansKnown'
  BY <1>1, <1>3, OrphansStay
<1>5. ASSUME touched["validate"] = {} PROVE AuditKnows'
  BY <1>3, <1>5, KnowsLater
<1> QED
  <2>1. AuditCmd' = AuditCmd
    BY AuditSame
  <2> QED
    BY <1>1, <1>2, <1>3, <1>4, <1>5, <2>1 DEF AuditInv, Within

LEMMA AuditQuiet ==
    ASSUME AuditInv, AuditStill, UNCHANGED touched, AuditFields \subseteq DOMAIN auditor',
           \/ auditor.at = "keypairs" /\ auditor'.at = "grade"
              /\ \A code \in Health : ~Runs(auditor.cmd, code)
           \/ auditor.at = "grade" /\ auditor'.at = "done",
           \A x \in AuditFields : x \notin {"at", "report"} => auditor'[x] = auditor[x],
           auditor'.report = auditor.report, DOMAIN touched' = Clocks
    PROVE  AuditInv'
<1> DEFINE X == {}
<1>1. (\A f \in X : f.code # "secret_is_not_referenced") /\ auditor'.report = auditor.report \cup X
  OBVIOUS
<1> HIDE DEF X
<1> QED
  BY <1>1, AuditLater DEF Merging

LEMMA FindingApart ==
    ASSUME NEW S, NEW code, NEW f \in About(code, S)
    PROVE  f.code = code /\ \E r \in S : f.key = <<r>>
<1>1. PICK r \in S : f = Finding(code, "", <<>>, <<r>>)
  BY DEF About
<1>2. f.code = code /\ f.key = <<r>>
  BY <1>1 DEF Finding
<1> QED
  BY <1>2

LEMMA StoreFindingsApart ==
    /\ \A f \in StoreFindings : f.code # "secret_is_not_referenced"
    /\ \A f \in GroupFindings : f.code # "secret_is_not_referenced"
    /\ \A f \in KeyFindings : f.code # "secret_is_not_referenced"
<1>1. \A f \in StoreFindings : f.code # "secret_is_not_referenced"
  <2>1. ASSUME NEW f \in StoreFindings
        PROVE  f.code \in {"secret_is_not_encrypted", "secret_algorithm_mismatch"}
    BY FindingApart DEF StoreFindings
  <2> QED
    BY <2>1
<1>2. \A f \in GroupFindings : f.code # "secret_is_not_referenced"
  BY FindingApart DEF GroupFindings
<1>3. ASSUME NEW f \in KeyFindings PROVE f.code # "secret_is_not_referenced"
  <2>1. PICK g \in Poor : f = Finding(KeyStatus(store, scenario.held, g), "", <<>>, <<g>>)
    BY DEF KeyFindings
  <2>2. f.code = KeyStatus(store, scenario.held, g)
    BY <2>1 DEF Finding
  <2> QED
    BY <2>2 DEF KeyStatus
<1> QED
  BY <1>1, <1>2, <1>3

LEMMA AuditStep == ASSUME FilesInv, AuditInv, [Next]_vars PROVE AuditInv'
<1>1. DOMAIN touched' = Clocks
  BY ClocksStep DEF AuditInv
<1>2. scenario' = scenario
  BY DEF Next, vars, workspace, Edit, CreateNext, CreateStart, CheckConflict, CreateWrite,
     CreateFails, SetNext, SetRead, SetWrite, SetFails, MergeNext, IgnoreNext, CheckIgnore,
     ReadIgnore, WriteIgnore, IgnoreFails, PackNext, PackStart, Plan, Rewrite, Clear,
     WriteManifest, Copy, Scan, CopySecrets, PackFails, ValidateNext, ValidateStart,
     ResolveNext, DiagnoseNext, CheckSecrets, CheckPublicKeys, CheckKeypairs, Grade, EmitNext,
     EmitStart, EmitExplain, EmitEntries, EmitWrite, EmitFails
<1>3. AuditCmd' = AuditCmd
  BY <1>2 DEF AuditCmd
<1>4. ASSUME touched'["validate"] = {}, ~ValidateStart PROVE touched["validate"] = {} /\ AuditStill
  BY <1>4, QuietStep DEF AuditInv, Clocks, AuditStill
<1>0. "at" \in DOMAIN auditor
  BY DEF AuditInv, Within
<1>5. ASSUME auditor'.at = "failed", "at" \in DOMAIN auditor' PROVE AuditInv'
  BY <1>1, <1>5 DEF AuditInv, Within, AuditAts, Running
<1>6. CASE ValidateStart
  <2>1. CASE ValidateMove([at |-> "failed"])
    <3>1. auditor'.at = "failed" /\ "at" \in DOMAIN auditor'
      BY <2>1, AuditMoved
    <3> QED
      BY <1>5, <3>1
  <2>2. CASE /\ ValidManifest(manifest)
             /\ ValidateMove([at |-> "resolve", cmd |-> scenario.validate[1],
                  names |-> Declared(manifest), envs |-> manifest.environments,
                  params |-> <<>>, i |-> 1, refs |-> {}, report |-> {}])
    <3>1. /\ auditor'.at = "resolve" /\ auditor'.cmd = AuditCmd /\ auditor'.names = Declared(manifest)
          /\ auditor'.envs = manifest.environments /\ auditor'.params = <<>>
          /\ auditor'.i = 1 /\ auditor'.refs = {} /\ auditor'.report = {}
          /\ AuditFields \subseteq DOMAIN auditor'
      BY <2>2, AuditMoved DEF AuditCmd, AuditFields
    <3>2. UNCHANGED manifest
      BY <1>6 DEF ValidateStart
    <3>3. Len(Declared(manifest)) > 0
      <4>1. PICK p : p \in DOMAIN manifest.projects
        BY <2>2 DEF ValidManifest
      <4>2. p \in ToSet(Declared(manifest)) /\ Declared(manifest) \in Seq(STRING)
        BY <4>1, ThoseAre, ProjectAssumption DEF Declared, FilesInv, ManifestOK
      <4> QED
        BY <4>2 DEF ToSet
    <3>4. ASSUME touched'["validate"] = {} PROVE AuditKnows'
      <4>1. <<>> \in Seq(AuditSet') /\ Len(<<>>) = 0
        OBVIOUS
      <4>2. auditor'.params \in Seq(AuditSet') /\ Len(auditor'.params) = 0
        BY <3>1, <4>1
      <4> QED
        BY <2>2, <3>1, <3>2, <3>3, <4>2 DEF AuditKnows, Merging
    <3>5. OrphansKnown'
      BY <3>1 DEF OrphansKnown
    <3> QED
      BY <1>1, <1>3, <3>1, <3>4, <3>5 DEF AuditInv, Within, AuditAts, AuditFields
  <2> QED
    BY <1>6, <2>1, <2>2, Zenon DEF ValidateStart
<1>7. CASE ResolveNext
  <2> DEFINE project == auditor.names[Len(auditor.params) + 1]
             params == Append(auditor.params, Settled(manifest, project))
             at == IF Len(params) < Len(auditor.names) THEN "resolve"
                   ELSE IF NeedsMerge(auditor.cmd) THEN "diagnose" ELSE "secrets"
  <2>1. CASE ValidateMove([at |-> "failed"])
    <3>1. auditor'.at = "failed" /\ "at" \in DOMAIN auditor'
      BY <2>1, AuditMoved
    <3> QED
      BY <1>5, <3>1
  <2>2. CASE ValidManifest(manifest) /\ ValidateMove([params |-> params, at |-> at])
    <3>1. auditor.at = "resolve" /\ AuditStill /\ UNCHANGED touched
      BY <1>7 DEF ResolveNext, workspace, AuditStill
    <3>2. /\ AuditFields \subseteq DOMAIN auditor /\ auditor.cmd = AuditCmd /\ OrphansKnown
          /\ touched["validate"] = {} => AuditKnows
      BY <3>1 DEF AuditInv, Running
    <3>3. /\ auditor'.at = at /\ auditor'.params = params
          /\ auditor'.cmd = auditor.cmd /\ auditor'.names = auditor.names
          /\ auditor'.envs = auditor.envs /\ auditor'.i = auditor.i
          /\ auditor'.refs = auditor.refs /\ auditor'.report = auditor.report
          /\ AuditFields \subseteq DOMAIN auditor'
      <4> HIDE DEF params, at
      <4> QED
        BY <2>2, <3>2, AuditMoved DEF AuditFields
    <3>4. at \in {"resolve", "diagnose", "secrets"} /\ (at = "secrets" => ~NeedsMerge(auditor.cmd))
          /\ (at = "resolve" <=> Len(params) < Len(auditor.names))
      OBVIOUS
    <3>5. ASSUME touched["validate"] = {} PROVE AuditKnows'
      <4> DEFINE old == auditor.params
                 new == Settled(manifest, project)
      <4>1. AuditKnows
        BY <3>2, <3>5
      <4>2. /\ old \in Seq(AuditSet) /\ Len(old) < Len(auditor.names)
            /\ auditor.names = Declared(manifest)
            /\ \A a \in 1..Len(old) : old[a] = Settled(manifest, Declared(manifest)[a])
            /\ auditor.i = 1 /\ auditor.refs = {} /\ auditor.report = {}
            /\ auditor.envs = manifest.environments
        BY <3>1, <4>1 DEF AuditKnows
      <4>3. Declared(manifest) \in Seq(STRING)
        BY ThoseAre, ProjectAssumption DEF Declared
      <4>4. Len(old) + 1 \in 1..Len(Declared(manifest))
        BY <4>2, <4>3
      <4>5. new \in AuditSet /\ new = Settled(manifest, Declared(manifest)[Len(old) + 1])
        BY <4>2, <4>4 DEF AuditSet
      <4> HIDE DEF old, new
      <4>6. params = Append(old, new)
        BY DEF old, new
      <4>7. /\ params \in Seq(AuditSet) /\ Len(params) = Len(old) + 1
            /\ \A a \in 1..Len(params) : params[a] = Settled(manifest, Declared(manifest)[a])
        BY <4>2, <4>5, <4>6
      <4>8. at # "resolve" => Len(params) = Len(auditor.names)
        BY <3>4, <4>2, <4>3, <4>7
      <4>9. manifest' = manifest /\ AuditSet' = AuditSet
        BY <3>1, AuditSame DEF AuditStill
      <4>10. /\ auditor'.params \in Seq(AuditSet') /\ Len(auditor'.params) = Len(params)
             /\ auditor'.names = Declared(manifest') /\ auditor'.envs = manifest'.environments
             /\ \A a \in 1..Len(auditor'.params) :
                   auditor'.params[a] = Settled(manifest', Declared(manifest')[a])
             /\ auditor'.i = 1 /\ auditor'.refs = {} /\ auditor'.report = {}
        BY <3>3, <4>2, <4>7, <4>9
      <4>11. /\ auditor'.at \in {"resolve", "diagnose", "secrets"}
             /\ auditor'.at = "secrets" => ~NeedsMerge(auditor'.cmd)
             /\ auditor'.at = "resolve" => Len(auditor'.params) < Len(auditor'.names)
             /\ auditor'.at # "resolve" => Len(auditor'.params) = Len(auditor'.names)
        <5> HIDE DEF params, at
        <5> QED
          BY <3>3, <3>4, <4>8, <4>10
      <4>12. ValidManifest(manifest')
        BY <2>2, <4>9
      <4>13. \A j \in 1..(auditor'.i - 1) : FALSE
        BY <4>10
      <4> HIDE DEF params, at
      <4> QED
        BY <4>10, <4>11, <4>12, <4>13 DEF AuditKnows, Merging
    <3>6. OrphansKnown'
      BY <3>1, <3>2, <3>3 DEF OrphansKnown
    <3>7. auditor'.at \in AuditAts /\ "at" \in DOMAIN auditor'
      BY <3>3, <3>4 DEF AuditAts, AuditFields
    <3> QED
      BY <1>1, <1>3, <3>1, <3>2, <3>3, <3>5, <3>6, <3>7 DEF AuditInv, Within
  <2> QED
    BY <1>7, <2>1, <2>2, Zenon DEF ResolveNext
<1>8. CASE DiagnoseNext
  <2> DEFINE n == Len(auditor.envs)
             project == ((auditor.i - 1) \div n) + 1
             env == auditor.envs[((auditor.i - 1) % n) + 1]
             params == auditor.params[project]
             merged == Merged(params, env, auditor.cmd.os)
             values == merged.state.values
             at == IF auditor.i = n * Len(auditor.params) THEN "secrets" ELSE "diagnose"
             refs == auditor.refs \cup (Reference \cap
                         UNION {Items(values[k]) : k \in DOMAIN values})
             found == Recorded(auditor.cmd, FindingsIn(auditor.names[project], env, merged.state))
             report == auditor.report \cup found
  <2>1. CASE ValidateMove([at |-> "failed"])
    <3>1. auditor'.at = "failed" /\ "at" \in DOMAIN auditor'
      BY <2>1, AuditMoved
    <3> QED
      BY <1>5, <3>1
  <2>2. CASE ValidateMove([i |-> auditor.i + 1, at |-> at, refs |-> refs, report |-> report])
    <3>1. auditor.at = "diagnose" /\ AuditStill /\ UNCHANGED touched
      BY <1>8 DEF DiagnoseNext, workspace, AuditStill
    <3>2. /\ AuditFields \subseteq DOMAIN auditor /\ auditor.cmd = AuditCmd /\ OrphansKnown
          /\ touched["validate"] = {} => AuditKnows
      BY <3>1 DEF AuditInv, Running
    <3>3. /\ auditor'.at = at /\ auditor'.refs = refs /\ auditor'.report = report
          /\ auditor'.i = auditor.i + 1
          /\ auditor'.cmd = auditor.cmd /\ auditor'.names = auditor.names
          /\ auditor'.envs = auditor.envs /\ auditor'.params = auditor.params
          /\ AuditFields \subseteq DOMAIN auditor'
      <4> HIDE DEF at, refs, report
      <4> QED
        BY <2>2, <3>2, AuditMoved DEF AuditFields
    <3>4. at \in {"diagnose", "secrets"} /\ (at = "secrets" => auditor.i = n * Len(auditor.params))
      OBVIOUS
    <3>5. auditor.refs \subseteq refs /\ auditor.report \subseteq report
      OBVIOUS
    <3>6. \A f \in found : f.code # "secret_is_not_referenced"
      <4> DEFINE state == merged.state
      <4> HIDE DEF merged
      <4>1. ASSUME NEW f \in FindingsIn(auditor.names[project], env, state)
            PROVE  f.code # "secret_is_not_referenced"
        <5> DEFINE code(k) == Diagnosed(state.values, k, store, auditor.cmd.os, FALSE).code
        <5>1. \/ \E k : f = Finding("property_not_declared_in_base", auditor.names[project], env, k)
              \/ \E k : code(k) \in ResolutionCodes
                        /\ f = Finding(code(k), auditor.names[project], env, k)
          BY DEF FindingsIn
        <5> HIDE DEF code
        <5> QED
          BY <5>1 DEF Finding, ResolutionCodes
      <4> QED
        BY <4>1 DEF Recorded
    <3>7. OrphansKnown'
      <4>1. \A f \in report : f.code # "secret_is_not_referenced"
        BY <3>1, <3>2, <3>6 DEF OrphansKnown
      <4> HIDE DEF report
      <4> QED
        BY <3>3, <4>1 DEF OrphansKnown
    <3>8. ASSUME NEW j, j = auditor.i PROVE Visited(j)'
      <4> DEFINE merge == [project |-> auditor.names[project], params |-> params, env |-> env]
                 state == merged.state
                 here == FindingsIn(auditor.names[project], env, state)
      <4>1. MergeOf(j)' = merge
        <5>1. /\ auditor'.names = auditor.names /\ auditor'.envs = auditor.envs
              /\ auditor'.params = auditor.params
          BY <3>3
        <5> QED
          BY <3>8, <5>1 DEF MergeOf
      <4>2. MergedAt(j)' = state
        <5>1. /\ merge.params = params /\ merge.env = env
          OBVIOUS
        <5>2. auditor'.cmd = auditor.cmd /\ UNCHANGED files
          BY <3>1, <3>3 DEF AuditStill
        <5> HIDE DEF merge, params, env
        <5> QED
          BY <4>1, <5>1, <5>2 DEF MergedAt, Merged
      <4>3. FindingsIn(MergeOf(j).project, MergeOf(j).env, MergedAt(j))' = here
        <5>1. /\ merge.project = auditor.names[project] /\ merge.env = env
          OBVIOUS
        <5>2. auditor'.cmd = auditor.cmd /\ AuditStill
          BY <3>1, <3>3
        <5> HIDE DEF merge, state, env, project
        <5> QED
          BY <4>1, <4>2, <5>1, <5>2 DEF FindingsIn, Diagnosed, Status, AuditStill
      <4>4. Recorded(auditor'.cmd, here) \subseteq auditor'.report
        BY <3>3
      <4>5. \A k \in DOMAIN state.values :
               Reference \cap Items(state.values[k]) \subseteq auditor'.refs
        <5>1. \A k \in DOMAIN values : Reference \cap Items(values[k]) \subseteq refs
          <6> HIDE DEF values
          <6> QED
            OBVIOUS
        <5> HIDE DEF refs, merged
        <5> QED
          BY <3>3, <5>1
      <4> HIDE DEF state, here
      <4> QED
        BY <4>2, <4>3, <4>4, <4>5 DEF Visited
    <3>9. ASSUME touched["validate"] = {} PROVE AuditKnows'
      <4>1. AuditKnows
        BY <3>2, <3>9
      <4>2. /\ auditor.names = Declared(manifest) /\ auditor.envs = manifest.environments
            /\ auditor.params \in Seq(AuditSet) /\ Len(auditor.params) = Len(auditor.names)
            /\ \A a \in 1..Len(auditor.params) :
                  auditor.params[a] = Settled(manifest, Declared(manifest)[a])
            /\ auditor.i \in Nat /\ auditor.i >= 1 /\ ValidManifest(manifest)
            /\ \A j \in 1..(auditor.i - 1) : Visited(j)
        BY <3>1, <4>1 DEF AuditKnows, Merging
      <4>3. manifest' = manifest /\ AuditSet' = AuditSet
        BY <3>1, AuditSame DEF AuditStill
      <4>4. /\ auditor'.names = Declared(manifest') /\ auditor'.envs = manifest'.environments
            /\ auditor'.params \in Seq(AuditSet') /\ Len(auditor'.params) = Len(auditor'.names)
            /\ \A a \in 1..Len(auditor'.params) :
                  auditor'.params[a] = Settled(manifest', Declared(manifest')[a])
            /\ auditor'.i \in Nat /\ auditor'.i >= 1 /\ ValidManifest(manifest')
        <5> HIDE DEF refs, report, at
        <5> QED
          BY <3>3, <4>2, <4>3
      <4>5. ASSUME NEW j \in 1..(auditor'.i - 1) PROVE Visited(j)'
        <5>1. CASE j = auditor.i
          BY <3>8, <5>1
        <5>2. CASE j # auditor.i
          <6>1. j \in 1..(auditor.i - 1)
            <7> DEFINE old == auditor.i
            <7>1. auditor'.i = old + 1 /\ old \in Nat /\ j # old
              BY <3>3, <4>2, <5>2
            <7> HIDE DEF old
            <7>2. j \in 1..(old - 1)
              BY <4>5, <7>1
            <7> QED
              BY <7>2 DEF old
          <6>2. Visited(j)
            BY <4>2, <6>1
          <6> HIDE DEF refs, report, at
          <6> QED
            BY <3>1, <3>3, <3>5, <6>2, VisitedStays
        <5> QED
          BY <5>1, <5>2
      <4>6. /\ auditor'.at \in {"diagnose", "secrets"}
            /\ auditor'.at = "secrets" =>
                  auditor'.i = Len(auditor'.envs) * Len(auditor'.params) + 1
        <5> HIDE DEF refs, report, at
        <5> QED
          BY <3>3, <3>4
      <4> HIDE DEF refs, report, at
      <4> QED
        BY <4>4, <4>5, <4>6 DEF AuditKnows, Merging
    <3>10. auditor'.at \in AuditAts /\ "at" \in DOMAIN auditor'
      BY <3>3, <3>4 DEF AuditAts, AuditFields
    <3> HIDE DEF at, refs, report
    <3> QED
      BY <1>1, <1>3, <3>1, <3>2, <3>3, <3>7, <3>9, <3>10 DEF AuditInv, Within
  <2> QED
    BY <1>8, <2>1, <2>2, Zenon DEF DiagnoseNext
<1>9. CASE CheckSecrets
  <2> DEFINE orphans == About("secret_is_not_referenced", Stored(store) \ auditor.refs)
             X == Recorded(auditor.cmd, StoreFindings \cup orphans)
  <2>1. /\ auditor.at = "secrets" /\ AuditStill /\ UNCHANGED touched
        /\ ValidateMove([at |-> "public", report |-> auditor.report \cup X])
    BY <1>9 DEF CheckSecrets, StoreFindings, About, workspace, AuditStill
  <2>2. /\ AuditFields \subseteq DOMAIN auditor /\ auditor.cmd = AuditCmd /\ OrphansKnown
        /\ touched["validate"] = {} => AuditKnows
    BY <2>1 DEF AuditInv, Running
  <2> HIDE DEF X
  <2>3. /\ auditor'.at = "public" /\ auditor'.report = auditor.report \cup X
        /\ AuditFields \subseteq DOMAIN auditor'
        /\ \A x \in AuditFields : x \notin {"at", "report"} => auditor'[x] = auditor[x]
    BY <2>1, <2>2, AuditMoved DEF AuditFields
  <2>4. OrphansKnown'
    <3>1. ASSUME NEW f \in auditor'.report, f.code = "secret_is_not_referenced"
          PROVE  Runs(auditor.cmd, f.code) /\ \E r : f.key = <<r>> /\ r \notin auditor.refs
      <4>1. f \in X
        BY <2>1, <2>2, <2>3, <3>1 DEF OrphansKnown
      <4>2. f \in StoreFindings \cup orphans /\ Runs(auditor.cmd, f.code)
        BY <4>1 DEF X, Recorded
      <4>3. f \in orphans
        BY <3>1, <4>2, StoreFindingsApart
      <4>4. \E r \in Stored(store) \ auditor.refs : f.key = <<r>>
        BY <4>3, FindingApart
      <4> QED
        BY <4>2, <4>4
    <3> QED
      BY <2>3, <3>1 DEF OrphansKnown, AuditFields
  <2>5. Recorded(auditor.cmd, StoreFindings) \subseteq X
    BY DEF X, Recorded
  <2>6. ASSUME touched["validate"] = {} PROVE AuditKnows'
    BY <2>1, <2>2, <2>3, <2>5, <2>6, KnowsLater DEF Merging
  <2> QED
    BY <1>1, <1>3, <2>1, <2>2, <2>3, <2>4, <2>6 DEF AuditInv, Within, AuditAts, AuditFields
<1>10. CASE CheckPublicKeys
  <2> DEFINE X == Recorded(auditor.cmd, GroupFindings)
  <2>1. /\ auditor.at = "public" /\ AuditStill /\ UNCHANGED touched
        /\ ValidateMove([at |-> "keypairs", report |-> auditor.report \cup X])
    BY <1>10 DEF CheckPublicKeys, GroupFindings, About, workspace, AuditStill
  <2>2. AuditFields \subseteq DOMAIN auditor
    BY <2>1 DEF AuditInv, Running
  <2>3. \A f \in X : f.code # "secret_is_not_referenced"
    BY StoreFindingsApart DEF Recorded
  <2> HIDE DEF X
  <2>4. /\ auditor'.at = "keypairs" /\ auditor'.report = auditor.report \cup X
        /\ AuditFields \subseteq DOMAIN auditor'
        /\ \A x \in AuditFields : x \notin {"at", "report"} => auditor'[x] = auditor[x]
    BY <2>1, <2>2, AuditMoved DEF AuditFields
  <2>5. Recorded(auditor.cmd, GroupFindings) \subseteq X
    BY DEF X
  <2> QED
    BY <1>1, <2>1, <2>3, <2>4, <2>5, AuditLater DEF Merging
<1>11. CASE CheckKeypairs
  <2> DEFINE X == Recorded(auditor.cmd, KeyFindings)
  <2>1. auditor.at = "keypairs" /\ AuditStill /\ UNCHANGED touched
    BY <1>11 DEF CheckKeypairs, workspace, AuditStill
  <2>2. AuditFields \subseteq DOMAIN auditor
    BY <2>1 DEF AuditInv, Running
  <2>3. \/ (\A code \in Health : ~Runs(auditor.cmd, code)) /\ ValidateMove([at |-> "grade"])
        \/ ValidateMove([at |-> "grade", report |-> auditor.report \cup X])
        \/ ValidateMove([at |-> "failed"])
    BY <1>11 DEF CheckKeypairs, Health, KeyFindings, Poor
  <2>4. \A f \in X : f.code # "secret_is_not_referenced"
    BY StoreFindingsApart DEF Recorded
  <2> HIDE DEF X
  <2>5. CASE (\A code \in Health : ~Runs(auditor.cmd, code)) /\ ValidateMove([at |-> "grade"])
    <3>1. /\ auditor'.at = "grade" /\ auditor'.report = auditor.report
          /\ AuditFields \subseteq DOMAIN auditor'
          /\ \A x \in AuditFields : x \notin {"at", "report"} => auditor'[x] = auditor[x]
      BY <2>2, <2>5, AuditMoved DEF AuditFields
    <3> QED
      BY <1>1, <2>1, <2>5, <3>1, AuditQuiet DEF Merging
  <2>6. CASE ValidateMove([at |-> "grade", report |-> auditor.report \cup X])
    <3>1. /\ auditor'.at = "grade" /\ auditor'.report = auditor.report \cup X
          /\ AuditFields \subseteq DOMAIN auditor'
          /\ \A x \in AuditFields : x \notin {"at", "report"} => auditor'[x] = auditor[x]
      BY <2>2, <2>6, AuditMoved DEF AuditFields
    <3>2. Recorded(auditor.cmd, KeyFindings) \subseteq X
      BY DEF X
    <3> QED
      BY <1>1, <2>1, <2>4, <3>1, <3>2, AuditLater DEF Merging
  <2>7. CASE ValidateMove([at |-> "failed"])
    <3>1. auditor'.at = "failed" /\ "at" \in DOMAIN auditor'
      BY <2>7, AuditMoved
    <3> QED
      BY <1>5, <3>1
  <2> QED
    BY <2>3, <2>5, <2>6, <2>7
<1>12. CASE Grade
  <2>1. /\ auditor.at = "grade" /\ AuditStill /\ UNCHANGED touched
        /\ \E v : ValidateMove([at |-> "done", verdict |-> v])
    BY <1>12 DEF Grade, workspace, AuditStill
  <2>2. PICK v : ValidateMove([at |-> "done", verdict |-> v])
    BY <2>1
  <2>3. AuditFields \subseteq DOMAIN auditor
    BY <2>1 DEF AuditInv, Running
  <2>4. /\ auditor'.at = "done" /\ auditor'.report = auditor.report
        /\ AuditFields \subseteq DOMAIN auditor'
        /\ \A x \in AuditFields : x \notin {"at", "report"} => auditor'[x] = auditor[x]
    BY <2>2, <2>3, AuditMoved DEF AuditFields
  <2> QED
    BY <1>1, <2>1, <2>4, AuditQuiet DEF Merging
<1>13. CASE UNCHANGED auditor /\ ~ValidateStart
  <2>1. ASSUME auditor.at \in Running, touched'["validate"] = {} PROVE AuditKnows'
    <3>1. AuditKnows /\ AuditStill
      BY <1>4, <1>13, <2>1 DEF AuditInv
    <3>2. ASSUME NEW j \in 1..(auditor.i - 1) PROVE Visited(j)'
      <4>1. Visited(j)
        BY <3>1, <3>2 DEF AuditKnows
      <4> QED
        BY <1>13, <3>1, <4>1, VisitedStays
    <3>3. /\ manifest' = manifest /\ AuditSet' = AuditSet /\ StoreFindings' = StoreFindings
          /\ GroupFindings' = GroupFindings /\ KeyFindings' = KeyFindings
      BY <3>1, AuditSame DEF AuditStill
    <3> QED
      BY <1>13, <3>1, <3>2, <3>3 DEF AuditKnows
  <2>2. ASSUME auditor.at \in Running PROVE OrphansKnown'
    BY <1>13, <2>2 DEF AuditInv, OrphansKnown
  <2> QED
    BY <1>1, <1>3, <1>13, <2>1, <2>2 DEF AuditInv, Within
<1>14. ValidateNext \/ UNCHANGED auditor
  BY DEF Next, vars, workspace, Edit, CreateNext, CreateStart, CheckConflict, CreateWrite,
     CreateFails, SetNext, SetRead, SetWrite, SetFails, MergeNext, IgnoreNext, CheckIgnore,
     ReadIgnore, WriteIgnore, IgnoreFails, PackNext, PackStart, Plan, Rewrite, Clear,
     WriteManifest, Copy, Scan, CopySecrets, PackFails, EmitNext, EmitStart, EmitExplain,
     EmitEntries, EmitWrite, EmitFails
<1> QED
  BY <1>6, <1>7, <1>8, <1>9, <1>10, <1>11, <1>12, <1>13, <1>14 DEF ValidateNext

THEOREM AuditInvariant == Spec => []AuditInv
<1>1. Spec => []FilesInv
  BY FilesInvariant
<1>2. Init => AuditInv
  BY AuditInitially
<1>3. FilesInv /\ AuditInv /\ [Next]_vars => AuditInv'
  BY AuditStep
<1> QED
  BY <1>1, <1>2, <1>3, PTL DEF Spec

\* A report that nothing has overtaken has seen every world, if it merges.
LEMMA AuditedVisits ==
    ASSUME FilesInv, AuditInv, Audited, NeedsMerge(auditor.cmd), NEW u \in Worlds
    PROVE  \E j : /\ Visited(j)
                  /\ MergeOf(j).project = u.project /\ MergeOf(j).env = u.env
                  /\ MergedAt(j).values = u.values
<1>1. auditor.at = "done" /\ touched["validate"] = {}
  BY DEF Audited
<1>2. AuditKnows /\ auditor.cmd = AuditCmd
  BY <1>1 DEF AuditInv, Running
<1>3. PICK p \in DOMAIN manifest.projects, e \in ToSet(manifest.environments) :
         u = [project |-> p, env |-> e,
              values |-> Merged(Settled(manifest, p), e, AuditCmd.os).state.values]
  BY DEF Worlds, AuditCmd
<1>4. PICK a \in 1..Len(auditor.names) : auditor.names[a] = p
  <2>1. p \in ToSet(Project)
    BY DEF FilesInv, ManifestOK
  <2>2. p \in ToSet(Declared(manifest)) /\ Declared(manifest) \in Seq(STRING)
    BY <2>1, ThoseAre, ProjectAssumption DEF Declared
  <2> QED
    BY <1>2, <2>2 DEF AuditKnows, ToSet
<1>5. PICK b \in 1..Len(auditor.envs) : auditor.envs[b] = e
  <2>1. manifest.environments \in Seq(Seq(STRING))
    BY DEF FilesInv, ManifestOK
  <2> QED
    BY <1>2, <2>1 DEF AuditKnows, ToSet
<1> DEFINE n == Len(auditor.envs)
           m == Len(auditor.params)
           N == n * m
<1>6. /\ n \in Nat /\ m \in Nat /\ a \in 1..m
      /\ auditor.params[a] = Settled(manifest, Declared(manifest)[a])
      /\ Declared(manifest)[a] = p
  <2>1. manifest.environments \in Seq(Seq(STRING))
    BY DEF FilesInv, ManifestOK
  <2>2. /\ auditor.params \in Seq(AuditSet) /\ auditor.envs = manifest.environments
        /\ auditor.names = Declared(manifest)
        /\ \A k \in 1..Len(auditor.params) :
              auditor.params[k] = Settled(manifest, Declared(manifest)[k])
    BY <1>2 DEF AuditKnows
  <2>3. Len(auditor.params) = Len(auditor.names)
    BY <1>1, <1>2 DEF AuditKnows
  <2>4. n \in Nat /\ m \in Nat
    BY <2>1, <2>2
  <2>5. a \in 1..m /\ a \in 1..Len(auditor.params)
    BY <2>3
  <2> HIDE DEF n, m, N
  <2> QED
    BY <1>4, <2>2, <2>4, <2>5
<1>7. PICK j \in 1..N : PairOf(j, n) = <<a, b>>
  <2>1. b \in 1..n /\ N = n * m
    OBVIOUS
  <2> HIDE DEF n, m, N
  <2> QED
    BY <1>6, <2>1, Paired
<1>8. Visited(j)
  <2>1. auditor.i = N + 1 /\ auditor.i \in Nat /\ auditor.i >= 1
    BY <1>1, <1>2 DEF AuditKnows, Merging
  <2>2. N \in Nat
    <3> HIDE DEF n, m
    <3> QED
      BY <1>6
  <2> HIDE DEF N
  <2>3. j \in 1..(auditor.i - 1)
    BY <2>1, <2>2
  <2> QED
    BY <1>2, <2>3 DEF AuditKnows
<1>9. MergeOf(j) = [project |-> p, params |-> Settled(manifest, p), env |-> e]
  BY <1>4, <1>5, <1>6, <1>7 DEF MergeOf, PairOf
<1>10. MergedAt(j).values = Merged(Settled(manifest, p), e, AuditCmd.os).state.values
  <2>1. MergeOf(j).params = Settled(manifest, p) /\ MergeOf(j).env = e
    BY <1>9
  <2> QED
    BY <1>2, <2>1 DEF MergedAt
<1> QED
  BY <1>3, <1>8, <1>9, <1>10

(* Whatever checks were selected, a secret that is reported as never       *)
(* referenced is in no value that run would read, in any project and any   *)
(* environment: the merges happen whenever the orphan check runs, and what *)
(* is left over was not in any of them (registry.go, needsMerge;           *)
(* validate.go, collectReferences).                                        *)
THEOREM OrphansAreReal == Spec => []OrphansReal
<1>1. FilesInv /\ AuditInv => OrphansReal
  <2> SUFFICES ASSUME FilesInv, AuditInv, Audited, NEW f \in auditor.report,
                      f.code = "secret_is_not_referenced",
                      NEW u \in Worlds, NEW k \in DOMAIN u.values
               PROVE  Reference \cap Items(u.values[k]) \cap ToSet(f.key) = {}
    BY DEF OrphansReal
  <2>1. auditor.at \in Running
    BY DEF Audited, Running
  <2>2. OrphansKnown
    BY <2>1 DEF AuditInv
  <2>3. Runs(auditor.cmd, "secret_is_not_referenced")
    BY <2>2 DEF OrphansKnown
  <2>4. PICK r : f.key = <<r>> /\ r \notin auditor.refs
    BY <2>2 DEF OrphansKnown
  <2>5. PICK j : Visited(j) /\ MergedAt(j).values = u.values
    BY <2>3, AuditedVisits DEF NeedsMerge
  <2>6. Reference \cap Items(u.values[k]) \subseteq auditor.refs
    BY <2>5 DEF Visited
  <2>7. ToSet(f.key) = {r}
    BY <2>4 DEF ToSet
  <2> QED
    BY <2>4, <2>6, <2>7
<1> QED
  BY <1>1, FilesInvariant, AuditInvariant, PTL

-----------------------------------------------------------------------------
(* validate: a full report misses nothing that run would fail on, but for  *)
(* what a list hides.                                                      *)

\* The pair in order at a reference's group, under which Healed reseals.
Fit(r) == GroupOf[r] \in DOMAIN PublicKeys(store)
          /\ KeyStatus(store, scenario.held, GroupOf[r]) = "ok"

LEMMA HealedAre ==
    ASSUME StoreOK(store)
    PROVE  /\ Stored(Healed(store)) = Stored(store)
           /\ \A r \in Stored(store) :
                 LET was == Cells(store)[r]
                     now == Cells(Healed(store))[r] IN
                 /\ now.sealed = was.sealed /\ now.algorithm = was.algorithm
                 /\ now.pair = IF Fit(r) /\ was.sealed THEN PublicKeys(store)[GroupOf[r]]
                               ELSE was.pair
                 /\ r \notin Stale => now.pair = was.pair
<1>1. CASE store = <<>>
  <2>1. Healed(store) = store /\ Stored(store) = {}
    BY <1>1 DEF Healed, Stored, Cells
  <2> QED
    BY <2>1
<1>2. CASE store # <<>>
  <2> DEFINE cell(r) == IF Fit(r) /\ Cells(store)[r].sealed
                        THEN [Cells(store)[r] EXCEPT !.pair = PublicKeys(store)[GroupOf[r]]]
                        ELSE Cells(store)[r]
             cells == [r \in Stored(store) |-> cell(r)]
  <2>1. Healed(store) = <<[cells |-> cells, pub |-> PublicKeys(store)]>>
    BY <1>2 DEF Healed, Fit
  <2>2. Cells(Healed(store)) = cells
    <3> HIDE DEF cells
    <3> QED
      BY <2>1 DEF Cells
  <2>3. Stored(Healed(store)) = Stored(store)
    BY <2>2 DEF Stored
  <2>4. ASSUME NEW r \in Stored(store)
        PROVE  LET was == Cells(store)[r]
                   now == Cells(Healed(store))[r] IN
               /\ now.sealed = was.sealed /\ now.algorithm = was.algorithm
               /\ now.pair = IF Fit(r) /\ was.sealed THEN PublicKeys(store)[GroupOf[r]]
                             ELSE was.pair
               /\ r \notin Stale => now.pair = was.pair
    <3> DEFINE was == Cells(store)[r]
               now == Cells(Healed(store))[r]
    <3>1. now = cell(r)
      BY <2>2
    <3>2. was \in {Sealed(was.pair), Foreign(was.pair), Bare}
      BY DEF StoreOK
    <3>3. DOMAIN was = {"sealed", "pair", "algorithm"}
      <4> HIDE DEF was
      <4> QED
        BY <3>2 DEF Sealed, Foreign, Bare
    <3>4. r \notin Stale => now = was
      BY DEF Stale
    <3> HIDE DEF was, now
    <3>5. now = IF Fit(r) /\ was.sealed
                THEN [was EXCEPT !.pair = PublicKeys(store)[GroupOf[r]]] ELSE was
      BY <3>1 DEF was
    <3>6. now.sealed = was.sealed /\ now.algorithm = was.algorithm
      BY <3>3, <3>5
    <3>7. now.pair = IF Fit(r) /\ was.sealed THEN PublicKeys(store)[GroupOf[r]] ELSE was.pair
      BY <3>3, <3>5
    <3> QED
      BY <3>4, <3>6, <3>7 DEF was, now
  <2> QED
    BY <2>3, <2>4
<1> QED
  BY <1>1, <1>2

\* A report of every check at the default levels.
FullReport ==
    /\ FilesInv /\ AuditInv /\ Audited
    /\ auditor.cmd.selected = {} /\ auditor.cmd.severity = <<>>

LEMMA AllRecorded ==
    ASSUME FullReport, NEW F, NEW f \in F, f.code # "property_not_declared_in_base"
    PROVE  f \in Recorded(auditor.cmd, F)
<1>1. Runs(auditor.cmd, f.code)
  BY DEF FullReport, Runs
<1>2. DOMAIN auditor.cmd.severity = {}
  BY DEF FullReport
<1>3. Level(auditor.cmd, f.code) # "off"
  BY <1>2 DEF Level
<1> QED
  BY <1>1, <1>3 DEF Recorded

\* What the report says of the store and of the groups.
LEMMA StoreReported ==
    ASSUME FullReport
    PROVE  /\ \A r \in Unsealed(store) \cup Mismatched(store) :
                 \E f \in auditor.report : f.key = <<r>>
           /\ \A g \in Keyless(store) \cup Poor : \E f \in auditor.report : f.key = <<g>>
<1>1. AuditKnows /\ auditor.at = "done"
  BY DEF FullReport, AuditInv, Audited, Running
<1>2. /\ Recorded(auditor.cmd, StoreFindings) \subseteq auditor.report
      /\ Recorded(auditor.cmd, GroupFindings) \subseteq auditor.report
      /\ Recorded(auditor.cmd, KeyFindings) \subseteq auditor.report
  BY <1>1 DEF AuditKnows, FullReport, Runs, Health
<1>3. ASSUME NEW code, NEW S, NEW r \in S, code # "property_not_declared_in_base",
             NEW F, About(code, S) \subseteq F, Recorded(auditor.cmd, F) \subseteq auditor.report
      PROVE  \E f \in auditor.report : f.key = <<r>>
  <2> DEFINE f == Finding(code, "", <<>>, <<r>>)
  <2>1. f \in F
    BY <1>3 DEF About
  <2>2. f.code = code /\ f.key = <<r>>
    BY DEF Finding
  <2> HIDE DEF f
  <2>3. f \in auditor.report
    BY <1>3, <2>1, <2>2, AllRecorded
  <2> QED
    BY <2>2, <2>3
<1>4. ASSUME NEW r \in Unsealed(store) \cup Mismatched(store)
      PROVE  \E f \in auditor.report : f.key = <<r>>
  <2>1. /\ About("secret_is_not_encrypted", Unsealed(store)) \subseteq StoreFindings
        /\ About("secret_algorithm_mismatch", Mismatched(store)) \subseteq StoreFindings
    BY DEF StoreFindings
  <2>2. CASE r \in Unsealed(store)
    BY <1>2, <1>3, <2>1, <2>2
  <2>3. CASE r \in Mismatched(store)
    BY <1>2, <1>3, <2>1, <2>3
  <2> QED
    BY <1>4, <2>2, <2>3
<1>5. ASSUME NEW g \in Keyless(store) PROVE \E f \in auditor.report : f.key = <<g>>
  BY <1>2, <1>3, <1>5 DEF GroupFindings
<1>6. ASSUME NEW g \in Poor PROVE \E f \in auditor.report : f.key = <<g>>
  <2> DEFINE f == Finding(KeyStatus(store, scenario.held, g), "", <<>>, <<g>>)
  <2>1. f \in KeyFindings
    BY <1>6 DEF KeyFindings
  <2>2. f.code # "property_not_declared_in_base" /\ f.key = <<g>>
    BY DEF Finding, KeyStatus
  <2> HIDE DEF f
  <2> QED
    BY <1>2, <2>1, <2>2, AllRecorded
<1> QED
  BY <1>4, <1>5, <1>6

\* A stored secret that does not open as if healed, or whose code is as bad as
\* can be and that is not stale, is reported, itself or its group.
LEMMA StoredReported ==
    ASSUME FullReport, NEW x \in Stored(store),
           \/ ~Resolves(x, Healed(store), scenario.held, TRUE)
           \/ x \notin Stale /\ Code(x, store, scenario.held) # "ok"
    PROVE  \E f \in auditor.report : f.key \in {<<x>>, <<GroupOf[x]>>}
<1> DEFINE cell == Cells(store)[x]
           now == Cells(Healed(store))[x]
           g == GroupOf[x]
           pub == PublicKeys(store)
<1>1. StoreOK(store)
  BY DEF FullReport, FilesInv
<1>2. x \in Reference /\ x \notin Misspelt
  BY <1>1, ReferenceAssumption DEF StoreOK
<1>3. /\ Stored(Healed(store)) = Stored(store)
      /\ now.sealed = cell.sealed /\ now.algorithm = cell.algorithm
      /\ now.pair = IF Fit(x) /\ cell.sealed THEN pub[g] ELSE cell.pair
      /\ x \notin Stale => now.pair = cell.pair
  BY <1>1, HealedAre
<1>4. cell \in {Sealed(cell.pair), Foreign(cell.pair), Bare} /\ cell.pair \notin Unkeyed
  BY <1>1 DEF StoreOK
<1> HIDE DEF now
<1>5. CASE x \in Unsealed(store) \cup Mismatched(store)
  BY <1>5, StoreReported
<1>6. CASE g \in Keyless(store) \cup Poor
  BY <1>6, StoreReported
<1>7. CASE x \notin Unsealed(store) \cup Mismatched(store) /\ g \notin Keyless(store) \cup Poor
  <2>1. cell.sealed /\ cell.algorithm \in {"configured", "none"}
    BY <1>7 DEF Unsealed, Mismatched
  <2>2. cell.algorithm = "configured"
    <3> HIDE DEF cell
    <3> QED
      BY <1>4, <2>1 DEF Sealed, Foreign, Bare
  <2>3. g \in DOMAIN pub /\ KeyStatus(store, scenario.held, g) = "ok"
    BY <1>7 DEF Keyless, Poor
  <2>4. now.pair = pub[g]
    BY <1>3, <2>1, <2>3 DEF Fit
  <2>5. scenario.held[g] = pub[g] /\ scenario.held[g] # "unavailable"
    BY <2>3 DEF KeyStatus
  <2>6. Resolves(x, Healed(store), scenario.held, TRUE)
    BY <1>2, <1>3, <2>1, <2>2, <2>4, <2>5 DEF Resolves, now
  <2>7. x \notin Stale => Code(x, store, scenario.held) = "ok"
    BY <1>2, <1>3, <1>4, <2>1, <2>2, <2>4, <2>5 DEF Code, Unkeyed
  <2> QED
    BY <2>6, <2>7
<1> QED
  BY <1>5, <1>6, <1>7

\* What a finding has to do with the value of a key (Reports).
Beneath(u, k) == (Behind(u.values, k) \cup {k}) \cap DOMAIN u.values

Concerns(f, u, k) ==
    \/ f.project = u.project /\ f.env = u.env /\ f.key \in Behind(u.values, k) \cup {k}
    \/ \E x \in (UNION {Items(u.values[j]) : j \in Beneath(u, k)}) \cap Reference :
          f.key \in {<<x>>, <<GroupOf[x]>>}

\* A code of explain that validate takes over is reported for its key.
LEMMA CodeReported ==
    ASSUME FullReport, NEW u \in Worlds, NEW k, NEW j \in Beneath(u, k),
           Diagnosed(u.values, j, store, auditor.cmd.os, FALSE).code
               \in ResolutionCodes \ {"property_not_declared_in_base"}
    PROVE  \E f \in auditor.report : Concerns(f, u, k)
<1> DEFINE code == Diagnosed(u.values, j, store, auditor.cmd.os, FALSE).code
           f == Finding(code, u.project, u.env, j)
<1>1. NeedsMerge(auditor.cmd)
  BY DEF FullReport, NeedsMerge, Runs, ResolutionCodes
<1>2. PICK i : /\ Visited(i)
               /\ MergeOf(i).project = u.project /\ MergeOf(i).env = u.env
               /\ MergedAt(i).values = u.values
  BY <1>1, AuditedVisits DEF FullReport
<1>3. j \in DOMAIN MergedAt(i).values
  BY <1>2 DEF Beneath
<1>4. f \in FindingsIn(MergeOf(i).project, MergeOf(i).env, MergedAt(i))
  BY <1>2, <1>3 DEF FindingsIn
<1>5. f.code = code /\ f.project = u.project /\ f.env = u.env /\ f.key = j
  BY DEF Finding
<1> HIDE DEF f, code
<1>6. f \in auditor.report
  <2>1. f.code # "property_not_declared_in_base"
    BY <1>5 DEF code
  <2>2. f \in Recorded(auditor.cmd, FindingsIn(MergeOf(i).project, MergeOf(i).env, MergedAt(i)))
    BY <1>4, <2>1, AllRecorded
  <2> QED
    BY <1>2, <2>2 DEF Visited
<1>7. Concerns(f, u, k)
  BY <1>5 DEF Concerns, Beneath
<1> QED
  BY <1>6, <1>7

\* A finding about a secret in a value concerns it.
LEMMA SecretConcerns ==
    ASSUME NEW u, NEW k, NEW j \in Beneath(u, k), NEW x \in Items(u.values[j]) \cap Reference,
           \E f \in auditor.report : f.key \in {<<x>>, <<GroupOf[x]>>}
    PROVE  \E f \in auditor.report : Concerns(f, u, k)
<1>1. x \in (UNION {Items(u.values[i]) : i \in Beneath(u, k)}) \cap Reference
  OBVIOUS
<1> QED
  BY <1>1 DEF Concerns

\* An item that a value that hides nothing would fail on is reported, unless
\* it is misspelt in a value that is composed.
LEMMA ItemReported ==
    ASSUME FullReport, NEW u \in Worlds, NEW k, NEW j \in Beneath(u, k), ~Hides(u.values[j]),
           NEW x \in Items(u.values[j]), ~Resolves(x, Healed(store), scenario.held, TRUE),
           LeafOK(u.values[j]), Targets(u.values[j]) # {} => x \notin Misspelt
    PROVE  \E f \in auditor.report : Concerns(f, u, k)
<1> DEFINE leaf == u.values[j]
<1>1. StoreOK(store) /\ Stored(store) \subseteq Reference
  BY DEF FullReport, FilesInv, StoreOK
<1>2. CASE x \in Stored(store)
  <2>1. \E f \in auditor.report : f.key \in {<<x>>, <<GroupOf[x]>>}
    BY <1>2, StoredReported
  <2> QED
    BY <1>1, <1>2, <2>1, SecretConcerns
<1>3. CASE x \notin Stored(store)
  <2>1. x \in Reference \cup Misspelt
    BY DEF Resolves
  <2>2. Targets(leaf) = {} /\ Items(leaf) \cap Stale = {}
    BY <1>3, <2>1 DEF Hides
  <2>3. PICK items \in Seq(STRING) : items = leaf.items /\ Items(leaf) = ToSet(items)
    BY DEF LeafOK, Items
  <2>4. PICK held : held = scenario.held
    OBVIOUS
  <2>5. PICK i \in DOMAIN items : x = items[i]
    BY <2>3 DEF ToSet
  <2>6. PICK b \in DOMAIN items :
           /\ Worst(items, store, held) = Code(items[b], store, held)
           /\ Rank(Code(items[i], store, held)) <= Rank(Code(items[b], store, held))
    BY WorstIs
  <2> DEFINE y == items[b]
  <2>7. Code(x, store, held)
           \in {"invalid_secret_reference", "secret_reference_not_found"}
    BY <1>3, <2>1 DEF Code
  <2>8. Rank(Code(y, store, held)) = 2
    BY <2>5, <2>6, <2>7 DEF Rank
  <2>9. Diagnosed(u.values, j, store, auditor.cmd.os, FALSE).code = Code(y, store, held)
    <3>1. leaf.kind # "opaque"
      BY DEF Items
    <3>2. Diagnosed(u.values, j, store, auditor.cmd.os, FALSE).code
             = Worst(leaf.items, store, scenario.held)
      BY <2>2, <3>1 DEF Diagnosed
    <3> QED
      BY <2>3, <2>4, <2>6, <3>2
  <2>10. CASE Code(y, store, held)
                 \in {"invalid_secret_reference", "secret_reference_not_found"}
    BY <2>9, <2>10, CodeReported DEF ResolutionCodes
  <2>11. CASE Code(y, store, held)
                 \notin {"invalid_secret_reference", "secret_reference_not_found"}
    <3>1. y \in Reference /\ y \in Stored(store) /\ Code(y, store, held) # "ok"
      BY <2>8, <2>11 DEF Code, Rank
    <3>2. y \in Items(leaf)
      BY <2>3 DEF ToSet
    <3>3. \E f \in auditor.report : f.key \in {<<y>>, <<GroupOf[y]>>}
      BY <2>2, <2>4, <3>1, <3>2, StoredReported
    <3> HIDE DEF y
    <3> QED
      BY <3>1, <3>2, <3>3, SecretConcerns
  <2> QED
    BY <2>10, <2>11
<1> QED
  BY <1>2, <1>3

\* What a world holds is typed.
LEMMA WorldOK ==
    ASSUME FilesInv, NEW u \in Worlds, NEW j \in DOMAIN u.values PROVE LeafOK(u.values[j])
<1>1. PICK p \in DOMAIN manifest.projects, e \in ToSet(manifest.environments) :
         u = [project |-> p, env |-> e,
              values |-> Merged(Settled(manifest, p), e, scenario.validate[1].os).state.values]
  BY DEF Worlds
<1> DEFINE params == Settled(manifest, p)
<1>2. ParamsOK(params)
  BY SettledOK, NoSettingsOK DEF FilesInv, Settled
<1> HIDE DEF params
<1>3. \A k \in DOMAIN Merged(params, e, scenario.validate[1].os).state.values :
         LeafOK(Merged(params, e, scenario.validate[1].os).state.values[k])
  BY <1>2, MergedOK DEF FilesInv
<1> QED
  BY <1>1, <1>3 DEF params

(* A full report at the default levels has, for every value that run would *)
(* fail on with the secrets of healthy groups as if they were sealed under *)
(* their pair, a finding about the value, a variable it is composed from, a*)
(* secret in them or the group of one, unless a list among them hides it   *)
(* (doc.go; explain.go:211-213 and 308-313; validate.go).                  *)
THEOREM FailuresAreReported == Spec => []FailuresReported
<1>1. FilesInv /\ AuditInv => FailuresReported
  <2> DEFINE st == Healed(store)
             os == auditor.cmd.os
             held == scenario.held
  <2>1. SUFFICES ASSUME FullReport, NEW u \in Worlds, NEW k \in DOMAIN u.values,
                        ~Materializes(u.values, k, st, os),
                        \A j \in Beneath(u, k) : ~Hides(u.values[j])
                 PROVE  \E f \in auditor.report : Concerns(f, u, k)
    BY DEF FailuresReported, Reports, FullReport, Concerns, Beneath
  <2> DEFINE V == u.values
             all == Behind(V, k) \cup {k}
  <2>2. all \cap DOMAIN V = Beneath(u, k) /\ k \in Beneath(u, k)
    BY DEF Beneath
  <2>3. \A j \in Beneath(u, k) : LeafOK(V[j])
    BY <2>1, WorldOK DEF FullReport, Beneath
  <2>4. CASE Targets(V[k]) = {}
    <3>1. PICK x \in Items(V[k]) : ~Resolves(x, st, held, TRUE)
      BY <2>1, <2>4 DEF Materializes
    <3> QED
      BY <2>1, <2>2, <2>3, <2>4, <3>1, ItemReported
  <2>5. CASE Targets(V[k]) # {}
    <3>1. Diagnosed(V, k, store, os, FALSE).code = Status(V, k, store, os, FALSE)
      <4>1. V[k].kind # "opaque"
        BY <2>5 DEF Targets, Items
      <4> QED
        BY <2>5, <4>1 DEF Diagnosed
    <3>2. CASE Status(V, k, store, os, FALSE) # "ok"
      <4>1. Status(V, k, store, os, FALSE)
               \in {"circular_variable_reference", "unresolved_variable_reference"}
        BY <3>2 DEF Status
      <4> QED
        BY <2>1, <2>2, <3>1, <4>1, CodeReported DEF ResolutionCodes
    <3>3. CASE Status(V, k, store, os, FALSE) = "ok"
      <4>1. /\ \A j \in all \cap DOMAIN V : j \notin Behind(V, j)
            /\ all \subseteq DOMAIN V \cup os
            /\ \A j \in all \cap DOMAIN V : \A x \in Items(V[j]) : Resolves(x, store, held, FALSE)
        BY <3>3 DEF Status
      <4>2. \E j \in Beneath(u, k) : \E x \in Items(V[j]) : ~Resolves(x, st, held, TRUE)
        <5>1. CASE \E x \in Items(V[k]) : ~Resolves(x, st, held, TRUE)
          BY <2>2, <5>1
        <5>2. CASE Status(V, k, st, os, TRUE) # "ok"
          BY <2>2, <4>1, <5>2 DEF Status
        <5> QED
          BY <2>1, <5>1, <5>2 DEF Materializes
      <4>3. PICK j \in Beneath(u, k) : \E x \in Items(V[j]) : ~Resolves(x, st, held, TRUE)
        BY <4>2
      <4>4. PICK x \in Items(V[j]) : ~Resolves(x, st, held, TRUE)
        BY <4>3
      <4>5. x \notin Misspelt
        BY <2>2, <4>1 DEF Resolves
      <4> QED
        BY <2>1, <2>3, <4>4, <4>5, ItemReported
    <3> QED
      BY <3>2, <3>3
  <2> QED
    BY <2>4, <2>5
<1> QED
  BY <1>1, FilesInvariant, AuditInvariant, PTL

-----------------------------------------------------------------------------
(* Sequences whose elements may be anything.                               *)

IsSeq(s) == s \in Seq(ToSet(s))

LEMMA SeqIs ==
    ASSUME NEW s, IsSeq(s) PROVE Len(s) \in Nat /\ DOMAIN s = 1..Len(s)
BY DEF IsSeq

LEMMA Sequenced ==
    ASSUME NEW T, NEW s \in Seq(T) PROVE IsSeq(s)
<1>1. Len(s) \in Nat /\ DOMAIN s = 1..Len(s) /\ s = [i \in 1..Len(s) |-> s[i]]
  OBVIOUS
<1>2. \A i \in 1..Len(s) : s[i] \in ToSet(s)
  BY <1>1 DEF ToSet
<1>3. s \in [1..Len(s) -> ToSet(s)]
  BY <1>1, <1>2
<1> QED
  BY <1>1, <1>3, SeqDef DEF IsSeq

LEMMA SeqEmpty == IsSeq(<<>>) /\ Len(<<>>) = 0
<1>1. <<>> \in Seq({}) /\ Len(<<>>) = 0
  OBVIOUS
<1> QED
  BY <1>1, Sequenced

LEMMA SeqAppend ==
    ASSUME NEW s, IsSeq(s), NEW x
    PROVE  /\ IsSeq(Append(s, x)) /\ Len(Append(s, x)) = Len(s) + 1
           /\ Append(s, x)[Len(s) + 1] = x
           /\ \A i \in 1..Len(s) : Append(s, x)[i] = s[i]
<1> DEFINE T == ToSet(s) \cup {x}
<1>1. s \in Seq(T) /\ x \in T
  BY DEF IsSeq
<1> HIDE DEF T
<1>2. Append(s, x) \in Seq(T)
  BY <1>1
<1>3. IsSeq(Append(s, x))
  BY <1>2, Sequenced
<1>4. /\ Len(Append(s, x)) = Len(s) + 1 /\ Append(s, x)[Len(s) + 1] = x
      /\ \A i \in 1..Len(s) : Append(s, x)[i] = s[i]
  BY <1>1
<1> QED
  BY <1>3, <1>4

\* The files of a sequence of layers or of sources.
FilesOf(s) == [j \in DOMAIN s |-> s[j].file]

LEMMA FilesAppend ==
    ASSUME NEW s, IsSeq(s), NEW x
    PROVE  /\ FilesOf(Append(s, x)) = Append(FilesOf(s), x.file)
           /\ IsSeq(FilesOf(s)) /\ Len(FilesOf(s)) = Len(s)
<1> DEFINE a == Append(s, x)
           f == FilesOf(s)
           fa == FilesOf(a)
<1>1. /\ IsSeq(a) /\ Len(a) = Len(s) + 1 /\ a[Len(s) + 1] = x
      /\ \A i \in 1..Len(s) : a[i] = s[i]
  BY SeqAppend
<1>2. Len(s) \in Nat /\ DOMAIN s = 1..Len(s) /\ DOMAIN a = 1..Len(a)
  BY <1>1, SeqIs
<1>3. f = [j \in 1..Len(s) |-> s[j].file] /\ fa = [j \in 1..(Len(s) + 1) |-> a[j].file]
  BY <1>1, <1>2 DEF FilesOf
<1> HIDE DEF f, fa, a
<1>4. f \in Seq({s[j].file : j \in 1..Len(s)}) /\ Len(f) = Len(s)
  BY <1>2, <1>3
<1>5. IsSeq(f)
  BY <1>4, Sequenced
<1>6. /\ IsSeq(Append(f, x.file)) /\ Len(Append(f, x.file)) = Len(s) + 1
      /\ Append(f, x.file)[Len(s) + 1] = x.file
      /\ \A i \in 1..Len(s) : Append(f, x.file)[i] = f[i]
  BY <1>4, <1>5, SeqAppend
<1> DEFINE g == Append(f, x.file)
<1>7. DOMAIN g = 1..(Len(s) + 1) /\ g = [j \in DOMAIN g |-> g[j]]
  BY <1>6, SeqIs
<1>8. \A j \in 1..(Len(s) + 1) : g[j] = a[j].file
  <2>1. \A j \in 1..(Len(s) + 1) : j \in 1..Len(s) \/ j = Len(s) + 1
    BY <1>2
  <2> QED
    BY <1>1, <1>3, <1>6, <2>1
<1> HIDE DEF g
<1>9. fa = g
  BY <1>3, <1>7, <1>8
<1> QED
  BY <1>4, <1>5, <1>9 DEF f, fa, a, g

\* Two filterings that agree on what they keep are the same.
LEMMA FilteringAgree ==
    ASSUME NEW f, NEW s, IsSeq(s), NEW S, Filtering(f, s, S),
           NEW g, NEW t, IsSeq(t), NEW R, Filtering(g, t, R),
           NEW N \in Nat, N <= Len(s), N <= Len(t),
           \A i \in 1..N : (s[i] \in S <=> t[i] \in R) /\ (s[i] \in S => s[i] = t[i])
    PROVE  f[N] = g[N]
<1> DEFINE K == {n \in Nat : n <= N => f[n] = g[n]}
<1>0. s \in Seq(ToSet(s)) /\ t \in Seq(ToSet(t)) /\ Len(s) \in Nat /\ Len(t) \in Nat
  BY DEF IsSeq
<1>1. /\ f[0] = <<>>
      /\ \A n \in Nat : n + 1 <= Len(s) =>
            f[n + 1] = IF s[n + 1] \in S THEN Append(f[n], s[n + 1]) ELSE f[n]
  BY <1>0, FilteringStep
<1>2. /\ g[0] = <<>>
      /\ \A n \in Nat : n + 1 <= Len(t) =>
            g[n + 1] = IF t[n + 1] \in R THEN Append(g[n], t[n + 1]) ELSE g[n]
  BY <1>0, FilteringStep
<1>3. 0 \in K
  BY <1>1, <1>2
<1>4. ASSUME NEW n \in Nat, n \in K PROVE n + 1 \in K
  <2> SUFFICES ASSUME n + 1 <= N PROVE f[n + 1] = g[n + 1]
    OBVIOUS
  <2>1. f[n] = g[n] /\ n + 1 <= Len(s) /\ n + 1 <= Len(t) /\ n + 1 \in 1..N
    BY <1>0, <1>4
  <2> QED
    BY <1>1, <1>2, <2>1
<1> HIDE DEF K
<1>5. N \in K
  BY <1>3, <1>4, SetInduction
<1> QED
  BY <1>5 DEF K

LEMMA ThoseAgree ==
    ASSUME NEW s, IsSeq(s), NEW S, NEW t, IsSeq(t), NEW R, Len(s) = Len(t),
           \A i \in 1..Len(s) : (s[i] \in S <=> t[i] \in R) /\ (s[i] \in S => s[i] = t[i])
    PROVE  Those(s, S) = Those(t, R)
<1>0. s \in Seq(ToSet(s)) /\ t \in Seq(ToSet(t)) /\ Len(s) \in Nat
  BY DEF IsSeq
<1>1. PICK f : Filtering(f, s, S) /\ Those(s, S) = f[Len(s)]
  BY <1>0, ThoseFiltered
<1>2. PICK g : Filtering(g, t, R) /\ Those(t, R) = g[Len(t)]
  BY <1>0, ThoseFiltered
<1>3. f[Len(s)] = g[Len(s)]
  BY <1>0, <1>1, <1>2, FilteringAgree
<1> QED
  BY <1>1, <1>2, <1>3

LEMMA ThoseSeq ==
    ASSUME NEW s, IsSeq(s), NEW S
    PROVE  IsSeq(Those(s, S)) /\ ToSet(Those(s, S)) = ToSet(s) \cap S
<1>1. s \in Seq(ToSet(s))
  BY DEF IsSeq
<1>2. Those(s, S) \in Seq(ToSet(s)) /\ ToSet(Those(s, S)) = ToSet(s) \cap S
  BY <1>1, ThoseAre
<1> QED
  BY <1>2, Sequenced

LEMMA ThoseAppend ==
    ASSUME NEW s, IsSeq(s), NEW S, NEW x, NEW R,
           \A i \in 1..Len(s) : s[i] \in S <=> s[i] \in R
    PROVE  /\ x \in R => Those(Append(s, x), R) = Append(Those(s, S), x)
           /\ x \notin R => Those(Append(s, x), R) = Those(s, S)
<1> DEFINE a == Append(s, x)
<1>1. /\ IsSeq(a) /\ Len(a) = Len(s) + 1 /\ a[Len(s) + 1] = x
      /\ \A i \in 1..Len(s) : a[i] = s[i]
  BY SeqAppend
<1> HIDE DEF a
<1>2. s \in Seq(ToSet(s)) /\ a \in Seq(ToSet(a)) /\ Len(s) \in Nat
  BY <1>1 DEF IsSeq
<1>3. PICK f : Filtering(f, s, S) /\ Those(s, S) = f[Len(s)]
  BY <1>2, ThoseFiltered
<1>4. PICK g : Filtering(g, a, R) /\ Those(a, R) = g[Len(a)]
  BY <1>2, ThoseFiltered
<1>5. f[Len(s)] = g[Len(s)]
  BY <1>1, <1>2, <1>3, <1>4, FilteringAgree
<1>6. g[Len(s) + 1] = IF a[Len(s) + 1] \in R THEN Append(g[Len(s)], a[Len(s) + 1]) ELSE g[Len(s)]
  BY <1>1, <1>2, <1>4, FilteringStep
<1> QED
  BY <1>1, <1>3, <1>4, <1>5, <1>6 DEF a

-----------------------------------------------------------------------------
(* The layers as a chain, oldest first.                                    *)

BaseLayer(params, bases, i) == [file |-> Base(params.includes[i]), content |-> bases[i]]
OverlayLayer(params, env, overs, i) ==
    [file |-> Overlay(params.includes[i], env), content |-> overs[i]]

ChainOf(params, env, bases, overs, n) ==
    [j \in 1..(2 * n) |->
        IF j % 2 = 1 THEN BaseLayer(params, bases, (j + 1) \div 2)
        ELSE OverlayLayer(params, env, overs, j \div 2)]

\* The layers of a chain that say something about a key, oldest first.
Telling(ch, key) == Those(ch, {layer \in ToSet(ch) : key \in Keys(layer.content)})

LEMMA ChainIs ==
    ASSUME NEW params, NEW env, NEW bases, NEW overs, NEW n \in Nat
    PROVE  LET ch == ChainOf(params, env, bases, overs, n) IN
           /\ IsSeq(ch) /\ Len(ch) = 2 * n
           /\ \A i \in 1..n : /\ 2 * i - 1 \in 1..(2 * n) /\ 2 * i \in 1..(2 * n)
                              /\ ch[2 * i - 1] = BaseLayer(params, bases, i)
                              /\ ch[2 * i] = OverlayLayer(params, env, overs, i)
           /\ \A j \in 1..(2 * n) : \E i \in 1..n : j = 2 * i - 1 \/ j = 2 * i
<1> DEFINE ch == ChainOf(params, env, bases, overs, n)
           T == {ch[j] : j \in 1..(2 * n)}
<1>1. /\ DOMAIN ch = 1..(2 * n) /\ 2 * n \in Nat
      /\ ch = [j \in 1..(2 * n) |-> ch[j]]
      /\ \A j \in 1..(2 * n) :
            ch[j] = IF j % 2 = 1 THEN BaseLayer(params, bases, (j + 1) \div 2)
                    ELSE OverlayLayer(params, env, overs, j \div 2)
  BY DEF ChainOf
<1> HIDE DEF ch
<1>2. ch \in Seq(T) /\ Len(ch) = 2 * n
  BY <1>1
<1>3. IsSeq(ch)
  BY <1>2, Sequenced
<1>4. ASSUME NEW i \in 1..n
      PROVE  /\ 2 * i - 1 \in 1..(2 * n) /\ 2 * i \in 1..(2 * n)
             /\ ch[2 * i - 1] = BaseLayer(params, bases, i)
             /\ ch[2 * i] = OverlayLayer(params, env, overs, i)
  <2>1. /\ 2 * i - 1 \in 1..(2 * n) /\ 2 * i \in 1..(2 * n)
        /\ (2 * i - 1) % 2 = 1 /\ ((2 * i - 1) + 1) \div 2 = i
        /\ (2 * i) % 2 # 1 /\ (2 * i) \div 2 = i
    OBVIOUS
  <2> QED
    BY <1>1, <2>1
<1>5. ASSUME NEW j \in 1..(2 * n) PROVE \E i \in 1..n : j = 2 * i - 1 \/ j = 2 * i
  <2> DEFINE i == (j + 1) \div 2
  <2>1. i \in 1..n /\ (j = 2 * i - 1 \/ j = 2 * i)
    OBVIOUS
  <2> QED
    BY <2>1
<1> QED
  BY <1>2, <1>3, <1>4, <1>5 DEF ch

LEMMA TellingGrows ==
    ASSUME NEW ch, IsSeq(ch), NEW layer, NEW key
    PROVE  /\ IsSeq(Telling(ch, key))
           /\ Telling(Append(ch, layer), key) =
                 IF key \in Keys(layer.content) THEN Append(Telling(ch, key), layer)
                 ELSE Telling(ch, key)
<1> DEFINE a == Append(ch, layer)
           S == {l \in ToSet(ch) : key \in Keys(l.content)}
           R == {l \in ToSet(a) : key \in Keys(l.content)}
<1>1. /\ IsSeq(a) /\ Len(a) = Len(ch) + 1 /\ a[Len(ch) + 1] = layer
      /\ \A i \in 1..Len(ch) : a[i] = ch[i]
  BY SeqAppend
<1>2. Telling(ch, key) = Those(ch, S) /\ Telling(a, key) = Those(a, R)
  BY DEF Telling
<1>3. /\ Len(ch) \in Nat /\ DOMAIN ch = 1..Len(ch) /\ DOMAIN a = 1..Len(a)
  BY <1>1, SeqIs
<1>4. layer \in R <=> key \in Keys(layer.content)
  <2> HIDE DEF a
  <2>1. layer \in ToSet(a)
    BY <1>1, <1>3 DEF ToSet
  <2> QED
    BY <2>1
<1>5. ASSUME NEW i \in 1..Len(ch) PROVE ch[i] \in S <=> ch[i] \in R
  <2> HIDE DEF a
  <2>1. ch[i] \in ToSet(ch)
    BY <1>3 DEF ToSet
  <2>2. a[i] \in ToSet(a) /\ a[i] = ch[i]
    BY <1>1, <1>3 DEF ToSet
  <2> QED
    BY <2>1, <2>2
<1> HIDE DEF S, R
<1>6. \A i \in 1..Len(ch) : ch[i] \in S <=> ch[i] \in R
  BY <1>5
<1>8. /\ layer \in R => Those(Append(ch, layer), R) = Append(Those(ch, S), layer)
      /\ layer \notin R => Those(Append(ch, layer), R) = Those(ch, S)
  <2> HIDE DEF a
  <2> QED
    BY <1>6, ThoseAppend
<1>7. IsSeq(Those(ch, S))
  BY ThoseSeq
<1> QED
  BY <1>2, <1>4, <1>7, <1>8

\* One more namespace adds its base and its overlay to the chain.
LEMMA ChainGrows ==
    ASSUME NEW params, NEW env, NEW bases, NEW overs, IsSeq(overs), NEW over
    PROVE  ChainOf(params, env, bases, Append(overs, over), Len(overs) + 1) =
               Append(Append(ChainOf(params, env, bases, overs, Len(overs)),
                             BaseLayer(params, bases, Len(overs) + 1)),
                      [file |-> Overlay(params.includes[Len(overs) + 1], env),
                       content |-> over])
<1> DEFINE n == Len(overs)
           m == n + 1
           more == Append(overs, over)
           ch == ChainOf(params, env, bases, overs, n)
           new == ChainOf(params, env, bases, more, n + 1)
           base == BaseLayer(params, bases, n + 1)
           overlay == [file |-> Overlay(params.includes[n + 1], env), content |-> over]
           one == Append(ch, base)
           two == Append(one, overlay)
<1>1. n \in Nat /\ n + 1 \in Nat
  BY SeqIs
<1>2. more[n + 1] = over /\ \A i \in 1..n : more[i] = overs[i]
  BY SeqAppend
<1>3. /\ \A i \in 1..n : OverlayLayer(params, env, more, i) = OverlayLayer(params, env, overs, i)
      /\ OverlayLayer(params, env, more, n + 1) = overlay
  BY <1>2 DEF OverlayLayer
<1> HIDE DEF n, more, base, overlay
<1>4. /\ IsSeq(ch) /\ Len(ch) = 2 * n
      /\ \A i \in 1..n : /\ 2 * i - 1 \in 1..(2 * n) /\ 2 * i \in 1..(2 * n)
                         /\ ch[2 * i - 1] = BaseLayer(params, bases, i)
                         /\ ch[2 * i] = OverlayLayer(params, env, overs, i)
  BY <1>1, ChainIs
<1>5. /\ IsSeq(new) /\ Len(new) = 2 * m
      /\ \A i \in 1..m : /\ new[2 * i - 1] = BaseLayer(params, bases, i)
                          /\ new[2 * i] = OverlayLayer(params, env, more, i)
      /\ \A j \in 1..(2 * m) : \E i \in 1..m : j = 2 * i - 1 \/ j = 2 * i
  <2>1. m \in Nat /\ new = ChainOf(params, env, bases, more, m)
    BY <1>1
  <2> DEFINE c == ChainOf(params, env, bases, more, m)
  <2> HIDE DEF m
  <2>2. IsSeq(c) /\ Len(c) = 2 * m
    BY <2>1, ChainIs
  <2>3. \A i \in 1..m : /\ c[2 * i - 1] = BaseLayer(params, bases, i)
                         /\ c[2 * i] = OverlayLayer(params, env, more, i)
    BY <2>1, ChainIs
  <2>4. \A j \in 1..(2 * m) : \E i \in 1..m : j = 2 * i - 1 \/ j = 2 * i
    BY <2>1, ChainIs
  <2> HIDE DEF new
  <2> QED
    BY <2>1, <2>2, <2>3, <2>4
<1> HIDE DEF ch, new
<1>6. /\ IsSeq(one) /\ Len(one) = 2 * n + 1 /\ one[2 * n + 1] = base
      /\ \A j \in 1..(2 * n) : one[j] = ch[j]
  BY <1>4, SeqAppend
<1> HIDE DEF one
<1>7. /\ IsSeq(two) /\ Len(two) = 2 * n + 2 /\ two[2 * n + 2] = overlay
      /\ \A j \in 1..(2 * n + 1) : two[j] = one[j]
  BY <1>1, <1>6, SeqAppend
<1> HIDE DEF two
<1>8. ASSUME NEW j \in 1..(2 * n + 2) PROVE new[j] = two[j]
  <2>0. 2 * m = 2 * n + 2 /\ j \in 1..(2 * m)
    BY <1>1
  <2>1. PICK i \in 1..m : j = 2 * i - 1 \/ j = 2 * i
    <3> HIDE DEF m
    <3> QED
      BY <1>5, <2>0
  <2>2. CASE i = n + 1
    <3>1. j = 2 * n + 1 \/ j = 2 * n + 2
      BY <1>1, <2>1, <2>2
    <3>2. new[2 * n + 1] = base /\ new[2 * n + 2] = overlay
      <4>1. 2 * (n + 1) - 1 = 2 * n + 1 /\ 2 * (n + 1) = 2 * n + 2 /\ n + 1 \in 1..(n + 1)
        BY <1>1
      <4> QED
        BY <1>3, <1>5, <4>1 DEF base
    <3>3. two[2 * n + 1] = base
      BY <1>1, <1>6, <1>7
    <3> QED
      BY <1>7, <3>1, <3>2, <3>3
  <2>3. CASE i # n + 1
    <3>1. i \in 1..n
      BY <1>1, <2>3
    <3>2. j \in 1..(2 * n) /\ new[j] = ch[j]
      BY <1>3, <1>4, <1>5, <2>1, <3>1
    <3> QED
      BY <1>1, <1>6, <1>7, <3>2
  <2> QED
    BY <2>2, <2>3
<1>9. /\ new \in Seq(ToSet(new)) /\ two \in Seq(ToSet(two))
      /\ Len(new) = 2 * n + 2
  BY <1>1, <1>5, <1>7 DEF IsSeq
<1>10. new = two
  <2>1. /\ new = [j \in 1..(2 * n + 2) |-> new[j]]
        /\ two = [j \in 1..(2 * n + 2) |-> two[j]]
    BY <1>7, <1>9
  <2> QED
    BY <1>8, <2>1
<1> QED
  BY <1>10 DEF n, more, ch, new, base, overlay, one, two

-----------------------------------------------------------------------------
(* Whose word the origins keep.                                            *)

LEMMA FrontOfAppend ==
    ASSUME NEW s, IsSeq(s), NEW x
    PROVE  Front(Append(s, x)) = s /\ Last(Append(s, x)) = x /\ Append(s, x) # <<>>
<1> DEFINE T == ToSet(s) \cup {x}
<1>1. s \in Seq(T) /\ x \in T
  BY DEF IsSeq
<1> HIDE DEF T
<1>2. Front(Append(s, x)) = s
  BY <1>1 DEF Front
<1>3. Last(Append(s, x)) = x /\ Append(s, x) # <<>>
  BY <1>1 DEF Last
<1> QED
  BY <1>2, <1>3

LEMMA Pieces ==
    ASSUME NEW s, IsSeq(s), NEW x, NEW y
    PROVE  /\ Last(<<x>> \o <<>>) = x /\ s \o Front(<<x>> \o <<>>) = s
           /\ Last(<<>> \o <<x>>) = x /\ s \o Front(<<>> \o <<x>>) = s
           /\ Last(<<x>> \o <<y>>) = y /\ s \o Front(<<x>> \o <<y>>) = Append(s, x)
<1> DEFINE T == ToSet(s) \cup {x, y}
<1>1. s \in Seq(T) /\ x \in T /\ y \in T
  BY DEF IsSeq
<1>2. <<x>> \o <<>> = <<x>> /\ <<>> \o <<x>> = <<x>> /\ <<x>> \o <<y>> = Append(<<x>>, y)
  <2>1. <<x>> \in Seq(T) /\ <<y>> \in Seq(T) /\ <<>> \in Seq(T)
    BY <1>1
  <2> QED
    BY <1>1, <2>1
<1>3. Front(<<x>>) = <<>> /\ Last(<<x>>) = x
  BY DEF Front, Last
<1>4. Front(Append(<<x>>, y)) = <<x>> /\ Last(Append(<<x>>, y)) = y
  <2>1. <<x>> \in Seq(T)
    BY <1>1
  <2> HIDE DEF T
  <2>2. IsSeq(<<x>>)
    BY <2>1, Sequenced
  <2> QED
    BY <2>2, FrontOfAppend
<1> HIDE DEF T
<1>5. s \o <<>> = s /\ s \o <<x>> = Append(s, x)
  BY <1>1
<1> QED
  BY <1>2, <1>3, <1>4, <1>5

\* What integrating one namespace does to the origins of a key.
Former(state, k) ==
    IF k \in DOMAIN state.origins
    THEN Append(state.origins[k].shadowed, state.origins[k].winner) ELSE <<>>
Origin(winner, shadowed) == [winner |-> winner, shadowed |-> shadowed]
SourceIn(file, content, k) == [file |-> file, path |-> PathOf(content, k)]

LEMMA OriginsGrow ==
    ASSUME NEW state, DOMAIN state.origins = DOMAIN state.values, NEW inc, NEW env,
           NEW base, NEW over, NEW k, IsSeq(Former(state, k))
    PROVE  LET new == Integrate(state, inc, env, base, over).origins[k]
               b == SourceIn(Base(inc), base, k)
               o == SourceIn(Overlay(inc, env), over, k) IN
           /\ k \in Keys(base) /\ k \in Keys(over) =>
                 new = Origin(o, Append(Former(state, k), b))
           /\ k \in Keys(base) /\ k \notin Keys(over) =>
                 new = Origin(b, Former(state, k))
           /\ k \notin Keys(base) /\ k \in Keys(over) =>
                 new = Origin(o, Former(state, k))
           /\ k \notin Keys(base) /\ k \notin Keys(over) /\ k \in DOMAIN state.values =>
                 new = state.origins[k]
<1> DEFINE sources(j) == SourcesIn(Base(inc), base, j) \o SourcesIn(Overlay(inc, env), over, j)
           flat == Over(Flat(over), Flat(base))
           added == [j \in DOMAIN flat |-> [winner |-> Last(sources(j)),
                        shadowed |-> Former(state, j) \o Front(sources(j))]]
           new == Integrate(state, inc, env, base, over)
           b == SourceIn(Base(inc), base, k)
           o == SourceIn(Overlay(inc, env), over, k)
<1>1. DOMAIN flat = Keys(base) \cup Keys(over)
  BY DEF Flat, Over
<1>2. new.origins = Over(added, state.origins)
  BY DEF Integrate, Former
<1> HIDE DEF new, flat, sources
<1>3. /\ k \in DOMAIN flat => new.origins[k] = [winner |-> Last(sources(k)),
                                 shadowed |-> Former(state, k) \o Front(sources(k))]
      /\ k \notin DOMAIN flat /\ k \in DOMAIN state.origins => new.origins[k] = state.origins[k]
  BY <1>2 DEF Over
<1>4. sources(k) = (IF k \in Keys(base) THEN <<b>> ELSE <<>>)
                   \o (IF k \in Keys(over) THEN <<o>> ELSE <<>>)
  BY DEF sources, SourcesIn, SourceIn
<1> HIDE DEF b, o
<1> DEFINE former == Former(state, k)
<1>8. IsSeq(former)
  OBVIOUS
<1>9. /\ Last(<<b>> \o <<>>) = b /\ former \o Front(<<b>> \o <<>>) = former
      /\ Last(<<b>> \o <<o>>) = o /\ former \o Front(<<b>> \o <<o>>) = Append(former, b)
      /\ Last(<<>> \o <<o>>) = o /\ former \o Front(<<>> \o <<o>>) = former
  <2> HIDE DEF former
  <2> QED
    BY <1>8, Pieces
<1>5. k \in Keys(base) /\ k \in Keys(over) =>
         new.origins[k] = Origin(o, Append(Former(state, k), b))
  BY <1>1, <1>3, <1>4, <1>9 DEF Origin
<1>6. k \in Keys(base) /\ k \notin Keys(over) =>
         new.origins[k] = Origin(b, Former(state, k))
  BY <1>1, <1>3, <1>4, <1>9 DEF Origin
<1>7. k \notin Keys(base) /\ k \in Keys(over) =>
         new.origins[k] = Origin(o, Former(state, k))
  BY <1>1, <1>3, <1>4, <1>9 DEF Origin
<1> QED
  BY <1>1, <1>3, <1>5, <1>6, <1>7 DEF new, b, o

-----------------------------------------------------------------------------
(* Layers that mean what their chain of files says.                        *)

\* The state tells of the key u what the last file of the chain that mentions it says,
\* and names all that mention it.
Tells(ch, state, u) ==
    /\ u \in DOMAIN state.values <=> Telling(ch, u) # <<>>
    /\ u \in DOMAIN state.values =>
          /\ state.values[u] = Flat(Last(Telling(ch, u)).content)[u]
          /\ DOMAIN state.origins[u] = {"winner", "shadowed"}
          /\ IsSeq(state.origins[u].shadowed)
          /\ FilesOf(Former(state, u)) = FilesOf(Telling(ch, u))

Layered(ch, state) ==
    /\ StateOK(state)
    /\ IsSeq(ch) /\ \A j \in 1..Len(ch) : ContentOK(ch[j].content)
    /\ \A u : Tells(ch, state, u)

LEMMA NothingTold ==
    ASSUME NEW params, NEW env, NEW bases
    PROVE  Layered(ChainOf(params, env, bases, <<>>, 0), NoLayers)
<1> DEFINE ch == ChainOf(params, env, bases, <<>>, 0)
<1>1. IsSeq(ch) /\ Len(ch) = 2 * 0
  BY ChainIs
<1> HIDE DEF ch
<1>2. ch \in Seq(ToSet(ch)) /\ Len(ch) = 0
  BY <1>1 DEF IsSeq
<1>3. ToSet(ch) = {}
  BY <1>2 DEF ToSet
<1>4. ASSUME NEW u PROVE Telling(ch, u) = <<>>
  <2> DEFINE S == {layer \in ToSet(ch) : u \in Keys(layer.content)}
  <2>1. Telling(ch, u) = Those(ch, S)
    BY DEF Telling
  <2> HIDE DEF S
  <2>2. Those(ch, S) \in Seq(ToSet(ch)) /\ ToSet(Those(ch, S)) = ToSet(ch) \cap S
    BY <1>2, ThoseAre
  <2>3. DOMAIN Those(ch, S) = {}
    BY <1>3, <2>2 DEF ToSet
  <2> QED
    BY <2>1, <2>2, <2>3
<1>5. StateOK(NoLayers) /\ DOMAIN NoLayers.values = {}
  BY DEF StateOK, NoLayers
<1>6. Layered(ch, NoLayers)
  BY <1>1, <1>2, <1>4, <1>5 DEF Layered, Tells
<1> QED
  BY <1>6 DEF ch

LEMMA LayeredGrows ==
    ASSUME NEW ch, NEW state, Layered(ch, state), NEW inc, NEW env,
           NEW base, ContentOK(base), NEW over, ContentOK(over)
    PROVE  Layered(Append(Append(ch, [file |-> Base(inc), content |-> base]),
                          [file |-> Overlay(inc, env), content |-> over]),
                   Integrate(state, inc, env, base, over))
<1> DEFINE lower == [file |-> Base(inc), content |-> base]
           upper == [file |-> Overlay(inc, env), content |-> over]
           one == Append(ch, lower)
           two == Append(one, upper)
           new == Integrate(state, inc, env, base, over)
<1>0. /\ lower.file = Base(inc) /\ lower.content = base
      /\ upper.file = Overlay(inc, env) /\ upper.content = over
  OBVIOUS
<1> HIDE DEF lower, upper
<1>1. StateOK(state) /\ IsSeq(ch) /\ Len(ch) \in Nat
  BY SeqIs DEF Layered
<1>2. /\ IsSeq(one) /\ Len(one) = Len(ch) + 1 /\ one[Len(ch) + 1] = lower
      /\ \A j \in 1..Len(ch) : one[j] = ch[j]
  BY <1>1, SeqAppend
<1>3. /\ IsSeq(two) /\ Len(two) = Len(one) + 1 /\ two[Len(one) + 1] = upper
      /\ \A j \in 1..Len(one) : two[j] = one[j]
  BY <1>2, SeqAppend
<1>4. ASSUME NEW j \in 1..Len(two) PROVE ContentOK(two[j].content)
  <2> HIDE DEF one, two
  <2>1. CASE j \in 1..Len(ch)
    BY <1>1, <1>2, <1>3, <2>1 DEF Layered
  <2>2. CASE j = Len(ch) + 1
    BY <1>0, <1>1, <1>2, <1>3, <2>2
  <2>3. CASE j = Len(ch) + 2
    BY <1>0, <1>1, <1>2, <1>3, <2>3
  <2> QED
    BY <1>1, <1>2, <1>3, <2>1, <2>2, <2>3
<1>5. StateOK(new)
  BY <1>1, IntegrateOK
<1>6. ASSUME NEW u PROVE Tells(two, new, u)
  <2> DEFINE t == Telling(ch, u)
             mid == Telling(one, u)
             end == Telling(two, u)
             was == Former(state, u)
             b == SourceIn(Base(inc), base, u)
             o == SourceIn(Overlay(inc, env), over, u)
  <2>1. /\ IsSeq(t)
        /\ mid = IF u \in Keys(base) THEN Append(t, lower) ELSE t
    BY <1>0, <1>1, TellingGrows
  <2>2. end = IF u \in Keys(over) THEN Append(mid, upper) ELSE mid
    BY <1>0, <1>2, TellingGrows
  <2>3. Tells(ch, state, u) /\ DOMAIN state.origins = DOMAIN state.values
    BY <1>1 DEF Layered, StateOK
  <2>4. IsSeq(was) /\ FilesOf(was) = FilesOf(t)
    <3>1. CASE u \in DOMAIN state.values
      <4>1. IsSeq(state.origins[u].shadowed)
        BY <2>3, <3>1 DEF Tells
      <4>2. was = Append(state.origins[u].shadowed, state.origins[u].winner)
        BY <2>3, <3>1 DEF Former
      <4>3. IsSeq(was)
        BY <4>1, <4>2, SeqAppend
      <4> QED
        BY <2>3, <3>1, <4>3 DEF Tells
    <3>2. CASE u \notin DOMAIN state.values
      <4>1. was = <<>>
        BY <2>3, <3>2 DEF Former
      <4>2. t = <<>>
        BY <2>3, <3>2 DEF Tells
      <4> QED
        BY <4>1, <4>2, SeqEmpty
    <3> QED
      BY <3>1, <3>2
  <2>5. b.file = lower.file /\ o.file = upper.file
    BY <1>0 DEF SourceIn
  <2>6. /\ u \in Keys(base) /\ u \in Keys(over) =>
              new.origins[u] = Origin(o, Append(was, b))
        /\ u \in Keys(base) /\ u \notin Keys(over) =>
              new.origins[u] = Origin(b, was)
        /\ u \notin Keys(base) /\ u \in Keys(over) =>
              new.origins[u] = Origin(o, was)
        /\ u \notin Keys(base) /\ u \notin Keys(over) /\ u \in DOMAIN state.values =>
              new.origins[u] = state.origins[u]
    <3>1. IsSeq(Former(state, u)) /\ DOMAIN state.origins = DOMAIN state.values
      BY <2>3, <2>4
    <3> HIDE DEF t, mid, end, one, two
    <3>2. u \in Keys(base) /\ u \in Keys(over) =>
             new.origins[u] = Origin(o, Append(was, b))
      BY <3>1, OriginsGrow
    <3>3. u \in Keys(base) /\ u \notin Keys(over) =>
             new.origins[u] = Origin(b, was)
      BY <3>1, OriginsGrow
    <3>4. u \notin Keys(base) /\ u \in Keys(over) =>
             new.origins[u] = Origin(o, was)
      BY <3>1, OriginsGrow
    <3>5. u \notin Keys(base) /\ u \notin Keys(over) /\ u \in DOMAIN state.values =>
             new.origins[u] = state.origins[u]
      BY <3>1, OriginsGrow
    <3> QED
      BY <3>2, <3>3, <3>4, <3>5
  <2>7. /\ DOMAIN new.origins = DOMAIN new.values
        /\ DOMAIN new.values = DOMAIN state.values \cup Keys(base) \cup Keys(over)
        /\ u \in DOMAIN new.values =>
              new.values[u] = IF u \in Keys(over) THEN Flat(over)[u]
                              ELSE IF u \in Keys(base) THEN Flat(base)[u]
                              ELSE state.values[u]
    BY <2>3, Integrated
  <2>8. u \in DOMAIN new.values =>
           Former(new, u) = Append(new.origins[u].shadowed, new.origins[u].winner)
    BY <2>7 DEF Former
  <2> HIDE DEF t, mid, end, was, b, o, new, one, two
  <2>9. CASE u \in Keys(base) /\ u \in Keys(over)
    <3>1. mid = Append(t, lower) /\ end = Append(mid, upper)
      BY <2>1, <2>2, <2>9
    <3>2. IsSeq(mid) /\ Last(end) = upper /\ end # <<>>
      BY <2>1, <3>1, SeqAppend, FrontOfAppend
    <3>3. FilesOf(end) = Append(Append(FilesOf(t), lower.file), upper.file)
      BY <2>1, <3>1, <3>2, FilesAppend
    <3>4. /\ Former(new, u) = Append(Append(was, b), o)
          /\ new.origins[u].shadowed = Append(was, b)
          /\ DOMAIN new.origins[u] = {"winner", "shadowed"}
      BY <2>6, <2>7, <2>8, <2>9 DEF Origin
    <3>5. IsSeq(Append(was, b))
      BY <2>4, SeqAppend
    <3>6. FilesOf(Former(new, u)) = Append(Append(FilesOf(was), b.file), o.file)
      BY <2>4, <3>4, <3>5, FilesAppend
    <3> QED
      BY <1>0, <2>4, <2>5, <2>7, <2>9, <3>2, <3>3, <3>4, <3>5, <3>6 DEF Tells, end
  <2>10. CASE u \in Keys(base) /\ u \notin Keys(over)
    <3>1. end = Append(t, lower)
      BY <2>1, <2>2, <2>10
    <3>2. Last(end) = lower /\ end # <<>>
      BY <2>1, <3>1, FrontOfAppend
    <3>3. FilesOf(end) = Append(FilesOf(t), lower.file)
      BY <2>1, <3>1, FilesAppend
    <3>4. /\ Former(new, u) = Append(was, b)
          /\ new.origins[u].shadowed = was
          /\ DOMAIN new.origins[u] = {"winner", "shadowed"}
      BY <2>6, <2>7, <2>8, <2>10 DEF Origin
    <3>5. FilesOf(Former(new, u)) = Append(FilesOf(was), b.file)
      BY <2>4, <3>4, FilesAppend
    <3> QED
      BY <1>0, <2>4, <2>5, <2>7, <2>10, <3>2, <3>3, <3>4, <3>5 DEF Tells, end
  <2>11. CASE u \notin Keys(base) /\ u \in Keys(over)
    <3>1. end = Append(t, upper)
      BY <2>1, <2>2, <2>11
    <3>2. Last(end) = upper /\ end # <<>>
      BY <2>1, <3>1, FrontOfAppend
    <3>3. FilesOf(end) = Append(FilesOf(t), upper.file)
      BY <2>1, <3>1, FilesAppend
    <3>4. /\ Former(new, u) = Append(was, o)
          /\ new.origins[u].shadowed = was
          /\ DOMAIN new.origins[u] = {"winner", "shadowed"}
      BY <2>6, <2>7, <2>8, <2>11 DEF Origin
    <3>5. FilesOf(Former(new, u)) = Append(FilesOf(was), o.file)
      BY <2>4, <3>4, FilesAppend
    <3> QED
      BY <1>0, <2>4, <2>5, <2>7, <2>11, <3>2, <3>3, <3>4, <3>5 DEF Tells, end
  <2>12. CASE u \notin Keys(base) /\ u \notin Keys(over)
    <3>1. end = t
      BY <2>1, <2>2, <2>12
    <3>2. u \in DOMAIN new.values <=> u \in DOMAIN state.values
      BY <2>7, <2>12
    <3>3. ASSUME u \in DOMAIN new.values
          PROVE  /\ new.origins[u] = state.origins[u] /\ new.values[u] = state.values[u]
                 /\ Former(new, u) = was
      BY <2>3, <2>6, <2>7, <2>8, <2>12, <3>2, <3>3 DEF was, Former
    <3> QED
      BY <2>3, <2>4, <3>1, <3>2, <3>3 DEF Tells, end, t
  <2> QED
    BY <2>9, <2>10, <2>11, <2>12
<1>7. Layered(two, new)
  BY <1>3, <1>4, <1>5, <1>6 DEF Layered
<1> QED
  BY <1>7 DEF lower, upper, one, two, new

-----------------------------------------------------------------------------
(* The commands that compose an environment, one read at a time.           *)

\* One side that has read the overlays overs has these layers of them and of the bases.
SideOK(m, s, overs, n, layers) ==
    /\ IsSeq(overs) /\ Len(overs) = n
    /\ Layered(ChainOf(m.params, m.envs[s], m.bases, overs, n), layers)

Finished(m, layers) ==
    Selected(Affixed(layers, m.params.prefix, m.params.suffix),
             m.cmd.os, m.params.overload, m.cmd.union)

\* What the command m = reader[r] holds, sn = seen[r] being what it has read.
ReadsOK(m, sn) ==
    /\ ParamsOK(m.params)
    /\ IsSeq(m.bases) /\ \A j \in 1..Len(m.bases) : ContentOK(m.bases[j])
    /\ IsSeq(m.states) /\ IsSeq(sn) /\ Len(sn) = Len(m.states)
AtBases(m, sn) ==
    /\ m.i = Len(m.bases) + 1 /\ m.i <= Len(m.params.includes) + 1
    /\ m.states = <<>> /\ sn = <<>>
AtOverlays(m, sn) ==
    /\ m.i \in 1..(Len(m.params.includes) + 1)
    /\ Len(m.bases) = Len(m.params.includes)
    /\ Len(m.states) # 0
    /\ \A s \in 1..Len(m.states) :
          SideOK(m, s, sn[s], IF s = Len(m.states) THEN m.i - 1 ELSE Len(m.bases), m.states[s])
AtDone(m, sn) ==
    /\ Len(m.bases) = Len(m.params.includes)
    /\ \A s \in 1..Len(m.states) : \E layers :
          SideOK(m, s, sn[s], Len(m.bases), layers) /\ m.states[s] = Finished(m, layers)

ReadOK(m, sn, cmd) ==
    /\ DOMAIN m = {"cmd", "at", "params", "envs", "bases", "states", "i"}
    /\ m.cmd = cmd
    /\ m.at = "start" => m.bases = <<>> /\ m.states = <<>> /\ sn = <<>>
    /\ m.at \in {"bases", "overlays", "done"} => ReadsOK(m, sn)
    /\ m.at = "bases" => AtBases(m, sn)
    /\ m.at = "overlays" => AtOverlays(m, sn)
    /\ m.at = "done" => AtDone(m, sn)

ReadInv ==
    /\ scenario \in Scenarios
    /\ DOMAIN reader = DOMAIN scenario.readers /\ DOMAIN seen = DOMAIN reader
    /\ \A r \in DOMAIN reader : ReadOK(reader[r], seen[r], scenario.readers[r])

LEMMA ReadInitially == Init => ReadInv
BY DEF Init, WorkspaceInit, MergeInit, ReadInv, ReadOK

\* A move of one command.
LEMMA ReaderMoved ==
    ASSUME ReadInv, NEW r \in DOMAIN reader, NEW change, Step(r, change),
           DOMAIN change \subseteq {"at", "params", "envs", "bases", "states", "i"}
    PROVE  /\ DOMAIN reader' = DOMAIN reader
           /\ \A q \in DOMAIN reader : q # r => reader'[q] = reader[q]
           /\ DOMAIN reader'[r] = {"cmd", "at", "params", "envs", "bases", "states", "i"}
           /\ reader'[r].cmd = scenario.readers[r]
           /\ \A x \in DOMAIN change : reader'[r][x] = change[x]
           /\ \A x \in DOMAIN reader[r] \ DOMAIN change : reader'[r][x] = reader[r][x]
<1>1. reader' = [reader EXCEPT ![r] = Changed(@, change)]
  BY DEF Step
<1>2. /\ DOMAIN reader[r] = {"cmd", "at", "params", "envs", "bases", "states", "i"}
      /\ reader[r].cmd = scenario.readers[r]
  BY DEF ReadInv, ReadOK
<1>3. reader'[r] = Changed(reader[r], change)
  BY <1>1
<1>4. /\ DOMAIN reader'[r] = DOMAIN reader[r] \cup DOMAIN change
      /\ \A x \in DOMAIN change : reader'[r][x] = change[x]
      /\ \A x \in DOMAIN reader[r] \ DOMAIN change : reader'[r][x] = reader[r][x]
  BY <1>3 DEF Changed
<1>5. reader'[r].cmd = scenario.readers[r]
  BY <1>2, <1>4
<1> QED
  BY <1>1, <1>2, <1>4, <1>5

LEMMA ReadActed ==
    ASSUME ReadInv, NEW r \in DOMAIN reader, NEW change, Step(r, change),
           DOMAIN change \subseteq {"at", "params", "envs", "bases", "states", "i"},
           UNCHANGED scenario, DOMAIN seen' = DOMAIN seen,
           \A q \in DOMAIN reader : q # r => seen'[q] = seen[q],
           ReadOK(reader'[r], seen'[r], scenario.readers[r])
    PROVE  ReadInv'
BY ReaderMoved DEF ReadInv

LEMMA FailOK ==
    ASSUME ReadInv, NEW r \in DOMAIN reader, Fails(r), UNCHANGED scenario
    PROVE  ReadInv'
<1> DEFINE change == [at |-> "failed"]
<1>1. Step(r, change) /\ UNCHANGED seen
  BY DEF Fails
<1>2. DOMAIN change \subseteq {"at", "params", "envs", "bases", "states", "i"} /\ change.at = "failed"
  OBVIOUS
<1>3. "at" \in DOMAIN change
  OBVIOUS
<1> HIDE DEF change
<1>4. reader'[r].at = "failed"
  BY <1>1, <1>2, <1>3, ReaderMoved
<1>5. ReadOK(reader'[r], seen'[r], scenario.readers[r])
  BY <1>1, <1>2, <1>4, ReaderMoved DEF ReadOK
<1> QED
  BY <1>1, <1>2, <1>5, ReadActed

LEMMA StartOK ==
    ASSUME ReadInv, ManifestOK(manifest), NEW r \in DOMAIN reader, MergeStart(r), UNCHANGED scenario
    PROVE  ReadInv'
<1> DEFINE cmd == reader[r].cmd
           params == EnvmergeParams(manifest, cmd.project, cmd.flags, cmd.variables)
           envs == [s \in DOMAIN cmd.asked |-> Environment(cmd.asked[s], params)]
           change == [at |-> "bases", params |-> params, envs |-> envs, i |-> 1]
<1>1. CASE Fails(r)
  BY <1>1, FailOK
<1>2. CASE ~Fails(r)
  <2>1. /\ cmd.project \in DOMAIN manifest.projects /\ reader[r].at = "start"
        /\ Step(r, change) /\ UNCHANGED seen
    BY <1>2 DEF MergeStart
  <2>2. ReadOK(reader[r], seen[r], scenario.readers[r]) /\ cmd = scenario.readers[r]
    BY DEF ReadInv, ReadOK
  <2>3. SettingsOK(cmd.flags) /\ SettingsOK(cmd.variables)
    BY <2>2, ManifestsAssumption DEF ReadInv
  <2>4. ParamsOK(params)
    BY <2>1, <2>3, SettledOK
  <2> HIDE DEF cmd, params, envs
  <2>5. /\ DOMAIN change = {"at", "params", "envs", "i"}
        /\ change.at = "bases" /\ change.params = params /\ change.i = 1
    OBVIOUS
  <2> HIDE DEF change
  <2>6. /\ reader'[r].at = "bases" /\ reader'[r].params = params /\ reader'[r].i = 1
        /\ reader'[r].bases = reader[r].bases /\ reader'[r].states = reader[r].states
        /\ DOMAIN reader'[r] = {"cmd", "at", "params", "envs", "bases", "states", "i"}
        /\ reader'[r].cmd = scenario.readers[r]
    <3>1. DOMAIN reader[r] = {"cmd", "at", "params", "envs", "bases", "states", "i"}
      BY <2>2 DEF ReadOK
    <3> QED
      BY <2>1, <2>5, <3>1, ReaderMoved
  <2>7. reader[r].bases = <<>> /\ reader[r].states = <<>> /\ seen[r] = <<>>
    BY <2>1, <2>2 DEF ReadOK
  <2>8. Len(params.includes) \in Nat
    BY <2>4 DEF ParamsOK
  <2>9. ReadsOK(reader'[r], seen'[r]) /\ AtBases(reader'[r], seen'[r])
    BY <2>1, <2>4, <2>6, <2>7, <2>8, SeqEmpty DEF ReadsOK, AtBases
  <2>10. ReadOK(reader'[r], seen'[r], scenario.readers[r])
    BY <2>6, <2>9 DEF ReadOK
  <2> QED
    BY <2>1, <2>5, <2>10, ReadActed
<1> QED
  BY <1>1, <1>2

LEMMA BaseOK ==
    ASSUME ReadInv, \A f \in DOMAIN files : ContentOK(files[f]),
           NEW r \in DOMAIN reader, ReadBase(r), UNCHANGED scenario
    PROVE  ReadInv'
<1> DEFINE m == reader[r]
           f == Base(m.params.includes[m.i])
           change == [bases |-> Append(m.bases, files[f]), i |-> m.i + 1]
<1>1. CASE Fails(r)
  BY <1>1, FailOK
<1>2. CASE ~Fails(r)
  <2>1. /\ m.at = "bases" /\ m.i \in DOMAIN m.params.includes /\ f \in DOMAIN files
        /\ Step(r, change) /\ UNCHANGED seen
    BY <1>2 DEF ReadBase
  <2>2. ReadOK(m, seen[r], scenario.readers[r])
    BY DEF ReadInv
  <2> HIDE DEF m, f
  <2>3. ReadsOK(m, seen[r]) /\ AtBases(m, seen[r])
    BY <2>1, <2>2 DEF ReadOK
  <2>4. /\ DOMAIN change = {"bases", "i"}
        /\ change.bases = Append(m.bases, files[f]) /\ change.i = m.i + 1
    OBVIOUS
  <2> HIDE DEF change
  <2>5. /\ reader'[r].at = m.at /\ reader'[r].params = m.params
        /\ reader'[r].states = m.states /\ reader'[r].i = m.i + 1
        /\ reader'[r].bases = Append(m.bases, files[f])
        /\ DOMAIN reader'[r] = {"cmd", "at", "params", "envs", "bases", "states", "i"}
        /\ reader'[r].cmd = scenario.readers[r]
    <3>1. DOMAIN m = {"cmd", "at", "params", "envs", "bases", "states", "i"}
      BY <2>2 DEF ReadOK
    <3> QED
      BY <2>1, <2>4, <3>1, ReaderMoved DEF m
  <2>6. /\ IsSeq(Append(m.bases, files[f])) /\ Len(Append(m.bases, files[f])) = Len(m.bases) + 1
        /\ Append(m.bases, files[f])[Len(m.bases) + 1] = files[f]
        /\ \A j \in 1..Len(m.bases) : Append(m.bases, files[f])[j] = m.bases[j]
    BY <2>3, SeqAppend DEF ReadsOK
  <2>7. Len(m.bases) \in Nat /\ m.params.includes \in Seq([dir : Seq(STRING), stem : Seq(STRING)])
    BY <2>3, SeqIs DEF ReadsOK, ParamsOK
  <2>8. ASSUME NEW j \in 1..(Len(m.bases) + 1) PROVE ContentOK(Append(m.bases, files[f])[j])
    <3>1. CASE j \in 1..Len(m.bases)
      BY <2>3, <2>6, <3>1 DEF ReadsOK
    <3>2. CASE j = Len(m.bases) + 1
      BY <2>1, <2>6, <3>2
    <3> QED
      BY <2>7, <3>1, <3>2
  <2>9. ReadsOK(reader'[r], seen'[r])
    BY <2>1, <2>3, <2>5, <2>6, <2>8 DEF ReadsOK
  <2>10. AtBases(reader'[r], seen'[r])
    BY <2>1, <2>3, <2>5, <2>6, <2>7 DEF AtBases
  <2>11. ReadOK(reader'[r], seen'[r], scenario.readers[r])
    BY <2>1, <2>5, <2>9, <2>10 DEF ReadOK
  <2> QED
    BY <2>1, <2>4, <2>11, ReadActed
<1> QED
  BY <1>1, <1>2

LEMMA OpenOK ==
    ASSUME ReadInv, NEW r \in DOMAIN reader, OpenSide(r), UNCHANGED scenario
    PROVE  ReadInv'
<1> DEFINE m == reader[r]
           change == [at |-> "overlays", i |-> 1, states |-> Append(m.states, NoLayers)]
           side == Len(m.states) + 1
<1>1. /\ \/ m.at = "bases"
         \/ m.at = "overlays"
      /\ m.i \notin DOMAIN m.params.includes
      /\ Step(r, change) /\ seen' = [seen EXCEPT ![r] = Append(@, <<>>)]
  BY DEF OpenSide
<1>2. ReadOK(m, seen[r], scenario.readers[r])
  BY DEF ReadInv
<1> HIDE DEF m
<1>3. ReadsOK(m, seen[r])
  BY <1>1, <1>2 DEF ReadOK
<1>4. /\ DOMAIN change = {"at", "i", "states"}
      /\ change.at = "overlays" /\ change.i = 1 /\ change.states = Append(m.states, NoLayers)
  OBVIOUS
<1> HIDE DEF change
<1>5. /\ reader'[r].at = "overlays" /\ reader'[r].params = m.params
      /\ reader'[r].states = Append(m.states, NoLayers) /\ reader'[r].i = 1
      /\ reader'[r].bases = m.bases /\ reader'[r].envs = m.envs
      /\ DOMAIN reader'[r] = {"cmd", "at", "params", "envs", "bases", "states", "i"}
      /\ reader'[r].cmd = scenario.readers[r]
  <2>1. DOMAIN m = {"cmd", "at", "params", "envs", "bases", "states", "i"}
    BY <1>2 DEF ReadOK
  <2> QED
    BY <1>1, <1>4, <2>1, ReaderMoved DEF m
<1>6. seen'[r] = Append(seen[r], <<>>)
  BY <1>1 DEF ReadInv
<1>7. /\ IsSeq(Append(m.states, NoLayers)) /\ Len(Append(m.states, NoLayers)) = side
      /\ Append(m.states, NoLayers)[side] = NoLayers
      /\ \A s \in 1..Len(m.states) : Append(m.states, NoLayers)[s] = m.states[s]
  BY <1>3, SeqAppend DEF ReadsOK
<1>8. /\ IsSeq(seen'[r]) /\ Len(seen'[r]) = side /\ seen'[r][side] = <<>>
      /\ \A s \in 1..Len(m.states) : seen'[r][s] = seen[r][s]
  BY <1>3, <1>6, SeqAppend DEF ReadsOK
<1>9. /\ Len(m.states) \in Nat /\ Len(m.bases) \in Nat
      /\ m.params.includes \in Seq([dir : Seq(STRING), stem : Seq(STRING)])
  BY <1>3, SeqIs DEF ReadsOK, ParamsOK
<1>10. /\ Len(m.bases) = Len(m.params.includes)
       /\ \A s \in 1..Len(m.states) : SideOK(m, s, seen[r][s], Len(m.bases), m.states[s])
  <2>1. CASE m.at = "bases"
    <3>1. AtBases(m, seen[r])
      BY <1>2, <2>1 DEF ReadOK
    <3>2. Len(m.bases) = Len(m.params.includes)
      BY <1>1, <1>9, <3>1 DEF AtBases
    <3>3. Len(m.states) = 0
      BY <3>1 DEF AtBases
    <3> QED
      BY <3>2, <3>3
  <2>2. CASE m.at = "overlays"
    <3>1. AtOverlays(m, seen[r])
      BY <1>2, <2>2 DEF ReadOK
    <3>2. m.i - 1 = Len(m.bases) /\ Len(m.bases) = Len(m.params.includes)
      BY <1>1, <1>9, <3>1 DEF AtOverlays
    <3> QED
      BY <3>1, <3>2 DEF AtOverlays
  <2> QED
    BY <1>1, <2>1, <2>2
<1>11. ReadsOK(reader'[r], seen'[r])
  BY <1>3, <1>5, <1>7, <1>8 DEF ReadsOK
<1>12. ASSUME NEW s \in 1..side
       PROVE  SideOK(reader'[r], s, seen'[r][s], IF s = side THEN 1 - 1 ELSE Len(m.bases),
                     Append(m.states, NoLayers)[s])
  <2>1. CASE s = side
    BY <1>5, <1>7, <1>8, <2>1, NothingTold, SeqEmpty DEF SideOK
  <2>2. CASE s # side
    <3>1. s \in 1..Len(m.states)
      BY <1>9, <2>2
    <3> QED
      BY <1>5, <1>7, <1>8, <1>10, <2>2, <3>1 DEF SideOK
  <2> QED
    BY <2>1, <2>2
<1>13. AtOverlays(reader'[r], seen'[r])
  BY <1>5, <1>7, <1>9, <1>10, <1>12 DEF AtOverlays
<1>14. ReadOK(reader'[r], seen'[r], scenario.readers[r])
  BY <1>5, <1>11, <1>13 DEF ReadOK
<1>15. DOMAIN seen' = DOMAIN seen /\ \A q \in DOMAIN reader : q # r => seen'[q] = seen[q]
  BY <1>1
<1> QED
  BY <1>1, <1>4, <1>14, <1>15, ReadActed

With(s, n, x) == [s EXCEPT ![n] = x]

LEMMA SeqWith ==
    ASSUME NEW s, IsSeq(s), NEW n \in 1..Len(s), NEW x
    PROVE  /\ IsSeq(With(s, n, x)) /\ Len(With(s, n, x)) = Len(s) /\ With(s, n, x)[n] = x
           /\ \A j \in 1..Len(s) : j # n => With(s, n, x)[j] = s[j]
<1> DEFINE T == ToSet(s) \cup {x}
           t == [s EXCEPT ![n] = x]
<1>1. s \in Seq(T) /\ x \in T
  BY DEF IsSeq
<1> HIDE DEF T
<1>2. t \in Seq(T) /\ Len(t) = Len(s) /\ t[n] = x /\ \A j \in 1..Len(s) : j # n => t[j] = s[j]
  BY <1>1
<1>3. IsSeq(t)
  BY <1>2, Sequenced
<1> QED
  BY <1>2, <1>3 DEF With

LEMMA OverlayOK ==
    ASSUME ReadInv, \A f \in DOMAIN files : ContentOK(files[f]),
           NEW r \in DOMAIN reader, ReadOverlay(r), UNCHANGED scenario
    PROVE  ReadInv'
<1> DEFINE m == reader[r]
           inc == m.params.includes[m.i]
           side == Len(m.states)
           env == m.envs[side]
           over == ContentOr(files, Overlay(inc, env))
           new == Integrate(m.states[side], inc, env, m.bases[m.i], over)
           states == With(m.states, side, new)
           overs == seen[r][side]
           more == Append(overs, over)
           change == [i |-> m.i + 1, states |-> states]
<1>1. CASE Fails(r)
  BY <1>1, FailOK
<1>2. CASE ~Fails(r)
  <2>1. /\ m.at = "overlays" /\ m.i \in DOMAIN m.params.includes
        /\ Step(r, [i |-> m.i + 1, states |-> [m.states EXCEPT ![side] =
              Integrate(@, inc, env, m.bases[m.i], over)]])
        /\ seen' = [seen EXCEPT ![r][side] = Append(@, over)]
    BY <1>2 DEF ReadOverlay, Sides
  <2>2. [m.states EXCEPT ![side] = Integrate(@, inc, env, m.bases[m.i], over)] = states
    BY DEF With
  <2>3. Step(r, change)
    BY <2>1, <2>2
  <2>4. ReadOK(m, seen[r], scenario.readers[r])
    BY DEF ReadInv
  <2>5. ContentOK(over)
    BY EmptyOK DEF ContentOr
  <2> HIDE DEF m
  <2>6. ReadsOK(m, seen[r]) /\ AtOverlays(m, seen[r])
    BY <2>1, <2>4 DEF ReadOK
  <2>7. /\ side \in Nat /\ side # 0 /\ Len(m.bases) \in Nat
        /\ m.params.includes \in Seq([dir : Seq(STRING), stem : Seq(STRING)])
        /\ m.i \in 1..Len(m.bases) /\ Len(m.bases) = Len(m.params.includes)
    <3>1. side \in Nat /\ Len(m.bases) \in Nat
      BY <2>6, SeqIs DEF ReadsOK
    <3>2. m.params.includes \in Seq([dir : Seq(STRING), stem : Seq(STRING)])
      BY <2>6 DEF ReadsOK, ParamsOK
    <3> QED
      BY <2>1, <2>6, <3>1, <3>2 DEF AtOverlays
  <2>8. /\ DOMAIN change = {"i", "states"}
        /\ change.i = m.i + 1 /\ change.states = states
    OBVIOUS
  <2> HIDE DEF change, inc, env, over, new, states, overs, more
  <2>9. /\ reader'[r].at = m.at /\ reader'[r].params = m.params /\ reader'[r].envs = m.envs
        /\ reader'[r].states = states /\ reader'[r].i = m.i + 1
        /\ reader'[r].bases = m.bases
        /\ DOMAIN reader'[r] = {"cmd", "at", "params", "envs", "bases", "states", "i"}
        /\ reader'[r].cmd = scenario.readers[r]
    <3>1. DOMAIN m = {"cmd", "at", "params", "envs", "bases", "states", "i"}
      BY <2>4 DEF ReadOK
    <3> QED
      BY <2>3, <2>8, <3>1, ReaderMoved DEF m
  <2>10. seen'[r] = With(seen[r], side, more)
    BY <2>1 DEF ReadInv, With, more, overs
  <2>11. /\ IsSeq(states) /\ Len(states) = side /\ states[side] = new
         /\ \A s \in 1..side : s # side => states[s] = m.states[s]
    <3>1. IsSeq(m.states) /\ side \in 1..Len(m.states)
      BY <2>6, <2>7 DEF ReadsOK
    <3> QED
      BY <3>1, SeqWith DEF states
  <2>12. /\ IsSeq(seen'[r]) /\ Len(seen'[r]) = side /\ seen'[r][side] = more
         /\ \A s \in 1..side : s # side => seen'[r][s] = seen[r][s]
    <3>1. IsSeq(seen[r]) /\ Len(seen[r]) = side /\ side \in 1..Len(seen[r])
      BY <2>6, <2>7 DEF ReadsOK
    <3> QED
      BY <2>10, <3>1, SeqWith
  <2>13. \A s \in 1..side :
            SideOK(m, s, seen[r][s], IF s = side THEN m.i - 1 ELSE Len(m.bases), m.states[s])
    BY <2>6 DEF AtOverlays
  <2>14. SideOK(reader'[r], side, more, m.i, new)
    <3> DEFINE ch == ChainOf(m.params, env, m.bases, overs, Len(overs))
               ch2 == ChainOf(m.params, env, m.bases, more, Len(overs) + 1)
    <3>1. SideOK(m, side, overs, m.i - 1, m.states[side])
      <4>1. side \in 1..side
        BY <2>7
      <4> HIDE DEF side
      <4>2. SideOK(m, side, seen[r][side], m.i - 1, m.states[side])
        BY <2>13, <4>1
      <4> QED
        BY <4>2 DEF overs
    <3>2. IsSeq(overs) /\ Len(overs) = m.i - 1 /\ Layered(ch, m.states[side])
      BY <3>1 DEF SideOK, env
    <3>3. Len(overs) + 1 = m.i /\ IsSeq(more) /\ Len(more) = Len(overs) + 1
      BY <2>7, <3>2, SeqAppend DEF more
    <3>4. ch2 = Append(Append(ch, BaseLayer(m.params, m.bases, Len(overs) + 1)),
                       [file |-> Overlay(m.params.includes[Len(overs) + 1], env), content |-> over])
      BY <3>2, ChainGrows DEF more
    <3>5. /\ BaseLayer(m.params, m.bases, Len(overs) + 1)
                = [file |-> Base(inc), content |-> m.bases[m.i]]
          /\ m.params.includes[Len(overs) + 1] = inc
      BY <3>3 DEF BaseLayer, inc
    <3>6. ContentOK(m.bases[m.i])
      BY <2>6, <2>7 DEF ReadsOK
    <3> HIDE DEF ch, ch2
    <3>7. Layered(Append(Append(ch, [file |-> Base(inc), content |-> m.bases[m.i]]),
                         [file |-> Overlay(inc, env), content |-> over]), new)
      BY <2>5, <3>2, <3>6, LayeredGrows DEF new
    <3>8. Layered(ch2, new)
      BY <3>4, <3>5, <3>7
    <3>9. Layered(ChainOf(m.params, env, m.bases, more, m.i), new)
      BY <3>3, <3>8 DEF ch2
    <3> QED
      BY <2>9, <3>3, <3>9 DEF SideOK, env
  <2>15. ASSUME NEW s \in 1..side
         PROVE  SideOK(reader'[r], s, seen'[r][s],
                       IF s = side THEN (m.i + 1) - 1 ELSE Len(m.bases), states[s])
    <3>1. CASE s = side
      BY <2>7, <2>11, <2>12, <2>14, <3>1
    <3>2. CASE s # side
      BY <2>9, <2>11, <2>12, <2>13, <3>2 DEF SideOK
    <3> QED
      BY <3>1, <3>2
  <2>16. ReadsOK(reader'[r], seen'[r])
    BY <2>6, <2>9, <2>11, <2>12 DEF ReadsOK
  <2>17. AtOverlays(reader'[r], seen'[r])
    BY <2>7, <2>9, <2>11, <2>15 DEF AtOverlays
  <2>18. ReadOK(reader'[r], seen'[r], scenario.readers[r])
    BY <2>1, <2>9, <2>16, <2>17 DEF ReadOK
  <2>19. DOMAIN seen' = DOMAIN seen /\ \A q \in DOMAIN reader : q # r => seen'[q] = seen[q]
    BY <2>1
  <2> QED
    BY <2>3, <2>8, <2>18, <2>19, ReadActed
<1> QED
  BY <1>1, <1>2

LEMMA DoneOK ==
    ASSUME ReadInv, NEW r \in DOMAIN reader, MergeDone(r), UNCHANGED scenario
    PROVE  ReadInv'
<1> DEFINE m == reader[r]
           side == Len(m.states)
           states == [s \in DOMAIN m.states |-> Finished(m, m.states[s])]
           change == [at |-> "done", states |-> states]
<1>1. /\ m.at = "overlays" /\ m.i \notin DOMAIN m.params.includes
      /\ Step(r, change) /\ UNCHANGED seen
  BY DEF MergeDone, Finished
<1>2. ReadOK(m, seen[r], scenario.readers[r])
  BY DEF ReadInv
<1> HIDE DEF m
<1>3. ReadsOK(m, seen[r]) /\ AtOverlays(m, seen[r])
  BY <1>1, <1>2 DEF ReadOK
<1>4. /\ DOMAIN m.states = 1..side /\ side \in Nat /\ Len(m.bases) \in Nat
      /\ m.params.includes \in Seq([dir : Seq(STRING), stem : Seq(STRING)])
  BY <1>3, SeqIs DEF ReadsOK, ParamsOK
<1>5. m.i - 1 = Len(m.bases) /\ Len(m.bases) = Len(m.params.includes)
  <2>1. m.i \in 1..(Len(m.params.includes) + 1) /\ Len(m.bases) = Len(m.params.includes)
    BY <1>3 DEF AtOverlays
  <2>2. DOMAIN m.params.includes = 1..Len(m.params.includes) /\ Len(m.params.includes) \in Nat
    BY <1>4
  <2> QED
    BY <1>1, <2>1, <2>2
<1>6. \A s \in 1..side : SideOK(m, s, seen[r][s], Len(m.bases), m.states[s])
  BY <1>3, <1>5 DEF AtOverlays
<1>7. DOMAIN change = {"at", "states"} /\ change.at = "done" /\ change.states = states
  OBVIOUS
<1>8. DOMAIN states = 1..side /\ \A s \in 1..side : states[s] = Finished(m, m.states[s])
  BY <1>4
<1>9. IsSeq(states) /\ Len(states) = side
  <2> DEFINE T == {states[s] : s \in 1..side}
             f(s) == Finished(m, m.states[s])
  <2>1. states = [s \in 1..side |-> f(s)] /\ \A s \in 1..side : f(s) \in T
    BY <1>4
  <2> HIDE DEF T, f, states
  <2>2. states \in Seq(T) /\ Len(states) = side
    BY <1>4, <2>1
  <2> QED
    BY <2>2, Sequenced
<1> HIDE DEF states, change
<1>10. /\ reader'[r].at = "done" /\ reader'[r].params = m.params /\ reader'[r].envs = m.envs
       /\ reader'[r].states = states /\ reader'[r].bases = m.bases /\ reader'[r].cmd = m.cmd
       /\ DOMAIN reader'[r] = {"cmd", "at", "params", "envs", "bases", "states", "i"}
       /\ reader'[r].cmd = scenario.readers[r]
  <2>1. DOMAIN m = {"cmd", "at", "params", "envs", "bases", "states", "i"}
    BY <1>2 DEF ReadOK
  <2> QED
    BY <1>1, <1>7, <2>1, ReaderMoved DEF m
<1>11. ReadsOK(reader'[r], seen'[r])
  BY <1>1, <1>3, <1>9, <1>10 DEF ReadsOK
<1>12. ASSUME NEW s \in 1..side
       PROVE  /\ SideOK(reader'[r], s, seen'[r][s], Len(m.bases), m.states[s])
              /\ states[s] = Finished(reader'[r], m.states[s])
  BY <1>1, <1>6, <1>8, <1>10 DEF SideOK, Finished
<1>13. AtDone(reader'[r], seen'[r])
  BY <1>5, <1>9, <1>10, <1>12 DEF AtDone
<1>14. ReadOK(reader'[r], seen'[r], scenario.readers[r])
  BY <1>10, <1>11, <1>13 DEF ReadOK
<1> QED
  BY <1>1, <1>7, <1>14, ReadActed

LEMMA ReadStep == ASSUME FilesInv, ReadInv, [Next]_vars PROVE ReadInv'
<1>1. ManifestOK(manifest) /\ \A f \in DOMAIN files : ContentOK(files[f])
  BY DEF FilesInv
<1>2. CASE MergeNext /\ UNCHANGED scenario
  <2>1. PICK r \in DOMAIN reader : MergeStart(r) \/ ReadBase(r) \/ OpenSide(r)
                                   \/ ReadOverlay(r) \/ MergeDone(r)
    BY <1>2 DEF MergeNext, Reader
  <2> QED
    BY <1>1, <1>2, <2>1, StartOK, BaseOK, OpenOK, OverlayOK, DoneOK
<1>3. CASE UNCHANGED <<scenario, mergeVars>>
  BY <1>3 DEF ReadInv, mergeVars
<1>4. (MergeNext /\ UNCHANGED scenario) \/ UNCHANGED <<scenario, mergeVars>>
  BY DEF Next, vars, workspace, mergeVars, createVars, setVars, ignoreVars, packVars, emitVars,
     CreateNext, CreateStart, CheckConflict, CreateWrite,
     CreateFails, SetNext, SetRead, SetWrite, SetFails, IgnoreNext, CheckIgnore,
     ReadIgnore, WriteIgnore, IgnoreFails, Moves, Settles,
     PackNext, PackStart, Plan, Rewrite, Clear, WriteManifest, Copy, Scan, CopySecrets,
     PackFails, ValidateNext, ValidateStart, ResolveNext, DiagnoseNext, CheckSecrets,
     CheckPublicKeys, CheckKeypairs, Grade, EmitNext, EmitStart, EmitExplain,
     EmitEntries, EmitWrite, EmitFails, Edit
<1> QED
  BY <1>2, <1>3, <1>4

LEMMA ReadInvariant == Spec => []ReadInv
<1>1. Init => ReadInv
  BY ReadInitially
<1>2. FilesInv /\ ReadInv /\ [Next]_vars => ReadInv'
  BY ReadStep
<1> QED
  BY <1>1, <1>2, FilesInvariant, PTL DEF Spec

-----------------------------------------------------------------------------
(* What a finished composition holds.                                      *)

\* The layers of a chain that a key, affixes and all, comes from.
Naming(ch, prefix, suffix, key) ==
    Those(ch, {layer \in ToSet(ch) : \E u \in Keys(layer.content) : prefix \o u \o suffix = key})
Unaffixed(prefix, suffix, key) == SubSeq(key, Len(prefix) + 1, Len(key) - Len(suffix))

LEMMA NamingIsTelling ==
    ASSUME NEW ch, NEW layers, Layered(ch, layers),
           NEW prefix \in Seq(STRING), NEW suffix \in Seq(STRING), NEW u \in Seq(STRING)
    PROVE  Naming(ch, prefix, suffix, prefix \o u \o suffix) = Telling(ch, u)
<1> DEFINE S == {layer \in ToSet(ch) :
                    \E v \in Keys(layer.content) : prefix \o v \o suffix = prefix \o u \o suffix}
           R == {layer \in ToSet(ch) : u \in Keys(layer.content)}
<1>1. IsSeq(ch) /\ DOMAIN ch = 1..Len(ch) /\ \A j \in 1..Len(ch) : ContentOK(ch[j].content)
  BY SeqIs DEF Layered
<1>2. ASSUME NEW j \in 1..Len(ch) PROVE ch[j] \in S <=> ch[j] \in R
  <2>1. ch[j] \in ToSet(ch)
    BY <1>1 DEF ToSet
  <2>2. \A v \in Keys(ch[j].content) : v \in Seq(STRING)
    BY <1>1, FlatOK
  <2>3. ASSUME NEW v \in Keys(ch[j].content), prefix \o v \o suffix = prefix \o u \o suffix
        PROVE  v = u
    <3> DEFINE w == prefix \o u \o suffix
               plain == SubSeq(w, Len(prefix) + 1, Len(w) - Len(suffix))
    <3>1. plain = u
      BY Unwrapping
    <3>2. v \in Seq(STRING)
      BY <2>2
    <3>3. w = prefix \o v \o suffix
      BY <2>3
    <3>4. plain = v
      <4> HIDE DEF w
      <4> QED
        BY <3>2, <3>3, Unwrapping
    <3> QED
      BY <3>1, <3>4
  <2> QED
    BY <2>1, <2>3
<1>3. /\ Naming(ch, prefix, suffix, prefix \o u \o suffix) = Those(ch, S)
      /\ Telling(ch, u) = Those(ch, R)
  BY DEF Naming, Telling
<1> HIDE DEF S, R
<1>4. \A j \in 1..Len(ch) : (ch[j] \in S <=> ch[j] \in R) /\ (ch[j] \in S => ch[j] = ch[j])
  BY <1>2
<1>5. Those(ch, S) = Those(ch, R)
  BY <1>1, <1>4, ThoseAgree
<1> QED
  BY <1>3, <1>5

\* The affixed layers hold the keys that some layer of the chain gives.
LEMMA AffixedTold ==
    ASSUME NEW ch, NEW layers, Layered(ch, layers),
           NEW prefix \in Seq(STRING), NEW suffix \in Seq(STRING), NEW k
    PROVE  LET new == Affixed(layers, prefix, suffix)
               u == Unaffixed(prefix, suffix, k) IN
           /\ DOMAIN new.origins = DOMAIN new.values
           /\ k \in DOMAIN new.values <=> Naming(ch, prefix, suffix, k) # <<>>
           /\ k \in DOMAIN new.values =>
                 /\ u \in DOMAIN layers.values /\ k = prefix \o u \o suffix
                 /\ new.values[k] = layers.values[u] /\ new.origins[k] = layers.origins[u]
                 /\ Naming(ch, prefix, suffix, k) = Telling(ch, u)
<1> DEFINE new == Affixed(layers, prefix, suffix)
           u == Unaffixed(prefix, suffix, k)
           named == Naming(ch, prefix, suffix, k)
<1>1. \A v \in DOMAIN layers.values : v \in Seq(STRING)
  BY DEF Layered, StateOK
<1>2. /\ DOMAIN new.values = {prefix \o v \o suffix : v \in DOMAIN layers.values}
      /\ DOMAIN new.origins = DOMAIN new.values
      /\ \A v \in DOMAIN layers.values :
            /\ new.values[prefix \o v \o suffix] = layers.values[v]
            /\ new.origins[prefix \o v \o suffix] = layers.origins[v]
  BY <1>1, AffixedAre
<1> HIDE DEF new
<1>3. ASSUME k \in DOMAIN new.values
      PROVE  /\ u \in DOMAIN layers.values /\ k = prefix \o u \o suffix
             /\ new.values[k] = layers.values[u] /\ new.origins[k] = layers.origins[u]
             /\ named = Telling(ch, u) /\ named # <<>>
  <2>1. PICK v \in DOMAIN layers.values : k = prefix \o v \o suffix
    BY <1>2, <1>3
  <2>2. v \in Seq(STRING) /\ u = v
    BY <1>1, <2>1, Unwrapping DEF Unaffixed
  <2>3. named = Telling(ch, v)
    BY <2>1, <2>2, NamingIsTelling
  <2>4. Telling(ch, v) # <<>>
    BY DEF Layered, Tells
  <2> QED
    BY <1>2, <2>1, <2>2, <2>3, <2>4
<1>4. ASSUME named # <<>> PROVE k \in DOMAIN new.values
  <2> DEFINE S == {layer \in ToSet(ch) : \E v \in Keys(layer.content) : prefix \o v \o suffix = k}
  <2>1. IsSeq(ch) /\ DOMAIN ch = 1..Len(ch) /\ \A j \in 1..Len(ch) : ContentOK(ch[j].content)
    BY SeqIs DEF Layered
  <2>2. IsSeq(Those(ch, S)) /\ ToSet(Those(ch, S)) = ToSet(ch) \cap S /\ Those(ch, S) = named
    <3>1. Those(ch, S) = named
      BY DEF Naming
    <3> HIDE DEF S, named
    <3> QED
      BY <2>1, <3>1, ThoseSeq
  <2>3. PICK layer \in S : TRUE
    <3> HIDE DEF S, named
    <3>1. Those(ch, S) \in Seq(ToSet(Those(ch, S)))
      BY <2>2 DEF IsSeq
    <3>2. ToSet(Those(ch, S)) # {}
      BY <1>4, <2>2, <3>1
    <3> QED
      BY <2>2, <3>2
  <2>4. PICK v \in Keys(layer.content) : prefix \o v \o suffix = k
    BY <2>3
  <2>5. PICK j \in 1..Len(ch) : layer = ch[j]
    BY <2>1, <2>3 DEF ToSet
  <2>6. v \in Seq(STRING)
    BY <2>1, <2>4, <2>5, FlatOK
  <2>7. named = Telling(ch, v)
    BY <2>4, <2>6, NamingIsTelling
  <2>8. v \in DOMAIN layers.values
    BY <1>4, <2>7 DEF Layered, Tells
  <2> QED
    BY <1>2, <2>4, <2>8
<1> QED
  BY <1>2, <1>3, <1>4 DEF new

LEMMA SelectedOrigins ==
    ASSUME NEW state, DOMAIN state.origins = DOMAIN state.values,
           NEW os, NEW overload, NEW union, NEW k \in DOMAIN state.values
    PROVE  LET new == Selected(state, os, overload, union).origins[k]
               o == state.origins[k] IN
           /\ k \notin os => new = o
           /\ k \in os /\ ~overload =>
                 new = Origin(OsSource(k), Append(o.shadowed, o.winner))
           /\ k \in os /\ overload /\ DOMAIN o = {"winner", "shadowed"} =>
                 new = Origin(o.winner, Append(o.shadowed, OsSource(k)))
<1> DEFINE shared == os \cap DOMAIN state.values
           wins == (IF overload THEN {} ELSE shared) \cup (IF union THEN os \ shared ELSE {})
           source(j) ==
              IF j \notin shared
              THEN [winner |-> OsSource(j), shadowed |-> <<>>]
              ELSE LET o == state.origins[j] IN
                   IF overload
                   THEN [o EXCEPT !.shadowed = Append(@, OsSource(j))]
                   ELSE [winner |-> OsSource(j), shadowed |-> Append(o.shadowed, o.winner)]
           new == Selected(state, os, overload, union)
           o == state.origins[k]
<1>1. new.origins = Over([j \in wins \cup shared |-> source(j)], state.origins)
  BY DEF Selected
<1> HIDE DEF new, source
<1>2. /\ k \in wins \cup shared => new.origins[k] = source(k)
      /\ k \notin wins \cup shared => new.origins[k] = o
  BY <1>1 DEF Over
<1>3. k \in wins \cup shared <=> k \in os
  OBVIOUS
<1>4. k \in os => source(k) = IF overload THEN [o EXCEPT !.shadowed = Append(@, OsSource(k))]
                              ELSE Origin(OsSource(k), Append(o.shadowed, o.winner))
  BY DEF source, Origin
<1>5. DOMAIN o = {"winner", "shadowed"} =>
         [o EXCEPT !.shadowed = Append(@, OsSource(k))] = Origin(o.winner, Append(o.shadowed, OsSource(k)))
  BY DEF Origin
<1> QED
  BY <1>2, <1>3, <1>4, <1>5 DEF new

LEMMA TwoMore ==
    ASSUME NEW s, IsSeq(s), NEW x, NEW y
    PROVE  Append(Append(s, x), y) = s \o <<x, y>>
<1> DEFINE T == ToSet(s) \cup {x, y}
<1>1. s \in Seq(T) /\ x \in T /\ y \in T
  BY DEF IsSeq
<1> HIDE DEF T
<1>2. <<x, y>> \in Seq(T) /\ Len(<<x, y>>) = 2 /\ <<x, y>>[1] = x /\ <<x, y>>[2] = y
  BY <1>1
<1> DEFINE a == Append(Append(s, x), y)
           b == s \o <<x, y>>
<1>3. a \in Seq(T) /\ Len(a) = Len(s) + 2
  BY <1>1
<1>4. b \in Seq(T) /\ Len(b) = Len(s) + 2
  BY <1>1, <1>2
<1>5. ASSUME NEW i \in 1..(Len(s) + 2) PROVE a[i] = b[i]
  BY <1>1, <1>2
<1> HIDE DEF a, b
<1>6. a = b
  <2>1. a = [i \in 1..(Len(s) + 2) |-> a[i]] /\ b = [i \in 1..(Len(s) + 2) |-> b[i]]
    BY <1>3, <1>4
  <2> QED
    BY <1>5, <2>1
<1> QED
  BY <1>6 DEF a, b

\* What the finished side s of the command m has made of the layers of its chain.
LEMMA DoneSide ==
    ASSUME ReadInv, NEW r \in Reader, reader[r].at = "done", NEW s \in DOMAIN reader[r].states
    PROVE  /\ ParamsOK(reader[r].params)
           /\ \E layers : /\ Layered(Chain(r, s), layers)
                          /\ reader[r].states[s] = Finished(reader[r], layers)
<1> DEFINE m == reader[r]
<1>1. ReadOK(m, seen[r], scenario.readers[r])
  BY DEF ReadInv, Reader
<1>2. Chain(r, s) = ChainOf(m.params, m.envs[s], m.bases, seen[r][s], Len(m.bases))
  BY DEF Chain, ChainOf, BaseLayer, OverlayLayer
<1> HIDE DEF m
<1>3. ReadsOK(m, seen[r]) /\ AtDone(m, seen[r])
  BY <1>1 DEF ReadOK, m
<1>4. s \in 1..Len(m.states)
  BY <1>3, SeqIs DEF ReadsOK, m
<1>5. PICK layers : SideOK(m, s, seen[r][s], Len(m.bases), layers) /\ m.states[s] = Finished(m, layers)
  BY <1>3, <1>4 DEF AtDone
<1>6. Layered(Chain(r, s), layers)
  BY <1>2, <1>5 DEF SideOK
<1> QED
  BY <1>3, <1>5, <1>6 DEF ReadsOK, m

\* Of any keys, affixes, files, flags and variables of the OS, and whatever changes the
\* files between two reads: a finished composition gives every key the value of the last
\* file that mentions it, or of the OS environment when that goes first, and names every
\* file that mentions it exactly once, oldest first (merge.go, integrateSources;
\* effective.go, applyOSEnvironment).
THEOREM LastWordWins == Spec => []LastSpeakerWins
<1>1. ReadInv => LastSpeakerWins
  <2> SUFFICES ASSUME ReadInv, NEW r \in Reader, reader[r].at = "done",
                      NEW s \in DOMAIN reader[r].states
      PROVE  LET state == reader[r].states[s]
                 os(k) == k \in reader[r].cmd.os
                 overload == reader[r].params.overload
                 named(k) == [j \in DOMAIN Speakers(r, s, k) |-> Speakers(r, s, k)[j].file]
                 told(k) == LET o == state.origins[k]
                                all == Append(o.shadowed, o.winner)
                            IN  [j \in DOMAIN all |-> all[j].file]
             IN
             /\ DOMAIN state.origins = DOMAIN state.values
             /\ \A k \in DOMAIN state.values :
                 IF Speakers(r, s, k) = <<>>
                 THEN reader[r].cmd.union /\ os(k)
                 ELSE LET last == Last(Speakers(r, s, k)).content IN
                   /\ state.values[k] = IF os(k) /\ ~overload THEN Opaque("os")
                                        ELSE Flat(last)[Unwrapped(r, k)]
                   /\ IF ~os(k) THEN told(k) = named(k)
                      ELSE IF overload
                      THEN told(k) = Front(named(k)) \o <<OsSource(k).file, Last(named(k))>>
                      ELSE told(k) = Append(named(k), OsSource(k).file)
    BY DEF LastSpeakerWins
  <2> DEFINE m == reader[r]
             prefix == m.params.prefix
             suffix == m.params.suffix
             overload == m.params.overload
             union == m.cmd.union
             state == m.states[s]
             ch == Chain(r, s)
  <2>1. prefix \in Seq(STRING) /\ suffix \in Seq(STRING) /\ overload \in BOOLEAN
    BY DoneSide DEF ParamsOK
  <2>2. PICK layers : Layered(ch, layers) /\ state = Finished(m, layers)
    BY DoneSide
  <2> DEFINE aff == Affixed(layers, prefix, suffix)
  <2>3. state = Selected(aff, m.cmd.os, overload, union)
    BY <2>2 DEF Finished
  <2>4. DOMAIN aff.origins = DOMAIN aff.values
    BY <2>1, <2>2, AffixedTold
  <2>5. /\ DOMAIN state.values = DOMAIN aff.values \cup (IF union THEN m.cmd.os ELSE {})
        /\ DOMAIN state.origins = DOMAIN state.values
        /\ \A k \in DOMAIN state.values :
              state.values[k] = IF k \in m.cmd.os /\ (~overload \/ k \notin DOMAIN aff.values)
                                THEN Opaque("os") ELSE aff.values[k]
    <3> HIDE DEF m, state, aff, overload, union
    <3> QED
      BY <2>3, <2>4, SelectedAre
  <2>6. ASSUME NEW k \in DOMAIN state.values
        PROVE  LET spoke == Speakers(r, s, k)
                   told == FilesOf(Append(state.origins[k].shadowed, state.origins[k].winner))
                   named == FilesOf(spoke) IN
               IF spoke = <<>> THEN union /\ k \in m.cmd.os
               ELSE /\ state.values[k] = IF k \in m.cmd.os /\ ~overload THEN Opaque("os")
                                         ELSE Flat(Last(spoke).content)[Unwrapped(r, k)]
                    /\ k \notin m.cmd.os => told = named
                    /\ k \in m.cmd.os /\ overload =>
                          told = Front(named) \o <<OsSource(k).file, Last(named)>>
                    /\ k \in m.cmd.os /\ ~overload => told = Append(named, OsSource(k).file)
    <3> DEFINE u == Unaffixed(prefix, suffix, k)
               spoke == Speakers(r, s, k)
               named == FilesOf(spoke)
               told == FilesOf(Append(state.origins[k].shadowed, state.origins[k].winner))
               o == layers.origins[u]
               all == Append(o.shadowed, o.winner)
    <3>1. spoke = Naming(ch, prefix, suffix, k) /\ Unwrapped(r, k) = u
      BY DEF Speakers, Wrapped, Unwrapped, Unaffixed, Naming
    <3>2. /\ k \in DOMAIN aff.values <=> spoke # <<>>
          /\ k \in DOMAIN aff.values =>
                /\ u \in DOMAIN layers.values
                /\ aff.values[k] = layers.values[u] /\ aff.origins[k] = o
                /\ spoke = Telling(ch, u)
      BY <2>1, <2>2, <3>1, AffixedTold
    <3>3. CASE spoke = <<>>
      BY <2>5, <3>2, <3>3
    <3>4. CASE spoke # <<>>
      <4>1. /\ Tells(ch, layers, u) /\ u \in DOMAIN layers.values
            /\ k \in DOMAIN aff.values /\ aff.origins[k] = o /\ aff.values[k] = layers.values[u]
            /\ spoke = Telling(ch, u)
        BY <2>2, <3>2, <3>4 DEF Layered
      <4>2. DOMAIN layers.origins = DOMAIN layers.values
        BY <2>2 DEF Layered, StateOK
      <4>3. /\ layers.values[u] = Flat(Last(spoke).content)[u]
            /\ DOMAIN o = {"winner", "shadowed"} /\ IsSeq(o.shadowed)
            /\ FilesOf(all) = named
        BY <4>1, <4>2 DEF Tells, Former
      <4>4. /\ k \notin m.cmd.os => state.origins[k] = o
            /\ k \in m.cmd.os /\ ~overload =>
                  state.origins[k] = Origin(OsSource(k), all)
            /\ k \in m.cmd.os /\ overload =>
                  state.origins[k] = Origin(o.winner, Append(o.shadowed, OsSource(k)))
        <5> HIDE DEF m, state, aff, overload, union, o
        <5> QED
          BY <2>3, <2>4, <4>1, <4>3, SelectedOrigins
      <4>5. state.values[k] = IF k \in m.cmd.os /\ ~overload THEN Opaque("os")
                              ELSE Flat(Last(spoke).content)[Unwrapped(r, k)]
        BY <2>5, <3>1, <4>1, <4>3
      <4> HIDE DEF m, state, aff, overload, union, o, named, spoke, u
      <4>6. k \notin m.cmd.os => told = named
        BY <4>3, <4>4
      <4>7. k \in m.cmd.os /\ ~overload => told = Append(named, OsSource(k).file)
        <5>1. IsSeq(all)
          BY <4>3, SeqAppend
        <5>2. ASSUME k \in m.cmd.os /\ ~overload PROVE told = FilesOf(Append(all, OsSource(k)))
          <6>1. state.origins[k] = Origin(OsSource(k), all)
            BY <4>4, <5>2
          <6>2. state.origins[k].shadowed = all /\ state.origins[k].winner = OsSource(k)
            BY <6>1 DEF Origin
          <6> HIDE DEF all
          <6> QED
            BY <6>2
        <5> HIDE DEF all
        <5> QED
          BY <4>3, <5>1, <5>2, FilesAppend
      <4>8. k \in m.cmd.os /\ overload =>
               told = Front(named) \o <<OsSource(k).file, Last(named)>>
        <5> DEFINE sh == FilesOf(o.shadowed)
                   x == OsSource(k).file
                   y == o.winner.file
        <5>1. IsSeq(sh) /\ named = Append(sh, y)
          BY <4>3, FilesAppend
        <5>2. IsSeq(Append(o.shadowed, OsSource(k)))
              /\ FilesOf(Append(o.shadowed, OsSource(k))) = Append(sh, x)
          BY <4>3, SeqAppend, FilesAppend
        <5>3. k \in m.cmd.os /\ overload => told = Append(Append(sh, x), y)
          <6>1. ASSUME k \in m.cmd.os /\ overload
                PROVE  told = FilesOf(Append(Append(o.shadowed, OsSource(k)), o.winner))
            <7>1. state.origins[k] = Origin(o.winner, Append(o.shadowed, OsSource(k)))
              BY <4>4, <6>1
            <7>2. /\ state.origins[k].shadowed = Append(o.shadowed, OsSource(k))
                  /\ state.origins[k].winner = o.winner
              BY <7>1 DEF Origin
            <7> QED
              BY <7>2
          <6> QED
            BY <5>2, <6>1, FilesAppend
        <5> HIDE DEF sh, x, y
        <5>4. Front(named) = sh /\ Last(named) = y
          BY <5>1, FrontOfAppend
        <5>5. Append(Append(sh, x), y) = sh \o <<x, y>>
          BY <5>1, TwoMore
        <5> QED
          BY <5>3, <5>4, <5>5 DEF x
      <4> QED
        BY <3>4, <4>5, <4>6, <4>7, <4>8 DEF named, spoke
    <3> QED
      BY <3>3, <3>4
  <2> HIDE DEF aff, ch
  <2> QED
    BY <2>1, <2>5, <2>6 DEF FilesOf
<1> QED
  BY <1>1, ReadInvariant, PTL

\* What two chains of one command have in common: the bases.
LEMMA SidesShare ==
    ASSUME NEW params, NEW env, NEW fnv, NEW bases, NEW overs, NEW pvers, NEW n \in Nat, NEW u,
           \A i \in 1..n : u \notin Keys(overs[i]) /\ u \notin Keys(pvers[i])
    PROVE  Telling(ChainOf(params, env, bases, overs, n), u) =
               Telling(ChainOf(params, fnv, bases, pvers, n), u)
<1> DEFINE ch == ChainOf(params, env, bases, overs, n)
           dh == ChainOf(params, fnv, bases, pvers, n)
           S == {layer \in ToSet(ch) : u \in Keys(layer.content)}
           R == {layer \in ToSet(dh) : u \in Keys(layer.content)}
<1>1. Telling(ch, u) = Those(ch, S) /\ Telling(dh, u) = Those(dh, R)
  BY DEF Telling
<1>2. /\ IsSeq(ch) /\ Len(ch) = 2 * n
      /\ \A i \in 1..n : /\ ch[2 * i - 1] = BaseLayer(params, bases, i)
                         /\ ch[2 * i] = OverlayLayer(params, env, overs, i)
  BY ChainIs
<1>7. \A j \in 1..(2 * n) : \E i \in 1..n : j = 2 * i - 1 \/ j = 2 * i
  BY ChainIs
<1>3. /\ IsSeq(dh) /\ Len(dh) = 2 * n
      /\ \A i \in 1..n : /\ dh[2 * i - 1] = BaseLayer(params, bases, i)
                         /\ dh[2 * i] = OverlayLayer(params, fnv, pvers, i)
  BY ChainIs
<1> HIDE DEF ch, dh
<1>4. DOMAIN ch = 1..(2 * n) /\ DOMAIN dh = 1..(2 * n)
  BY <1>2, <1>3, SeqIs
<1>5. ASSUME NEW j \in 1..(2 * n)
      PROVE  (ch[j] \in S <=> dh[j] \in R) /\ (ch[j] \in S => ch[j] = dh[j])
  <2>1. ch[j] \in ToSet(ch) /\ dh[j] \in ToSet(dh)
    BY <1>4 DEF ToSet
  <2>2. PICK i \in 1..n : j = 2 * i - 1 \/ j = 2 * i
    BY <1>7
  <2>3. CASE j = 2 * i - 1
    BY <1>2, <1>3, <2>1, <2>3
  <2>4. CASE j = 2 * i
    <3>1. ch[j].content = overs[i] /\ dh[j].content = pvers[i]
      <4>1. ch[j] = OverlayLayer(params, env, overs, i) /\ dh[j] = OverlayLayer(params, fnv, pvers, i)
        BY <1>2, <1>3, <2>4
      <4> QED
        BY <4>1 DEF OverlayLayer
    <3> QED
      BY <3>1
  <2> QED
    BY <2>2, <2>3, <2>4
<1> HIDE DEF S, R
<1>6. Those(ch, S) = Those(dh, R)
  BY <1>2, <1>3, <1>5, ThoseAgree
<1> QED
  BY <1>1, <1>6 DEF ch, dh

\* Of any two environments, files and keys, and whatever writes a base or an overlay while
\* the diff reads: its sides differ in a key only where an overlay that it read of one of
\* them mentions the key (diff.go, Diff).
THEOREM DiffIsOfOverlays == Spec => []DiffExplained
<1>1. ReadInv => DiffExplained
  <2> SUFFICES ASSUME ReadInv, NEW r \in Reader, reader[r].at = "done", Sides(r) = 2
      PROVE  LET a == reader[r].states[1].values
                 b == reader[r].states[2].values
                 mentioned == UNION {Keys(seen[r][s][i]) :
                     s \in 1..2, i \in DOMAIN reader[r].params.includes}
             IN  \A k \in DOMAIN a \cup DOMAIN b :
                   Unwrapped(r, k) \notin mentioned =>
                       k \in DOMAIN a \cap DOMAIN b /\ a[k] = b[k]
    BY DEF DiffExplained
  <2> DEFINE m == reader[r]
             prefix == m.params.prefix
             suffix == m.params.suffix
             mentioned == UNION {Keys(seen[r][s][i]) : s \in 1..2, i \in DOMAIN m.params.includes}
             n == Len(m.bases)
  <2>1. /\ ReadsOK(m, seen[r]) /\ n = Len(m.params.includes)
        /\ 1 \in DOMAIN m.states /\ 2 \in DOMAIN m.states
    <3>1. ReadOK(m, seen[r], scenario.readers[r]) /\ Len(m.states) = 2
      BY DEF ReadInv, Reader, Sides
    <3>2. ReadsOK(m, seen[r]) /\ AtDone(m, seen[r])
      BY <3>1 DEF ReadOK
    <3>3. DOMAIN m.states = 1..2
      BY <3>1, <3>2, SeqIs DEF ReadsOK
    <3> QED
      BY <3>2, <3>3 DEF AtDone
  <2>2. /\ prefix \in Seq(STRING) /\ suffix \in Seq(STRING)
        /\ n \in Nat /\ DOMAIN m.params.includes = 1..n
    BY <2>1, SeqIs DEF ReadsOK, ParamsOK
  <2>3. PICK one : Layered(Chain(r, 1), one) /\ m.states[1] = Finished(m, one)
    BY <2>1, DoneSide
  <2>4. PICK two : Layered(Chain(r, 2), two) /\ m.states[2] = Finished(m, two)
    BY <2>1, DoneSide
  <2> DEFINE aff == Affixed(one, prefix, suffix)
             bff == Affixed(two, prefix, suffix)
             a == m.states[1].values
             b == m.states[2].values
             os == IF m.cmd.union THEN m.cmd.os ELSE {}
             wins(k, known) == k \in m.cmd.os /\ (~m.params.overload \/ k \notin known)
  <2>5. /\ DOMAIN a = DOMAIN aff.values \cup os
        /\ \A k \in DOMAIN a : a[k] = IF wins(k, DOMAIN aff.values) THEN Opaque("os") ELSE aff.values[k]
    <3>1. DOMAIN aff.origins = DOMAIN aff.values
      BY <2>2, <2>3, AffixedTold
    <3>2. m.states[1] = Selected(aff, m.cmd.os, m.params.overload, m.cmd.union)
      BY <2>3 DEF Finished
    <3> HIDE DEF m, aff
    <3> QED
      BY <3>1, <3>2, SelectedAre
  <2>6. /\ DOMAIN b = DOMAIN bff.values \cup os
        /\ \A k \in DOMAIN b : b[k] = IF wins(k, DOMAIN bff.values) THEN Opaque("os") ELSE bff.values[k]
    <3>1. DOMAIN bff.origins = DOMAIN bff.values
      BY <2>2, <2>4, AffixedTold
    <3>2. m.states[2] = Selected(bff, m.cmd.os, m.params.overload, m.cmd.union)
      BY <2>4 DEF Finished
    <3> HIDE DEF m, bff
    <3> QED
      BY <3>1, <3>2, SelectedAre
  <2>7. ASSUME NEW k, Unwrapped(r, k) \notin mentioned
        PROVE  /\ k \in DOMAIN aff.values <=> k \in DOMAIN bff.values
               /\ k \in DOMAIN aff.values => aff.values[k] = bff.values[k]
    <3> DEFINE u == Unaffixed(prefix, suffix, k)
    <3>1. Unwrapped(r, k) = u
      BY DEF Unwrapped, Unaffixed
    <3>2. \A i \in 1..n : u \notin Keys(seen[r][1][i]) /\ u \notin Keys(seen[r][2][i])
      BY <2>2, <2>7, <3>1
    <3>3. /\ Chain(r, 1) = ChainOf(m.params, m.envs[1], m.bases, seen[r][1], n)
          /\ Chain(r, 2) = ChainOf(m.params, m.envs[2], m.bases, seen[r][2], n)
      BY DEF Chain, ChainOf, BaseLayer, OverlayLayer
    <3>4. Telling(Chain(r, 1), u) = Telling(Chain(r, 2), u)
      <4> HIDE DEF u, n, m
      <4> QED
        BY <2>2, <3>2, <3>3, SidesShare
    <3>5. Tells(Chain(r, 1), one, u) /\ Tells(Chain(r, 2), two, u)
      BY <2>3, <2>4 DEF Layered
    <3>6. /\ u \in DOMAIN one.values <=> u \in DOMAIN two.values
          /\ u \in DOMAIN one.values => one.values[u] = two.values[u]
      BY <3>4, <3>5 DEF Tells
    <3>7. /\ k \in DOMAIN aff.values => u \in DOMAIN one.values /\ k = prefix \o u \o suffix
          /\ k \in DOMAIN bff.values => u \in DOMAIN two.values /\ k = prefix \o u \o suffix
          /\ k \in DOMAIN aff.values => aff.values[k] = one.values[u]
          /\ k \in DOMAIN bff.values => bff.values[k] = two.values[u]
      <4>1. k \in DOMAIN aff.values =>
               u \in DOMAIN one.values /\ k = prefix \o u \o suffix /\ aff.values[k] = one.values[u]
        <5> HIDE DEF m, prefix, suffix, u
        <5>1. k \in DOMAIN aff.values =>
                 /\ Unaffixed(prefix, suffix, k) \in DOMAIN one.values
                 /\ k = prefix \o Unaffixed(prefix, suffix, k) \o suffix
                 /\ aff.values[k] = one.values[Unaffixed(prefix, suffix, k)]
          BY <2>2, <2>3, AffixedTold
        <5> QED
          BY <5>1 DEF u
      <4>2. k \in DOMAIN bff.values =>
               u \in DOMAIN two.values /\ k = prefix \o u \o suffix /\ bff.values[k] = two.values[u]
        <5> HIDE DEF m, prefix, suffix, u
        <5>1. k \in DOMAIN bff.values =>
                 /\ Unaffixed(prefix, suffix, k) \in DOMAIN two.values
                 /\ k = prefix \o Unaffixed(prefix, suffix, k) \o suffix
                 /\ bff.values[k] = two.values[Unaffixed(prefix, suffix, k)]
          BY <2>2, <2>4, AffixedTold
        <5> QED
          BY <5>1 DEF u
      <4> QED
        BY <4>1, <4>2
    <3>8. /\ u \in DOMAIN one.values /\ k = prefix \o u \o suffix => k \in DOMAIN aff.values
          /\ u \in DOMAIN two.values /\ k = prefix \o u \o suffix => k \in DOMAIN bff.values
      <4>1. /\ \A v \in DOMAIN one.values : v \in Seq(STRING)
            /\ \A v \in DOMAIN two.values : v \in Seq(STRING)
        BY <2>3, <2>4 DEF Layered, StateOK
      <4>2. /\ DOMAIN aff.values = {prefix \o v \o suffix : v \in DOMAIN one.values}
            /\ DOMAIN bff.values = {prefix \o v \o suffix : v \in DOMAIN two.values}
        <5> HIDE DEF m, prefix, suffix, u
        <5>1. DOMAIN aff.values = {prefix \o v \o suffix : v \in DOMAIN one.values}
          BY <2>2, <4>1, AffixedAre
        <5>2. DOMAIN bff.values = {prefix \o v \o suffix : v \in DOMAIN two.values}
          BY <2>2, <4>1, AffixedAre
        <5> QED
          BY <5>1, <5>2
      <4> QED
        BY <4>2
    <3> QED
      BY <3>6, <3>7, <3>8
  <2> HIDE DEF aff, bff, a, b, os, mentioned
  <2>8. ASSUME NEW k \in DOMAIN a \cup DOMAIN b, Unwrapped(r, k) \notin mentioned
        PROVE  k \in DOMAIN a \cap DOMAIN b /\ a[k] = b[k]
    <3>1. /\ k \in DOMAIN aff.values <=> k \in DOMAIN bff.values
          /\ k \in DOMAIN aff.values => aff.values[k] = bff.values[k]
      BY <2>7, <2>8
    <3>2. k \in DOMAIN a /\ k \in DOMAIN b
      BY <2>5, <2>6, <3>1
    <3>3. CASE k \in DOMAIN aff.values
      BY <2>5, <2>6, <3>1, <3>2, <3>3
    <3>4. CASE k \notin DOMAIN aff.values
      <4>1. k \in os
        BY <2>5, <3>2, <3>4
      <4>2. k \in m.cmd.os
        BY <4>1 DEF os
      <4> QED
        BY <2>5, <2>6, <3>1, <3>2, <3>4, <4>2
    <3> QED
      BY <3>2, <3>3, <3>4
  <2> QED
    BY <2>8 DEF a, b, mentioned
<1> QED
  BY <1>1, ReadInvariant, PTL
==============================================================================
