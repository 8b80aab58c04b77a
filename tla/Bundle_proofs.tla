---------------------------- MODULE Bundle_proofs ----------------------------
(***************************************************************************)
(* What a finished bundle of pack is, in any workspace: for any projects,  *)
(* includes and environments, whatever their names, any number of suffixes *)
(* to tell them apart, and whatever else happens in the meantime.          *)
(***************************************************************************)
EXTENDS WorktreeReads_proofs

-----------------------------------------------------------------------------
(* Functions that are built step by step, and keep an invariant S[n].      *)

Advances(step, S, N) == \A n \in 1..N : step[n] \in [S[n - 1] -> S[n]]
Stepwise(g, start, step, N) ==
    g = [n \in 0..N |-> IF n = 0 THEN start ELSE step[n][g[n - 1]]]

LEMMA Recursion ==
    ASSUME NEW N \in Nat, NEW S, NEW start \in S[0], NEW step, Advances(step, S, N)
    PROVE  \E g : Stepwise(g, start, step, N) /\ \A n \in 0..N : g[n] \in S[n]
<1> USE DEF Advances, Stepwise
<1> DEFINE To(g, k) == /\ g = [n \in 0..k |-> IF n = 0 THEN start ELSE step[n][g[n - 1]]]
                       /\ \A n \in 0..k : g[n] \in S[n]
           K == {k \in Nat : k <= N => \E g : To(g, k)}
<1>1. 0 \in K
  <2>1. To([n \in 0..0 |-> start], 0)
    OBVIOUS
  <2> QED
    BY <2>1
<1>2. ASSUME NEW k \in Nat, k \in K PROVE k + 1 \in K
  <2> SUFFICES ASSUME k + 1 <= N PROVE \E g : To(g, k + 1)
    OBVIOUS
  <2>1. PICK g : To(g, k)
    BY <1>2
  <2> DEFINE h == [n \in 0..(k + 1) |-> IF n = k + 1 THEN step[n][g[k]] ELSE g[n]]
  <2>2. \A n \in 0..k : h[n] = g[n]
    OBVIOUS
  <2>3. ASSUME NEW n \in 0..(k + 1)
        PROVE  /\ h[n] = IF n = 0 THEN start ELSE step[n][h[n - 1]]
               /\ h[n] \in S[n]
    <3>1. CASE n = k + 1
      <4>1. n # 0 /\ n - 1 = k /\ k \in 0..k /\ n \in 1..N
        BY <3>1
      <4>2. h[n] = step[n][g[k]] /\ g[k] \in S[k] /\ step[n] \in [S[k] -> S[n]]
        BY <2>1, <3>1, <4>1
      <4> QED
        BY <2>2, <4>1, <4>2
    <3>2. CASE n # k + 1
      <4>1. n \in 0..k /\ (n # 0 => n - 1 \in 0..k)
        BY <3>2
      <4>2. g[n] = IF n = 0 THEN start ELSE step[n][g[n - 1]]
        BY <2>1, <4>1
      <4>3. g[n] \in S[n]
        BY <2>1, <4>1
      <4> QED
        BY <2>2, <4>1, <4>2, <4>3
    <3> QED
      BY <3>1, <3>2
  <2>4. h = [n \in 0..(k + 1) |-> h[n]]
    OBVIOUS
  <2> HIDE DEF h
  <2>5. To(h, k + 1)
    BY <2>3, <2>4
  <2> QED
    BY <2>5
<1> HIDE DEF K
<1>3. N \in K
  BY <1>1, <1>2, SetInduction
<1> QED
  BY <1>3 DEF K

LEMMA Kept ==
    ASSUME NEW N \in Nat, NEW S, NEW f, f[0] \in S[0],
           \A n \in 1..N : f[n - 1] \in S[n - 1] => f[n] \in S[n]
    PROVE  \A n \in 0..N : f[n] \in S[n]
<1> DEFINE K == {n \in Nat : n <= N => f[n] \in S[n]}
<1>1. 0 \in K
  OBVIOUS
<1>2. ASSUME NEW n \in Nat, n \in K PROVE n + 1 \in K
  <2>1. n + 1 <= N => n + 1 \in 1..N /\ (n + 1) - 1 = n
    OBVIOUS
  <2> QED
    BY <1>2, <2>1
<1> HIDE DEF K
<1>3. Nat \subseteq K
  BY <1>1, <1>2, SetInduction
<1> QED
  BY <1>3 DEF K

-----------------------------------------------------------------------------
(* Names.                                                                  *)

\* A name: of a directory, or of a file without its extension.
Name == Seq(STRING)

LEMMA LowestIs ==
    ASSUME NEW S \in SUBSET Nat, S # {}
    PROVE  Lowest(S) \in S
BY NatMin DEF Lowest

LEMMA CandidateIs ==
    ASSUME NEW name \in Name, NEW n \in Attempts PROVE Candidate(name, n) \in Name
<1>1. Suffix \in Seq(STRING)
  BY NamesAssumption
<1>2. CASE n = 1
  BY <1>2 DEF Candidate
<1>3. CASE n # 1
  <2>1. n - 1 \in 1..Len(Suffix) /\ Candidate(name, n) = Append(name, Suffix[n - 1])
    BY <1>1, <1>3 DEF Attempts, Candidate
  <2>2. Suffix[n - 1] \in STRING
    BY <1>1, <2>1
  <2> QED
    BY <2>1, <2>2 DEF Name
<1> QED
  BY <1>2, <1>3

\* No element of t is there twice.
Once1(t) == \A i, j \in 1..Len(t) : t[i] = t[j] => i = j

LEMMA AppendNew ==
    ASSUME NEW T, NEW t \in Seq(T), Once1(t), NEW x \in T, x \notin ToSet(t)
    PROVE  /\ Append(t, x) \in Seq(T) /\ Once1(Append(t, x))
           /\ ToSet(Append(t, x)) = ToSet(t) \cup {x}
<1> DEFINE u == Append(t, x)
<1>1. /\ u \in Seq(T) /\ Len(t) \in Nat /\ Len(u) = Len(t) + 1 /\ u[Len(u)] = x
      /\ \A i \in 1..Len(t) : u[i] = t[i] /\ t[i] # x
      /\ DOMAIN t = 1..Len(t) /\ DOMAIN u = 1..Len(u)
  BY DEF ToSet
<1> HIDE DEF u
<1>2. Once1(u)
  BY <1>1 DEF Once1
<1>3. ToSet(u) = ToSet(t) \cup {x}
  <2>1. 1..Len(u) = 1..Len(t) \cup {Len(u)}
    BY <1>1
  <2> QED
    BY <1>1, <2>1 DEF ToSet
<1> QED
  BY <1>1, <1>2, <1>3 DEF u

\* assignProjectDirs gives no directory twice.
LEMMA DirsApart ==
    ASSUME NEW names \in Seq(ToSet(Project)), NEW hasStore
    PROVE  ProjectDirs(names, hasStore) \in Seq(Name) /\ Once1(ProjectDirs(names, hasStore))
<1> DEFINE reserved == {<<"envx">>} \cup (IF hasStore THEN {<<"secrets">>} ELSE {})
           free(n, t) == {k \in Attempts :
                            Candidate(Sanitized[names[n]], k) \notin reserved \cup ToSet(t)}
           next(n, t) == IF free(n, t) = {} THEN t
                         ELSE Append(t, Candidate(Sanitized[names[n]], Lowest(free(n, t))))
           T == {t \in Seq(Name) : Once1(t)}
           N == Len(names)
           S == [n \in 0..N |-> T]
           step == [n \in 1..N |-> [t \in T |-> next(n, t)]]
           To(g) == g = [n \in 0..N |-> IF n = 0 THEN <<>> ELSE next(n, g[n - 1])]
<1>1. ASSUME NEW n \in 1..N, NEW t \in T PROVE next(n, t) \in T
  <2>1. Sanitized[names[n]] \in Name
    BY NamesAssumption DEF Name
  <2>2. CASE free(n, t) # {}
    <3>1. free(n, t) \in SUBSET Nat
      BY NamesAssumption DEF Attempts
    <3>2. Lowest(free(n, t)) \in free(n, t)
      BY <2>2, <3>1, LowestIs
    <3> DEFINE x == Candidate(Sanitized[names[n]], Lowest(free(n, t)))
    <3>3. x \in Name /\ x \notin ToSet(t)
      BY <2>1, <3>2, CandidateIs
    <3>4. next(n, t) = Append(t, x)
      BY <2>2
    <3> HIDE DEF x, next
    <3> QED
      BY <3>3, <3>4, AppendNew
  <2> QED
    BY <2>2
<1>2. N \in Nat
  OBVIOUS
<1>3. <<>> \in S[0]
  BY <1>2 DEF Once1
<1> HIDE DEF next
<1>4. Advances(step, S, N)
  BY <1>1, <1>2 DEF Advances
<1>5. PICK g : Stepwise(g, <<>>, step, N) /\ \A n \in 0..N : g[n] \in S[n]
  <2> HIDE DEF S, step, N
  <2> QED
    BY <1>2, <1>3, <1>4, Recursion
<1>6. To(g)
  <2>1. ASSUME NEW n \in 0..N
        PROVE  g[n] = IF n = 0 THEN <<>> ELSE next(n, g[n - 1])
    <3>1. n # 0 => n \in 1..N /\ n - 1 \in 0..N
      BY <1>2
    <3> QED
      BY <1>5, <2>1, <3>1 DEF Stepwise
  <2>2. g = [n \in 0..N |-> g[n]]
    BY <1>5 DEF Stepwise
  <2> QED
    BY <2>1, <2>2
<1> DEFINE f == CHOOSE f : To(f)
<1>7. To(f)
  BY <1>6
<1>8. ProjectDirs(names, hasStore) = f[N]
  BY DEF ProjectDirs, next
<1> HIDE DEF f
<1>9. \A n \in 0..N : f[n] \in S[n]
  <2>1. f[0] \in S[0]
    BY <1>2, <1>3, <1>7
  <2>2. ASSUME NEW n \in 1..N, f[n - 1] \in S[n - 1] PROVE f[n] \in S[n]
    <3>1. n \in 0..N /\ n # 0 /\ n - 1 \in 0..N /\ f[n] = next(n, f[n - 1])
      BY <1>2, <1>7
    <3> QED
      BY <1>1, <2>2, <3>1
  <2> HIDE DEF S, N
  <2> QED
    BY <1>2, <2>1, <2>2, Kept
<1> QED
  BY <1>2, <1>8, <1>9

-----------------------------------------------------------------------------
(* Includes.                                                               *)

Include == [dir : Name, stem : Name]

LEMMA OnceIs ==
    ASSUME NEW V, NEW s \in Seq(V)
    PROVE  /\ Once(s) \in Seq(V) /\ Once1(Once(s))
           /\ ToSet(Once(s)) = ToSet(s)
<1> DEFINE next(n, t) == IF s[n] \in ToSet(t) THEN t ELSE Append(t, s[n])
           N == Len(s)
           T(n) == {t \in Seq(V) : Once1(t) /\ ToSet(t) = {s[i] : i \in 1..n}}
           S == [n \in 0..N |-> T(n)]
           step == [n \in 1..N |-> [t \in S[n - 1] |-> next(n, t)]]
           To(g) == g = [n \in 0..N |-> IF n = 0 THEN <<>> ELSE next(n, g[n - 1])]
<1>1. N \in Nat /\ DOMAIN s = 1..N
  OBVIOUS
<1>2. ASSUME NEW n \in 1..N, NEW t \in S[n - 1] PROVE next(n, t) \in S[n]
  <2>1. n - 1 \in 0..N /\ n \in 0..N /\ s[n] \in V /\ 1..n = 1..(n - 1) \cup {n}
    BY <1>1
  <2>2. t \in Seq(V) /\ Once1(t) /\ ToSet(t) = {s[i] : i \in 1..(n - 1)}
    BY <2>1
  <2>3. {s[i] : i \in 1..n} = ToSet(t) \cup {s[n]}
    BY <2>1, <2>2
  <2> DEFINE x == s[n]
  <2>4. x \in V
    BY <2>1
  <2>5. CASE x \in ToSet(t)
    BY <2>1, <2>2, <2>3, <2>5
  <2>6. CASE x \notin ToSet(t)
    <3> HIDE DEF x
    <3>1. Append(t, x) \in Seq(V) /\ Once1(Append(t, x)) /\ ToSet(Append(t, x)) = ToSet(t) \cup {x}
      BY <2>2, <2>4, <2>6, AppendNew
    <3> QED
      BY <2>1, <2>3, <2>6, <3>1 DEF x
  <2> QED
    BY <2>5, <2>6
<1>3. <<>> \in S[0]
  BY <1>1 DEF Once1, ToSet
<1> HIDE DEF next, T
<1>4. Advances(step, S, N)
  BY <1>1, <1>2 DEF Advances
<1>5. PICK g : Stepwise(g, <<>>, step, N) /\ \A n \in 0..N : g[n] \in S[n]
  <2> HIDE DEF S, step, N
  <2> QED
    BY <1>1, <1>3, <1>4, Recursion
<1>6. To(g)
  <2>1. ASSUME NEW n \in 0..N
        PROVE  g[n] = IF n = 0 THEN <<>> ELSE next(n, g[n - 1])
    <3>1. n # 0 => n \in 1..N /\ n - 1 \in 0..N
      BY <1>1
    <3> QED
      BY <1>5, <2>1, <3>1 DEF Stepwise
  <2>2. g = [n \in 0..N |-> g[n]]
    BY <1>5 DEF Stepwise
  <2> QED
    BY <2>1, <2>2
<1> DEFINE f == CHOOSE f : To(f)
<1>7. To(f)
  BY <1>6
<1>8. Once(s) = f[N]
  BY DEF Once, next
<1> HIDE DEF f
<1>9. \A n \in 0..N : f[n] \in S[n]
  <2>1. f[0] \in S[0]
    BY <1>1, <1>3, <1>7
  <2>2. ASSUME NEW n \in 1..N, f[n - 1] \in S[n - 1] PROVE f[n] \in S[n]
    <3>1. n \in 0..N /\ n # 0 /\ n - 1 \in 0..N /\ f[n] = next(n, f[n - 1])
      BY <1>1, <1>7
    <3> QED
      BY <1>2, <2>2, <3>1
  <2> HIDE DEF S, N
  <2> QED
    BY <1>1, <2>1, <2>2, Kept
<1>10. f[N] \in T(N)
  BY <1>1, <1>9
<1> QED
  BY <1>1, <1>8, <1>10 DEF T, ToSet

\* An include of the plan, as it was found.
FoundOK(found) ==
    /\ found.include \in Include
    /\ found.base \in BOOLEAN
    /\ found.overlays \in Seq(Name \ {<<>>})

LEMMA OutputsAre ==
    ASSUME NEW found, FoundOK(found), NEW stem \in Name
    PROVE  Outputs(found, stem) \subseteq Name
<1>1. \A env \in ToSet(found.overlays) : env \in Name
  BY DEF FoundOK, ToSet
<1>2. \A env \in Name : stem \o env \in Name
  BY DEF Name
<1> QED
  BY <1>1, <1>2 DEF Outputs

\* The includes that have a name in v have one each, and their files are apart.
NamedApart(includes, v) ==
    /\ \A inc, other \in DOMAIN v.names : v.names[inc] = v.names[other] => inc = other
    /\ \A i \in DOMAIN includes : includes[i].include \in DOMAIN v.names =>
          Outputs(includes[i], v.names[includes[i].include]) \subseteq v.used
    /\ \A i, j \in DOMAIN includes :
          /\ i # j
          /\ includes[i].include \in DOMAIN v.names
          /\ includes[j].include \in DOMAIN v.names
          => Outputs(includes[i], v.names[includes[i].include])
                \cap Outputs(includes[j], v.names[includes[j].include]) = {}

NamedOK == [names : UNION {[D -> Name] : D \in SUBSET Include}, used : SUBSET Name]

LEMMA NamedNext ==
    ASSUME NEW includes, NEW n \in DOMAIN includes, \A i \in DOMAIN includes : FoundOK(includes[i]),
           \A i, j \in DOMAIN includes : includes[i].include = includes[j].include => i = j,
           NEW v \in NamedOK, NamedApart(includes, v),
           NEW mine \in Name,
           \A inc \in DOMAIN v.names : v.names[inc] # mine,
           Outputs(includes[n], mine) \cap v.used = {}
    PROVE  LET w == [names |-> Put(v.names, includes[n].include, mine),
                     used |-> v.used \cup Outputs(includes[n], mine)]
           IN  w \in NamedOK /\ NamedApart(includes, w)
<1> DEFINE inc0 == includes[n].include
           out == Outputs(includes[n], mine)
           names == Put(v.names, inc0, mine)
           w == [names |-> names, used |-> v.used \cup out]
<1>1. inc0 \in Include /\ out \subseteq Name
  BY OutputsAre DEF FoundOK
<1>2. PICK D \in SUBSET Include : v.names \in [D -> Name]
  BY DEF NamedOK
<1>3. /\ DOMAIN names = D \cup {inc0} /\ names[inc0] = mine
      /\ \A inc \in D : inc # inc0 => names[inc] = v.names[inc]
      /\ names = [inc \in DOMAIN names |-> names[inc]]
  BY <1>1, <1>2 DEF Put
<1> HIDE DEF names
<1>4. names \in [D \cup {inc0} -> Name]
  BY <1>2, <1>3
<1>5. D \cup {inc0} \in SUBSET Include
  BY <1>1, <1>2
<1>6. w \in NamedOK
  BY <1>1, <1>4, <1>5 DEF NamedOK
<1>7. ASSUME NEW inc \in DOMAIN names, NEW other \in DOMAIN names, names[inc] = names[other]
      PROVE  inc = other
  BY <1>2, <1>3, <1>7 DEF NamedApart
<1>8. ASSUME NEW i \in DOMAIN includes, i # n, includes[i].include \in DOMAIN names
      PROVE  /\ includes[i].include \in DOMAIN v.names
             /\ names[includes[i].include] = v.names[includes[i].include]
             /\ Outputs(includes[i], names[includes[i].include]) \subseteq v.used
  <2>1. includes[i].include # inc0
    BY <1>8
  <2>2. /\ includes[i].include \in DOMAIN v.names
        /\ names[includes[i].include] = v.names[includes[i].include]
    BY <1>2, <1>3, <1>8, <2>1
  <2> QED
    BY <2>2 DEF NamedApart
<1>9. Outputs(includes[n], names[inc0]) = out
  BY <1>3
<1> HIDE DEF out
<1>10. ASSUME NEW i \in DOMAIN includes, includes[i].include \in DOMAIN names
       PROVE  Outputs(includes[i], names[includes[i].include]) \subseteq v.used \cup out
  BY <1>8, <1>9, <1>10
<1>11. out \cap v.used = {}
  BY DEF out
<1>12. ASSUME NEW i \in DOMAIN includes, NEW j \in DOMAIN includes, i # j,
              includes[i].include \in DOMAIN names, includes[j].include \in DOMAIN names
       PROVE  Outputs(includes[i], names[includes[i].include])
                 \cap Outputs(includes[j], names[includes[j].include]) = {}
  <2>1. CASE i = n
    BY <1>8, <1>9, <1>11, <1>12, <2>1
  <2>2. CASE j = n
    BY <1>8, <1>9, <1>11, <1>12, <2>2
  <2>3. CASE i # n /\ j # n
    <3>1. /\ names[includes[i].include] = v.names[includes[i].include]
          /\ names[includes[j].include] = v.names[includes[j].include]
          /\ includes[i].include \in DOMAIN v.names /\ includes[j].include \in DOMAIN v.names
      BY <1>8, <1>12, <2>3
    <3> QED
      BY <1>12, <3>1 DEF NamedApart
  <2> QED
    BY <2>1, <2>2, <2>3
<1>13. NamedApart(includes, w)
  BY <1>7, <1>10, <1>12 DEF NamedApart
<1> QED
  BY <1>6, <1>13 DEF names, out

\* assignProjectNames: "two namespaces sharing a stem would be merged into one include".
LEMMA StemsApart ==
    ASSUME NEW includes, Len(includes) \in Nat, DOMAIN includes = 1..Len(includes),
           \A i \in DOMAIN includes : FoundOK(includes[i]),
           \A i, j \in DOMAIN includes : includes[i].include = includes[j].include => i = j
    PROVE  \E used : LET v == [names |-> Stems(includes), used |-> used] IN
               v \in NamedOK /\ NamedApart(includes, v)
<1> DEFINE stem(n, k) == Candidate(includes[n].include.stem, k)
           free(n, v) == {k \in Attempts :
                            /\ \A inc \in DOMAIN v.names : v.names[inc] # stem(n, k)
                            /\ Outputs(includes[n], stem(n, k)) \cap v.used = {}}
           mine(n, v) == stem(n, Lowest(free(n, v)))
           next(n, v) == IF free(n, v) = {} THEN v
                         ELSE [names |-> Put(v.names, includes[n].include, mine(n, v)),
                               used |-> v.used \cup Outputs(includes[n], mine(n, v))]
           none == [names |-> <<>>, used |-> {}]
           T == {v \in NamedOK : NamedApart(includes, v)}
           N == Len(includes)
           S == [n \in 0..N |-> T]
           step == [n \in 1..N |-> [v \in T |-> next(n, v)]]
           To(g) == g = [n \in 0..N |-> IF n = 0 THEN none ELSE next(n, g[n - 1])]
<1>1. N \in Nat /\ DOMAIN includes = 1..N
  OBVIOUS
<1>2. ASSUME NEW n \in 1..N, NEW v \in T PROVE next(n, v) \in T
  <2>1. CASE free(n, v) = {}
    BY <2>1
  <2>2. CASE free(n, v) # {}
    <3>1. free(n, v) \in SUBSET Nat
      BY NamesAssumption DEF Attempts
    <3>2. Lowest(free(n, v)) \in free(n, v)
      BY <2>2, <3>1, LowestIs
    <3>3. includes[n].include.stem \in Name
      BY DEF FoundOK, Include
    <3> DEFINE x == mine(n, v)
    <3>4. x \in Name
      BY <3>2, <3>3, CandidateIs
    <3>5. (\A inc \in DOMAIN v.names : v.names[inc] # x) /\ Outputs(includes[n], x) \cap v.used = {}
      BY <3>2
    <3>6. next(n, v) = [names |-> Put(v.names, includes[n].include, x),
                        used |-> v.used \cup Outputs(includes[n], x)]
      BY <2>2
    <3> HIDE DEF next, x
    <3> QED
      BY <3>4, <3>5, <3>6, NamedNext
  <2> QED
    BY <2>1, <2>2
<1>3. none \in T
  <2>1. none.names \in [{} -> Name]
    OBVIOUS
  <2>2. none \in NamedOK
    BY <2>1 DEF NamedOK
  <2> QED
    BY <2>2 DEF NamedApart
<1> HIDE DEF next, T, none
<1>4. Advances(step, S, N) /\ none \in S[0]
  BY <1>1, <1>2, <1>3 DEF Advances
<1>5. PICK g : Stepwise(g, none, step, N) /\ \A n \in 0..N : g[n] \in S[n]
  <2> HIDE DEF S, step, N
  <2> QED
    BY <1>1, <1>4, Recursion
<1>6. To(g)
  <2>1. ASSUME NEW n \in 0..N
        PROVE  g[n] = IF n = 0 THEN none ELSE next(n, g[n - 1])
    <3>1. n # 0 => n \in 1..N /\ n - 1 \in 0..N
      BY <1>1
    <3> QED
      BY <1>5, <2>1, <3>1 DEF Stepwise
  <2>2. g = [n \in 0..N |-> g[n]]
    BY <1>5 DEF Stepwise
  <2> QED
    BY <2>1, <2>2
<1> DEFINE f == CHOOSE f : To(f)
<1>7. To(f)
  BY <1>6
<1>8. Stems(includes) = f[N].names
  BY DEF Stems, next, none
<1> HIDE DEF f
<1>9. \A n \in 0..N : f[n] \in S[n]
  <2>1. f[0] \in S[0]
    BY <1>1, <1>4, <1>7
  <2>2. ASSUME NEW n \in 1..N, f[n - 1] \in S[n - 1] PROVE f[n] \in S[n]
    <3>1. n \in 0..N /\ n # 0 /\ n - 1 \in 0..N /\ f[n] = next(n, f[n - 1])
      BY <1>1, <1>7
    <3> QED
      BY <1>2, <2>2, <3>1
  <2> HIDE DEF S, N
  <2> QED
    BY <1>1, <2>1, <2>2, Kept
<1>10. f[N] \in NamedOK /\ NamedApart(includes, f[N])
  BY <1>1, <1>9 DEF T
<1> DEFINE v == f[N]
           w == [names |-> Stems(includes), used |-> v.used]
<1>11. w = v
  BY <1>8, <1>10 DEF NamedOK
<1> QED
  BY <1>10, <1>11

-----------------------------------------------------------------------------
(* What is copied.                                                         *)

LEMMA Concatenated ==
    ASSUME NEW V, NEW a \in Seq(V), NEW b \in Seq(V)
    PROVE  a \o b \in Seq(V) /\ ToSet(a \o b) = ToSet(a) \cup ToSet(b)
<1> DEFINE c == a \o b
<1>1. /\ c \in Seq(V) /\ Len(a) \in Nat /\ Len(b) \in Nat /\ Len(c) = Len(a) + Len(b)
      /\ \A i \in 1..Len(c) : c[i] = IF i <= Len(a) THEN a[i] ELSE b[i - Len(a)]
  BY ConcatProperties
<1>2. /\ ToSet(a) = {a[i] : i \in 1..Len(a)} /\ ToSet(b) = {b[i] : i \in 1..Len(b)}
      /\ ToSet(c) = {c[i] : i \in 1..Len(c)}
  BY <1>1 DEF ToSet
<1> HIDE DEF c
<1>3. ASSUME NEW x \in ToSet(a) PROVE x \in ToSet(c)
  <2>1. PICK i \in 1..Len(a) : x = a[i]
    BY <1>2
  <2>2. i \in 1..Len(c) /\ c[i] = x
    BY <1>1, <2>1
  <2> QED
    BY <1>2, <2>2
<1>4. ASSUME NEW x \in ToSet(b) PROVE x \in ToSet(c)
  <2>1. PICK i \in 1..Len(b) : x = b[i]
    BY <1>2
  <2> DEFINE j == i + Len(a)
  <2>2. j \in 1..Len(c) /\ ~(j <= Len(a)) /\ j - Len(a) = i
    BY <1>1
  <2> HIDE DEF j
  <2>3. c[j] = x
    BY <1>1, <2>1, <2>2
  <2> QED
    BY <1>2, <2>2, <2>3
<1>5. ASSUME NEW x \in ToSet(c) PROVE x \in ToSet(a) \cup ToSet(b)
  <2>1. PICK i \in 1..Len(c) : x = c[i]
    BY <1>2
  <2>2. CASE i <= Len(a)
    <3>1. i \in 1..Len(a) /\ x = a[i]
      BY <1>1, <2>1, <2>2
    <3> QED
      BY <1>2, <3>1
  <2>3. CASE ~(i <= Len(a))
    <3>1. i - Len(a) \in 1..Len(b) /\ x = b[i - Len(a)]
      BY <1>1, <2>1, <2>3
    <3> QED
      BY <1>2, <3>1
  <2> QED
    BY <2>2, <2>3
<1> QED
  BY <1>1, <1>3, <1>4, <1>5 DEF c

LEMMA Flattened ==
    ASSUME NEW V, NEW seqs, Len(seqs) \in Nat, DOMAIN seqs = 1..Len(seqs),
           \A i \in DOMAIN seqs : seqs[i] \in Seq(V), seqs \in Seq(Seq(V))
    PROVE  /\ FlattenSeq(seqs) \in Seq(V)
           /\ \A x : x \in ToSet(FlattenSeq(seqs)) <=> \E i \in DOMAIN seqs : x \in ToSet(seqs[i])
<1> DEFINE N == Len(seqs)
           f == CHOOSE g : Flattening(g, seqs, N)
           h == [n \in 0..N |-> IF n = 0 THEN <<>> ELSE f[n]]
           T(n) == {t \in Seq(V) : ToSet(t) = UNION {ToSet(seqs[i]) : i \in 1..n}}
           S == [n \in 0..N |-> T(n)]
<1>1. Flattening(f, seqs, N)
  <2>1. \E g : Flattening(g, seqs, N)
    BY FlatteningExists
  <2> QED
    BY <2>1
<1>2. N # 0 => FlattenSeq(seqs) = f[N]
  <2> SUFFICES ASSUME Len(seqs) # 0
      PROVE  FlattenSeq(seqs) = (CHOOSE g : Flattening(g, seqs, Len(seqs)))[Len(seqs)]
    OBVIOUS
  <2> QED
    BY Zenon DEF FlattenSeq, Flattening
<1>3. N = 0 => FlattenSeq(seqs) = <<>>
  BY DEF FlattenSeq
<1> HIDE DEF f
<1>4. \A i \in 1..N : f[i] = IF i = 1 THEN seqs[i] ELSE f[i - 1] \o seqs[i]
  BY <1>1 DEF Flattening
<1>5. FlattenSeq(seqs) = h[N] /\ N \in 0..N
  BY <1>2, <1>3
<1>6. h[0] \in S[0]
  BY DEF ToSet
<1>7. ASSUME NEW n \in 1..N, h[n - 1] \in S[n - 1] PROVE h[n] \in S[n]
  <2>1. n \in 0..N /\ n - 1 \in 0..N /\ n \in DOMAIN seqs /\ 1..n = 1..(n - 1) \cup {n}
    OBVIOUS
  <2> DEFINE a == h[n - 1]
             b == seqs[n]
             c == h[n]
  <2>2. a \in Seq(V) /\ b \in Seq(V) /\ ToSet(a) = UNION {ToSet(seqs[i]) : i \in 1..(n - 1)}
    BY <1>7, <2>1
  <2>3. c = a \o b
    <3>1. CASE n = 1
      <4>1. a = <<>> /\ c = b
        BY <1>4, <2>1, <3>1
      <4> HIDE DEF a, b, c
      <4> QED
        BY <2>2, <4>1, ConcatEmptySeq
    <3>2. CASE n # 1
      <4>1. c = f[n] /\ a = f[n - 1]
        BY <2>1, <3>2
      <4> HIDE DEF a, c, h
      <4> QED
        BY <1>4, <3>2, <4>1
    <3> QED
      BY <3>1, <3>2
  <2> HIDE DEF a, b, c
  <2>6. c \in Seq(V) /\ ToSet(c) = ToSet(a) \cup ToSet(b)
    BY <2>2, <2>3, Concatenated
  <2>7. ToSet(c) = UNION {ToSet(seqs[i]) : i \in 1..n}
    BY <2>1, <2>2, <2>6 DEF b
  <2>8. c \in T(n)
    BY <2>6, <2>7
  <2> QED
    BY <2>1, <2>8 DEF c
<1> HIDE DEF h, S
<1>8. \A n \in 0..N : h[n] \in S[n]
  BY <1>6, <1>7, Kept
<1>9. h[N] \in T(N)
  BY <1>5, <1>8 DEF S
<1> QED
  BY <1>5, <1>9

\* The base of an include is like an overlay that adds nothing to its name.
Layers(found) == (IF found.base THEN {<<>>} ELSE {}) \cup ToSet(found.overlays)

CopyFor(b, found, env) ==
    [src |-> Overlay(found.include, env),
     dest |-> Target(b, b.names[found.include] \o env)]

CopyItem == [src : Include, dest : Include]

LEMMA OverlayNone ==
    ASSUME NEW inc \in Include PROVE Overlay(inc, <<>>) = inc /\ Base(inc) = inc
BY ConcatEmptySeq DEF Include, Overlay, Base, Name

LEMMA LayersAre ==
    ASSUME NEW found, FoundOK(found)
    PROVE  /\ Layers(found) \subseteq Name
           /\ \A stem \in Name : Outputs(found, stem) = {stem \o env : env \in Layers(found)}
<1>1. <<>> \in Name /\ ToSet(found.overlays) \subseteq Name
  BY DEF FoundOK, ToSet, Name
<1>2. ASSUME NEW stem \in Name PROVE stem \o <<>> = stem
  BY ConcatEmptySeq DEF Name
<1> QED
  BY <1>1, <1>2 DEF Layers, Outputs

LEMMA CopyForIs ==
    ASSUME NEW b, NEW found, FoundOK(found), b.dir \in Name, b.names[found.include] \in Name,
           NEW env \in Name
    PROVE  CopyFor(b, found, env) \in CopyItem
<1>1. \A s \in Name : s \o env \in Name
  BY DEF Name
<1> QED
  BY <1>1 DEF CopyFor, CopyItem, Target, Overlay, Include, FoundOK

LEMMA CopiesOfAre ==
    ASSUME NEW b, NEW found, FoundOK(found), b.dir \in Name, b.names[found.include] \in Name
    PROVE  /\ CopiesOf(b, found) \in Seq(CopyItem)
           /\ \A c : c \in ToSet(CopiesOf(b, found)) <=>
                 \E env \in Layers(found) : c = CopyFor(b, found, env)
<1> DEFINE stem == b.names[found.include]
           one == CopyFor(b, found, <<>>)
           base == IF found.base THEN <<one>> ELSE <<>>
           over == [e \in DOMAIN found.overlays |-> CopyFor(b, found, found.overlays[e])]
           all == base \o over
<1>1. found.overlays \in Seq(Name) /\ Layers(found) \subseteq Name /\ <<>> \in Name
  BY LayersAre DEF FoundOK, Name
<1>2. one = [src |-> Base(found.include), dest |-> Target(b, stem)]
  <2>1. Overlay(found.include, <<>>) = Base(found.include)
    BY OverlayNone DEF FoundOK
  <2>2. stem \o <<>> = stem
    BY ConcatEmptySeq DEF Name
  <2> QED
    BY <2>1, <2>2 DEF CopyFor
<1>3. CopiesOf(b, found) = all
  BY <1>2 DEF CopiesOf, CopyFor
<1>4. one \in CopyItem /\ \A env \in Layers(found) : CopyFor(b, found, env) \in CopyItem
  BY <1>1, CopyForIs
<1>5. over \in Seq(CopyItem) /\ Len(over) = Len(found.overlays)
  <2>1. /\ DOMAIN found.overlays = 1..Len(found.overlays) /\ Len(found.overlays) \in Nat
        /\ \A e \in DOMAIN found.overlays : found.overlays[e] \in Layers(found)
    BY <1>1 DEF Layers, ToSet
  <2>2. /\ \A e \in DOMAIN found.overlays : over[e] \in CopyItem
        /\ over = [e \in 1..Len(found.overlays) |-> over[e]]
    BY <1>4, <2>1
  <2> HIDE DEF over
  <2> QED
    BY <2>1, <2>2
<1>6. base \in Seq(CopyItem) /\ ToSet(base) = IF found.base THEN {one} ELSE {}
  <2> HIDE DEF one
  <2> QED
    BY <1>4 DEF ToSet
<1>7. ToSet(over) = {CopyFor(b, found, env) : env \in ToSet(found.overlays)}
  BY DEF ToSet
<1>8. all \in Seq(CopyItem) /\ ToSet(all) = ToSet(base) \cup ToSet(over)
  <2> HIDE DEF base, over
  <2> QED
    BY <1>5, <1>6, Concatenated
<1> HIDE DEF all, base, over
<1>9. ASSUME NEW c PROVE c \in ToSet(all) <=> \E env \in Layers(found) : c = CopyFor(b, found, env)
  BY <1>6, <1>7, <1>8 DEF Layers
<1> QED
  BY <1>3, <1>8, <1>9

-----------------------------------------------------------------------------
(* The plan.                                                               *)

\* One project of the plan: its includes are there once, each with its name.
BundleOK(b) ==
    /\ b.dir \in Name
    /\ Len(b.includes) \in Nat /\ DOMAIN b.includes = 1..Len(b.includes)
    /\ \A i \in DOMAIN b.includes :
          /\ FoundOK(b.includes[i])
          /\ b.includes[i].include \in DOMAIN b.names
          /\ b.names[b.includes[i].include] \in Name
    /\ \E used : NamedApart(b.includes, [names |-> b.names, used |-> used])

PlanOK(plan) ==
    /\ Len(plan) \in Nat /\ DOMAIN plan = 1..Len(plan)
    /\ \A j \in DOMAIN plan : BundleOK(plan[j])
    /\ \A j, k \in DOMAIN plan : plan[j].dir = plan[k].dir => j = k

LEMMA FoundAre ==
    ASSUME NEW inc \in Include, NEW envs \in Seq(Name \ {<<>>})
    PROVE  FoundOK(Found(inc, envs))
BY ThoseAre DEF Found, FoundOK

LEMMA DiscoveredAre ==
    ASSUME NEW includes \in Seq(Include), NEW envs \in Seq(Name \ {<<>>})
    PROVE  LET found == Discovered(includes, envs)
               once == Once(includes)
           IN
           /\ Len(found) \in Nat /\ DOMAIN found = 1..Len(found)
           /\ \A i \in DOMAIN found : FoundOK(found[i])
           /\ \A i, j \in DOMAIN found : found[i].include = found[j].include => i = j
           /\ \A i \in DOMAIN found : found[i] = Found(once[i], envs)
           /\ {found[i].include : i \in DOMAIN found} = ToSet(includes)
<1> DEFINE once == Once(includes)
           found == Discovered(includes, envs)
<1>1. once \in Seq(Include) /\ Once1(once) /\ ToSet(once) = ToSet(includes)
  BY OnceIs
<1>2. found = [i \in DOMAIN once |-> Found(once[i], envs)]
  BY DEF Discovered
<1> HIDE DEF once, found
<1>3. DOMAIN once = 1..Len(once) /\ Len(once) \in Nat
  BY <1>1
<1>4. Len(found) = Len(once) /\ DOMAIN found = 1..Len(once)
  BY <1>2, <1>3
<1>5. ASSUME NEW i \in DOMAIN found
      PROVE  FoundOK(found[i]) /\ found[i] = Found(once[i], envs) /\ found[i].include = once[i]
  <2>1. once[i] \in Include
    BY <1>1, <1>3, <1>4
  <2>2. found[i] = Found(once[i], envs)
    BY <1>2, <1>3, <1>4
  <2> QED
    BY <2>1, <2>2, FoundAre DEF Found
<1>6. \A i, j \in DOMAIN found : found[i].include = found[j].include => i = j
  BY <1>1, <1>4, <1>5 DEF Once1
<1>7. {found[i].include : i \in DOMAIN found} = ToSet(once)
  BY <1>3, <1>4, <1>5 DEF ToSet
<1> QED
  BY <1>1, <1>3, <1>4, <1>5, <1>6, <1>7 DEF once, found

LEMMA BundlesAre ==
    ASSUME NEW layout, ManifestOK(layout),
           NEW projects \in Seq(ToSet(Project) \cap DOMAIN layout.projects),
           NEW dirs \in Seq(Name), Once1(dirs), Len(dirs) = Len(projects),
           NEW envs \in Seq(Name \ {<<>>}),
           Packable(Bundles(layout, projects, dirs, envs))
    PROVE  PlanOK(Bundles(layout, projects, dirs, envs))
<1> DEFINE plan == Bundles(layout, projects, dirs, envs)
           found(j) == Discovered(layout.projects[projects[j]].includes, envs)
<1>1. DOMAIN projects = 1..Len(projects) /\ Len(projects) \in Nat
  OBVIOUS
<1>2. /\ plan = [j \in 1..Len(projects) |-> ProjectPlan(layout, projects[j], dirs[j], envs)]
      /\ Len(plan) = Len(projects) /\ DOMAIN plan = 1..Len(projects)
  BY <1>1 DEF Bundles
<1> HIDE DEF plan
<1>3. ASSUME NEW j \in DOMAIN plan
      PROVE  /\ plan[j].dir = dirs[j] /\ plan[j].includes = found(j)
             /\ plan[j].names = Stems(found(j))
  BY <1>2 DEF ProjectPlan
<1>4. ASSUME NEW j \in DOMAIN plan PROVE BundleOK(plan[j])
  <2> DEFINE f == found(j)
  <2>1. projects[j] \in DOMAIN layout.projects /\ dirs[j] \in Name
    BY <1>1, <1>2
  <2>2. layout.projects[projects[j]].includes \in Seq(Include)
    BY <2>1 DEF ManifestOK, Include, Name
  <2>3. /\ Len(f) \in Nat /\ DOMAIN f = 1..Len(f)
        /\ \A i \in DOMAIN f : FoundOK(f[i])
        /\ \A i, k \in DOMAIN f : f[i].include = f[k].include => i = k
    BY <2>2, DiscoveredAre
  <2>4. plan[j].includes = f /\ plan[j].names = Stems(f) /\ plan[j].dir = dirs[j]
    BY <1>3
  <2> HIDE DEF f
  <2>5. PICK used : [names |-> Stems(f), used |-> used] \in NamedOK
                    /\ NamedApart(f, [names |-> Stems(f), used |-> used])
    BY <2>3, StemsApart
  <2>6. \A inc \in DOMAIN Stems(f) : Stems(f)[inc] \in Name
    BY <2>5 DEF NamedOK
  <2>7. \A i \in DOMAIN f : f[i].include \in DOMAIN Stems(f)
    BY <2>4 DEF Packable, plan
  <2> QED
    BY <2>1, <2>3, <2>4, <2>5, <2>6, <2>7 DEF BundleOK
<1>5. ASSUME NEW j \in DOMAIN plan, NEW k \in DOMAIN plan, plan[j].dir = plan[k].dir PROVE j = k
  BY <1>2, <1>3, <1>5 DEF Once1
<1>6. PlanOK(plan)
  BY <1>1, <1>2, <1>4, <1>5 DEF PlanOK
<1> QED
  BY <1>6 DEF plan

LEMMA CopiesAre ==
    ASSUME NEW plan, PlanOK(plan)
    PROVE  /\ Copies(plan) \in Seq(CopyItem)
           /\ \A c : c \in ToSet(Copies(plan)) <=>
                 \E j \in DOMAIN plan : \E i \in DOMAIN plan[j].includes :
                     \E env \in Layers(plan[j].includes[i]) :
                         c = CopyFor(plan[j], plan[j].includes[i], env)
<1> DEFINE one(j) == [i \in DOMAIN plan[j].includes |-> CopiesOf(plan[j], plan[j].includes[i])]
           all == [j \in DOMAIN plan |-> FlattenSeq(one(j))]
<1>1. ASSUME NEW j \in DOMAIN plan
      PROVE  /\ FlattenSeq(one(j)) \in Seq(CopyItem)
             /\ \A c : c \in ToSet(FlattenSeq(one(j))) <=>
                   \E i \in DOMAIN plan[j].includes :
                       \E env \in Layers(plan[j].includes[i]) :
                           c = CopyFor(plan[j], plan[j].includes[i], env)
  <2> DEFINE b == plan[j]
             s == one(j)
  <2>1. BundleOK(b)
    BY DEF PlanOK
  <2>2. \A i \in DOMAIN b.includes :
           /\ CopiesOf(b, b.includes[i]) \in Seq(CopyItem)
           /\ \A c : c \in ToSet(CopiesOf(b, b.includes[i])) <=>
                 \E env \in Layers(b.includes[i]) : c = CopyFor(b, b.includes[i], env)
    BY <2>1, CopiesOfAre DEF BundleOK
  <2>3. /\ DOMAIN s = 1..Len(b.includes) /\ Len(s) = Len(b.includes) /\ Len(s) \in Nat
        /\ DOMAIN b.includes = 1..Len(b.includes)
        /\ \A i \in DOMAIN s : s[i] = CopiesOf(b, b.includes[i])
        /\ s = [i \in 1..Len(b.includes) |-> s[i]]
    BY <2>1 DEF BundleOK
  <2> HIDE DEF s, b
  <2>4. \A i \in DOMAIN s : s[i] \in Seq(CopyItem)
    BY <2>2, <2>3
  <2>5. s \in Seq(Seq(CopyItem))
    BY <2>3, <2>4
  <2>6. /\ FlattenSeq(s) \in Seq(CopyItem)
        /\ \A x : x \in ToSet(FlattenSeq(s)) <=> \E i \in DOMAIN s : x \in ToSet(s[i])
    BY <2>3, <2>4, <2>5, Flattened
  <2>7. ASSUME NEW x
        PROVE  x \in ToSet(FlattenSeq(s)) <=>
           \E i \in DOMAIN b.includes : \E env \in Layers(b.includes[i]) :
               x = CopyFor(b, b.includes[i], env)
    <3>1. DOMAIN s = DOMAIN b.includes
      BY <2>3
    <3>2. \A i \in DOMAIN b.includes : x \in ToSet(s[i]) <=>
              \E env \in Layers(b.includes[i]) : x = CopyFor(b, b.includes[i], env)
      BY <2>2, <2>3, <3>1
    <3> QED
      BY <2>6, <3>1, <3>2, Zenon
  <2> QED
    BY <2>6, <2>7 DEF s, b
<1>2. Copies(plan) = FlattenSeq(all)
  BY DEF Copies
<1>3. /\ DOMAIN all = 1..Len(plan) /\ Len(all) = Len(plan) /\ Len(all) \in Nat
      /\ DOMAIN plan = 1..Len(plan)
      /\ \A j \in DOMAIN all : all[j] = FlattenSeq(one(j))
      /\ all = [j \in 1..Len(plan) |-> all[j]]
  BY DEF PlanOK
<1> HIDE DEF one, all
<1>4. \A j \in DOMAIN all : all[j] \in Seq(CopyItem)
  BY <1>1, <1>3
<1>5. all \in Seq(Seq(CopyItem))
  BY <1>3, <1>4
<1>6. /\ FlattenSeq(all) \in Seq(CopyItem)
      /\ \A x : x \in ToSet(FlattenSeq(all)) <=> \E j \in DOMAIN all : x \in ToSet(all[j])
  BY <1>3, <1>4, <1>5, Flattened
<1>7. ASSUME NEW c
      PROVE  c \in ToSet(FlattenSeq(all)) <=>
                \E j \in DOMAIN plan : \E i \in DOMAIN plan[j].includes :
                    \E env \in Layers(plan[j].includes[i]) :
                        c = CopyFor(plan[j], plan[j].includes[i], env)
  <2>1. DOMAIN all = DOMAIN plan
    BY <1>3
  <2>2. \A j \in DOMAIN plan : c \in ToSet(all[j]) <=>
            \E i \in DOMAIN plan[j].includes : \E env \in Layers(plan[j].includes[i]) :
                c = CopyFor(plan[j], plan[j].includes[i], env)
    <3> SUFFICES ASSUME NEW j \in DOMAIN plan
        PROVE  c \in ToSet(all[j]) <=>
                  \E i \in DOMAIN plan[j].includes : \E env \in Layers(plan[j].includes[i]) :
                      c = CopyFor(plan[j], plan[j].includes[i], env)
      OBVIOUS
    <3>1. all[j] = FlattenSeq(one(j))
      BY <1>3, <2>1
    <3> QED
      BY <1>1, <3>1, Zenon
  <2> QED
    BY <1>6, <2>1, <2>2, Zenon
<1> QED
  BY <1>2, <1>6, <1>7

LEMMA Cancelled ==
    ASSUME NEW s \in Name, NEW t \in Name, NEW u \in Name, s \o t = s \o u
    PROVE  t = u
<1> DEFINE L == Len(s)
<1>1. /\ Len(s \o t) = L + Len(t) /\ Len(s \o u) = L + Len(u)
      /\ \A i \in 1..(L + Len(t)) : (s \o t)[i] = IF i <= L THEN s[i] ELSE t[i - L]
      /\ \A i \in 1..(L + Len(u)) : (s \o u)[i] = IF i <= L THEN s[i] ELSE u[i - L]
  BY ConcatProperties DEF Name
<1>2. L \in Nat /\ Len(t) \in Nat /\ Len(u) \in Nat
  BY DEF Name
<1> HIDE DEF L
<1>3. Len(t) = Len(u)
  BY <1>1, <1>2
<1>4. ASSUME NEW i \in 1..Len(t) PROVE t[i] = u[i]
  <2>1. L + i \in 1..(L + Len(t)) /\ ~(L + i <= L) /\ (L + i) - L = i
    BY <1>2
  <2> QED
    BY <1>1, <1>3, <2>1
<1>5. /\ t = [i \in 1..Len(t) |-> t[i]] /\ u = [i \in 1..Len(u) |-> u[i]]
  BY DEF Name
<1> QED
  BY <1>3, <1>4, <1>5

\* No two sources have one place in the bundle.
LEMMA CopiesApart ==
    ASSUME NEW plan, PlanOK(plan),
           NEW c \in ToSet(Copies(plan)), NEW d \in ToSet(Copies(plan)), c.dest = d.dest
    PROVE  c.src = d.src
<1>1. PICK j \in DOMAIN plan : \E i \in DOMAIN plan[j].includes :
          \E env \in Layers(plan[j].includes[i]) : c = CopyFor(plan[j], plan[j].includes[i], env)
  BY CopiesAre
<1>2. PICK k \in DOMAIN plan : \E i \in DOMAIN plan[k].includes :
          \E env \in Layers(plan[k].includes[i]) : d = CopyFor(plan[k], plan[k].includes[i], env)
  BY CopiesAre
<1>3. j = k
  <2>1. \A m, found, env : CopyFor(plan[m], found, env).dest.dir = plan[m].dir
    BY DEF CopyFor, Target
  <2>2. c.dest.dir = plan[j].dir /\ d.dest.dir = plan[k].dir
    BY <1>1, <1>2, <2>1
  <2> QED
    BY <2>2 DEF PlanOK
<1> DEFINE b == plan[j]
<1>4. BundleOK(b)
  BY DEF PlanOK
<1>5. PICK i \in DOMAIN b.includes : \E env \in Layers(b.includes[i]) :
          c = CopyFor(b, b.includes[i], env)
  BY <1>1
<1>6. PICK l \in DOMAIN b.includes : \E env \in Layers(b.includes[l]) :
          d = CopyFor(b, b.includes[l], env)
  BY <1>2, <1>3
<1> HIDE DEF b
<1>7. PICK e \in Layers(b.includes[i]) : c = CopyFor(b, b.includes[i], e)
  BY <1>5
<1>8. PICK g \in Layers(b.includes[l]) : d = CopyFor(b, b.includes[l], g)
  BY <1>6
<1> DEFINE stem(n) == b.names[b.includes[n].include]
<1>9. /\ FoundOK(b.includes[i]) /\ FoundOK(b.includes[l])
      /\ stem(i) \in Name /\ stem(l) \in Name /\ e \in Name /\ g \in Name
  BY <1>4, <1>7, <1>8, LayersAre DEF BundleOK
<1>10. stem(i) \o e = stem(l) \o g
  BY <1>7, <1>8 DEF CopyFor, Target
<1>11. i = l
  <2>0. /\ Outputs(b.includes[i], stem(i)) = {stem(i) \o env : env \in Layers(b.includes[i])}
        /\ Outputs(b.includes[l], stem(l)) = {stem(l) \o env : env \in Layers(b.includes[l])}
    BY <1>9, LayersAre
  <2>1. /\ stem(i) \o e \in Outputs(b.includes[i], stem(i))
        /\ stem(l) \o g \in Outputs(b.includes[l], stem(l))
    BY <1>7, <1>8, <2>0
  <2>2. i # l => Outputs(b.includes[i], stem(i)) \cap Outputs(b.includes[l], stem(l)) = {}
    BY <1>4 DEF BundleOK, NamedApart
  <2> QED
    BY <1>10, <2>1, <2>2
<1>12. e = g
  BY <1>9, <1>10, <1>11, Cancelled
<1> QED
  BY <1>7, <1>8, <1>11, <1>12 DEF CopyFor

-----------------------------------------------------------------------------
(* What pack knows, and what is in the bundle, at each of its steps.       *)

Later == {"rewrite", "clear", "manifest", "copy", "secrets", "done"}
FilesStill == "files" \notin touched["pack"]

PlanKnown ==
    /\ {"plan", "copies", "hasStore"} \subseteq DOMAIN packer
    /\ PlanOK(packer.plan) /\ packer.copies = Copies(packer.plan)

\* The first n files of the plan are in the bundle, as they are in the workspace.
Copied(n) ==
    /\ DOMAIN bundle.files = {packer.copies[k].dest : k \in 1..n}
    /\ FilesStill => \A k \in 1..n : LET c == packer.copies[k] IN
          c.src \in DOMAIN files /\ bundle.files[c.dest] = files[c.src]

\* The references are those of the planned files.
Scanned ==
    FilesStill => packer.refs = UNION {ReferencesOf(files[c.src]) : c \in ToSet(packer.copies)}

AtPlan ==
    /\ {"layout", "projects", "envs"} \subseteq DOMAIN packer
    /\ ManifestOK(packer.layout)
    /\ packer.projects \in Seq(ToSet(Project) \cap DOMAIN packer.layout.projects)
    /\ packer.envs \in Seq(Name \ {<<>>})

AtCopy ==
    /\ "i" \in DOMAIN packer /\ packer.i \in 1..(Len(packer.copies) + 1)
    /\ Copied(packer.i - 1) /\ bundle.store = <<>>

AtSecrets ==
    /\ Copied(Len(packer.copies)) /\ bundle.store = <<>>
    /\ "refs" \in DOMAIN packer /\ packer.hasStore /\ Scanned

AtEnd ==
    /\ Copied(Len(packer.copies))
    /\ packer.hasStore =>
          /\ {"refs", "missed"} \subseteq DOMAIN packer /\ Scanned
          /\ Stored(bundle.store) \cup packer.missed = packer.refs

BundleInv ==
    /\ packer.at = "plan" => AtPlan
    /\ packer.at \in Later => PlanKnown
    /\ packer.at = "manifest" => bundle.files = <<>> /\ bundle.store = <<>>
    /\ packer.at = "copy" => AtCopy
    /\ packer.at = "secrets" => AtSecrets
    /\ packer.at = "done" => AtEnd

-----------------------------------------------------------------------------
(* Steps.                                                                  *)

LEMMA SeqOver ==
    ASSUME NEW T, NEW t \in Seq(T), NEW U, ToSet(t) \subseteq U
    PROVE  t \in Seq(U)
<1>1. DOMAIN t = 1..Len(t) /\ Len(t) \in Nat /\ t = [i \in 1..Len(t) |-> t[i]]
  OBVIOUS
<1>2. \A i \in 1..Len(t) : t[i] \in U
  BY <1>1 DEF ToSet
<1> QED
  BY <1>1, <1>2

LEMMA ChosenAre ==
    ASSUME NEW T, NEW s \in Seq(T), NEW requested
    PROVE  Chosen(s, requested) \in Seq(T)
BY ThoseAre DEF Chosen

LEMMA DeclaredAre ==
    ASSUME NEW m
    PROVE  Declared(m) \in Seq(ToSet(Project) \cap DOMAIN m.projects)
<1>1. Project \in Seq(ToSet(Project))
  <2>1. Project \in Seq(STRING) /\ ToSet(Project) \subseteq ToSet(Project)
    BY ProjectAssumption
  <2> QED
    BY <2>1, SeqOver
<1>2. /\ Declared(m) \in Seq(ToSet(Project))
      /\ ToSet(Declared(m)) = ToSet(Project) \cap DOMAIN m.projects
  BY <1>1, ThoseAre DEF Declared
<1> QED
  BY <1>2, SeqOver

\* What a move of pack leaves of its record, and what it puts there.
LEMMA PackMoved ==
    ASSUME NEW change, PackMove(change)
    PROVE  /\ DOMAIN packer' = DOMAIN packer \cup DOMAIN change
           /\ \A x \in DOMAIN packer' :
                 packer'[x] = IF x \in DOMAIN change THEN change[x] ELSE packer[x]
BY DEF PackMove, Changed

\* A pack for which no file has changed sees the files it saw in the step before.
LEMMA FilesQuiet ==
    ASSUME DOMAIN touched = Clocks, [Next]_vars, FilesStill'
    PROVE  PackStart \/ (FilesStill /\ files' = files)
<1>1. ~Touches("files")
  BY DEF FilesStill, Touches, Clocks
<1>2. ASSUME NEW kind, Touches(kind) PROVE FilesStill
  BY <1>2 DEF FilesStill, Touches, Clocks
<1>3. CASE Edit
  BY <1>1, <1>2, <1>3 DEF Edit
<1>4. CASE SetNext \/ CreateNext
  <2>1. UNCHANGED workspace \/ Touches("files")
    BY <1>4 DEF CreateNext, CreateStart, CheckConflict, CreateWrite, CreateFails, SetNext,
       SetRead, SetWrite, SetFails
  <2> QED
    BY <1>1, <2>1 DEF workspace, FilesStill
<1>5. CASE IgnoreNext
  <2>1. files' = files /\ (UNCHANGED touched \/ Touches("ignore"))
    BY <1>5 DEF IgnoreNext, CheckIgnore, ReadIgnore, WriteIgnore, IgnoreFails, workspace
  <2> QED
    BY <1>2, <2>1 DEF FilesStill
<1>6. CASE PackNext
  <2>1. UNCHANGED workspace \/ PackStart
    BY <1>6 DEF PackNext, Plan, Rewrite, Clear, WriteManifest, Copy, Scan, CopySecrets, PackFails
  <2> QED
    BY <2>1 DEF workspace, FilesStill
<1>7. CASE ValidateNext
  <2>1. UNCHANGED workspace \/ (files' = files /\ Begins("validate"))
    BY <1>7 DEF ValidateNext, ResolveNext, DiagnoseNext, CheckSecrets, CheckPublicKeys,
       CheckKeypairs, Grade, ValidateStart
  <2> QED
    BY <2>1 DEF workspace, FilesStill, Begins, Clocks
<1>8. CASE EmitNext
  <2>1. UNCHANGED workspace \/ (files' = files /\ Begins("emit"))
    BY <1>8 DEF EmitNext, EmitExplain, EmitEntries, EmitWrite, EmitFails, EmitStart
  <2> QED
    BY <2>1 DEF workspace, FilesStill, Begins, Clocks
<1>9. CASE UNCHANGED vars \/ UNCHANGED workspace
  BY <1>9 DEF vars, workspace, FilesStill
<1> QED
  BY <1>3, <1>4, <1>5, <1>6, <1>7, <1>8, <1>9 DEF Next

LEMMA PlanStays ==
    ASSUME NEW change, PackMove(change), PlanKnown,
           {"plan", "copies", "hasStore"} \cap DOMAIN change = {}
    PROVE  PlanKnown' /\ packer'.plan = packer.plan /\ packer'.copies = packer.copies
           /\ packer'.hasStore = packer.hasStore
BY PackMoved DEF PlanKnown

LEMMA CopiedStays ==
    ASSUME NEW n, Copied(n), packer'.copies = packer.copies, bundle'.files = bundle.files,
           FilesStill' => FilesStill /\ files' = files
    PROVE  Copied(n)'
BY DEF Copied

LEMMA ScannedStays ==
    ASSUME Scanned, packer'.copies = packer.copies, packer'.refs = packer.refs,
           FilesStill' => FilesStill /\ files' = files
    PROVE  Scanned'
BY DEF Scanned, ReferencesOf, ItemsOf

LEMMA BundleInitially == Init => BundleInv
BY DEF Init, PackInit, BundleInv, Later

LEMMA StartedBundle == ASSUME FilesInv, PackStart PROVE BundleInv'
<1> DEFINE cmd == scenario.pack[1]
           envs == Chosen(manifest.environments, cmd.environments)
           projects == Chosen(Declared(manifest), cmd.projects)
<1>1. CASE packer' = [at |-> "refused", before |-> bundle]
  BY <1>1 DEF BundleInv, Later
<1>2. CASE packer' = [at |-> "plan", layout |-> manifest, before |-> bundle,
                      force |-> cmd.force, envs |-> envs, projects |-> projects]
  <2>1. ManifestOK(manifest) /\ manifest.environments \in Seq(Name \ {<<>>})
    BY DEF FilesInv, ManifestOK, Name
  <2>2. envs \in Seq(Name \ {<<>>})
    BY <2>1, ChosenAre
  <2>3. projects \in Seq(ToSet(Project) \cap DOMAIN manifest.projects)
    BY DeclaredAre, ChosenAre
  <2> HIDE DEF envs, projects, cmd
  <2>4. AtPlan'
    BY <1>2, <2>1, <2>2, <2>3 DEF AtPlan
  <2> QED
    BY <1>2, <2>4 DEF BundleInv, Later
<1> QED
  BY <1>1, <1>2, Zenon DEF PackStart

LEMMA PlannedBundle == ASSUME BundleInv, Plan PROVE BundleInv'
<1> DEFINE hasStore == store # <<>>
           dirs == ProjectDirs(packer.projects, hasStore)
           plan == Bundles(packer.layout, packer.projects, dirs, packer.envs)
<1>1. packer.at = "plan" /\ AtPlan
  BY DEF Plan, BundleInv
<1>2. CASE PackMove([at |-> "refused"])
  <2>1. packer'.at = "refused"
    BY <1>2 DEF PackMove, Changed
  <2> QED
    BY <2>1 DEF BundleInv, Later
<1>3. CASE /\ Len(dirs) = Len(packer.projects) /\ Packable(plan)
           /\ PackMove([at |-> "rewrite", hasStore |-> hasStore, plan |-> plan,
                        copies |-> Copies(plan)])
  <2>1. packer.projects \in Seq(ToSet(Project))
    BY <1>1 DEF AtPlan
  <2>2. dirs \in Seq(Name) /\ Once1(dirs)
    BY <2>1, DirsApart
  <2>3. PlanOK(plan)
    <3>1. /\ ManifestOK(packer.layout) /\ packer.envs \in Seq(Name \ {<<>>})
          /\ packer.projects \in Seq(ToSet(Project) \cap DOMAIN packer.layout.projects)
      BY <1>1 DEF AtPlan
    <3> HIDE DEF dirs
    <3> QED
      BY <1>3, <2>2, <3>1, BundlesAre
  <2> HIDE DEF dirs, plan, hasStore
  <2>4. /\ {"at", "plan", "copies", "hasStore"} \subseteq DOMAIN packer'
        /\ packer'.at = "rewrite" /\ packer'.plan = plan /\ packer'.copies = Copies(plan)
    BY <1>3 DEF PackMove, Changed
  <2>5. PlanKnown'
    BY <2>3, <2>4 DEF PlanKnown
  <2> QED
    BY <2>4, <2>5 DEF BundleInv
<1> QED
  BY <1>2, <1>3, Zenon DEF Plan

LEMMA CopiedBundle ==
    ASSUME PackInv, BundleInv, Copy, FilesStill' => FilesStill /\ files' = files
    PROVE  BundleInv'
<1> DEFINE c == packer.copies[packer.i]
           L == Len(packer.copies)
<1>1. /\ packer.at = "copy" /\ PlanKnown /\ AtCopy /\ packer.i \in DOMAIN packer.copies
      /\ UNCHANGED files
  BY DEF Copy, BundleInv, Later, workspace
<1>2. CASE UNCHANGED bundle /\ PackMove([at |-> "failed"])
  <2>1. packer'.at = "failed"
    BY <1>2 DEF PackMove, Changed
  <2> QED
    BY <2>1 DEF BundleInv, Later
<1>3. CASE /\ c.src \in DOMAIN files
           /\ bundle' = [bundle EXCEPT !.files = Put(@, c.dest, files[c.src])]
           /\ PackMove([i |-> packer.i + 1])
  <2>1. PlanKnown' /\ packer'.plan = packer.plan /\ packer'.copies = packer.copies
    BY <1>1, <1>3, PlanStays
  <2>2. packer'.at = "copy" /\ "i" \in DOMAIN packer' /\ packer'.i = packer.i + 1
    <3>1. "at" \in DOMAIN packer
      BY DEF PackInv
    <3> QED
      BY <1>1, <1>3, <3>1 DEF PackMove, Changed
  <2>3. /\ packer.copies \in Seq(CopyItem) /\ L \in Nat /\ DOMAIN packer.copies = 1..L
    BY <1>1, CopiesAre DEF PlanKnown
  <2>4. packer.i \in 1..L /\ packer.i + 1 \in 1..(L + 1) /\ (packer.i + 1) - 1 = packer.i
    BY <1>1, <2>3
  <2>5. /\ bundle'.files = Put(bundle.files, c.dest, files[c.src]) /\ bundle'.store = bundle.store
    BY <1>3 DEF PackInv
  <2>0. PICK n \in Nat : n = packer.i
    BY <2>4
  <2>6. Copied(n - 1) /\ bundle.store = <<>>
    BY <1>1, <2>0 DEF AtCopy
  <2>7. 1..n = 1..(n - 1) \cup {n} /\ 1..n \subseteq DOMAIN packer.copies
    BY <2>0, <2>3, <2>4
  <2>8. /\ DOMAIN bundle'.files = {packer.copies[k].dest : k \in 1..(n - 1)} \cup {c.dest}
        /\ \A x \in DOMAIN bundle'.files :
              bundle'.files[x] = IF x = c.dest THEN files[c.src] ELSE bundle.files[x]
    BY <2>0, <2>5, <2>6 DEF Copied, Put
  <2>9. DOMAIN bundle'.files = {packer.copies[k].dest : k \in 1..n}
    BY <2>0, <2>7, <2>8
  <2>10. ASSUME FilesStill', NEW k \in 1..n
         PROVE  /\ packer.copies[k].src \in DOMAIN files
                /\ bundle'.files[packer.copies[k].dest] = files[packer.copies[k].src]
    <3>1. FilesStill
      BY <2>10
    <3>2. CASE packer.copies[k].dest = c.dest
      <4>1. packer.copies[k] \in ToSet(Copies(packer.plan)) /\ c \in ToSet(Copies(packer.plan))
        BY <1>1, <2>0, <2>7 DEF PlanKnown, ToSet
      <4>2. packer.copies[k].src = c.src
        BY <1>1, <3>2, <4>1, CopiesApart DEF PlanKnown
      <4> QED
        BY <1>3, <2>8, <3>2, <4>2
    <3>3. CASE packer.copies[k].dest # c.dest
      <4>1. k \in 1..(n - 1)
        BY <2>0, <2>7, <3>3
      <4>2. /\ packer.copies[k].src \in DOMAIN files
            /\ bundle.files[packer.copies[k].dest] = files[packer.copies[k].src]
        BY <2>6, <3>1, <4>1 DEF Copied
      <4> QED
        BY <2>8, <3>3, <4>1, <4>2
    <3> QED
      BY <3>2, <3>3
  <2>11. Copied(n)'
    BY <1>1, <2>1, <2>9, <2>10 DEF Copied
  <2>12. AtCopy'
    BY <2>0, <2>1, <2>2, <2>4, <2>5, <2>6, <2>11 DEF AtCopy
  <2> QED
    BY <2>1, <2>2, <2>12 DEF BundleInv
<1> QED
  BY <1>2, <1>3 DEF Copy

LEMMA ScannedBundle ==
    ASSUME PackInv, BundleInv, Scan, FilesStill' => FilesStill /\ files' = files
    PROVE  BundleInv'
<1> DEFINE sources == {c.src : c \in ToSet(packer.copies)}
           L == Len(packer.copies)
<1>1. /\ packer.at = "copy" /\ PlanKnown /\ AtCopy /\ packer.i \notin DOMAIN packer.copies
      /\ bundle' = bundle /\ files' = files
  BY DEF Scan, BundleInv, Later, workspace
<1>2. packer.i - 1 = L
  <2>1. packer.copies \in Seq(CopyItem)
    BY <1>1, CopiesAre DEF PlanKnown
  <2> QED
    BY <1>1, <2>1 DEF AtCopy
<1>3. Copied(L) /\ bundle.store = <<>>
  BY <1>1, <1>2 DEF AtCopy
<1>4. CASE /\ ~packer.hasStore
           /\ PackMove([at |-> "done", refs |-> {}, missed |-> {}])
  <2>1. PlanKnown' /\ packer'.copies = packer.copies /\ packer'.hasStore = packer.hasStore
    BY <1>1, <1>4, PlanStays
  <2>2. packer'.at = "done"
    BY <1>4 DEF PackMove, Changed
  <2>3. Copied(L)'
    BY <1>1, <1>3, <2>1, CopiedStays
  <2> QED
    BY <1>4, <2>1, <2>2, <2>3 DEF BundleInv, AtEnd
<1>5. CASE PackMove([at |-> "failed"])
  <2>1. packer'.at = "failed"
    BY <1>5 DEF PackMove, Changed
  <2> QED
    BY <2>1 DEF BundleInv, Later
<1>6. CASE /\ packer.hasStore
           /\ PackMove([at |-> "secrets", refs |-> UNION {ReferencesOf(files[f]) : f \in sources}])
  <2>1. PlanKnown' /\ packer'.copies = packer.copies /\ packer'.hasStore = packer.hasStore
    BY <1>1, <1>6, PlanStays
  <2>2. /\ packer'.at = "secrets" /\ "refs" \in DOMAIN packer'
        /\ packer'.refs = UNION {ReferencesOf(files[f]) : f \in sources}
    BY <1>6 DEF PackMove, Changed
  <2>3. Copied(L)'
    BY <1>1, <1>3, <2>1, CopiedStays
  <2>4. Scanned'
    BY <1>1, <2>1, <2>2 DEF Scanned, ReferencesOf, ItemsOf
  <2> QED
    BY <1>1, <1>3, <1>6, <2>1, <2>2, <2>3, <2>4 DEF BundleInv, AtSecrets
<1> QED
  BY <1>4, <1>5, <1>6 DEF Scan

LEMMA SecretsBundle ==
    ASSUME PackInv, BundleInv, CopySecrets, FilesStill' => FilesStill /\ files' = files
    PROVE  BundleInv'
<1> DEFINE here == packer.refs \cap Stored(store)
           cells == [r \in here |-> Cells(store)[r]]
<1>1. /\ packer.at = "secrets" /\ PlanKnown /\ AtSecrets
      /\ bundle' = IF here = {} THEN bundle
                   ELSE [bundle EXCEPT !.store = <<[cells |-> cells, pub |-> <<>>]>>]
      /\ PackMove([at |-> "done", missed |-> packer.refs \ Stored(store)])
  BY DEF CopySecrets, BundleInv, Later
<1>2. PlanKnown' /\ packer'.copies = packer.copies /\ packer'.hasStore = packer.hasStore
  BY <1>1, PlanStays
<1>3. /\ packer'.at = "done" /\ {"refs", "missed"} \subseteq DOMAIN packer'
      /\ packer'.refs = packer.refs /\ packer'.missed = packer.refs \ Stored(store)
  BY <1>1 DEF AtSecrets, PackMove, Changed
<1> HIDE DEF cells
<1>4. bundle'.files = bundle.files
  BY <1>1 DEF PackInv
<1>5. Stored(bundle.store)' = here
  <2>1. CASE here = {}
    BY <1>1, <2>1 DEF AtSecrets, Stored, Cells
  <2>2. CASE here # {}
    <3>1. bundle'.store = <<[cells |-> cells, pub |-> <<>>]>>
      BY <1>1, <2>2 DEF PackInv
    <3>2. bundle'.store # <<>> /\ bundle'.store[1].cells = cells
      BY <3>1
    <3> QED
      BY <3>2 DEF Stored, Cells, cells
  <2> QED
    BY <2>1, <2>2
<1> HIDE DEF here
<1>6. Copied(Len(packer.copies))'
  BY <1>1, <1>2, <1>4, CopiedStays DEF AtSecrets
<1>7. Scanned'
  BY <1>1, <1>2, <1>3, ScannedStays DEF AtSecrets
<1>8. (Stored(bundle.store) \cup packer.missed = packer.refs)'
  BY <1>3, <1>5 DEF here
<1> QED
  BY <1>2, <1>3, <1>6, <1>7, <1>8 DEF BundleInv, AtEnd

LEMMA BundleStep ==
    ASSUME FilesInv, PackInv, BundleInv, DOMAIN touched = Clocks, [Next]_vars
    PROVE  BundleInv'
<1>1. CASE PackStart
  BY <1>1, StartedBundle
<1> SUFFICES ASSUME ~PackStart PROVE BundleInv'
  BY <1>1
<1>2. FilesStill' => FilesStill /\ files' = files
  BY FilesQuiet
<1>3. CASE UNCHANGED packVars
  <2>1. packer' = packer /\ bundle' = bundle
    BY <1>3 DEF packVars
  <2>2. ASSUME NEW n, Copied(n) PROVE Copied(n)'
    BY <1>2, <2>1, <2>2, CopiedStays
  <2>3. Scanned => Scanned'
    BY <1>2, <2>1, ScannedStays
  <2>4. (PlanKnown => PlanKnown') /\ (AtPlan => AtPlan')
    BY <2>1 DEF PlanKnown, AtPlan
  <2>5. AtCopy => AtCopy'
    BY <2>1, <2>2 DEF AtCopy
  <2>6. (AtSecrets => AtSecrets') /\ (AtEnd => AtEnd')
    BY <2>1, <2>2, <2>3 DEF AtSecrets, AtEnd, Stored, Cells
  <2> QED
    BY <2>1, <2>4, <2>5, <2>6 DEF BundleInv
<1>4. CASE Plan
  BY <1>4, PlannedBundle
<1>5. CASE Rewrite
  <2>1. PlanKnown /\ PackMove([at |-> "clear", manifest |-> Rewritten(manifest, packer.plan)])
    BY <1>5 DEF Rewrite, BundleInv, Later
  <2>2. PlanKnown'
    BY <2>1, PlanStays
  <2>3. packer'.at = "clear"
    BY <2>1 DEF PackMove, Changed
  <2> QED
    BY <2>2, <2>3 DEF BundleInv
<1>6. CASE Clear
  <2>1. PlanKnown /\ PackMove([at |-> "manifest"])
    BY <1>6 DEF Clear, BundleInv, Later
  <2>2. PlanKnown' /\ packer'.at = "manifest"
    BY <2>1, PlanStays DEF PackMove, Changed
  <2>3. bundle' = NoBundle
    BY <1>6 DEF Clear, PackInv
  <2> QED
    BY <2>2, <2>3 DEF BundleInv, NoBundle
<1>7. CASE WriteManifest
  <2>1. /\ PlanKnown /\ PackMove([at |-> "copy", i |-> 1])
        /\ bundle.files = <<>> /\ bundle.store = <<>>
        /\ bundle' = [bundle EXCEPT !.manifest = <<packer.manifest>>]
    BY <1>7 DEF WriteManifest, BundleInv, Later
  <2>2. PlanKnown' /\ packer'.copies = packer.copies
    BY <2>1, PlanStays
  <2>3. packer'.at = "copy" /\ "i" \in DOMAIN packer' /\ packer'.i = 1
    BY <2>1 DEF PackMove, Changed
  <2>4. bundle'.files = <<>> /\ bundle'.store = <<>>
    BY <2>1 DEF PackInv
  <2>5. Len(packer.copies) \in Nat
    BY <2>1, CopiesAre DEF PlanKnown
  <2>6. Copied(0)'
    BY <2>4 DEF Copied
  <2>7. AtCopy'
    BY <2>2, <2>3, <2>4, <2>5, <2>6 DEF AtCopy
  <2> QED
    BY <2>2, <2>3, <2>7 DEF BundleInv
<1>8. CASE Copy
  BY <1>2, <1>8, CopiedBundle
<1>9. CASE Scan
  BY <1>2, <1>9, ScannedBundle
<1>10. CASE CopySecrets
  BY <1>2, <1>10, SecretsBundle
<1>11. CASE PackFails
  <2>1. packer'.at = "failed"
    BY <1>11 DEF PackFails, PackMove, Changed
  <2> QED
    BY <2>1 DEF BundleInv, Later
<1> QED
  BY <1>3, <1>4, <1>5, <1>6, <1>7, <1>8, <1>9, <1>10, <1>11 DEF Next, PackNext, vars

\* Everything that holds of pack and of what it works on.
PackKnown == FilesInv /\ PackInv /\ BundleInv /\ DOMAIN touched = Clocks

LEMMA PackIsKnown == Spec => []PackKnown
<1>1. Init => PackKnown
  BY FilesInitially, PackInitially, BundleInitially DEF Init, WorkspaceInit, Clocks, PackKnown
<1>2. PackKnown /\ [Next]_vars => PackKnown'
  BY FilesStep, PackStep, BundleStep, ClocksStep DEF PackKnown
<1> QED
  BY <1>1, <1>2, PTL DEF Spec

\* What is planned has places of its own.
LEMMA PlanApart == ASSUME PlanKnown PROVE Apart
<1>1. PlanOK(packer.plan) /\ packer.copies = Copies(packer.plan)
  BY DEF PlanKnown
<1>2. \A c, d \in ToSet(packer.copies) : c.dest = d.dest => c.src = d.src
  BY <1>1, CopiesApart
<1>3. ASSUME NEW j \in DOMAIN packer.plan
      PROVE  \A inc, other \in DOMAIN packer.plan[j].names :
                packer.plan[j].names[inc] = packer.plan[j].names[other] => inc = other
  <2>1. BundleOK(packer.plan[j])
    BY <1>1 DEF PlanOK
  <2> QED
    BY <2>1 DEF BundleOK, NamedApart
<1> QED
  BY <1>1, <1>2, <1>3 DEF Apart, PlanOK

\* A finished bundle is exactly what was planned, whatever the projects, their includes
\* and their environments are called, whichever of them there are, and whatever else
\* happens: each planned file at a place of its own and nothing else, and, unless a
\* namespace file changed under the command, each secret that is referred to and no other.
THEOREM BundlesAreExact == Spec => []BundleExact
<1>1. ASSUME BundleInv, PackInv, packer.at = "done" PROVE BundleExact
  <2>1. PlanKnown /\ AtEnd /\ ~bundle.stray
    BY <1>1 DEF BundleInv, Later, PackInv
  <2>2. Apart
    BY <2>1, PlanApart
  <2>3. packer.copies \in Seq(CopyItem)
    BY <2>1, CopiesAre DEF PlanKnown
  <2>4. ToSet(packer.copies) = {packer.copies[k] : k \in 1..Len(packer.copies)}
    BY <2>3 DEF ToSet
  <2>5. DOMAIN bundle.files = {c.dest : c \in ToSet(packer.copies)}
    BY <2>1, <2>4 DEF AtEnd, Copied
  <2>6. ASSUME FilesStill, packer.hasStore
        PROVE  UNION {ReferencesOf(bundle.files[f]) : f \in DOMAIN bundle.files}
                  = Stored(bundle.store) \cup packer.missed
    <3>1. \A c \in ToSet(packer.copies) : bundle.files[c.dest] = files[c.src]
      BY <2>1, <2>4, <2>6 DEF AtEnd, Copied
    <3>2. {ReferencesOf(bundle.files[f]) : f \in DOMAIN bundle.files}
             = {ReferencesOf(files[c.src]) : c \in ToSet(packer.copies)}
      BY <2>5, <3>1
    <3>3. packer.refs = UNION {ReferencesOf(files[c.src]) : c \in ToSet(packer.copies)}
      BY <2>1, <2>6 DEF AtEnd, Scanned
    <3> QED
      BY <2>1, <2>6, <3>2, <3>3 DEF AtEnd
  <2> QED
    BY <2>1, <2>2, <2>5, <2>6 DEF BundleExact, FilesStill
<1>2. BundleInv /\ PackInv => BundleExact
  BY <1>1 DEF BundleExact
<1>3. PackKnown => BundleInv /\ PackInv
  BY DEF PackKnown
<1> QED
  BY <1>2, <1>3, PackIsKnown, PTL

-----------------------------------------------------------------------------
(* While nothing changes in the workspace, the plan is of what there is.   *)

\* One project of the plan is one of the manifest, with all of its includes, and of the
\* files there are.
ProjectFits(b, project, envs) ==
    /\ b.name = project /\ project \in DOMAIN manifest.projects
    /\ {b.includes[i].include : i \in DOMAIN b.includes}
          = ToSet(manifest.projects[project].includes)
    /\ \A i \in DOMAIN b.includes : b.includes[i] = Found(b.includes[i].include, envs)

PlanFits ==
    /\ DOMAIN packer.plan = DOMAIN packer.projects
    /\ \A j \in DOMAIN packer.plan :
          ProjectFits(packer.plan[j], packer.projects[j], packer.envs)

Fitting ==
    /\ {"projects", "envs"} \subseteq DOMAIN packer
    /\ packer.projects \in Seq(ToSet(Project)) /\ packer.envs \in Seq(Name \ {<<>>})
    /\ PlanFits /\ (packer.hasStore <=> store # <<>>)

ManifestMoved ==
    "manifest" \in DOMAIN packer /\ packer.manifest = Rewritten(manifest, packer.plan)

\* The store of the bundle has every secret that is referred to and stored, as it is.
SecretsCopied ==
    LET here == packer.refs \cap Stored(store) IN
    /\ Stored(bundle.store) = here
    /\ \A r \in here : Cells(bundle.store)[r] = Cells(store)[r]

StillOK ==
    /\ packer.at = "plan" => packer.layout = manifest
    /\ packer.at \in Later => Fitting
    /\ packer.at \in Later \ {"rewrite"} => ManifestMoved
    /\ packer.at \in {"copy", "secrets", "done"} => bundle.manifest = <<packer.manifest>>
    /\ packer.at = "done" /\ packer.hasStore => SecretsCopied
    /\ packer.at = "done" /\ ~packer.hasStore => bundle.store = <<>>

StillInv == touched["pack"] = {} => StillOK

LEMMA StillInitially == Init => StillInv
BY DEF Init, PackInit, StillInv, StillOK, Later

LEMMA FoundSame ==
    ASSUME files' = files, NEW inc, NEW envs
    PROVE  Found(inc, envs)' = Found(inc, envs)
BY DEF Found

LEMMA ProjectSame ==
    ASSUME UNCHANGED <<files, manifest>>, NEW b, NEW project, NEW envs
    PROVE  ProjectFits(b, project, envs)' = ProjectFits(b, project, envs)
<1>1. \A inc : Found(inc, envs)' = Found(inc, envs)
  BY FoundSame
<1> QED
  BY <1>1 DEF ProjectFits

LEMMA FitsSame ==
    ASSUME PlanFits, UNCHANGED <<files, manifest>>, packer'.plan = packer.plan,
           packer'.projects = packer.projects, packer'.envs = packer.envs
    PROVE  PlanFits'
BY ProjectSame DEF PlanFits

LEMMA FitsStays ==
    ASSUME Fitting, PlanKnown, NEW change, PackMove(change),
           {"projects", "envs", "plan", "hasStore", "copies"} \cap DOMAIN change = {},
           UNCHANGED <<files, manifest, store>>
    PROVE  Fitting'
<1>1. /\ packer'.plan = packer.plan /\ packer'.hasStore = packer.hasStore
  BY PlanStays
<1>2. /\ {"projects", "envs"} \subseteq DOMAIN packer'
      /\ packer'.projects = packer.projects /\ packer'.envs = packer.envs
  BY DEF PackMove, Changed, Fitting
<1>3. PlanFits'
  BY <1>1, <1>2, FitsSame DEF Fitting
<1> QED
  BY <1>1, <1>2, <1>3 DEF Fitting

LEMMA ManifestStays ==
    ASSUME ManifestMoved, PlanKnown, NEW change, PackMove(change),
           {"manifest", "plan", "hasStore", "copies"} \cap DOMAIN change = {},
           UNCHANGED manifest
    PROVE  ManifestMoved' /\ packer'.manifest = packer.manifest
<1>1. packer'.plan = packer.plan
  BY PlanStays
<1>2. "manifest" \in DOMAIN packer' /\ packer'.manifest = packer.manifest
  BY DEF PackMove, Changed, ManifestMoved
<1> QED
  BY <1>1, <1>2 DEF ManifestMoved

LEMMA PlannedFits ==
    ASSUME BundleInv, StillOK, Plan
    PROVE  StillOK'
<1> DEFINE hasStore == store # <<>>
           dirs == ProjectDirs(packer.projects, hasStore)
           plan == Bundles(packer.layout, packer.projects, dirs, packer.envs)
<1>1. packer.at = "plan" /\ AtPlan /\ packer.layout = manifest /\ UNCHANGED <<files, manifest, store>>
  BY DEF Plan, BundleInv, StillOK, workspace
<1>2. CASE PackMove([at |-> "refused"])
  <2>1. packer'.at = "refused"
    BY <1>2 DEF PackMove, Changed
  <2> QED
    BY <2>1 DEF StillOK, Later
<1>3. CASE PackMove([at |-> "rewrite", hasStore |-> hasStore, plan |-> plan,
                     copies |-> Copies(plan)])
  <2>1. DOMAIN plan = DOMAIN packer.projects
    BY DEF Bundles
  <2>2. ASSUME NEW j \in DOMAIN plan
        PROVE  ProjectFits(plan[j], packer.projects[j], packer.envs)
    <3> DEFINE p == packer.projects[j]
               found == Discovered(manifest.projects[p].includes, packer.envs)
               once == Once(manifest.projects[p].includes)
    <3>1. plan[j].name = p /\ plan[j].includes = found
      BY <1>1, <2>1 DEF Bundles, ProjectPlan
    <3>2. p \in DOMAIN manifest.projects
      BY <1>1, <2>1 DEF AtPlan
    <3>3. /\ manifest.projects[p].includes \in Seq(Include)
          /\ packer.envs \in Seq(Name \ {<<>>})
      BY <1>1, <3>2 DEF AtPlan, ManifestOK, Include, Name
    <3>4. /\ \A i \in DOMAIN found : found[i] = Found(once[i], packer.envs)
          /\ {found[i].include : i \in DOMAIN found} = ToSet(manifest.projects[p].includes)
      <4> HIDE DEF p
      <4> QED
        BY <3>3, DiscoveredAre
    <3>5. \A inc : Found(inc, packer.envs).include = inc
      BY DEF Found
    <3> HIDE DEF plan, p, found, once
    <3>6. \A i \in DOMAIN found : found[i].include = once[i]
      BY <3>4, <3>5
    <3>7. \A i \in DOMAIN found : found[i] = Found(found[i].include, packer.envs)
      BY <3>4, <3>6
    <3>8. ProjectFits(plan[j], p, packer.envs)
      BY <3>1, <3>2, <3>4, <3>7 DEF ProjectFits
    <3> QED
      BY <3>8 DEF p
  <2> HIDE DEF plan, dirs, hasStore
  <2>3. /\ {"projects", "envs"} \subseteq DOMAIN packer' /\ packer'.at = "rewrite"
        /\ packer'.projects = packer.projects /\ packer'.envs = packer.envs
        /\ packer'.plan = plan /\ packer'.hasStore = hasStore
    BY <1>1, <1>3 DEF PackMove, Changed, AtPlan
  <2>4. PlanFits'
    <3>1. ASSUME NEW j \in DOMAIN packer'.plan
          PROVE  ProjectFits(packer.plan[j], packer.projects[j], packer.envs)'
      <4>1. PICK b, project, envs :
                b = plan[j] /\ project = packer.projects[j] /\ envs = packer.envs
        OBVIOUS
      <4>2. ProjectFits(b, project, envs)
        BY <2>2, <2>3, <4>1
      <4>3. ProjectFits(b, project, envs)'
        BY <1>1, <4>2, ProjectSame
      <4> QED
        BY <2>3, <4>1, <4>3
    <3> QED
      BY <2>1, <2>3, <3>1 DEF PlanFits
  <2>5. Fitting'
    <3>1. packer.projects \in Seq(ToSet(Project)) /\ packer.envs \in Seq(Name \ {<<>>})
      BY <1>1 DEF AtPlan
    <3>2. packer'.hasStore <=> store' # <<>>
      BY <1>1, <2>3 DEF hasStore
    <3> QED
      BY <2>3, <2>4, <3>1, <3>2 DEF Fitting
  <2> QED
    BY <2>3, <2>5 DEF StillOK
<1> QED
  BY <1>2, <1>3, Zenon DEF Plan

LEMMA SecretsStill ==
    ASSUME PackInv, BundleInv, StillOK, CopySecrets
    PROVE  StillOK'
<1> DEFINE here == packer.refs \cap Stored(store)
           cells == [r \in here |-> Cells(store)[r]]
<1>1. /\ packer.at = "secrets" /\ PlanKnown /\ AtSecrets /\ Fitting /\ ManifestMoved
      /\ bundle.manifest = <<packer.manifest>> /\ UNCHANGED <<files, manifest, store>>
      /\ bundle' = IF here = {} THEN bundle
                   ELSE [bundle EXCEPT !.store = <<[cells |-> cells, pub |-> <<>>]>>]
      /\ PackMove([at |-> "done", missed |-> packer.refs \ Stored(store)])
  BY DEF CopySecrets, BundleInv, StillOK, Later, workspace
<1>2. Fitting'
  BY <1>1, FitsStays
<1>3. ManifestMoved' /\ packer'.manifest = packer.manifest
  BY <1>1, ManifestStays
<1>4. packer'.at = "done" /\ packer'.refs = packer.refs /\ packer'.hasStore = packer.hasStore
  BY <1>1 DEF PackMove, Changed, AtSecrets, PlanKnown
<1> HIDE DEF cells
<1>5. bundle'.manifest = bundle.manifest
  BY <1>1 DEF PackInv
<1>6. Stored(bundle.store)' = here /\ \A r \in here : Cells(bundle.store)'[r] = Cells(store)[r]
  <2>1. CASE here = {}
    BY <1>1, <2>1 DEF AtSecrets, Stored, Cells
  <2>2. CASE here # {}
    <3>1. bundle'.store = <<[cells |-> cells, pub |-> <<>>]>>
      BY <1>1, <2>2 DEF PackInv
    <3>2. bundle'.store # <<>> /\ bundle'.store[1].cells = cells
      BY <3>1
    <3> QED
      BY <3>2 DEF Stored, Cells, cells
  <2> QED
    BY <2>1, <2>2
<1>7. SecretsCopied'
  BY <1>1, <1>4, <1>6 DEF SecretsCopied, Stored, Cells
<1> QED
  BY <1>1, <1>2, <1>3, <1>4, <1>5, <1>7 DEF StillOK, AtSecrets

LEMMA StillStep ==
    ASSUME FilesInv, PackInv, BundleInv, StillInv, DOMAIN touched = Clocks, [Next]_vars
    PROVE  StillInv'
<1> SUFFICES ASSUME touched'["pack"] = {} PROVE StillOK'
  BY DEF StillInv
<1>1. PackStart \/ (StillOK /\ UNCHANGED <<files, manifest, store>>)
  <2>1. "pack" \in Clocks
    BY DEF Clocks
  <2> QED
    BY <2>1, QuietStep DEF StillInv
<1>2. CASE PackStart
  <2>1. CASE packer'.at = "refused"
    BY <2>1 DEF StillOK, Later
  <2>2. CASE packer'.at = "plan" /\ packer'.layout = manifest
    BY <1>2, <2>2 DEF StillOK, Later, PackStart
  <2> QED
    BY <1>2, <2>1, <2>2 DEF PackStart
<1> SUFFICES ASSUME ~PackStart PROVE StillOK'
  BY <1>2
<1>3. StillOK /\ UNCHANGED <<files, manifest, store>>
  BY <1>1
<1>4. CASE UNCHANGED packVars
  <2>1. packer' = packer /\ bundle' = bundle
    BY <1>4 DEF packVars
  <2>2. Fitting => Fitting'
    BY <1>3, <2>1, FitsSame DEF Fitting
  <2>3. (ManifestMoved => ManifestMoved') /\ (SecretsCopied => SecretsCopied')
    BY <1>3, <2>1 DEF ManifestMoved, SecretsCopied, Stored, Cells
  <2> QED
    BY <1>3, <2>1, <2>2, <2>3 DEF StillOK
<1>5. CASE Plan
  BY <1>3, <1>5, PlannedFits
<1>6. CASE Rewrite
  <2>1. PlanKnown /\ PackMove([at |-> "clear", manifest |-> Rewritten(manifest, packer.plan)])
    BY <1>6 DEF Rewrite, BundleInv, Later
  <2>2. Fitting'
    <3>1. Fitting
      BY <1>3, <1>6 DEF Rewrite, StillOK, Later
    <3> DEFINE moved == Rewritten(manifest, packer.plan)
    <3> HIDE DEF moved
    <3> QED
      BY <1>3, <2>1, <3>1, FitsStays DEF moved
  <2>3. packer'.plan = packer.plan
    BY <2>1, PlanStays
  <2>4. /\ packer'.at = "clear" /\ "manifest" \in DOMAIN packer'
        /\ packer'.manifest = Rewritten(manifest, packer.plan)
    BY <2>1 DEF PackMove, Changed
  <2>5. ManifestMoved'
    BY <1>3, <2>3, <2>4 DEF ManifestMoved
  <2> QED
    BY <2>2, <2>4, <2>5 DEF StillOK
<1>7. ASSUME packer.at \in Later \ {"rewrite"}, NEW change, PackMove(change),
             {"projects", "envs", "plan", "hasStore", "copies", "manifest"} \cap DOMAIN change = {}
      PROVE  /\ Fitting' /\ ManifestMoved' /\ packer'.manifest = packer.manifest
             /\ packer'.hasStore = packer.hasStore
  <2>1. PlanKnown /\ Fitting /\ ManifestMoved
    BY <1>3, <1>7 DEF BundleInv, StillOK
  <2> QED
    BY <1>3, <1>7, <2>1, FitsStays, ManifestStays, PlanStays
<1>8. CASE Clear
  <2>1. Fitting' /\ ManifestMoved'
    BY <1>7, <1>8 DEF Clear, Later
  <2>2. packer'.at = "manifest"
    BY <1>8 DEF Clear, PackMove, Changed
  <2> QED
    BY <2>1, <2>2 DEF StillOK
<1>9. CASE WriteManifest
  <2>1. Fitting' /\ ManifestMoved' /\ packer'.manifest = packer.manifest
    BY <1>7, <1>9 DEF WriteManifest, Later
  <2>2. packer'.at = "copy" /\ bundle'.manifest = <<packer.manifest>>
    BY <1>9 DEF WriteManifest, PackMove, Changed, PackInv
  <2> QED
    BY <2>1, <2>2 DEF StillOK
<1>10. CASE PackMove([at |-> "failed"])
  <2>1. packer'.at = "failed"
    BY <1>10 DEF PackMove, Changed
  <2> QED
    BY <2>1 DEF StillOK, Later
<1>11. CASE Copy /\ ~PackMove([at |-> "failed"])
  <2>1. packer.at = "copy" /\ PackMove([i |-> packer.i + 1])
    BY <1>11 DEF Copy
  <2>2. Fitting' /\ ManifestMoved' /\ packer'.manifest = packer.manifest
    BY <1>7, <2>1 DEF Later
  <2>3. packer'.at = "copy" /\ bundle'.manifest = bundle.manifest
    BY <1>11, <2>1 DEF Copy, PackMove, Changed, PackInv
  <2> QED
    BY <1>3, <2>1, <2>2, <2>3 DEF StillOK
<1>12. CASE Scan /\ ~PackMove([at |-> "failed"])
  <2>1. packer.at = "copy" /\ bundle' = bundle /\ AtCopy
    BY <1>12 DEF Scan, BundleInv
  <2>2. CASE ~packer.hasStore /\ PackMove([at |-> "done", refs |-> {}, missed |-> {}])
    <3>1. /\ Fitting' /\ ManifestMoved' /\ packer'.manifest = packer.manifest
          /\ packer'.hasStore = packer.hasStore
      BY <1>7, <2>1, <2>2 DEF Later
    <3>2. packer'.at = "done"
      BY <2>2 DEF PackMove, Changed
    <3> QED
      BY <1>3, <2>1, <2>2, <3>1, <3>2 DEF StillOK, AtCopy
  <2>3. CASE \E refs : PackMove([at |-> "secrets", refs |-> refs])
    <3>1. PICK refs : PackMove([at |-> "secrets", refs |-> refs])
      BY <2>3
    <3>2. Fitting' /\ ManifestMoved' /\ packer'.manifest = packer.manifest
      BY <1>7, <2>1, <3>1 DEF Later
    <3>3. packer'.at = "secrets"
      BY <3>1 DEF PackMove, Changed
    <3> QED
      BY <1>3, <2>1, <3>2, <3>3 DEF StillOK
  <2> QED
    BY <1>12, <2>2, <2>3, Zenon DEF Scan
<1>13. CASE CopySecrets
  BY <1>3, <1>13, SecretsStill
<1>14. CASE PackFails
  BY <1>10, <1>14 DEF PackFails
<1> QED
  BY <1>4, <1>5, <1>6, <1>8, <1>9, <1>10, <1>11, <1>12, <1>13, <1>14 DEF Next, PackNext, vars

-----------------------------------------------------------------------------
(* What the same files compose to under other names.                       *)

\* The file f of fs is the file g of gs: both are there, with one content, or neither is.
SameFile(fs, f, gs, g) ==
    /\ f \in DOMAIN fs <=> g \in DOMAIN gs
    /\ f \in DOMAIN fs => gs[g] = fs[f]

SameLayers(fs, inc, gs, moved, env) ==
    /\ SameFile(fs, Base(inc), gs, Base(moved))
    /\ SameFile(fs, Overlay(inc, env), gs, Overlay(moved, env))

LEMMA IntegratedValues ==
    ASSUME NEW state, NEW inc, NEW env, NEW base, NEW over
    PROVE  Integrate(state, inc, env, base, over).values
               = Over(Over(Flat(over), Flat(base)), state.values)
BY DEF Integrate

LEMMA MovedComposes ==
    ASSUME NEW fs, NEW gs, NEW includes, NEW moved, NEW N \in Nat,
           Len(includes) = N, DOMAIN includes = 1..N, Len(moved) = N, DOMAIN moved = 1..N,
           NEW env, NEW require,
           \A i \in 1..N : SameLayers(fs, includes[i], gs, moved[i], env)
    PROVE  /\ Composed(gs, moved, env, require).ok = Composed(fs, includes, env, require).ok
           /\ Composed(gs, moved, env, require).state.values
                  = Composed(fs, includes, env, require).state.values
<1> DEFINE g == CHOOSE g : Composing(g, fs, includes, env, N)
           h == CHOOSE h : Composing(h, gs, moved, env, N)
           base(i) == fs[Base(includes[i])]
           over(i) == ContentOr(fs, Overlay(includes[i], env))
           loads == \A i \in DOMAIN includes : Loads(fs, includes[i], env, require)
           loadsToo == \A i \in DOMAIN moved : Loads(gs, moved[i], env, require)
<1>1. Composing(g, fs, includes, env, N) /\ Composing(h, gs, moved, env, N)
  BY ComposingExists
<1>2. /\ Composed(fs, includes, env, require)
             = IF loads THEN [ok |-> TRUE, state |-> g[N]] ELSE [ok |-> FALSE, state |-> NoLayers]
      /\ Composed(gs, moved, env, require)
             = IF loadsToo THEN [ok |-> TRUE, state |-> h[N]]
               ELSE [ok |-> FALSE, state |-> NoLayers]
  BY DEF Composed, Composing
<1> HIDE DEF g, h
<1>3. ASSUME NEW i \in 1..N
      PROVE  /\ Loads(gs, moved[i], env, require) <=> Loads(fs, includes[i], env, require)
             /\ ContentOr(gs, Overlay(moved[i], env)) = over(i)
             /\ Base(includes[i]) \in DOMAIN fs => gs[Base(moved[i])] = base(i)
  BY DEF SameLayers, SameFile, Loads, ContentOr
<1>4. loadsToo <=> loads
  BY <1>3
<1>5. ASSUME loads PROVE h[N].values = g[N].values
  <2> DEFINE K == {k \in Nat : k <= N => h[k].values = g[k].values}
  <2>1. 0 \in K
    BY <1>1 DEF Composing
  <2>2. ASSUME NEW k \in Nat, k \in K PROVE k + 1 \in K
    <3> SUFFICES ASSUME k + 1 <= N PROVE h[k + 1].values = g[k + 1].values
      OBVIOUS
    <3>1. k + 1 \in 0..N /\ k + 1 \in 1..N /\ k + 1 # 0 /\ (k + 1) - 1 = k
      OBVIOUS
    <3>2. /\ g[k + 1] = Integrate(g[k], includes[k + 1], env, base(k + 1), over(k + 1))
          /\ h[k + 1] = Integrate(h[k], moved[k + 1], env, gs[Base(moved[k + 1])],
                                  ContentOr(gs, Overlay(moved[k + 1], env)))
      BY <1>1, <3>1 DEF Composing
    <3>3. Base(includes[k + 1]) \in DOMAIN fs
      BY <1>5, <3>1 DEF Loads
    <3>4. h[k + 1] = Integrate(h[k], moved[k + 1], env, base(k + 1), over(k + 1))
      BY <1>3, <3>1, <3>2, <3>3
    <3>5. h[k].values = g[k].values
      BY <2>2
    <3> QED
      BY <3>2, <3>4, <3>5, IntegratedValues
  <2> HIDE DEF K
  <2>3. N \in K
    BY <2>1, <2>2, SetInduction
  <2> QED
    BY <2>3 DEF K
<1> HIDE DEF loads, loadsToo
<1> QED
  BY <1>2, <1>4, <1>5

LEMMA FlatItems ==
    ASSUME NEW content, NEW k \in Keys(content)
    PROVE  k \in DOMAIN Flat(content) /\ ToSet(Flat(content)[k].items) \subseteq ItemsOf(content)
<1>1. PathOf(content, k) \in Leaves(content.nodes)
  BY DEF Keys, PathOf
<1> QED
  BY <1>1 DEF Flat, ItemsOf

\* The items of v are those of a file that one of the first n includes loads.
FromFile(v, fs, includes, env, n) ==
    \E i \in 1..n : \E f \in {Base(includes[i]), Overlay(includes[i], env)} :
        f \in DOMAIN fs /\ ToSet(v.items) \subseteq ItemsOf(fs[f])

LEMMA ComposedItems ==
    ASSUME NEW fs, NEW includes, NEW N \in Nat, Len(includes) = N, DOMAIN includes = 1..N,
           NEW env, NEW require
    PROVE  LET values == Composed(fs, includes, env, require).state.values IN
           \A k \in DOMAIN values : FromFile(values[k], fs, includes, env, N)
<1> DEFINE g == CHOOSE g : Composing(g, fs, includes, env, N)
           base(i) == fs[Base(includes[i])]
           over(i) == ContentOr(fs, Overlay(includes[i], env))
           loads == \A i \in DOMAIN includes : Loads(fs, includes[i], env, require)
           From(n) == \A k \in DOMAIN g[n].values : FromFile(g[n].values[k], fs, includes, env, n)
<1>1. Composing(g, fs, includes, env, N)
  BY ComposingExists
<1>2. Composed(fs, includes, env, require).state = IF loads THEN g[N] ELSE NoLayers
  BY DEF Composed, Composing
<1> HIDE DEF g
<1>3. g[0] = NoLayers
  BY <1>1 DEF Composing
<1>4. ASSUME loads PROVE From(N)
  <2> DEFINE K == {n \in Nat : n <= N => From(n)}
  <2>1. 0 \in K
    BY <1>3 DEF NoLayers
  <2>2. ASSUME NEW n \in Nat, n \in K PROVE n + 1 \in K
    <3> SUFFICES ASSUME n + 1 <= N PROVE From(n + 1)
      OBVIOUS
    <3> DEFINE m == n + 1
    <3>1. m \in 0..N /\ m \in 1..N /\ m # 0 /\ m - 1 = n /\ 1..n \subseteq 1..m /\ m \in 1..m
      OBVIOUS
    <3>2. g[m] = Integrate(g[n], includes[m], env, base(m), over(m))
      BY <1>1, <3>1 DEF Composing
    <3>3. g[m].values = Over(Over(Flat(over(m)), Flat(base(m))), g[n].values)
      BY <3>2, IntegratedValues
    <3>4. From(n)
      BY <2>2
    <3>5. /\ Base(includes[m]) \in DOMAIN fs
          /\ Overlay(includes[m], env) \in DOMAIN fs => over(m) = fs[Overlay(includes[m], env)]
          /\ Overlay(includes[m], env) \notin DOMAIN fs => Keys(over(m)) = {}
      BY <1>4, <3>1 DEF Loads, ContentOr, Empty, Yaml, Keys, Leaves
    <3>6. DOMAIN Flat(over(m)) = Keys(over(m)) /\ DOMAIN Flat(base(m)) = Keys(base(m))
      BY DEF Flat
    <3> HIDE DEF m, base, over
    <3>7. ASSUME NEW k \in DOMAIN g[m].values
          PROVE  FromFile(g[m].values[k], fs, includes, env, m)
      <4>1. CASE k \in Keys(over(m))
        <5>1. g[m].values[k] = Flat(over(m))[k]
          BY <3>3, <3>6, <4>1 DEF Over
        <5>2. ToSet(Flat(over(m))[k].items) \subseteq ItemsOf(over(m))
          BY <4>1, FlatItems
        <5> QED
          BY <3>1, <3>5, <4>1, <5>1, <5>2 DEF FromFile
      <4>2. CASE k \notin Keys(over(m)) /\ k \in Keys(base(m))
        <5>1. g[m].values[k] = Flat(base(m))[k]
          BY <3>3, <3>6, <4>2 DEF Over
        <5>2. ToSet(Flat(base(m))[k].items) \subseteq ItemsOf(base(m))
          BY <4>2, FlatItems
        <5> QED
          BY <3>1, <3>5, <5>1, <5>2 DEF FromFile, base
      <4>3. CASE k \notin Keys(over(m)) /\ k \notin Keys(base(m))
        <5>1. k \in DOMAIN g[n].values /\ g[m].values[k] = g[n].values[k]
          BY <3>3, <3>6, <4>3 DEF Over
        <5> QED
          BY <3>1, <3>4, <5>1 DEF FromFile
      <4> QED
        BY <4>1, <4>2, <4>3
    <3> QED
      BY <3>7 DEF m
  <2> HIDE DEF K
  <2>3. N \in K
    BY <2>1, <2>2, SetInduction
  <2> QED
    BY <2>3 DEF K
<1>5. DOMAIN NoLayers.values = {}
  BY DEF NoLayers
<1> HIDE DEF loads
<1> QED
  BY <1>2, <1>4, <1>5

-----------------------------------------------------------------------------
(* The bundle of a still workspace.                                        *)

\* No copied file has the name of a file that an include lacks: the base it has not, or
\* the overlay of a packed environment.
NoCapture ==
    \A j \in DOMAIN packer.plan : \A i \in DOMAIN packer.plan[j].includes :
        LET found == packer.plan[j].includes[i]
            stem == packer.plan[j].names[found.include]
        IN  \A lacking \in ({<<>>} \cup ToSet(packer.envs)) \ Layers(found) :
               Target(packer.plan[j], stem \o lacking)
                   \notin {c.dest : c \in ToSet(packer.copies)}

\* The layers an include was found with are those there are.
LEMMA LayersThere ==
    ASSUME NEW inc \in Include, NEW envs \in Seq(Name \ {<<>>}),
           NEW env \in {<<>>} \cup ToSet(envs)
    PROVE  env \in Layers(Found(inc, envs)) <=> Overlay(inc, env) \in DOMAIN files
<1> DEFINE there == {e \in ToSet(envs) : Overlay(inc, e) \in DOMAIN files}
<1>1. Found(inc, envs).base = (Base(inc) \in DOMAIN files)
  BY DEF Found
<1>2. Found(inc, envs).overlays = Those(envs, there)
  BY DEF Found
<1>3. ToSet(Those(envs, there)) = there
  <2> HIDE DEF there
  <2>1. ToSet(Those(envs, there)) = ToSet(envs) \cap there
    BY ThoseAre
  <2> QED
    BY <2>1 DEF there
<1>4. <<>> \notin ToSet(envs)
  BY DEF ToSet
<1>5. Overlay(inc, <<>>) = Base(inc)
  BY OverlayNone
<1> QED
  BY <1>1, <1>2, <1>3, <1>4, <1>5 DEF Layers

\* A finished bundle of a workspace in which nothing has changed.
StillDone ==
    /\ PlanKnown /\ Fitting /\ ManifestMoved /\ AtEnd /\ FilesStill /\ ManifestOK(manifest)
    /\ bundle.manifest = <<packer.manifest>>
    /\ packer.hasStore => SecretsCopied
    /\ ~packer.hasStore => bundle.store = <<>>

LEMMA OverlayOfTarget ==
    ASSUME NEW b, NEW stem, NEW env
    PROVE  Overlay(Target(b, stem), env) = Target(b, stem \o env)
<1> DEFINE r == [dir |-> b.dir, stem |-> stem]
           o == [r EXCEPT !.stem = @ \o env]
<1>1. Overlay(Target(b, stem), env) = o
  BY DEF Overlay, Target
<1>2. DOMAIN r = {"dir", "stem"} /\ r.dir = b.dir /\ r.stem = stem
  OBVIOUS
<1> HIDE DEF r
<1>3. o.dir = b.dir /\ o.stem = stem \o env /\ DOMAIN o = {"dir", "stem"}
  BY <1>2
<1>4. o = [x \in {"dir", "stem"} |-> o[x]]
  BY <1>2
<1> HIDE DEF o
<1>5. o = [dir |-> b.dir, stem |-> stem \o env]
  BY <1>3, <1>4
<1> QED
  BY <1>1, <1>5 DEF Target

LEMMA LayerMoved ==
    ASSUME StillDone, NoCapture, NEW j \in DOMAIN packer.plan,
           NEW inc \in ToSet(manifest.projects[packer.projects[j]].includes),
           NEW env \in {<<>>} \cup ToSet(packer.envs)
    PROVE  LET b == packer.plan[j]
               moved == Target(b, b.names[inc])
           IN
           /\ inc \in DOMAIN b.names
           /\ SameFile(files, Overlay(inc, env), bundle.files, Overlay(moved, env))
           /\ Overlay(inc, env) \in DOMAIN files =>
                 \E c \in ToSet(packer.copies) : c.src = Overlay(inc, env)
<1> DEFINE b == packer.plan[j]
           stem == b.names[inc]
           moved == Target(b, stem)
           L == Len(packer.copies)
<1>1. BundleOK(b) /\ ProjectFits(b, packer.projects[j], packer.envs)
  BY DEF StillDone, PlanKnown, PlanOK, Fitting, PlanFits
<1>2. PICK i \in DOMAIN b.includes : b.includes[i].include = inc
  BY <1>1 DEF ProjectFits
<1> DEFINE found == b.includes[i]
<1>3. /\ found = Found(inc, packer.envs) /\ FoundOK(found) /\ inc \in Include
      /\ inc \in DOMAIN b.names /\ stem \in Name
  BY <1>1, <1>2 DEF ProjectFits, BundleOK, FoundOK
<1>4. env \in Layers(found) <=> Overlay(inc, env) \in DOMAIN files
  <2>1. packer.envs \in Seq(Name \ {<<>>})
    BY DEF StillDone, Fitting
  <2> HIDE DEF found
  <2> QED
    BY <1>3, <2>1, LayersThere
<1>5. Overlay(moved, env) = Target(b, stem \o env)
  BY OverlayOfTarget
<1>6. /\ PlanOK(packer.plan) /\ packer.copies = Copies(packer.plan)
      /\ packer.copies \in Seq(CopyItem)
  BY CopiesAre DEF StillDone, PlanKnown
<1>7. ToSet(packer.copies) = {packer.copies[k] : k \in 1..L}
  BY <1>6 DEF ToSet
<1>8. /\ DOMAIN bundle.files = {c.dest : c \in ToSet(packer.copies)}
      /\ \A c \in ToSet(packer.copies) : bundle.files[c.dest] = files[c.src]
  BY <1>7 DEF StillDone, AtEnd, Copied
<1>9. CASE env \in Layers(found)
  <2> DEFINE c == CopyFor(b, found, env)
  <2>1. c \in ToSet(packer.copies)
    <3>1. \E k \in DOMAIN packer.plan : \E l \in DOMAIN packer.plan[k].includes :
              \E e \in Layers(packer.plan[k].includes[l]) :
                  c = CopyFor(packer.plan[k], packer.plan[k].includes[l], e)
      BY <1>9
    <3> HIDE DEF c
    <3> QED
      BY <1>6, <3>1, CopiesAre
  <2>2. c.src = Overlay(inc, env) /\ c.dest = Overlay(moved, env)
    BY <1>2, <1>5 DEF CopyFor
  <2> HIDE DEF c
  <2> QED
    BY <1>3, <1>4, <1>8, <1>9, <2>1, <2>2 DEF SameFile
<1>10. CASE env \notin Layers(found)
  <2>1. Target(b, stem \o env) \notin DOMAIN bundle.files
    BY <1>2, <1>8, <1>10 DEF NoCapture
  <2> QED
    BY <1>3, <1>4, <1>5, <1>10, <2>1 DEF SameFile
<1> QED
  BY <1>9, <1>10

\* What the bundle's manifest says of a packed project.
LEMMA ProjectMoved ==
    ASSUME StillDone, NEW p \in ToSet(packer.projects),
           \A j \in DOMAIN packer.plan :
               \A inc \in ToSet(manifest.projects[packer.projects[j]].includes) :
                   inc \in DOMAIN packer.plan[j].names
    PROVE  LET m == bundle.manifest[1] IN
           /\ p \in DOMAIN manifest.projects
           /\ m.store = NoPath /\ m.settings = manifest.settings
           /\ m.environments = manifest.environments
           /\ m.projects[p].settings = manifest.projects[p].settings
           /\ \E j \in DOMAIN packer.plan :
                 /\ packer.projects[j] = p
                 /\ m.projects[p].includes =
                       [i \in DOMAIN manifest.projects[p].includes |->
                           Target(packer.plan[j],
                                  packer.plan[j].names[manifest.projects[p].includes[i]])]
<1> DEFINE plan == packer.plan
           m == bundle.manifest[1]
           named == {plan[j].name : j \in DOMAIN plan} \cap DOMAIN manifest.projects
           chosen(q) == CHOOSE j \in DOMAIN plan : plan[j].name = q
           of(q) == plan[chosen(q)]
           moved(q, inc) == IF inc \in DOMAIN of(q).names
                            THEN [dir |-> of(q).dir, stem |-> of(q).names[inc]] ELSE inc
           entry(q) == [manifest.projects[q] EXCEPT !.includes =
                           [i \in DOMAIN @ |-> moved(q, @[i])]]
<1>1. m = Rewritten(manifest, plan)
  BY DEF StillDone, ManifestMoved
<1>2. m = [manifest EXCEPT !.store = NoPath, !.projects = [q \in named |-> entry(q)]]
  BY <1>1 DEF Rewritten
<1>3. /\ DOMAIN plan = DOMAIN packer.projects
      /\ \A j \in DOMAIN plan :
            plan[j].name = packer.projects[j] /\ plan[j].name \in DOMAIN manifest.projects
  BY DEF StillDone, Fitting, PlanFits, ProjectFits
<1>4. PICK k \in DOMAIN plan : packer.projects[k] = p
  BY <1>3 DEF StillDone, Fitting, ToSet
<1>5. p \in named /\ chosen(p) \in DOMAIN plan /\ plan[chosen(p)].name = p
  BY <1>3, <1>4
<1>6. DOMAIN manifest = {"environments", "settings", "projects", "store", "keys"}
      /\ DOMAIN manifest.projects[p] = {"settings", "includes"}
  BY <1>5 DEF StillDone, ManifestOK
<1> HIDE DEF m, named, entry
<1>7. /\ m.store = NoPath /\ m.settings = manifest.settings
      /\ m.environments = manifest.environments /\ m.projects = [q \in named |-> entry(q)]
  BY <1>2, <1>6
<1>8. m.projects[p] = entry(p)
  BY <1>5, <1>7
<1> DEFINE includes == manifest.projects[p].includes
<1>9. /\ entry(p).settings = manifest.projects[p].settings
      /\ entry(p).includes = [i \in DOMAIN includes |-> moved(p, includes[i])]
  BY <1>6 DEF entry
<1>10. ASSUME NEW i \in DOMAIN includes
       PROVE  moved(p, includes[i]) = Target(plan[chosen(p)], plan[chosen(p)].names[includes[i]])
  <2>1. includes[i] \in ToSet(manifest.projects[packer.projects[chosen(p)]].includes)
    BY <1>3, <1>5 DEF ToSet
  <2>2. includes[i] \in DOMAIN of(p).names
    BY <1>5, <2>1
  <2> QED
    BY <2>2 DEF Target
<1>11. /\ chosen(p) \in DOMAIN plan /\ packer.projects[chosen(p)] = p
       /\ m.projects[p].includes = [i \in DOMAIN includes |->
              Target(plan[chosen(p)], plan[chosen(p)].names[includes[i]])]
  <2> HIDE DEF chosen, of, moved, includes
  <2> QED
    BY <1>3, <1>5, <1>8, <1>9, <1>10
<1>12. p \in DOMAIN manifest.projects
  BY <1>5 DEF named
<1> HIDE DEF chosen
<1> QED
  BY <1>7, <1>8, <1>9, <1>11, <1>12 DEF m

\* The settings of a project are the same, but for the includes, if both layers are.
LEMMA ParamsMoved ==
    ASSUME NEW m, NEW n, NEW p, n.settings = m.settings, n.environments = m.environments,
           n.projects[p].settings = m.projects[p].settings
    PROVE  LET old == EnvmergeParams(m, p, NoSettings, NoSettings)
               new == EnvmergeParams(n, p, NoSettings, NoSettings)
           IN
           /\ [new EXCEPT !.includes = <<>>] = [old EXCEPT !.includes = <<>>]
           /\ new.require = old.require
           /\ new.includes = n.projects[p].includes /\ old.includes = m.projects[p].includes
BY DEF EnvmergeParams

\* A reference of a packed file, or any other item, resolves with the bundle's store as
\* it does with the workspace's.
LEMMA SecretsMoved ==
    ASSUME StillDone, NEW x, packer.hasStore /\ x \in Reference => x \in packer.refs
    PROVE  Resolves(x, bundle.store, scenario.held, TRUE)
               <=> Resolves(x, store, scenario.held, TRUE)
<1>1. CASE ~packer.hasStore
  <2>1. store = <<>> /\ bundle.store = <<>>
    BY <1>1 DEF StillDone, Fitting
  <2> QED
    BY <2>1 DEF Resolves
<1>2. CASE packer.hasStore
  <2>1. /\ Stored(bundle.store) = packer.refs \cap Stored(store)
        /\ \A r \in packer.refs \cap Stored(store) : Cells(bundle.store)[r] = Cells(store)[r]
    BY <1>2 DEF StillDone, SecretsCopied
  <2>2. CASE x \in Reference
    BY <1>2, <2>1, <2>2 DEF Resolves
  <2>3. CASE x \notin Reference
    BY <2>3 DEF Resolves
  <2> QED
    BY <2>2, <2>3
<1> QED
  BY <1>1, <1>2

LEMMA ViewMoved ==
    ASSUME StillDone, NoCapture,
           NEW p \in ToSet(packer.projects), NEW env \in ToSet(packer.envs)
    PROVE  View(bundle.files, bundle.manifest[1], BundleSecrets, p, env)
               = View(files, manifest, store, p, env)
<1> DEFINE m == bundle.manifest[1]
           old == EnvmergeParams(manifest, p, NoSettings, NoSettings)
           new == EnvmergeParams(m, p, NoSettings, NoSettings)
           includes == manifest.projects[p].includes
           moved == m.projects[p].includes
           N == Len(includes)
           was == Composed(files, includes, env, old.require)
           is == Composed(bundle.files, moved, env, old.require)
           items == UNION {ToSet(was.state.values[k].items) : k \in DOMAIN was.state.values}
<1>1. \A j \in DOMAIN packer.plan :
          \A inc \in ToSet(manifest.projects[packer.projects[j]].includes) :
              inc \in DOMAIN packer.plan[j].names
  BY LayerMoved
<1>2. /\ p \in DOMAIN manifest.projects
      /\ m.store = NoPath /\ m.settings = manifest.settings
      /\ m.environments = manifest.environments
      /\ m.projects[p].settings = manifest.projects[p].settings
  BY <1>1, ProjectMoved
<1>3. PICK j \in DOMAIN packer.plan :
          /\ packer.projects[j] = p
          /\ moved = [i \in DOMAIN includes |->
                         Target(packer.plan[j], packer.plan[j].names[includes[i]])]
  BY <1>1, ProjectMoved
<1>4. N \in Nat /\ DOMAIN includes = 1..N
  BY <1>2 DEF StillDone, ManifestOK
<1>5. Len(moved) = N /\ DOMAIN moved = 1..N
  <2> HIDE DEF includes, moved, N
  <2>1. DOMAIN moved = 1..N
    BY <1>3, <1>4
  <2> QED
    BY <1>4, <2>1
<1> HIDE DEF m
<1>6. ASSUME NEW i \in 1..N, NEW layer \in {<<>>} \cup ToSet(packer.envs)
      PROVE  /\ SameFile(files, Overlay(includes[i], layer),
                         bundle.files, Overlay(moved[i], layer))
             /\ Overlay(includes[i], layer) \in DOMAIN files =>
                   \E c \in ToSet(packer.copies) : c.src = Overlay(includes[i], layer)
             /\ includes[i] \in Include /\ moved[i] \in Include
  <2>1. includes[i] \in ToSet(manifest.projects[packer.projects[j]].includes)
    BY <1>3, <1>4 DEF ToSet
  <2>2. moved[i] = Target(packer.plan[j], packer.plan[j].names[includes[i]])
    BY <1>3, <1>4
  <2>3. includes[i] \in Include
    <3>1. includes \in Seq(Include)
      BY <1>2 DEF StillDone, ManifestOK, Include, Name
    <3> HIDE DEF includes
    <3> QED
      BY <1>4, <3>1
  <2>4. moved[i] \in Include
    <3>1. BundleOK(packer.plan[j]) /\ ProjectFits(packer.plan[j], p, packer.envs)
      BY <1>3 DEF StillDone, PlanKnown, PlanOK, Fitting, PlanFits
    <3>2. PICK l \in DOMAIN packer.plan[j].includes :
              packer.plan[j].includes[l].include = includes[i]
      <4>1. includes[i] \in ToSet(manifest.projects[p].includes)
        BY <1>3, <2>1
      <4>2. {packer.plan[j].includes[l].include : l \in DOMAIN packer.plan[j].includes}
                = ToSet(manifest.projects[p].includes)
        BY <3>1 DEF ProjectFits
      <4> HIDE DEF includes
      <4> QED
        BY <4>1, <4>2
    <3>3. packer.plan[j].dir \in Name /\ packer.plan[j].names[includes[i]] \in Name
      BY <3>1, <3>2 DEF BundleOK
    <3> QED
      BY <2>2, <3>3 DEF Target, Include
  <2> HIDE DEF includes, moved
  <2> QED
    BY <2>1, <2>2, <2>3, <2>4, LayerMoved
<1>7. ASSUME NEW i \in 1..N
      PROVE  /\ SameLayers(files, includes[i], bundle.files, moved[i], env)
             /\ \A f \in {Base(includes[i]), Overlay(includes[i], env)} : f \in DOMAIN files =>
                   \E c \in ToSet(packer.copies) : c.src = f
  <2>1. /\ Overlay(includes[i], <<>>) = Base(includes[i])
        /\ Overlay(moved[i], <<>>) = Base(moved[i])
    BY <1>6, OverlayNone
  <2> HIDE DEF includes, moved
  <2> QED
    BY <1>6, <2>1 DEF SameLayers
<1>8. is.ok = was.ok /\ is.state.values = was.state.values
  <2> HIDE DEF includes, moved, N, old
  <2>1. Len(includes) = N
    BY DEF N
  <2> QED
    BY <1>4, <1>5, <1>7, <2>1, MovedComposes
<1>9. /\ [new EXCEPT !.includes = <<>>] = [old EXCEPT !.includes = <<>>]
      /\ new.require = old.require /\ new.includes = moved /\ old.includes = includes
  BY <1>2, ParamsMoved
<1>10. BundleSecrets = bundle.store
  BY <1>2 DEF BundleSecrets, SecretsParams, m
<1>11. ASSUME NEW x \in items PROVE packer.hasStore /\ x \in Reference => x \in packer.refs
  <2> SUFFICES ASSUME packer.hasStore, x \in Reference PROVE x \in packer.refs
    OBVIOUS
  <2>1. PICK k \in DOMAIN was.state.values : x \in ToSet(was.state.values[k].items)
    OBVIOUS
  <2>2. FromFile(was.state.values[k], files, includes, env, N)
    <3> HIDE DEF includes, N, old
    <3>1. Len(includes) = N
      BY DEF N
    <3> QED
      BY <1>4, <3>1, ComposedItems
  <2> HIDE DEF was, includes, N
  <2>3. PICK i \in 1..N : \E f \in {Base(includes[i]), Overlay(includes[i], env)} :
            f \in DOMAIN files /\ ToSet(was.state.values[k].items) \subseteq ItemsOf(files[f])
    BY <2>2 DEF FromFile
  <2>4. PICK f \in {Base(includes[i]), Overlay(includes[i], env)} :
            f \in DOMAIN files /\ ToSet(was.state.values[k].items) \subseteq ItemsOf(files[f])
    BY <2>3
  <2>5. PICK c \in ToSet(packer.copies) : c.src = f
    BY <1>7, <2>4
  <2>6. x \in ReferencesOf(files[c.src])
    BY <2>1, <2>4, <2>5 DEF ReferencesOf
  <2>7. packer.refs = UNION {ReferencesOf(files[d.src]) : d \in ToSet(packer.copies)}
    BY DEF StillDone, AtEnd, Scanned
  <2> QED
    BY <2>5, <2>6, <2>7
<1>12. \A x \in items : Resolves(x, bundle.store, scenario.held, TRUE)
                           <=> Resolves(x, store, scenario.held, TRUE)
  <2> HIDE DEF items
  <2> QED
    BY <1>11, SecretsMoved
<1>13. View(bundle.files, m, BundleSecrets, p, env)
       = [settings |-> [new EXCEPT !.includes = <<>>], loads |-> is.ok,
          values |-> is.state.values,
          readable |-> {x \in UNION {ToSet(is.state.values[k].items) : k \in DOMAIN is.state.values} :
                           Resolves(x, bundle.store, scenario.held, TRUE)}]
  <2> HIDE DEF new, old, moved, includes
  <2>1. View(bundle.files, m, BundleSecrets, p, env)
        = LET composed == Composed(bundle.files, new.includes, env, new.require)
              values == composed.state.values
          IN  [settings |-> [new EXCEPT !.includes = <<>>], loads |-> composed.ok,
               values |-> values,
               readable |-> {x \in UNION {ToSet(values[k].items) : k \in DOMAIN values} :
                                Resolves(x, BundleSecrets, scenario.held, TRUE)}]
    BY DEF View, new
  <2> QED
    BY <1>9, <1>10, <2>1
<1>14. View(files, manifest, store, p, env)
       = [settings |-> [old EXCEPT !.includes = <<>>], loads |-> was.ok,
          values |-> was.state.values,
          readable |-> {x \in items : Resolves(x, store, scenario.held, TRUE)}]
  <2>1. old.includes = includes
    BY <1>9
  <2> QED
    BY <2>1 DEF View
<1>15. UNION {ToSet(is.state.values[k].items) : k \in DOMAIN is.state.values} = items
  BY <1>8
<1> HIDE DEF old, new, was, is, items
<1>16. {x \in items : Resolves(x, bundle.store, scenario.held, TRUE)}
          = {x \in items : Resolves(x, store, scenario.held, TRUE)}
  BY <1>12
<1> QED
  BY <1>8, <1>9, <1>13, <1>14, <1>15, <1>16 DEF m

\* There is one way only in which the bundle of a still workspace can run other than the
\* workspace does: an include that lacks a base or an overlay, and a copied file that has
\* got the name of the lacking one.  Otherwise every packed project has, in every packed
\* environment, the settings, the values and the secrets it has in the workspace
\* (doc.go), whatever they are called and whichever files there are.
THEOREM BundlesAreFaithful == Spec => [](NoCapture => BundleFaithful)
<1>1. ASSUME PackKnown, StillInv, NoCapture PROVE BundleFaithful
  <2> SUFFICES ASSUME packer.at = "done", touched.pack = {},
                      NEW p \in ToSet(packer.projects), NEW env \in ToSet(packer.envs)
               PROVE  View(bundle.files, bundle.manifest[1], BundleSecrets, p, env)
                          = View(files, manifest, store, p, env)
    BY DEF BundleFaithful
  <2>1. PlanKnown /\ AtEnd /\ ManifestOK(manifest)
    BY <1>1 DEF PackKnown, BundleInv, Later, FilesInv
  <2>2. touched["pack"] = {} /\ FilesStill
    BY DEF FilesStill
  <2>3. StillDone
    BY <1>1, <2>1, <2>2 DEF StillInv, StillOK, StillDone, Later
  <2> QED
    BY <1>1, <2>3, ViewMoved
<1>2. PackKnown /\ StillInv => (NoCapture => BundleFaithful)
  BY <1>1
<1>3. Init => StillInv
  BY StillInitially
<1>4. PackKnown /\ StillInv /\ [Next]_vars => StillInv'
  BY StillStep DEF PackKnown
<1> QED
  BY <1>2, <1>3, <1>4, PackIsKnown, PTL DEF Spec
=============================================================================
