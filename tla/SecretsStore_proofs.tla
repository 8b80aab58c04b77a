--------------------------- MODULE SecretsStore_proofs ---------------------------
(***************************************************************************)
(* SecretsStore keeps its types, the write order of keys, the authenticity *)
(* of values and a loadable file for every set of processes, groups, keys, *)
(* texts and environments, with failures and without.  The second half is  *)
(* about commands that run one at a time.                                  *)
(***************************************************************************)
EXTENDS SecretsStore, TLAPS

--------------------------------------------------------------------------------
(* The inductive invariant *)

\* A cell of slot s: its text was given for s, and its key is one of D.
CellOK(s, c, D) ==
  /\ c \in Cell
  /\ c # NoCell => c.text \in TextFor[s]
  /\ IsSealed(c) => c.under \in PairsOf(s[1]) \cap D

\* A document whose public keys are of their groups and in D, and whose cells fit.
DocOK(d, D) ==
  /\ d \in Document
  /\ \A g \in Group : d.pub[g] # NoKey => d.pub[g] \in PairsOf(g) \cap D
  /\ \A s \in Slot : CellOK(s, d.cell[s], D) /\ Storable(d.cell[s])

\* The keys staged cells may be sealed under: until its delivery, the new one too.
Sealing(r, D) == IF r.pc \in {"ignore", "loadKeys", "saveKeys"} THEN D \cup {r.new} ELSE D

\* Which command can be at which step.
Shape(r) ==
  /\ r.pc # "idle" => r.req \in Request
  /\ r.pc = "prompt" => r.req.op = "set"
  /\ r.pc = "resolve" => r.req.op \in {"get", "rotate"}
  /\ r.pc \in {"list", "ignore", "loadKeys", "saveKeys"} => r.req.op \in {"generate", "rotate"}
  /\ r.pc \in {"ignore", "loadKeys", "saveKeys"} => r.edit = "pub"
  /\ r.pc \in {"load", "save"} =>
       /\ r.edit # "none"
       /\ r.edit = "delete" => r.req.op = "delete"
       /\ r.edit = "pub" => r.req.op \in {"generate", "rotate"}

(***************************************************************************)
(* The memory of a process, when D has been delivered and G is what the    *)
(* ignore files say.  A process carries documents and cells in memory      *)
(* while others change the files: what it will write must fit whenever it  *)
(* writes, so the promise is about the copies, not the files.              *)
(***************************************************************************)
RunOK(r, D, G) ==
  /\ r \in RunState
  /\ GitAvailable /\ r.pc \in {"loadKeys", "saveKeys"} => G # "none"
  /\ r.pc = "save" /\ r.edit = "values" => \A s \in Slot : Storable(r.staged[s])
  /\ Shape(r)
  /\ DocOK(r.doc, D)
  /\ r.pc # "stage" => r.todo = {}
  /\ \A s \in r.todo : r.doc.cell[s] # NoCell
  /\ \A s \in Slot : CellOK(s, r.staged[s], Sealing(r, D))
  /\ r.pc = "prompt" => r.held \in PairsOf(r.req.group) \cap D
  /\ r.pc # "idle" /\ r.req.op \in {"generate", "rotate"} => r.new \in PairsOf(r.req.group)
  /\ r.pc \in {"load", "save"} /\ r.edit = "pub" => r.new \in D
  /\ r.answer # NoText => r.req \in Request /\ r.req.op = "get" /\ r.answer \in TextFor[Target(r.req)]

\* The files, and every process's memory.
IInv ==
  /\ DocOK(secretsFile, delivered)
  /\ keysFile \in KeyFile
  /\ ignoreRule \in IgnoreRules
  /\ minted \in [Group -> 0..MaxPairs]
  /\ delivered \subseteq KeyPair
  /\ run \in [Proc -> RunState]
  /\ \A p \in Proc : RunOK(run[p], delivered, ignoreRule)
  /\ IgnoredFirst

--------------------------------------------------------------------------------
(* Keys, cells and documents *)

\* A pair of group g is a key pair, and never the absence of one.
LEMMA PairFacts ==
  ASSUME NEW g \in Group, NEW k \in PairsOf(g)
  PROVE  k \in KeyPair /\ k # NoKey
BY NoKeyAssumption DEF KeyPair

\* Looking up a private key returns a key and where it was found.
LEMMA ResolveType ==
  ASSUME NEW env \in Environment, NEW keys \in KeyFile, NEW g \in Group
  PROVE  Resolve(env, keys, g) \in Lookup
BY DEF Resolve, Environment, KeyFile, Lookup, Origins

\* An empty cell fits every slot.
LEMMA NoCellOK ==
  ASSUME NEW s \in Slot, NEW D
  PROVE  CellOK(s, NoCell, D)
BY DEF CellOK, Cell, NoCell, IsSealed

\* An empty cell may be stored.
LEMMA NoCellStorable == Storable(NoCell)
BY DEF Storable, IsPlain

\* A plaintext of its own slot fits.
LEMMA PlainOK ==
  ASSUME NEW s \in Slot, NEW D, NEW t \in TextFor[s]
  PROVE  CellOK(s, Plain(t), D)
BY StoreAssumption DEF CellOK, Cell, Plain, IsSealed

\* A text of its own slot, sealed under a delivered pair of the group, fits.
LEMMA SealedOK ==
  ASSUME NEW s \in Slot, NEW D, NEW t \in TextFor[s], NEW k \in PairsOf(s[1]), k \in D
  PROVE  CellOK(s, Sealed(t, k), D)
<1>1. s[1] \in Group
  BY DEF Slot
<1>2. k \in KeyPair
  BY <1>1, PairFacts
<1>3. t \in Text
  BY StoreAssumption
<1> QED
  BY <1>2, <1>3 DEF CellOK, Cell, Sealed

\* What fits stays fitting when more keys are delivered.
LEMMA CellMonotone ==
  ASSUME NEW D, NEW E, D \subseteq E, NEW s, NEW c, CellOK(s, c, D)
  PROVE  CellOK(s, c, E)
BY DEF CellOK

LEMMA DocMonotone ==
  ASSUME NEW D, NEW E, D \subseteq E, NEW d, DocOK(d, D)
  PROVE  DocOK(d, E)
BY CellMonotone DEF DocOK

LEMMA RunMonotone ==
  ASSUME NEW D, NEW E, D \subseteq E, NEW G, NEW H, G # "none" => H # "none",
         NEW r, RunOK(r, D, G)
  PROVE  RunOK(r, E, H)
<1>1. DocOK(r.doc, E)
  BY DocMonotone DEF RunOK
<1>2. Sealing(r, D) \subseteq Sealing(r, E)
  BY DEF Sealing
<1>3. \A s \in Slot : CellOK(s, r.staged[s], Sealing(r, E))
  BY <1>2, CellMonotone DEF RunOK
<1> QED
  BY <1>1, <1>3 DEF RunOK

\* The empty document fits.
LEMMA NewDocOK == ASSUME NEW D PROVE DocOK(NewDoc, D)
<1>1. \A s \in Slot : NewDoc.cell[s] = NoCell
  BY DEF NewDoc, Blank
<1>2. NewDoc \in Document
  BY DEF NewDoc, Blank, Document, Cell
<1> QED
  BY <1>1, <1>2, NoCellOK, NoCellStorable DEF DocOK, NewDoc

--------------------------------------------------------------------------------
(* Steps of one process *)

\* The invariant survives a step of p when the files and p's new memory fit.
LEMMA OneProcess ==
  ASSUME IInv, NEW p \in Proc, NEW r,
         Become(p, r), RunOK(r, delivered', ignoreRule'),
         delivered \subseteq delivered', delivered' \subseteq KeyPair,
         ignoreRule # "none" => ignoreRule' # "none", IgnoredFirst',
         DocOK(secretsFile', delivered'),
         keysFile' \in KeyFile, ignoreRule' \in IgnoreRules, minted' \in [Group -> 0..MaxPairs]
  PROVE  IInv'
<1>1. r \in RunState
  BY DEF RunOK
<1>2. run' \in [Proc -> RunState]
  BY <1>1 DEF IInv, Become
<1>3. \A q \in Proc : RunOK(run'[q], delivered', ignoreRule')
  <2> TAKE q \in Proc
  <2>1. CASE q = p
    BY <2>1 DEF IInv, Become
  <2>2. CASE q # p
    <3>1. run'[q] = run[q]
      BY <2>2 DEF IInv, Become
    <3> QED
      BY <3>1, RunMonotone DEF IInv
  <2> QED
    BY <2>1, <2>2
<1> QED
  BY <1>2, <1>3 DEF IInv

\* The same for a step that changes nothing but p's memory.
LEMMA OnlyMemory ==
  ASSUME IInv, NEW p \in Proc, NEW r, Become(p, r), RunOK(r, delivered, ignoreRule),
         UNCHANGED <<secretsFile, keysFile, ignoreRule, minted, delivered>>
  PROVE  IInv'
BY OneProcess DEF IInv, IgnoredFirst

\* A process that has nothing to do fits.
LEMMA IdleOK == ASSUME NEW D, NEW G PROVE RunOK(Idle, D, G)
<1>1. Idle.env \in Envs
  BY StoreAssumption DEF Idle
<1>2. Idle \in RunState
  <2>1. NewDoc \in Document
    BY NewDocOK DEF DocOK
  <2>2. Blank \in [Slot -> Cell]
    BY DEF Blank, Cell
  <2>3. Idle.keys \in KeyFile
    BY DEF Idle, KeyFile
  <2>4. Idle.cache \in [Group -> Lookup \cup {Untried}]
    BY DEF Idle
  <2> QED
    BY <1>1, <2>1, <2>2, <2>3, <2>4 DEF Idle, RunState, Labels
<1>3. \A s \in Slot : CellOK(s, Blank[s], D)
  BY NoCellOK DEF Blank
<1>4. Shape(Idle)
  BY DEF Shape, Idle
<1> QED
  BY <1>2, <1>3, <1>4, NewDocOK DEF RunOK, Idle, Sealing

\* The initial states satisfy the invariant.
LEMMA InitIInv == Init => IInv
<1> SUFFICES ASSUME Init PROVE IInv
  OBVIOUS
<1>1. DocOK(secretsFile, delivered)
  <2>1. secretsFile.pub = NewDoc.pub
    BY DEF Init
  <2>2. \A s \in Slot : CellOK(s, secretsFile.cell[s], delivered)
    BY NoCellOK, PlainOK, StoreAssumption DEF Init, Plain, NoCell
  <2>3. secretsFile \in Document
    BY StoreAssumption DEF Init, Document, NewDoc, Cell, Plain
  <2>4. \A s \in Slot : Storable(secretsFile.cell[s])
    BY NoCellStorable DEF Init, Plain, Storable
  <2> QED
    BY <2>1, <2>2, <2>3, <2>4 DEF DocOK, NewDoc
<1>2. \A p \in Proc : RunOK(run[p], delivered, ignoreRule)
  BY IdleOK DEF Init
<1>3. run \in [Proc -> RunState]
  BY IdleOK DEF Init, RunOK
<1>4. minted \in [Group -> 0..MaxPairs]
  BY PairsAssumption DEF Init
<1>5. keysFile \in KeyFile
  BY DEF Init, KeyFile
<1>6. delivered \subseteq KeyPair /\ ignoreRule \in IgnoreRules
  BY StoreAssumption DEF Init
<1> QED
  BY <1>1, <1>2, <1>3, <1>4, <1>5, <1>6 DEF IInv, Init, IgnoredFirst

--------------------------------------------------------------------------------
(* Each action preserves the invariant *)

LEMMA BeginOK == ASSUME IInv, NEW p \in Proc, Begin(p) PROVE IInv'
<1>1. PICK r \in Request, e \in Envs :
        \/ /\ r.op \notin {"generate", "rotate"}
           /\ Become(p, [Idle EXCEPT !.pc = "lookup", !.req = r, !.env = e])
           /\ UNCHANGED minted
        \/ /\ r.op \in {"generate", "rotate"}
           /\ minted[r.group] < MaxPairs
           /\ minted' = [minted EXCEPT ![r.group] = @ + 1]
           /\ Become(p, [Idle EXCEPT !.pc = "lookup", !.req = r, !.env = e,
                                     !.new = <<r.group, minted[r.group] + 1>>])
  BY DEF Begin
<1>2. UNCHANGED <<secretsFile, keysFile, ignoreRule, delivered>>
  BY DEF Begin
<1>3. RunOK(Idle, delivered, ignoreRule)
  BY IdleOK
<1>4. CASE r.op \notin {"generate", "rotate"}
  <2> DEFINE r2 == [Idle EXCEPT !.pc = "lookup", !.req = r, !.env = e]
  <2>1. RunOK(r2, delivered, ignoreRule)
    BY <1>3, <1>4 DEF RunOK, RunState, Labels, Shape, Sealing, Idle
  <2>2. Become(p, r2) /\ UNCHANGED minted
    BY <1>1, <1>4
  <2> QED
    BY <1>2, <2>1, <2>2, OnlyMemory
<1>5. CASE r.op \in {"generate", "rotate"}
  <2> DEFINE k  == <<r.group, minted[r.group] + 1>>
             r2 == [Idle EXCEPT !.pc = "lookup", !.req = r, !.env = e, !.new = k]
  <2>1. Become(p, r2) /\ minted[r.group] < MaxPairs
        /\ minted' = [minted EXCEPT ![r.group] = @ + 1]
    BY <1>1, <1>5
  <2>2. r.group \in Group
    BY <1>5 DEF Request
  <2>3. minted[r.group] + 1 \in 1..MaxPairs /\ minted' \in [Group -> 0..MaxPairs]
    BY <2>1, <2>2, PairsAssumption DEF IInv
  <2>4. k \in PairsOf(r.group) /\ k \in KeyPair
    BY <2>2, <2>3 DEF PairsOf, KeyPair
  <2> HIDE DEF k
  <2>5. RunOK(r2, delivered, ignoreRule)
    BY <1>3, <1>5, <2>4 DEF RunOK, RunState, Labels, Shape, Sealing, Idle
  <2> QED
    BY <1>2, <2>1, <2>3, <2>5, OneProcess DEF IInv, IgnoredFirst
<1> QED
  BY <1>4, <1>5

LEMMA SetLookupOK == ASSUME IInv, NEW p \in Proc, SetLookup(p) PROVE IInv'
<1> DEFINE r == [run[p] EXCEPT !.pc = "prompt", !.held = secretsFile.pub[run[p].req.group]]
<1>1. RunOK(run[p], delivered, ignoreRule)
  BY DEF IInv
<1>2. run[p].req \in Request /\ run[p].req.group \in Group
  BY <1>1 DEF SetLookup, At, Op, RunOK, Shape, Request
<1>3. secretsFile.pub[run[p].req.group] \in PairsOf(run[p].req.group) \cap delivered
  BY <1>2 DEF IInv, DocOK, SetLookup
<1>4. secretsFile.pub[run[p].req.group] \in KeyPair
  BY <1>2, <1>3, PairFacts
<1>5. RunOK(r, delivered, ignoreRule)
  BY <1>1, <1>2, <1>3, <1>4 DEF RunOK, RunState, Labels, Shape, Sealing, SetLookup, At, Op
<1> QED
  BY <1>5, OnlyMemory DEF SetLookup

LEMMA SetPromptOK == ASSUME IInv, NEW p \in Proc, SetPrompt(p) PROVE IInv'
<1> DEFINE s == Target(run[p].req)
<1>1. PICK t \in TextFor[s] :
        Become(p, [run[p] EXCEPT !.pc = "load", !.edit = "values",
                                 !.staged[s] = Sealed(t, run[p].held)])
  BY DEF SetPrompt
<1> DEFINE r == [run[p] EXCEPT !.pc = "load", !.edit = "values",
                               !.staged[s] = Sealed(t, run[p].held)]
<1>2. RunOK(run[p], delivered, ignoreRule) /\ run[p].pc = "prompt"
  BY DEF IInv, SetPrompt, At
<1>3. run[p].req \in Request /\ run[p].req.op = "set"
  BY <1>2 DEF RunOK, Shape
<1>4. s \in Slot /\ s[1] = run[p].req.group
  BY <1>3 DEF Request, Target, Slot
<1>5. CellOK(s, Sealed(t, run[p].held), delivered)
  BY <1>2, <1>4, SealedOK DEF RunOK
<1> HIDE DEF s
<1>6. r.staged = [run[p].staged EXCEPT ![s] = Sealed(t, run[p].held)]
  BY <1>2 DEF RunOK, RunState
<1>7. run[p].staged \in [Slot -> Cell]
  BY <1>2 DEF RunOK, RunState
<1>8. \A x \in Slot : CellOK(x, r.staged[x], delivered)
  BY <1>2, <1>4, <1>5, <1>6, <1>7 DEF RunOK, Sealing
<1>9. r.staged \in [Slot -> Cell]
  BY <1>4, <1>5, <1>6, <1>7 DEF CellOK
<1>10. RunOK(r, delivered, ignoreRule)
  BY <1>2, <1>3, <1>8, <1>9 DEF RunOK, RunState, Labels, Shape, Sealing
<1> QED
  BY <1>1, <1>10, OnlyMemory DEF SetPrompt

LEMMA DeclineOK == ASSUME IInv, NEW p \in Proc, Decline(p) PROVE IInv'
BY IdleOK, OnlyMemory DEF Decline

LEMMA GetLookupOK == ASSUME IInv, NEW p \in Proc, GetLookup(p) PROVE IInv'
<1> DEFINE r == [run[p] EXCEPT !.pc = "resolve", !.doc = secretsFile]
<1>1. RunOK(run[p], delivered, ignoreRule) /\ DocOK(secretsFile, delivered)
  BY DEF IInv
<1>2. run[p].pc = "lookup" /\ run[p].req.op = "get"
  BY DEF GetLookup, At, Op
<1>3. \A s \in run[p].todo : secretsFile.cell[s] # NoCell
  BY <1>1, <1>2 DEF RunOK
<1>4. RunOK(r, delivered, ignoreRule)
  BY <1>1, <1>2, <1>3 DEF RunOK, RunState, Labels, DocOK, Shape, Sealing
<1> QED
  BY <1>4, OnlyMemory DEF GetLookup

LEMMA GetResolveOK == ASSUME IInv, NEW p \in Proc, GetResolve(p) PROVE IInv'
<1> DEFINE s == Target(run[p].req)
           c == run[p].doc.cell[s]
           r == [Idle EXCEPT !.req = run[p].req, !.answer = c.text]
<1>1. RunOK(run[p], delivered, ignoreRule) /\ run[p].pc = "resolve" /\ run[p].req.op = "get"
  BY DEF IInv, GetResolve, At, Op
<1>2. run[p].req \in Request /\ s \in Slot
  BY <1>1 DEF RunOK, Shape, Request, Target, Slot
<1>3. CellOK(s, c, delivered)
  BY <1>1, <1>2 DEF RunOK, DocOK
<1> HIDE DEF s
<1>4. c.text \in Text \cup {NoText} /\ (c.text # NoText => c.text \in TextFor[s])
  BY <1>3 DEF CellOK, Cell, NoCell
<1> HIDE DEF c
<1>5. RunOK(Idle, delivered, ignoreRule) /\ Idle.pc = "idle" /\ Idle.todo = {}
  BY IdleOK DEF Idle
<1>6. Idle \in RunState
  BY <1>5 DEF RunOK
<1>7. r \in RunState
  BY <1>2, <1>4, <1>6 DEF RunState
<1>8. r.pc = "idle" /\ r.todo = {} /\ r.req = run[p].req /\ r.answer = c.text
      /\ r.doc = Idle.doc /\ r.staged = Idle.staged
  BY <1>5, <1>6 DEF RunState
<1>9. c.text # NoText => c.text \in TextFor[Target(r.req)]
  BY <1>4, <1>8 DEF s
<1>10. RunOK(r, delivered, ignoreRule)
  BY <1>1, <1>2, <1>5, <1>7, <1>8, <1>9 DEF RunOK, Sealing, Shape
<1> QED
  BY <1>10, OnlyMemory DEF GetResolve, c, s

LEMMA DeleteLookupOK == ASSUME IInv, NEW p \in Proc, DeleteLookup(p) PROVE IInv'
<1> DEFINE r == [run[p] EXCEPT !.pc = "load", !.edit = "delete"]
<1>1. RunOK(run[p], delivered, ignoreRule) /\ run[p].pc = "lookup" /\ run[p].req.op = "delete"
  BY DEF IInv, DeleteLookup, At, Op
<1>2. RunOK(r, delivered, ignoreRule)
  BY <1>1 DEF RunOK, RunState, Labels, Shape, Sealing
<1> QED
  BY <1>2, OnlyMemory DEF DeleteLookup

\* A bulk command that has converted some entries goes on, saves, or is done.
LEMMA StagingOK ==
  ASSUME NEW D, NEW G, NEW r, RunOK([r EXCEPT !.pc = "stage"], D, G), r \in RunState,
         r.req.op \in {"encrypt", "decrypt"}
  PROVE  RunOK(Staging(r), D, G)
<1>1. CASE r.todo # {}
  BY <1>1 DEF Staging
<1>2. CASE r.todo = {} /\ r.staged = Blank
  BY <1>2, IdleOK DEF Staging
<1>3. CASE r.todo = {} /\ r.staged # Blank
  <2> DEFINE r2 == [Idle EXCEPT !.pc = "load", !.edit = "values",
                                !.req = r.req, !.env = r.env, !.staged = r.staged]
  <2>1. r.req \in Request /\ r.env \in Envs /\ r.staged \in [Slot -> Cell]
    BY DEF RunOK, RunState, Shape
  <2>2. \A s \in Slot : CellOK(s, r.staged[s], D)
    BY DEF RunOK, RunState, Sealing
  <2>3. RunOK(Idle, D, G) /\ Idle.todo = {} /\ Idle.answer = NoText
    BY IdleOK DEF Idle
  <2>4. Idle \in RunState
    BY <2>3 DEF RunOK
  <2>5. r2 \in RunState
    BY <2>1, <2>4 DEF RunState, Labels
  <2>6. r2.pc = "load" /\ r2.edit = "values" /\ r2.todo = {} /\ r2.answer = NoText
        /\ r2.req = r.req /\ r2.doc = Idle.doc /\ r2.staged = r.staged
    BY <2>3, <2>4 DEF RunState
  <2>7. RunOK(r2, D, G)
    BY <2>1, <2>2, <2>3, <2>5, <2>6 DEF RunOK, Sealing, Shape
  <2> QED
    BY <1>3, <2>7 DEF Staging
<1> QED
  BY <1>1, <1>2, <1>3

LEMMA BulkListOK == ASSUME IInv, NEW p \in Proc, BulkList(p) PROVE IInv'
<1> DEFINE wanted == {s \in Matches(run[p].req) : IsSealed(secretsFile.cell[s]) <=> Op(p) = "decrypt"}
           r      == [run[p] EXCEPT !.doc = secretsFile, !.todo = wanted]
           r2     == [r EXCEPT !.pc = "stage"]
<1>1. RunOK(run[p], delivered, ignoreRule) /\ DocOK(secretsFile, delivered)
      /\ run[p].pc = "lookup" /\ run[p].req.op \in {"encrypt", "decrypt"}
  BY DEF IInv, BulkList, At, Op
<1>2. wanted \subseteq Slot /\ \A s \in wanted : secretsFile.cell[s] # NoCell
  BY DEF Matches, Selected
<1> HIDE DEF wanted
<1>3. r \in RunState /\ r.req = run[p].req
  BY <1>1, <1>2 DEF RunOK, RunState, DocOK
<1>4. r2 \in RunState /\ r2.pc = "stage" /\ r2.doc = secretsFile /\ r2.todo = wanted
      /\ r2.req = run[p].req /\ r2.staged = run[p].staged /\ r2.answer = run[p].answer
  BY <1>1, <1>2 DEF RunOK, RunState, DocOK, Labels
<1>5. RunOK(r2, delivered, ignoreRule)
  BY <1>1, <1>2, <1>4 DEF RunOK, Shape, Sealing
<1>6. RunOK(Staging(r), delivered, ignoreRule)
  BY <1>1, <1>3, <1>5, StagingOK
<1> QED
  BY <1>6, OnlyMemory DEF BulkList, wanted

LEMMA EncryptOneOK == ASSUME IInv, NEW p \in Proc, EncryptOne(p) PROVE IInv'
<1>1. PICK s \in run[p].todo :
        /\ secretsFile.pub[s[1]] # NoKey
        /\ Become(p, Staging([run[p] EXCEPT
                       !.todo = @ \ {s},
                       !.staged[s] = Sealed(run[p].doc.cell[s].text, secretsFile.pub[s[1]])]))
  BY DEF EncryptOne
<1> DEFINE c == Sealed(run[p].doc.cell[s].text, secretsFile.pub[s[1]])
           r == [run[p] EXCEPT !.todo = @ \ {s}, !.staged[s] = c]
           r2 == [r EXCEPT !.pc = "stage"]
<1>2. RunOK(run[p], delivered, ignoreRule) /\ DocOK(secretsFile, delivered)
      /\ run[p].pc = "stage" /\ run[p].req.op = "encrypt"
  BY DEF IInv, EncryptOne, At, Op
<1>3. s \in Slot /\ run[p].doc.cell[s] # NoCell /\ s[1] \in Group
  BY <1>2 DEF RunOK, RunState, Slot
<1>4. run[p].doc.cell[s].text \in TextFor[s]
  BY <1>2, <1>3 DEF RunOK, DocOK, CellOK
<1>5. secretsFile.pub[s[1]] \in PairsOf(s[1]) \cap delivered
  BY <1>1, <1>2, <1>3 DEF DocOK
<1>6. CellOK(s, c, delivered)
  BY <1>3, <1>4, <1>5, SealedOK
<1> HIDE DEF c
<1>7. r \in RunState /\ r.req = run[p].req /\ r.todo \subseteq run[p].todo
      /\ r.staged = [run[p].staged EXCEPT ![s] = c] /\ r.doc = run[p].doc
  BY <1>2, <1>3, <1>6 DEF RunOK, RunState, CellOK
<1>8. r2 \in RunState /\ r2.pc = "stage" /\ r2.doc = run[p].doc /\ r2.todo = r.todo
      /\ r2.req = run[p].req /\ r2.staged = r.staged /\ r2.answer = run[p].answer
  BY <1>2, <1>7 DEF RunOK, RunState, Labels
<1>9. \A x \in Slot : CellOK(x, r2.staged[x], delivered)
  BY <1>2, <1>3, <1>6, <1>7, <1>8 DEF RunOK, RunState, Sealing
<1> HIDE DEF r2
<1>10. RunOK(r2, delivered, ignoreRule)
  BY <1>2, <1>7, <1>8, <1>9 DEF RunOK, Shape, Sealing
<1>11. RunOK(Staging(r), delivered, ignoreRule)
  BY <1>2, <1>7, <1>10, StagingOK DEF r2
<1> QED
  BY <1>1, <1>11, OnlyMemory DEF EncryptOne, c

LEMMA CachedKeyType ==
  ASSUME IInv, NEW p \in Proc, NEW g \in Group
  PROVE  CachedKey(p, g) \in Lookup
<1>1. run[p].cache[g] \in Lookup \cup {Untried} /\ run[p].env \in Environment
  BY StoreAssumption DEF IInv, RunState
<1> QED
  BY <1>1, ResolveType DEF CachedKey, IInv

LEMMA DecryptOneOK == ASSUME IInv, NEW p \in Proc, DecryptOne(p) PROVE IInv'
<1>1. PICK s \in run[p].todo :
        LET found == CachedKey(p, s[1])
            c     == run[p].doc.cell[s]
            next  == [run[p] EXCEPT !.todo = @ \ {s}, !.cache[s[1]] = found]
        IN  \/ Become(p, Staging(next))
            \/ Become(p, Staging([next EXCEPT !.staged[s] = Plain(c.text)]))
  BY DEF DecryptOne
<1> DEFINE found == CachedKey(p, s[1])
           c     == Plain(run[p].doc.cell[s].text)
           skip  == [run[p] EXCEPT !.todo = @ \ {s}, !.cache[s[1]] = found]
           skip2 == [skip EXCEPT !.pc = "stage"]
           r     == [skip EXCEPT !.staged[s] = c]
           r2    == [r EXCEPT !.pc = "stage"]
<1>2. RunOK(run[p], delivered, ignoreRule) /\ run[p].pc = "stage" /\ run[p].req.op = "decrypt"
  <2>1. RunOK(run[p], delivered, ignoreRule) /\ run[p].pc = "stage" /\ Op(p) = "decrypt"
    BY DEF IInv, DecryptOne, At
  <2> QED
    BY <2>1 DEF Op
<1>3. s \in Slot /\ run[p].doc.cell[s] # NoCell /\ s[1] \in Group
  BY <1>2 DEF RunOK, RunState, Slot
<1>4. run[p].doc.cell[s].text \in TextFor[s]
  BY <1>2, <1>3 DEF RunOK, DocOK, CellOK
<1>5. CellOK(s, c, delivered)
  BY <1>3, <1>4, PlainOK
<1>6. found \in Lookup
  BY <1>3, CachedKeyType
<1> HIDE DEF c, found
<1>7. skip \in RunState /\ skip.req = run[p].req /\ skip.todo \subseteq run[p].todo
      /\ skip.staged = run[p].staged /\ skip.doc = run[p].doc /\ skip.answer = run[p].answer
  BY <1>2, <1>3, <1>6 DEF RunOK, RunState
<1> HIDE DEF skip
<1>8. RunOK(Staging(skip), delivered, ignoreRule)
  <2>1. skip2 \in RunState /\ skip2.pc = "stage" /\ skip2.doc = run[p].doc
        /\ skip2.todo \subseteq run[p].todo /\ skip2.req = run[p].req
        /\ skip2.staged = run[p].staged /\ skip2.answer = run[p].answer
    BY <1>2, <1>7 DEF RunOK, RunState, Labels
  <2> HIDE DEF skip2
  <2>2. RunOK(skip2, delivered, ignoreRule)
    BY <1>2, <2>1 DEF RunOK, Shape, Sealing
  <2> QED
    BY <1>2, <1>7, <2>2, StagingOK DEF skip2
<1>9. RunOK(Staging(r), delivered, ignoreRule)
  <2>1. r \in RunState /\ r.req = run[p].req /\ r.todo = skip.todo
        /\ r.staged = [run[p].staged EXCEPT ![s] = c] /\ r.doc = run[p].doc
        /\ r.answer = run[p].answer
    BY <1>3, <1>5, <1>7 DEF RunState, CellOK
  <2>2. r2 \in RunState /\ r2.pc = "stage" /\ r2.doc = run[p].doc /\ r2.todo = r.todo
        /\ r2.req = run[p].req /\ r2.staged = r.staged /\ r2.answer = run[p].answer
    BY <2>1 DEF RunState, Labels
  <2>3. \A x \in Slot : CellOK(x, r2.staged[x], delivered)
    BY <1>2, <1>3, <1>5, <2>1, <2>2 DEF RunOK, RunState, Sealing
  <2> HIDE DEF r, r2
  <2>4. RunOK(r2, delivered, ignoreRule)
    BY <1>2, <1>7, <2>1, <2>2, <2>3 DEF RunOK, Shape, Sealing
  <2> QED
    BY <1>2, <2>1, <2>4, StagingOK DEF r, r2
<1> QED
  BY <1>1, <1>8, <1>9, OnlyMemory DEF DecryptOne, c, found, skip

LEMMA GenerateLookupOK == ASSUME IInv, NEW p \in Proc, GenerateLookup(p) PROVE IInv'
<1> DEFINE r == [run[p] EXCEPT !.pc = "ignore", !.edit = "pub"]
<1>1. RunOK(run[p], delivered, ignoreRule) /\ run[p].pc = "lookup" /\ run[p].req.op = "generate"
  BY DEF IInv, GenerateLookup, At, Op
<1>2. r \in RunState /\ r.pc = "ignore" /\ r.edit = "pub" /\ r.req = run[p].req
      /\ r.doc = run[p].doc /\ r.todo = run[p].todo /\ r.staged = run[p].staged
      /\ r.new = run[p].new /\ r.answer = run[p].answer
  BY <1>1 DEF RunOK, RunState, Labels
<1>3. \A s \in Slot : CellOK(s, r.staged[s], delivered \cup {r.new})
  BY <1>1, <1>2, CellMonotone DEF RunOK, Sealing
<1> HIDE DEF r
<1>4. RunOK(r, delivered, ignoreRule)
  BY <1>1, <1>2, <1>3 DEF RunOK, Shape, Sealing
<1> QED
  BY <1>4, OnlyMemory DEF GenerateLookup, r

LEMMA RotateLookupOK == ASSUME IInv, NEW p \in Proc, RotateLookup(p) PROVE IInv'
<1> DEFINE r == [run[p] EXCEPT !.pc = "resolve"]
<1>1. RunOK(run[p], delivered, ignoreRule) /\ run[p].pc = "lookup" /\ run[p].req.op = "rotate"
  BY DEF IInv, RotateLookup, At, Op
<1>2. RunOK(r, delivered, ignoreRule)
  BY <1>1 DEF RunOK, RunState, Labels, Shape, Sealing
<1> QED
  BY <1>2, OnlyMemory DEF RotateLookup

LEMMA RotateResolveOK == ASSUME IInv, NEW p \in Proc, RotateResolve(p) PROVE IInv'
<1> DEFINE found == Resolve(run[p].env, keysFile, run[p].req.group)
           r     == [run[p] EXCEPT !.pc = "list", !.held = found.key]
<1>1. RunOK(run[p], delivered, ignoreRule) /\ run[p].pc = "resolve" /\ run[p].req.op = "rotate"
  BY DEF IInv, RotateResolve, At, Op
<1>2. run[p].req.group \in Group
  BY <1>1 DEF RunOK, Shape, Request
<1>3. run[p].env \in Environment
  BY <1>1, StoreAssumption DEF RunOK, RunState
<1>4. found.key \in KeyPair \cup {NoKey}
  BY <1>2, <1>3, ResolveType DEF IInv, Lookup
<1> HIDE DEF found
<1>5. RunOK(r, delivered, ignoreRule)
  BY <1>1, <1>4 DEF RunOK, RunState, Labels, Shape, Sealing
<1> QED
  BY <1>5, OnlyMemory DEF RotateResolve, found

LEMMA RotateListOK == ASSUME IInv, NEW p \in Proc, RotateList(p) PROVE IInv'
<1> DEFINE g  == run[p].req.group
           st == [s \in Slot |-> IF s \in GroupCells(g)
                                 THEN Sealed(secretsFile.cell[s].text, run[p].new)
                                 ELSE NoCell]
           r  == [run[p] EXCEPT !.pc = "ignore", !.edit = "pub", !.staged = st]
<1>1. RunOK(run[p], delivered, ignoreRule) /\ DocOK(secretsFile, delivered) /\ run[p].pc = "list"
  BY DEF IInv, RotateList, At
<1>2. run[p].req \in Request /\ run[p].req.op \in {"generate", "rotate"} /\ g \in Group
      /\ run[p].new \in PairsOf(g)
  BY <1>1 DEF RunOK, Shape, Request
<1>3. \A s \in Slot : CellOK(s, st[s], delivered \cup {run[p].new})
  <2> TAKE s \in Slot
  <2>1. CASE s \in GroupCells(g)
    <3>1. secretsFile.cell[s].text \in TextFor[s] /\ s[1] = g
      BY <1>1, <2>1 DEF GroupCells, DocOK, CellOK
    <3> QED
      BY <1>2, <2>1, <3>1, SealedOK
  <2>2. CASE s \notin GroupCells(g)
    BY <2>2, NoCellOK
  <2> QED
    BY <2>1, <2>2
<1>4. st \in [Slot -> Cell]
  BY <1>3 DEF CellOK
<1> HIDE DEF st
<1>5. r \in RunState /\ r.pc = "ignore" /\ r.edit = "pub" /\ r.req = run[p].req
      /\ r.doc = run[p].doc /\ r.todo = run[p].todo /\ r.staged = st
      /\ r.new = run[p].new /\ r.answer = run[p].answer
  BY <1>1, <1>4 DEF RunOK, RunState, Labels
<1> HIDE DEF r
<1>6. RunOK(r, delivered, ignoreRule)
  BY <1>1, <1>2, <1>3, <1>5 DEF RunOK, Shape, Sealing
<1> QED
  BY <1>6, OnlyMemory DEF RotateList, r, st

LEMMA EnsureIgnoredOK == ASSUME IInv, NEW p \in Proc, EnsureIgnored(p) PROVE IInv'
<1> DEFINE r == [run[p] EXCEPT !.pc = "loadKeys"]
<1>1. RunOK(run[p], delivered, ignoreRule) /\ run[p].pc = "ignore"
  BY DEF IInv, EnsureIgnored, At
<1>2. RunOK(r, delivered, ignoreRule')
  <2>1. GitAvailable => ignoreRule' # "none"
    BY DEF EnsureIgnored
  <2> QED
    BY <1>1, <2>1 DEF RunOK, RunState, Labels, Shape, Sealing
<1>3. ignoreRule' \in IgnoreRules
  BY DEF EnsureIgnored, IInv, IgnoreRules
<1>4. UNCHANGED <<secretsFile, keysFile, minted, delivered>> /\ Become(p, r)
      /\ (ignoreRule # "none" => ignoreRule' # "none")
      /\ (GitAvailable => ignoreRule' # "none")
  BY DEF EnsureIgnored
<1>5. IgnoredFirst'
  BY <1>3, <1>4 DEF IgnoredFirst, IgnoreRules
<1> QED
  BY <1>2, <1>3, <1>4, <1>5, OneProcess DEF IInv

LEMMA LoadKeysOK == ASSUME IInv, NEW p \in Proc, LoadKeys(p) PROVE IInv'
<1> DEFINE r == [run[p] EXCEPT !.pc = "saveKeys", !.keys = keysFile]
<1>1. RunOK(run[p], delivered, ignoreRule) /\ run[p].pc = "loadKeys" /\ keysFile \in KeyFile
  BY DEF IInv, LoadKeys, At
<1>2. RunOK(r, delivered, ignoreRule)
  BY <1>1 DEF RunOK, RunState, Labels, Shape, Sealing
<1> QED
  BY <1>2, OnlyMemory DEF LoadKeys

LEMMA SaveKeysOK == ASSUME IInv, NEW p \in Proc, SaveKeys(p) PROVE IInv'
<1> DEFINE r == [run[p] EXCEPT !.pc = "load"]
           k == run[p].new
<1>1. RunOK(run[p], delivered, ignoreRule) /\ DocOK(secretsFile, delivered) /\ run[p].pc = "saveKeys"
  BY DEF IInv, SaveKeys, At
<1>2. run[p].req.op \in {"generate", "rotate"} /\ run[p].req.group \in Group
      /\ k \in PairsOf(run[p].req.group)
  BY <1>1 DEF RunOK, Shape, Request
<1>3. k \in KeyPair
  BY <1>2, PairFacts
<1>4. delivered' = delivered \cup {k} /\ Become(p, r) /\ (GitAvailable => ignoreRule # "none")
      /\ keysFile' = [run[p].keys EXCEPT ![run[p].req.group] = k]
      /\ UNCHANGED <<secretsFile, ignoreRule, minted>>
  BY <1>1 DEF SaveKeys, RunOK
<1>5. RunOK(run[p], delivered', ignoreRule')
  BY <1>1, <1>4, RunMonotone
<1>6. r \in RunState /\ r.pc = "load" /\ r.edit = run[p].edit /\ r.req = run[p].req
      /\ r.doc = run[p].doc /\ r.todo = run[p].todo /\ r.staged = run[p].staged
      /\ r.new = k /\ r.answer = run[p].answer
  BY <1>1 DEF RunOK, RunState, Labels
<1> HIDE DEF r
<1>7. \A s \in Slot : CellOK(s, r.staged[s], delivered')
  BY <1>1, <1>4, <1>6 DEF RunOK, Sealing
<1>8. RunOK(r, delivered', ignoreRule')
  BY <1>1, <1>2, <1>4, <1>5, <1>6, <1>7 DEF RunOK, Shape, Sealing
<1>9. DocOK(secretsFile', delivered')
  BY <1>1, <1>4, DocMonotone
<1>10. keysFile' \in KeyFile
  BY <1>1, <1>3, <1>4 DEF RunOK, RunState, KeyFile
<1>11. ignoreRule' \in IgnoreRules /\ ignoreRule' = ignoreRule
  BY <1>4 DEF IInv
<1>12. IgnoredFirst'
  BY <1>4, <1>11 DEF IgnoredFirst, IgnoreRules
<1> QED
  BY <1>3, <1>4, <1>8, <1>9, <1>10, <1>11, <1>12, OneProcess DEF IInv, r

LEMMA LoadOK == ASSUME IInv, NEW p \in Proc, Load(p) PROVE IInv'
<1> DEFINE r == [run[p] EXCEPT !.pc = "save", !.doc = secretsFile]
<1>1. RunOK(run[p], delivered, ignoreRule) /\ DocOK(secretsFile, delivered) /\ run[p].pc = "load"
  BY DEF IInv, Load, At
<1>2. run[p].edit = "values" => \A s \in Slot : Storable(run[p].staged[s])
  BY DEF Load, Editable
<1>3. secretsFile \in Document
  BY <1>1 DEF DocOK
<1>4. RunOK(r, delivered, ignoreRule)
  BY <1>1, <1>2, <1>3 DEF RunOK, RunState, Labels, Shape, Sealing
<1> QED
  BY <1>4, OnlyMemory DEF Load

\* What a process saves fits, however stale the document it loaded has become.
LEMMA EditedOK ==
  ASSUME NEW D, NEW G, NEW r, RunOK(r, D, G), r.pc = "save"
  PROVE  DocOK(Edited(r), D)
<1>1. r \in RunState /\ r.req \in Request /\ DocOK(r.doc, D) /\ r.doc \in Document
      /\ r.edit \in {"pub", "delete", "values"}
  BY DEF RunOK, Shape, DocOK, RunState
<1>2. CASE r.edit = "pub"
  <2>1. r.new \in D /\ r.new \in PairsOf(r.req.group) /\ r.req.group \in Group
    BY <1>1, <1>2 DEF RunOK, Shape, Request
  <2>2. r.new \in KeyPair
    BY <2>1, PairFacts
  <2>3. Edited(r) = [r.doc EXCEPT !.pub[r.req.group] = r.new]
    BY <1>2 DEF Edited
  <2> QED
    BY <1>1, <2>1, <2>2, <2>3 DEF DocOK, Document
<1>3. CASE r.edit = "delete"
  <2> DEFINE s == Target(r.req)
  <2>1. s \in Slot
    BY <1>1, <1>3 DEF RunOK, Shape, Request, Target, Slot
  <2>2. Edited(r) = [r.doc EXCEPT !.cell[s] = NoCell]
    BY <1>3 DEF Edited
  <2>3. CellOK(s, NoCell, D) /\ NoCell \in Cell /\ Storable(NoCell)
    BY <2>1, NoCellOK, NoCellStorable DEF Cell
  <2> HIDE DEF s
  <2> QED
    BY <1>1, <2>1, <2>2, <2>3 DEF DocOK, Document
<1>4. CASE r.edit = "values"
  <2> DEFINE c == [s \in Slot |-> IF r.staged[s] # NoCell THEN r.staged[s] ELSE r.doc.cell[s]]
  <2>1. Edited(r) = [r.doc EXCEPT !.cell = c]
    BY <1>4 DEF Edited
  <2>2. \A s \in Slot : CellOK(s, c[s], D) /\ Storable(c[s])
    BY <1>1, <1>4 DEF RunOK, Sealing, DocOK
  <2>3. c \in [Slot -> Cell]
    BY <2>2 DEF CellOK
  <2> HIDE DEF c
  <2> QED
    BY <1>1, <2>1, <2>2, <2>3 DEF DocOK, Document
<1> QED
  BY <1>1, <1>2, <1>3, <1>4

LEMMA SaveOK == ASSUME IInv, NEW p \in Proc, Save(p) PROVE IInv'
<1>1. RunOK(run[p], delivered, ignoreRule) /\ run[p].pc = "save"
  BY DEF IInv, Save, At
<1>2. DocOK(Edited(run[p]), delivered)
  BY <1>1, EditedOK
<1>3. RunOK(AfterSave(run[p]), delivered, ignoreRule)
  <2>1. CASE run[p].edit = "pub" /\ run[p].staged # Blank
    <3> DEFINE r == [run[p] EXCEPT !.pc = "load", !.edit = "values"]
    <3>1. r \in RunState /\ r.pc = "load" /\ r.edit = "values" /\ r.req = run[p].req
          /\ r.doc = run[p].doc /\ r.todo = run[p].todo /\ r.staged = run[p].staged
          /\ r.new = run[p].new /\ r.answer = run[p].answer
      BY <1>1 DEF RunOK, RunState, Labels
    <3> HIDE DEF r
    <3>2. RunOK(r, delivered, ignoreRule)
      BY <1>1, <3>1 DEF RunOK, Shape, Sealing
    <3> QED
      BY <2>1, <3>2 DEF AfterSave, r
  <2>2. CASE ~(run[p].edit = "pub" /\ run[p].staged # Blank)
    BY <2>2, IdleOK DEF AfterSave
  <2> QED
    BY <2>1, <2>2
<1>4. secretsFile' = Edited(run[p]) /\ Become(p, AfterSave(run[p]))
      /\ UNCHANGED <<keysFile, ignoreRule, minted, delivered>>
  BY DEF Save
<1> QED
  BY <1>2, <1>3, <1>4, OneProcess DEF IInv, IgnoredFirst

LEMMA RefuseOK == ASSUME IInv, NEW p \in Proc, Refuse(p) PROVE IInv'
BY IdleOK, OnlyMemory DEF Refuse

LEMMA AbortOK == ASSUME IInv, NEW p \in Proc, Abort(p) PROVE IInv'
BY IdleOK, OnlyMemory DEF Abort

\* A step that changes nothing keeps the invariant.
LEMMA StutterOK == ASSUME IInv, UNCHANGED vars PROVE IInv'
BY DEF IInv, vars, IgnoredFirst

LEMMA NextIInv == IInv /\ [Next]_vars => IInv'
<1> SUFFICES ASSUME IInv, [Next]_vars PROVE IInv'
  OBVIOUS
<1>1. CASE Next
  <2>1. PICK p \in Proc : Step(p)
    BY <1>1 DEF Next
  <2> QED
    BY <2>1, BeginOK, SetLookupOK, SetPromptOK, DeclineOK, GetLookupOK, GetResolveOK,
       DeleteLookupOK, BulkListOK, EncryptOneOK, DecryptOneOK, GenerateLookupOK,
       RotateLookupOK, RotateResolveOK, RotateListOK, EnsureIgnoredOK, LoadKeysOK,
       SaveKeysOK, LoadOK, SaveOK, RefuseOK, AbortOK DEF Step
<1>2. CASE UNCHANGED vars
  BY <1>2, StutterOK
<1> QED
  BY <1>1, <1>2

--------------------------------------------------------------------------------
(* Theorems *)

LEMMA Invariance == Spec => []IInv
BY InitIInv, NextIInv, PTL DEF Spec

\* Type correctness, for every instance.
THEOREM TypeCorrect == Spec => []TypeOK
<1>1. IInv => TypeOK
  BY DEF IInv, DocOK, TypeOK
<1> QED
  BY <1>1, Invariance, PTL

\* The write order: generate and rotate (service_keypair.go) publish a group's
\* public key, and anything sealed with it, only after envx.keys has accepted the
\* private half, whatever other processes do and wherever any of them stops.
THEOREM WriteOrder == Spec => []DeliveredFirst
<1>1. IInv => DeliveredFirst
  BY DEF IInv, DocOK, CellOK, DeliveredFirst
<1> QED
  BY <1>1, Invariance, PTL

\* Authenticity: bulk conversion, rotation and lost updates of the whole file
\* (filestore/repository.go) never put a value under a group and key it was not
\* given for, and get never prints one.
THEOREM Authenticity == Spec => []ValuesAuthentic
<1>1. IInv => ValuesAuthentic
  BY DEF IInv, DocOK, CellOK, RunOK, ValuesAuthentic
<1> QED
  BY <1>1, Invariance, PTL

\* Where Git can be asked, envx.keys is ignored (git/ignore.go) before any private key is
\* in it, also when another process wrote the rule and died before the keys; all but for a
\* rule that was there and is negated by a later line, which EnsureIgnored accepts.
THEOREM IgnoreRuleFirst == Spec => []IgnoredFirst
<1>1. IInv => IgnoredFirst
  BY DEF IInv
<1> QED
  BY <1>1, Invariance, PTL

\* No command leaves a secrets file that the next load (document_secrets.go,
\* validateSecrets) rejects because a plaintext claims to be an envelope.
THEOREM Loadable == Spec => []AlwaysLoadable
<1>1. IInv => AlwaysLoadable
  BY DEF IInv, DocOK, AlwaysLoadable
<1> QED
  BY <1>1, Invariance, PTL

--------------------------------------------------------------------------------
(***************************************************************************)
(* One command at a time.                                                  *)
(*                                                                         *)
(* What the secrets commands promise to someone who runs one at a time and *)
(* lets rotations finish; every other command may fail or be killed at any *)
(* step.  For every set of groups, keys, texts and environments: between   *)
(* commands every sealed value opens, a bulk command converts all or       *)
(* nothing, whoever rotates can read the group, and the commands implement *)
(* the vault of SecretsVault.                                              *)
(***************************************************************************)

\* No two commands are at work at the same time.
OneAtATime == \A p, q \in Proc : p = q

\* A rotation that started is neither killed nor does a read or write of it fail.
RotationsFinish == "rotate" \notin Faults

--------------------------------------------------------------------------------
(* The inductive invariant: the files F and K seen with the memory r of the   *)
(* one process, its requests being all that changes them.                     *)

\* The private key of g is that of its public key, and opens every value of g.
Settled(F, K, g) ==
  /\ F.pub[g] # NoKey => K[g] = F.pub[g]
  /\ \A s \in Slot : s[1] = g /\ IsSealed(F.cell[s]) => F.cell[s].under = F.pub[g]

\* Between the two saves of a rotation its group is not settled.
Publishing(r) == r.req.op = "rotate" /\ r.pc \in {"load", "save"}

FilesOK(F, K, R) ==
  \A g \in Group : Settled(F, K, g) \/ \E p \in Proc : Publishing(R[p]) /\ g = R[p].req.group

\* The key of g can come from the key file only.
StoreOnly(env, g) ==
  /\ env.specific[g] \notin KeyPair \cup {BadKey}
  /\ ~env.bulkBroken
  /\ env.bulk[g] \notin KeyPair

\* What a process has in memory is what the files hold.
CopiesOK(F, K, r) ==
  /\ r.pc \in {"stage", "save"} => r.doc = F
  /\ r.pc = "saveKeys" => r.keys = K

\* A generate meets a group without a public key; nothing in it is sealed.
GenerateOK(F, K, r) ==
  r.req.op = "generate" =>
    /\ r.pc # "list"
    /\ r.pc = "lookup" => r.staged = Blank
    /\ r.pc \in {"ignore", "loadKeys", "saveKeys", "load", "save"} =>
         F.pub[r.req.group] = NoKey /\ r.staged = Blank /\ r.edit = "pub"
    /\ r.pc \in {"load", "save"} => K[r.req.group] = r.new

\* The staged cells are the group's cells, sealed again, and no others.
Resealed(F, r) ==
  \A s \in Slot : r.staged[s] = IF s[1] = r.req.group /\ F.cell[s] # NoCell
                                THEN Sealed(F.cell[s].text, r.new) ELSE NoCell

RotateOK(F, K, r) ==
  r.req.op = "rotate" =>
    /\ r.pc \in {"list", "ignore", "loadKeys", "saveKeys", "load", "save"} =>
         StoreOnly(r.env, r.req.group)
    /\ r.pc \in {"ignore", "loadKeys", "saveKeys", "load", "save"} => Resealed(F, r)
    /\ r.pc \in {"load", "save"} =>
         /\ K[r.req.group] = r.new
         /\ r.edit \in {"pub", "values"}
         /\ r.edit = "values" => F.pub[r.req.group] = r.new

SetOK(F, r) ==
  r.req.op = "set" =>
    /\ r.pc \in {"lookup", "prompt"} => r.staged = Blank
    /\ r.pc = "prompt" => r.held = F.pub[r.req.group]
    /\ r.pc \in {"load", "save"} =>
         /\ r.edit = "values"
         /\ F.pub[r.req.group] # NoKey
         /\ \E t \in TextFor[Target(r.req)] :
              r.staged = [Blank EXCEPT ![Target(r.req)] = Sealed(t, F.pub[r.req.group])]

\* A get saves nothing.
GetOK(r) == r.req.op = "get" => r.pc \notin {"load", "save"}

DeleteOK(F, r) ==
  r.req.op = "delete" /\ r.pc \in {"load", "save"} =>
    /\ r.edit = "delete"
    /\ r.pc = "save" => F.cell[Target(r.req)] # NoCell

\* A converted entry is selected, and keeps its text.
Converted(F, r, s) ==
  /\ s \in Selected(r.req) /\ F.cell[s] # NoCell
  /\ r.staged[s] = IF r.req.op = "encrypt" THEN Sealed(F.cell[s].text, F.pub[s[1]])
                                           ELSE Plain(F.cell[s].text)
  /\ r.req.op = "encrypt" => F.pub[s[1]] # NoKey

\* An entry the command has still to convert.
Unready(F, K, r, s) ==
  IF r.req.op = "encrypt" THEN IsPlain(F.cell[s])
  ELSE IsSealed(F.cell[s]) /\ Resolve(r.env, K, s[1]).origin # "unavailable"

BulkOK(F, K, r) ==
  r.req.op \in {"encrypt", "decrypt"} =>
    /\ r.pc \in {"lookup", "stage", "load", "save"} =>
         /\ \A s \in Slot : r.staged[s] # NoCell => Converted(F, r, s)
         /\ \A g \in Group : r.cache[g] \in {Untried, Resolve(r.env, K, g)}
    /\ r.pc = "stage" => r.todo \subseteq Selected(r.req)
    /\ r.pc \in {"stage", "load", "save"} =>
         \A s \in Selected(r.req) : Unready(F, K, r, s) => s \in r.todo \/ r.staged[s] # NoCell
    /\ r.pc \in {"load", "save"} => r.edit = "values"

RunSerial(F, K, r) ==
  /\ CopiesOK(F, K, r)
  /\ GenerateOK(F, K, r) /\ RotateOK(F, K, r)
  /\ SetOK(F, r) /\ GetOK(r) /\ DeleteOK(F, r) /\ BulkOK(F, K, r)

SInv ==
  /\ FilesOK(secretsFile, keysFile, run)
  /\ \A p \in Proc : RunSerial(secretsFile, keysFile, run[p])

--------------------------------------------------------------------------------
(* Frames *)

\* A process that has nothing to do promises nothing.
LEMMA IdleSerial == ASSUME NEW F, NEW K PROVE RunSerial(F, K, Idle) /\ ~Publishing(Idle)
BY DEF RunSerial, CopiesOK, GenerateOK, RotateOK, SetOK, GetOK, DeleteOK, BulkOK, Publishing, Idle

\* The invariant after a step of p that leaves the files and memory as required.
LEMMA OneRun ==
  ASSUME OneAtATime, IInv, NEW p \in Proc, NEW r, Become(p, r),
         RunSerial(secretsFile', keysFile', r),
         \A g \in Group : Settled(secretsFile', keysFile', g) \/ (Publishing(r) /\ g = r.req.group)
  PROVE  SInv'
<1>1. run' = [run EXCEPT ![p] = r] /\ run \in [Proc -> RunState]
  BY DEF Become, IInv
<1>2. \A q \in Proc : run'[q] = r
  BY <1>1 DEF OneAtATime
<1>3. (\A q \in Proc : RunSerial(secretsFile, keysFile, run[q]))'
  BY <1>2
<1>4. FilesOK(secretsFile', keysFile', run')
  BY <1>2 DEF FilesOK
<1> QED
  BY <1>3, <1>4 DEF SInv

\* Which groups are settled while p is the process at work.
LEMMA SettledNow ==
  ASSUME OneAtATime, SInv, NEW p \in Proc, NEW g \in Group,
         Publishing(run[p]) => g # run[p].req.group
  PROVE  Settled(secretsFile, keysFile, g)
BY DEF SInv, FilesOK, OneAtATime

\* A step of p that leaves the files alone and does not end a rotation between its saves.
LEMMA MemoryStep ==
  ASSUME OneAtATime, IInv, SInv, NEW p \in Proc, NEW r, Become(p, r),
         RunSerial(secretsFile, keysFile, r), UNCHANGED <<secretsFile, keysFile>>,
         Publishing(run[p]) => Publishing(r) /\ r.req = run[p].req
  PROVE  SInv'
<1>1. \A g \in Group : Settled(secretsFile, keysFile, g) \/ (Publishing(r) /\ g = r.req.group)
  BY SettledNow
<1> QED
  BY <1>1, OneRun

\* A step of p that forgets everything, at a time when every group is settled.
LEMMA ForgetStep ==
  ASSUME OneAtATime, IInv, SInv, NEW p \in Proc, Become(p, Idle), ~Publishing(run[p]),
         UNCHANGED <<secretsFile, keysFile>>
  PROVE  SInv'
BY IdleSerial, MemoryStep

\* The types and the promise of the process at work.
LEMMA AtWork ==
  ASSUME IInv, SInv, NEW p \in Proc
  PROVE  /\ run[p] \in RunState /\ Shape(run[p]) /\ run[p].doc \in Document
         /\ RunOK(run[p], delivered, ignoreRule)
         /\ RunSerial(secretsFile, keysFile, run[p])
         /\ DocOK(secretsFile, delivered) /\ secretsFile \in Document /\ keysFile \in KeyFile
BY DEF IInv, SInv, RunOK, DocOK

LEMMA InitSerial == Init => SInv
<1> SUFFICES ASSUME Init PROVE SInv
  OBVIOUS
<1>1. \A s \in Slot : ~IsSealed(secretsFile.cell[s])
  BY DEF Init, IsSealed, NoCell, Plain
<1>2. \A g \in Group : Settled(secretsFile, keysFile, g)
  BY <1>1 DEF Init, Settled, NewDoc
<1>3. \A p \in Proc : run[p] = Idle
  BY DEF Init
<1> QED
  BY <1>2, <1>3, IdleSerial DEF SInv, FilesOK

--------------------------------------------------------------------------------
(* Looking up a private key *)

\* A key that came from the key file says that no other source has one.
LEMMA FromStore ==
  ASSUME NEW env \in Environment, NEW keys \in KeyFile, NEW g \in Group,
         Resolve(env, keys, g).origin = "store"
  PROVE  StoreOnly(env, g)
<1>1. ~(env.specific[g] = BadKey)
  BY DEF Resolve
<1>2. ~(env.specific[g] \in KeyPair)
  BY <1>1 DEF Resolve
<1>3. ~env.bulkBroken
  BY <1>1, <1>2 DEF Resolve, Environment
<1>4. ~(env.bulk[g] \in KeyPair)
  BY <1>1, <1>2, <1>3 DEF Resolve, Environment
<1> QED
  BY <1>1, <1>2, <1>3, <1>4 DEF StoreOnly

\* Then the key file decides, whatever key it holds later.
LEMMA StoreDecides ==
  ASSUME NEW env \in Environment, NEW keys \in KeyFile, NEW g \in Group,
         StoreOnly(env, g), keys[g] \in KeyPair
  PROVE  Resolve(env, keys, g).key = keys[g]
BY DEF StoreOnly, Resolve, Environment

--------------------------------------------------------------------------------
(* Steps that leave the files alone *)

\* A command that has just begun has staged nothing and looked up no key.
LEMMA BegunSerial ==
  ASSUME NEW F, NEW K, NEW r, r.pc = "lookup", r.staged = Blank, r.cache = Idle.cache
  PROVE  RunSerial(F, K, r)
<1>1. \A s \in Slot : r.staged[s] = NoCell
  BY DEF Blank
<1>2. \A g \in Group : r.cache[g] = Untried
  BY DEF Idle
<1> QED
  BY <1>1, <1>2 DEF RunSerial, CopiesOK, GenerateOK, RotateOK, SetOK, GetOK, DeleteOK, BulkOK

LEMMA BeginSerial ==
  ASSUME OneAtATime, IInv, SInv, NEW p \in Proc, Begin(p) PROVE SInv'
<1>1. PICK q \in Request, e \in Envs :
        \/ Become(p, [Idle EXCEPT !.pc = "lookup", !.req = q, !.env = e])
        \/ Become(p, [Idle EXCEPT !.pc = "lookup", !.req = q, !.env = e,
                                  !.new = <<q.group, minted[q.group] + 1>>])
  BY DEF Begin
<1>2. run[p].pc = "idle" /\ UNCHANGED <<secretsFile, keysFile>>
  BY DEF Begin, At
<1>3. CASE Become(p, [Idle EXCEPT !.pc = "lookup", !.req = q, !.env = e])
  <2> DEFINE r == [Idle EXCEPT !.pc = "lookup", !.req = q, !.env = e]
  <2>1. r.pc = "lookup" /\ r.staged = Blank /\ r.cache = Idle.cache
    BY DEF Idle
  <2>2. Become(p, r)
    BY <1>3
  <2> HIDE DEF r
  <2>3. RunSerial(secretsFile, keysFile, r)
    BY <2>1, BegunSerial
  <2> QED
    BY <1>2, <2>2, <2>3, MemoryStep DEF Publishing
<1>4. CASE Become(p, [Idle EXCEPT !.pc = "lookup", !.req = q, !.env = e,
                                  !.new = <<q.group, minted[q.group] + 1>>])
  <2> DEFINE r == [Idle EXCEPT !.pc = "lookup", !.req = q, !.env = e,
                               !.new = <<q.group, minted[q.group] + 1>>]
  <2>1. r.pc = "lookup" /\ r.staged = Blank /\ r.cache = Idle.cache
    BY DEF Idle
  <2>2. Become(p, r)
    BY <1>4
  <2> HIDE DEF r
  <2>3. RunSerial(secretsFile, keysFile, r)
    BY <2>1, BegunSerial
  <2> QED
    BY <1>2, <2>2, <2>3, MemoryStep DEF Publishing
<1> QED
  BY <1>1, <1>3, <1>4

LEMMA SetLookupSerial ==
  ASSUME OneAtATime, IInv, SInv, NEW p \in Proc, SetLookup(p) PROVE SInv'
<1> DEFINE r == [run[p] EXCEPT !.pc = "prompt", !.held = secretsFile.pub[run[p].req.group]]
<1>1. run[p] \in RunState /\ run[p].pc = "lookup" /\ run[p].req.op = "set"
      /\ RunSerial(secretsFile, keysFile, run[p])
  BY AtWork DEF SetLookup, At, Op
<1>2. r.pc = "prompt" /\ r.req = run[p].req /\ r.staged = run[p].staged
      /\ r.held = secretsFile.pub[r.req.group]
  BY <1>1 DEF RunState
<1> HIDE DEF r
<1>3. RunSerial(secretsFile, keysFile, r)
  BY <1>1, <1>2 DEF RunSerial, CopiesOK, GenerateOK, RotateOK, SetOK, GetOK, DeleteOK, BulkOK
<1> QED
  BY <1>1, <1>3, MemoryStep DEF SetLookup, Publishing, r

LEMMA SetPromptSerial ==
  ASSUME OneAtATime, IInv, SInv, NEW p \in Proc, SetPrompt(p) PROVE SInv'
<1> DEFINE s == Target(run[p].req)
<1>1. PICK t \in TextFor[s] :
        Become(p, [run[p] EXCEPT !.pc = "load", !.edit = "values",
                                 !.staged[s] = Sealed(t, run[p].held)])
  BY DEF SetPrompt
<1> DEFINE r == [run[p] EXCEPT !.pc = "load", !.edit = "values",
                               !.staged[s] = Sealed(t, run[p].held)]
<1>2. run[p] \in RunState /\ run[p].pc = "prompt" /\ Shape(run[p])
      /\ RunSerial(secretsFile, keysFile, run[p]) /\ RunOK(run[p], delivered, ignoreRule)
  BY AtWork DEF SetPrompt, At
<1>3. run[p].req.op = "set" /\ run[p].req \in Request
  BY <1>2 DEF Shape
<1>4. run[p].staged = Blank /\ run[p].held = secretsFile.pub[run[p].req.group]
  BY <1>2, <1>3 DEF RunSerial, SetOK
<1>5. run[p].held # NoKey
  <2>1. run[p].req.group \in Group
    BY <1>3 DEF Request
  <2>2. run[p].held \in PairsOf(run[p].req.group)
    BY <1>2 DEF RunOK
  <2> QED
    BY <2>1, <2>2, PairFacts
<1>6. r.pc = "load" /\ r.edit = "values" /\ r.req = run[p].req
      /\ r.staged = [Blank EXCEPT ![s] = Sealed(t, secretsFile.pub[r.req.group])]
  BY <1>2, <1>4 DEF RunState
<1> HIDE DEF r
<1>7. RunSerial(secretsFile, keysFile, r)
  BY <1>3, <1>4, <1>5, <1>6 DEF RunSerial, CopiesOK, GenerateOK, RotateOK, SetOK, GetOK, DeleteOK, BulkOK
<1> QED
  BY <1>1, <1>2, <1>7, MemoryStep DEF SetPrompt, Publishing, r

LEMMA DeclineSerial ==
  ASSUME OneAtATime, IInv, SInv, NEW p \in Proc, Decline(p) PROVE SInv'
BY ForgetStep DEF Decline, At, Publishing

LEMMA GetLookupSerial ==
  ASSUME OneAtATime, IInv, SInv, NEW p \in Proc, GetLookup(p) PROVE SInv'
<1> DEFINE r == [run[p] EXCEPT !.pc = "resolve", !.doc = secretsFile]
<1>1. run[p] \in RunState /\ run[p].pc = "lookup" /\ run[p].req.op = "get"
  BY AtWork DEF GetLookup, At, Op
<1>2. r.pc = "resolve" /\ r.req = run[p].req
  BY <1>1 DEF RunState
<1> HIDE DEF r
<1>3. RunSerial(secretsFile, keysFile, r)
  BY <1>1, <1>2 DEF RunSerial, CopiesOK, GenerateOK, RotateOK, SetOK, GetOK, DeleteOK, BulkOK
<1> QED
  BY <1>1, <1>3, MemoryStep DEF GetLookup, Publishing, r

LEMMA GetResolveSerial ==
  ASSUME OneAtATime, IInv, SInv, NEW p \in Proc, GetResolve(p) PROVE SInv'
<1> DEFINE r == [Idle EXCEPT !.req = run[p].req,
                             !.answer = run[p].doc.cell[Target(run[p].req)].text]
<1>1. run[p].req.op = "get" /\ Become(p, r) /\ UNCHANGED <<secretsFile, keysFile>>
  BY DEF GetResolve, Op
<1>2. r.pc = "idle" /\ r.req = run[p].req
  BY DEF Idle
<1> HIDE DEF r
<1>3. RunSerial(secretsFile, keysFile, r)
  BY <1>1, <1>2 DEF RunSerial, CopiesOK, GenerateOK, RotateOK, SetOK, GetOK, DeleteOK, BulkOK
<1> QED
  BY <1>1, <1>3, MemoryStep DEF Publishing

LEMMA DeleteLookupSerial ==
  ASSUME OneAtATime, IInv, SInv, NEW p \in Proc, DeleteLookup(p) PROVE SInv'
<1> DEFINE r == [run[p] EXCEPT !.pc = "load", !.edit = "delete"]
<1>1. run[p] \in RunState /\ run[p].pc = "lookup" /\ run[p].req.op = "delete"
  BY AtWork DEF DeleteLookup, At, Op
<1>2. r.pc = "load" /\ r.req = run[p].req /\ r.edit = "delete"
  BY <1>1 DEF RunState
<1> HIDE DEF r
<1>3. RunSerial(secretsFile, keysFile, r)
  BY <1>1, <1>2 DEF RunSerial, CopiesOK, GenerateOK, RotateOK, SetOK, GetOK, DeleteOK, BulkOK
<1> QED
  BY <1>1, <1>3, MemoryStep DEF DeleteLookup, Publishing, r

LEMMA GenerateLookupSerial ==
  ASSUME OneAtATime, IInv, SInv, NEW p \in Proc, GenerateLookup(p) PROVE SInv'
<1> DEFINE r == [run[p] EXCEPT !.pc = "ignore", !.edit = "pub"]
<1>1. run[p] \in RunState /\ run[p].pc = "lookup" /\ run[p].req.op = "generate"
      /\ secretsFile.pub[run[p].req.group] = NoKey /\ RunSerial(secretsFile, keysFile, run[p])
  BY AtWork DEF GenerateLookup, At, Op
<1>2. r.pc = "ignore" /\ r.req = run[p].req /\ r.edit = "pub" /\ r.staged = run[p].staged
  BY <1>1 DEF RunState
<1> HIDE DEF r
<1>3. RunSerial(secretsFile, keysFile, r)
  BY <1>1, <1>2 DEF RunSerial, CopiesOK, GenerateOK, RotateOK, SetOK, GetOK, DeleteOK, BulkOK
<1> QED
  BY <1>1, <1>3, MemoryStep DEF GenerateLookup, Publishing, r

LEMMA RotateLookupSerial ==
  ASSUME OneAtATime, IInv, SInv, NEW p \in Proc, RotateLookup(p) PROVE SInv'
<1> DEFINE r == [run[p] EXCEPT !.pc = "resolve"]
<1>1. run[p] \in RunState /\ run[p].pc = "lookup" /\ run[p].req.op = "rotate"
  BY AtWork DEF RotateLookup, At, Op
<1>2. r.pc = "resolve" /\ r.req = run[p].req
  BY <1>1 DEF RunState
<1> HIDE DEF r
<1>3. RunSerial(secretsFile, keysFile, r)
  BY <1>1, <1>2 DEF RunSerial, CopiesOK, GenerateOK, RotateOK, SetOK, GetOK, DeleteOK, BulkOK
<1> QED
  BY <1>1, <1>3, MemoryStep DEF RotateLookup, Publishing, r

LEMMA RotateResolveSerial ==
  ASSUME OneAtATime, IInv, SInv, NEW p \in Proc, RotateResolve(p) PROVE SInv'
<1> DEFINE found == Resolve(run[p].env, keysFile, run[p].req.group)
           r     == [run[p] EXCEPT !.pc = "list", !.held = found.key]
<1>1. run[p] \in RunState /\ run[p].pc = "resolve" /\ run[p].req.op = "rotate"
      /\ keysFile \in KeyFile /\ Shape(run[p])
  BY AtWork DEF RotateResolve, At, Op
<1>2. StoreOnly(run[p].env, run[p].req.group)
  <2>1. run[p].env \in Environment /\ run[p].req.group \in Group
    BY <1>1, StoreAssumption DEF RunState, Shape, Request
  <2> QED
    BY <1>1, <2>1, FromStore DEF RotateResolve
<1>3. r.pc = "list" /\ r.req = run[p].req /\ r.env = run[p].env
  BY <1>1 DEF RunState
<1>4. Become(p, r) /\ UNCHANGED <<secretsFile, keysFile>>
  BY DEF RotateResolve
<1> HIDE DEF r, found
<1>5. RunSerial(secretsFile, keysFile, r)
  BY <1>1, <1>2, <1>3 DEF RunSerial, CopiesOK, GenerateOK, RotateOK, SetOK, GetOK, DeleteOK, BulkOK
<1> QED
  BY <1>1, <1>4, <1>5, MemoryStep DEF Publishing

LEMMA RotateListSerial ==
  ASSUME OneAtATime, IInv, SInv, NEW p \in Proc, RotateList(p) PROVE SInv'
<1> DEFINE g  == run[p].req.group
           st == [s \in Slot |-> IF s \in GroupCells(g)
                                 THEN Sealed(secretsFile.cell[s].text, run[p].new) ELSE NoCell]
           r  == [run[p] EXCEPT !.pc = "ignore", !.edit = "pub", !.staged = st]
<1>1. run[p] \in RunState /\ run[p].pc = "list" /\ Shape(run[p])
      /\ RunSerial(secretsFile, keysFile, run[p])
  BY AtWork DEF RotateList, At
<1>2. run[p].req.op = "rotate" \/ run[p].req.op = "generate"
  BY <1>1 DEF Shape
<1>3. r.pc = "ignore" /\ r.req = run[p].req /\ r.env = run[p].env /\ r.edit = "pub"
      /\ r.staged = st /\ r.new = run[p].new
  BY <1>1 DEF RunState
<1>4. Become(p, r) /\ UNCHANGED <<secretsFile, keysFile>>
  BY DEF RotateList
<1> HIDE DEF r
<1>5. Resealed(secretsFile, r)
  BY <1>3 DEF Resealed, GroupCells
<1> HIDE DEF st
<1>6. RunSerial(secretsFile, keysFile, r)
  BY <1>1, <1>2, <1>3, <1>5
     DEF RunSerial, CopiesOK, GenerateOK, RotateOK, SetOK, GetOK, DeleteOK, BulkOK
<1> QED
  BY <1>1, <1>4, <1>6, MemoryStep DEF Publishing

LEMMA EnsureIgnoredSerial ==
  ASSUME OneAtATime, IInv, SInv, NEW p \in Proc, EnsureIgnored(p) PROVE SInv'
<1> DEFINE r == [run[p] EXCEPT !.pc = "loadKeys"]
<1>1. run[p] \in RunState /\ run[p].pc = "ignore" /\ Shape(run[p])
      /\ RunSerial(secretsFile, keysFile, run[p])
  BY AtWork DEF EnsureIgnored, At
<1>2. run[p].req.op \in {"rotate", "generate"}
  BY <1>1 DEF Shape
<1>3. r.pc = "loadKeys" /\ r.req = run[p].req /\ r.env = run[p].env /\ r.edit = run[p].edit
      /\ r.staged = run[p].staged /\ r.new = run[p].new
  BY <1>1 DEF RunState
<1>4. Become(p, r) /\ UNCHANGED <<secretsFile, keysFile>>
  BY DEF EnsureIgnored
<1> HIDE DEF r
<1>5. RunSerial(secretsFile, keysFile, r)
  BY <1>1, <1>2, <1>3
     DEF RunSerial, CopiesOK, GenerateOK, RotateOK, Resealed, SetOK, GetOK, DeleteOK, BulkOK
<1> QED
  BY <1>1, <1>4, <1>5, MemoryStep DEF Publishing

LEMMA LoadKeysSerial ==
  ASSUME OneAtATime, IInv, SInv, NEW p \in Proc, LoadKeys(p) PROVE SInv'
<1> DEFINE r == [run[p] EXCEPT !.pc = "saveKeys", !.keys = keysFile]
<1>1. run[p] \in RunState /\ run[p].pc = "loadKeys" /\ Shape(run[p])
      /\ RunSerial(secretsFile, keysFile, run[p])
  BY AtWork DEF LoadKeys, At
<1>2. run[p].req.op \in {"rotate", "generate"}
  BY <1>1 DEF Shape
<1>3. r.pc = "saveKeys" /\ r.req = run[p].req /\ r.env = run[p].env /\ r.edit = run[p].edit
      /\ r.staged = run[p].staged /\ r.new = run[p].new /\ r.keys = keysFile
  BY <1>1 DEF RunState
<1>4. Become(p, r) /\ UNCHANGED <<secretsFile, keysFile>>
  BY DEF LoadKeys
<1> HIDE DEF r
<1>5. RunSerial(secretsFile, keysFile, r)
  BY <1>1, <1>2, <1>3
     DEF RunSerial, CopiesOK, GenerateOK, RotateOK, Resealed, SetOK, GetOK, DeleteOK, BulkOK
<1> QED
  BY <1>1, <1>4, <1>5, MemoryStep DEF Publishing

--------------------------------------------------------------------------------
(* Bulk conversion *)

\* A bulk command goes on, saves, or has nothing to save, with what it promised.
LEMMA StagingSerial ==
  ASSUME NEW F, NEW K, NEW r \in RunState, r.req.op \in {"encrypt", "decrypt"},
         r.doc = F, r.todo \subseteq Selected(r.req),
         \A s \in Slot : r.staged[s] # NoCell => Converted(F, r, s),
         \A g \in Group : r.cache[g] \in {Untried, Resolve(r.env, K, g)},
         \A s \in Selected(r.req) : Unready(F, K, r, s) => s \in r.todo \/ r.staged[s] # NoCell
  PROVE  RunSerial(F, K, Staging(r)) /\ ~Publishing(Staging(r))
<1>1. CASE r.todo # {}
  <2> DEFINE n == [r EXCEPT !.pc = "stage"]
  <2>1. n.pc = "stage" /\ n.req = r.req /\ n.env = r.env /\ n.doc = r.doc /\ n.todo = r.todo
        /\ n.staged = r.staged /\ n.cache = r.cache
    BY DEF RunState
  <2>2. Staging(r) = n
    BY <1>1 DEF Staging
  <2> HIDE DEF n
  <2>3. BulkOK(F, K, n)
    BY <2>1 DEF BulkOK, Converted, Unready
  <2> QED
    BY <2>1, <2>2, <2>3
       DEF RunSerial, CopiesOK, GenerateOK, RotateOK, SetOK, GetOK, DeleteOK, Publishing
<1>2. CASE r.todo = {} /\ r.staged = Blank
  BY <1>2, IdleSerial DEF Staging
<1>3. CASE r.todo = {} /\ r.staged # Blank
  <2> DEFINE n == [Idle EXCEPT !.pc = "load", !.edit = "values",
                               !.req = r.req, !.env = r.env, !.staged = r.staged]
  <2>1. n.pc = "load" /\ n.edit = "values" /\ n.req = r.req /\ n.env = r.env
        /\ n.todo = {} /\ n.staged = r.staged /\ \A g \in Group : n.cache[g] = Untried
    BY DEF Idle
  <2>2. Staging(r) = n
    BY <1>3 DEF Staging
  <2> HIDE DEF n
  <2>3. BulkOK(F, K, n)
    BY <1>3, <2>1 DEF BulkOK, Converted, Unready
  <2> QED
    BY <2>1, <2>2, <2>3
       DEF RunSerial, CopiesOK, GenerateOK, RotateOK, SetOK, GetOK, DeleteOK, Publishing
<1> QED
  BY <1>1, <1>2, <1>3

LEMMA BulkListSerial ==
  ASSUME OneAtATime, IInv, SInv, NEW p \in Proc, BulkList(p) PROVE SInv'
<1> DEFINE wanted == {s \in Matches(run[p].req) : IsSealed(secretsFile.cell[s]) <=> Op(p) = "decrypt"}
           r      == [run[p] EXCEPT !.doc = secretsFile, !.todo = wanted]
<1>1. run[p] \in RunState /\ run[p].pc = "lookup" /\ run[p].req.op \in {"encrypt", "decrypt"}
      /\ RunSerial(secretsFile, keysFile, run[p]) /\ secretsFile \in Document
  BY AtWork DEF BulkList, At, Op
<1>2. wanted \in SUBSET Slot /\ wanted \subseteq Selected(run[p].req)
  BY DEF Matches, Selected
<1>3. Become(p, Staging(r)) /\ UNCHANGED <<secretsFile, keysFile>>
  BY DEF BulkList
<1>4. \A s \in Selected(run[p].req) : Unready(secretsFile, keysFile, run[p], s) => s \in wanted
  BY <1>1 DEF Unready, Matches, IsPlain, IsSealed, NoCell, Op
<1> HIDE DEF wanted
<1>5. r \in RunState /\ r.req = run[p].req /\ r.env = run[p].env /\ r.doc = secretsFile
      /\ r.todo = wanted /\ r.staged = run[p].staged /\ r.cache = run[p].cache
  BY <1>1, <1>2 DEF RunState
<1> HIDE DEF r
<1>6. RunSerial(secretsFile, keysFile, Staging(r)) /\ ~Publishing(Staging(r))
  <2>1. \A s \in Slot : r.staged[s] # NoCell => Converted(secretsFile, r, s)
    BY <1>1, <1>5 DEF RunSerial, BulkOK, Converted
  <2>2. \A g \in Group : r.cache[g] \in {Untried, Resolve(r.env, keysFile, g)}
    BY <1>1, <1>5 DEF RunSerial, BulkOK
  <2>3. \A s \in Selected(r.req) : Unready(secretsFile, keysFile, r, s)
                                     => s \in r.todo \/ r.staged[s] # NoCell
    BY <1>4, <1>5 DEF Unready
  <2> QED
    BY <1>1, <1>2, <1>5, <2>1, <2>2, <2>3, StagingSerial
<1> QED
  BY <1>1, <1>3, <1>6, MemoryStep DEF Publishing

\* What a bulk command at its conversions may rely on.
LEMMA BulkFacts ==
  ASSUME OneAtATime, IInv, SInv, NEW p \in Proc, run[p].pc = "stage",
         run[p].req.op \in {"encrypt", "decrypt"}
  PROVE  /\ run[p] \in RunState /\ run[p].doc = secretsFile
         /\ run[p].todo \subseteq Slot /\ run[p].todo \subseteq Selected(run[p].req)
         /\ \A s \in run[p].todo : secretsFile.cell[s] # NoCell /\ s[1] \in Group
                                   /\ CellOK(s, secretsFile.cell[s], delivered)
         /\ run[p].env \in Environment /\ keysFile \in KeyFile
         /\ \A s \in Slot : run[p].staged[s] # NoCell => Converted(secretsFile, run[p], s)
         /\ \A g \in Group : run[p].cache[g] \in {Untried, Resolve(run[p].env, keysFile, g)}
         /\ \A s \in Selected(run[p].req) : Unready(secretsFile, keysFile, run[p], s)
                                              => s \in run[p].todo \/ run[p].staged[s] # NoCell
<1>1. RunOK(run[p], delivered, ignoreRule) /\ run[p] \in RunState
      /\ RunSerial(secretsFile, keysFile, run[p]) /\ DocOK(secretsFile, delivered)
      /\ keysFile \in KeyFile
  BY AtWork
<1>2. run[p].doc = secretsFile
  BY <1>1 DEF RunSerial, CopiesOK
<1>3. run[p].todo \subseteq Slot /\ run[p].env \in Environment
  BY <1>1, StoreAssumption DEF RunState
<1>4. \A s \in run[p].todo : secretsFile.cell[s] # NoCell /\ s[1] \in Group
                             /\ CellOK(s, secretsFile.cell[s], delivered)
  BY <1>1, <1>2, <1>3 DEF RunOK, DocOK, Slot
<1> QED
  BY <1>1, <1>2, <1>3, <1>4 DEF RunSerial, BulkOK

LEMMA EncryptOneSerial ==
  ASSUME OneAtATime, IInv, SInv, NEW p \in Proc, EncryptOne(p) PROVE SInv'
<1>1. PICK s \in run[p].todo :
        /\ secretsFile.pub[s[1]] # NoKey
        /\ Become(p, Staging([run[p] EXCEPT
                      !.todo = @ \ {s},
                      !.staged[s] = Sealed(run[p].doc.cell[s].text, secretsFile.pub[s[1]])]))
  BY DEF EncryptOne
<1> DEFINE c == Sealed(run[p].doc.cell[s].text, secretsFile.pub[s[1]])
           r == [run[p] EXCEPT !.todo = @ \ {s}, !.staged[s] = c]
<1>2. run[p].pc = "stage" /\ run[p].req.op = "encrypt" /\ UNCHANGED <<secretsFile, keysFile>>
  BY DEF EncryptOne, At, Op
<1>3. /\ s \in Slot /\ s \in Selected(run[p].req) /\ secretsFile.cell[s] # NoCell
      /\ run[p] \in RunState /\ run[p].doc = secretsFile
      /\ \A x \in Slot : run[p].staged[x] # NoCell => Converted(secretsFile, run[p], x)
      /\ \A g \in Group : run[p].cache[g] \in {Untried, Resolve(run[p].env, keysFile, g)}
      /\ \A x \in Selected(run[p].req) : Unready(secretsFile, keysFile, run[p], x)
                                           => x \in run[p].todo \/ run[p].staged[x] # NoCell
      /\ run[p].todo \subseteq Selected(run[p].req) /\ s[1] \in Group
      /\ CellOK(s, secretsFile.cell[s], delivered)
  BY <1>2, BulkFacts
<1>4. c # NoCell /\ c \in Cell
  <2>1. secretsFile.cell[s].text \in Text
    BY <1>3, StoreAssumption DEF CellOK
  <2>2. secretsFile.pub[s[1]] \in KeyPair
    BY <1>1, <1>3, AtWork DEF Document
  <2> QED
    BY <1>1, <1>3, <2>1, <2>2 DEF Sealed, NoCell, Cell
<1>5. c = Sealed(secretsFile.cell[s].text, secretsFile.pub[s[1]])
  BY <1>3
<1> HIDE DEF c
<1>6. r \in RunState /\ r.req = run[p].req /\ r.env = run[p].env /\ r.doc = run[p].doc
      /\ r.todo = run[p].todo \ {s} /\ r.staged = [run[p].staged EXCEPT ![s] = c]
      /\ r.cache = run[p].cache
  BY <1>3, <1>4 DEF RunState
<1> HIDE DEF r
<1>7. \A x \in Slot : r.staged[x] = IF x = s THEN c ELSE run[p].staged[x]
  BY <1>3, <1>6 DEF RunState
<1>8. \A x \in Slot : r.staged[x] # NoCell => Converted(secretsFile, r, x)
  BY <1>1, <1>2, <1>3, <1>5, <1>6, <1>7 DEF Converted
<1>9. \A x \in Selected(r.req) : Unready(secretsFile, keysFile, r, x)
                                  => x \in r.todo \/ r.staged[x] # NoCell
  BY <1>3, <1>4, <1>6, <1>7 DEF Unready, Selected
<1>10. RunSerial(secretsFile, keysFile, Staging(r)) /\ ~Publishing(Staging(r))
  BY <1>2, <1>3, <1>6, <1>8, <1>9, StagingSerial
<1> QED
  BY <1>1, <1>2, <1>10, MemoryStep DEF Publishing, r, c

LEMMA DecryptOneSerial ==
  ASSUME OneAtATime, IInv, SInv, NEW p \in Proc, DecryptOne(p) PROVE SInv'
<1>1. PICK s \in run[p].todo :
        LET found == CachedKey(p, s[1])
            c     == run[p].doc.cell[s]
            next  == [run[p] EXCEPT !.todo = @ \ {s}, !.cache[s[1]] = found]
        IN  \/ found.origin = "unavailable" /\ Become(p, Staging(next))
            \/ Become(p, Staging([next EXCEPT !.staged[s] = Plain(c.text)]))
  BY DEF DecryptOne
<1> DEFINE found == CachedKey(p, s[1])
           c     == Plain(run[p].doc.cell[s].text)
           next  == [run[p] EXCEPT !.todo = @ \ {s}, !.cache[s[1]] = found]
           r     == [next EXCEPT !.staged[s] = c]
<1>2. run[p].pc = "stage" /\ run[p].req.op = "decrypt" /\ UNCHANGED <<secretsFile, keysFile>>
  <2>1. run[p].pc = "stage" /\ Op(p) = "decrypt" /\ UNCHANGED <<secretsFile, keysFile>>
    BY DEF DecryptOne, At
  <2> QED
    BY <2>1 DEF Op
<1>3. /\ s \in Slot /\ s \in Selected(run[p].req) /\ secretsFile.cell[s] # NoCell
      /\ run[p] \in RunState /\ run[p].doc = secretsFile
      /\ \A x \in Slot : run[p].staged[x] # NoCell => Converted(secretsFile, run[p], x)
      /\ \A g \in Group : run[p].cache[g] \in {Untried, Resolve(run[p].env, keysFile, g)}
      /\ \A x \in Selected(run[p].req) : Unready(secretsFile, keysFile, run[p], x)
                                           => x \in run[p].todo \/ run[p].staged[x] # NoCell
      /\ run[p].todo \subseteq Selected(run[p].req) /\ s[1] \in Group
      /\ CellOK(s, secretsFile.cell[s], delivered)
      /\ run[p].env \in Environment /\ keysFile \in KeyFile
  BY <1>2, BulkFacts
<1>4. found = Resolve(run[p].env, keysFile, s[1]) /\ found \in Lookup
  BY <1>3, ResolveType DEF CachedKey
<1>5. c # NoCell /\ c \in Cell /\ c = Plain(secretsFile.cell[s].text)
  <2>1. secretsFile.cell[s].text \in Text
    BY <1>3, StoreAssumption DEF CellOK
  <2> QED
    BY <1>3, <2>1, StoreAssumption DEF Plain, NoCell, Cell
<1>6. \/ found.origin = "unavailable" /\ Become(p, Staging(next))
      \/ Become(p, Staging(r))
  BY <1>1
<1> HIDE DEF c, found
<1>7. next \in RunState /\ next.req = run[p].req /\ next.env = run[p].env
      /\ next.doc = run[p].doc /\ next.todo = run[p].todo \ {s}
      /\ next.staged = run[p].staged /\ next.cache = [run[p].cache EXCEPT ![s[1]] = found]
  BY <1>3, <1>4 DEF RunState
<1>8. r \in RunState /\ r.req = run[p].req /\ r.env = run[p].env
      /\ r.doc = run[p].doc /\ r.todo = run[p].todo \ {s}
      /\ r.staged = [run[p].staged EXCEPT ![s] = c] /\ r.cache = next.cache
  BY <1>3, <1>5, <1>7 DEF RunState
<1> HIDE DEF next, r
<1>9. \A g \in Group : next.cache[g] \in {Untried, Resolve(next.env, keysFile, g)}
  <2>1. run[p].cache \in [Group -> Lookup \cup {Untried}]
    BY <1>3 DEF RunState
  <2>2. \A g \in Group : next.cache[g] = IF g = s[1] THEN found ELSE run[p].cache[g]
    BY <1>7, <2>1
  <2>3. next.env = run[p].env
    BY <1>7
  <2> QED
    BY <1>3, <1>4, <2>2, <2>3
<1>10. ASSUME found.origin = "unavailable"
       PROVE  RunSerial(secretsFile, keysFile, Staging(next)) /\ ~Publishing(Staging(next))
  <2>1. \A x \in Slot : next.staged[x] # NoCell => Converted(secretsFile, next, x)
    BY <1>3, <1>7 DEF Converted
  <2>2. \A x \in Selected(next.req) : Unready(secretsFile, keysFile, next, x)
                                       => x \in next.todo \/ next.staged[x] # NoCell
    BY <1>2, <1>3, <1>4, <1>7, <1>10 DEF Unready
  <2> QED
    BY <1>2, <1>3, <1>7, <1>9, <2>1, <2>2, StagingSerial
<1>11. RunSerial(secretsFile, keysFile, Staging(r)) /\ ~Publishing(Staging(r))
  <2>1. \A x \in Slot : r.staged[x] = IF x = s THEN c ELSE run[p].staged[x]
    BY <1>3, <1>8 DEF RunState
  <2>2. \A x \in Slot : r.staged[x] # NoCell => Converted(secretsFile, r, x)
    BY <1>2, <1>3, <1>5, <1>8, <2>1 DEF Converted
  <2>3. \A x \in Selected(r.req) : Unready(secretsFile, keysFile, r, x)
                                    => x \in r.todo \/ r.staged[x] # NoCell
    BY <1>3, <1>5, <1>8, <2>1 DEF Unready, Selected
  <2>4. \A g \in Group : r.cache[g] \in {Untried, Resolve(r.env, keysFile, g)}
    BY <1>7, <1>8, <1>9
  <2> QED
    BY <1>2, <1>3, <1>8, <2>2, <2>3, <2>4, StagingSerial
<1> QED
  BY <1>2, <1>6, <1>10, <1>11, MemoryStep DEF Publishing

--------------------------------------------------------------------------------
(* Steps that change the files *)

LEMMA SaveKeysSerial ==
  ASSUME OneAtATime, IInv, SInv, NEW p \in Proc, SaveKeys(p) PROVE SInv'
<1> DEFINE g == run[p].req.group
           r == [run[p] EXCEPT !.pc = "load"]
<1>1. run[p] \in RunState /\ run[p].pc = "saveKeys" /\ Shape(run[p]) /\ keysFile \in KeyFile
      /\ RunSerial(secretsFile, keysFile, run[p]) /\ RunOK(run[p], delivered, ignoreRule)
  BY AtWork DEF SaveKeys, At
<1>2. run[p].req.op \in {"rotate", "generate"} /\ g \in Group /\ run[p].edit = "pub"
  BY <1>1 DEF Shape, Request
<1>3. run[p].keys = keysFile
  BY <1>1 DEF RunSerial, CopiesOK
<1>4. keysFile' = [keysFile EXCEPT ![g] = run[p].new] /\ Become(p, r)
      /\ UNCHANGED secretsFile
  BY <1>3 DEF SaveKeys
<1>5. r.pc = "load" /\ r.req = run[p].req /\ r.env = run[p].env /\ r.edit = "pub"
      /\ r.staged = run[p].staged /\ r.new = run[p].new
  BY <1>1, <1>2 DEF RunState
<1>6. keysFile'[g] = run[p].new /\ \A h \in Group : h # g => keysFile'[h] = keysFile[h]
  BY <1>1, <1>2, <1>4 DEF KeyFile
<1> HIDE DEF r
<1>7. RunSerial(secretsFile', keysFile', r)
  BY <1>1, <1>2, <1>4, <1>5, <1>6
     DEF RunSerial, CopiesOK, GenerateOK, RotateOK, Resealed, SetOK, GetOK, DeleteOK, BulkOK
<1>8. \A h \in Group : Settled(secretsFile, keysFile, h)
  BY <1>1, SettledNow DEF Publishing
<1>9. \A h \in Group : Settled(secretsFile', keysFile', h) \/ (Publishing(r) /\ h = r.req.group)
  <2> TAKE h \in Group
  <2>1. CASE h # g
    BY <1>4, <1>6, <1>8, <2>1 DEF Settled
  <2>2. CASE h = g /\ run[p].req.op = "rotate"
    BY <1>5, <2>2 DEF Publishing
  <2>3. CASE h = g /\ run[p].req.op = "generate"
    <3>1. secretsFile.pub[g] = NoKey
      BY <1>1, <2>3 DEF RunSerial, GenerateOK
    <3> QED
      BY <1>2, <1>4, <1>8, <2>3, <3>1 DEF Settled
  <2> QED
    BY <1>2, <2>1, <2>2, <2>3
<1> QED
  BY <1>4, <1>7, <1>9, OneRun

LEMMA LoadSerial ==
  ASSUME OneAtATime, IInv, SInv, NEW p \in Proc, Load(p) PROVE SInv'
<1> DEFINE r == [run[p] EXCEPT !.pc = "save", !.doc = secretsFile]
<1>1. run[p] \in RunState /\ run[p].pc = "load" /\ Shape(run[p])
      /\ RunSerial(secretsFile, keysFile, run[p])
  BY AtWork DEF Load, At
<1>2. Become(p, r) /\ UNCHANGED <<secretsFile, keysFile>>
  BY DEF Load
<1>3. r.pc = "save" /\ r.req = run[p].req /\ r.env = run[p].env /\ r.edit = run[p].edit
      /\ r.staged = run[p].staged /\ r.new = run[p].new /\ r.todo = run[p].todo
      /\ r.cache = run[p].cache /\ r.doc = secretsFile
  BY <1>1 DEF RunState
<1>4. run[p].edit = "delete" => secretsFile.cell[Target(run[p].req)] # NoCell
  BY DEF Load, Editable
<1> HIDE DEF r
<1>5. CopiesOK(secretsFile, keysFile, r) /\ GenerateOK(secretsFile, keysFile, r)
  BY <1>1, <1>3 DEF RunSerial, CopiesOK, GenerateOK
<1>6. RotateOK(secretsFile, keysFile, r)
  BY <1>1, <1>3 DEF RunSerial, RotateOK, Resealed
<1>7. SetOK(secretsFile, r) /\ GetOK(r) /\ DeleteOK(secretsFile, r)
  BY <1>1, <1>3, <1>4 DEF RunSerial, SetOK, GetOK, DeleteOK
<1>8. BulkOK(secretsFile, keysFile, r)
  BY <1>1, <1>3 DEF RunSerial, BulkOK, Converted, Unready
<1>9. RunSerial(secretsFile, keysFile, r)
  BY <1>5, <1>6, <1>7, <1>8 DEF RunSerial
<1> QED
  BY <1>1, <1>2, <1>3, <1>9, MemoryStep DEF Publishing

\* What a save writes, by its kind of edit.
LEMMA SavePub ==
  ASSUME NEW r, r.doc \in Document, r.edit = "pub", r.req.group \in Group
  PROVE  /\ Edited(r).cell = r.doc.cell
         /\ Edited(r).pub = [r.doc.pub EXCEPT ![r.req.group] = r.new]
BY DEF Edited, Document

LEMMA SaveDelete ==
  ASSUME NEW r, r.doc \in Document, r.edit = "delete", Target(r.req) \in Slot
  PROVE  /\ Edited(r).pub = r.doc.pub
         /\ Edited(r).cell = [r.doc.cell EXCEPT ![Target(r.req)] = NoCell]
BY DEF Edited, Document

LEMMA SaveValues ==
  ASSUME NEW r, r.doc \in Document, r.edit = "values"
  PROVE  /\ Edited(r).pub = r.doc.pub
         /\ \A s \in Slot : Edited(r).cell[s] = IF r.staged[s] # NoCell THEN r.staged[s]
                                                ELSE r.doc.cell[s]
BY DEF Edited, Document

\* What a process about to save may rely on.
LEMMA SaveFacts ==
  ASSUME OneAtATime, IInv, SInv, NEW p \in Proc, Save(p)
  PROVE  /\ run[p] \in RunState /\ run[p].pc = "save" /\ run[p].req \in Request
         /\ run[p].doc = secretsFile /\ run[p].doc \in Document
         /\ run[p].edit \in {"pub", "delete", "values"}
         /\ run[p].edit = "delete" => run[p].req.op = "delete" /\ Target(run[p].req) \in Slot
         /\ run[p].edit = "pub" => /\ run[p].req.op \in {"generate", "rotate"}
                                   /\ run[p].req.group \in Group
         /\ run[p].req.op = "rotate" => run[p].req.group \in Group
         /\ run[p].req.op = "set" => Target(run[p].req) \in Slot
         /\ RunSerial(secretsFile, keysFile, run[p])
         /\ secretsFile' = Edited(run[p]) /\ UNCHANGED keysFile
         /\ Become(p, AfterSave(run[p]))
         /\ \A g \in Group : \/ Settled(secretsFile, keysFile, g)
                             \/ run[p].req.op = "rotate" /\ g = run[p].req.group
<1>1. run[p] \in RunState /\ run[p].pc = "save" /\ Shape(run[p])
      /\ RunSerial(secretsFile, keysFile, run[p]) /\ secretsFile \in Document
  BY AtWork DEF Save, At
<1>2. run[p].doc = secretsFile
  BY <1>1 DEF RunSerial, CopiesOK
<1>3. run[p].req \in Request
  BY <1>1 DEF Shape
<1>4. run[p].req.op \in {"set", "delete"} => Target(run[p].req) \in Slot
  BY <1>3 DEF Request, Target, Slot
<1>5. run[p].req.op \in {"generate", "rotate"} => run[p].req.group \in Group
  BY <1>3 DEF Request
<1>6. /\ run[p].edit \in {"pub", "delete", "values"}
      /\ run[p].edit = "delete" => run[p].req.op = "delete"
      /\ run[p].edit = "pub" => run[p].req.op \in {"generate", "rotate"}
  BY <1>1 DEF Shape, RunState
<1>7. \A g \in Group : \/ Settled(secretsFile, keysFile, g)
                       \/ run[p].req.op = "rotate" /\ g = run[p].req.group
  BY SettledNow DEF Publishing
<1>8. secretsFile' = Edited(run[p]) /\ UNCHANGED keysFile /\ Become(p, AfterSave(run[p]))
  BY DEF Save
<1> QED
  BY <1>1, <1>2, <1>3, <1>4, <1>5, <1>6, <1>7, <1>8

\* What a command other than a rotation stages is sealed under the published key.
LEMMA StagedUnderPublic ==
  ASSUME OneAtATime, IInv, SInv, NEW p \in Proc, Save(p), run[p].edit = "values",
         run[p].req.op # "rotate", NEW s \in Slot, IsSealed(run[p].staged[s])
  PROVE  run[p].staged[s].under = secretsFile.pub[s[1]]
<1> DEFINE r == run[p]
<1>1. /\ r.req \in Request /\ r.pc = "save" /\ RunSerial(secretsFile, keysFile, r)
      /\ r.req.op = "set" => Target(r.req) \in Slot
  BY SaveFacts
<1>2. r.staged[s] # NoCell
  BY DEF IsSealed, NoCell
<1>3. r.req.op \in {"set", "encrypt", "decrypt", "get", "delete", "generate"}
  BY <1>1 DEF Request
<1>4. CASE r.req.op = "set"
  <2>1. PICK t \in TextFor[Target(r.req)] :
          r.staged = [Blank EXCEPT ![Target(r.req)] = Sealed(t, secretsFile.pub[r.req.group])]
    BY <1>1, <1>4 DEF RunSerial, SetOK
  <2>2. s = Target(r.req)
    BY <1>2, <2>1 DEF Blank
  <2>3. s[1] = r.req.group
    BY <2>2 DEF Target
  <2> QED
    BY <1>1, <1>4, <2>1, <2>2, <2>3 DEF Blank, Sealed
<1>5. CASE r.req.op \in {"encrypt", "decrypt"}
  <2>1. Converted(secretsFile, r, s)
    BY <1>1, <1>2, <1>5 DEF RunSerial, BulkOK
  <2> QED
    BY <1>5, <2>1 DEF Converted, Sealed, Plain, IsSealed
<1>6. CASE r.req.op \in {"get", "delete", "generate"}
  BY <1>1, <1>6 DEF RunSerial, GetOK, DeleteOK, GenerateOK
<1> QED
  BY <1>3, <1>4, <1>5, <1>6

\* After a rotation's last save the staged cells are the group's only ones.
LEMMA RotatedCells ==
  ASSUME OneAtATime, IInv, SInv, NEW p \in Proc, Save(p), run[p].req.op = "rotate",
         run[p].edit = "values" \/ run[p].staged = Blank,
         NEW s \in Slot, s[1] = run[p].req.group
  PROVE  secretsFile'.cell[s] = NoCell \/ secretsFile'.cell[s].under = run[p].new
<1> DEFINE r == run[p]
<1>1. /\ r.doc = secretsFile /\ r.doc \in Document /\ r.req.group \in Group
      /\ r.edit \in {"pub", "values"} /\ secretsFile' = Edited(r) /\ Resealed(secretsFile, r)
  BY SaveFacts DEF RunSerial, RotateOK
<1>2. r.new # NoKey
  <2>1. RunOK(r, delivered, ignoreRule) /\ r.pc = "save"
    BY AtWork, SaveFacts
  <2>2. r.new \in PairsOf(r.req.group)
    BY <2>1 DEF RunOK
  <2> QED
    BY <1>1, <2>2, PairFacts
<1>3. r.staged[s] = IF secretsFile.cell[s] # NoCell THEN Sealed(secretsFile.cell[s].text, r.new)
                                                   ELSE NoCell
  BY <1>1 DEF Resealed
<1>4. CASE r.edit = "values"
  <2>1. secretsFile'.cell[s] = IF r.staged[s] # NoCell THEN r.staged[s] ELSE secretsFile.cell[s]
    BY <1>1, <1>4, SaveValues
  <2> QED
    BY <1>2, <1>3, <2>1 DEF Sealed, NoCell
<1>5. CASE r.edit = "pub" /\ r.staged = Blank
  <2>1. secretsFile'.cell[s] = secretsFile.cell[s]
    BY <1>1, <1>5, SavePub
  <2>2. r.staged[s] = NoCell
    BY <1>5 DEF Blank
  <2> QED
    BY <1>2, <1>3, <2>1, <2>2 DEF Sealed, NoCell
<1> QED
  BY <1>1, <1>4, <1>5

\* After a rotation's last save its group has the new key in both files.
LEMMA RotatedSettled ==
  ASSUME OneAtATime, IInv, SInv, NEW p \in Proc, Save(p), run[p].req.op = "rotate",
         run[p].edit = "values" \/ run[p].staged = Blank
  PROVE  /\ secretsFile'.pub[run[p].req.group] = run[p].new
         /\ keysFile'[run[p].req.group] = run[p].new
         /\ Settled(secretsFile', keysFile', run[p].req.group)
<1> DEFINE r == run[p]
           g == r.req.group
<1>1. /\ r.doc = secretsFile /\ r.doc \in Document /\ g \in Group /\ UNCHANGED keysFile
      /\ r.edit \in {"pub", "values"} /\ secretsFile' = Edited(r) /\ keysFile[g] = r.new
      /\ r.edit = "values" => secretsFile.pub[g] = r.new
  BY SaveFacts DEF RunSerial, RotateOK
<1>2. secretsFile'.pub[g] = r.new
  <2>1. CASE r.edit = "values"
    BY <1>1, <2>1, SaveValues
  <2>2. CASE r.edit = "pub"
    <3>1. secretsFile'.pub = [secretsFile.pub EXCEPT ![g] = r.new]
      BY <1>1, <2>2, SavePub
    <3> QED
      BY <1>1, <3>1 DEF Document
  <2> QED
    BY <1>1, <2>1, <2>2
<1>3. \A s \in Slot : s[1] = g /\ IsSealed(secretsFile'.cell[s]) => secretsFile'.cell[s].under = r.new
  BY RotatedCells DEF IsSealed, NoCell
<1> QED
  BY <1>1, <1>2, <1>3 DEF Settled

\* A save settles every group, but for the first of a rotation's two saves.
LEMMA SaveSettles ==
  ASSUME OneAtATime, IInv, SInv, NEW p \in Proc, Save(p), NEW g \in Group,
         run[p].req.op = "rotate" /\ g = run[p].req.group
           => run[p].edit = "values" \/ run[p].staged = Blank
  PROVE  Settled(secretsFile', keysFile', g)
<1> DEFINE r == run[p]
<1>1. /\ r.doc = secretsFile /\ r.doc \in Document /\ secretsFile' = Edited(r)
      /\ UNCHANGED keysFile /\ r.edit \in {"pub", "delete", "values"}
      /\ r.edit = "delete" => r.req.op = "delete" /\ Target(r.req) \in Slot
      /\ r.edit = "pub" => r.req.op \in {"generate", "rotate"} /\ r.req.group \in Group
      /\ RunSerial(secretsFile, keysFile, r) /\ r.pc = "save"
  BY SaveFacts
<1>2. CASE r.req.op = "rotate" /\ g = r.req.group
  BY <1>2, RotatedSettled
<1>3. CASE ~(r.req.op = "rotate" /\ g = r.req.group)
  <2>1. Settled(secretsFile, keysFile, g)
    BY <1>3, SaveFacts
  <2>2. CASE r.edit = "pub"
    <3>1. secretsFile'.pub = [secretsFile.pub EXCEPT ![r.req.group] = r.new]
          /\ secretsFile'.cell = secretsFile.cell
      BY <1>1, <2>2, SavePub
    <3>2. CASE g # r.req.group
      BY <1>1, <2>1, <3>1, <3>2 DEF Settled, Document
    <3>3. CASE g = r.req.group
      <4>1. r.req.op = "generate"
        BY <1>1, <1>3, <2>2, <3>3
      <4>2. secretsFile.pub[g] = NoKey /\ keysFile[g] = r.new
        BY <1>1, <3>3, <4>1 DEF RunSerial, GenerateOK
      <4>3. secretsFile'.pub[g] = r.new
        BY <1>1, <3>1, <3>3 DEF Document
      <4> QED
        BY <1>1, <2>1, <3>1, <4>2, <4>3 DEF Settled, IsSealed
    <3> QED
      BY <3>2, <3>3
  <2>3. CASE r.edit = "delete"
    <3>1. secretsFile'.pub = secretsFile.pub
          /\ secretsFile'.cell = [secretsFile.cell EXCEPT ![Target(r.req)] = NoCell]
      BY <1>1, <2>3, SaveDelete
    <3> QED
      BY <1>1, <2>1, <3>1 DEF Settled, Document, IsSealed, NoCell
  <2>4. CASE r.edit = "values"
    <3>1. /\ secretsFile'.pub = secretsFile.pub
          /\ \A s \in Slot : secretsFile'.cell[s] = IF r.staged[s] # NoCell THEN r.staged[s]
                                                    ELSE secretsFile.cell[s]
      BY <1>1, <2>4, SaveValues
    <3>2. CASE r.req.op # "rotate"
      <4>1. \A s \in Slot : IsSealed(r.staged[s]) => r.staged[s].under = secretsFile.pub[s[1]]
        BY <2>4, <3>2, StagedUnderPublic
      <4> QED
        BY <1>1, <2>1, <3>1, <4>1 DEF Settled
    <3>3. CASE r.req.op = "rotate"
      <4>1. Resealed(secretsFile, r)
        BY <1>1, <3>3 DEF RunSerial, RotateOK
      <4>2. \A s \in Slot : s[1] = g => secretsFile'.cell[s] = secretsFile.cell[s]
        BY <1>3, <3>1, <3>3, <4>1 DEF Resealed
      <4> QED
        BY <1>1, <2>1, <3>1, <4>2 DEF Settled
    <3> QED
      BY <3>2, <3>3
  <2> QED
    BY <1>1, <2>2, <2>3, <2>4
<1> QED
  BY <1>2, <1>3

LEMMA SaveSerial ==
  ASSUME OneAtATime, IInv, SInv, NEW p \in Proc, Save(p) PROVE SInv'
<1> DEFINE r == run[p]
<1>1. /\ r \in RunState /\ r.pc = "save" /\ r.doc = secretsFile /\ r.doc \in Document
      /\ secretsFile' = Edited(r) /\ UNCHANGED keysFile /\ Become(p, AfterSave(r))
      /\ r.edit \in {"pub", "delete", "values"}
      /\ r.edit = "pub" => r.req.op \in {"generate", "rotate"} /\ r.req.group \in Group
      /\ RunSerial(secretsFile, keysFile, r)
  BY SaveFacts
<1>2. CASE r.edit = "pub" /\ r.staged # Blank
  <2> DEFINE n == [r EXCEPT !.pc = "load", !.edit = "values"]
  <2>1. r.req.op = "rotate"
    BY <1>1, <1>2 DEF RunSerial, GenerateOK
  <2>2. n.pc = "load" /\ n.edit = "values" /\ n.req = r.req /\ n.env = r.env
        /\ n.staged = r.staged /\ n.new = r.new
    BY <1>1 DEF RunState
  <2>3. AfterSave(r) = n
    BY <1>2 DEF AfterSave
  <2> HIDE DEF n
  <2>4. /\ secretsFile'.pub = [secretsFile.pub EXCEPT ![r.req.group] = r.new]
        /\ secretsFile'.cell = secretsFile.cell
    BY <1>1, <1>2, SavePub
  <2>5. secretsFile'.pub[r.req.group] = r.new
    BY <1>1, <1>2, <2>4 DEF Document
  <2>6. RunSerial(secretsFile', keysFile', n)
    BY <1>1, <2>1, <2>2, <2>4, <2>5
       DEF RunSerial, CopiesOK, GenerateOK, RotateOK, Resealed, SetOK, GetOK, DeleteOK, BulkOK
  <2>7. \A g \in Group : g # r.req.group => Settled(secretsFile', keysFile', g)
    BY SaveSettles
  <2> QED
    BY <1>1, <2>1, <2>2, <2>3, <2>6, <2>7, OneRun DEF Publishing
<1>3. CASE ~(r.edit = "pub" /\ r.staged # Blank)
  <2>1. AfterSave(r) = Idle
    BY <1>3 DEF AfterSave
  <2>2. r.req.op = "rotate" => r.edit = "values" \/ r.staged = Blank
    BY <1>1, <1>3 DEF RunSerial, RotateOK
  <2>3. \A g \in Group : Settled(secretsFile', keysFile', g)
    BY <2>2, SaveSettles
  <2> QED
    BY <1>1, <2>1, <2>3, IdleSerial, OneRun
<1> QED
  BY <1>2, <1>3

--------------------------------------------------------------------------------
(* Errors, and every step *)

LEMMA RefuseSerial ==
  ASSUME OneAtATime, IInv, SInv, NEW p \in Proc, Refuse(p) PROVE SInv'
<1>1. ~(run[p].pc = "load" /\ run[p].req.op = "rotate" /\ ~Editable(run[p], secretsFile))
  <2> SUFFICES ASSUME run[p].pc = "load", run[p].req.op = "rotate"
               PROVE  Editable(run[p], secretsFile)
    OBVIOUS
  <2>1. run[p].edit \in {"pub", "values"} /\ Resealed(secretsFile, run[p])
        /\ RunOK(run[p], delivered, ignoreRule)
    BY AtWork DEF RunSerial, RotateOK
  <2>2. run[p].req.group \in Group /\ run[p].new \in PairsOf(run[p].req.group)
    BY <2>1 DEF RunOK, Shape, Request
  <2>3. run[p].new # NoKey
    BY <2>2, PairFacts
  <2>4. \A t \in {secretsFile.cell[s].text : s \in Slot} : Storable(Sealed(t, run[p].new))
    BY <2>3 DEF Storable, IsPlain, IsSealed, Sealed
  <2>5. \A s \in Slot : Storable(run[p].staged[s])
    BY <2>1, <2>4, NoCellStorable DEF Resealed
  <2> QED
    BY <2>1, <2>5 DEF Editable
<1>2. ~Publishing(run[p])
  BY <1>1 DEF Refuse, At, Publishing
<1> QED
  BY <1>2, ForgetStep DEF Refuse

LEMMA AbortSerial ==
  ASSUME OneAtATime, RotationsFinish, IInv, SInv, NEW p \in Proc, Abort(p) PROVE SInv'
BY ForgetStep DEF Abort, Op, Publishing, RotationsFinish

LEMMA NextSerial ==
  ASSUME OneAtATime, RotationsFinish
  PROVE  IInv /\ SInv /\ [Next]_vars => SInv'
<1> SUFFICES ASSUME IInv, SInv, [Next]_vars PROVE SInv'
  OBVIOUS
<1>1. CASE Next
  <2>1. PICK p \in Proc : Step(p)
    BY <1>1 DEF Next
  <2> QED
    BY <2>1, BeginSerial, SetLookupSerial, SetPromptSerial, DeclineSerial, GetLookupSerial,
       GetResolveSerial, DeleteLookupSerial, BulkListSerial, EncryptOneSerial,
       DecryptOneSerial, GenerateLookupSerial, RotateLookupSerial, RotateResolveSerial,
       RotateListSerial, EnsureIgnoredSerial, LoadKeysSerial, SaveKeysSerial, LoadSerial,
       SaveSerial, RefuseSerial, AbortSerial DEF Step
<1>2. CASE UNCHANGED vars
  BY <1>2 DEF SInv, vars
<1> QED
  BY <1>1, <1>2

LEMMA SerialInvariance ==
  ASSUME OneAtATime, RotationsFinish
  PROVE  Spec => [](IInv /\ SInv)
<1>1. IInv /\ SInv /\ [Next]_vars => SInv'
  BY NextSerial
<1> QED
  BY <1>1, InitSerial, InitIInv, NextIInv, PTL DEF Spec

--------------------------------------------------------------------------------
(* Theorems *)

\* Between commands (service_crypto.go and service_keypair.go leave the files as
\* their last rename left them) every published key has its private half in
\* envx.keys and every sealed value opens, when only rotations must finish.
THEOREM AtRest ==
  ASSUME OneAtATime, RotationsFinish
  PROVE  Spec => []RecoverableAtRest
<1>1. IInv /\ SInv => RecoverableAtRest
  <2> SUFFICES ASSUME IInv, SInv, \A p \in Proc : At(p, "idle")
               PROVE  Recoverable /\ \A g \in Group : secretsFile.pub[g] # NoKey
                                                       => keysFile[g] = secretsFile.pub[g]
    BY DEF RecoverableAtRest
  <2>1. \A g \in Group : Settled(secretsFile, keysFile, g)
    BY DEF SInv, FilesOK, Publishing, At
  <2>2. \A s \in Slot : s[1] \in Group
    BY DEF Slot
  <2> QED
    BY <2>1, <2>2 DEF Settled, Recoverable, IsSealed
<1> QED
  BY <1>1, SerialInvariance, PTL

\* What the save of a bulk command has converted.
LEMMA BulkSaved ==
  ASSUME OneAtATime, IInv, SInv, NEW p \in Proc, Save(p), Op(p) \in {"encrypt", "decrypt"}
  PROVE  BulkSave(p)
<1> DEFINE r == run[p]
           after == secretsFile'.cell
<1>1. /\ r.doc = secretsFile /\ r.doc \in Document /\ secretsFile' = Edited(r)
      /\ RunSerial(secretsFile, keysFile, r) /\ r.pc = "save" /\ r \in RunState
      /\ r.req.op \in {"encrypt", "decrypt"} /\ RunOK(r, delivered, ignoreRule)
  BY SaveFacts, AtWork DEF Op
<1>2. /\ r.edit = "values" /\ r.todo = {}
      /\ \A s \in Slot : r.staged[s] # NoCell => Converted(secretsFile, r, s)
      /\ \A s \in Selected(r.req) : Unready(secretsFile, keysFile, r, s) => r.staged[s] # NoCell
  BY <1>1 DEF RunSerial, BulkOK, RunOK
<1>3. \A s \in Slot : after[s] = IF r.staged[s] # NoCell THEN r.staged[s] ELSE secretsFile.cell[s]
  BY <1>1, <1>2, SaveValues
<1>4. \A s \in Slot \ Selected(r.req) : after[s] = secretsFile.cell[s]
  BY <1>2, <1>3 DEF Converted
<1>5. ASSUME NEW s \in Selected(r.req)
      PROVE  IF Op(p) = "encrypt" THEN ~IsPlain(after[s])
             ELSE IsSealed(after[s]) => Resolve(r.env, keysFile, s[1]).origin = "unavailable"
  <2>1. s \in Slot
    BY DEF Selected
  <2>2. CASE r.req.op = "encrypt"
    <3>1. CASE r.staged[s] # NoCell
      <4>1. after[s] = r.staged[s] /\ Converted(secretsFile, r, s)
        BY <1>2, <1>3, <2>1, <3>1
      <4>2. ~IsPlain(after[s])
        BY <2>2, <4>1 DEF Converted, Sealed, IsSealed, IsPlain
      <4> QED
        BY <2>2, <4>2 DEF Op
    <3>2. CASE r.staged[s] = NoCell
      <4>1. after[s] = secretsFile.cell[s] /\ ~Unready(secretsFile, keysFile, r, s)
        BY <1>2, <1>3, <2>1, <3>2
      <4>2. ~IsPlain(after[s])
        BY <2>2, <4>1 DEF Unready
      <4> QED
        BY <2>2, <4>2 DEF Op
    <3> QED
      BY <3>1, <3>2
  <2>3. CASE r.req.op = "decrypt"
    <3>1. CASE r.staged[s] # NoCell
      <4>1. after[s] = r.staged[s] /\ Converted(secretsFile, r, s)
        BY <1>2, <1>3, <2>1, <3>1
      <4>2. ~IsSealed(after[s])
        BY <2>3, <4>1 DEF Converted, Plain, IsSealed
      <4> QED
        BY <2>3, <4>2 DEF Op
    <3>2. CASE r.staged[s] = NoCell
      <4>1. after[s] = secretsFile.cell[s] /\ ~Unready(secretsFile, keysFile, r, s)
        BY <1>2, <1>3, <2>1, <3>2
      <4>2. ~IsSealed(after[s]) \/ Resolve(r.env, keysFile, s[1]).origin = "unavailable"
        BY <2>3, <4>1 DEF Unready
      <4> QED
        BY <2>3, <4>2 DEF Op
    <3> QED
      BY <3>1, <3>2
  <2> QED
    BY <1>1, <2>2, <2>3
<1> QED
  BY <1>4, <1>5 DEF BulkSave

\* encrypt and decrypt (service_crypto.go) convert all selected entries or none,
\* and nothing else, at whichever step they fail.
THEOREM BulkComplete ==
  ASSUME OneAtATime, RotationsFinish
  PROVE  Spec => BulkAllOrNothing
<1>1. IInv /\ SInv => [\A p \in Proc : Save(p) /\ Op(p) \in {"encrypt", "decrypt"}
                                        => BulkSave(p)]_vars
  BY BulkSaved
<1> QED
  BY <1>1, SerialInvariance, PTL DEF BulkAllOrNothing

\* keypair rotate (service_keypair.go) refuses an old key that is not from the key
\* file: when it completes, the key its own process resolves opens the group.
THEOREM RotatorReads ==
  ASSUME OneAtATime, RotationsFinish
  PROVE  Spec => RotatorCanRead
<1> DEFINE Readable(p) ==
      LET g == run[p].req.group
          k == Resolve(run[p].env, keysFile, g).key
      IN  /\ secretsFile'.pub[g] = k
          /\ \A s \in Slot : s[1] = g /\ IsSealed(secretsFile'.cell[s]) =>
                              secretsFile'.cell[s].under = k
<1>1. ASSUME IInv, SInv, NEW p \in Proc, Save(p), Op(p) = "rotate", run'[p].pc = "idle"
      PROVE  Readable(p)
  <2> DEFINE r == run[p]
             g == r.req.group
  <2>1. /\ r.req.op = "rotate" /\ r.pc = "save" /\ g \in Group /\ r \in RunState
        /\ RunSerial(secretsFile, keysFile, r) /\ RunOK(r, delivered, ignoreRule)
        /\ keysFile \in KeyFile /\ UNCHANGED keysFile /\ run \in [Proc -> RunState]
        /\ Become(p, AfterSave(r))
    BY <1>1, SaveFacts, AtWork DEF Op, IInv
  <2>2. r.edit = "values" \/ r.staged = Blank
    <3>1. run'[p] = AfterSave(r)
      BY <2>1 DEF Become
    <3>2. r.edit \in {"pub", "values"}
      BY <2>1 DEF RunSerial, RotateOK
    <3>3. ~(r.edit = "pub" /\ r.staged # Blank)
      BY <1>1, <2>1, <3>1 DEF AfterSave, RunState
    <3> QED
      BY <3>2, <3>3
  <2>3. secretsFile'.pub[g] = r.new /\ keysFile[g] = r.new /\ Settled(secretsFile', keysFile', g)
    BY <1>1, <2>1, <2>2, RotatedSettled
  <2>4. Resolve(r.env, keysFile, g).key = keysFile[g]
    <3>1. StoreOnly(r.env, g)
      BY <2>1 DEF RunSerial, RotateOK
    <3>2. keysFile[g] \in KeyPair
      BY <2>1, <2>3, PairFacts DEF RunOK
    <3>3. r.env \in Environment
      BY <2>1, StoreAssumption DEF RunState
    <3> QED
      BY <2>1, <3>1, <3>2, <3>3, StoreDecides
  <2> QED
    BY <2>3, <2>4 DEF Settled
<1>2. IInv /\ SInv => [\A p \in Proc : Save(p) /\ Op(p) = "rotate" /\ run'[p].pc = "idle"
                                        => Readable(p)]_vars
  BY <1>1
<1> QED
  BY <1>2, SerialInvariance, PTL DEF RotatorCanRead

--------------------------------------------------------------------------------
(* The refinement of SecretsVault *)

\* What can be read back is what the secrets file holds, sealed or not.
Legible == \A s \in Slot : ReadBack(s) = secretsFile.cell[s].text

LEMMA AlwaysLegible == IInv /\ SInv => Legible
<1> SUFFICES ASSUME IInv, SInv, NEW s \in Slot
             PROVE  ReadBack(s) = secretsFile.cell[s].text
  BY DEF Legible
<1> DEFINE c == secretsFile.cell[s]
<1>1. s[1] \in Group
  BY DEF Slot
<1>2. CASE Settled(secretsFile, keysFile, s[1])
  <2>1. IsSealed(c) => c.under = keysFile[s[1]]
    BY <1>2 DEF Settled, IsSealed
  <2> QED
    BY <2>1 DEF ReadBack
<1>3. CASE \E p \in Proc : Publishing(run[p]) /\ s[1] = run[p].req.group
  <2>1. PICK p \in Proc : Publishing(run[p]) /\ s[1] = run[p].req.group
    BY <1>3
  <2>2. Op(p) = "rotate" /\ Resealed(secretsFile, run[p]) /\ keysFile[s[1]] = run[p].new
    BY <2>1, AtWork DEF Publishing, RunSerial, RotateOK, Op
  <2>3. IsSealed(c) => run[p].staged[s] = Sealed(c.text, keysFile[s[1]])
    BY <2>1, <2>2 DEF Resealed, IsSealed, NoCell
  <2> QED
    BY <2>2, <2>3 DEF ReadBack
<1> QED
  BY <1>1, <1>2, <1>3 DEF SInv, FilesOK

\* The texts of the file change only by a set or a delete, and only at its target.
LEMMA SaveTexts ==
  ASSUME OneAtATime, IInv, SInv, NEW p \in Proc, Save(p)
  PROVE  \/ \A s \in Slot : secretsFile'.cell[s].text = secretsFile.cell[s].text
         \/ \E t \in Slot :
              /\ \A s \in Slot \ {t} : secretsFile'.cell[s].text = secretsFile.cell[s].text
              /\ \/ secretsFile'.cell[t].text \in TextFor[t]
                 \/ secretsFile.cell[t].text # NoText /\ secretsFile'.cell[t].text = NoText
<1> DEFINE r == run[p]
<1>1. /\ r.doc = secretsFile /\ r.doc \in Document /\ secretsFile' = Edited(r)
      /\ r.edit \in {"pub", "delete", "values"}
      /\ r.edit = "pub" => r.req.group \in Group
      /\ r.edit = "delete" => r.req.op = "delete" /\ Target(r.req) \in Slot
      /\ r.req.op = "set" => Target(r.req) \in Slot
      /\ r.req \in Request /\ r.pc = "save" /\ RunSerial(secretsFile, keysFile, r)
  BY SaveFacts
<1>2. CASE r.edit = "pub"
  <2>1. secretsFile'.cell = secretsFile.cell
    BY <1>1, <1>2, SavePub
  <2> QED
    BY <2>1
<1>3. CASE r.edit = "delete"
  <2> DEFINE t == Target(r.req)
  <2>1. t \in Slot /\ secretsFile.cell[t] # NoCell
    BY <1>1, <1>3 DEF RunSerial, DeleteOK
  <2>2. secretsFile'.cell = [secretsFile.cell EXCEPT ![t] = NoCell]
    BY <1>1, <1>3, SaveDelete
  <2>3. secretsFile.cell[t].text # NoText
    <3>1. CellOK(t, secretsFile.cell[t], delivered)
      BY <2>1, AtWork DEF DocOK
    <3> QED
      BY <2>1, <3>1, StoreAssumption DEF CellOK
  <2>4. secretsFile.cell \in [Slot -> Cell]
    BY <1>1 DEF Document
  <2>5. secretsFile'.cell[t].text = NoText
    BY <2>1, <2>2, <2>4 DEF NoCell
  <2> HIDE DEF t
  <2>6. \A s \in Slot \ {t} : secretsFile'.cell[s].text = secretsFile.cell[s].text
    BY <2>2, <2>4
  <2> QED
    BY <2>1, <2>3, <2>5, <2>6
<1>4. CASE r.edit = "values"
  <2>1. \A s \in Slot : secretsFile'.cell[s] = IF r.staged[s] # NoCell THEN r.staged[s]
                                              ELSE secretsFile.cell[s]
    BY <1>1, <1>4, SaveValues
  <2>2. CASE r.req.op = "set"
    <3> DEFINE u == Target(r.req)
    <3>1. PICK t \in TextFor[u] :
            r.staged = [Blank EXCEPT ![u] = Sealed(t, secretsFile.pub[r.req.group])]
      BY <1>1, <2>2 DEF RunSerial, SetOK
    <3>2. u \in Slot /\ secretsFile.pub[r.req.group] # NoKey
      BY <1>1, <2>2 DEF RunSerial, SetOK
    <3> HIDE DEF u
    <3>3. \A s \in Slot : r.staged[s] = IF s = u THEN Sealed(t, secretsFile.pub[r.req.group])
                                                 ELSE NoCell
      BY <3>1 DEF Blank
    <3>4. secretsFile'.cell[u].text = t
      BY <2>1, <3>2, <3>3 DEF Sealed, NoCell
    <3>5. \A s \in Slot \ {u} : secretsFile'.cell[s].text = secretsFile.cell[s].text
      BY <2>1, <3>3
    <3> QED
      BY <3>1, <3>2, <3>4, <3>5
  <2>3. CASE r.req.op # "set"
    <3>1. ASSUME NEW s \in Slot, r.staged[s] # NoCell
          PROVE  r.staged[s].text = secretsFile.cell[s].text
      <4>1. CASE r.req.op = "rotate"
        <5>1. Resealed(secretsFile, r)
          BY <1>1, <4>1 DEF RunSerial, RotateOK
        <5>2. r.staged[s] = Sealed(secretsFile.cell[s].text, r.new)
          BY <3>1, <5>1 DEF Resealed
        <5> QED
          BY <5>2 DEF Sealed
      <4>2. CASE r.req.op \in {"encrypt", "decrypt"}
        <5>1. Converted(secretsFile, r, s)
          BY <1>1, <3>1, <4>2 DEF RunSerial, BulkOK
        <5> QED
          BY <5>1 DEF Converted, Sealed, Plain
      <4>3. r.req.op \notin {"get", "delete", "generate"}
        BY <1>1, <1>4 DEF RunSerial, GetOK, DeleteOK, GenerateOK
      <4>4. r.req.op \in {"get", "delete", "generate", "encrypt", "decrypt", "rotate"}
        BY <1>1, <2>3 DEF Request
      <4> QED
        BY <4>1, <4>2, <4>3, <4>4
    <3> QED
      BY <2>1, <3>1
  <2> QED
    BY <2>2, <2>3
<1> QED
  BY <1>1, <1>2, <1>3, <1>4

\* A command only ever touches the secrets file in its saves.
LEMMA OnlySavesWrite ==
  ASSUME [Next]_vars
  PROVE  UNCHANGED secretsFile \/ \E p \in Proc : Save(p)
BY DEF Next, Step, vars, Begin, SetLookup, SetPrompt, Decline, GetLookup, GetResolve,
       DeleteLookup, BulkList, EncryptOne, DecryptOne, GenerateLookup, RotateLookup,
       RotateResolve, RotateList, EnsureIgnored, LoadKeys, SaveKeys, Load, Refuse, Abort

\* The whole of SecretsStore, run one command at a time, is a vault: set and delete
\* are its only writes, each in one step, and encrypting, decrypting, generating,
\* rotating (service_crypto.go, service_keypair.go) and failing half-way change
\* nothing that can be read back.
THEOREM ImplementsVault ==
  ASSUME OneAtATime, RotationsFinish
  PROVE  Spec => VaultSpec
<1> DEFINE v == [s \in Slot |-> ReadBack(s)]
<1>1. Init => Vault!Init
  <2> SUFFICES ASSUME Init PROVE v \in [Slot -> (UNION {TextFor[s] : s \in Slot}) \cup {NoText}]
    BY DEF Vault!Init
  <2>1. ASSUME NEW s \in Slot
        PROVE  ReadBack(s) \in (UNION {TextFor[x] : x \in Slot}) \cup {NoText}
    <3>1. secretsFile.cell[s].text \in TextFor[s] \cup {NoText} /\ ~IsSealed(secretsFile.cell[s])
      BY DEF Init, IsSealed, NoCell, Plain
    <3>2. ReadBack(s) = secretsFile.cell[s].text
      BY <3>1 DEF ReadBack
    <3>3. TextFor[s] \in {TextFor[x] : x \in Slot}
      OBVIOUS
    <3>4. TextFor[s] \subseteq UNION {TextFor[x] : x \in Slot}
      BY <3>3
    <3> QED
      BY <3>1, <3>2, <3>4
  <2> QED
    BY <2>1
<1>2. IInv /\ SInv /\ Legible /\ Legible' /\ [Next]_vars => [Vault!Next]_v
  <2> SUFFICES ASSUME IInv, SInv, Legible, Legible', [Next]_vars PROVE [Vault!Next]_v
    OBVIOUS
  <2>1. \A s \in Slot : v[s] = secretsFile.cell[s].text
    BY DEF Legible
  <2>2. \A s \in Slot : v'[s] = secretsFile'.cell[s].text
    BY DEF Legible
  <2>3. v = [s \in Slot |-> v[s]] /\ v' = [s \in Slot |-> v'[s]]
    OBVIOUS
  <2>4. CASE \A s \in Slot : secretsFile'.cell[s].text = secretsFile.cell[s].text
    BY <2>1, <2>2, <2>3, <2>4
  <2>5. ASSUME NEW t \in Slot,
               \A s \in Slot \ {t} : secretsFile'.cell[s].text = secretsFile.cell[s].text,
               \/ secretsFile'.cell[t].text \in TextFor[t]
               \/ secretsFile.cell[t].text # NoText /\ secretsFile'.cell[t].text = NoText
        PROVE  Vault!Next
    <3>1. v' = [v EXCEPT ![t] = secretsFile'.cell[t].text]
      <4>1. \A s \in Slot : v'[s] = [v EXCEPT ![t] = secretsFile'.cell[t].text][s]
        BY <2>1, <2>2, <2>5
      <4> QED
        BY <2>3, <4>1
    <3>2. CASE secretsFile'.cell[t].text \in TextFor[t]
      BY <3>1, <3>2 DEF Vault!Next, Vault!Put
    <3>3. CASE secretsFile.cell[t].text # NoText /\ secretsFile'.cell[t].text = NoText
      BY <2>1, <3>1, <3>3 DEF Vault!Next, Vault!Remove
    <3> QED
      BY <2>5, <3>2, <3>3
  <2> QED
    BY <2>4, <2>5, OnlySavesWrite, SaveTexts
<1>3. IInv /\ SInv => Legible
  BY AlwaysLegible
<1> QED
  BY <1>1, <1>2, <1>3, SerialInvariance, PTL DEF VaultSpec, Vault!Spec, Spec
================================================================================
