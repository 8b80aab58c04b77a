----------------------------- MODULE Runner_proofs -----------------------------
(***************************************************************************)
(* envx run reports how its child ended, and what it relays arrives once,  *)
(* for any set of signals, any channel capacity and any exit codes.        *)
(***************************************************************************)
EXTENDS Runner, FiniteSetTheorems, TLAPS

--------------------------------------------------------------------------------
(* The life of the child *)

Ends == {Exited(c) : c \in Codes} \cup {Killed(s) : s \in Signal}

\* What the main goroutine knows of its child, and when it has a code.
LifeOK ==
  /\ main = "start" => child = "none"
  /\ main \in {"notify", "wait"} => child \in {"running", "ended"}
  /\ main \in {"close", "exit"} => child = "reaped"
  /\ child \in {"ended", "reaped"} => status \in Ends
  /\ main # "gone" => code = NoCode
  /\ relay = "send" => holding \in Signal /\ ShouldForward(holding)
  /\ code.by = "envx" /\ child # "none" => child = "reaped" /\ code = Code(ExitCode(status))

LInv == TypeOK /\ LifeOK

LEMMA LifeInit == Init => LInv
<1> SUFFICES ASSUME Init PROVE LInv
  OBVIOUS
<1>1. TypeOK
  BY RunnerAssumption DEF Init, TypeOK
<1>2. LifeOK
  BY DEF Init, LifeOK, NoCode
<1> QED
  BY <1>1, <1>2 DEF LInv

LEMMA ExitCodeType == ASSUME NEW st \in Ends PROVE ExitCode(st) \in Nat
<1>1. CASE \E c \in Codes : st = Exited(c)
  BY <1>1, RunnerAssumption DEF Exited, ExitCode
<1>2. CASE \E s \in Signal : st = Killed(s)
  BY <1>2, RunnerAssumption DEF Killed, ExitCode
<1> QED
  BY <1>1, <1>2 DEF Ends

LEMMA LifeStep == LInv /\ [Next]_vars => LInv'
<1> SUFFICES ASSUME LInv, [Next]_vars PROVE LInv'
  OBVIOUS
<1> USE RunnerAssumption DEF LInv
<1>1. CASE Start
  <2>1. /\ main' \in {"notify", "gone"} /\ child' \in {child, "running"}
        /\ UNCHANGED <<terminal, relay, holding, caught, channel, status, sent, pressed, got>>
    BY <1>1 DEF Start
  <2>2. code' = code \/ (code'.by = "envx" /\ code'.code \in Nat)
    BY <1>1, SMTT(30) DEF Start, StartFailures, Code
  <2>3. TypeOK'
    BY <2>1, <2>2, SMTT(30) DEF TypeOK
  <2>4. LifeOK'
    BY <1>1, SMTT(30) DEF Start, LifeOK, ShouldForward, Interactive, NoCode
  <2> QED
    BY <2>3, <2>4
<1>2. CASE Notify
  <2>1. TypeOK'
    BY <1>2, SMTT(30) DEF Notify, TypeOK
  <2>2. LifeOK'
    BY <1>2, SMTT(30) DEF Notify, LifeOK, ShouldForward, Interactive
  <2> QED
    BY <2>1, <2>2
<1>3. CASE Wait
  <2>1. TypeOK'
    BY <1>3, SMTT(30) DEF Wait, TypeOK
  <2>2. LifeOK'
    BY <1>3, SMTT(30) DEF Wait, LifeOK, ShouldForward, Interactive, NoCode
  <2> QED
    BY <2>1, <2>2
<1>4. CASE Close
  <2>1. TypeOK'
    BY <1>4, SMTT(30) DEF Close, TypeOK
  <2>2. LifeOK'
    BY <1>4, SMTT(30) DEF Close, LifeOK, ShouldForward, Interactive
  <2> QED
    BY <2>1, <2>2
<1>5. CASE Exit
  <2>1. status \in Ends /\ ExitCode(status) \in Nat /\ status' = status
    BY <1>5, ExitCodeType DEF Exit, LifeOK
  <2>2. TypeOK'
    BY <1>5, <2>1, SMTT(30) DEF Exit, TypeOK, Code
  <2>3. ExitCode(status') = ExitCode(status)
    BY <2>1
  <2>4. LifeOK'
    BY <1>5, <2>1, <2>3, SMTT(30) DEF Exit, LifeOK
  <2> QED
    BY <2>2, <2>4
<1>6. CASE Take
  <2>1. channel \in Seq(Signal) /\ channel # <<>>
    BY <1>6 DEF Take, TypeOK
  <2>2. Head(channel) \in Signal /\ Tail(channel) \in Seq(Signal) /\ Len(Tail(channel)) <= Len(channel)
    BY <2>1
  <2>3. Len(channel') <= Buffer /\ channel' \in Seq(Signal)
    <3>1. channel' = Tail(channel) /\ Len(channel) <= Buffer
      BY <1>6 DEF Take, TypeOK
    <3>2. Len(channel) \in Nat /\ Len(Tail(channel)) \in Nat /\ Buffer \in Nat
      BY <2>1, <2>2, RunnerAssumption
    <3> QED
      BY <2>2, <3>1, <3>2
  <2>4. TypeOK'
    <3>1. /\ UNCHANGED <<terminal, main, caught, child, status, code, sent, pressed, got>>
          /\ relay' \in {"select", "send"} /\ holding' \in Signal \cup {NoSignal}
      BY <1>6, <2>2 DEF Take, TypeOK
    <3>2. relay' \in {"none", "select", "send", "done"}
      BY <3>1
    <3> QED
      BY <2>3, <3>1, <3>2, Zenon DEF TypeOK
  <2>5. LifeOK'
    BY <1>6, <2>2, SMTT(30) DEF Take, LifeOK, ShouldForward, Interactive
  <2> QED
    BY <2>4, <2>5
<1>7. CASE Leave
  <2>1. TypeOK'
    BY <1>7, SMTT(30) DEF Leave, TypeOK
  <2>2. LifeOK'
    BY <1>7, SMTT(30) DEF Leave, LifeOK
  <2> QED
    BY <2>1, <2>2
<1>8. CASE Send
  <2>1. got' \in [Signal -> Nat]
    <3>1. got \in [Signal -> Nat]
      BY DEF TypeOK
    <3>2. holding \in Signal
      BY <1>8 DEF Send, LifeOK
    <3>3. got[holding] + 1 \in Nat
      BY <3>1, <3>2
    <3> QED
      BY <1>8, <3>1, <3>3 DEF Send
  <2>2. TypeOK'
    <3>1. /\ UNCHANGED <<terminal, main, caught, channel, child, status, code, sent, pressed>>
          /\ relay' = "select" /\ holding' = NoSignal
      BY <1>8 DEF Send
    <3>2. relay' \in {"none", "select", "send", "done"} /\ holding' \in Signal \cup {NoSignal}
      BY <3>1
    <3> QED
      BY <2>1, <3>1, <3>2, Zenon DEF TypeOK
  <2>3. LifeOK'
    BY <1>8, SMTT(30) DEF Send, LifeOK
  <2> QED
    BY <2>2, <2>3
<1>9. CASE HandOver
  <2>1. PICK s \in caught :
          /\ caught' = caught \ {s}
          /\ channel' = IF Len(channel) < Buffer THEN Append(channel, s) ELSE channel
    BY <1>9 DEF HandOver
  <2>2. channel' \in Seq(Signal) /\ Len(channel') <= Buffer
    BY <2>1 DEF TypeOK
  <2>3. TypeOK'
    BY <1>9, <2>1, <2>2, SMTT(30) DEF HandOver, TypeOK
  <2>4. LifeOK'
    BY <1>9, SMTT(30) DEF HandOver, LifeOK, ShouldForward, Interactive
  <2> QED
    BY <2>3, <2>4
<1>10. ASSUME NEW s \in Signal, Supervise(s) \/ Press(s) PROVE LInv'
  <2>1. /\ sent' = [sent EXCEPT ![s] = @ + 1] /\ sent[s] < MaxSends
        /\ got' = got \/ got' = [got EXCEPT ![s] = @ + 1]
        /\ pressed' = pressed \/ pressed' = [pressed EXCEPT ![s] = @ + 1]
        /\ Reach(s) /\ main # "gone"
        /\ UNCHANGED <<terminal, holding, channel, child, status>>
    BY <1>10 DEF Supervise, Press
  <2>2. /\ sent' \in [Signal -> 0..MaxSends]
        /\ got' \in [Signal -> Nat] /\ pressed' \in [Signal -> Nat]
    <3>1. sent \in [Signal -> 0..MaxSends] /\ got \in [Signal -> Nat] /\ pressed \in [Signal -> Nat]
      BY DEF TypeOK
    <3>2. sent[s] + 1 \in 0..MaxSends /\ got[s] + 1 \in Nat /\ pressed[s] + 1 \in Nat
      BY <2>1, <3>1
    <3> QED
      BY <2>1, <3>1, <3>2
  <2>3. TypeOK'
    <3>1. CASE Watching
      <4>1. caught' \subseteq Signal /\ UNCHANGED <<main, relay, code>>
        BY <2>1, <3>1 DEF Reach, TypeOK
      <4> QED
        BY <2>1, <2>2, <4>1, SMTT(30) DEF TypeOK
    <3>2. CASE ~Watching
      <4>1. /\ main' = "gone" /\ relay' \in {"none", "done"} /\ UNCHANGED caught
            /\ code' = [by |-> "signal", signal |-> s]
        BY <2>1, <3>2 DEF Reach
      <4> QED
        BY <2>1, <2>2, <4>1, SMTT(30) DEF TypeOK
    <3> QED
      BY <3>1, <3>2
  <2>4. LifeOK'
    BY <2>1, SMTT(30) DEF Reach, LifeOK, ShouldForward, Interactive, Watching
  <2> QED
    BY <2>3, <2>4
<1>11. CASE ChildEnds
  <2>1. status' \in Ends /\ child' = "ended"
    BY <1>11 DEF ChildEnds, Ends
  <2>2. TypeOK'
    BY <1>11, <2>1, SMTT(30) DEF ChildEnds, TypeOK, Ends
  <2>3. LifeOK'
    BY <1>11, <2>1, SMTT(30) DEF ChildEnds, LifeOK, ShouldForward, Interactive
  <2> QED
    BY <2>2, <2>3
<1>12. CASE UNCHANGED vars
  <2>1. ExitCode(status') = ExitCode(status)
    BY <1>12 DEF vars
  <2>2. TypeOK'
    BY <1>12, SMTT(30) DEF vars, TypeOK
  <2>3. LifeOK'
    BY <1>12, <2>1 DEF vars, LifeOK, ShouldForward, Interactive
  <2> QED
    BY <2>2, <2>3
<1> QED
  BY <1>1, <1>2, <1>3, <1>4, <1>5, <1>6, <1>7, <1>8, <1>9, <1>10, <1>11, <1>12 DEF Next

LEMMA Life == Spec => []LInv
BY LifeInit, LifeStep, PTL DEF Spec

\* Every variable of the model has its type, for any instance.
THEOREM TypeCorrect == Spec => []TypeOK
BY Life, PTL DEF LInv

\* envx's own exit code (exitCode in process.go, run in main.go) is the child's, and
\* there is none before the child is reaped, whichever signals are on their way.
THEOREM Mirror == Spec => []Mirrored
<1>1. LInv => Mirrored
  <2> SUFFICES ASSUME LInv, code.by = "envx", child # "none"
               PROVE  /\ child = "reaped"
                      /\ code.code = 0 <=> status = Exited(0)
                      /\ status.kind = "killed" => code.code - 128 = Number[status.signal]
    BY DEF Mirrored
  <2>1. child = "reaped" /\ status \in Ends /\ code.code = ExitCode(status)
    BY DEF LInv, LifeOK, Code
  <2>2. CASE \E c \in Codes : status = Exited(c)
    BY <2>1, <2>2, RunnerAssumption DEF Exited, ExitCode
  <2>3. CASE \E s \in Signal : status = Killed(s)
    BY <2>1, <2>3, RunnerAssumption DEF Exited, Killed, ExitCode
  <2> QED
    BY <2>1, <2>2, <2>3 DEF Ends
<1> QED
  BY <1>1, Life, PTL

--------------------------------------------------------------------------------
(* How often a signal is on its way to the child *)

Positions(ch, s) == {i \in 1..Len(ch) : ch[i] = s}

LEMMA PositionsFinite ==
  ASSUME NEW ch \in Seq(Signal), NEW s
  PROVE  IsFiniteSet(Positions(ch, s)) /\ Cardinality(Positions(ch, s)) \in Nat
<1>1. IsFiniteSet(1..Len(ch))
  BY FS_Interval
<1>2. IsFiniteSet(Positions(ch, s))
  BY <1>1, FS_Subset DEF Positions
<1> QED
  BY <1>2, FS_CardinalityType

LEMMA PositionsAppend ==
  ASSUME NEW ch \in Seq(Signal), NEW s, NEW x \in Signal
  PROVE  Cardinality(Positions(Append(ch, x), s))
           = Cardinality(Positions(ch, s)) + (IF x = s THEN 1 ELSE 0)
<1>1. IsFiniteSet(Positions(ch, s)) /\ Cardinality(Positions(ch, s)) \in Nat
  BY PositionsFinite
<1>2. Len(ch) + 1 \notin Positions(ch, s)
  BY DEF Positions
<1>3. CASE x = s
  <2>1. Positions(Append(ch, x), s) = Positions(ch, s) \cup {Len(ch) + 1}
    BY <1>3 DEF Positions
  <2> QED
    BY <2>1, <1>1, <1>2, <1>3, FS_AddElement
<1>4. CASE x # s
  <2>1. Positions(Append(ch, x), s) = Positions(ch, s)
    BY <1>4 DEF Positions
  <2> QED
    BY <2>1, <1>1, <1>4
<1> QED
  BY <1>3, <1>4

LEMMA PositionsTail ==
  ASSUME NEW ch \in Seq(Signal), ch # <<>>, NEW s
  PROVE  Cardinality(Positions(Tail(ch), s)) + (IF Head(ch) = s THEN 1 ELSE 0)
           = Cardinality(Positions(ch, s))
<1> DEFINE Rest == Positions(ch, s) \ {1}
           f == [i \in Positions(Tail(ch), s) |-> i + 1]
<1>1. Len(ch) \in Nat \ {0} /\ Tail(ch) \in Seq(Signal) /\ Len(Tail(ch)) = Len(ch) - 1
      /\ \A i \in 1..Len(Tail(ch)) : Tail(ch)[i] = ch[i + 1]
  OBVIOUS
<1>2. f \in Bijection(Positions(Tail(ch), s), Rest)
  <2>1. f \in [Positions(Tail(ch), s) -> Rest]
    BY <1>1 DEF Positions
  <2>2. \A i, j \in Positions(Tail(ch), s) : f[i] = f[j] => i = j
    BY DEF Positions
  <2>3. ASSUME NEW k \in Rest PROVE \E i \in Positions(Tail(ch), s) : f[i] = k
    <3>1. k - 1 \in Positions(Tail(ch), s)
      BY <1>1 DEF Positions
    <3>2. f[k - 1] = k
      BY <3>1 DEF Positions
    <3> QED
      BY <3>1, <3>2
  <2> HIDE DEF f
  <2> QED
    BY <2>1, <2>2, <2>3 DEF Bijection, Injection, Surjection, IsInjective
<1>3. Cardinality(Rest) = Cardinality(Positions(Tail(ch), s))
  <2>1. IsFiniteSet(Positions(Tail(ch), s)) /\ ExistsBijection(Positions(Tail(ch), s), Rest)
    BY <1>1, <1>2, PositionsFinite DEF ExistsBijection
  <2> HIDE DEF Rest
  <2> QED
    BY <2>1, FS_Bijection
<1>4. IsFiniteSet(Positions(ch, s)) /\ Cardinality(Positions(ch, s)) \in Nat
  BY PositionsFinite
<1>5. 1 \in Positions(ch, s) <=> Head(ch) = s
  BY <1>1 DEF Positions
<1>6. Cardinality(Rest) = Cardinality(Positions(ch, s)) - (IF 1 \in Positions(ch, s) THEN 1 ELSE 0)
  <2>1. Cardinality(Rest) = IF 1 \in Positions(ch, s) THEN Cardinality(Positions(ch, s)) - 1
                            ELSE Cardinality(Positions(ch, s))
    BY <1>4, FS_RemoveElement
  <2> QED
    BY <2>1, <1>4
<1> HIDE DEF Rest
<1> QED
  BY <1>3, <1>4, <1>5, <1>6

\* Caught by the runtime, in the channel, or in the relaying goroutine's hand.
Caught(s) == IF s \in caught THEN 1 ELSE 0
Held(s) == IF relay = "send" /\ holding = s THEN 1 ELSE 0
OnItsWay(s) == Caught(s) + Cardinality(Positions(channel, s)) + Held(s)

\* The presses of a key that the relay may double.
Doubled(s) == IF Misjudged THEN pressed[s] ELSE 0

\* What is relayed has been sent at least as often as it has arrived or is on its way,
\* a key press that may be doubled counting twice; what is not relayed comes from the
\* terminal only.
CountOK ==
  \A s \in Signal :
    got[s] + (IF ShouldForward(s) THEN OnItsWay(s) ELSE 0) <= sent[s] + Doubled(s)

LEMMA Numbers ==
  ASSUME LInv, NEW s \in Signal
  PROVE  /\ got[s] \in Nat /\ sent[s] \in Nat
         /\ Cardinality(Positions(channel, s)) \in Nat
         /\ Caught(s) \in 0..1 /\ Held(s) \in 0..1
         /\ Doubled(s) \in Nat
<1>1. got[s] \in Nat /\ sent[s] \in Nat /\ pressed[s] \in Nat /\ channel \in Seq(Signal)
  BY RunnerAssumption DEF LInv, TypeOK
<1> QED
  BY <1>1, PositionsFinite DEF Caught, Held, Doubled

\* A step that moves no signal, unless it drops one from the relaying goroutine's hand.
LEMMA CountKept ==
  ASSUME LInv, CountOK, UNCHANGED <<terminal, caught, channel, holding, got, sent, pressed>>,
         relay' = "send" => relay = "send"
  PROVE  CountOK'
<1> SUFFICES ASSUME NEW s \in Signal
             PROVE  got'[s] + (IF ShouldForward(s) THEN OnItsWay(s) ELSE 0)' <= sent'[s] + Doubled(s)'
  BY DEF CountOK
<1>1. ShouldForward(s)' = ShouldForward(s) /\ Doubled(s)' = Doubled(s)
  BY DEF ShouldForward, Interactive, Doubled, Misjudged, Attached
<1>2. Caught(s)' = Caught(s) /\ Held(s)' \in {0, Held(s)}
  BY DEF Caught, Held
<1>3. Positions(channel', s) = Positions(channel, s)
  BY DEF Positions
<1> QED
  BY <1>1, <1>2, <1>3, Numbers DEF OnItsWay, CountOK

\* Counting one signal more.
LEMMA Bump ==
  ASSUME NEW f, \A y \in Signal : f[y] \in Nat, DOMAIN f = Signal,
         NEW x \in Signal, NEW s \in Signal
  PROVE  [f EXCEPT ![x] = @ + 1][s] = f[s] + (IF x = s THEN 1 ELSE 0)
<1>1. CASE x = s
  BY <1>1
<1>2. CASE x # s
  BY <1>2
<1> QED
  BY <1>1, <1>2

LEMMA CountStep ==
  ASSUME LInv, LInv', CountOK, [Next]_vars
  PROVE  CountOK'
<1>1. CASE Start \/ Notify \/ Wait \/ Close \/ Exit \/ Leave \/ ChildEnds \/ UNCHANGED vars
  BY <1>1, CountKept DEF Start, Notify, Wait, Close, Exit, Leave, ChildEnds, vars
<1> SUFFICES ASSUME NEW s \in Signal,
                    terminal' = terminal
             PROVE  got'[s] + (IF ShouldForward(s) THEN OnItsWay(s) ELSE 0)' <= sent'[s] + Doubled(s)'
  BY DEF CountOK, Next, vars, Start, Notify, Wait, Close, Exit, Take, Leave, Send, HandOver,
     Supervise, Press, ChildEnds
<1>a. ShouldForward(s)' = ShouldForward(s)
  BY DEF ShouldForward, Interactive
<1>b. got[s] + (IF ShouldForward(s) THEN OnItsWay(s) ELSE 0) <= sent[s] + Doubled(s)
  BY DEF CountOK
<1>c. pressed' = pressed => Doubled(s)' = Doubled(s)
  BY DEF Doubled, Misjudged, Attached, Interactive
<1>d. Doubled(s) \in Nat
  BY Numbers
<1>2. CASE Take
  <2>1. channel \in Seq(Signal) /\ channel # <<>>
    BY <1>2 DEF Take, LInv, TypeOK
  <2>2. Cardinality(Positions(channel, s))
          = Cardinality(Positions(channel', s)) + (IF Head(channel) = s THEN 1 ELSE 0)
    BY <1>2, <2>1, PositionsTail DEF Take
  <2>3. ShouldForward(s) => Held(s)' = IF Head(channel) = s THEN 1 ELSE 0
    BY <1>2 DEF Take, Held
  <2>4. Held(s) = 0 /\ Caught(s)' = Caught(s) /\ UNCHANGED <<got, sent, pressed>>
    BY <1>2 DEF Take, Held, Caught
  <2>5. /\ got[s] \in Nat /\ sent[s] \in Nat /\ Caught(s) \in 0..1
        /\ Cardinality(Positions(channel, s)) \in Nat
        /\ Cardinality(Positions(channel', s)) \in Nat
    BY Numbers, PositionsFinite DEF LInv, TypeOK
  <2> QED
    BY <1>a, <1>b, <1>c, <1>d, <2>2, <2>3, <2>4, <2>5 DEF OnItsWay
<1>3. CASE Send
  <2>1. /\ holding \in Signal /\ ShouldForward(holding)
        /\ UNCHANGED <<caught, channel, sent, pressed>>
    BY <1>3 DEF Send, LInv, LifeOK
  <2>2. Held(s) = (IF holding = s THEN 1 ELSE 0) /\ Held(s)' = 0 /\ Caught(s)' = Caught(s)
    BY <1>3, <2>1 DEF Send, Held, Caught
  <2>3. got'[s] = got[s] \/ (holding = s /\ got'[s] = got[s] + 1)
    BY <1>3, <2>1 DEF Send, LInv, TypeOK
  <2>4. Positions(channel', s) = Positions(channel, s)
    BY <2>1 DEF Positions
  <2> QED
    BY <1>a, <1>b, <1>c, <1>d, <2>1, <2>2, <2>3, <2>4, Numbers DEF OnItsWay
<1>4. CASE HandOver
  <2>1. PICK x \in caught :
          /\ caught' = caught \ {x}
          /\ channel' = IF Len(channel) < Buffer THEN Append(channel, x) ELSE channel
    BY <1>4 DEF HandOver
  <2>2. /\ channel \in Seq(Signal) /\ x \in Signal
        /\ UNCHANGED <<relay, holding, got, sent, pressed>>
    BY <1>4 DEF HandOver, LInv, TypeOK
  <2>3. Cardinality(Positions(channel', s))
          \in {Cardinality(Positions(channel, s)),
              Cardinality(Positions(channel, s)) + (IF x = s THEN 1 ELSE 0)}
    BY <2>1, <2>2, PositionsAppend
  <2>4. Caught(s) = Caught(s)' + (IF x = s THEN 1 ELSE 0)
    BY <2>1 DEF Caught
  <2>5. Held(s)' = Held(s)
    BY <2>2 DEF Held
  <2>6. Caught(s)' \in 0..1
    BY DEF Caught
  <2>7. OnItsWay(s)' <= OnItsWay(s) /\ OnItsWay(s)' \in Nat /\ OnItsWay(s) \in Nat
    <3>1. Cardinality(Positions(channel', s)) \in Nat
      BY PositionsFinite DEF LInv, TypeOK
    <3> QED
      BY <2>3, <2>4, <2>5, <2>6, <3>1, Numbers DEF OnItsWay
  <2>8. Doubled(s)' = Doubled(s) /\ got'[s] = got[s] /\ sent'[s] = sent[s]
    BY <1>c, <2>2
  <2> QED
    BY <1>a, <1>b, <1>d, <2>7, <2>8, Numbers
<1>5. ASSUME NEW x \in Signal, Supervise(x) \/ Press(x)
      PROVE  got'[s] + (IF ShouldForward(s) THEN OnItsWay(s) ELSE 0)' <= sent'[s] + Doubled(s)'
  <2>1. /\ sent'[s] = sent[s] + (IF x = s THEN 1 ELSE 0)
        /\ UNCHANGED <<holding, channel>>
    <3>1. /\ sent' = [sent EXCEPT ![x] = @ + 1]
          /\ UNCHANGED <<holding, channel>>
      BY <1>5 DEF Supervise, Press
    <3>2. DOMAIN sent = Signal /\ \A y \in Signal : sent[y] \in Nat
      BY Numbers DEF LInv, TypeOK
    <3> QED
      BY <3>1, <3>2, Bump
  <2>2. Caught(s)' <= Caught(s) + (IF x = s THEN 1 ELSE 0) /\ Caught(s)' \in 0..1
    BY <1>5 DEF Supervise, Press, Reach, Caught
  <2>3. Held(s)' \in {0, Held(s)}
    BY <1>5, <2>1 DEF Supervise, Press, Reach, Held
  <2>4. Positions(channel', s) = Positions(channel, s)
    BY <2>1 DEF Positions
  <2>5. got'[s] \in {got[s], got[s] + (IF x = s THEN 1 ELSE 0)}
    <3>1. got' = got \/ got' = [got EXCEPT ![x] = @ + 1]
      BY <1>5 DEF Supervise, Press
    <3>2. DOMAIN got = Signal /\ \A y \in Signal : got[y] \in Nat
      BY Numbers DEF LInv, TypeOK
    <3> QED
      BY <3>1, <3>2, Bump
  <2>6. CASE Press(x)
    <3>1. Doubled(s)' = Doubled(s) + (IF Misjudged /\ x = s THEN 1 ELSE 0)
      <4>1. pressed' = [pressed EXCEPT ![x] = @ + 1]
        BY <2>6 DEF Press
      <4>2. DOMAIN pressed = Signal /\ \A y \in Signal : pressed[y] \in Nat
        BY DEF LInv, TypeOK
      <4>3. pressed'[s] = pressed[s] + (IF x = s THEN 1 ELSE 0)
        BY <4>1, <4>2, Bump
      <4>4. Misjudged' = Misjudged
        BY DEF Misjudged, Attached, Interactive
      <4> QED
        BY <4>2, <4>3, <4>4 DEF Doubled
    <3>2. x = s /\ ShouldForward(s) => Misjudged
      BY <2>6 DEF Press, ShouldForward, Misjudged
    <3> QED
      BY <1>a, <1>b, <1>d, <2>1, <2>2, <2>3, <2>4, <2>5, <3>1, <3>2, Numbers DEF OnItsWay
  <2>7. CASE Supervise(x)
    <3>1. UNCHANGED <<got, pressed>>
      BY <2>7 DEF Supervise
    <3> QED
      BY <1>a, <1>b, <1>c, <1>d, <2>1, <2>2, <2>3, <2>4, <3>1, Numbers DEF OnItsWay
  <2> QED
    BY <1>5, <2>6, <2>7
<1> QED
  BY <1>1, <1>2, <1>3, <1>4, <1>5 DEF Next, CountOK

\* With any terminal, any standard input and any supervisor the child receives no signal
\* more often than it was sent, whatever the runtime drops and the relay repeats - but for
\* the presses of a key in the foreground of a terminal that redirected standard input
\* hides from stdinIsTerminal (service.go): each of those arrives twice at most.
THEOREM OnceOnly == Spec => []DeliveredOnce
<1>1. Init => CountOK
  <2> SUFFICES ASSUME Init, NEW s \in Signal
               PROVE  got[s] + (IF ShouldForward(s) THEN OnItsWay(s) ELSE 0) <= sent[s] + Doubled(s)
    BY DEF CountOK
  <2>1. Positions(channel, s) = {}
    BY DEF Init, Positions
  <2>2. Cardinality(Positions(channel, s)) = 0
    BY <2>1, FS_EmptySet
  <2> QED
    BY <2>2 DEF Init, OnItsWay, Caught, Held, Doubled
<1>2. LInv /\ LInv' /\ CountOK /\ [Next]_vars => CountOK'
  BY CountStep
<1>3. LInv /\ CountOK => DeliveredOnce
  <2> SUFFICES ASSUME LInv, CountOK, NEW s \in Signal
               PROVE  got[s] <= sent[s] + (IF Misjudged THEN pressed[s] ELSE 0)
    BY DEF DeliveredOnce
  <2>1. got[s] + (IF ShouldForward(s) THEN OnItsWay(s) ELSE 0) <= sent[s] + Doubled(s)
    BY DEF CountOK
  <2>2. got[s] <= sent[s] + Doubled(s)
    BY <2>1, Numbers DEF OnItsWay
  <2> QED
    BY <2>2 DEF Doubled
<1> QED
  BY <1>1, <1>2, <1>3, Life, PTL DEF Spec
================================================================================
