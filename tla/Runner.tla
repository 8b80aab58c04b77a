--------------------------------- MODULE Runner ---------------------------------
(***************************************************************************)
(* envx run: a supervisor of one child process (features/runner).          *)
(*                                                                         *)
(* Service.Run starts the child, then installs its signal handlers, relays *)
(* what arrives from a goroutine, waits for the child and exits with its   *)
(* status.  The goroutine and the waiting main goroutine interleave with   *)
(* the child, with the kernel and with whoever sends signals.              *)
(*                                                                         *)
(* A signal is sent to envx alone (a supervisor) or, when a key is pressed *)
(* on the terminal whose foreground job envx is, to envx and the child     *)
(* (Ctrl+C, Ctrl+\).  A pending signal is not queued twice.  The Go        *)
(* runtime hands it to the channel, and drops it when the buffer is full.  *)
(***************************************************************************)
EXTENDS Naturals, Sequences

CONSTANTS
  Signal,      \* the signals Run watches
  TtySignal,   \* those the terminal sends to the whole job: SIGINT and SIGQUIT
  Number,      \* Number[s]: the number of signal s
  Buffer,      \* capacity of the signal channel
  Terminal,    \* the pairs <<envx is the foreground job of a terminal,
               \*             standard input is a character device>> it may run with
  MaxSends,    \* bound: how often each signal is sent
  Codes        \* exit codes of the child

ASSUME RunnerAssumption ==
  /\ TtySignal \subseteq Signal
  /\ Number \in [Signal -> Nat \ {0}]
  /\ Buffer \in Nat
  /\ Terminal \subseteq BOOLEAN \X BOOLEAN
  /\ MaxSends \in Nat
  /\ Codes \subseteq Nat

VARIABLES
  terminal,  \* how envx was started (fixed)
  main,      \* the main goroutine: "start", "notify", "wait", "close", "exit", "gone"
  relay,     \* the relaying goroutine: "none", "select", "send", "done"
  holding,   \* the signal the relaying goroutine has taken from the channel
  caught,    \* signals the runtime has caught and not yet handed over
  channel,   \* sigCh
  child,     \* "none", "running", "ended" (not yet waited for), "reaped"
  status,    \* how the child ended
  code,      \* the exit code of envx
  sent,      \* history: how often each signal was sent
  pressed,   \* history: how often by a key on the terminal
  got        \* history: how often the child received each signal

vars == <<terminal, main, relay, holding, caught, channel, child, status, code, sent, pressed, got>>

NoSignal == "none"
Running  == [kind |-> "running"]
Exited(c) == [kind |-> "exited", code |-> c]
Killed(s) == [kind |-> "killed", signal |-> s]
NoCode   == [by |-> "nobody"]
Code(c)  == [by |-> "envx", code |-> c]

Attached    == terminal[1]
Interactive == terminal[2]

Init ==
  /\ terminal \in Terminal
  /\ main = "start" /\ relay = "none" /\ holding = NoSignal
  /\ caught = {} /\ channel = <<>>
  /\ child = "none" /\ status = Running /\ code = NoCode
  /\ sent = [s \in Signal |-> 0] /\ got = [s \in Signal |-> 0]
  /\ pressed = [s \in Signal |-> 0]

--------------------------------------------------------------------------------
(* The main goroutine *)

\* startFailureCode: 127 when the command is not found, else 126.
StartFailures == {Code(126), Code(127)}

\* cmd.Start, or its failure.
Start ==
  /\ main = "start"
  /\ \/ /\ main' = "notify" /\ child' = "running" /\ UNCHANGED code
     \/ /\ main' = "gone" /\ code' \in StartFailures /\ UNCHANGED child
  /\ UNCHANGED <<terminal, relay, holding, caught, channel, status, sent, pressed, got>>

\* signal.Notify, and the relaying goroutine.
Notify ==
  /\ main = "notify"
  /\ main' = "wait" /\ relay' = "select"
  /\ UNCHANGED <<terminal, holding, caught, channel, child, status, code, sent, pressed, got>>

\* Mutant of Wait: waits only for a child that exits.
WaitExited ==
  /\ main = "wait" /\ child = "ended" /\ status.kind = "exited"
  /\ main' = "close" /\ child' = "reaped"
  /\ UNCHANGED <<terminal, relay, holding, caught, channel, status, code, sent, pressed, got>>

\* cmd.Wait returns: the child has ended and is reaped.
Wait ==
  /\ main = "wait" /\ child = "ended"
  /\ main' = "close" /\ child' = "reaped"
  /\ UNCHANGED <<terminal, relay, holding, caught, channel, status, code, sent, pressed, got>>

\* close(waitDone), and the deferred signal.Stop.
Close ==
  /\ main = "close"
  /\ main' = "exit"
  /\ UNCHANGED <<terminal, relay, holding, caught, channel, child, status, code, sent, pressed, got>>

\* Mutant of ExitCode: what ExitCode reports for a signalled process, as a byte.
ExitCodePlain(st) == CASE st.kind = "exited" -> st.code [] st.kind = "killed" -> 255

\* exitCode: a child killed by a signal gives 128 + its number, as in a shell.
ExitCode(st) == CASE st.kind = "exited" -> st.code
                  [] st.kind = "killed" -> 128 + Number[st.signal]

\* run in main.go: os.Exit with the child's code.  The relaying goroutine dies too.
Exit ==
  /\ main = "exit"
  /\ main' = "gone" /\ relay' = "done"
  /\ code' = Code(ExitCode(status))
  /\ UNCHANGED <<terminal, holding, caught, channel, child, status, sent, pressed, got>>

--------------------------------------------------------------------------------
(* The relaying goroutine *)

\* Mutant of ShouldForward: never relays what a terminal could have delivered.
ShouldForwardNotTty(s) == s \notin TtySignal

\* Mutant of ShouldForward: relays what the terminal has already delivered.
ShouldForwardAll(s) == TRUE

ShouldForward(s) == ~(Interactive /\ s \in TtySignal)

\* select: a signal is ready.
Take ==
  /\ relay = "select" /\ channel # <<>>
  /\ channel' = Tail(channel)
  /\ IF ShouldForward(Head(channel)) THEN holding' = Head(channel) /\ relay' = "send"
                                     ELSE UNCHANGED <<holding, relay>>
  /\ UNCHANGED <<terminal, main, caught, child, status, code, sent, pressed, got>>

\* select: waitDone is closed.  When both are ready either may be chosen.
Leave ==
  /\ relay = "select" /\ main = "exit"
  /\ relay' = "done"
  /\ UNCHANGED <<terminal, main, holding, caught, channel, child, status, code, sent, pressed, got>>

\* Process.Signal: without effect on a child that has ended.
Send ==
  /\ relay = "send"
  /\ relay' = "select" /\ holding' = NoSignal
  /\ got' = IF child = "running" THEN [got EXCEPT ![holding] = @ + 1] ELSE got
  /\ UNCHANGED <<terminal, main, caught, channel, child, status, code, sent, pressed>>

--------------------------------------------------------------------------------
(* The kernel and the runtime *)

\* Before signal.Notify and after signal.Stop a signal kills envx.
Watching == main \in {"wait", "close"}

\* Signal s reaches envx.
Reach(s) ==
  IF Watching THEN /\ caught' = caught \cup {s}
                   /\ UNCHANGED <<main, relay, code>>
  ELSE /\ main' = "gone" /\ code' = [by |-> "signal", signal |-> s]
       /\ relay' = (IF relay = "none" THEN "none" ELSE "done")
       /\ UNCHANGED caught

\* A supervisor signals envx alone.
Supervise(s) ==
  /\ main # "gone" /\ sent[s] < MaxSends
  /\ sent' = [sent EXCEPT ![s] = @ + 1]
  /\ Reach(s)
  /\ UNCHANGED <<terminal, holding, channel, child, status, pressed, got>>

\* A key on the terminal signals every process of the foreground job.
Press(s) ==
  /\ Attached /\ s \in TtySignal
  /\ main # "gone" /\ sent[s] < MaxSends
  /\ sent' = [sent EXCEPT ![s] = @ + 1]
  /\ pressed' = [pressed EXCEPT ![s] = @ + 1]
  /\ got' = IF child = "running" THEN [got EXCEPT ![s] = @ + 1] ELSE got
  /\ Reach(s)
  /\ UNCHANGED <<terminal, holding, channel, child, status>>

\* The runtime hands a caught signal to the channel, without blocking.
HandOver ==
  /\ main # "gone"
  /\ \E s \in caught :
       /\ caught' = caught \ {s}
       /\ channel' = IF Len(channel) < Buffer THEN Append(channel, s) ELSE channel
  /\ UNCHANGED <<terminal, main, relay, holding, child, status, code, sent, pressed, got>>

--------------------------------------------------------------------------------
(* The child: it may end by itself or be killed, by whomever *)

ChildEnds ==
  /\ child = "running"
  /\ child' = "ended"
  /\ status' \in {Exited(c) : c \in Codes} \cup {Killed(s) : s \in Signal}
  /\ UNCHANGED <<terminal, main, relay, holding, caught, channel, code, sent, pressed, got>>

Next ==
  \/ Start \/ Notify \/ Wait \/ Close \/ Exit
  \/ Take \/ Leave \/ Send
  \/ HandOver
  \/ \E s \in Signal : Supervise(s) \/ Press(s)
  \/ ChildEnds

\* Goroutines that can run do, and the runtime hands over what it has caught.
\* Nothing makes the child end, and nobody has to send a signal.
Fairness ==
  /\ WF_vars(Start) /\ WF_vars(Notify) /\ WF_vars(Wait) /\ WF_vars(Close) /\ WF_vars(Exit)
  /\ WF_vars(Take) /\ WF_vars(Leave) /\ WF_vars(Send)
  /\ WF_vars(HandOver)

Spec     == Init /\ [][Next]_vars
FairSpec == Spec /\ Fairness

--------------------------------------------------------------------------------
(* Properties *)

TypeOK ==
  /\ terminal \in Terminal
  /\ main \in {"start", "notify", "wait", "close", "exit", "gone"}
  /\ relay \in {"none", "select", "send", "done"}
  /\ holding \in Signal \cup {NoSignal}
  /\ caught \subseteq Signal
  /\ channel \in Seq(Signal) /\ Len(channel) <= Buffer
  /\ child \in {"none", "running", "ended", "reaped"}
  /\ status \in {Running} \cup {Exited(c) : c \in Codes} \cup {Killed(s) : s \in Signal}
  /\ \/ code = NoCode
     \/ code.by = "envx" /\ code.code \in Nat
     \/ code.by = "signal" /\ code.signal \in Signal
  /\ sent \in [Signal -> 0..MaxSends]
  /\ pressed \in [Signal -> Nat]
  /\ got \in [Signal -> Nat]

\* Standard input hides from envx that it is the foreground job of a terminal.
Misjudged == Attached /\ ~Interactive

(***************************************************************************)
(* "A child is never sent a signal the user did not": it receives each     *)
(* signal at most as often as it was sent, by a supervisor or by a key,    *)
(* whatever the runtime drops and the relay repeats.  One key press is     *)
(* made two, and no more, only where standard input is redirected although *)
(* envx runs in the foreground of a terminal: stdinIsTerminal says no, and *)
(* what the terminal has delivered is relayed.                             *)
(***************************************************************************)
DeliveredOnce ==
  \A s \in Signal : got[s] <= sent[s] + (IF Misjudged THEN pressed[s] ELSE 0)

(***************************************************************************)
(* When envx exits by itself after starting the child, the child has ended *)
(* and been reaped, and the code tells how: 0 only for a child that exited *)
(* with 0, and 128 + the number of the signal for a child a signal killed, *)
(* whatever signals envx itself was handling at that moment.               *)
(***************************************************************************)
Mirrored ==
  code.by = "envx" /\ child # "none" =>
    /\ child = "reaped"
    /\ code.code = 0 <=> status = Exited(0)
    /\ status.kind = "killed" => code.code - 128 = Number[status.signal]

\* Catching the signals keeps envx alive: it is never gone while its child runs.
NoOrphan == main = "gone" => child # "running"

\* Once the child has ended envx ends, whatever signals are pending or in hand.
EndsWithChild == child = "ended" ~> main = "gone"

(***************************************************************************)
(* When a supervisor signals an envx without a terminal, signals may drown *)
(* one another, but the child receives one of them unless it ends first.   *)
(***************************************************************************)
Responds ==
  (~Interactive /\ caught # {}) ~> ((\E s \in Signal : got[s] > 0) \/ child # "running")
================================================================================
