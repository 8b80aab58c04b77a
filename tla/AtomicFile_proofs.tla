--------------------------- MODULE AtomicFile_proofs ---------------------------
(***************************************************************************)
(* AtomicFile keeps its target whole, its private bytes private, its mode  *)
(* and its directory clean, and implements a register, for any number of   *)
(* writers, readers, contents and blocks, with writers that fail or are    *)
(* killed anywhere.                                                        *)
(***************************************************************************)
EXTENDS AtomicFile, TLAPS

--------------------------------------------------------------------------------
(* The inductive invariant *)

\* The mode that a replacement has to give the target now.
Promised == IF private THEN Private
            ELSE IF target = NoFile THEN Default ELSE file[target].mode

\* A file holds a content that may be written there.
Holds(f) == file[f].content \in Content \cup {Old}

\* A writer's temporary file is named as such, is not the target, and is ready to be
\* renamed once its mode is set.
WriterOK(w) ==
  /\ writer[w].pc \in {"idle", "create"} => writer[w].tmp = NoFile
  /\ writer[w].pc \in {"create", "write", "rename"} => writer[w].content \in Content
  /\ writer[w].pc \in {"write", "rename"} =>
       /\ writer[w].tmp \in temps
       /\ file[writer[w].tmp].content = writer[w].content
  /\ writer[w].pc = "cleanup" => writer[w].tmp \in File
  /\ writer[w].pc \in {"create", "write", "rename"} => writer[w].perm = Promised
  /\ writer[w].pc = "rename" =>
       IsWhole(writer[w].tmp) /\ file[writer[w].tmp].mode = Promised

\* A reader has opened a whole file, or has come to the end of one, or has found none.
ReaderOK(r) ==
  /\ reader[r].pc = "open" => reader[r].open # NoFile
  /\ reader[r].open # NoFile =>
       /\ IsWhole(reader[r].open) /\ Holds(reader[r].open)
       /\ reader[r].pc = "closed" => reader[r].blocks = Size

\* No two writers share a temporary file, so that nobody writes to what another
\* one renames, or removes it.
Apart ==
  \A v, w \in Writer : v # w /\ writer[v].tmp = writer[w].tmp => writer[v].tmp = NoFile

IInv ==
  /\ TypeOK
  /\ TargetWhole /\ target \notin temps
  /\ target # NoFile => Holds(target)
  /\ NeverExposed
  /\ NoLitter
  /\ Apart
  /\ \A w \in Writer : WriterOK(w)
  /\ \A r \in Reader : ReaderOK(r)

--------------------------------------------------------------------------------
(* The steps *)

LEMMA InitInv == Init => IInv
<1> SUFFICES ASSUME Init PROVE IInv
  OBVIOUS
<1> USE FileAssumption DEF Init, Unused, Resting, Closed
<1>1. TypeOK
  BY DEF TypeOK
<1>2. TargetWhole /\ target \notin temps /\ (target # NoFile => Holds(target))
  BY DEF TargetWhole, IsWhole, Holds
<1>3. NeverExposed
  BY DEF NeverExposed
<1>4. NoLitter /\ Apart
  BY DEF NoLitter, Apart
<1>5. \A w \in Writer : WriterOK(w)
  BY DEF WriterOK
<1>6. \A r \in Reader : ReaderOK(r)
  BY DEF ReaderOK
<1> QED
  BY <1>1, <1>2, <1>3, <1>4, <1>5, <1>6 DEF IInv

LEMMA StatInv == ASSUME IInv, NEW w \in Writer, Stat(w) PROVE IInv'
<1> USE FileAssumption DEF Stat, IInv
<1>1. TypeOK'
  BY DEF TypeOK
<1>2. (TargetWhole /\ target \notin temps /\ (target # NoFile => Holds(target)))'
  BY DEF TargetWhole, IsWhole, Holds
<1>3. NeverExposed'
  BY DEF NeverExposed
<1>4. NoLitter' /\ Apart'
  BY DEF NoLitter, Apart, TypeOK, WriterOK
<1>5. \A v \in Writer : WriterOK(v)'
  BY DEF WriterOK, TypeOK, IsWhole, Promised
<1>6. \A r \in Reader : ReaderOK(r)'
  BY DEF ReaderOK, IsWhole, Holds
<1> QED
  BY <1>1, <1>2, <1>3, <1>4, <1>5, <1>6

LEMMA CreateTempInv == ASSUME IInv, NEW w \in Writer, CreateTemp(w) PROVE IInv'
<1> USE FileAssumption DEF CreateTemp, IInv, Unused
<1>1. TypeOK'
  BY DEF TypeOK
<1>2. (TargetWhole /\ target \notin temps /\ (target # NoFile => Holds(target)))'
  BY DEF TypeOK, TargetWhole, IsWhole, Holds, WriterOK
<1>3. NeverExposed'
  BY DEF TypeOK, NeverExposed, WriterOK, Promised
<1>4. NoLitter' /\ Apart'
  BY DEF TypeOK, NoLitter, Apart, WriterOK
<1>5. \A v \in Writer : WriterOK(v)'
  BY DEF TypeOK, WriterOK, IsWhole, Promised, Apart
<1>6. \A r \in Reader : ReaderOK(r)'
  BY DEF TypeOK, ReaderOK, WriterOK, IsWhole, Holds
<1> QED
  BY <1>1, <1>2, <1>3, <1>4, <1>5, <1>6

LEMMA WriteBlockInv == ASSUME IInv, NEW w \in Writer, WriteBlock(w) PROVE IInv'
<1> USE FileAssumption DEF WriteBlock, IInv
<1>1. TypeOK'
  BY DEF TypeOK, WriterOK
<1>2. (TargetWhole /\ target \notin temps /\ (target # NoFile => Holds(target)))'
  BY DEF TypeOK, TargetWhole, IsWhole, Holds, WriterOK
<1>3. NeverExposed'
  BY DEF TypeOK, NeverExposed, WriterOK, Promised
<1>4. NoLitter' /\ Apart'
  BY DEF TypeOK, NoLitter, Apart, WriterOK
<1>5. \A v \in Writer : WriterOK(v)'
  BY DEF TypeOK, WriterOK, IsWhole, Promised, Apart
<1>6. \A r \in Reader : ReaderOK(r)'
  BY DEF TypeOK, ReaderOK, WriterOK, IsWhole, Holds
<1> QED
  BY <1>1, <1>2, <1>3, <1>4, <1>5, <1>6

LEMMA ChmodInv == ASSUME IInv, NEW w \in Writer, Chmod(w) PROVE IInv'
<1> USE FileAssumption DEF Chmod, IInv
<1>1. TypeOK'
  BY DEF TypeOK, WriterOK
<1>2. (TargetWhole /\ target \notin temps /\ (target # NoFile => Holds(target)))'
  BY DEF TypeOK, TargetWhole, IsWhole, Holds, WriterOK
<1>3. NeverExposed'
  BY DEF TypeOK, NeverExposed, WriterOK, Promised
<1>4. NoLitter' /\ Apart'
  BY DEF TypeOK, NoLitter, Apart, WriterOK
<1>5. \A v \in Writer : WriterOK(v)'
  BY DEF TypeOK, WriterOK, IsWhole, Promised, Apart
<1>6. \A r \in Reader : ReaderOK(r)'
  BY DEF TypeOK, ReaderOK, WriterOK, IsWhole, Holds
<1> QED
  BY <1>1, <1>2, <1>3, <1>4, <1>5, <1>6

LEMMA RenameInv == ASSUME IInv, NEW w \in Writer, Rename(w) PROVE IInv'
<1> USE FileAssumption DEF Rename, IInv
<1>1. TypeOK'
  BY DEF TypeOK, WriterOK
<1>2. (TargetWhole /\ target \notin temps /\ (target # NoFile => Holds(target)))'
  BY DEF TypeOK, TargetWhole, IsWhole, Holds, WriterOK
<1>3. NeverExposed'
  BY DEF TypeOK, NeverExposed, WriterOK, Promised
<1>4. NoLitter' /\ Apart'
  BY DEF TypeOK, NoLitter, Apart, WriterOK
<1>5. \A v \in Writer : WriterOK(v)'
  BY DEF TypeOK, WriterOK, IsWhole, Promised, Apart
<1>6. \A r \in Reader : ReaderOK(r)'
  BY DEF TypeOK, ReaderOK, WriterOK, IsWhole, Holds
<1> QED
  BY <1>1, <1>2, <1>3, <1>4, <1>5, <1>6

LEMMA FailInv == ASSUME IInv, NEW w \in Writer, Fail(w) PROVE IInv'
<1> USE FileAssumption DEF Fail, IInv, Resting
<1>1. TypeOK'
  BY DEF TypeOK
<1>2. (TargetWhole /\ target \notin temps /\ (target # NoFile => Holds(target)))'
  BY DEF TypeOK, TargetWhole, IsWhole, Holds, WriterOK
<1>3. NeverExposed'
  BY DEF TypeOK, NeverExposed, WriterOK, Promised
<1>4. NoLitter' /\ Apart'
  BY DEF TypeOK, NoLitter, Apart, WriterOK
<1>5. \A v \in Writer : WriterOK(v)'
  <2>1. ASSUME NEW v \in Writer, v # w PROVE WriterOK(v)'
    <3>1. writer'[v] = writer[v] /\ WriterOK(v)
      BY <2>1 DEF TypeOK
    <3> QED
      BY <3>1 DEF WriterOK, IsWhole, Promised
  <2>2. WriterOK(w)'
    <3>1. \/ writer'[w] = Resting
          \/ writer[w].pc \in {"write", "rename"} /\ writer'[w] = [writer[w] EXCEPT !.pc = "cleanup"]
      BY DEF TypeOK
    <3>2. CASE writer'[w] = Resting
      BY <3>2 DEF WriterOK
    <3>3. CASE writer[w].pc \in {"write", "rename"} /\ writer'[w] = [writer[w] EXCEPT !.pc = "cleanup"]
      BY <3>3 DEF TypeOK, WriterOK
    <3> QED
      BY <3>1, <3>2, <3>3
  <2> QED
    BY <2>1, <2>2
<1>6. \A r \in Reader : ReaderOK(r)'
  BY DEF TypeOK, ReaderOK, WriterOK, IsWhole, Holds
<1> QED
  BY <1>1, <1>2, <1>3, <1>4, <1>5, <1>6

LEMMA CleanupInv == ASSUME IInv, NEW w \in Writer, Cleanup(w) PROVE IInv'
<1> USE FileAssumption DEF Cleanup, IInv, Resting
<1>1. TypeOK'
  BY DEF TypeOK
<1>2. (TargetWhole /\ target \notin temps /\ (target # NoFile => Holds(target)))'
  BY DEF TypeOK, TargetWhole, IsWhole, Holds, WriterOK
<1>3. NeverExposed'
  BY DEF TypeOK, NeverExposed, WriterOK, Promised
<1>4. NoLitter' /\ Apart'
  BY DEF TypeOK, NoLitter, Apart, WriterOK
<1>5. \A v \in Writer : WriterOK(v)'
  BY DEF TypeOK, WriterOK, IsWhole, Promised, Apart
<1>6. \A r \in Reader : ReaderOK(r)'
  BY DEF TypeOK, ReaderOK, WriterOK, IsWhole, Holds
<1> QED
  BY <1>1, <1>2, <1>3, <1>4, <1>5, <1>6

LEMMA KillInv == ASSUME IInv, NEW w \in Writer, Kill(w) PROVE IInv'
<1> USE FileAssumption DEF Kill, IInv, Resting
<1>1. TypeOK'
  BY DEF TypeOK
<1>2. (TargetWhole /\ target \notin temps /\ (target # NoFile => Holds(target)))'
  BY DEF TypeOK, TargetWhole, IsWhole, Holds, WriterOK
<1>3. NeverExposed'
  BY DEF TypeOK, NeverExposed, WriterOK, Promised
<1>4. NoLitter' /\ Apart'
  BY DEF TypeOK, NoLitter, Apart, WriterOK
<1>5. \A v \in Writer : WriterOK(v)'
  BY DEF TypeOK, WriterOK, IsWhole, Promised, Apart
<1>6. \A r \in Reader : ReaderOK(r)'
  BY DEF TypeOK, ReaderOK, WriterOK, IsWhole, Holds
<1> QED
  BY <1>1, <1>2, <1>3, <1>4, <1>5, <1>6

LEMMA OpenInv == ASSUME IInv, NEW q \in Reader, Open(q) PROVE IInv'
<1> USE FileAssumption DEF Open, IInv
<1>1. TypeOK'
  BY DEF TypeOK, ReaderOK, IsWhole
<1>2. (TargetWhole /\ target \notin temps /\ (target # NoFile => Holds(target)))'
  BY DEF TypeOK, TargetWhole, IsWhole, Holds, WriterOK
<1>3. NeverExposed'
  BY DEF TypeOK, NeverExposed, WriterOK, Promised
<1>4. NoLitter' /\ Apart'
  BY DEF TypeOK, NoLitter, Apart, WriterOK
<1>5. \A v \in Writer : WriterOK(v)'
  BY DEF TypeOK, WriterOK, IsWhole, Promised, Apart
<1>6. \A r \in Reader : ReaderOK(r)'
  BY DEF TypeOK, ReaderOK, IsWhole, Holds, TargetWhole
<1> QED
  BY <1>1, <1>2, <1>3, <1>4, <1>5, <1>6

LEMMA ReadBlockInv == ASSUME IInv, NEW q \in Reader, ReadBlock(q) PROVE IInv'
<1> USE FileAssumption DEF ReadBlock, IInv
<1>1. TypeOK'
  BY DEF TypeOK, ReaderOK, IsWhole
<1>2. (TargetWhole /\ target \notin temps /\ (target # NoFile => Holds(target)))'
  BY DEF TypeOK, TargetWhole, IsWhole, Holds, WriterOK
<1>3. NeverExposed'
  BY DEF TypeOK, NeverExposed, WriterOK, Promised
<1>4. NoLitter' /\ Apart'
  BY DEF TypeOK, NoLitter, Apart, WriterOK
<1>5. \A v \in Writer : WriterOK(v)'
  BY DEF TypeOK, WriterOK, IsWhole, Promised, Apart
<1>6. \A r \in Reader : ReaderOK(r)'
  BY DEF TypeOK, ReaderOK, IsWhole, Holds, TargetWhole
<1> QED
  BY <1>1, <1>2, <1>3, <1>4, <1>5, <1>6

LEMMA EndReadInv == ASSUME IInv, NEW q \in Reader, EndRead(q) PROVE IInv'
<1> USE FileAssumption DEF EndRead, IInv
<1>1. TypeOK'
  BY DEF TypeOK, ReaderOK, IsWhole
<1>2. (TargetWhole /\ target \notin temps /\ (target # NoFile => Holds(target)))'
  BY DEF TypeOK, TargetWhole, IsWhole, Holds, WriterOK
<1>3. NeverExposed'
  BY DEF TypeOK, NeverExposed, WriterOK, Promised
<1>4. NoLitter' /\ Apart'
  BY DEF TypeOK, NoLitter, Apart, WriterOK
<1>5. \A v \in Writer : WriterOK(v)'
  BY DEF TypeOK, WriterOK, IsWhole, Promised, Apart
<1>6. \A r \in Reader : ReaderOK(r)'
  BY DEF TypeOK, ReaderOK, IsWhole, Holds, TargetWhole
<1> QED
  BY <1>1, <1>2, <1>3, <1>4, <1>5, <1>6

LEMMA Inductive == IInv /\ [Next]_vars => IInv'
<1> SUFFICES ASSUME IInv, [Next]_vars PROVE IInv'
  OBVIOUS
<1>1. CASE UNCHANGED vars
  BY <1>1 DEF vars, IInv, TypeOK, TargetWhole, NeverExposed, NoLitter, Apart, WriterOK,
     ReaderOK, IsWhole, Holds, Promised
<1>2. ASSUME NEW w \in Writer,
             \/ Stat(w) \/ CreateTemp(w) \/ WriteBlock(w) \/ Chmod(w)
             \/ Rename(w) \/ Fail(w) \/ Cleanup(w) \/ Kill(w)
      PROVE IInv'
  BY <1>2, StatInv, CreateTempInv, WriteBlockInv, ChmodInv, RenameInv, FailInv, CleanupInv,
     KillInv
<1>3. ASSUME NEW r \in Reader, Open(r) \/ ReadBlock(r) \/ EndRead(r) PROVE IInv'
  BY <1>3, OpenInv, ReadBlockInv, EndReadInv
<1> QED
  BY <1>1, <1>2, <1>3 DEF Next

LEMMA Invariance == Spec => []IInv
BY InitInv, Inductive, PTL DEF Spec

--------------------------------------------------------------------------------
(* The theorems *)

\* Every variable of the model has its type, for any instance.
THEOREM TypeCorrect == Spec => []TypeOK
<1>1. IInv => TypeOK
  BY DEF IInv
<1> QED
  BY <1>1, Invariance, PTL

\* Wherever writers fail or are killed (utils/filex/writeAtomic.go), the target is one
\* complete content.
THEOREM Whole == Spec => []TargetWhole
<1>1. IInv => TargetWhole
  BY DEF IInv
<1> QED
  BY <1>1, Invariance, PTL

\* WriteAtomicPrivate never lets a byte be read by others, in no file it leaves behind.
THEOREM Privacy == Spec => []NeverExposed
<1>1. IInv => NeverExposed
  BY DEF IInv
<1> QED
  BY <1>1, Invariance, PTL

\* Every error path of writeAtomic removes its own temporary file and no other's.
THEOREM Clean == Spec => []NoLitter
<1>1. IInv => NoLitter
  BY DEF IInv
<1> QED
  BY <1>1, Invariance, PTL

\* fileMode asks for the target's mode long before the rename; whoever renames in
\* between, the mode given is still the one promised.
THEOREM ModePreserved == Spec => ModeKept
<1>1. ASSUME IInv, [Next]_vars, target' # target
      PROVE  file[target'].mode = CASE private -> Private
                                    [] ~private /\ target = NoFile -> Default
                                    [] OTHER -> file[target].mode
  <2>1. PICK w \in Writer : Rename(w)
    BY <1>1 DEF Next, vars, Stat, CreateTemp, WriteBlock, Chmod, Fail, Cleanup, Kill, Open,
       ReadBlock, EndRead
  <2>2. target' = writer[w].tmp /\ file[writer[w].tmp].mode = Promised
    BY <1>1, <2>1 DEF Rename, IInv, WriterOK
  <2> QED
    BY <2>2, <1>1 DEF Promised, IInv, TypeOK
<1> QED
  BY <1>1, Invariance, PTL DEF Spec, ModeKept

--------------------------------------------------------------------------------
(* The register *)

\* The mapped variables of FileRegister.
Value == IF target = NoFile THEN Absent ELSE Seen(target, file[target].blocks)
Got == [r \in Reader |-> Seen(reader[r].open,
                              IF reader[r].pc = "open" THEN Size ELSE reader[r].blocks)]

\* What they are when no read is torn.
Untorn ==
  /\ Value = IF target = NoFile THEN Absent ELSE file[target].content
  /\ Got = [r \in Reader |-> IF reader[r].open = NoFile THEN Absent
                             ELSE file[reader[r].open].content]

LEMMA Mapped == IInv => Untorn
<1> HAVE IInv
<1>1. target # NoFile => file[target].blocks = Size
  BY DEF IInv, TargetWhole, IsWhole
<1>2. \A r \in Reader : reader[r].open # NoFile /\ reader[r].pc # "open" => reader[r].blocks = Size
  BY DEF IInv, TypeOK, ReaderOK
<1> QED
  BY <1>1, <1>2 DEF Untorn, Value, Got, Seen

\* A step leaves the contents of what is whole as they are.
LEMMA Unchanging ==
  ASSUME IInv, [Next]_vars, NEW f \in File, IsWhole(f)
  PROVE  file'[f].content = file[f].content
<1>1. file[f] # Unused
  BY FileAssumption DEF IsWhole, Unused
<1>2. CASE UNCHANGED file
  BY <1>2
<1>3. ASSUME NEW w \in Writer, CreateTemp(w) PROVE file'[f].content = file[f].content
  BY <1>1, <1>3 DEF CreateTemp, IInv, TypeOK
<1>4. ASSUME NEW w \in Writer, WriteBlock(w) \/ Chmod(w)
      PROVE  file'[f].content = file[f].content
  <2>1. file \in [File -> [content : Content \cup {Old, NoContent}, blocks : 0..Size, mode : Mode]]
    BY DEF IInv, TypeOK
  <2>2. CASE WriteBlock(w)
    BY <2>1, <2>2 DEF WriteBlock
  <2>3. CASE Chmod(w)
    BY <2>1, <2>3 DEF Chmod
  <2> QED
    BY <1>4, <2>2, <2>3
<1> QED
  BY <1>2, <1>3, <1>4 DEF Next, vars, Stat, Rename, Fail, Cleanup, Kill, Open, ReadBlock, EndRead

\* The files that readers have opened keep their contents, and so does the target
\* unless it is renamed over.
LEMMA OpenKept ==
  ASSUME IInv, [Next]_vars
  PROVE  /\ target # NoFile => file'[target].content = file[target].content
         /\ \A r \in Reader : reader[r].open # NoFile =>
              file'[reader[r].open].content = file[reader[r].open].content
<1>1. target # NoFile => target \in File /\ IsWhole(target)
  BY DEF IInv, TypeOK, TargetWhole
<1>2. \A r \in Reader : reader[r].open # NoFile =>
        reader[r].open \in File /\ IsWhole(reader[r].open)
  BY DEF IInv, TypeOK, ReaderOK
<1> QED
  BY <1>1, <1>2, Unchanging

\* Every step of writers and readers is a step of the register: a rename writes, an
\* open reads, and everything else is invisible.
LEMMA RegisterStep ==
  ASSUME IInv, Untorn, Untorn', [Next]_vars
  PROVE  [(\E c \in Content \cup {Old} : Value' = c /\ Got' = Got)
          \/ (\E r \in Reader : Got' = [Got EXCEPT ![r] = Value] /\ Value' = Value)]_<<Value, Got>>
<1>0. /\ target # NoFile => file'[target].content = file[target].content
      /\ \A r \in Reader : reader[r].open # NoFile =>
           file'[reader[r].open].content = file[reader[r].open].content
  BY OpenKept
<1>1. CASE target' = target /\ \A r \in Reader : reader'[r].open = reader[r].open
  BY <1>1, <1>0 DEF Untorn
<1>2. ASSUME NEW w \in Writer, Rename(w)
      PROVE  \E c \in Content \cup {Old} : Value' = c /\ Got' = Got
  <2>1. target' = writer[w].tmp /\ writer[w].tmp \in File /\ UNCHANGED <<file, reader>>
    BY <1>2 DEF Rename, IInv, TypeOK, WriterOK
  <2>2. file[writer[w].tmp].content \in Content
    BY <1>2 DEF Rename, IInv, WriterOK
  <2>3. Value' = file[writer[w].tmp].content
    BY <2>1, FileAssumption DEF Untorn
  <2>4. Got' = Got
    BY <2>1 DEF Untorn
  <2> QED
    BY <2>2, <2>3, <2>4
<1>3. ASSUME NEW q \in Reader, Open(q)
      PROVE  Got' = [Got EXCEPT ![q] = Value] /\ Value' = Value
  <2>1. /\ UNCHANGED <<target, file>>
        /\ \A r \in Reader : reader'[r].open = IF r = q THEN target ELSE reader[r].open
    BY <1>3 DEF Open, IInv, TypeOK
  <2>2. Value' = Value
    BY <2>1 DEF Untorn
  <2>3. Got' = [r \in Reader |-> IF r = q THEN Value ELSE Got[r]]
    BY <2>1 DEF Untorn
  <2>4. Got = [r \in Reader |-> Got[r]]
    BY DEF Got
  <2> QED
    BY <2>2, <2>3, <2>4
<1>4. ASSUME NEW r \in Reader, ReadBlock(r) \/ EndRead(r)
      PROVE  target' = target /\ \A q \in Reader : reader'[q].open = reader[q].open
  <2>1. reader \in [Reader -> [pc : {"closed", "open"}, open : File \cup {NoFile}, blocks : 0..Size]]
    BY DEF IInv, TypeOK
  <2>2. CASE ReadBlock(r)
    BY <2>1, <2>2 DEF ReadBlock
  <2>3. CASE EndRead(r)
    BY <2>1, <2>3 DEF EndRead
  <2> QED
    BY <1>4, <2>2, <2>3
<1> QED
  BY <1>1, <1>2, <1>3, <1>4 DEF Next, vars, Stat, CreateTemp, WriteBlock, Chmod, Fail, Cleanup,
     Kill

\* writers and readers (utils/filex), killed and failing anywhere, implement an atomic
\* register: "readers see either the old contents or the complete new contents".
THEOREM Refines == Spec => RegisterSpec
<1>1. Init => Register!Init
  <2> SUFFICES ASSUME Init PROVE Register!Init
    OBVIOUS
  <2>1. IInv
    BY InitInv
  <2>2. Got = [r \in Reader |-> Absent] /\ Value \in Content \cup {Old} \cup {Absent}
    BY <2>1, Mapped DEF Untorn, Init, Closed, IInv, Holds
  <2> QED
    BY <2>2 DEF Register!Init, Value, Got
<1>2. IInv /\ Untorn /\ Untorn' /\ [Next]_vars => [Register!Next]_<<Value, Got>>
  BY RegisterStep DEF Register!Next, Register!Write, Register!Read, Value, Got
<1> QED
  BY <1>1, <1>2, Invariance, Mapped, PTL DEF Spec, RegisterSpec, Register!Spec, Value, Got
================================================================================
