------------------------------- MODULE AtomicFile -------------------------------
(***************************************************************************)
(* One file that envx replaces with filex.WriteAtomic or                   *)
(* filex.WriteAtomicPrivate (utils/filex/writeAtomic.go) while other       *)
(* processes read it (filex.Read).                                         *)
(*                                                                         *)
(* A writer fills a temporary file of its own in the same directory, sets  *)
(* its mode, and renames it over the target.  The file system is modelled  *)
(* from how the code uses it: a directory entry names a file, a rename     *)
(* swings the entry at one instant, an open file outlives its entry, and   *)
(* os.CreateTemp makes a fresh file with mode 0600.  A content is Size     *)
(* blocks long and may be written and read block by block.                 *)
(***************************************************************************)
EXTENDS Naturals, FiniteSets

CONSTANTS
  Writer, Reader,
  Content,      \* what writers write, each Size blocks long
  Old,          \* what the file may hold before the first write
  NoContent,    \* nothing written yet
  Size,         \* blocks of a content
  Mode,         \* permission bits, with 0600 and 0644 among them
  Private,      \* 0600
  Default,      \* 0644
  File,         \* files the file system can make (bound on the writes)
  NoFile,
  Kills,        \* TRUE: a writer may be killed at any step
  Absent,       \* a read finds no file
  Torn          \* a read finds less than a content

ASSUME FileAssumption ==
  /\ Size \in Nat \ {0}
  /\ {Private, Default} \subseteq Mode
  /\ NoFile \notin File
  /\ NoContent \notin Content \cup {Old}
  /\ Old \notin Content
  /\ Kills \in BOOLEAN

VARIABLES
  private,   \* the file is written by WriteAtomicPrivate (fixed at the start)
  target,    \* the file the target path names
  temps,     \* the files that temporary names name
  file,      \* file[f]: its content, how much of it, its mode
  writer,    \* writer[w]: step, content, mode to give, temporary file
  reader,    \* reader[r]: step, open file, blocks read
  orphans    \* history: temporary files of killed writers

vars == <<private, target, temps, file, writer, reader, orphans>>

Unused  == [content |-> NoContent, blocks |-> 0, mode |-> Private]
Resting == [pc |-> "idle", content |-> NoContent, perm |-> Private, tmp |-> NoFile]
Closed  == [pc |-> "closed", open |-> NoFile, blocks |-> 0]

IsWhole(f) == file[f].blocks = Size

Init ==
  /\ private \in BOOLEAN
  /\ temps = {} /\ orphans = {}
  /\ \/ target = NoFile /\ file = [f \in File |-> Unused]
     \/ \E f \in File, m \in Mode :
          /\ target = f
          /\ file = [g \in File |-> IF g = f THEN [content |-> Old, blocks |-> Size, mode |-> m]
                                    ELSE Unused]
  /\ writer = [w \in Writer |-> Resting]
  /\ reader = [r \in Reader |-> Closed]

--------------------------------------------------------------------------------
(* Writers *)

\* Mutant of Stat: an existing file's mode is not looked at.
StatDefault(w) ==
  /\ writer[w].pc = "idle"
  /\ \E c \in Content :
       writer' = [writer EXCEPT ![w] = [pc |-> "create", content |-> c, tmp |-> NoFile,
                                        perm |-> IF private THEN Private ELSE Default]]
  /\ UNCHANGED <<private, target, temps, file, reader, orphans>>

\* Mutant of Stat: a private write keeps the mode of the file it replaces.
StatShared(w) ==
  /\ writer[w].pc = "idle"
  /\ \E c \in Content :
       writer' = [writer EXCEPT ![w] =
         [pc |-> "create", content |-> c, tmp |-> NoFile,
          perm |-> IF target = NoFile THEN Default ELSE file[target].mode]]
  /\ UNCHANGED <<private, target, temps, file, reader, orphans>>

\* fileMode: keep the target's mode, or take the default; a private write asks nothing.
Stat(w) ==
  /\ writer[w].pc = "idle"
  /\ \E c \in Content :
       writer' = [writer EXCEPT ![w] =
         [pc |-> "create", content |-> c, tmp |-> NoFile,
          perm |-> CASE private -> Private
                     [] ~private /\ target = NoFile -> Default
                     [] OTHER -> file[target].mode]]
  /\ UNCHANGED <<private, target, temps, file, reader, orphans>>

\* Mutant of CreateTemp: writes into the target itself.
CreateTempInPlace(w) ==
  /\ writer[w].pc = "create"
  /\ target # NoFile
  /\ file' = [file EXCEPT ![target].content = writer[w].content, ![target].blocks = 0]
  /\ writer' = [writer EXCEPT ![w].pc = "write", ![w].tmp = target]
  /\ UNCHANGED <<private, target, temps, reader, orphans>>

CreateTemp(w) ==
  /\ writer[w].pc = "create"
  /\ \E f \in File :
       /\ file[f] = Unused /\ f # target /\ f \notin temps
       /\ \A v \in Writer : writer[v].tmp # f
       /\ temps' = temps \cup {f}
       /\ file' = [file EXCEPT ![f].content = writer[w].content]
       /\ writer' = [writer EXCEPT ![w].pc = "write", ![w].tmp = f]
  /\ UNCHANGED <<private, target, reader, orphans>>

WriteBlock(w) ==
  /\ writer[w].pc = "write"
  /\ file[writer[w].tmp].blocks < Size
  /\ file' = [file EXCEPT ![writer[w].tmp].blocks = @ + 1]
  /\ UNCHANGED <<private, target, temps, writer, reader, orphans>>

\* Mutant of Chmod: does not wait for the write to be complete.
ChmodEarly(w) ==
  /\ writer[w].pc = "write"
  /\ file' = [file EXCEPT ![writer[w].tmp].mode = writer[w].perm]
  /\ writer' = [writer EXCEPT ![w].pc = "rename"]
  /\ UNCHANGED <<private, target, temps, reader, orphans>>

\* The write is complete: set the mode, then close.
Chmod(w) ==
  /\ writer[w].pc = "write"
  /\ IsWhole(writer[w].tmp)
  /\ file' = [file EXCEPT ![writer[w].tmp].mode = writer[w].perm]
  /\ writer' = [writer EXCEPT ![w].pc = "rename"]
  /\ UNCHANGED <<private, target, temps, reader, orphans>>

Rename(w) ==
  /\ writer[w].pc = "rename"
  /\ target' = writer[w].tmp
  /\ temps' = temps \ {writer[w].tmp}
  /\ writer' = [writer EXCEPT ![w].pc = "cleanup"]
  /\ UNCHANGED <<private, file, reader, orphans>>

\* A call fails: return the error, through the deferred cleanup once there is a file.
Fail(w) ==
  /\ \/ /\ writer[w].pc = "create"
        /\ writer' = [writer EXCEPT ![w] = Resting]
     \/ /\ writer[w].pc \in {"write", "rename"}
        /\ writer' = [writer EXCEPT ![w].pc = "cleanup"]
  /\ UNCHANGED <<private, target, temps, file, reader, orphans>>

\* Mutant of Cleanup: the temporary file of a failed write stays.
CleanupNone(w) ==
  /\ writer[w].pc = "cleanup"
  /\ writer' = [writer EXCEPT ![w] = Resting]
  /\ UNCHANGED <<private, target, temps, file, reader, orphans>>

\* The deferred os.Remove of the temporary name; its error is ignored.
Cleanup(w) ==
  /\ writer[w].pc = "cleanup"
  /\ temps' = temps \ {writer[w].tmp}
  /\ writer' = [writer EXCEPT ![w] = Resting]
  /\ UNCHANGED <<private, target, file, reader, orphans>>

Kill(w) ==
  /\ Kills
  /\ writer[w].pc # "idle"
  /\ orphans' = orphans \cup (temps \cap {writer[w].tmp})
  /\ writer' = [writer EXCEPT ![w] = Resting]
  /\ UNCHANGED <<private, target, temps, file, reader>>

--------------------------------------------------------------------------------
(* Readers *)

Open(r) ==
  /\ reader[r].pc = "closed"
  /\ reader' = [reader EXCEPT ![r] = [pc |-> IF target = NoFile THEN "closed" ELSE "open",
                                      open |-> target, blocks |-> 0]]
  /\ UNCHANGED <<private, target, temps, file, writer, orphans>>

ReadBlock(r) ==
  /\ reader[r].pc = "open"
  /\ reader[r].blocks < file[reader[r].open].blocks
  /\ reader' = [reader EXCEPT ![r].blocks = @ + 1]
  /\ UNCHANGED <<private, target, temps, file, writer, orphans>>

\* End of file: what has been read is the result.
EndRead(r) ==
  /\ reader[r].pc = "open"
  /\ reader[r].blocks = file[reader[r].open].blocks
  /\ reader' = [reader EXCEPT ![r].pc = "closed"]
  /\ UNCHANGED <<private, target, temps, file, writer, orphans>>

--------------------------------------------------------------------------------
Next ==
  \/ \E w \in Writer : \/ Stat(w) \/ CreateTemp(w) \/ WriteBlock(w) \/ Chmod(w)
                       \/ Rename(w) \/ Fail(w) \/ Cleanup(w) \/ Kill(w)
  \/ \E r \in Reader : Open(r) \/ ReadBlock(r) \/ EndRead(r)

Spec == Init /\ [][Next]_vars

(***************************************************************************)
(* The machine loses power.  The code never calls Sync, so any prefix of   *)
(* what was written may be on the disk, also under a renamed entry; the    *)
(* content from before the first write is there.                           *)
(***************************************************************************)
PowerLoss ==
  /\ \E kept \in [File -> 0..Size] :
       /\ \A f \in File : kept[f] <= file[f].blocks
       /\ \A f \in File : file[f].content = Old => kept[f] = file[f].blocks
       /\ file' = [f \in File |-> [file[f] EXCEPT !.blocks = kept[f]]]
  /\ writer' = [w \in Writer |-> Resting]
  /\ reader' = [r \in Reader |-> Closed]
  /\ orphans' = temps
  /\ UNCHANGED <<private, target, temps>>

SpecPower == Init /\ [][Next \/ PowerLoss]_vars

--------------------------------------------------------------------------------
(* Properties *)

TypeOK ==
  /\ private \in BOOLEAN
  /\ target \in File \cup {NoFile}
  /\ temps \subseteq File /\ orphans \subseteq File
  /\ file \in [File -> [content : Content \cup {Old, NoContent}, blocks : 0..Size, mode : Mode]]
  /\ writer \in [Writer -> [pc : {"idle", "create", "write", "rename", "cleanup"},
                            content : Content \cup {NoContent}, perm : Mode,
                            tmp : File \cup {NoFile}]]
  /\ reader \in [Reader -> [pc : {"closed", "open"}, open : File \cup {NoFile}, blocks : 0..Size]]

(***************************************************************************)
(* "The temp+rename dance guarantees a crash never leaves a half-written   *)
(* file in place": whatever writer is killed and wherever, the target is   *)
(* a complete content.                                                     *)
(***************************************************************************)
TargetWhole == target # NoFile => IsWhole(target)

(***************************************************************************)
(* A file written with WriteAtomicPrivate holds no byte that anyone but    *)
(* its owner can read, in the target, in a temporary file and in one left  *)
(* behind, also when it replaces a file that others could read.            *)
(***************************************************************************)
NeverExposed ==
  private => \A f \in File : file[f].content \in Content => file[f].mode = Private

\* Only a killed writer leaves a temporary file: every error path removes its own.
NoLitter == temps \subseteq orphans \cup {writer[w].tmp : w \in Writer}

(***************************************************************************)
(* A replacement gives the target the mode promised: the one it had, the   *)
(* default for a new file, 0600 for a private one - with several writers   *)
(* too, each of which read the mode long before it renames.                *)
(***************************************************************************)
ModeKept ==
  [][target' # target =>
       file[target'].mode = CASE private -> Private
                              [] ~private /\ target = NoFile -> Default
                              [] OTHER -> file[target].mode]_vars

--------------------------------------------------------------------------------
(* The register *)

\* What somebody sees who reads n blocks of f to its end.
Seen(f, n) == IF f = NoFile THEN Absent ELSE IF n = Size THEN file[f].content ELSE Torn

\* A read that has not ended yet is bound to what it has opened.
Register == INSTANCE FileRegister WITH
  Content <- Content \cup {Old},
  value <- IF target = NoFile THEN Absent ELSE Seen(target, file[target].blocks),
  got   <- [r \in Reader |-> Seen(reader[r].open,
                                  IF reader[r].pc = "open" THEN Size ELSE reader[r].blocks)]

\* "Readers see either the old contents or the complete new contents": writers and
\* readers of one file, killed anywhere, implement a register.
RegisterSpec == Register!Spec
================================================================================
