------------------------------ MODULE Scaffold ------------------------------
(***************************************************************************)
(* envx create (features/scaffold/service.go): extract a template into a   *)
(* directory.  Without --force every destination is looked up first, one   *)
(* after the other; then the files are replaced one by one.  Several       *)
(* creates, an editor and other commands may work on the same directory.   *)
(***************************************************************************)
EXTENDS Workspace

(* A template has files (Create refuses one that has none).                *)
ASSUME CreateAssumption ==
    \A s \in Scenarios : \A c \in DOMAIN s.creators :
        LET template == s.creators[c].template IN
        Len(template) \in Nat \ {0} /\ DOMAIN template = 1..Len(template)

VARIABLES
    creator,    \* per create: its command and how far it is
    before      \* per create: the files there were when it began

createVars == <<creator, before>>

Creator == DOMAIN creator

(* Commands: [template: the files it writes, in order, each with its       *)
(* content; force].                                                        *)
CreateInit ==
    /\ creator = [c \in DOMAIN scenario.creators |->
           [cmd |-> scenario.creators[c], at |-> "start", i |-> 1, conflict |-> FALSE]]
    /\ before = [c \in DOMAIN scenario.creators |-> <<>>]

CreateMove(c, change) == creator' = [creator EXCEPT ![c] = Changed(@, change)]

CreateStart(c) ==
    /\ creator[c].at = "start"
    /\ CreateMove(c, [at |-> IF creator[c].cmd.force THEN "write" ELSE "check"])
    /\ before' = [before EXCEPT ![c] = files]
    /\ UNCHANGED workspace

\* Mutant of CheckConflict: only the last lookup counts.
CheckConflictLast(c) ==
    LET m == creator[c]
        there == m.cmd.template[m.i].file \in DOMAIN files
    IN
    /\ m.at = "check"
    /\ CreateMove(c,
           IF m.i < Len(m.cmd.template) THEN [i |-> m.i + 1, conflict |-> there]
           ELSE [i |-> 1, conflict |-> there, at |-> IF there THEN "refused" ELSE "write"])
    /\ UNCHANGED <<workspace, before>>

(* checkConflicts looks every destination up; all of them are reported.    *)
CheckConflict(c) ==
    LET m == creator[c]
        conflict == m.conflict \/ m.cmd.template[m.i].file \in DOMAIN files
    IN
    /\ m.at = "check"
    /\ CreateMove(c,
           IF m.i < Len(m.cmd.template) THEN [i |-> m.i + 1, conflict |-> conflict]
           ELSE [i |-> 1, conflict |-> conflict,
                 at |-> IF conflict THEN "refused" ELSE "write"])
    /\ UNCHANGED <<workspace, before>>

(* WriteAtomic of one file.                                                *)
CreateWrite(c) ==
    LET m == creator[c]
        made == m.cmd.template[m.i]
    IN
    /\ m.at = "write"
    /\ files' = Put(files, made.file, made.content)
    /\ Touches("files")
    /\ CreateMove(c, [i |-> m.i + 1,
                      at |-> IF m.i < Len(m.cmd.template) THEN "write" ELSE "done"])
    /\ UNCHANGED <<scenario, manifest, store, ignore, edits, before>>

(* A write fails, or the process dies: what is written stays.              *)
CreateFails(c) ==
    /\ creator[c].at = "write"
    /\ CreateMove(c, [at |-> "failed"])
    /\ UNCHANGED <<workspace, before>>

CreateNext ==
    \E c \in Creator :
        CreateStart(c) \/ CheckConflict(c) \/ CreateWrite(c) \/ CreateFails(c)

-----------------------------------------------------------------------------
(* However many creates without --force work on one directory, whichever   *)
(* of them fail, and even if one is repeated over what a failed one has    *)
(* left, no file that was there before any of them is replaced; and one    *)
(* that is told it succeeded has its template complete (service.go: "create*)
(* never clobbers a user's files unless --force is given").                *)
CreateSpares ==
    edits = 0 /\ (\A c \in Creator : ~creator[c].cmd.force) =>
        \A c \in Creator :
            /\ \A f \in DOMAIN before[c] : f \in DOMAIN files /\ files[f] = before[c][f]
            /\ creator[c].at = "done" =>
                  \A i \in DOMAIN creator[c].cmd.template :
                      LET made == creator[c].cmd.template[i] IN
                      made.file \in DOMAIN files /\ files[made.file] = made.content
=============================================================================
