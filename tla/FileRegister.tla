------------------------------ MODULE FileRegister ------------------------------
(***************************************************************************)
(* What a file that is only ever replaced whole promises to its readers: a *)
(* register.  A write takes effect at one instant; a read returns the      *)
(* content of one instant.                                                 *)
(***************************************************************************)
CONSTANTS Reader, Content, Absent

VARIABLES
  value,   \* the register: a content, or no file yet
  got      \* got[r]: what the current or last read of r returns

Init == value \in Content \cup {Absent} /\ got = [r \in Reader |-> Absent]

Write(c) == value' = c /\ UNCHANGED got
Read(r)  == got' = [got EXCEPT ![r] = value] /\ UNCHANGED value

Next == (\E c \in Content : Write(c)) \/ (\E r \in Reader : Read(r))

Spec == Init /\ [][Next]_<<value, got>>
================================================================================
