----------------------------- MODULE MCSecretsStore -----------------------------
(* Values for model checking SecretsStore. *)
EXTENDS SecretsStore, TLC

CONSTANTS
  g1,        \* a group that appears in the environments below
  Wordings,  \* the plaintexts of each slot
  enc        \* the wording that starts like an envelope

\* Every slot has texts of its own, so a value in the wrong entry is noticed.
MCTextFor == [s \in Slot |-> {<<s, t>> : t \in Wordings}]
MCText == UNION {MCTextFor[s] : s \in Slot}
MCLookalike == {<<s, enc>> : s \in Slot} \cap MCText

NoEnv == [specific |-> [g \in Group |-> NoKey], bulk |-> [g \in Group |-> NoKey],
          bulkBroken |-> FALSE]

\* No variable; the first pair of g1 in either variable; a broken variable.
EnvNone == {NoEnv}
EnvMany == {NoEnv,
            [NoEnv EXCEPT !.specific[g1] = <<g1, 1>>],
            [NoEnv EXCEPT !.bulk[g1] = <<g1, 1>>],
            [NoEnv EXCEPT !.specific[g1] = BadKey],
            [NoEnv EXCEPT !.bulkBroken = TRUE]}

AllCommands   == {"set", "get", "delete", "encrypt", "decrypt", "generate", "rotate"}
AllButRotate  == AllCommands \ {"rotate"}

Symmetry == Permutations(Key) \cup Permutations(Proc)
================================================================================
