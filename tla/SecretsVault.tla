------------------------------ MODULE SecretsVault ------------------------------
(***************************************************************************)
(* What the secrets commands promise to someone who runs them one at a     *)
(* time: a vault of values by group and key.  set stores a value, delete   *)
(* removes one, and nothing else - encrypting, decrypting, generating and  *)
(* rotating key pairs, failing half-way - changes what the vault holds.    *)
(***************************************************************************)
CONSTANTS Slot, TextFor, NoText

VARIABLE vault   \* vault[s]: the value that can be read back at s

Init == vault \in [Slot -> (UNION {TextFor[s] : s \in Slot}) \cup {NoText}]

Put(s, t) == vault' = [vault EXCEPT ![s] = t]
Remove(s) == vault[s] # NoText /\ vault' = [vault EXCEPT ![s] = NoText]

Next == \E s \in Slot : Remove(s) \/ \E t \in TextFor[s] : Put(s, t)

Spec == Init /\ [][Next]_vault
================================================================================
