------------------------------ MODULE PrivateKeys ------------------------------
(***************************************************************************)
(* Lookup of a group's private key (features/privatekey/service.go).       *)
(*                                                                         *)
(* An envx process sees three sources, in this order: the environment      *)
(* variable ENVX_PRIVATE_KEY_<GROUP>, the bulk variable ENVX_PRIVATE_KEY   *)
(* that lists NAME=value lines, and the local key file envx.keys.  A       *)
(* source that is present but broken is an error: the lookup does not      *)
(* fall through to the next one.                                           *)
(*                                                                         *)
(* A key pair is named <<group, n>>: the n-th pair minted for the group.   *)
(* Only its identity matters: a ciphertext opens with the private half of  *)
(* the pair that sealed it and with no other key.                          *)
(***************************************************************************)
EXTENDS Naturals

CONSTANTS
  Group,      \* normalised (lower-case) key-group names
  MaxPairs,   \* bound: key pairs minted for one group
  NoKey,      \* no key pair
  BadKey      \* a source that is present but empty

ASSUME PairsAssumption == MaxPairs \in Nat

PairsOf(g) == {g} \X (1..MaxPairs)
KeyPair    == UNION {PairsOf(g) : g \in Group}

ASSUME NoKeyAssumption == NoKey \notin KeyPair /\ BadKey \notin KeyPair
                          /\ NoKey # BadKey

(***************************************************************************)
(* The environment a process is started with: `specific[g]` is             *)
(* ENVX_PRIVATE_KEY_<g>, `bulk` the entries of ENVX_PRIVATE_KEY, and       *)
(* `bulkBroken` says that ENVX_PRIVATE_KEY is present but empty,           *)
(* malformed or has duplicate or empty entries.                            *)
(***************************************************************************)
Environment == [specific   : [Group -> KeyPair \cup {NoKey, BadKey}],
                bulk       : [Group -> KeyPair \cup {NoKey}],
                bulkBroken : BOOLEAN]

\* The parsed key file: at most one private key per group.
KeyFile == [Group -> KeyPair \cup {NoKey}]

Origins == {"specific", "bulk", "store", "unavailable", "invalid"}
Lookup  == [key : KeyPair \cup {NoKey}, origin : Origins]

\* Service.Resolve: the first source that has the group wins.
Resolve(env, keys, g) ==
  CASE env.specific[g] = BadKey   -> [key |-> NoKey, origin |-> "invalid"]
    [] env.specific[g] \in KeyPair -> [key |-> env.specific[g], origin |-> "specific"]
    [] OTHER ->
         CASE env.bulkBroken      -> [key |-> NoKey, origin |-> "invalid"]
           [] ~env.bulkBroken /\ env.bulk[g] \in KeyPair
                                  -> [key |-> env.bulk[g], origin |-> "bulk"]
           [] ~env.bulkBroken /\ env.bulk[g] \notin KeyPair /\ keys[g] \in KeyPair
                                  -> [key |-> keys[g], origin |-> "store"]
           [] OTHER               -> [key |-> NoKey, origin |-> "unavailable"]
================================================================================
