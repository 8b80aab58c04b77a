------------------------------ MODULE Resolver ------------------------------
(***************************************************************************)
(* What a secret reference comes to (features/secrets/service_resolver.go) *)
(* and what the store looks like to validate (service_audit.go,            *)
(* service_keypair.go), for one snapshot of the store.                     *)
(*                                                                         *)
(* A store is <<>> when there is no file, else <<[cells, pub]>>: cells by  *)
(* reference, public keys by group.  A cell is sealed under a key pair     *)
(* with an algorithm, or is not sealed at all.  held is what a process     *)
(* finds per group when it looks for the private key (PrivateKeys): the    *)
(* name of a pair, "unavailable", or "broken" for a source that cannot be  *)
(* read.  Key pairs are model values with names; a key opens only what its *)
(* own pair sealed.                                                        *)
(***************************************************************************)
EXTENDS Naturals, Sequences, FiniteSets, SequencesExt

CONSTANTS
    Reference,  \* items of leaves that refer to a secret
    GroupOf,    \* the key group of a reference
    Misspelt    \* items that begin like a reference and are none

ASSUME ReferenceAssumption ==
    Reference \cap Misspelt = {} /\ DOMAIN GroupOf = Reference

Sealed(pair) == [sealed |-> TRUE, pair |-> pair, algorithm |-> "configured"]
Foreign(pair) == [sealed |-> TRUE, pair |-> pair, algorithm |-> "other"]
Bare == [sealed |-> FALSE, pair |-> "none", algorithm |-> "none"]

Cells(store) == IF store = <<>> THEN <<>> ELSE store[1].cells
PublicKeys(store) == IF store = <<>> THEN <<>> ELSE store[1].pub
Stored(store) == DOMAIN Cells(store)

Unkeyed == {"unavailable", "broken"}

(* Resolver.Resolve.  Masked, a reference stands for itself; revealed, it  *)
(* must be in the store and open.                                          *)
Resolves(item, store, held, reveal) ==
    /\ item \notin Misspelt
    /\ item \in Reference /\ reveal =>
          /\ item \in Stored(store)
          /\ LET cell == Cells(store)[item] IN
             /\ cell.sealed
             /\ cell.algorithm = "configured"
             /\ held[GroupOf[item]] = cell.pair

(* Resolver.Evaluate, whose status does not depend on reveal.              *)
Code(item, store, held) ==
    IF item \in Misspelt THEN "invalid_secret_reference"
    ELSE IF item \notin Reference THEN "ok"
    ELSE IF item \notin Stored(store) THEN "secret_reference_not_found"
    ELSE LET cell == Cells(store)[item]
             key == held[GroupOf[item]]
         IN  IF ~cell.sealed THEN "secret_is_not_encrypted"
             ELSE IF cell.algorithm # "configured" THEN "secret_algorithm_mismatch"
             ELSE IF key = "unavailable" THEN "private_key_is_unavailable"
             ELSE IF key = "broken" \/ key # cell.pair THEN "private_key_is_invalid"
             ELSE "ok"

Rank(code) ==
    IF code = "ok" THEN 0 ELSE IF code = "private_key_is_unavailable" THEN 1 ELSE 2

(* diagnoseLeaf: the first of the worst items decides, and the value is    *)
(* there only if there is an item and every item has one.                  *)
Worst(items, store, held) ==
    LET code(i) == Code(items[i], store, held)
        worst == {i \in DOMAIN items :
                     \A j \in DOMAIN items : Rank(code(j)) <= Rank(code(i))}
    IN  IF items = <<>> THEN "ok"
        ELSE code(CHOOSE i \in worst : \A j \in worst : i <= j)

-----------------------------------------------------------------------------
(* StoredSecrets, GroupsMissingPublicKey and ListKeypairs.                 *)

Unsealed(store) == {r \in Stored(store) : ~Cells(store)[r].sealed}
Mismatched(store) ==
    {r \in Stored(store) : Cells(store)[r].algorithm \notin {"configured", "none"}}
Keyless(store) == {GroupOf[r] : r \in Stored(store)} \ DOMAIN PublicKeys(store)

(* InspectKeypair: the private key that is found is held against the       *)
(* public key, not against what is stored.  A source that cannot be read   *)
(* ends the listing.                                                       *)
Inspectable(store, held) == \A g \in DOMAIN PublicKeys(store) : held[g] # "broken"

KeyStatus(store, held, g) ==
    IF held[g] = "unavailable" THEN "private_key_is_unavailable"
    ELSE IF held[g] # PublicKeys(store)[g] THEN "private_key_is_invalid"
    ELSE "ok"
=============================================================================
