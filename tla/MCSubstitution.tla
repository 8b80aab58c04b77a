--------------------------- MODULE MCSubstitution ---------------------------
(* Inputs of the composition engine for TLC.                               *)
EXTENDS Substitution, FiniteSetsExt

CONSTANTS MaxRefs,      \* references in one value
          MaxEdges,     \* references in all values together
          MaxHidden,    \* values only explain tells from others, see Hidden
          MaxOs,        \* variables of the OS environment
          Modes         \* the commands

Texts(max) == UNION {[1..k -> Name] : k \in 0..max}

Leaf(kind, refs, broken) == [kind |-> kind, refs |-> refs, broken |-> broken]

Leaves ==
    {Leaf("absent", <<>>, FALSE), Leaf("secret", <<>>, TRUE)}
    \cup {Leaf("plain", t, FALSE) : t \in Texts(MaxRefs)}

(* A secret whose plaintext may hold a reference, and a list that cannot   *)
(* be joined: explain alone tells them from a plain text and from a secret *)
(* that cannot be decrypted.                                               *)
Hidden ==
    {Leaf("secret", t, FALSE) : t \in Texts(1)} \cup {Leaf("plain", <<>>, TRUE)}

(* Names are numbers here, and those with fewer references come first,     *)
(* absent before plain before secret if there are as many: every other     *)
(* table is one of these with its names exchanged.                         *)
Weight(leaf) ==
    3 * Len(leaf.refs)
    + (CASE leaf.kind = "absent" -> 0 [] leaf.kind = "plain" -> 1 [] OTHER -> 2)

Tables ==
    {t \in [Name -> Leaves \cup Hidden] :
        /\ MapThenSumSet(LAMBDA n : Len(t[n].refs), Name) <= MaxEdges
        /\ Cardinality({n \in Name : t[n] \in Hidden}) <= MaxHidden
        /\ \A m, n \in Name : m < n => Weight(t[m]) <= Weight(t[n])}

Snapshots == {os \in SUBSET Name : Cardinality(os) <= MaxOs}

(* explain is given each key, or none.                                     *)
Keys(mode) ==
    IF mode \in {"get", "explain", "masked"}
    THEN {{n} : n \in Name} \cup (IF mode = "get" THEN {} ELSE {{}})
    ELSE {{}}

(* --overload matters only for a name that both the OS and a namespace     *)
(* have; without it the text of a value that the OS hides is never read.   *)
MCWorlds ==
    {world \in [leaf : Tables, os : Snapshots,
                overload : BOOLEAN, mode : Modes,
                key : {{}} \cup {{n} : n \in Name}] :
        /\ world.key \in Keys(world.mode)
        /\ \A n \in Name :
               world.leaf[n] \in Hidden => world.mode \in {"explain", "masked"}
        /\ world.overload => \E n \in world.os : world.leaf[n].kind # "absent"
        /\ ~world.overload =>
               \A n \in world.os :
                   world.leaf[n] \in {Leaf("absent", <<>>, FALSE),
                                      Leaf("plain", <<>>, FALSE)}}
=============================================================================
