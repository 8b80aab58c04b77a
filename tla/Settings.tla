------------------------------ MODULE Settings ------------------------------
(***************************************************************************)
(* From the manifest, the flags and the ENVX_* variables to the parameters *)
(* of a command (core/config.go, features/env/flags.go).                   *)
(*                                                                         *)
(* A setting is Unset or a value; a text setting is a sequence of words,   *)
(* and the empty one is a value too.  settings, flags and variables are    *)
(* records with the fields env, prefix, suffix, overload and require.      *)
(***************************************************************************)
EXTENDS Naturals, Sequences, SequencesExt

Unset == <<"unset">>

NoSettings == [env |-> Unset, prefix |-> Unset, suffix |-> Unset,
               overload |-> Unset, require |-> Unset]

(* The flag, then the variable, each even if empty; then the first layer   *)
(* that says something.                                                    *)
PrecedenceString(explicit, variable, layers) ==
    LET said == SelectInSeq(layers, LAMBDA x : x \notin {Unset, <<>>})
    IN  IF explicit # Unset THEN explicit
        ELSE IF variable # Unset THEN variable
        ELSE IF said # 0 THEN layers[said] ELSE <<>>

(* A variable that does not parse is passed over, and a layer may say no.  *)
PrecedenceBool(explicit, variable, layers) ==
    LET all == <<explicit, variable>> \o layers
        said == SelectInSeq(all, LAMBDA x : x \in {<<"true">>, <<"false">>})
    IN  said # 0 /\ all[said] = <<"true">>

(* Workspace.Validate, without the severities.                             *)
ValidManifest(m) ==
    /\ m.environments # <<>>
    /\ DOMAIN m.projects # {}
    /\ \A p \in DOMAIN m.projects :
          m.projects[p].includes # <<>>

(* resolveEnvmergeParams, with the project layer over the global one.      *)
EnvmergeParams(m, project, flags, variables) ==
    LET layers(field) == <<m.projects[project].settings[field], m.settings[field]>>
        text(field) == PrecedenceString(flags[field], variables[field], layers(field))
        switch(field) == PrecedenceBool(flags[field], variables[field], layers(field))
    IN  [includes |-> m.projects[project].includes,
         environments |-> m.environments,
         env |-> text("env"),
         prefix |-> text("prefix"), suffix |-> text("suffix"),
         overload |-> switch("overload"), require |-> switch("require")]

(* normalizeEnvironment: the environment an operation asked for, else the  *)
(* configured default, else the first declared one.                        *)
Environment(asked, params) ==
    IF asked # <<>> THEN asked
    ELSE IF params.env # <<>> THEN params.env
    ELSE IF params.environments # <<>> THEN Head(params.environments)
    ELSE <<>>

(* resolveSecretsParams: where the store and the private keys are.  A path *)
(* is a directory and a file name; an unset keys path is beside the store. *)
NoPath == [dir |-> "", name |-> ""]
DefaultStore == [dir |-> ".", name |-> "secrets.yaml"]

SecretsParams(m) ==
    LET at == IF m.store = NoPath THEN DefaultStore ELSE m.store
    IN  [store |-> at,
         keys |-> IF m.keys = NoPath THEN [dir |-> at.dir, name |-> "envx.keys"]
                  ELSE m.keys]
=============================================================================
