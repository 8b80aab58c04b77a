----------------------------- MODULE MCWorktree -----------------------------
(* Small workspaces for Worktree: one family of scenarios per question.    *)
EXTENDS Worktree

MCPart == {"log", "level", "log_level", "db"}
MCWords == [log |-> <<"LOG">>, level |-> <<"LEVEL">>,
            log_level |-> <<"LOG", "LEVEL">>, db |-> <<"DB">>]
MCReference == {"secret:a", "secret:b"}
MCGroupOf == [r \in MCReference |-> IF r = "secret:a" THEN "app" ELSE "ops"]
MCMisspelt == {"secret:"}
MCVariable == [x \in {"{{DB}}", "{{LOG}}", "{{GONE}}"} |->
                  IF x = "{{DB}}" THEN <<"DB">> ELSE IF x = "{{LOG}}" THEN <<"LOG">>
                  ELSE <<"GONE">>]
MCProject == <<"api v2", "api.v2", "api/v2", "api:v2", "envx", "secrets">>
MCSanitized == [p \in ToSet(MCProject) |->
                   IF p \in {"envx", "secrets"} THEN <<p>> ELSE <<"api_v2">>]
MCSuffix == <<"-2", "-3">>

Dev == <<".dev">>
Prod == <<".prod">>
EuDev == <<".eu", ".dev">>

Inc(dir, stem) == [dir |-> <<dir>>, stem |-> stem]
A == Inc("env", <<"a">>)
B == Inc("env", <<"b">>)

Doc(v) == Yaml(<<"db">> :> Scalar(v))
LogDoc(v) == Yaml((<<"log_level">> :> Scalar(v)) @@ (<<"db">> :> Scalar(v)))

Store(refs, cell) == <<[cells |-> [r \in refs |-> cell], pub |-> [app |-> cell.pair, ops |-> "old"]]>>

Only(project, includes) == project :> [includes |-> includes, settings |-> NoSettings]

Manifest(projects) ==
    [environments |-> <<Dev, Prod>>, projects |-> projects,
     settings |-> NoSettings, store |-> NoPath, keys |-> NoPath]

Nothing ==
    [files |-> <<>>, manifest |-> Manifest(Only("api.v2", <<A>>)), store |-> <<>>,
     ignore |-> <<>>, above |-> <<>>, git |-> "ok", stray |-> FALSE,
     creators |-> <<>>, setters |-> <<>>, readers |-> <<>>, guards |-> {}, pack |-> <<>>,
     validate |-> <<>>, emit |-> <<>>,
     held |-> [app |-> "old", ops |-> "old"],
     fileEdits |-> {}, manifestEdits |-> {}, storeEdits |-> {}, ignoreEdits |-> {}]

Replace(f, c) == [file |-> f, content |-> "put", nodes |-> c]
Delete(f) == [file |-> f, content |-> "removed", nodes |-> Empty]

-----------------------------------------------------------------------------
(* set: every document over log, log.level and log_level, every key path,  *)
(* another set, and an editor of the same overlay.                         *)

Logs == { <<>>, <<"log">> :> Scalar("1"),
          <<"log">> :> [kind |-> "list", items |-> <<"1">>],
          <<"log">> :> [kind |-> "nested", items |-> <<>>],
          <<"log">> :> Mapping,
          (<<"log">> :> Mapping) @@ (<<"log", "level">> :> Scalar("1")),
          (<<"log">> :> Mapping) @@ (<<"log", "level">> :> [kind |-> "list", items |-> <<>>]) }

Overlays == {Yaml(d) : d \in Logs}
            \cup {Yaml(d @@ (<<"log_level">> :> Scalar("1"))) : d \in Logs}
            \cup {Malformed}

SetCmd(path, value, env) ==
    [include |-> A, path |-> path, value |-> value,
     flags |-> [NoSettings EXCEPT !.env = env], variables |-> NoSettings]

Paths == {<<"log">>, <<"log", "level">>, <<"log_level">>, <<"db">>}

SetScenarios ==
    {[Nothing EXCEPT !.files = (A :> Doc("1")) @@ (Overlay(A, Dev) :> d),
                     !.setters = <<SetCmd(p, "2", Unset)>>,
                     !.fileEdits = {Delete(Overlay(A, Dev))}] :
        d \in Overlays, p \in Paths}
    \cup
    {[Nothing EXCEPT !.files = A :> Doc("1"),
                     !.setters = <<SetCmd(p, "2", e), SetCmd(q, "3", Dev)>>,
                     !.fileEdits = {Replace(Overlay(A, Dev), LogDoc("4"))}] :
        p \in Paths, q \in Paths, e \in {Unset, Dev, Prod, <<".qa">>}}

-----------------------------------------------------------------------------
(* create: two of them over one directory, or one and an editor.           *)

Created(v) == <<[file |-> A, content |-> Doc(v)],
                [file |-> Overlay(A, Dev), content |-> LogDoc(v)]>>
CreateCmd(v, force) == [template |-> Created(v), force |-> force]

CreateScenarios ==
    {[Nothing EXCEPT !.files = [f \in there |-> Doc("0")],
                     !.creators = creators,
                     !.fileEdits = {Replace(A, Doc("8"))}] :
        there \in SUBSET {A, B, Overlay(A, Dev)},
        creators \in {<<CreateCmd("1", force), CreateCmd("1", FALSE)>> : force \in BOOLEAN}}

-----------------------------------------------------------------------------
(* run and diff over two namespaces, with every way to set affixes,        *)
(* overload and required overlays, while a base or an overlay changes.     *)

TwoNamespaces(settings) ==
    [Nothing EXCEPT
        !.files = (A :> LogDoc("1")) @@ (Overlay(A, Dev) :> Doc("2"))
                  @@ (B :> Doc("3")) @@ (Overlay(B, Prod) :> Doc("4")),
        !.manifest = [Manifest("api.v2" :> [includes |-> <<A, B, A>>, settings |-> settings[1]])
                      EXCEPT !.settings = settings[2]]]

ReadCmd(asked, union, flags, variables, os) ==
    [project |-> "api.v2", asked |-> asked, union |-> union,
     flags |-> flags, variables |-> variables, os |-> os]

With(field, value) == [NoSettings EXCEPT ![field] = value]
Layered == {<<NoSettings, NoSettings>>,
            <<With("prefix", <<>>), With("prefix", <<"APP">>)>>,
            <<With("overload", <<"false">>), With("overload", <<"true">>)>>,
            <<With("suffix", <<"X">>), With("require", <<"true">>)>>}

ReadScenarios ==
    {[TwoNamespaces(s) EXCEPT
        !.readers = <<ReadCmd(asked, Len(asked) = 1, flags, variables, os)>>,
        !.fileEdits = {Replace(A, LogDoc("8")), Delete(B),
                       Replace(Overlay(B, Dev), Malformed)}] :
        s \in Layered,
        asked \in {<< <<>> >>, <<Dev, Prod>>, << <<".qa">> >>},
        flags \in {NoSettings, With("env", Prod), With("overload", <<"true">>)},
        variables \in {NoSettings, With("overload", <<"maybe">>), With("prefix", <<>>)},
        os \in {{}, { <<"DB">>, <<"HOME">> }, { <<"APP", "DB">> }}}
    \cup
    {[TwoNamespaces(<<NoSettings, NoSettings>>) EXCEPT
        !.readers = <<ReadCmd(<<Dev, Prod>>, FALSE, NoSettings, NoSettings, {})>>,
        !.setters = <<SetCmd(<<"log_level">>, "7", Dev)>>,
        !.fileEdits = {Replace(A, Doc("8"))}]}

-----------------------------------------------------------------------------
(* Two processes that store a private key, and an editor of .gitignore.    *)

IgnoreScenarios ==
    {[Nothing EXCEPT !.ignore = lines, !.above = above, !.git = git,
                     !.guards = {"first", "second"},
                     !.ignoreEdits = { <<>>, <<"other">>, <<"/name", "other">>, <<"!name">>,
                                       <<"name", "!name">> }] :
        lines \in { <<>>, <<"other">>, <<"name", "!name">>, <<"!name", "/name">> },
        above \in { <<>>, <<"name">> },
        git \in {"ok", "norepo", "missing", "broken"}}

-----------------------------------------------------------------------------
(* pack: names that collide, selections, and files that change under it.   *)

Xa == Inc("x", <<"a">>)
Ya == Inc("y", <<"a">>)
Za == Inc("z", <<"a">>)
A2 == Inc("x", <<"a", "-2">>)
YaDev == Inc("y", <<"a", ".dev">>)
YaEu == Inc("y", <<"a", ".eu">>)

PackCmd(environments, projects, force) ==
    [environments |-> environments, projects |-> projects, force |-> force]

Pick(includes) == [includes |-> includes, settings |-> With("prefix", <<"APP">>)]

(* Each include has a base of its own, and the overlays given.             *)
Sources(includes, overlays) ==
    [f \in includes \cup overlays |->
        Doc(FoldLeft(LAMBDA text, piece : text \o piece, f.dir[1], f.stem))]

(* Four projects of one directory.                                         *)
Alike == {"api v2", "api.v2", "api/v2", "api:v2"}

(* For the last of four includes named a there is no suffix left.          *)
Names == { << Xa, Ya >>, << Ya, A2, Xa >>, << A2, Xa, Ya >>, << Xa, Ya, Xa >>,
           << Ya, A2, Xa, Za >> }

NamingScenarios ==
    {[Nothing EXCEPT
        !.files = Sources(ToSet(names), overlays),
        !.manifest = Manifest(("api.v2" :> Pick(names)) @@ ("api/v2" :> Pick(<<Ya>>))
                              @@ ("envx" :> Pick(<<Xa>>)) @@ ("secrets" :> Pick(<<Ya, Xa>>))),
        !.store = store0,
        !.pack = <<PackCmd({}, projects, FALSE)>>] :
        names \in Names, store0 \in { <<>>, Store({}, Bare) },
        projects \in {{}, {"api.v2"}, {"secrets", "api/v2"}, {"web"}},
        overlays \in {{}, {Overlay(Xa, Dev)}, {Overlay(Xa, Prod), Overlay(Ya, Prod)}}}
    \cup
    {[Nothing EXCEPT
        !.files = Sources({Xa}, {}), !.manifest = Manifest([p \in Alike |-> Pick(<<Xa>>)]),
        !.pack = <<PackCmd({}, projects, FALSE)>>] :
        projects \in {{}, Alike \ {"api v2"}}}

(* An environment with a dot or declared twice, and a stem that ends like  *)
(* an overlay.                                                             *)
DottedScenarios ==
    {[Nothing EXCEPT
        !.files = Sources(ToSet(names), {Overlay(Xa, Dev), Overlay(Xa, EuDev),
                                         Overlay(YaEu, Dev), Overlay(YaEu, EuDev)}),
        !.manifest = [Manifest(Only("api.v2", names)) EXCEPT !.environments = declared],
        !.pack = <<PackCmd(environments, {}, FALSE)>>] :
        names \in { <<Xa, YaEu>>, <<YaEu, Xa>>, <<Xa, YaDev>>, <<YaDev, Xa>> },
        declared \in { <<Dev, EuDev>>, <<EuDev, Dev, EuDev>> },
        environments \in {{}, {EuDev}}}

(* References, a store elsewhere, --force over an old bundle, and changes. *)
Secretive ==
    [Nothing EXCEPT
        !.files = (Xa :> Doc("secret:a")) @@ (Overlay(Xa, Dev) :> LogDoc("1"))
                  @@ (Ya :> Doc("2")),
        !.manifest = [Manifest(Only("api.v2", <<Ya, Xa>>))
                      EXCEPT !.store = [dir |-> "conf", name |-> "vault.yaml"]],
        !.store = Store(MCReference, Sealed("old")),
        !.storeEdits = {Store({"secret:b"}, Sealed("old")),
                        Store(MCReference, Sealed("new"))},
        !.fileEdits = {Replace(Xa, Doc("3")), Replace(Overlay(Xa, Dev), Doc("secret:b")),
                       Delete(Ya), Replace(Overlay(Ya, Prod), Malformed)},
        !.manifestEdits = {Manifest(Only("api.v2", <<Ya>>)), Manifest(Only("envx", <<Xa>>))}]

ChangeScenarios ==
    {[Secretive EXCEPT !.stray = stray, !.pack = <<PackCmd(environments, {}, force)>>,
                       !.setters = sets] :
        stray \in BOOLEAN, force \in BOOLEAN, environments \in {{}, {Prod}, { <<".qa">> }},
        sets \in { <<>>, << [SetCmd(<<"db">>, "secret:b", Dev) EXCEPT !.include = Xa] >> }}
    \cup
    {[Secretive EXCEPT !.files = Sources({Overlay(Xa, Prod)}, {}), !.stray = TRUE,
                       !.pack = <<PackCmd(environments, {}, TRUE)>>] :
        environments \in {{Dev}, {Prod}}}

-----------------------------------------------------------------------------
(* validate and emit: secrets in every condition, values that compose, an  *)
(* overlay with a secret of its own, and changes between their reads.      *)

Pair(v, w) == Yaml((<<"db">> :> Scalar(v)) @@ (<<"log">> :> Scalar(w)))

Kept(cells, pub) == <<[cells |-> cells, pub |-> pub]>>
BothPub == [app |-> "old", ops |-> "old"]
Kinds == {Sealed("old"), Foreign("old"), Bare}
Vaults == { <<>> } \cup
    {Kept(("secret:a" :> cell) @@ ("secret:b" :> Sealed("old")), pub) :
        cell \in Kinds, pub \in {BothPub, [ops |-> "old"]}}
Holds == {[app |-> key, ops |-> "old"] : key \in {"old", "garbage", "unavailable", "broken"}}

Audit(selected, severity, strict, os) ==
    [selected |-> selected, severity |-> severity, strict |-> strict, os |-> os]

(* Two projects in two environments.                                       *)
Audited2(v, w) ==
    [Nothing EXCEPT
        !.files = (A :> Pair(v, w)) @@ (Overlay(A, Prod) :> Yaml(<<"log">> :> Scalar("secret:b")))
                  @@ (B :> Doc("3")) @@ (Overlay(B, Dev) :> LogDoc("secret:")),
        !.manifest = Manifest(Only("api.v2", <<A>>) @@ Only("envx", <<A, B>>))]

ValidateScenarios ==
    {[Audited2(v, w) EXCEPT
        !.store = vault, !.held = held, !.validate = <<Audit({}, <<>>, FALSE, {})>>] :
        v \in {"1", "secret:a", "secret:", "{{LOG}}", "{{GONE}}"},
        w \in {"2", "{{DB}}", "secret:b"}, vault \in Vaults, held \in Holds}
    \cup
    {[Audited2("secret:a", "{{DB}}") EXCEPT
        !.store = vault, !.validate = <<Audit(selected, severity, strict, os)>>,
        !.storeEdits = { <<>>, Kept("secret:a" :> Bare, <<>>) },
        !.fileEdits = {Replace(A, Pair("secret:b", "1")), Delete(B),
                       Replace(Overlay(A, Prod), Malformed)},
        !.manifestEdits = {Manifest(Only("envx", <<A, B>>)),
                           [Manifest(Only("api.v2", <<B>>)) EXCEPT !.environments = <<Dev>>],
                           [Manifest(<<>>) EXCEPT !.environments = <<>>]}] :
        vault \in {Store(MCReference, Sealed("old")), Kept("secret:b" :> Bare, <<>>)},
        selected \in {{}, {"secret_is_not_referenced"}, {"public_key_is_missing"}},
        severity \in { <<>>, ("property_not_declared_in_base" :> "warn")
                              @@ ("public_key_is_missing" :> "off") },
        strict \in BOOLEAN, os \in {{}, { <<"DB">> }}}

(* Lists: a secret that is missing, misspelt or stale beside another item. *)
ListScenarios ==
    {[Audited2("1", "2") EXCEPT
        !.files = A :> Yaml(<<"db">> :> [kind |-> "list", items |-> <<v, w>>]),
        !.manifest = Manifest(Only("api.v2", <<A>>)),
        !.store = Kept("secret:a" :> cell, [app |-> "old"]),
        !.validate = <<Audit({}, <<>>, FALSE, {<<"LOG">>})>>] :
        v \in {"secret:a", "{{LOG}}", "1"}, w \in {"secret:a", "secret:b", "secret:"},
        cell \in {Sealed("old"), Sealed("new"), Bare}}

Render(target, secrets, config, named, out, os) ==
    [project |-> "api.v2", target |-> target, secrets |-> secrets, config |-> config,
     named |-> named, out |-> out, os |-> os]

EmitScenarios ==
    {[Audited2(v, w) EXCEPT
        !.store = vault, !.held = held,
        !.emit = <<Render("k8s", FALSE, FALSE, FALSE, "file", os)>>] :
        v \in {"1", "secret:a", "secret:", "{{LOG}}", "{{GONE}}"},
        w \in {"2", "{{DB}}"}, os \in {{}, { <<"DB">> }},
        vault \in Vaults, held \in Holds}
    \cup
    {[Audited2(v, "2") EXCEPT
        !.store = Store(MCReference, Sealed("old")),
        !.emit = <<Render(target, secrets, config, named, out, {})>>] :
        v \in {"1", "secret:a"}, target \in {"k8s", "k8s-bundle", "flat"},
        secrets \in BOOLEAN, config \in BOOLEAN, named \in BOOLEAN,
        out \in {"file", "stdout", "nowhere"}}
    \cup
    {[Audited2("secret:a", "{{DB}}") EXCEPT
        !.store = Store(MCReference, Sealed("old")),
        !.emit = <<Render("k8s", FALSE, FALSE, FALSE, out, os)>>,
        !.storeEdits = { <<>> }, !.manifestEdits = {Manifest(Only("envx", <<A, B>>))},
        !.fileEdits = {Replace(A, Yaml(<<"db">> :> [kind |-> "list", items |-> <<>>])),
                       Delete(A), Replace(A, Pair("secret:b", "secret:a"))}] :
        out \in {"file", "stdout"}, os \in {{}, { <<"DB">> }}}

MCScenarios ==
    CreateScenarios \cup SetScenarios \cup ReadScenarios \cup IgnoreScenarios
    \cup NamingScenarios \cup DottedScenarios \cup ChangeScenarios
    \cup ValidateScenarios \cup ListScenarios \cup EmitScenarios

-----------------------------------------------------------------------------
(* An include without an overlay beside one whose stem reads like it.      *)

CaptureScenarios ==
    {[Nothing EXCEPT
        !.files = Sources({Xa, YaDev}, {}),
        !.manifest = Manifest(Only("api.v2", names)),
        !.pack = <<PackCmd({}, {}, FALSE)>>] :
        names \in { <<Xa, YaDev>>, <<YaDev, Xa>> }}

(* A secret left under an old key pair when its group's pair was replaced. *)
StaleScenarios ==
    {[Audited2("secret:a", w) EXCEPT
        !.store = Kept(("secret:a" :> Sealed("old")) @@ ("secret:b" :> Sealed("old")),
                       [app |-> "new", ops |-> "old"]),
        !.held = [app |-> "new", ops |-> "old"],
        !.manifest = Manifest(Only("api.v2", <<A>>)),
        !.validate = <<Audit({}, <<>>, strict, {})>>] :
        w \in {"2", "{{DB}}"}, strict \in BOOLEAN}
=============================================================================
