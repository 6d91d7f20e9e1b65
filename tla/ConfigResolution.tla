-------------------------- MODULE ConfigResolution --------------------------
(***************************************************************************)
(* How a configuration value is found.  Two resolvers read the same        *)
(* sources: importing sentinel_api.config folds .env and the preset into   *)
(* os.environ and builds Settings from it; resolve_config of the SDK reads *)
(* a dictionary, os.environ and .env and leaves them alone.  What the SDK  *)
(* resolves becomes the environment of the deployed container, where the   *)
(* first resolver runs again.  Every name has two forms, SENTINEL_API_NAME *)
(* and the legacy NAME.                                                    *)
(***************************************************************************)
EXTENDS FiniteSetsExt

CONSTANTS
    Numbers,      \* explicit numbers, but for the padded one
    MaxPlaces     \* bound on the places one name is given at

VARIABLES
    given,      \* given[l]: the keys of source l, which nobody changes
    env,        \* os.environ of the process
    runtime,    \* the import of sentinel_api.config in this process
    sdk,        \* resolve_config in this process
    container   \* the import of sentinel_api.config in the deployed container

vars == <<given, env, runtime, sdk, container>>

-----------------------------------------------------------------------------
(* OPTIMIZE_FOR selects the preset.  KNOB stands for the numeric settings    *)
(* with a preset that the template takes as strings and hands to the        *)
(* container (the limiter's, the timeout, the threshold), TASK for those    *)
(* that it takes as numbers for its own resources only.  SECRET is the      *)
(* shared JWT secret, KEY the public key or the JWKS address.               *)
Names == {"OPTIMIZE_FOR", "KNOB", "TASK", "SECRET", "KEY", "UPSTREAM", "REGION"}
Knobs == {"KNOB", "TASK"}
Forms == {"prefixed", "legacy"}
Keys == Names \X Forms
Layers == {"dict", "shell", "file"}
Modes == {"cost", "performance"}
Unset == "unset"
Blank == ""
Missing == {Unset, Blank}
Unparsable == "many"
Preset == [cost |-> "256", performance |-> "1024"]
RuntimeRegion == "us-west-2"
DeployRegion == "us-east-1"

\* What str.strip leaves of the texts with blanks around them.
Padded == {" ", " cost", " 256", " k1"}
Strip(text) ==
    CASE text \in {Unset, " "} -> Blank
      [] text = " cost" -> "cost"
      [] text = " 256" -> "256"
      [] text = " k1" -> "k1"
      [] OTHER -> text

Parses(text) == Strip(text) \notin {Blank, Unparsable}

ASSUME NumbersAssumption == Numbers \cap (Missing \cup Padded \cup {Unparsable}) = {}

\* What a name may be given as; a blank region is left out.
Texts(name) ==
    CASE name = "OPTIMIZE_FOR" -> Modes \cup {Blank, "fast", " cost"}
      [] name \in Knobs -> Numbers \cup {Blank, Unparsable, " 256"}
      [] name = "SECRET" -> {Blank, "k1", "k2", " k1", " "}
      [] name = "KEY" -> {Blank, "pem", " "}
      [] name = "UPSTREAM" -> {Blank, "k1", " k1", " "}
      [] name = "REGION" -> {"eu-west-1", "eu-west-3"}

AllTexts ==
    {Unset, RuntimeRegion, DeployRegion} \cup {Preset[m] : m \in Modes}
    \cup UNION {Texts(n) \cup {Strip(t) : t \in Texts(n)} : n \in Names}

NoKeys == [k \in Keys |-> Unset]
NotRun == [pc |-> "new", value |-> [n \in Names |-> Unset]]

\* Everything that can be said of one name, at no more than MaxPlaces places.
Places == Layers \X Forms
Given(name) ==
    UNION {[P -> Texts(name)] : P \in UNION {kSubset(i, Places) : i \in 0..MaxPlaces}}
Otherwise(name) ==
    IF name \in {"SECRET", "UPSTREAM"} THEN {[p \in {<<"shell", "prefixed">>} |-> "k1"]}
    ELSE {<<>>}

\* Names that interact vary together, the others are given once or not at all.
Together ==
    {{"OPTIMIZE_FOR", "KNOB"}, {"OPTIMIZE_FOR", "TASK"}, {"SECRET", "KEY"}, {"UPSTREAM"},
     {"REGION"}}
Said(name, varied) == IF name \in varied THEN Given(name) ELSE Otherwise(name)
Configurations ==
    UNION {[OPTIMIZE_FOR : Said("OPTIMIZE_FOR", varied), KNOB : Said("KNOB", varied),
            TASK : Said("TASK", varied), SECRET : Said("SECRET", varied),
            KEY : Said("KEY", varied), UPSTREAM : Said("UPSTREAM", varied),
            REGION : Said("REGION", varied)] : varied \in Together}

\* An environment variable, or a key of the dictionary or of .env, whose values both
\* readers of .env strip.
TextAt(choice, l, k) ==
    LET said == choice[k[1]]
    IN  IF <<l, k[2]>> \notin DOMAIN said THEN Unset
        ELSE IF l = "file" THEN Strip(said[<<l, k[2]>>]) ELSE said[<<l, k[2]>>]

Init ==
    /\ \E choice \in Configurations :
         given = [l \in Layers |-> [k \in Keys |-> TextAt(choice, l, k)]]
    /\ env = given["shell"]
    /\ runtime = NotRun
    /\ sdk = NotRun
    /\ container = NotRun

-----------------------------------------------------------------------------
(* The resolver of the runtime.                                             *)

\* The prefixed form if it is there, even blank: AliasChoices, and every layer of
\* _coalesce_config and _coalesce_env.
Get(keys, name) ==
    IF keys[<<name, "prefixed">>] # Unset
    THEN keys[<<name, "prefixed">>] ELSE keys[<<name, "legacy">>]

\* The prefixed form unless it is blank: os.getenv(prefixed) or os.getenv(legacy).
GetNonBlank(keys, name) ==
    IF keys[<<name, "prefixed">>] \notin Missing
    THEN keys[<<name, "prefixed">>] ELSE keys[<<name, "legacy">>]

\* Mutant: .env wins over the environment.
WithFileOverwriting(keys, file) ==
    [k \in Keys |-> IF file[k] # Unset THEN file[k] ELSE keys[k]]

\* _apply_layered_env: a key of .env is taken unless that very key is set.
WithFile(keys, file) ==
    [k \in Keys |-> IF keys[k] = Unset THEN file[k] ELSE keys[k]]

\* Mutant: only the prefixed key keeps the preset away.
WithPresetOverLegacy(keys) ==
    LET text == Strip(GetNonBlank(keys, "OPTIMIZE_FOR"))
        mode == IF text \in Modes THEN text ELSE "cost"
        default == [OPTIMIZE_FOR |-> mode, KNOB |-> Preset[mode], TASK |-> Preset[mode]]
    IN  [k \in Keys |->
           IF k[1] \in DOMAIN default /\ k[2] = "prefixed" /\ keys[k] = Unset
           THEN default[k[1]] ELSE keys[k]]

\* _apply_optimization_defaults: the preset of the mode, for a name set in no form.
WithPreset(keys) ==
    LET text == Strip(GetNonBlank(keys, "OPTIMIZE_FOR"))
        mode == IF text \in Modes THEN text ELSE "cost"
        default == [OPTIMIZE_FOR |-> mode, KNOB |-> Preset[mode], TASK |-> Preset[mode]]
    IN  [k \in Keys |->
           IF k[1] \in DOMAIN default /\ k[2] = "prefixed" /\ Get(keys, k[1]) = Unset
           THEN default[k[1]] ELSE keys[k]]

\* A field of Settings: the mode is stripped, a number parsed, any other text kept.
Setting(keys, name) ==
    CASE name = "REGION" /\ Get(keys, name) = Unset -> RuntimeRegion
      [] name \in Knobs \cup {"OPTIMIZE_FOR"} -> Strip(Get(keys, name))
      [] OTHER -> Get(keys, name)

\* Mutant: the check for a JWT key is gone.
BuiltWithAnyKey(keys) ==
    LET value == [n \in Names |-> Setting(keys, n)]
        valid == value["OPTIMIZE_FOR"] \in Modes /\ \A n \in Knobs : Parses(value[n])
    IN  [pc |-> IF valid THEN "up" ELSE "refused", value |-> value]

\* Settings(): the mode must be one of the presets, the numbers must parse, and one of
\* the JWT keys must be more than blanks.
Built(keys) ==
    LET value == [n \in Names |-> Setting(keys, n)]
        valid == /\ value["OPTIMIZE_FOR"] \in Modes
                 /\ \A n \in Knobs : Parses(value[n])
                 /\ \E n \in {"SECRET", "KEY"} : Strip(value[n]) # Blank
    IN  [pc |-> IF valid THEN "up" ELSE "refused", value |-> value]

\* Importing sentinel_api.config: os.environ is changed for good, and the module
\* raises when Settings refuses.
Import ==
    /\ runtime.pc = "new"
    /\ env' = WithPreset(WithFile(env, given["file"]))
    /\ runtime' = Built(env')
    /\ UNCHANGED <<given, sdk, container>>

-----------------------------------------------------------------------------
(* The resolver of the SDK, and what it deploys.                            *)

\* Mutant: each form is looked for in every source before the other form.
CoalesceByForm(name) ==
    LET texts(f) == {<<1, given["dict"][<<name, f>>]>>, <<2, env[<<name, f>>]>>,
                     <<3, given["file"][<<name, f>>]>>}
        found(f) == {t \in texts(f) : t[2] # Unset}
        first(f) == (CHOOSE t \in found(f) : \A o \in found(f) : t[1] <= o[1])[2]
    IN  IF found("prefixed") # {} THEN first("prefixed")
        ELSE IF found("legacy") # {} THEN first("legacy") ELSE Unset

\* _coalesce_value: the dictionary, then the environment, then .env.
Coalesce(name) ==
    IF Get(given["dict"], name) # Unset THEN Get(given["dict"], name)
    ELSE IF Get(env, name) # Unset THEN Get(env, name)
    ELSE Get(given["file"], name)

\* The region is the caller's os.environ's, in the legacy form only.
Region ==
    IF env[<<"REGION", "legacy">>] = Unset THEN DeployRegion ELSE env[<<"REGION", "legacy">>]

\* resolve_config: values are stripped and not parsed; a mode left out is "cost", a
\* blank knob its preset, and the upstream and one of the JWT keys must be more than
\* blanks.  Not called once the import has raised.
ResolveConfig ==
    /\ sdk.pc = "new" /\ runtime.pc # "refused"
    /\ LET mode == IF Coalesce("OPTIMIZE_FOR") \in Missing THEN "cost"
                   ELSE Strip(Coalesce("OPTIMIZE_FOR"))
           value == [n \in Names |->
                       CASE n = "OPTIMIZE_FOR" -> mode
                         [] n = "REGION" -> Region
                         [] n \in Knobs /\ Strip(Coalesce(n)) = Blank -> Preset[mode]
                         [] OTHER -> Strip(Coalesce(n))]
           valid == /\ mode \in Modes
                    /\ Strip(Coalesce("UPSTREAM")) # Blank
                    /\ \E n \in {"SECRET", "KEY"} : Strip(Coalesce(n)) # Blank
       IN  sdk' = IF valid THEN [pc |-> "resolved", value |-> value]
                  ELSE [NotRun EXCEPT !.pc = "refused"]
    /\ UNCHANGED <<given, env, runtime, container>>

\* Mutant: a knob is left to the preset in the container.
StartContainerWithoutKnob ==
    /\ sdk.pc = "resolved" /\ container.pc = "new" /\ Parses(sdk.value["TASK"])
    /\ container' = Built(WithPreset([k \in Keys |->
                        IF k[2] = "prefixed" /\ k[1] \notin Knobs
                        THEN sdk.value[k[1]] ELSE Unset]))
    /\ UNCHANGED <<given, env, runtime, sdk>>

\* The template takes a number for its own resources and hands the rest of the plan to
\* the container under the prefixed names; the gateway imports its configuration
\* there, without a .env.
StartContainer ==
    /\ sdk.pc = "resolved" /\ container.pc = "new" /\ Parses(sdk.value["TASK"])
    /\ container' = Built(WithPreset([k \in Keys |->
                        IF k[2] = "prefixed" /\ k[1] # "TASK"
                        THEN sdk.value[k[1]] ELSE Unset]))
    /\ UNCHANGED <<given, env, runtime, sdk>>

Next == Import \/ ResolveConfig \/ StartContainer

Spec == Init /\ [][Next]_vars

-----------------------------------------------------------------------------
(* scripts/generate_jwt.py, and the key its tokens meet.                    *)

\* Mutant: .env wins over what is set.
SigningSecretFromFile(keys, file) == GetNonBlank(WithFile(file, keys), "SECRET")

\* The secret a token is signed with: --env-file, when it is given, fills in what is
\* not set, and the first form that is not blank is taken.
SigningSecret(keys, file) == GetNonBlank(WithFile(keys, file), "SECRET")

\* The key a gateway verifies with: the JWKS or the public key before the secret.
VerificationKey(value) == IF value["KEY"] \notin Missing THEN value["KEY"] ELSE value["SECRET"]

-----------------------------------------------------------------------------
(* Properties.                                                              *)

\* Every variable has its type; what passed a resolver has a mode, knobs and a JWT
\* key, and what runs has knobs that parse.
TypeOK ==
    /\ given \in [Layers -> [Keys -> AllTexts]]
    /\ env \in [Keys -> AllTexts]
    /\ \A run \in {runtime, sdk, container} :
         /\ run \in [pc : {"new", "refused", "resolved", "up"}, value : [Names -> AllTexts]]
         /\ run.pc \in {"resolved", "up"} =>
              /\ run.value["OPTIMIZE_FOR"] \in Modes
              /\ \A n \in Knobs : run.value[n] \notin Missing
              /\ \E n \in {"SECRET", "KEY"} : Strip(run.value[n]) # Blank
         /\ run.pc = "up" => \A n \in Knobs : Parses(run.value[n])

\* The name is set in the shell in its legacy form and in .env in the other.
Shadowed(name) ==
    /\ given["shell"][<<name, "prefixed">>] = Unset
    /\ given["shell"][<<name, "legacy">>] # Unset
    /\ given["file"][<<name, "prefixed">>] # Unset

\* What Settings makes of an explicit text.
Kept(name, text) == IF name \in Knobs \cup {"OPTIMIZE_FOR"} THEN Strip(text) ELSE text

\* The gateway honours the environment over .env over the preset: what the shell
\* gives is what it runs with, unless .env has the same name in the prefixed form,
\* which wins over a legacy form of the shell; .env is used for the rest, and a
\* knob given nowhere has the preset of the mode the gateway runs in.
RuntimeFollowsPrecedence ==
    runtime.pc = "up" =>
        \A n \in Names :
            LET shell == Get(given["shell"], n)
                file == Get(given["file"], n)
            IN  /\ shell # Unset /\ ~Shadowed(n) => runtime.value[n] = Kept(n, shell)
                /\ shell = Unset /\ file # Unset => runtime.value[n] = Kept(n, file)
                /\ shell = Unset /\ file = Unset /\ n \in Knobs =>
                     runtime.value[n] = Preset[runtime.value["OPTIMIZE_FOR"]]

\* No dictionary, no blank text, none with blanks around it, and no name of .env
\* that shadows one of the shell.
SourcesAreClean ==
    /\ \A k \in Keys :
         /\ given["dict"][k] = Unset
         /\ given["shell"][k] \notin {Blank} \cup Padded
         /\ given["file"][k] # Blank
    /\ \A n \in Names : ~Shadowed(n)

Same(text, other) == text = other \/ {text, other} \subseteq Missing

\* The shell gives AWS_REGION, the only form of the name that both resolvers read.
RegionIsShared ==
    /\ given["shell"][<<"REGION", "legacy">>] # Unset
    /\ given["shell"][<<"REGION", "prefixed">>] = Unset

\* From clean sources a gateway started here and a deployment resolved here - before
\* the import of sentinel_api.config or after it has changed os.environ - use the
\* same values, but for a region the shell does not give as AWS_REGION; and one is
\* refused exactly when the other is, but for the upstream, which only the
\* deployment requires, and for a knob that does not parse, which only the gateway
\* refuses.
ResolversAgree ==
    SourcesAreClean /\ runtime.pc # "new" /\ sdk.pc # "new" =>
        /\ sdk.pc = "resolved" =>
             /\ runtime.pc = "up" <=> \A n \in Knobs : Parses(sdk.value[n])
             /\ runtime.pc = "up" =>
                  \A n \in Names : n # "REGION" \/ RegionIsShared =>
                     Same(sdk.value[n], runtime.value[n])
        /\ runtime.pc = "up" /\ runtime.value["UPSTREAM"] # Unset => sdk.pc = "resolved"

NotGiven(name) == \A l \in Layers : Get(given[l], name) = Unset

\* A deployment honours the dictionary over the rest, in whatever form the names
\* are given and whatever the import left in os.environ, but for the region, which
\* it does not look for there; and a knob that is given nowhere has the preset of the
\* deployed mode, unless the import came first: the preset it left in os.environ
\* then counts as explicit, also when the dictionary asks for the other mode.
DeploymentFollowsPrecedence ==
    sdk.pc = "resolved" =>
        /\ \A n \in Names \ {"REGION"} :
             LET dict == Get(given["dict"], n)
             IN  Strip(dict) # Blank => sdk.value[n] = Strip(dict)
        /\ \A n \in Knobs : NotGiven(n) /\ runtime.pc = "new" =>
             sdk.value[n] = Preset[sdk.value["OPTIMIZE_FOR"]]

\* A plan that resolve_config accepts is one the gateway starts with, unless a knob
\* does not parse, which nothing before the container's own import refuses; and the
\* container runs with the planned values and not with a preset, but for the
\* settings of the task, for which it is left with the preset of the planned mode.
ContainerRunsPlan ==
    container.pc # "new" =>
        /\ container.pc = "up" <=> Parses(sdk.value["KNOB"])
        /\ \A n \in Names \ {"TASK"} : container.value[n] = sdk.value[n]
        /\ container.value["TASK"] = Preset[sdk.value["OPTIMIZE_FOR"]]

\* A token of the script verifies at a gateway that was started from the same
\* environment and has neither a public key nor a JWKS address: with --env-file
\* always, without it when .env does not shadow the secret of the shell; and, from
\* clean sources, at the deployed gateway too.  A gateway with such a key verifies with it,
\* whatever secret the script finds.
TokensVerify ==
    LET signed == SigningSecret(given["shell"], given["file"])
        signedByShell == SigningSecret(given["shell"], NoKeys)
    IN  /\ runtime.pc = "up" /\ runtime.value["KEY"] \in Missing =>
             /\ signed = VerificationKey(runtime.value)
             /\ signedByShell \notin Missing /\ ~Shadowed("SECRET") =>
                  signedByShell = VerificationKey(runtime.value)
        /\ container.pc = "up" /\ container.value["KEY"] \in Missing /\ SourcesAreClean =>
             signed = VerificationKey(container.value)

=============================================================================
