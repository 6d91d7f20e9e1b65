------------------------ MODULE ConfigAndKeysProofs ------------------------
(***************************************************************************)
(* Proofs about what the gateway is configured with and what it verifies   *)
(* tokens with: ConfigResolution, for any explicit values and any number   *)
(* of places at which a name is given, and JwksAuth, for any keys, any     *)
(* cache time and any time an answer of the provider may take.             *)
(***************************************************************************)
EXTENDS ConfigResolution, JwksAuth, TLAPS

-----------------------------------------------------------------------------
(* ConfigResolution: the operators.                                         *)

KeyMaps == [Keys -> AllTexts]
Values == [Names -> AllTexts]
JwtKeys == {"SECRET", "KEY"}

\* Stripping leaves one of four texts, or the text as it was; what is stripped is a
\* text that is set, and stripping it again changes nothing.
LEMMA StripFacts ==
    ASSUME NEW text
    PROVE  /\ Strip(text) \in {Blank, "cost", "256", "k1"} \/ Strip(text) = text
           /\ Strip(text) # Unset
           /\ Strip(Strip(text)) = Strip(text)
           /\ text \notin Padded /\ text # Unset => Strip(text) = text
           /\ text \in Modes => Strip(text) = text
           /\ text \in Missing => Strip(text) = Blank
  BY DEF Strip, Padded, Blank, Unset, Modes, Missing

\* What can be given, what is left of it, and what the presets add.
LEMMA TextTypes ==
    /\ {Unset, Blank, RuntimeRegion, DeployRegion} \cup Modes \subseteq AllTexts
    /\ \A n \in Names : Texts(n) \subseteq AllTexts
    /\ \A t \in AllTexts : Strip(t) \in AllTexts
    /\ \A m \in Modes : /\ Preset[m] \in AllTexts \ Missing
                        /\ Strip(Preset[m]) = Preset[m]
                        /\ Parses(Preset[m])
  <1>1. Preset["cost"] = "256" /\ Preset["performance"] = "1024"
    BY DEF Preset
  <1>2. \A m \in Modes : /\ Preset[m] \in AllTexts \ Missing
                         /\ Strip(Preset[m]) = Preset[m]
                         /\ Parses(Preset[m])
    <2>1. \A m \in Modes : Preset[m] \in AllTexts
      BY DEF AllTexts
    <2>2. Strip("256") = "256" /\ Strip("1024") = "1024"
      BY DEF Strip, Unset
    <2>3. "256" \notin Missing /\ "1024" \notin Missing /\ Parses("256") /\ Parses("1024")
      BY <2>2 DEF Missing, Unset, Blank, Parses, Unparsable
    <2> QED
      BY <1>1, <2>1, <2>2, <2>3 DEF Modes
  <1>3. Modes \cup {Blank} \subseteq Texts("OPTIMIZE_FOR")
    BY DEF Texts, Knobs
  <1>4. \A n \in Names : Texts(n) \subseteq AllTexts
    BY DEF AllTexts
  <1>5. Blank \in AllTexts /\ Modes \subseteq AllTexts
    BY <1>3, <1>4 DEF Names
  <1>6. {"cost", "256", "k1"} \subseteq AllTexts
    <2>1. "cost" \in AllTexts /\ "256" \in AllTexts
      BY <1>1, <1>2, <1>5 DEF Modes
    <2>2. "k1" \in Texts("SECRET")
      BY DEF Texts, Knobs
    <2> QED
      BY <1>4, <2>1, <2>2 DEF Names
  <1>7. \A t \in AllTexts : Strip(t) \in AllTexts
    BY <1>5, <1>6, StripFacts
  <1> QED
    BY <1>2, <1>4, <1>5, <1>7 DEF AllTexts

\* The mode whose preset the runtime applies.
ModeOf(keys) ==
    LET text == Strip(GetNonBlank(keys, "OPTIMIZE_FOR"))
    IN  IF text \in Modes THEN text ELSE "cost"

\* The environment of the deployed container before it is imported there.
PlanKeys(value) ==
    [k \in Keys |-> IF k[2] = "prefixed" /\ k[1] # "TASK" THEN value[k[1]] ELSE Unset]

\* A key is a name in one of its forms.
LEMMA KeyForms ==
    /\ \A n \in Names : <<n, "prefixed">> \in Keys /\ <<n, "legacy">> \in Keys
    /\ \A k \in Keys : k = <<k[1], k[2]>> /\ k[1] \in Names /\ k[2] \in Forms
  BY DEF Keys, Forms

\* The values looked up are texts.
LEMMA GetType ==
    ASSUME NEW keys \in KeyMaps, NEW n \in Names
    PROVE  Get(keys, n) \in AllTexts /\ GetNonBlank(keys, n) \in AllTexts
  BY KeyForms DEF KeyMaps, Get, GetNonBlank

\* A mode is always found, and has a preset.
LEMMA ModeType ==
    ASSUME NEW keys
    PROVE  ModeOf(keys) \in Modes /\ Preset[ModeOf(keys)] \in AllTexts \ Missing
  <1>1. ModeOf(keys) \in Modes
    BY DEF ModeOf, Modes
  <1> QED
    BY <1>1, TextTypes

\* .env fills in the keys that are not set.
LEMMA WithFileType ==
    ASSUME NEW keys \in KeyMaps, NEW file \in KeyMaps
    PROVE  /\ WithFile(keys, file) \in KeyMaps
           /\ \A k \in Keys :
                WithFile(keys, file)[k] = IF keys[k] = Unset THEN file[k] ELSE keys[k]
  BY DEF KeyMaps, WithFile

\* What the preset of a mode gives.
Default(keys) ==
    [OPTIMIZE_FOR |-> ModeOf(keys), KNOB |-> Preset[ModeOf(keys)], TASK |-> Preset[ModeOf(keys)]]

\* The names that have a default, and that it is a text that is set.
LEMMA DefaultFacts ==
    ASSUME NEW keys
    PROVE  /\ DOMAIN Default(keys) = Knobs \cup {"OPTIMIZE_FOR"}
           /\ Default(keys)["OPTIMIZE_FOR"] = ModeOf(keys)
           /\ \A n \in Knobs : Default(keys)[n] = Preset[ModeOf(keys)]
           /\ \A n \in Knobs \cup {"OPTIMIZE_FOR"} : Default(keys)[n] \in AllTexts \ Missing
  <1>1. /\ DOMAIN Default(keys) = Knobs \cup {"OPTIMIZE_FOR"}
        /\ Default(keys)["OPTIMIZE_FOR"] = ModeOf(keys)
        /\ \A n \in Knobs : Default(keys)[n] = Preset[ModeOf(keys)]
    BY DEF Default, Knobs
  <1>2. ModeOf(keys) \in AllTexts \ Missing /\ Preset[ModeOf(keys)] \in AllTexts \ Missing
    BY ModeType, TextTypes DEF Modes, Missing, Unset, Blank
  <1> QED
    BY <1>1, <1>2

\* The preset fills in the prefixed keys of the mode and the knobs, when neither form
\* is set, and nothing else.
LEMMA WithPresetAt ==
    ASSUME NEW keys \in KeyMaps
    PROVE  /\ WithPreset(keys) \in KeyMaps
           /\ \A n \in Names :
                /\ WithPreset(keys)[<<n, "legacy">>] = keys[<<n, "legacy">>]
                /\ WithPreset(keys)[<<n, "prefixed">>] =
                     IF n \in Knobs \cup {"OPTIMIZE_FOR"} /\ Get(keys, n) = Unset
                     THEN Default(keys)[n] ELSE keys[<<n, "prefixed">>]
  <1>1. WithPreset(keys) =
          [k \in Keys |->
             IF k[1] \in DOMAIN Default(keys) /\ k[2] = "prefixed" /\ Get(keys, k[1]) = Unset
             THEN Default(keys)[k[1]] ELSE keys[k]]
    BY DEF WithPreset, ModeOf, Default
  <1>2. \A k \in Keys : k[1] \in DOMAIN Default(keys) => Default(keys)[k[1]] \in AllTexts
    BY DefaultFacts
  <1>3. WithPreset(keys) \in KeyMaps
    BY <1>1, <1>2 DEF KeyMaps
  <1>4. ASSUME NEW n \in Names
        PROVE  /\ WithPreset(keys)[<<n, "legacy">>] = keys[<<n, "legacy">>]
               /\ WithPreset(keys)[<<n, "prefixed">>] =
                    IF n \in Knobs \cup {"OPTIMIZE_FOR"} /\ Get(keys, n) = Unset
                    THEN Default(keys)[n] ELSE keys[<<n, "prefixed">>]
    <2>1. WithPreset(keys)[<<n, "legacy">>] = keys[<<n, "legacy">>]
      BY <1>1, KeyForms
    <2>2. WithPreset(keys)[<<n, "prefixed">>] =
            IF n \in DOMAIN Default(keys) /\ Get(keys, n) = Unset
            THEN Default(keys)[n] ELSE keys[<<n, "prefixed">>]
      BY <1>1, KeyForms
    <2> QED
      BY <2>1, <2>2, DefaultFacts
  <1> QED
    BY <1>3, <1>4

\* What the preset adds is found as a value; every other value stays.
LEMMA PresetGet ==
    ASSUME NEW keys \in KeyMaps, NEW n \in Names
    PROVE  Get(WithPreset(keys), n) =
             IF n \in Knobs \cup {"OPTIMIZE_FOR"} /\ Get(keys, n) = Unset
             THEN Default(keys)[n] ELSE Get(keys, n)
  <1>1. n \in Knobs \cup {"OPTIMIZE_FOR"} => Default(keys)[n] # Unset
    BY DefaultFacts DEF Missing
  <1>2. /\ WithPreset(keys)[<<n, "legacy">>] = keys[<<n, "legacy">>]
        /\ WithPreset(keys)[<<n, "prefixed">>] =
             IF n \in Knobs \cup {"OPTIMIZE_FOR"} /\ Get(keys, n) = Unset
             THEN Default(keys)[n] ELSE keys[<<n, "prefixed">>]
    BY WithPresetAt
  <1>3. CASE n \in Knobs \cup {"OPTIMIZE_FOR"} /\ Get(keys, n) = Unset
    BY <1>1, <1>2, <1>3 DEF Get
  <1>4. CASE ~(n \in Knobs \cup {"OPTIMIZE_FOR"} /\ Get(keys, n) = Unset)
    BY <1>2, <1>4 DEF Get
  <1> QED
    BY <1>3, <1>4

\* Settings holds the values that are looked up, which pass if it is up.
LEMMA BuiltValues ==
    ASSUME NEW keys \in KeyMaps
    PROVE  /\ Built(keys).pc \in {"up", "refused"}
           /\ Built(keys).value \in Values
           /\ \A n \in Names : Built(keys).value[n] = Setting(keys, n)
           /\ Built(keys).pc = "up" <=>
                /\ Setting(keys, "OPTIMIZE_FOR") \in Modes
                /\ \A n \in Knobs : Parses(Setting(keys, n))
                /\ \E n \in JwtKeys : Strip(Setting(keys, n)) # Blank
           /\ Built(keys) = [pc |-> Built(keys).pc, value |-> Built(keys).value]
  <1> DEFINE value == [n \in Names |-> Setting(keys, n)]
  <1>1. \A n \in Names : Setting(keys, n) \in AllTexts
    BY GetType, TextTypes DEF Setting
  <1>2. value \in Values /\ \A n \in Names : value[n] = Setting(keys, n)
    BY <1>1 DEF Values
  <1>3. {"OPTIMIZE_FOR"} \cup Knobs \cup JwtKeys \subseteq Names
    BY DEF Names, Knobs, JwtKeys
  <1>4. Built(keys) =
          [pc |-> IF /\ value["OPTIMIZE_FOR"] \in Modes
                     /\ \A n \in Knobs : Parses(value[n])
                     /\ \E n \in JwtKeys : Strip(value[n]) # Blank
                  THEN "up" ELSE "refused",
           value |-> value]
    BY DEF Built, JwtKeys
  <1> HIDE DEF value
  <1> DEFINE valid == /\ value["OPTIMIZE_FOR"] \in Modes
                      /\ \A n \in Knobs : Parses(value[n])
                      /\ \E n \in JwtKeys : Strip(value[n]) # Blank
  <1>5. valid <=> /\ Setting(keys, "OPTIMIZE_FOR") \in Modes
                  /\ \A n \in Knobs : Parses(Setting(keys, n))
                  /\ \E n \in JwtKeys : Strip(Setting(keys, n)) # Blank
    <2>1. value["OPTIMIZE_FOR"] = Setting(keys, "OPTIMIZE_FOR")
      BY <1>2, <1>3
    <2>2. \A n \in Knobs \cup JwtKeys : value[n] = Setting(keys, n)
      BY <1>2, <1>3
    <2>3. (\A n \in Knobs : Parses(value[n])) <=> (\A n \in Knobs : Parses(Setting(keys, n)))
      BY <2>2
    <2>4. (\E n \in JwtKeys : Strip(value[n]) # Blank)
            <=> (\E n \in JwtKeys : Strip(Setting(keys, n)) # Blank)
      BY <2>2
    <2> QED
      BY <2>1, <2>3, <2>4
  <1>6. Built(keys) = [pc |-> IF valid THEN "up" ELSE "refused", value |-> value]
    BY <1>4
  <1> HIDE DEF valid
  <1>7. /\ Built(keys).value = value
        /\ Built(keys).pc = IF valid THEN "up" ELSE "refused"
        /\ Built(keys) = [pc |-> Built(keys).pc, value |-> Built(keys).value]
    BY <1>6
  <1>8. Built(keys).pc \in {"up", "refused"} /\ (Built(keys).pc = "up" <=> valid)
    BY <1>7
  <1> QED
    BY <1>2, <1>5, <1>7, <1>8

\* What is planned for a deployment, with every value stripped.
IsPlan(value) ==
    /\ value \in Values
    /\ value["OPTIMIZE_FOR"] \in Modes
    /\ \A n \in Knobs : value[n] \notin Missing /\ Strip(value[n]) = value[n]
    /\ \A n \in Names : value[n] # Unset
    /\ \A n \in JwtKeys : Strip(value[n]) = value[n]
    /\ \E n \in JwtKeys : value[n] # Blank

\* What the template hands to the container is what it runs with, if the knob parses;
\* the settings of the task are those of the preset.
LEMMA ContainerValues ==
    ASSUME NEW value, IsPlan(value)
    PROVE  LET made == Built(WithPreset(PlanKeys(value)))
           IN  /\ made.pc = "up" <=> Parses(value["KNOB"])
               /\ \A n \in Names \ {"TASK"} : made.value[n] = value[n]
               /\ made.value["TASK"] = Preset[value["OPTIMIZE_FOR"]]
  <1>1. PlanKeys(value) \in KeyMaps
    <2>1. \A k \in Keys : value[k[1]] \in AllTexts
      BY KeyForms DEF Values, IsPlan
    <2> QED
      BY <2>1, TextTypes DEF PlanKeys, KeyMaps
  <1>2. \A n \in Names : Get(PlanKeys(value), n) = IF n = "TASK" THEN Unset ELSE value[n]
    BY KeyForms DEF Get, PlanKeys, IsPlan
  <1>3. ModeOf(PlanKeys(value)) = value["OPTIMIZE_FOR"]
    <2>1. "OPTIMIZE_FOR" \in Names /\ value["OPTIMIZE_FOR"] \in Modes
      BY DEF Names, IsPlan
    <2>2. value["OPTIMIZE_FOR"] \notin Missing
      BY <2>1 DEF Modes, Missing, Unset, Blank
    <2>3. PlanKeys(value)[<<"OPTIMIZE_FOR", "prefixed">>] = value["OPTIMIZE_FOR"]
      BY <2>1, KeyForms DEF PlanKeys
    <2>4. GetNonBlank(PlanKeys(value), "OPTIMIZE_FOR") = value["OPTIMIZE_FOR"]
      BY <2>2, <2>3 DEF GetNonBlank
    <2> QED
      BY <2>1, <2>4, StripFacts DEF ModeOf
  <1> DEFINE keys == WithPreset(PlanKeys(value))
  <1>4. keys \in KeyMaps
    BY <1>1, WithPresetAt
  <1>5. \A n \in Names : Get(keys, n) = IF n = "TASK" THEN Preset[value["OPTIMIZE_FOR"]]
                                        ELSE value[n]
    <2>1. ASSUME NEW n \in Names, n # "TASK"
          PROVE  Get(keys, n) = value[n]
      <3>1. Get(PlanKeys(value), n) = value[n] /\ value[n] # Unset
        BY <1>2, <2>1 DEF IsPlan
      <3> QED
        BY <1>1, <3>1, PresetGet
    <2>2. Get(keys, "TASK") = Preset[value["OPTIMIZE_FOR"]]
      <3>1. "TASK" \in Names /\ "TASK" \in Knobs
        BY DEF Names, Knobs
      <3>2. Get(PlanKeys(value), "TASK") = Unset
        BY <1>2, <3>1
      <3>3. Get(keys, "TASK") = Default(PlanKeys(value))["TASK"]
        BY <1>1, <3>1, <3>2, PresetGet
      <3> QED
        BY <1>3, <3>1, <3>3, DefaultFacts
    <2> QED
      BY <2>1, <2>2
  <1> HIDE DEF keys
  <1>6. \A n \in Names \ {"TASK"} : Setting(keys, n) = value[n]
    <2> SUFFICES ASSUME NEW n \in Names \ {"TASK"} PROVE Setting(keys, n) = value[n]
      OBVIOUS
    <2>1. Get(keys, n) = value[n] /\ value[n] # Unset
      BY <1>5 DEF IsPlan
    <2>2. n \in Knobs \cup {"OPTIMIZE_FOR"} => Strip(value[n]) = value[n]
      BY StripFacts DEF IsPlan
    <2> QED
      BY <2>1, <2>2 DEF Setting
  <1>7. Setting(keys, "TASK") = Preset[value["OPTIMIZE_FOR"]] /\ Parses(Setting(keys, "TASK"))
    <2>1. Get(keys, "TASK") = Preset[value["OPTIMIZE_FOR"]]
      BY <1>5 DEF Names
    <2>2. Setting(keys, "TASK") = Strip(Get(keys, "TASK"))
      BY DEF Setting, Knobs
    <2>3. value["OPTIMIZE_FOR"] \in Modes
      BY DEF IsPlan
    <2> QED
      BY <2>1, <2>2, <2>3, TextTypes
  <1>8. Built(keys).pc = "up" <=> Parses(value["KNOB"])
    <2>1. Setting(keys, "OPTIMIZE_FOR") \in Modes /\ Setting(keys, "KNOB") = value["KNOB"]
      BY <1>6 DEF Names, IsPlan
    <2>2. \E n \in JwtKeys : Strip(Setting(keys, n)) # Blank
      BY <1>6 DEF Names, IsPlan, JwtKeys
    <2>3. (\A n \in Knobs : Parses(Setting(keys, n))) <=> Parses(value["KNOB"])
      BY <1>7, <2>1 DEF Knobs
    <2> QED
      BY <1>4, <2>1, <2>2, <2>3, BuiltValues
  <1>9. \A n \in Names : Built(keys).value[n] = Setting(keys, n)
    BY <1>4, BuiltValues
  <1>10. \A n \in Names \ {"TASK"} : Built(keys).value[n] = value[n]
    BY <1>6, <1>9
  <1>11. Built(keys).value["TASK"] = Preset[value["OPTIMIZE_FOR"]]
    BY <1>7, <1>9 DEF Names
  <1> QED
    BY <1>8, <1>10, <1>11 DEF keys

-----------------------------------------------------------------------------
(* The invariant: every resolver has run on what its sources gave it.       *)

ImportedEnv == WithPreset(WithFile(given["shell"], given["file"]))

\* What resolve_config makes of the sources when os.environ is keys.
Found(keys, name) ==
    IF Get(given["dict"], name) # Unset THEN Get(given["dict"], name)
    ELSE IF Get(keys, name) # Unset THEN Get(keys, name)
    ELSE Get(given["file"], name)

FoundMode(keys) ==
    IF Found(keys, "OPTIMIZE_FOR") \in Missing THEN "cost"
    ELSE Strip(Found(keys, "OPTIMIZE_FOR"))

RegionOf(keys) ==
    IF keys[<<"REGION", "legacy">>] = Unset THEN DeployRegion ELSE keys[<<"REGION", "legacy">>]

\* What resolve_config insists on.
Accepts(keys) ==
    /\ FoundMode(keys) \in Modes
    /\ Strip(Found(keys, "UPSTREAM")) # Blank
    /\ \E n \in JwtKeys : Strip(Found(keys, n)) # Blank

\* What resolve_config makes of one name.
PlannedFor(keys, n) ==
    CASE n = "OPTIMIZE_FOR" -> FoundMode(keys)
      [] n = "REGION" -> RegionOf(keys)
      [] n \in Knobs /\ Strip(Found(keys, n)) = Blank -> Preset[FoundMode(keys)]
      [] OTHER -> Strip(Found(keys, n))

\* The configuration that was resolved from the sources when os.environ was keys.
ResolvedFrom(keys) ==
    /\ Accepts(keys)
    /\ sdk.value \in Values
    /\ \A n \in Names : sdk.value[n] = PlannedFor(keys, n)

RunTypes == [pc : {"new", "refused", "resolved", "up"}, value : Values]

ConfigInv ==
    /\ given \in [Layers -> KeyMaps]
    /\ \A k \in Keys : given["file"][k] \notin Padded
    /\ {runtime, sdk, container} \subseteq RunTypes
    /\ \/ runtime = NotRun /\ env = given["shell"]
       \/ runtime.pc # "new" /\ runtime = Built(ImportedEnv) /\ env = ImportedEnv
    /\ sdk.pc \in {"new", "refused", "resolved"}
    /\ sdk.pc = "resolved" =>
         \/ ResolvedFrom(given["shell"])
         \/ runtime.pc # "new" /\ ResolvedFrom(ImportedEnv)
    /\ sdk.pc = "refused" =>
         \/ ~Accepts(given["shell"])
         \/ runtime.pc # "new" /\ ~Accepts(ImportedEnv)
    /\ \/ container = NotRun
       \/ /\ sdk.pc = "resolved"
          /\ container = Built(WithPreset(PlanKeys(sdk.value)))

\* What is found are texts.
LEMMA FoundType ==
    ASSUME given \in [Layers -> KeyMaps], NEW keys \in KeyMaps, NEW n \in Names
    PROVE  Found(keys, n) \in AllTexts /\ Strip(Found(keys, n)) \in AllTexts
  <1>1. given["dict"] \in KeyMaps /\ given["file"] \in KeyMaps
    BY DEF Layers
  <1>2. Found(keys, n) \in AllTexts
    BY <1>1, GetType DEF Found
  <1> QED
    BY <1>2, TextTypes

\* What resolve_config returns are texts that are set.
LEMMA PlannedType ==
    ASSUME given \in [Layers -> KeyMaps], NEW keys \in KeyMaps, FoundMode(keys) \in Modes,
           NEW n \in Names
    PROVE  PlannedFor(keys, n) \in AllTexts \ {Unset}
  <1>1. FoundMode(keys) \in AllTexts \ Missing /\ Preset[FoundMode(keys)] \in AllTexts \ Missing
    BY TextTypes DEF Modes, Missing, Unset, Blank
  <1>2. RegionOf(keys) \in AllTexts \ {Unset}
    <2>1. <<"REGION", "legacy">> \in Keys
      BY KeyForms DEF Names
    <2> QED
      BY <2>1, TextTypes DEF RegionOf, KeyMaps, DeployRegion, Unset
  <1>3. Strip(Found(keys, n)) \in AllTexts \ {Unset}
    BY FoundType, StripFacts
  <1> QED
    BY <1>1, <1>2, <1>3 DEF PlannedFor, Missing

\* A configuration that was resolved is a plan.
LEMMA ResolvedIsPlan ==
    ASSUME given \in [Layers -> KeyMaps], NEW keys \in KeyMaps, ResolvedFrom(keys)
    PROVE  IsPlan(sdk.value)
  <1>1. /\ Accepts(keys) /\ FoundMode(keys) \in Modes /\ sdk.value \in Values
        /\ \A n \in Names : sdk.value[n] = PlannedFor(keys, n)
    BY DEF ResolvedFrom, Accepts
  <1>2. \A n \in Names : sdk.value[n] # Unset
    BY <1>1, PlannedType
  <1>3. sdk.value["OPTIMIZE_FOR"] \in Modes
    BY <1>1 DEF PlannedFor, Names, Knobs
  <1>4. ASSUME NEW n \in Knobs
        PROVE  sdk.value[n] \notin Missing /\ Strip(sdk.value[n]) = sdk.value[n]
    <2>1. n \in Names /\ n # "OPTIMIZE_FOR" /\ n # "REGION"
      BY DEF Knobs, Names
    <2>2. CASE Strip(Found(keys, n)) = Blank
      <3>1. sdk.value[n] = Preset[FoundMode(keys)]
        BY <1>1, <2>1, <2>2 DEF PlannedFor
      <3> QED
        BY <1>1, <3>1, TextTypes
    <2>3. CASE Strip(Found(keys, n)) # Blank
      <3>1. sdk.value[n] = Strip(Found(keys, n))
        BY <1>1, <2>1, <2>3 DEF PlannedFor
      <3> QED
        BY <2>3, <3>1, StripFacts DEF Missing
    <2> QED
      BY <2>2, <2>3
  <1>5. \A n \in JwtKeys : sdk.value[n] = Strip(Found(keys, n))
    BY <1>1 DEF JwtKeys, Names, Knobs, PlannedFor
  <1>6. \A n \in JwtKeys : Strip(sdk.value[n]) = sdk.value[n]
    BY <1>5, StripFacts
  <1>7. \E n \in JwtKeys : sdk.value[n] # Blank
    BY <1>1, <1>5 DEF Accepts
  <1> QED
    BY <1>1, <1>2, <1>3, <1>4, <1>6, <1>7 DEF IsPlan

\* What may be said of a name, said anywhere, is a text.
LEMMA GivenType ==
    ASSUME NEW choice \in Configurations, NEW l \in Layers, NEW k \in Keys
    PROVE  TextAt(choice, l, k) \in AllTexts
  <1>1. ASSUME NEW name \in Names, NEW said \in Given(name), NEW place \in DOMAIN said
        PROVE  said[place] \in AllTexts
    <2>1. PICK P : said \in [P -> Texts(name)]
      BY DEF Given
    <2> QED
      BY <2>1, TextTypes
  <1>2. ASSUME NEW name \in Names, NEW said \in Otherwise(name), NEW place \in DOMAIN said
        PROVE  said[place] \in AllTexts
    <2>1. DOMAIN <<>> = {}
      OBVIOUS
    <2>2. said[place] = "k1"
      BY <2>1 DEF Otherwise
    <2>3. "k1" \in Texts("SECRET")
      BY DEF Texts, Knobs
    <2> QED
      BY <2>2, <2>3, TextTypes DEF Names
  <1>3. PICK varied \in Together :
          choice \in [OPTIMIZE_FOR : Said("OPTIMIZE_FOR", varied), KNOB : Said("KNOB", varied),
                      TASK : Said("TASK", varied), SECRET : Said("SECRET", varied),
                      KEY : Said("KEY", varied), UPSTREAM : Said("UPSTREAM", varied),
                      REGION : Said("REGION", varied)]
    BY DEF Configurations
  <1>4. \A name \in Names : choice[name] \in Said(name, varied)
    BY <1>3 DEF Names
  <1>5. \A name \in Names : choice[name] \in Given(name) \cup Otherwise(name)
    BY <1>4 DEF Said
  <1>6. k[1] \in Names
    BY KeyForms
  <1>7. <<l, k[2]>> \in DOMAIN choice[k[1]] => choice[k[1]][<<l, k[2]>>] \in AllTexts
    BY <1>1, <1>2, <1>5, <1>6
  <1> QED
    BY <1>7, TextTypes DEF TextAt

\* What was stripped has no blanks around it.
LEMMA StripClean ==
    ASSUME NEW text
    PROVE  Strip(text) \notin Padded
  BY DEF Strip, Padded, Blank, Unset

\* The initial state satisfies the invariant.
LEMMA ConfigInit == Init => ConfigInv
  <1> SUFFICES ASSUME Init PROVE ConfigInv
    OBVIOUS
  <1>1. given \in [Layers -> KeyMaps]
    <2>1. PICK choice \in Configurations :
            given = [l \in Layers |-> [k \in Keys |-> TextAt(choice, l, k)]]
      BY DEF Init
    <2> QED
      BY <2>1, GivenType DEF KeyMaps
  <1>2. NotRun \in RunTypes /\ NotRun.pc = "new"
    BY TextTypes DEF NotRun, RunTypes, Values
  <1>3. \A k \in Keys : given["file"][k] \notin Padded
    <2>1. PICK choice \in Configurations :
            given = [l \in Layers |-> [k \in Keys |-> TextAt(choice, l, k)]]
      BY DEF Init
    <2>2. \A k \in Keys : given["file"][k] = TextAt(choice, "file", k)
      BY <2>1 DEF Layers
    <2>3. \A k \in Keys : TextAt(choice, "file", k) \notin Padded
      BY StripClean DEF TextAt, Padded, Unset
    <2> QED
      BY <2>2, <2>3
  <1> QED
    BY <1>1, <1>2, <1>3 DEF Init, ConfigInv

\* The sources are maps of keys to texts.
LEMMA SourceTypes ==
    ASSUME given \in [Layers -> KeyMaps]
    PROVE  /\ given["dict"] \in KeyMaps /\ given["shell"] \in KeyMaps
           /\ given["file"] \in KeyMaps
           /\ WithFile(given["shell"], given["file"]) \in KeyMaps
           /\ ImportedEnv \in KeyMaps
  <1>1. given["dict"] \in KeyMaps /\ given["shell"] \in KeyMaps /\ given["file"] \in KeyMaps
    BY DEF Layers
  <1> QED
    BY <1>1, WithFileType, WithPresetAt DEF ImportedEnv

\* Importing the configuration.
LEMMA ImportStep == ConfigInv /\ Import => ConfigInv'
  <1> SUFFICES ASSUME ConfigInv, Import PROVE ConfigInv'
    OBVIOUS
  <1>1. given \in [Layers -> KeyMaps] /\ ImportedEnv \in KeyMaps
    BY SourceTypes DEF ConfigInv
  <1>2. env' = ImportedEnv /\ runtime' = Built(ImportedEnv)
    BY DEF ConfigInv, Import, ImportedEnv
  <1>3. runtime' \in RunTypes /\ runtime'.pc # "new"
    BY <1>1, <1>2, BuiltValues DEF RunTypes
  <1>4. UNCHANGED <<given, sdk, container>>
    BY DEF Import
  <1>5. /\ ImportedEnv' = ImportedEnv
        /\ ResolvedFrom(given["shell"]) => ResolvedFrom(given["shell"])'
        /\ ~Accepts(given["shell"]) => ~Accepts(given["shell"])'
        /\ ResolvedFrom(ImportedEnv) => ResolvedFrom(ImportedEnv)'
        /\ ~Accepts(ImportedEnv) => ~Accepts(ImportedEnv)'
    BY <1>4 DEF ImportedEnv, ResolvedFrom, Accepts, Found, FoundMode, PlannedFor, RegionOf
  <1> QED
    BY <1>2, <1>3, <1>4, <1>5 DEF ConfigInv

\* Resolving a deployment.
LEMMA ResolveStep == ConfigInv /\ ResolveConfig => ConfigInv'
  <1> SUFFICES ASSUME ConfigInv, ResolveConfig PROVE ConfigInv'
    OBVIOUS
  <1>1. /\ given \in [Layers -> KeyMaps]
        /\ given["dict"] \in KeyMaps /\ given["file"] \in KeyMaps
        /\ given["shell"] \in KeyMaps /\ ImportedEnv \in KeyMaps
    BY SourceTypes DEF ConfigInv
  <1>2. UNCHANGED <<given, env, runtime, container>> /\ sdk.pc = "new"
    BY DEF ResolveConfig
  <1>3. env \in KeyMaps /\ (env = given["shell"] \/ (runtime.pc # "new" /\ env = ImportedEnv))
    BY <1>1 DEF ConfigInv
  <1>4. \A n \in Names : Coalesce(n) = Found(env, n)
    BY DEF Coalesce, Found
  <1>5. container = NotRun
    BY <1>2 DEF ConfigInv
  <1> DEFINE value == [n \in Names |-> PlannedFor(env, n)]
  <1>6. {"OPTIMIZE_FOR", "UPSTREAM"} \cup JwtKeys \subseteq Names
    BY DEF Names, JwtKeys
  <1>7. sdk' = IF Accepts(env) THEN [pc |-> "resolved", value |-> value]
               ELSE [NotRun EXCEPT !.pc = "refused"]
    BY <1>4, <1>6 DEF ResolveConfig, FoundMode, Accepts, PlannedFor, Region, RegionOf, JwtKeys
  <1>8. CASE ~Accepts(env)
    <2>1. sdk' = [NotRun EXCEPT !.pc = "refused"]
      BY <1>7, <1>8
    <2>2. sdk' \in RunTypes /\ sdk'.pc = "refused"
      BY <2>1, TextTypes DEF NotRun, RunTypes, Values
    <2>3. /\ ImportedEnv' = ImportedEnv
          /\ ~Accepts(given["shell"]) => ~Accepts(given["shell"])'
          /\ ~Accepts(ImportedEnv) => ~Accepts(ImportedEnv)'
      BY <1>2 DEF ImportedEnv, Accepts, Found, FoundMode
    <2> QED
      BY <1>2, <1>3, <1>5, <1>8, <2>2, <2>3 DEF ConfigInv
  <1>9. CASE Accepts(env)
    <2>1. sdk' = [pc |-> "resolved", value |-> value]
      BY <1>7, <1>9
    <2>2. value \in Values
      BY <1>1, <1>3, <1>9, PlannedType DEF Values, Accepts
    <2>3. sdk'.value = value /\ sdk'.pc = "resolved" /\ sdk' \in RunTypes
      BY <2>1, <2>2 DEF RunTypes
    <2>4. sdk'.value \in Values /\ \A n \in Names : sdk'.value[n] = PlannedFor(env, n)
      BY <2>2, <2>3
    <2> HIDE DEF value
    <2>5. CASE env = given["shell"]
      <3>1. /\ Accepts(given["shell"])'
            /\ \A n \in Names : PlannedFor(given["shell"], n)' = PlannedFor(env, n)
        BY <1>2, <1>9, <2>5 DEF Accepts, Found, FoundMode, PlannedFor, RegionOf
      <3>2. ResolvedFrom(given["shell"])'
        BY <2>4, <3>1 DEF ResolvedFrom
      <3> QED
        BY <1>2, <1>5, <2>3, <3>2 DEF ConfigInv, ImportedEnv
    <2>6. CASE runtime.pc # "new" /\ env = ImportedEnv
      <3>1. ImportedEnv' = ImportedEnv
        BY <1>2 DEF ImportedEnv
      <3>2. /\ Accepts(ImportedEnv)'
            /\ \A n \in Names : PlannedFor(ImportedEnv, n)' = PlannedFor(env, n)
        BY <1>2, <1>9, <2>6, <3>1 DEF Accepts, Found, FoundMode, PlannedFor, RegionOf
      <3>3. ResolvedFrom(ImportedEnv)'
        BY <2>4, <3>2 DEF ResolvedFrom
      <3> QED
        BY <1>2, <1>5, <2>3, <2>6, <3>1, <3>3 DEF ConfigInv
    <2> QED
      BY <1>3, <2>5, <2>6
  <1> QED
    BY <1>8, <1>9

\* Starting the container.
LEMMA StartStep == ConfigInv /\ StartContainer => ConfigInv'
  <1> SUFFICES ASSUME ConfigInv, StartContainer PROVE ConfigInv'
    OBVIOUS
  <1>1. UNCHANGED <<given, env, runtime, sdk>> /\ sdk.pc = "resolved"
    BY DEF StartContainer
  <1>2. container' = Built(WithPreset(PlanKeys(sdk.value)))
    BY DEF StartContainer, PlanKeys
  <1>3. PlanKeys(sdk.value) \in KeyMaps
    <2>1. \A k \in Keys : sdk.value[k[1]] \in AllTexts
      BY KeyForms DEF ConfigInv, RunTypes, Values
    <2> QED
      BY <2>1, TextTypes DEF PlanKeys, KeyMaps
  <1>4. container' \in RunTypes
    BY <1>2, <1>3, WithPresetAt, BuiltValues DEF RunTypes
  <1>5. /\ ImportedEnv' = ImportedEnv
        /\ ResolvedFrom(given["shell"]) => ResolvedFrom(given["shell"])'
        /\ ResolvedFrom(ImportedEnv) => ResolvedFrom(ImportedEnv)'
        /\ PlanKeys(sdk.value)' = PlanKeys(sdk.value)
    BY <1>1 DEF ImportedEnv, ResolvedFrom, Accepts, Found, FoundMode, PlannedFor, RegionOf,
                PlanKeys
  <1> QED
    BY <1>1, <1>2, <1>4, <1>5 DEF ConfigInv

\* The invariant holds whatever ran, in whatever order.
LEMMA ConfigAlways == Spec => []ConfigInv
  <1>1. ConfigInv /\ [Next]_vars => ConfigInv'
    <2>1. ConfigInv /\ UNCHANGED vars => ConfigInv'
      BY DEF vars, ConfigInv, ImportedEnv, ResolvedFrom, Accepts, Found, FoundMode, PlannedFor,
             RegionOf, PlanKeys
    <2> QED
      BY <2>1, ImportStep, ResolveStep, StartStep DEF Next
  <1> QED
    BY <1>1, ConfigInit, PTL DEF Spec

\* What was resolved is a plan, made from the environment before the import or after.
LEMMA ResolvedSource ==
    ASSUME ConfigInv, sdk.pc = "resolved"
    PROVE  /\ IsPlan(sdk.value)
           /\ \E keys \in {given["shell"], ImportedEnv} :
                ResolvedFrom(keys) /\ (runtime.pc = "new" => keys = given["shell"])
  <1>1. PICK keys \in {given["shell"], ImportedEnv} :
          ResolvedFrom(keys) /\ (runtime.pc = "new" => keys = given["shell"])
    BY DEF ConfigInv
  <1>2. given \in [Layers -> KeyMaps] /\ keys \in KeyMaps
    BY SourceTypes DEF ConfigInv
  <1> QED
    BY <1>1, <1>2, ResolvedIsPlan

\* The container, once started, is what the template makes of the plan.
LEMMA ContainerSource ==
    ASSUME ConfigInv, container.pc # "new"
    PROVE  /\ sdk.pc = "resolved" /\ IsPlan(sdk.value)
           /\ container = Built(WithPreset(PlanKeys(sdk.value)))
           /\ container.pc = "up" <=> Parses(sdk.value["KNOB"])
           /\ \A n \in Names \ {"TASK"} : container.value[n] = sdk.value[n]
           /\ container.value["TASK"] = Preset[sdk.value["OPTIMIZE_FOR"]]
  <1>1. sdk.pc = "resolved" /\ container = Built(WithPreset(PlanKeys(sdk.value)))
    BY DEF ConfigInv, NotRun
  <1>2. IsPlan(sdk.value)
    BY <1>1, ResolvedSource
  <1> QED
    BY <1>1, <1>2, ContainerValues

\* A plan that resolve_config accepted is what the deployed gateway comes up with if
\* the knob parses, whatever the sources and the import that may have come first; only
\* the settings of the task are those of the preset.
THEOREM PlansRun == Spec => []ContainerRunsPlan
  <1>1. ConfigInv => ContainerRunsPlan
    BY ContainerSource DEF ContainerRunsPlan
  <1> QED
    BY <1>1, ConfigAlways, PTL

\* What resolve_config or the validators let through has a mode, knobs and a JWT key;
\* what is up has knobs that parse; and every variable has its type.
THEOREM ConfigTypeCorrect == Spec => []TypeOK
  <1> DEFINE Passed(value) ==
               /\ value["OPTIMIZE_FOR"] \in Modes
               /\ \A n \in Knobs : value[n] \notin Missing
               /\ \E n \in JwtKeys : Strip(value[n]) # Blank
             Typed(run) ==
               /\ run.pc \in {"resolved", "up"} => Passed(run.value)
               /\ run.pc = "up" => \A n \in Knobs : Parses(run.value[n])
  <1>1. ConfigInv => TypeOK
    <2> SUFFICES ASSUME ConfigInv PROVE TypeOK
      OBVIOUS
    <2>1. given \in [Layers -> KeyMaps] /\ env \in KeyMaps /\ ImportedEnv \in KeyMaps
      BY SourceTypes DEF ConfigInv
    <2>2. {runtime, sdk, container} \subseteq RunTypes
      BY DEF ConfigInv
    <2>3. ASSUME NEW keys \in KeyMaps
          PROVE  Built(keys).pc # "resolved" /\ Typed(Built(keys))
      <3>1. Built(keys).pc \in {"up", "refused"}
        BY BuiltValues
      <3>2. \A n \in Names : Built(keys).value[n] = Setting(keys, n)
        BY BuiltValues
      <3>3. ASSUME Built(keys).pc = "up"
            PROVE  /\ Passed(Built(keys).value)
                   /\ \A n \in Knobs : Parses(Built(keys).value[n])
        <4>1. /\ Setting(keys, "OPTIMIZE_FOR") \in Modes
              /\ \A n \in Knobs : Parses(Setting(keys, n))
              /\ \E n \in JwtKeys : Strip(Setting(keys, n)) # Blank
          BY <3>3, BuiltValues
        <4>2. {"OPTIMIZE_FOR"} \cup Knobs \cup JwtKeys \subseteq Names
          BY DEF Names, Knobs, JwtKeys
        <4>3. \A n \in Knobs : Built(keys).value[n] = Strip(Get(keys, n))
          BY <3>2, <4>2 DEF Setting, Knobs
        <4>4. \A n \in Knobs : Parses(Built(keys).value[n]) /\ Built(keys).value[n] # Unset
          BY <3>2, <4>1, <4>2, <4>3, StripFacts
        <4>5. \A n \in Knobs : Built(keys).value[n] \notin Missing
          BY <4>4, StripFacts DEF Parses, Missing
        <4> QED
          BY <3>2, <4>1, <4>2, <4>4, <4>5
      <3> QED
        BY <3>1, <3>3
    <2>4. Typed(runtime)
      <3>1. runtime = Built(ImportedEnv) \/ runtime.pc = "new"
        BY DEF ConfigInv, NotRun
      <3> QED
        BY <2>1, <2>3, <3>1
    <2>5. Typed(sdk)
      <3>1. sdk.pc # "up"
        BY DEF ConfigInv
      <3>2. ASSUME sdk.pc = "resolved" PROVE Passed(sdk.value)
        BY <3>2, ResolvedSource DEF IsPlan
      <3> QED
        BY <3>1, <3>2
    <2>6. Typed(container)
      <3>1. CASE container.pc = "new"
        BY <3>1
      <3>2. CASE container.pc # "new"
        <4>1. container = Built(WithPreset(PlanKeys(sdk.value))) /\ IsPlan(sdk.value)
          BY <3>2, ContainerSource
        <4>2. PlanKeys(sdk.value) \in KeyMaps
          <5>1. \A k \in Keys : sdk.value[k[1]] \in AllTexts
            BY <4>1, KeyForms DEF IsPlan, Values
          <5> QED
            BY <5>1, TextTypes DEF PlanKeys, KeyMaps
        <4>3. WithPreset(PlanKeys(sdk.value)) \in KeyMaps
          BY <4>2, WithPresetAt
        <4> QED
          BY <2>3, <4>1, <4>3
      <3> QED
        BY <3>1, <3>2
    <2> QED
      BY <2>1, <2>2, <2>4, <2>5, <2>6 DEF TypeOK, RunTypes, Values, KeyMaps, JwtKeys
  <1> QED
    BY <1>1, ConfigAlways, PTL

\* What the merged environment has for a name when the shell and .env have keys
\* for it: a key of the shell wins over the same key of .env.
LEMMA MergedGet ==
    ASSUME given \in [Layers -> KeyMaps], NEW n \in Names
    PROVE  LET shell == Get(given["shell"], n)
               file == Get(given["file"], n)
               merged == Get(WithFile(given["shell"], given["file"]), n)
           IN  /\ shell # Unset /\ ~Shadowed(n) => merged = shell
               /\ shell = Unset => merged = file
  <1>1. <<n, "prefixed">> \in Keys /\ <<n, "legacy">> \in Keys
    BY KeyForms
  <1> QED
    BY <1>1, SourceTypes, WithFileType DEF Get, Shadowed

\* An explicit mode that is not blank is the one whose preset is applied.
LEMMA ExplicitMode ==
    ASSUME NEW keys, Strip(Get(keys, "OPTIMIZE_FOR")) \in Modes
    PROVE  ModeOf(keys) = Strip(Get(keys, "OPTIMIZE_FOR"))
  <1>1. Get(keys, "OPTIMIZE_FOR") \notin Missing
    BY StripFacts DEF Modes, Blank
  <1>2. GetNonBlank(keys, "OPTIMIZE_FOR") = Get(keys, "OPTIMIZE_FOR")
    BY <1>1 DEF Get, GetNonBlank, Missing
  <1> QED
    BY <1>2 DEF ModeOf

\* Environment over .env over preset, for a gateway that starts, but for a legacy
\* name of the shell that .env has in the prefixed form.
THEOREM PrecedenceHolds == Spec => []RuntimeFollowsPrecedence
  <1>1. ConfigInv => RuntimeFollowsPrecedence
    <2> SUFFICES ASSUME ConfigInv, runtime.pc = "up", NEW n \in Names
                 PROVE  LET shell == Get(given["shell"], n)
                            file == Get(given["file"], n)
                        IN  /\ shell # Unset /\ ~Shadowed(n) =>
                                 runtime.value[n] = Kept(n, shell)
                            /\ shell = Unset /\ file # Unset => runtime.value[n] = Kept(n, file)
                            /\ shell = Unset /\ file = Unset /\ n \in Knobs =>
                                 runtime.value[n] = Preset[runtime.value["OPTIMIZE_FOR"]]
      BY DEF RuntimeFollowsPrecedence
    <2> DEFINE keys == WithFile(given["shell"], given["file"])
    <2>1. given \in [Layers -> KeyMaps] /\ keys \in KeyMaps /\ ImportedEnv \in KeyMaps
      BY SourceTypes DEF ConfigInv
    <2>2. runtime = Built(ImportedEnv)
      BY DEF ConfigInv, NotRun
    <2>3. \A m \in Names : runtime.value[m] = Setting(ImportedEnv, m)
      BY <2>1, <2>2, BuiltValues
    <2>4. \A m \in Names :
            Get(ImportedEnv, m) =
              IF m \in Knobs \cup {"OPTIMIZE_FOR"} /\ Get(keys, m) = Unset
              THEN Default(keys)[m] ELSE Get(keys, m)
      BY <2>1, PresetGet DEF ImportedEnv
    <2>5. runtime.value["OPTIMIZE_FOR"] \in Modes
      BY <2>1, <2>2, <2>3, BuiltValues DEF Names
    <2>6. runtime.value["OPTIMIZE_FOR"] = ModeOf(keys)
      <3>1. "OPTIMIZE_FOR" \in Names
        BY DEF Names
      <3>2. runtime.value["OPTIMIZE_FOR"] = Strip(Get(ImportedEnv, "OPTIMIZE_FOR"))
        BY <2>3, <3>1 DEF Setting
      <3>3. CASE Get(keys, "OPTIMIZE_FOR") = Unset
        <4>1. Get(ImportedEnv, "OPTIMIZE_FOR") = ModeOf(keys)
          BY <2>4, <3>1, <3>3, DefaultFacts
        <4>2. ModeOf(keys) \in Modes
          BY ModeType
        <4> QED
          BY <3>2, <4>1, <4>2, StripFacts
      <3>4. CASE Get(keys, "OPTIMIZE_FOR") # Unset
        <4>1. Get(ImportedEnv, "OPTIMIZE_FOR") = Get(keys, "OPTIMIZE_FOR")
          BY <2>4, <3>1, <3>4
        <4> QED
          BY <2>5, <3>2, <4>1, ExplicitMode
      <3> QED
        BY <3>3, <3>4
    <2>7. Get(keys, n) # Unset => runtime.value[n] = Kept(n, Get(keys, n))
      BY <2>3, <2>4 DEF Setting, Kept
    <2>8. Get(keys, n) = Unset /\ n \in Knobs => runtime.value[n] = Preset[ModeOf(keys)]
      <3> SUFFICES ASSUME Get(keys, n) = Unset, n \in Knobs
                   PROVE  runtime.value[n] = Preset[ModeOf(keys)]
        OBVIOUS
      <3>1. Get(ImportedEnv, n) = Preset[ModeOf(keys)]
        BY <2>4, DefaultFacts
      <3>2. runtime.value[n] = Strip(Get(ImportedEnv, n))
        BY <2>3 DEF Setting, Knobs
      <3>3. ModeOf(keys) \in Modes
        BY ModeType
      <3> QED
        BY <3>1, <3>2, <3>3, TextTypes
    <2> HIDE DEF keys
    <2>9. /\ Get(given["shell"], n) # Unset /\ ~Shadowed(n) =>
               Get(keys, n) = Get(given["shell"], n)
          /\ Get(given["shell"], n) = Unset => Get(keys, n) = Get(given["file"], n)
      BY <2>1, MergedGet DEF keys
    <2> QED
      BY <2>6, <2>7, <2>8, <2>9
  <1> QED
    BY <1>1, ConfigAlways, PTL

\* A deployment uses what the dictionary says, and the preset of its own mode when
\* the import has not left another one.
THEOREM DictionaryWins == Spec => []DeploymentFollowsPrecedence
  <1>1. ConfigInv => DeploymentFollowsPrecedence
    <2> SUFFICES ASSUME ConfigInv, sdk.pc = "resolved"
                 PROVE  DeploymentFollowsPrecedence
      BY DEF DeploymentFollowsPrecedence
    <2>1. PICK keys \in {given["shell"], ImportedEnv} :
            ResolvedFrom(keys) /\ (runtime.pc = "new" => keys = given["shell"])
      BY ResolvedSource
    <2>2. ASSUME NEW n \in Names \ {"REGION"}, Strip(Get(given["dict"], n)) # Blank
          PROVE  sdk.value[n] = Strip(Get(given["dict"], n))
      <3>1. Get(given["dict"], n) \notin Missing
        BY <2>2, StripFacts
      <3>2. Found(keys, n) = Get(given["dict"], n) /\ Found(keys, n) \notin Missing
        BY <3>1 DEF Found, Missing
      <3>3. PlannedFor(keys, n) = Strip(Found(keys, n))
        BY <2>2, <3>2 DEF PlannedFor, FoundMode
      <3> QED
        BY <2>1, <3>2, <3>3 DEF ResolvedFrom
    <2>3. ASSUME NEW n \in Knobs, NotGiven(n), runtime.pc = "new"
          PROVE  sdk.value[n] = Preset[sdk.value["OPTIMIZE_FOR"]]
      <3>1. Found(keys, n) = Unset
        BY <2>1, <2>3 DEF NotGiven, Found, Layers
      <3>2. Strip(Found(keys, n)) = Blank
        BY <3>1, StripFacts DEF Missing
      <3>3. PlannedFor(keys, n) = Preset[FoundMode(keys)]
        BY <3>2 DEF PlannedFor, Knobs
      <3>4. PlannedFor(keys, "OPTIMIZE_FOR") = FoundMode(keys)
        BY DEF PlannedFor, Knobs
      <3> QED
        BY <2>1, <3>3, <3>4 DEF ResolvedFrom, Names, Knobs
    <2> QED
      BY <2>2, <2>3 DEF DeploymentFollowsPrecedence
  <1> QED
    BY <1>1, ConfigAlways, PTL

\* From clean sources both resolvers find the same, before and after the import.
LEMMA CleanFound ==
    ASSUME ConfigInv, SourcesAreClean, NEW n \in Names
    PROVE  LET merged == Get(WithFile(given["shell"], given["file"]), n)
           IN  /\ Found(given["shell"], n) = merged
               /\ Found(ImportedEnv, n) = Get(ImportedEnv, n)
               /\ merged # Blank
  <1> DEFINE keys == WithFile(given["shell"], given["file"])
  <1>1. given \in [Layers -> KeyMaps] /\ keys \in KeyMaps
    BY SourceTypes DEF ConfigInv
  <1>2. <<n, "prefixed">> \in Keys /\ <<n, "legacy">> \in Keys
    BY KeyForms
  <1>3. Get(given["dict"], n) = Unset
    BY <1>2 DEF SourcesAreClean, Get
  <1>4. /\ Get(given["shell"], n) # Unset => Get(keys, n) = Get(given["shell"], n)
        /\ Get(given["shell"], n) = Unset => Get(keys, n) = Get(given["file"], n)
    BY <1>1, MergedGet DEF SourcesAreClean
  <1>5. Get(given["shell"], n) # Blank /\ Get(given["file"], n) # Blank
    BY <1>2 DEF SourcesAreClean, Get
  <1>6. Get(ImportedEnv, n) = Unset => Get(keys, n) = Unset
    <2>1. n \in Knobs \cup {"OPTIMIZE_FOR"} => Default(keys)[n] # Unset
      BY DefaultFacts DEF Missing
    <2> QED
      BY <1>1, <2>1, PresetGet DEF ImportedEnv
  <1> HIDE DEF keys
  <1>7. Found(given["shell"], n) = Get(keys, n) /\ Get(keys, n) # Blank
    BY <1>3, <1>4, <1>5 DEF Found
  <1>8. Found(ImportedEnv, n) = Get(ImportedEnv, n)
    BY <1>3, <1>4, <1>6 DEF Found
  <1> QED
    BY <1>7, <1>8 DEF keys

\* What is merged from clean sources, or added by the preset, has no blanks around it.
LEMMA CleanStrip ==
    ASSUME ConfigInv, SourcesAreClean, NEW n \in Names
    PROVE  LET merged == Get(WithFile(given["shell"], given["file"]), n)
               imported == Get(ImportedEnv, n)
           IN  /\ merged # Unset => Strip(merged) = merged /\ merged # Blank
               /\ imported # Unset => Strip(imported) = imported /\ imported # Blank
  <1> DEFINE keys == WithFile(given["shell"], given["file"])
  <1>1. given \in [Layers -> KeyMaps] /\ keys \in KeyMaps
    BY SourceTypes DEF ConfigInv
  <1>2. \A k \in Keys : keys[k] \notin Padded
    <2>1. \A k \in Keys : given["shell"][k] \notin Padded /\ given["file"][k] \notin Padded
      BY DEF SourcesAreClean, ConfigInv
    <2>2. \A k \in Keys : keys[k] = given["file"][k] \/ keys[k] = given["shell"][k]
      BY <1>1, SourceTypes, WithFileType
    <2> QED
      BY <2>1, <2>2
  <1>3. Get(keys, n) # Blank
    BY CleanFound
  <1>4. Get(keys, n) \notin Padded
    BY <1>2, KeyForms DEF Get
  <1>5. Get(keys, n) # Unset => Strip(Get(keys, n)) = Get(keys, n)
    BY <1>4, StripFacts
  <1>6. n \in Knobs \cup {"OPTIMIZE_FOR"} =>
          Default(keys)[n] # Blank /\ Strip(Default(keys)[n]) = Default(keys)[n]
    <2>1. ModeOf(keys) \in Modes
      BY ModeType
    <2>2. Strip(ModeOf(keys)) = ModeOf(keys)
      BY <2>1, StripFacts
    <2>3. Strip(Preset[ModeOf(keys)]) = Preset[ModeOf(keys)]
      BY <2>1, TextTypes
    <2> QED
      BY <2>2, <2>3, DefaultFacts DEF Missing
  <1>7. Get(ImportedEnv, n) =
          IF n \in Knobs \cup {"OPTIMIZE_FOR"} /\ Get(keys, n) = Unset
          THEN Default(keys)[n] ELSE Get(keys, n)
    BY <1>1, PresetGet DEF ImportedEnv
  <1> HIDE DEF keys
  <1>8. Get(ImportedEnv, n) # Unset =>
          Strip(Get(ImportedEnv, n)) = Get(ImportedEnv, n) /\ Get(ImportedEnv, n) # Blank
    BY <1>3, <1>5, <1>6, <1>7
  <1> QED
    BY <1>3, <1>5, <1>8 DEF keys

\* From clean sources a deployment is planned, before or after the import, with what
\* the import found, but for the region.
LEMMA CleanPlan ==
    ASSUME ConfigInv, SourcesAreClean, NEW source \in {given["shell"], ImportedEnv}
    PROVE  LET value(n) == Get(ImportedEnv, n)
           IN  /\ FoundMode(source) = value("OPTIMIZE_FOR")
               /\ \A n \in JwtKeys \cup {"UPSTREAM"} :
                    /\ Strip(Found(source, n)) # Blank <=> value(n) # Unset
                    /\ value(n) # Unset => PlannedFor(source, n) = value(n)
                    /\ value(n) = Unset => PlannedFor(source, n) = Blank
               /\ FoundMode(source) \in Modes =>
                    \A n \in Knobs : PlannedFor(source, n) = value(n)
  <1> DEFINE keys == WithFile(given["shell"], given["file"])
             value(n) == Get(ImportedEnv, n)
  <1>1. keys \in KeyMaps
    BY SourceTypes DEF ConfigInv
  <1>2. \A n \in Names :
          value(n) = IF n \in Knobs \cup {"OPTIMIZE_FOR"} /\ Get(keys, n) = Unset
                     THEN Default(keys)[n] ELSE Get(keys, n)
    BY <1>1, PresetGet DEF ImportedEnv
  <1>3. \A n \in Names : Found(source, n) = Get(keys, n) \/ Found(source, n) = value(n)
    BY CleanFound
  <1>4. \A n \in Names :
          /\ Get(keys, n) # Unset => Strip(Get(keys, n)) = Get(keys, n) /\ Get(keys, n) # Blank
          /\ value(n) # Unset => Strip(value(n)) = value(n) /\ value(n) # Blank
    BY CleanStrip
  <1>5. Strip(Unset) = Blank /\ Unset # Blank
    BY StripFacts DEF Missing, Unset, Blank
  <1>6. {"OPTIMIZE_FOR", "UPSTREAM"} \cup JwtKeys \cup Knobs \subseteq Names
    BY DEF Names, JwtKeys, Knobs
  <1>7. /\ Default(keys)["OPTIMIZE_FOR"] = ModeOf(keys)
        /\ \A n \in Knobs : Default(keys)[n] = Preset[ModeOf(keys)]
        /\ \A n \in Knobs \cup {"OPTIMIZE_FOR"} : Default(keys)[n] # Unset
    BY DefaultFacts DEF Missing
  <1>8. Get(keys, "OPTIMIZE_FOR") = Unset => ModeOf(keys) = "cost"
    BY StripFacts DEF ModeOf, Get, GetNonBlank, Modes, Missing, Unset, Blank
  <1>9. \A n \in Knobs \cup {"OPTIMIZE_FOR"} : value(n) # Unset
    BY <1>2, <1>6, <1>7
  <1> HIDE DEF keys, value
  <1>10. FoundMode(source) = value("OPTIMIZE_FOR")
    <2>1. Found(source, "OPTIMIZE_FOR") \in {Get(keys, "OPTIMIZE_FOR"), value("OPTIMIZE_FOR")}
      BY <1>3, <1>6
    <2>2. CASE Found(source, "OPTIMIZE_FOR") = Unset
      <3>1. Get(keys, "OPTIMIZE_FOR") = Unset
        BY <1>9, <2>1, <2>2
      <3>2. value("OPTIMIZE_FOR") = "cost"
        BY <1>2, <1>6, <1>7, <1>8, <3>1
      <3> QED
        BY <2>2, <3>2 DEF FoundMode, Missing
    <2>3. CASE Found(source, "OPTIMIZE_FOR") # Unset
      <3>1. Found(source, "OPTIMIZE_FOR") = value("OPTIMIZE_FOR")
        BY <1>2, <1>6, <2>1, <2>3
      <3> QED
        BY <1>4, <1>6, <1>9, <3>1 DEF FoundMode, Missing
    <2> QED
      BY <2>2, <2>3
  <1>11. ASSUME NEW n \in JwtKeys \cup {"UPSTREAM"}
         PROVE  /\ Strip(Found(source, n)) # Blank <=> value(n) # Unset
                /\ value(n) # Unset => PlannedFor(source, n) = value(n)
                /\ value(n) = Unset => PlannedFor(source, n) = Blank
    <2>1. n \in Names /\ n \notin Knobs \cup {"OPTIMIZE_FOR", "REGION"}
      BY DEF Names, JwtKeys, Knobs
    <2>2. Found(source, n) = value(n)
      BY <1>2, <1>3, <2>1
    <2>3. PlannedFor(source, n) = Strip(value(n))
      BY <2>1, <2>2 DEF PlannedFor
    <2> QED
      BY <1>4, <1>5, <2>1, <2>2, <2>3
  <1>12. ASSUME FoundMode(source) \in Modes, NEW n \in Knobs
         PROVE  PlannedFor(source, n) = value(n)
    <2>1. n \in Names /\ n # "OPTIMIZE_FOR" /\ n # "REGION"
      BY DEF Names, Knobs
    <2>2. PlannedFor(source, n) = IF Strip(Found(source, n)) = Blank
                                  THEN Preset[FoundMode(source)] ELSE Strip(Found(source, n))
      BY <2>1 DEF PlannedFor
    <2>3. CASE Found(source, n) = Unset
      <3>1. Get(keys, n) = Unset
        BY <1>3, <1>9, <2>1, <2>3
      <3>2. value(n) = Preset[ModeOf(keys)]
        BY <1>2, <1>7, <2>1, <3>1
      <3>3. ModeOf(keys) = FoundMode(source)
        <4>1. CASE Get(keys, "OPTIMIZE_FOR") = Unset
          BY <1>2, <1>6, <1>7, <1>10, <4>1
        <4>2. CASE Get(keys, "OPTIMIZE_FOR") # Unset
          <5>1. value("OPTIMIZE_FOR") = Get(keys, "OPTIMIZE_FOR")
            BY <1>2, <1>6, <4>2
          <5>2. Strip(Get(keys, "OPTIMIZE_FOR")) = Get(keys, "OPTIMIZE_FOR")
            BY <1>4, <1>6, <4>2
          <5> QED
            BY <1>10, <1>12, <5>1, <5>2, ExplicitMode
        <4> QED
          BY <4>1, <4>2
      <3> QED
        BY <1>5, <2>2, <2>3, <3>2, <3>3
    <2>4. CASE Found(source, n) # Unset
      <3>1. Found(source, n) = value(n)
        BY <1>2, <1>3, <2>1, <2>4
      <3> QED
        BY <1>4, <1>9, <2>1, <2>2, <3>1
    <2> QED
      BY <2>3, <2>4
  <1> QED
    BY <1>10, <1>11, <1>12 DEF value

\* A region that the shell gives as AWS_REGION is the one both resolvers find.
LEMMA SharedRegion ==
    ASSUME ConfigInv, SourcesAreClean, RegionIsShared,
           NEW source \in {given["shell"], ImportedEnv}
    PROVE  PlannedFor(source, "REGION") = Setting(ImportedEnv, "REGION")
  <1> DEFINE keys == WithFile(given["shell"], given["file"])
             region == given["shell"][<<"REGION", "legacy">>]
  <1>1. given["shell"] \in KeyMaps /\ given["file"] \in KeyMaps /\ keys \in KeyMaps
    BY SourceTypes DEF ConfigInv
  <1>2. /\ "REGION" \in Names /\ "REGION" \notin Knobs \cup {"OPTIMIZE_FOR"}
        /\ <<"REGION", "prefixed">> \in Keys /\ <<"REGION", "legacy">> \in Keys
    BY KeyForms DEF Names, Knobs
  <1>3. /\ region # Unset /\ given["shell"][<<"REGION", "prefixed">>] = Unset
        /\ given["file"][<<"REGION", "prefixed">>] = Unset
    BY <1>2 DEF RegionIsShared, SourcesAreClean, Shadowed
  <1>4. keys[<<"REGION", "legacy">>] = region /\ keys[<<"REGION", "prefixed">>] = Unset
    BY <1>1, <1>2, <1>3, WithFileType
  <1>5. /\ ImportedEnv[<<"REGION", "legacy">>] = region
        /\ ImportedEnv[<<"REGION", "prefixed">>] = Unset
    BY <1>1, <1>2, <1>4, WithPresetAt DEF ImportedEnv
  <1> HIDE DEF keys
  <1>6. Setting(ImportedEnv, "REGION") = region
    BY <1>2, <1>3, <1>5 DEF Setting, Get
  <1>7. RegionOf(source) = region
    BY <1>3, <1>5 DEF RegionOf
  <1> QED
    BY <1>2, <1>6, <1>7 DEF PlannedFor

\* With clean sources, the two resolvers accept the same configurations, but for
\* the upstream and knobs that do not parse, and find the same values, but for a region
\* that the shell does not give as AWS_REGION.
THEOREM ResolversDoAgree == Spec => []ResolversAgree
  <1>1. ConfigInv => ResolversAgree
    <2> SUFFICES ASSUME ConfigInv, SourcesAreClean, runtime.pc # "new", sdk.pc # "new"
                 PROVE  /\ sdk.pc = "resolved" =>
                             /\ runtime.pc = "up" <=> \A n \in Knobs : Parses(sdk.value[n])
                             /\ \A n \in Names : n # "REGION" \/ RegionIsShared =>
                                  Same(sdk.value[n], runtime.value[n])
                        /\ runtime.pc = "up" /\ runtime.value["UPSTREAM"] # Unset =>
                             sdk.pc = "resolved"
      BY DEF ResolversAgree
    <2> DEFINE value(n) == Get(ImportedEnv, n)
    <2>1. ImportedEnv \in KeyMaps
      BY SourceTypes DEF ConfigInv
    <2>2. runtime = Built(ImportedEnv)
      BY DEF ConfigInv, NotRun
    <2>3. \A n \in Names : runtime.value[n] = Setting(ImportedEnv, n)
      BY <2>1, <2>2, BuiltValues
    <2>4. /\ "OPTIMIZE_FOR" \notin Knobs \cup JwtKeys \cup {"UPSTREAM", "REGION"}
          /\ Names = {"OPTIMIZE_FOR", "UPSTREAM", "REGION"} \cup Knobs \cup JwtKeys
          /\ Knobs \cap (JwtKeys \cup {"UPSTREAM", "REGION"}) = {}
          /\ "REGION" \notin JwtKeys
      BY DEF Names, Knobs, JwtKeys
    <2>5. \A n \in Knobs \cup {"OPTIMIZE_FOR"} : value(n) # Unset
      <3>1. WithFile(given["shell"], given["file"]) \in KeyMaps
        BY SourceTypes DEF ConfigInv
      <3> QED
        BY <2>4, <3>1, PresetGet, DefaultFacts DEF ImportedEnv, Missing
    <2>6. \A n \in Names : value(n) # Unset => Strip(value(n)) = value(n) /\ value(n) # Blank
      BY CleanStrip
    <2>7. \A n \in Knobs \cup {"OPTIMIZE_FOR"} : Setting(ImportedEnv, n) = value(n)
      BY <2>4, <2>5, <2>6 DEF Setting
    <2>8. \A n \in JwtKeys \cup {"UPSTREAM"} : Setting(ImportedEnv, n) = value(n)
      BY <2>4 DEF Setting
    <2>9. \A n \in JwtKeys : Strip(value(n)) # Blank <=> value(n) # Unset
      BY <2>4, <2>6, StripFacts DEF Missing
    <2>10. runtime.pc = "up" <=>
             /\ value("OPTIMIZE_FOR") \in Modes
             /\ \A n \in Knobs : Parses(value(n))
             /\ \E n \in JwtKeys : value(n) # Unset
      <3>1. runtime.pc = "up" <=>
              /\ Setting(ImportedEnv, "OPTIMIZE_FOR") \in Modes
              /\ \A n \in Knobs : Parses(Setting(ImportedEnv, n))
              /\ \E n \in JwtKeys : Strip(Setting(ImportedEnv, n)) # Blank
        BY <2>1, <2>2, BuiltValues
      <3>2. Setting(ImportedEnv, "OPTIMIZE_FOR") = value("OPTIMIZE_FOR")
        BY <2>7
      <3>3. (\A n \in Knobs : Parses(Setting(ImportedEnv, n)))
              <=> (\A n \in Knobs : Parses(value(n)))
        BY <2>7
      <3>4. (\E n \in JwtKeys : Strip(Setting(ImportedEnv, n)) # Blank)
              <=> (\E n \in JwtKeys : value(n) # Unset)
        BY <2>8, <2>9
      <3> QED
        BY <3>1, <3>2, <3>3, <3>4
    <2>11. \A source \in {given["shell"], ImportedEnv} :
             /\ FoundMode(source) = value("OPTIMIZE_FOR")
             /\ \A n \in JwtKeys \cup {"UPSTREAM"} :
                  /\ Strip(Found(source, n)) # Blank <=> value(n) # Unset
                  /\ value(n) # Unset => PlannedFor(source, n) = value(n)
                  /\ value(n) = Unset => PlannedFor(source, n) = Blank
             /\ FoundMode(source) \in Modes =>
                  \A n \in Knobs : PlannedFor(source, n) = value(n)
      BY CleanPlan
    <2> HIDE DEF value
    <2>12. CASE sdk.pc = "resolved"
      <3>1. PICK source \in {given["shell"], ImportedEnv} : ResolvedFrom(source)
        BY <2>12, ResolvedSource
      <3>2. /\ Accepts(source) /\ FoundMode(source) \in Modes
            /\ \A n \in Names : sdk.value[n] = PlannedFor(source, n)
        BY <3>1 DEF ResolvedFrom, Accepts
      <3>3. \A n \in Knobs : sdk.value[n] = value(n)
        BY <2>4, <2>11, <3>2
      <3>4. value("OPTIMIZE_FOR") \in Modes /\ \E n \in JwtKeys : value(n) # Unset
        BY <2>11, <3>2 DEF Accepts
      <3>5. runtime.pc = "up" <=> \A n \in Knobs : Parses(sdk.value[n])
        BY <2>10, <3>3, <3>4
      <3>6. ASSUME NEW n \in Names, n # "REGION" \/ RegionIsShared
            PROVE  Same(sdk.value[n], runtime.value[n])
        <4>1. CASE n \in Knobs
          BY <2>3, <2>7, <3>3, <4>1 DEF Same
        <4>2. CASE n = "OPTIMIZE_FOR"
          <5>1. sdk.value[n] = FoundMode(source)
            BY <2>4, <3>2, <4>2 DEF PlannedFor
          <5> QED
            BY <2>3, <2>7, <2>11, <4>2, <5>1 DEF Same
        <4>3. CASE n \in JwtKeys \cup {"UPSTREAM"}
          BY <2>3, <2>8, <2>11, <3>2, <4>3 DEF Same, Missing
        <4>4. CASE n = "REGION"
          BY <2>3, <3>2, <3>6, <4>4, SharedRegion DEF Same
        <4> QED
          BY <2>4, <4>1, <4>2, <4>3, <4>4
      <3> QED
        BY <2>12, <3>5, <3>6
    <2>13. CASE sdk.pc # "resolved"
      <3>1. PICK source \in {given["shell"], ImportedEnv} : ~Accepts(source)
        BY <2>13 DEF ConfigInv
      <3>2. runtime.value["UPSTREAM"] = value("UPSTREAM")
        BY <2>3, <2>4, <2>8
      <3>3. ~(runtime.pc = "up" /\ value("UPSTREAM") # Unset)
        BY <2>10, <2>11, <3>1 DEF Accepts
      <3> QED
        BY <2>13, <3>2, <3>3
    <2> QED
      BY <2>12, <2>13
  <1> QED
    BY <1>1, ConfigAlways, PTL

\* A token of this environment verifies at a gateway started in it that has no other
\* key, and from clean sources at the deployed one: the script skips a blank form, and
\* with a blank prefixed form such a gateway does not start.
THEOREM TokensAreVerified == Spec => []TokensVerify
  <1>1. ConfigInv => TokensVerify
    <2> SUFFICES ASSUME ConfigInv PROVE TokensVerify
      OBVIOUS
    <2> DEFINE keys == WithFile(given["shell"], given["file"])
    <2>1. /\ given["shell"] \in KeyMaps /\ given["file"] \in KeyMaps
          /\ keys \in KeyMaps /\ ImportedEnv \in KeyMaps
      BY SourceTypes DEF ConfigInv
    <2>2. "SECRET" \in Names /\ "KEY" \in Names /\ "SECRET" \notin Knobs \cup {"OPTIMIZE_FOR"}
          /\ "KEY" \notin Knobs \cup {"OPTIMIZE_FOR"}
      BY DEF Names, Knobs
    <2>3. Get(ImportedEnv, "SECRET") = Get(keys, "SECRET")
      BY <2>1, <2>2, PresetGet DEF ImportedEnv
    <2>4. Get(keys, "SECRET") \notin Missing =>
            SigningSecret(given["shell"], given["file"]) = Get(keys, "SECRET")
      BY DEF SigningSecret, Get, GetNonBlank, Missing
    <2>5. ASSUME runtime.pc = "up", runtime.value["KEY"] \in Missing
          PROVE  /\ Get(keys, "SECRET") \notin Missing
                 /\ VerificationKey(runtime.value) = Get(keys, "SECRET")
      <3>1. runtime = Built(ImportedEnv)
        BY <2>5 DEF ConfigInv, NotRun
      <3>2. \A n \in JwtKeys : runtime.value[n] = Setting(ImportedEnv, n)
        BY <2>1, <3>1, BuiltValues DEF JwtKeys, Names
      <3>3. \E n \in JwtKeys : Strip(runtime.value[n]) # Blank
        BY <2>1, <2>5, <3>1, <3>2, BuiltValues
      <3>4. Strip(runtime.value["SECRET"]) # Blank
        BY <2>5, <3>3, StripFacts DEF JwtKeys
      <3>5. runtime.value["SECRET"] = Get(keys, "SECRET")
        BY <2>2, <2>3, <3>2 DEF Setting, JwtKeys
      <3> QED
        BY <2>5, <3>4, <3>5, StripFacts DEF VerificationKey
    <2>6. ASSUME SigningSecret(given["shell"], NoKeys) \notin Missing, ~Shadowed("SECRET"),
                 Get(keys, "SECRET") \notin Missing
          PROVE  SigningSecret(given["shell"], NoKeys) = Get(keys, "SECRET")
      <3> DEFINE p == <<"SECRET", "prefixed">>
                 l == <<"SECRET", "legacy">>
      <3>1. p \in Keys /\ l \in Keys
        BY <2>2, KeyForms
      <3>2. NoKeys \in KeyMaps /\ NoKeys[p] = Unset /\ NoKeys[l] = Unset
        BY <3>1, TextTypes DEF NoKeys, KeyMaps
      <3>3. WithFile(given["shell"], NoKeys)[p] = given["shell"][p]
            /\ WithFile(given["shell"], NoKeys)[l] = given["shell"][l]
        BY <2>1, <3>1, <3>2, WithFileType
      <3>4. SigningSecret(given["shell"], NoKeys) =
              IF given["shell"][p] \notin Missing THEN given["shell"][p] ELSE given["shell"][l]
        BY <3>3 DEF SigningSecret, GetNonBlank
      <3>5. /\ keys[p] = IF given["shell"][p] = Unset THEN given["file"][p] ELSE given["shell"][p]
            /\ keys[l] = IF given["shell"][l] = Unset THEN given["file"][l] ELSE given["shell"][l]
        BY <2>1, <3>1, WithFileType
      <3> HIDE DEF keys
      <3>6. Get(keys, "SECRET") = IF keys[p] # Unset THEN keys[p] ELSE keys[l]
        BY DEF Get
      <3> QED
        BY <2>6, <3>4, <3>5, <3>6 DEF Shadowed, Missing
    <2>7. ASSUME container.pc = "up", container.value["KEY"] \in Missing, SourcesAreClean
          PROVE  SigningSecret(given["shell"], given["file"]) = VerificationKey(container.value)
      <3>1. /\ sdk.pc = "resolved" /\ IsPlan(sdk.value)
            /\ container.value["SECRET"] = sdk.value["SECRET"]
            /\ container.value["KEY"] = sdk.value["KEY"]
        BY <2>2, <2>7, ContainerSource
      <3>2. sdk.value["SECRET"] # Blank
        BY <2>2, <2>7, <3>1 DEF IsPlan, JwtKeys, Missing
      <3>3. PICK source \in {given["shell"], ImportedEnv} : ResolvedFrom(source)
        BY <3>1, ResolvedSource
      <3>4. sdk.value["SECRET"] = PlannedFor(source, "SECRET")
        BY <2>2, <3>3 DEF ResolvedFrom
      <3>5. /\ Get(ImportedEnv, "SECRET") # Unset => PlannedFor(source, "SECRET") =
                 Get(ImportedEnv, "SECRET")
            /\ Get(ImportedEnv, "SECRET") = Unset => PlannedFor(source, "SECRET") = Blank
        BY <2>7, CleanPlan DEF JwtKeys
      <3>6. sdk.value["SECRET"] = Get(keys, "SECRET") /\ Get(keys, "SECRET") \notin Missing
        BY <2>3, <3>2, <3>4, <3>5 DEF Missing
      <3> QED
        BY <2>4, <2>7, <3>1, <3>6 DEF VerificationKey
    <2> HIDE DEF keys
    <2> QED
      BY <2>4, <2>5, <2>6, <2>7 DEF TokensVerify
  <1> QED
    BY <1>1, ConfigAlways, PTL

-----------------------------------------------------------------------------
(* JwksAuth: the invariant.                                                 *)

FetchCalls == [pc : {"fetch"}, kid : Kids, force : BOOLEAN]
AnsweredCalls ==
    [pc : {"answered"}, kid : Kids, force : BOOLEAN, keys : SUBSET Kids, at : Nat]
EndedCalls == [pc : {"ended"}, kid : Kids \cup {NoKid}, result : Resolutions, at : Nat]

\* Key k was in the provider's document at time t or later, and has been up to now
\* if it is in the document.
SeenSince(k, t) == lastPublished[k] # Never /\ lastPublished[k] >= t

ProviderInv ==
    /\ \A k \in Kids : lastPublished[k] <= clock
    /\ \A k \in published : lastPublished[k] = clock

\* The cached keys were published when the answer was made that brought them.
CacheInv == \A k \in jwksByKid : SeenSince(k, cacheExpiresAt - TTL - FetchTime)

\* So were the keys of an answer that is on its way, which does not take too long,
\* and what the document lacked during a call is remembered.
CallInv ==
    /\ call.pc = "answered" =>
         /\ call.at <= clock /\ clock <= call.at + FetchTime
         /\ \A k \in call.keys : SeenSince(k, call.at)
         /\ Kids \ call.keys \subseteq absent
    /\ call.pc # "idle" => Kids \ published \subseteq absent
    /\ call.pc = "ended" /\ call.result = "key" => call.kid \in Kids

JwksInv ==
    JwksTypeOK /\ ProviderInv /\ CacheInv /\ CallInv /\ WithdrawnKeysExpire /\ RotationIsFollowed

-----------------------------------------------------------------------------
(* Calls.                                                                   *)

\* A call is of one kind.
LEMMA CallCases ==
    ASSUME JwksTypeOK
    PROVE  /\ call.pc = "fetch" => call \in FetchCalls
           /\ call.pc = "answered" => call \in AnsweredCalls
           /\ call.pc = "ended" => call \in EndedCalls
           /\ call.pc \notin {"fetch", "answered", "ended"} => call = Idle
  <1>1. call \in {Idle} \cup FetchCalls \cup AnsweredCalls \cup EndedCalls
    BY DEF JwksTypeOK, FetchCalls, AnsweredCalls, EndedCalls
  <1> QED
    BY <1>1 DEF Idle, FetchCalls, AnsweredCalls, EndedCalls

\* What a step may make of the call.
LEMMA FetchingMade ==
    ASSUME NEW kid \in Kids, NEW force \in BOOLEAN
    PROVE  Fetching(kid, force) \in FetchCalls /\ Fetching(kid, force).pc = "fetch"
  BY DEF Fetching, FetchCalls

\* What a call becomes when the provider has answered it,
LEMMA AnsweredMade ==
    ASSUME JwksTypeOK, NEW kid \in Kids, NEW force \in BOOLEAN, NEW keys \in SUBSET Kids
    PROVE  /\ Answered(kid, force, keys) \in AnsweredCalls
           /\ Answered(kid, force, keys).pc = "answered"
           /\ Answered(kid, force, keys).at = clock
           /\ Answered(kid, force, keys).keys = keys
  BY DEF JwksTypeOK, Answered, AnsweredCalls

\* and what it becomes when it ends.
LEMMA EndedMade ==
    ASSUME JwksTypeOK, NEW kid \in Kids \cup {NoKid}, NEW result \in Resolutions
    PROVE  /\ Ended(kid, result) \in EndedCalls /\ Ended(kid, result).pc = "ended"
           /\ Ended(kid, result).result = result /\ Ended(kid, result).at = clock
           /\ Ended(kid, result).kid = kid
  BY DEF JwksTypeOK, Ended, EndedCalls

\* Times as the provers need them.
LEMMA Times ==
    /\ TTL \in Nat /\ FetchTime \in Nat
    /\ \A t \in Nat : t # Never
  BY JwksAssumption DEF Never

\* Steps of the call that leave provider, cache and time alone.
LEMMA CallOnlyStep ==
    ASSUME JwksInv, UNCHANGED <<clock, published, jwksByKid, cacheExpiresAt, lastPublished>>,
           call' \in {Idle} \cup FetchCalls \cup AnsweredCalls \cup EndedCalls,
           absent' \subseteq Kids,
           CallInv', WithdrawnKeysExpire', RotationIsFollowed'
    PROVE  JwksInv'
  BY DEF JwksInv, JwksTypeOK, ProviderInv, CacheInv, SeenSince,
         FetchCalls, AnsweredCalls, EndedCalls

\* A token arrives.
LEMMA DecodeStep ==
    ASSUME JwksInv, NEW kid \in Kids \cup {NoKid}, Decode(kid)
    PROVE  JwksInv'
  <1>1. /\ UNCHANGED <<clock, published, jwksByKid, cacheExpiresAt, lastPublished>>
        /\ absent' = Kids \ published
        /\ call' = IF kid = NoKid THEN Ended(kid, "malformed")
                   ELSE IF ~CacheFresh THEN Fetching(kid, FALSE)
                   ELSE IF kid \in jwksByKid THEN Ended(kid, "key")
                   ELSE Fetching(kid, TRUE)
    BY DEF Decode
  <1>2. CASE call' = Ended(kid, "malformed")
    <2>1. call' \in EndedCalls /\ call'.pc = "ended" /\ call'.result = "malformed"
      BY <1>2, FetchingMade, EndedMade DEF JwksInv, Resolutions
    <2>2. CallInv' /\ WithdrawnKeysExpire' /\ RotationIsFollowed'
      BY <1>1, <2>1 DEF CallInv, WithdrawnKeysExpire, RotationIsFollowed
    <2> QED
      BY <1>1, <2>1, <2>2, CallOnlyStep
  <1>3. ASSUME NEW force \in BOOLEAN, call' = Fetching(kid, force), kid # NoKid
        PROVE  JwksInv'
    <2>1. call' \in FetchCalls /\ call'.pc = "fetch"
      BY <1>3, FetchingMade, EndedMade DEF JwksInv, Resolutions
    <2>2. CallInv' /\ WithdrawnKeysExpire' /\ RotationIsFollowed'
      BY <1>1, <2>1 DEF CallInv, WithdrawnKeysExpire, RotationIsFollowed
    <2> QED
      BY <1>1, <2>1, <2>2, CallOnlyStep
  <1>4. CASE call' = Ended(kid, "key") /\ CacheFresh /\ kid \in jwksByKid
    <2>1. /\ call' \in EndedCalls /\ call'.pc = "ended" /\ call'.result = "key"
          /\ call'.at = clock /\ call'.kid = kid
      BY <1>4, FetchingMade, EndedMade DEF JwksInv, Resolutions
    <2>2. /\ lastPublished[kid] # Never
          /\ lastPublished[kid] >= cacheExpiresAt - TTL - FetchTime
          /\ clock < cacheExpiresAt
      BY <1>4 DEF JwksInv, CacheInv, SeenSince, CacheFresh
    <2>3. /\ lastPublished[kid] \in Nat /\ clock \in Nat /\ cacheExpiresAt \in Nat
          /\ kid \in Kids
      BY <1>4, <2>2 DEF JwksInv, JwksTypeOK
    <2>4. clock - lastPublished[kid] <= TTL + FetchTime
      BY <2>2, <2>3, Times
    <2>5. CallInv' /\ WithdrawnKeysExpire' /\ RotationIsFollowed'
      BY <1>1, <2>1, <2>2, <2>3, <2>4 DEF CallInv, WithdrawnKeysExpire, RotationIsFollowed
    <2> QED
      BY <1>1, <2>1, <2>5, CallOnlyStep
  <1> QED
    BY <1>1, <1>2, <1>3, <1>4

\* A call ends in failure, or goes back.
LEMMA FailureStep ==
    ASSUME JwksInv, FetchFails \/ NoUsableKeys
    PROVE  JwksInv'
  <1>1. /\ UNCHANGED <<clock, published, jwksByKid, cacheExpiresAt, lastPublished, absent>>
        /\ \E r \in {"fetch failed", "raised"} : call' = Ended(call.kid, r)
        /\ call.pc \in {"fetch", "answered"}
    BY DEF FetchFails, NoUsableKeys
  <1>2. call.kid \in Kids
    BY <1>1, CallCases DEF JwksInv, FetchCalls, AnsweredCalls
  <1>3. call' \in EndedCalls /\ call'.pc = "ended"
        /\ call'.result \in {"fetch failed", "raised"}
    <2>1. PICK r \in {"fetch failed", "raised"} : call' = Ended(call.kid, r)
      BY <1>1
    <2>2. r \in Resolutions /\ JwksTypeOK
      BY DEF Resolutions, JwksInv
    <2> QED
      BY <1>2, <2>1, <2>2, EndedMade
  <1>4. CallInv' /\ WithdrawnKeysExpire' /\ RotationIsFollowed'
    BY <1>1, <1>3 DEF JwksInv, CallInv, WithdrawnKeysExpire, RotationIsFollowed
  <1> QED
    BY <1>1, <1>3, <1>4, CallOnlyStep DEF JwksInv, JwksTypeOK

\* The provider answers with the document of this instant.
LEMMA AnswerStep ==
    ASSUME JwksInv, ProviderAnswers
    PROVE  JwksInv'
  <1>1. /\ UNCHANGED <<clock, published, jwksByKid, cacheExpiresAt, lastPublished, absent>>
        /\ call' = Answered(call.kid, call.force, published) /\ call.pc = "fetch"
    BY DEF ProviderAnswers
  <1>2. call.kid \in Kids /\ call.force \in BOOLEAN /\ published \in SUBSET Kids
    BY <1>1, CallCases DEF JwksInv, JwksTypeOK, FetchCalls
  <1>3. /\ call' \in AnsweredCalls /\ call'.pc = "answered" /\ call'.at = clock
        /\ call'.keys = published
    BY <1>1, <1>2, AnsweredMade DEF JwksInv
  <1>4. \A k \in published : lastPublished[k] # Never /\ lastPublished[k] >= clock
    BY Times DEF JwksInv, ProviderInv, JwksTypeOK
  <1>5. clock <= clock + FetchTime
    BY Times DEF JwksInv, JwksTypeOK
  <1>6. CallInv'
    BY <1>1, <1>3, <1>4, <1>5 DEF JwksInv, CallInv, SeenSince, JwksTypeOK
  <1>7. WithdrawnKeysExpire' /\ RotationIsFollowed'
    BY <1>3 DEF WithdrawnKeysExpire, RotationIsFollowed
  <1> QED
    BY <1>1, <1>3, <1>6, <1>7, CallOnlyStep DEF JwksInv, JwksTypeOK

\* The cache is replaced.
LEMMA StoreStep ==
    ASSUME JwksInv, StoreKeys
    PROVE  JwksInv'
  <1>1. /\ UNCHANGED <<clock, published, lastPublished, absent>>
        /\ jwksByKid' = call.keys /\ cacheExpiresAt' = clock + TTL /\ call.pc = "answered"
        /\ call' = IF call.kid \in call.keys THEN Ended(call.kid, "key")
                   ELSE IF call.force THEN Ended(call.kid, "unknown kid")
                   ELSE Fetching(call.kid, TRUE)
    BY DEF StoreKeys
  <1>2. call \in AnsweredCalls
    BY <1>1, CallCases DEF JwksInv
  <1>3. call.kid \in Kids /\ call.keys \subseteq Kids /\ call.at \in Nat
    BY <1>2 DEF AnsweredCalls
  <1>4. /\ call.at <= clock /\ clock <= call.at + FetchTime /\ clock \in Nat
        /\ \A k \in call.keys : lastPublished[k] # Never /\ lastPublished[k] >= call.at
        /\ Kids \ call.keys \subseteq absent /\ Kids \ published \subseteq absent
    BY <1>1 DEF JwksInv, CallInv, SeenSince, JwksTypeOK
  <1>5. \A k \in call.keys : lastPublished[k] \in Nat
    BY <1>3, <1>4 DEF JwksInv, JwksTypeOK
  <1>6. CacheInv'
    <2>1. ASSUME NEW k \in call.keys
          PROVE  SeenSince(k, cacheExpiresAt - TTL - FetchTime)'
      <3>1. /\ lastPublished[k] \in Nat /\ call.at \in Nat /\ clock \in Nat
            /\ lastPublished[k] # Never /\ lastPublished[k] >= call.at
            /\ clock <= call.at + FetchTime
        BY <1>3, <1>4, <1>5
      <3>2. lastPublished[k] >= (clock + TTL) - TTL - FetchTime
        BY <3>1, Times
      <3> QED
        BY <1>1, <3>1, <3>2 DEF SeenSince
    <2> QED
      BY <1>1, <2>1 DEF CacheInv
  <1>7. /\ call' \in FetchCalls \cup EndedCalls
        /\ call'.pc \in {"fetch", "ended"}
        /\ call'.pc = "ended" =>
             /\ call'.kid = call.kid /\ call'.at = clock
             /\ call'.result = "key" => call.kid \in call.keys
             /\ call'.result = "unknown kid" => call.kid \notin call.keys
    <2>1. JwksTypeOK /\ call.kid \in Kids \cup {NoKid}
          /\ "key" \in Resolutions /\ "unknown kid" \in Resolutions
      BY <1>3 DEF JwksInv, Resolutions
    <2>2. CASE call' = Ended(call.kid, "key") /\ call.kid \in call.keys
      <3>1. PICK r \in Resolutions : r = "key"
        BY <2>1
      <3>2. PICK kid \in Kids \cup {NoKid} : kid = call.kid
        BY <2>1
      <3>3. Ended(kid, r) = call'
        BY <2>2, <3>1, <3>2
      <3>4. call' \in EndedCalls /\ call'.pc = "ended" /\ call'.result = r
            /\ call'.at = clock /\ call'.kid = kid
        BY <2>1, <3>3 DEF Ended, EndedCalls, JwksTypeOK
      <3>5. call'.result = "key" /\ call'.result # "unknown kid" /\ call'.kid = call.kid
        BY <3>1, <3>2, <3>4, Zenon
      <3> QED
        BY <2>2, <3>4, <3>5, Zenon
    <2>3. CASE call' = Ended(call.kid, "unknown kid") /\ call.kid \notin call.keys
      <3>1. PICK r \in Resolutions : r = "unknown kid"
        BY <2>1
      <3>2. PICK kid \in Kids \cup {NoKid} : kid = call.kid
        BY <2>1
      <3>3. Ended(kid, r) = call'
        BY <2>3, <3>1, <3>2
      <3>4. call' \in EndedCalls /\ call'.pc = "ended" /\ call'.result = r
            /\ call'.at = clock /\ call'.kid = kid
        BY <2>1, <3>3 DEF Ended, EndedCalls, JwksTypeOK
      <3>5. call'.result = "unknown kid" /\ call'.result # "key" /\ call'.kid = call.kid
        BY <3>1, <3>2, <3>4, Zenon
      <3> QED
        BY <2>3, <3>4, <3>5, Zenon
    <2>4. CASE call' = Fetching(call.kid, TRUE)
      <3>1. Fetching(call.kid, TRUE) \in FetchCalls /\ Fetching(call.kid, TRUE).pc = "fetch"
        BY <1>3, FetchingMade
      <3> QED
        BY <2>4, <3>1
    <2> QED
      BY <1>1, <2>2, <2>3, <2>4
  <1>8. WithdrawnKeysExpire'
    <2>1. ASSUME call.kid \in call.keys
          PROVE  clock - lastPublished[call.kid] <= TTL + FetchTime
      BY <1>3, <1>4, <1>5, <2>1, Times
    <2> QED
      BY <1>1, <1>4, <1>7, <2>1 DEF WithdrawnKeysExpire
  <1>9. RotationIsFollowed'
    BY <1>1, <1>3, <1>4, <1>7 DEF RotationIsFollowed
  <1>10. CallInv'
    BY <1>1, <1>3, <1>4, <1>7 DEF CallInv
  <1>11. ProviderInv'
    BY <1>1 DEF JwksInv, ProviderInv
  <1>12. JwksTypeOK'
    <2>1. clock + TTL \in Nat
      BY <1>4, Times
    <2> QED
      BY <1>1, <1>3, <1>7, <2>1 DEF JwksInv, JwksTypeOK, FetchCalls, EndedCalls
  <1> QED
    BY <1>6, <1>8, <1>9, <1>10, <1>11, <1>12 DEF JwksInv

\* The call returns.
LEMMA ReturnStep ==
    ASSUME JwksInv, Return
    PROVE  JwksInv'
  <1>1. /\ UNCHANGED <<clock, published, jwksByKid, cacheExpiresAt, lastPublished>>
        /\ call' = Idle /\ absent' = {}
    BY DEF Return
  <1>2. call'.pc = "idle"
    BY <1>1 DEF Idle
  <1>3. CallInv' /\ WithdrawnKeysExpire' /\ RotationIsFollowed'
    BY <1>2 DEF CallInv, WithdrawnKeysExpire, RotationIsFollowed
  <1> QED
    BY <1>1, <1>3, CallOnlyStep

-----------------------------------------------------------------------------
(* The provider, the process and time.                                      *)

\* Steps that leave the call and the cache alone, and let keys be seen later.
LEMMA OutsideStep ==
    ASSUME JwksInv, UNCHANGED <<jwksByKid, cacheExpiresAt, call>>,
           clock' \in Nat, clock <= clock',
           \A k \in Kids : \/ lastPublished'[k] = lastPublished[k]
                           \/ lastPublished'[k] = clock'
                           \/ lastPublished'[k] = clock,
           lastPublished' \in [Kids -> Nat \cup {Never}],
           published' \subseteq Kids, absent \subseteq absent', absent' \subseteq Kids,
           Kids \ published' \subseteq (Kids \ published) \cup absent',
           call.pc = "answered" => clock' <= call.at + FetchTime,
           ProviderInv'
    PROVE  JwksInv'
  <1>1. JwksTypeOK'
    BY DEF JwksInv, JwksTypeOK
  <1>2. CacheInv'
    <2>1. ASSUME NEW k \in jwksByKid
          PROVE  SeenSince(k, cacheExpiresAt - TTL - FetchTime)'
      <3>1. k \in Kids /\ cacheExpiresAt - TTL - FetchTime \in Int
        BY Times DEF JwksInv, JwksTypeOK
      <3> DEFINE t == cacheExpiresAt - TTL - FetchTime
      <3>2. lastPublished[k] # Never /\ lastPublished[k] >= t
        BY DEF JwksInv, CacheInv, SeenSince
      <3>3. lastPublished[k] \in Nat /\ lastPublished[k] <= clock /\ clock \in Nat
        BY <3>1, <3>2 DEF JwksInv, JwksTypeOK, ProviderInv
      <3>4. t \in Int /\ t' = t
        BY <3>1
      <3> HIDE DEF t
      <3>5. lastPublished'[k] # Never /\ lastPublished'[k] >= t
        BY <3>1, <3>2, <3>3, <3>4, Times
      <3> QED
        BY <3>4, <3>5 DEF SeenSince, t
    <2> QED
      BY <2>1 DEF CacheInv
  <1>3. CallInv'
    <2>1. CASE call.pc = "answered"
      <3>1. call \in AnsweredCalls
        BY <2>1, CallCases DEF JwksInv
      <3>2. call.at \in Nat /\ call.keys \subseteq Kids /\ clock \in Nat /\ call.at <= clock
        BY <2>1, <3>1 DEF AnsweredCalls, JwksInv, JwksTypeOK, CallInv
      <3>3. ASSUME NEW k \in call.keys PROVE SeenSince(k, call.at)'
        <4>1. lastPublished[k] # Never /\ lastPublished[k] >= call.at
          BY <2>1 DEF JwksInv, CallInv, SeenSince
        <4>2. lastPublished[k] \in Nat /\ lastPublished[k] <= clock
          BY <3>2, <4>1 DEF JwksInv, JwksTypeOK, ProviderInv
        <4> QED
          BY <3>2, <4>1, <4>2, Times DEF SeenSince
      <3>4. call.at <= clock'
        BY <3>2
      <3> QED
        BY <2>1, <3>3, <3>4 DEF JwksInv, CallInv
    <2>2. CASE call.pc # "answered"
      BY <2>2 DEF JwksInv, CallInv
    <2> QED
      BY <2>1, <2>2
  <1>4. WithdrawnKeysExpire'
    <2> SUFFICES ASSUME call.pc = "ended", call.result = "key"
                 PROVE  /\ lastPublished'[call.kid] # Never
                        /\ call.at - lastPublished'[call.kid] <= TTL + FetchTime
      BY DEF WithdrawnKeysExpire
    <2>1. /\ lastPublished[call.kid] # Never
          /\ call.at - lastPublished[call.kid] <= TTL + FetchTime
      BY DEF JwksInv, WithdrawnKeysExpire
    <2>2. call.at \in Nat /\ call.kid \in Kids
      BY CallCases DEF JwksInv, CallInv, EndedCalls
    <2>3. lastPublished[call.kid] \in Nat /\ lastPublished[call.kid] <= clock /\ clock \in Nat
      BY <2>1, <2>2 DEF JwksInv, JwksTypeOK, ProviderInv
    <2> QED
      BY <2>1, <2>2, <2>3, Times
  <1>5. RotationIsFollowed'
    BY DEF JwksInv, RotationIsFollowed
  <1> QED
    BY <1>1, <1>2, <1>3, <1>4, <1>5 DEF JwksInv

\* Publishing a key keeps the invariant,
LEMMA PublishStep ==
    ASSUME JwksInv, NEW k \in Kids, Publish(k)
    PROVE  JwksInv'
  <1>1. /\ UNCHANGED <<clock, jwksByKid, cacheExpiresAt, call, absent>>
        /\ published' = published \cup {k}
        /\ lastPublished' = [lastPublished EXCEPT ![k] = clock]
    BY DEF Publish
  <1>2. clock \in Nat /\ lastPublished \in [Kids -> Nat \cup {Never}] /\ published \subseteq Kids
        /\ absent \subseteq Kids
    BY DEF JwksInv, JwksTypeOK
  <1>3. \A j \in Kids : lastPublished'[j] = IF j = k THEN clock ELSE lastPublished[j]
    BY <1>1, <1>2
  <1>4. ProviderInv'
    BY <1>1, <1>2, <1>3 DEF JwksInv, ProviderInv
  <1>5. lastPublished' \in [Kids -> Nat \cup {Never}] /\ published' \subseteq Kids
    BY <1>1, <1>2
  <1>6. call.pc = "answered" => clock' <= call.at + FetchTime
    BY <1>1 DEF JwksInv, CallInv
  <1> QED
    BY <1>1, <1>2, <1>3, <1>4, <1>5, <1>6, OutsideStep

\* withdrawing one does,
LEMMA WithdrawStep ==
    ASSUME JwksInv, NEW k \in Kids, Withdraw(k)
    PROVE  JwksInv'
  <1>1. /\ UNCHANGED <<clock, jwksByKid, cacheExpiresAt, call, lastPublished>>
        /\ published' = published \ {k} /\ absent' = absent \cup {k}
    BY DEF Withdraw
  <1>2. clock \in Nat /\ lastPublished \in [Kids -> Nat \cup {Never}] /\ published \subseteq Kids
        /\ absent \subseteq Kids
    BY DEF JwksInv, JwksTypeOK
  <1>3. ProviderInv'
    BY <1>1 DEF JwksInv, ProviderInv
  <1>4. call.pc = "answered" => clock' <= call.at + FetchTime
    BY <1>1 DEF JwksInv, CallInv
  <1> QED
    BY <1>1, <1>2, <1>3, <1>4, OutsideStep

\* so does the passing of time,
LEMMA TickStep ==
    ASSUME JwksInv, Tick
    PROVE  JwksInv'
  <1>1. /\ UNCHANGED <<published, jwksByKid, cacheExpiresAt, call, absent>>
        /\ clock' = clock + 1
        /\ lastPublished' = [j \in Kids |-> IF j \in published THEN clock' ELSE lastPublished[j]]
        /\ call.pc = "answered" => clock < call.at + FetchTime
    BY DEF Tick
  <1>2. clock \in Nat /\ lastPublished \in [Kids -> Nat \cup {Never}] /\ published \subseteq Kids
        /\ absent \subseteq Kids
    BY DEF JwksInv, JwksTypeOK
  <1>3. clock' \in Nat /\ clock <= clock'
    BY <1>1, <1>2
  <1>4. ProviderInv'
    <2>1. ASSUME NEW j \in Kids
          PROVE  lastPublished'[j] <= clock'
      <3>1. lastPublished[j] \in Nat \cup {Never} /\ lastPublished[j] <= clock
        BY <1>2 DEF JwksInv, ProviderInv
      <3>2. lastPublished[j] <= clock + 1
        BY <1>2, <3>1 DEF Never
      <3> QED
        BY <1>1, <1>2, <3>2
    <2> QED
      BY <1>1, <1>2, <2>1 DEF ProviderInv
  <1>5. lastPublished' \in [Kids -> Nat \cup {Never}]
    BY <1>1, <1>2, <1>3
  <1>6. call.pc = "answered" => clock' <= call.at + FetchTime
    <2>1. ASSUME call.pc = "answered" PROVE call.at \in Nat
      BY <2>1, CallCases DEF JwksInv, AnsweredCalls
    <2> QED
      BY <1>1, <1>2, <2>1, Times
  <1>7. \A j \in Kids : lastPublished'[j] = lastPublished[j] \/ lastPublished'[j] = clock'
    BY <1>1
  <1> QED
    BY <1>1, <1>2, <1>3, <1>4, <1>5, <1>6, <1>7, OutsideStep

\* and so does a restart of the gateway, which empties the cache.
LEMMA RestartStep ==
    ASSUME JwksInv, GatewayRestart
    PROVE  JwksInv'
  <1>1. /\ UNCHANGED <<clock, published, lastPublished>>
        /\ jwksByKid' = {} /\ cacheExpiresAt' = 0 /\ call' = Idle /\ absent' = {}
    BY DEF GatewayRestart
  <1>2. call'.pc = "idle"
    BY <1>1 DEF Idle
  <1>3. CallInv' /\ WithdrawnKeysExpire' /\ RotationIsFollowed'
    BY <1>2 DEF CallInv, WithdrawnKeysExpire, RotationIsFollowed
  <1>4. JwksTypeOK' /\ ProviderInv' /\ CacheInv'
    BY <1>1 DEF JwksInv, JwksTypeOK, ProviderInv, CacheInv
  <1> QED
    BY <1>3, <1>4 DEF JwksInv

-----------------------------------------------------------------------------
(* The specification.                                                       *)

\* The inductive invariant of the key cache holds in the beginning,
LEMMA JwksInvInit == JwksInit => JwksInv
  <1> SUFFICES ASSUME JwksInit PROVE JwksInv
    OBVIOUS
  <1>1. call.pc = "idle"
    BY DEF JwksInit, Idle
  <1>2. CallInv /\ WithdrawnKeysExpire /\ RotationIsFollowed
    BY <1>1 DEF CallInv, WithdrawnKeysExpire, RotationIsFollowed
  <1>3. lastPublished \in [Kids -> Nat \cup {Never}]
    BY DEF JwksInit
  <1>4. JwksTypeOK
    BY <1>3 DEF JwksInit, JwksTypeOK
  <1>5. ProviderInv
    <2>1. \A k \in Kids : lastPublished[k] = IF k \in published THEN 0 ELSE Never
      BY DEF JwksInit
    <2>2. clock = 0 /\ Never \in Int /\ Never <= 0 /\ published \subseteq Kids
      BY DEF JwksInit, Never
    <2>3. ASSUME NEW k \in Kids
          PROVE  lastPublished[k] <= clock
      <3>1. lastPublished[k] = 0 \/ lastPublished[k] = Never
        BY <2>1
      <3> QED
        BY <2>2, <3>1
    <2>4. \A k \in published : lastPublished[k] = clock
      BY <2>1, <2>2
    <2> QED
      BY <2>3, <2>4 DEF ProviderInv
  <1>6. CacheInv
    BY DEF JwksInit, CacheInv
  <1> QED
    BY <1>2, <1>4, <1>5, <1>6 DEF JwksInv

\* and every step keeps it.
LEMMA JwksInvStep == JwksInv /\ [JwksNext]_jwksVars => JwksInv'
  <1> SUFFICES ASSUME JwksInv, [JwksNext]_jwksVars PROVE JwksInv'
    OBVIOUS
  <1>1. CASE \E kid \in Kids \cup {NoKid} : Decode(kid)
    BY <1>1, DecodeStep
  <1>2. CASE CallStep
    BY <1>2, AnswerStep, FailureStep, StoreStep, ReturnStep DEF CallStep
  <1>3. CASE \E k \in Kids : Publish(k) \/ Withdraw(k)
    BY <1>3, PublishStep, WithdrawStep
  <1>4. CASE GatewayRestart
    BY <1>4, RestartStep
  <1>5. CASE Tick
    BY <1>5, TickStep
  <1>6. CASE UNCHANGED jwksVars
    BY <1>6 DEF jwksVars, JwksInv, JwksTypeOK, ProviderInv, CacheInv, CallInv, SeenSince,
                WithdrawnKeysExpire, RotationIsFollowed
  <1> QED
    BY <1>1, <1>2, <1>3, <1>4, <1>5, <1>6 DEF JwksNext

\* The inductive invariant of the key cache always holds: what the call under way of
\* _resolve_jwks_key knows, and how old the cached keys may be.
THEOREM JwksInvariant == JwksSpec => []JwksInv
  BY JwksInvInit, JwksInvStep, PTL DEF JwksSpec

\* Every variable keeps its type.
THEOREM JwksTypeCorrect == JwksSpec => []JwksTypeOK
  <1>1. JwksInv => JwksTypeOK
    BY DEF JwksInv
  <1> QED
    BY <1>1, JwksInvariant, PTL

\* Whatever the provider publishes and withdraws, whichever fetches fail and
\* however long an answer travels within FetchTime: a key resolves only within TTL
\* and FetchTime of its last publication.
THEOREM WithdrawnExpire == JwksSpec => []WithdrawnKeysExpire
  <1>1. JwksInv => WithdrawnKeysExpire
    BY DEF JwksInv
  <1> QED
    BY <1>1, JwksInvariant, PTL

\* "Unable to find matching JWK" is only said of a kid the provider lacked during
\* the call.
THEOREM RotationFollowed == JwksSpec => []RotationIsFollowed
  <1>1. JwksInv => RotationIsFollowed
    BY DEF JwksInv
  <1> QED
    BY <1>1, JwksInvariant, PTL

=============================================================================
