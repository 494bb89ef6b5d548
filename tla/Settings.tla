------------------------------ MODULE Settings ------------------------------
(***************************************************************************)
(* Configuration (osm_core/config.py) and the engines made from it (the    *)
(* create_engine factories of llm, stt and tts): where a value comes from, *)
(* and which key each engine presents to its service.                      *)
(*                                                                         *)
(* Abstraction: the fields a run depends on, named section.field; values   *)
(* are strings as in the code, "" is no value; a YAML file is the fields   *)
(* it gives and the sections it names without giving anything.             *)
(***************************************************************************)
EXTENDS Naturals

\* What each field is when the file does not give it.
Default ==
  [f \in {"llm.provider", "llm.api_key", "llm.base_url", "stt.provider",
          "stt.api_key", "tts.provider", "tts.api_key",
          "tts.elevenlabs_api_key", "voice_mode.default"} |->
     CASE f \in {"llm.provider", "tts.provider"} -> "openai"
       [] f = "stt.provider" -> "local"
       [] f = "voice_mode.default" -> "hitl"
       [] OTHER -> ""]

Fields == DOMAIN Default
Config == [Fields -> STRING]

\* The variable that overrides a field.
Override ==
  [f \in {"llm.api_key", "tts.elevenlabs_api_key", "llm.base_url"} |->
     CASE f = "llm.api_key" -> "OPENAI_API_KEY"
       [] f = "tts.elevenlabs_api_key" -> "ELEVENLABS_API_KEY"
       [] f = "llm.base_url" -> "OSM_API_BASE_URL"]

EnvNames == {Override[f] : f \in DOMAIN Override}
--------------------------------------------------------------------------
\* The file that is read: the one asked for, or the first there is.
NoFile == "none"
PathOf(explicit, present) ==
  IF explicit # NoFile THEN explicit
  ELSE IF "config.yaml" \in present THEN "config.yaml"
  ELSE IF "config.example.yaml" \in present THEN "config.example.yaml"
  ELSE NoFile

\* The file's fields over the defaults; unknown keys are left out.
FromDict(given) ==
  [f \in Fields |-> IF f \in DOMAIN given THEN given[f] ELSE Default[f]]

\* Environment over file; an empty variable does not count.
Overridden(c, env) ==
  [f \in Fields |->
     IF f \in DOMAIN Override /\ env[Override[f]] # ""
     THEN env[Override[f]] ELSE c[f]]

\* The llm key for stt and tts where they have none.
Propagated(c) ==
  [f \in Fields |->
     IF f \in {"stt.api_key", "tts.api_key"} /\ c[f] = ""
     THEN c["llm.api_key"] ELSE c[f]]

\* Mutant: keys are handed on before the environment is looked at.
MutApplyEnv(c, env) == Overridden(Propagated(c), env)

ApplyEnv(c, env) == Propagated(Overridden(c, env))

\* load_config raises when the file asked for is missing and when a section
\* is named but empty, which YAML reads as null.
LoadRaises(explicit, present, file) ==
  \/ explicit # NoFile /\ explicit \notin present
  \/ PathOf(explicit, present) # NoFile /\ file.empty # {}

LoadConfig(explicit, present, file, env) ==
  IF PathOf(explicit, present) = NoFile THEN ApplyEnv(Default, env)
                                        ELSE ApplyEnv(FromDict(file.given), env)
--------------------------------------------------------------------------
\* create_engine raises ValueError for a provider it does not know.
LlmProviders == {"openai", "osmapi", "local"}
SttProviders == {"local", "openai"}
TtsProviders == {"openai", "elevenlabs", "local"}
EnginesRaise(c) ==
  \/ c["llm.provider"] \notin LlmProviders
  \/ c["stt.provider"] \notin SttProviders
  \/ c["tts.provider"] \notin TtsProviders

Placeholder == "sk-placeholder"
Or(v, w) == IF v # "" THEN v ELSE w

LlmKey(c) == Or(c["llm.api_key"], Placeholder)
SttKey(c) == Or(c["stt.api_key"], Placeholder)
TtsKey(c) ==
  IF c["tts.provider"] = "elevenlabs"
  THEN Or(c["tts.elevenlabs_api_key"], c["tts.api_key"])
  ELSE Or(c["tts.api_key"], Placeholder)

--------------------------------------------------------------------------
\* One key is enough, from the file or the environment: when the language
\* model has one, no speech engine is left with the placeholder or none.
OneKeyServesAll(c) ==
  LlmKey(c) # Placeholder =>
    SttKey(c) # Placeholder /\ TtsKey(c) \notin {Placeholder, ""}

\* Sharing the key replaces no key: what the file gives stt and tts, and what
\* the environment says, is what the engines present.
OwnKeysKept(given, env, c) ==
  /\ \A f \in {"stt.api_key", "tts.api_key"} \cap DOMAIN given :
       given[f] # "" => c[f] = given[f]
  /\ \A f \in DOMAIN Override :
       env[Override[f]] # "" => c[f] = env[Override[f]]
=============================================================================
