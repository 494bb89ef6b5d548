----------------------------- MODULE MCOsmCore -----------------------------
(* Instances of OsmCore: what load_config may find at start-up.            *)
EXTENDS OsmCore

Paths == {"config.yaml", "config.example.yaml", "mine.yaml"}
Files ==
  [given : {[f \in {} |-> ""],
            [f \in {"llm.api_key"} |-> "file"],
            [f \in {"tts.provider", "voice_mode.default"} |->
               IF f = "tts.provider" THEN "elevenlabs" ELSE "autonomous"],
            [f \in {"stt.provider", "stt.api_key"} |->
               IF f = "stt.provider" THEN "openai" ELSE "own"],
            [f \in {"llm.provider"} |-> "other"]},
   empty : {{}, {"tts"}}]
Envs == [EnvNames -> {"", "env"}]

AllStartups ==
  [explicit : {NoFile, "mine.yaml"},
   present : {{}, {"config.example.yaml"}, Paths},
   file : Files, env : Envs]

\* A file or none, both ways of replying.
FewStartups ==
  {s \in AllStartups :
     /\ s.explicit = NoFile /\ s.present = {"config.example.yaml"}
     /\ s.env = [e \in EnvNames |-> ""] /\ s.file.empty = {}}
=============================================================================
