------------------------------ MODULE Adapters ------------------------------
(***************************************************************************)
(* Every provider by its identifier: what its adapter does with what it is  *)
(* answered, and what the collector may assume of it.                       *)
(***************************************************************************)
EXTENDS KeyAdapters, CodingAdapters, GatewayAdapters, InfrastructureAdapters, LoginAdapters,
        CloudAdapters, AgentAdapters

(* The providers of the catalogue that are asked with an API key, the four  *)
(* that are asked with one and are older, and those with a login.           *)
CatalogKeys ==
  {"deepseek", "moonshot", "venice", "xai", "poe", "zenmux", "crof", "aiand",
   "alibabacodingplan", "clinepass", "codebuff", "ibmbob", "kilo", "warp", "devin-desktop",
   "doubao", "clawrouter", "litellm", "llmproxy", "sub2api", "openai", "chutes", "deepinfra",
   "fireworks", "groq", "deepgram", "elevenlabs", "neuralwatt", "kimi", "devin", "opencodego"}
KeyApis == {"synthetic", "openrouter", "zai", "minimax"}
CatalogLogins == {"azureopenai", "kiro", "vertexai", "cursor", "grok", "claude", "gemini", "copilot"}
Agents == {"codex", "amp", "antigravity", "factory"}

Providers == CatalogKeys \cup KeyApis \cup CatalogLogins \cup Agents

(* The fetch of the adapter that reads this machine and its environment. *)
Local(p, r) ==
  CASE p = "deepseek" -> DeepSeek(r)
    [] p = "moonshot" -> Moonshot(r)
    [] p = "venice" -> Venice(r)
    [] p = "xai" -> Xai(r)
    [] p = "poe" -> Poe(r)
    [] p = "zenmux" -> ZenMux(r)
    [] p = "crof" -> Crof(r)
    [] p = "aiand" -> AiAnd(r)
    [] p = "alibabacodingplan" -> Alibaba(r)
    [] p = "clinepass" -> ClinePass(r)
    [] p = "codebuff" -> CodeBuff(r)
    [] p = "ibmbob" -> IbmBob(r)
    [] p = "kilo" -> Kilo(r)
    [] p = "warp" -> Warp(r)
    [] p = "devin-desktop" -> DevinDesktop(r)
    [] p = "doubao" -> Doubao(r)
    [] p = "clawrouter" -> ClawRouter(r)
    [] p = "litellm" -> LiteLlm(r)
    [] p = "llmproxy" -> LlmProxy(r)
    [] p = "sub2api" -> Sub2Api(r)
    [] p = "openai" -> OpenAi(r)
    [] p = "chutes" -> Chutes(r)
    [] p = "deepinfra" -> DeepInfra(r)
    [] p = "fireworks" -> Fireworks(r)
    [] p = "groq" -> Groq(r)
    [] p = "deepgram" -> Deepgram(r)
    [] p = "elevenlabs" -> ElevenLabs(r)
    [] p = "neuralwatt" -> NeuralWatt(r)
    [] p = "kimi" -> Kimi(r)
    [] p = "devin" -> Devin(r)
    [] p = "opencodego" -> OpenCodeGo(r)
    [] p = "synthetic" -> Synthetic(r)
    [] p = "openrouter" -> OpenRouter(r)
    [] p = "zai" -> Zai(r)
    [] p = "minimax" -> MiniMax(r)
    [] p = "azureopenai" -> Azure(r)
    [] p = "kiro" -> Kiro(r)
    [] p = "vertexai" -> VertexAi(r)
    [] p = "cursor" -> Cursor(r)
    [] p = "grok" -> Grok(r)
    [] p = "claude" -> Claude(r)
    [] p = "gemini" -> Gemini(r)
    [] p = "copilot" -> Copilot(r)
    [] p = "codex" -> CodexLocal(r)
    [] p = "amp" -> AmpLocal(r)
    [] p = "antigravity" -> Antigravity(r)
    [] p = "factory" -> FactoryLocal(r)

(* Whether a fetch may be made again: it is asked with a key, which asking   *)
(* does not spend.                                                          *)
LocalIdempotent(p) == p \in CatalogKeys \cup KeyApis \cup {"factory", "antigravity"}

HasKey(p) == p \in CatalogKeys \cup KeyApis \cup {"amp", "factory"}

SupportsAccounts(p) ==
  HasKey(p) \/ p \in {"codex", "antigravity", "cursor", "grok", "claude", "copilot", "kiro"}

(* What kinds of account may be saved of a provider: one with a key or token *)
(* of its own, one whose credential is owned and refreshed here, and a       *)
(* reference to the login of the provider's own program.                     *)
SavedKinds(p) ==
  {k \in {"key", "owned", "borrowed"} :
     CASE k = "key" -> SupportsAccounts(p) /\ p \notin {"codex", "kiro"}
       [] k = "owned" -> p \in {"codex", "antigravity", "factory", "claude", "grok", "kiro"}
       [] k = "borrowed" -> p \in {"codex", "amp", "antigravity", "factory", "claude", "copilot",
                                   "grok", "cursor", "kiro", "devin-desktop"}}
=============================================================================
