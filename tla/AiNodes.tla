------------------------------- MODULE AiNodes ------------------------------
(***************************************************************************)
(* The AI nodes (nodes/ai): three on the server's own model (internal/llm) *)
(* and nine services.  A prediction changes nothing at the service.  A key *)
(* that is missing is sent empty.                                          *)
(***************************************************************************)
EXTENDS Calls

(* llm.Client: the key, the request and its answer, which must be readable.*)
do         == <<Cred, Ask({})>>
Complete   == do
Structured == do \o <<Parse>>

(* One completion per input item, each of the text of the first.           *)
Llm == Node("ai", "once", { Field({"text"}, {"summarize", "classify", "extract"}) }, <<>>,
    { PerItem({"summarize"}, 1, Complete), PerItem({"classify", "extract"}, 1, Structured) })

-----------------------------------------------------------------------------
(* An answer that cannot be read is returned as it is.                     *)
openaiCall == Ask(Blind)
OpenAIForm ==
    LET asked == {"chat:completion", "completion:create", "embedding:create", "image:generate",
                  "moderation:check"} IN
    { Field({"prompt"}, asked), Field({"audioFile"}, {"audio:transcribe", "audio:translate"}),
      Field({"language"}, {"audio:transcribe"}) }
OpenAI == Node("ai.openai", "once", OpenAIForm, <<>>,
    { Does({"chat:completion", "completion:create", "embedding:create", "image:generate",
            "moderation:check"}, <<Need({"prompt"}), openaiCall>>),
      Does({"audio:transcribe", "audio:translate"}, <<Need({"audioFile"}), openaiCall>>),
      Does({"model:list"}, <<openaiCall>>) })

cohereCall == Ask(Blind)
CohereForm == { Field({"prompt"}, {"generate", "embed", "classify", "summarize", "chat"}),
                Field({"maxTokens", "temperature"}, {"generate", "chat"}) }
Cohere == Node("ai.cohere", "once", CohereForm, <<Need({"prompt"})>>,
    { Does({"generate", "embed", "classify", "summarize", "chat"}, <<cohereCall>>) })

(* The list of models is asked for with a POST.                            *)
mistralCall == Ask(Blind)
MistralForm == { Field({"prompt"}, {"chat:completion", "embed:create"}),
                 Field({"maxTokens", "temperature"}, {"chat:completion"}) }
Mistral == Node("ai.mistral", "once", MistralForm, <<>>,
    { Does({"chat:completion", "embed:create"}, <<Need({"prompt"}), mistralCall>>),
      Does({"model:list"}, <<mistralCall>>) })

perplexityCall == Ask(Blind)
PerplexityForm == { Field({"prompt", "maxTokens"}, {"chat:completion", "search:run"}),
                    Field({"temperature"}, {"chat:completion"}) }
Perplexity == Node("ai.perplexity", "once", PerplexityForm, <<>>,
    { Does({"chat:completion", "search:run"}, <<Need({"prompt"}), perplexityCall>>),
      Does({"model:list"}, <<perplexityCall>>) })

(* The list of models is asked for with a POST.                            *)
stabilityCall == Ask(Blind)
StabilityForm == { Field({"prompt"}, {"image:generate", "image:variation"}),
                   Field({"width", "height", "steps", "cfgScale", "samples"}, {"image:generate"}) }
StabilityAI == Node("ai.stability", "once", StabilityForm, <<>>,
    { Does({"image:generate", "image:variation"}, <<Need({"prompt"}), stabilityCall>>),
      Does({"model:list"}, <<stabilityCall>>) })

hfCall == Ask(Blind)
HuggingFaceForm ==
    { Field({"modelId", "parameters"},
            {"inference:run", "model:list", "model:get", "embedding:create"}),
      Field({"input"}, {"inference:run", "embedding:create"}) }
HuggingFace == Node("ai.huggingface", "once", HuggingFaceForm, <<Need({"modelId"})>>,
    { Does({"inference:run", "model:list", "model:get", "embedding:create"}, <<hfCall>>) })

(* The voice has a default for speech.                                     *)
elevenlabsTTS  == Ask(Blind)
elevenlabsCall == Read(Blind)
ElevenLabsForm == { Field({"voiceId"}, {"tts:generate", "voice:get"}),
                    Field({"text", "modelId", "stability"}, {"tts:generate"}) }
ElevenLabs == Node("ai.elevenlabs", "once", ElevenLabsForm, <<>>,
    { Does({"tts:generate"}, <<Need({"text"}), elevenlabsTTS>>),
      Does({"voice:list"}, <<elevenlabsCall>>),
      Does({"voice:get"}, <<Need({"voiceId"}), elevenlabsCall>>) })

-----------------------------------------------------------------------------
(* The two vector stores.  The vectors are not asked for.                  *)
pineconeCall(step) == [step EXCEPT !.lax = Blind]
PineconeForm ==
    { Field({"indexHost", "namespace"}, {"vector:upsert", "vector:query", "vector:delete",
                                         "index:list", "index:create", "index:delete"}),
      Field({"vector"}, {"vector:upsert", "vector:query"}), Field({"ids"}, {"vector:delete"}),
      Field({"indexName"}, {"index:create", "index:delete"}),
      Field({"dimension", "metric"}, {"index:create"}) }
Pinecone == Node("ai.pinecone", "once", PineconeForm, <<>>,
    { Does({"vector:upsert"}, <<Need({"indexHost"}), At({"vector"}, pineconeCall(Amend))>>),
      Does({"vector:query"}, <<Need({"indexHost"}), pineconeCall(Query)>>),
      Does({"vector:delete"}, <<Need({"indexHost"}), At({"ids"}, pineconeCall(Expunge))>>),
      Does({"index:list"}, <<pineconeCall(Query)>>),
      Does({"index:create"}, <<Need({"indexName"}), pineconeCall(Post)>>),
      Does({"index:delete"}, <<Need({"indexName"}), At({"indexName"}, pineconeCall(Delete))>>) })

qdrantCall(step) == [step EXCEPT !.lax = Blind]
QdrantForm ==
    { Field({"host", "collection"}, {"vector:upsert", "vector:query", "vector:delete",
                                     "collection:list", "collection:create", "collection:delete"}),
      Field({"vector"}, {"vector:upsert", "vector:query"}), Field({"ids"}, {"vector:delete"}),
      Field({"dimension", "distance"}, {"collection:create"}) }
Qdrant == Node("ai.qdrant", "once", QdrantForm, <<Need({"host", "collection"})>>,
    { Does({"vector:upsert"}, <<At({"vector"}, qdrantCall(Put))>>),
      Does({"vector:query"}, <<qdrantCall(Query)>>),
      Does({"vector:delete"}, <<At({"ids"}, qdrantCall(Expunge))>>),
      Does({"collection:list"}, <<qdrantCall(Get)>>),
      Does({"collection:create"}, <<At({"collection"}, qdrantCall(Put))>>),
      Does({"collection:delete"}, <<At({"collection"}, qdrantCall(Delete))>>) })

AiPlans == UNION {Llm, OpenAI, Cohere, Mistral, Perplexity, StabilityAI, HuggingFace, ElevenLabs,
                  Pinecone, Qdrant}
=============================================================================
