--------------------------- MODULE SemanticPolicy ---------------------------
(***************************************************************************)
(* The cache of embeddings of the semantic guardrail (gateway-policy       *)
(* semantic.rs).  The embedder is asked without the lock, so that another  *)
(* evaluation may fill the cache in the meantime; what matches a policy    *)
(* depends on the embedding alone and is left out.                         *)
(***************************************************************************)
EXTENDS Integers, FiniteSets

CONSTANTS
    EmbedTexts,     \* prompts
    EmbedCacheMax,  \* cache_max, 1024 unless with_cache_size sets it
    Evaluators      \* evaluations at a time

ASSUME SemanticAssumption == EmbedCacheMax \in Nat /\ IsFiniteSet(EmbedTexts)

VARIABLES
    embedded,       \* the prompts whose embedding is cached
    evaluation      \* evaluator -> the prompt it has the embedder embed

semanticVars == <<embedded, evaluation>>

NoPrompt == 0

SemanticInit ==
    /\ embedded = {}
    /\ evaluation = [e \in Evaluators |-> NoPrompt]

\* A hit answers at once.
Evaluate(e, text) ==
    /\ evaluation[e] = NoPrompt /\ text \notin embedded
    /\ evaluation' = [evaluation EXCEPT ![e] = text]
    /\ UNCHANGED embedded

\* Mutant: a twentieth is dropped, of ten none.
DropTwentieth == EmbedCacheMax \div 20

\* A tenth, rounded down: of a cache smaller than ten, nothing.
ToDrop == EmbedCacheMax \div 10

\* The keys of a hash map come in any order.
Evictions ==
    IF Cardinality(embedded) < EmbedCacheMax THEN {{}}
    ELSE {S \in SUBSET embedded : Cardinality(S) = ToDrop}

\* An error of the embedder lets the prompt pass.
EmbedCached(e) ==
    /\ evaluation[e] # NoPrompt
    /\ \/ UNCHANGED embedded
       \/ \E S \in Evictions : embedded' = (embedded \ S) \union {evaluation[e]}
    /\ evaluation' = [evaluation EXCEPT ![e] = NoPrompt]

SemanticNext ==
    \E e \in Evaluators : EmbedCached(e) \/ \E text \in EmbedTexts : Evaluate(e, text)

SemanticSpec == SemanticInit /\ [][SemanticNext]_semanticVars

----------------------------------------------------------------------------
\* From a cache_max of ten on, the cache never holds more than that many
\* embeddings, however many evaluations fill it at a time (embed_cached).  Below
\* ten a tenth is nothing and the cache only grows, although semantic.rs:413 means
\* "to prevent unbounded growth".
EmbedCacheBounded == EmbedCacheMax >= 10 => Cardinality(embedded) <= EmbedCacheMax
=============================================================================
