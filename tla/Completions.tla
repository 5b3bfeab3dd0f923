---------------------------- MODULE Completions ----------------------------
(***************************************************************************)
(* The OpenAI-compatible endpoints (gateway-server handlers/llm.rs) with   *)
(* the response cache (gateway-llm cache.rs, adapter.rs, privacy.rs).      *)
(* Which provider a model is routed to is the matter of LlmRouter, what    *)
(* becomes of the log and the usage record that of LogSink and             *)
(* UsageReporter.                                                          *)
(*                                                                         *)
(* A request is a member of a small set of records: who asks (tenant), the *)
(* model, the messages, whether there is a list of them (listed), the      *)
(* temperature and max_tokens it states (limits), whether it is safe to    *)
(* cache.  A message has a role and a content, which is a text or is not.  *)
(* Texts are sequences, so that texts that are different can be joined to  *)
(* the same.  The handlers run in parallel; a step is what one does        *)
(* between two awaits, but for put, which takes the locks of the cache one *)
(* after the other.                                                        *)
(***************************************************************************)
EXTENDS Integers, Sequences, FiniteSets, SequencesExt

CONSTANTS
    LlmRequests,
    Handlers,       \* requests handled at a time
    MaxEntries,     \* max_entries of the cache
    AnswerLimit     \* bound on the answers of the providers

ASSUME CompletionsAssumption ==
    /\ IsFiniteSet(Handlers) /\ AnswerLimit \in Nat /\ MaxEntries \in Nat \ {0}
    /\ \A r \in LlmRequests : DOMAIN r = {"tenant", "model", "messages", "listed", "limits", "safe"}

VARIABLES
    chat,           \* where each handler is
    llmCache,       \* the entries, oldest first
    answers,        \* answers of the providers so far
    overlaps,       \* entries inserted while another put was under way
    hit             \* the last request served from the cache, and what it got

llmVars == <<chat, llmCache, answers, overlaps, hit>>

Kinds == {"openai", "anthropic", "ollama"}
Started == [at |-> "start"]
NoRequest == [tenant |-> "none", model |-> <<>>, messages |-> <<>>,
              listed |-> FALSE, limits |-> <<>>, safe |-> FALSE]

LlmInit ==
    /\ chat = [h \in Handlers |-> Started]
    /\ llmCache = <<>> /\ overlaps = 0
    /\ answers = 0
    /\ hit = [of |-> NoRequest, got |-> NoRequest]

----------------------------------------------------------------------------
(* Keys, conversions.                                                      *)

\* What is hashed of a message: content that is not a string is skipped.
Hashed(message) ==
    <<message.role>> \o (IF message.isText THEN message.content ELSE <<>>)

\* The hash takes them one after the other, with nothing in between; what is
\* not model, role, content, temperature or max_tokens does not count.
CacheKey(r) ==
    r.model \o FlattenSeq([i \in DOMAIN r.messages |-> Hashed(r.messages[i])]) \o r.limits

\* Mutant: the key is not made of the tenant.
SharedCacheKey(r) == <<"", CacheKey(r)>>

TenantCacheKey(r) == <<r.tenant, CacheKey(r)>>

ShouldCache(r) == r.safe

\* The requests an adapter can bring into the form of a kind of provider.
Adapts(kind, r) == kind \in {"openai", "ollama"} \/ r.listed

Entry(k) == {e \in Range(llmCache) : e.key = k}

\* A key is in the map once at most.
Without(cache, k) ==
    IF \E i \in DOMAIN cache : cache[i].key = k
    THEN RemoveAt(cache, CHOOSE i \in DOMAIN cache : cache[i].key = k)
    ELSE cache

Chat(h, at) == chat' = [chat EXCEPT ![h] = at]

----------------------------------------------------------------------------
(* chat_completions.                                                       *)

\* The reference to a prompt is resolved first, and the request with it; one
\* that is not found ends the call.
Ask(h) ==
    /\ chat[h] = Started
    /\ \E r \in LlmRequests : Chat(h, [at |-> "settings", of |-> r])
    /\ UNCHANGED <<llmCache, answers, overlaps, hit>>

\* The settings of the tenant say whether the cache is on; that they cannot be
\* read is off.  A hit is the answer; otherwise the request goes to a provider,
\* if there is one and it can be adapted to it.
Lookup(h) ==
    /\ chat[h].at = "settings"
    /\ \E on \in BOOLEAN :
          LET r == chat[h].of
              k == TenantCacheKey(r)
              found == IF on /\ ShouldCache(r) THEN Entry(k) ELSE {} IN
          \/ /\ \E e \in found : ~e.expired /\ hit' = [of |-> r, got |-> e.from]
             /\ Chat(h, Started)
             /\ UNCHANGED llmCache
          \/ /\ \A e \in found : e.expired
             /\ llmCache' = IF found # {} THEN Without(llmCache, k) ELSE llmCache
             /\ \/ \E kind \in Kinds :
                      /\ Adapts(kind, r)
                      /\ Chat(h, [at |-> "sent", of |-> r, on |-> on])
                \/ Chat(h, Started)
             /\ UNCHANGED hit
    /\ UNCHANGED <<answers, overlaps>>

\* The provider fails, refuses or answers what is not JSON: an error, with a
\* usage record or without.  A completion goes on to its price.
ProviderAnswers(h) ==
    /\ chat[h].at = "sent" /\ answers < AnswerLimit
    /\ answers' = answers + 1
    /\ \/ Chat(h, Started)
       \/ Chat(h, [at |-> IF chat[h].on /\ ShouldCache(chat[h].of) THEN "put" ELSE "log",
                   of |-> chat[h].of])
    /\ UNCHANGED <<llmCache, overlaps, hit>>

----------------------------------------------------------------------------
(* put: the size is tested, the oldest entry looked for, removed, and the  *)
(* new one inserted, each under locks of its own.                          *)

\* Mutant: full is one entry late.
FullLate(cache) == Len(cache) > MaxEntries

Full(cache) == Len(cache) >= MaxEntries

PutTest(h) ==
    /\ chat[h].at = "put"
    /\ Chat(h, IF Full(llmCache) /\ llmCache # <<>>
               THEN [at |-> "evict", of |-> chat[h].of, oldest |-> Head(llmCache).key]
               ELSE [chat[h] EXCEPT !.at = "insert"])
    /\ UNCHANGED <<llmCache, answers, overlaps, hit>>

EvictOldest(h) ==
    /\ chat[h].at = "evict"
    /\ llmCache' = Without(llmCache, chat[h].oldest)
    /\ Chat(h, [at |-> "insert", of |-> chat[h].of])
    /\ UNCHANGED <<answers, overlaps, hit>>

Insert(h) ==
    /\ chat[h].at = "insert"
    /\ LET k == TenantCacheKey(chat[h].of) IN
       llmCache' = Append(Without(llmCache, k),
                          [key |-> k, from |-> chat[h].of, expired |-> FALSE])
    /\ overlaps' = overlaps
         + (IF \E o \in Handlers \ {h} : chat[o].at \in {"evict", "insert"} THEN 1 ELSE 0)
    /\ Chat(h, [chat[h] EXCEPT !.at = "log"])
    /\ UNCHANGED <<answers, hit>>

\* Metrics, the export, the log and the data lake get the completion, its
\* bodies redacted when the tenant says so; a task of its own writes the usage
\* record, and the client has its answer.
FinishChat(h) ==
    /\ chat[h].at = "log"
    /\ Chat(h, Started)
    /\ UNCHANGED <<llmCache, answers, overlaps, hit>>

\* The time to live of the oldest entries is over; nothing calls cleanup.
ExpireEntry ==
    /\ \E n \in 1..Len(llmCache) :
          llmCache' = [i \in 1..Len(llmCache) |->
                         IF i <= n THEN [llmCache[i] EXCEPT !.expired = TRUE] ELSE llmCache[i]]
    /\ llmCache' # llmCache
    /\ UNCHANGED <<chat, answers, overlaps, hit>>

LlmNext ==
    \/ \E h \in Handlers :
          \/ Ask(h) \/ Lookup(h) \/ ProviderAnswers(h)
          \/ PutTest(h) \/ EvictOldest(h) \/ Insert(h) \/ FinishChat(h)
    \/ ExpireEntry

LlmSpec == LlmInit /\ [][LlmNext]_llmVars

----------------------------------------------------------------------------
\* What comes from the cache is an answer that a request of the same tenant
\* and the same fingerprint got, though tenants share the cache, an entry is
\* replaced and puts and removals interleave (llm.rs, tenant_cache_key).  It may
\* be another request: a fingerprint does not tell apart what runs together in
\* it, nor contents that are not strings.
HitsStayHome ==
    hit.got.tenant = hit.of.tenant /\ CacheKey(hit.got) = CacheKey(hit.of)

\* The cache is never larger than max_entries by more than the entries that
\* were inserted while another put was under way: puts one after the other
\* keep the bound, and puts that overlap can each add one that nothing takes
\* back (cache.rs put, evict_oldest).
CacheBounded == Len(llmCache) <= MaxEntries + overlaps
=============================================================================
