----------------------------- MODULE Llm_proofs -----------------------------
(***************************************************************************)
(* The services around the completions, for any number of requests: the    *)
(* maps of the MCP server, the embeddings of the semantic policies, the    *)
(* response cache, the prompt store, the router, the guardrail pipeline    *)
(* and the plugin registry.                                                *)
(***************************************************************************)
EXTENDS Mcp, SemanticPolicy, Completions, Prompts, LlmRouter, Guardrails, Plugins,
        SequenceTheorems, FiniteSetTheorems, WellFoundedInduction, TLAPS

Entries == [name : ServerNames, tools : SUBSET Tools]

Tasks ==
    {NoTask}
      \union [at : {"register", "update"}, id : ServerIds, entry : Entries]
      \union [at : {"insert", "drop", "call", "proxy"}, id : ServerIds]
      \union [at : {"refresh"}, id : ServerIds, tools : SUBSET Tools]

McpTypeOK ==
    /\ registry \in [ServerIds -> Entries \union {NotListed}]
    /\ mcpTask \in [McpTasks -> Tasks]
    /\ fresh \subseteq ServerIds

WorksOn(k, b) == mcpTask[k] # NoTask /\ mcpTask[k].id = b
At(k, place, b) == mcpTask[k].at = place /\ mcpTask[k].id = b

\* An identifier that is not drawn is nobody's, and until its entry is written
\* only the request that drew it works on it.
FreshIsNew ==
    \A b \in fresh : /\ ~Listed(b) /\ b \notin mcpClients
                     /\ \A k \in McpTasks : ~WorksOn(k, b)

FirstIsAlone ==
    \A k \in McpTasks, b \in ServerIds : At(k, "register", b) =>
        /\ ~Listed(b) /\ b \notin mcpClients /\ b \notin fresh
        /\ \A j \in McpTasks : WorksOn(j, b) => j = k

\* What is listed again after a disconnection began was written by a request
\* that crossed it.
DropsAreCrossed ==
    \A k \in McpTasks, b \in ServerIds : At(k, "drop", b) /\ Listed(b) => b \in crossed

McpInv == McpTypeOK /\ FreshIsNew /\ FirstIsAlone /\ DropsAreCrossed /\ ListedIsConnected

-----------------------------------------------------------------------------
LEMMA TasksTyped ==
    ASSUME NEW s \in Tasks
    PROVE  /\ s # NoTask <=> s.at # "none"
           /\ s # NoTask => s.id \in ServerIds
           /\ s.at \in {"register", "update"} => s.entry \in Entries
           /\ s.at = "refresh" => s.tools \in SUBSET Tools
<1>1. NoTask.at = "none"
    BY DEF NoTask
<1> QED
    BY <1>1 DEF Tasks

LEMMA EntriesAreListed == \A e \in Entries : e # NotListed
<1>1. \A e \in Entries : e.name # NotListed.name
    BY McpAssumption DEF McpAssumption, Entries, NotListed
<1> QED
    BY <1>1

LEMMA Moved ==
    ASSUME McpInv, NEW k \in McpTasks, NEW at \in Tasks, Moves(k, at)
    PROVE  /\ mcpTask' \in [McpTasks -> Tasks]
           /\ mcpTask'[k] = at
           /\ \A j \in McpTasks \ {k} : mcpTask'[j] = mcpTask[j]
BY DEF McpInv, McpTypeOK, Moves

\* A request that writes neither map, and that works on no fresh server and on
\* none that another is registering.
LEMMA ReadersKeepMaps ==
    ASSUME McpInv, NEW k \in McpTasks, NEW at \in Tasks, Moves(k, at),
           UNCHANGED <<registry, mcpClients, fresh, crossed>>,
           mcpTask[k].at \notin {"register", "insert", "drop"},
           at.at \notin {"register", "insert", "drop"},
           at # NoTask => Listed(at.id) \/ at.id \in mcpClients \/ WorksOn(k, at.id)
    PROVE  McpInv'
<1>1. /\ mcpTask' \in [McpTasks -> Tasks] /\ mcpTask'[k] = at
      /\ \A j \in McpTasks \ {k} : mcpTask'[j] = mcpTask[j]
    BY Moved
<1>2. \A b : Listed(b)' <=> Listed(b)
    BY DEF Listed
<1>3. McpTypeOK'
    BY <1>1 DEF McpInv, McpTypeOK
<1>4. \A j \in McpTasks : \A b : WorksOn(j, b)' =>
          \/ WorksOn(j, b)
          \/ j = k /\ (Listed(b) \/ b \in mcpClients)
    BY <1>1 DEF WorksOn
<1>5. FreshIsNew'
    BY <1>2, <1>4 DEF McpInv, FreshIsNew
<1>6. \A j \in McpTasks : \A b : \A place \in {"register", "insert", "drop"} :
          At(j, place, b)' <=> At(j, place, b)
    BY <1>1 DEF At
<1>7. FirstIsAlone'
    BY <1>2, <1>4, <1>6 DEF McpInv, FirstIsAlone
<1>8. DropsAreCrossed'
    BY <1>2, <1>6 DEF McpInv, DropsAreCrossed
<1>9. \A b : HalfDone(b)' <=> HalfDone(b)
    BY <1>6 DEF HalfDone, At
<1>10. ListedIsConnected'
    BY <1>2, <1>9 DEF McpInv, ListedIsConnected
<1> QED
    BY <1>3, <1>5, <1>7, <1>8, <1>10 DEF McpInv

-----------------------------------------------------------------------------
(* The requests that write.                                                *)

LEMMA ConnectKeepsMaps ==
    ASSUME McpInv, NEW k \in McpTasks, NEW b \in ServerIds, NEW name \in ServerNames,
           ConnectBackend(k, b, name)
    PROVE  McpInv'
<1>1. PICK tools \in SUBSET Tools :
        Moves(k, [at |-> "register", id |-> b, entry |-> [name |-> name, tools |-> tools]])
    BY DEF ConnectBackend, Discovered
<1> DEFINE at == [at |-> "register", id |-> b, entry |-> [name |-> name, tools |-> tools]]
<1>2. at \in Tasks /\ at.at = "register" /\ at.id = b
    BY DEF Tasks, Entries
<1>3. Moves(k, at)
    BY <1>1
<1> HIDE DEF at
<1>4. /\ mcpTask' \in [McpTasks -> Tasks] /\ mcpTask'[k] = at
      /\ \A j \in McpTasks \ {k} : mcpTask'[j] = mcpTask[j]
    BY <1>2, <1>3, Moved
<1>5. /\ mcpTask[k] = NoTask /\ b \in fresh /\ fresh' = fresh \ {b}
      /\ UNCHANGED <<registry, mcpClients, crossed>>
    BY DEF ConnectBackend
<1>6. \A c : Listed(c)' <=> Listed(c)
    BY <1>5 DEF Listed
<1>7. ~Listed(b) /\ b \notin mcpClients /\ \A j \in McpTasks : ~WorksOn(j, b)
    BY <1>5 DEF McpInv, FreshIsNew
<1>8. \A j \in McpTasks : \A c : WorksOn(j, c)' => WorksOn(j, c) \/ (j = k /\ c = b)
    BY <1>2, <1>4 DEF WorksOn
<1>9. FreshIsNew'
    BY <1>5, <1>6, <1>8 DEF McpInv, FreshIsNew
<1>10. \A j \in McpTasks : \A c : At(j, "register", c)' => At(j, "register", c) \/ (j = k /\ c = b)
    BY <1>2, <1>4 DEF At
<1>11. \A j \in McpTasks : \A c : At(j, "register", c) => WorksOn(j, c)
    BY DEF At, WorksOn, NoTask
<1>12. FirstIsAlone'
    BY <1>5, <1>6, <1>7, <1>8, <1>10, <1>11 DEF McpInv, FirstIsAlone
<1>13. \A j \in McpTasks : \A c : \A place \in {"insert", "drop"} :
          At(j, place, c)' <=> At(j, place, c)
    BY <1>2, <1>4, <1>5 DEF At, NoTask
<1>14. DropsAreCrossed'
    BY <1>5, <1>6, <1>13 DEF McpInv, DropsAreCrossed
<1>15. \A c : HalfDone(c)' <=> HalfDone(c)
    BY <1>13 DEF HalfDone, At
<1>16. ListedIsConnected'
    BY <1>5, <1>6, <1>15 DEF McpInv, ListedIsConnected
<1> QED
    BY <1>4, <1>5, <1>9, <1>12, <1>14, <1>16 DEF McpInv, McpTypeOK

LEMMA ListServerKeepsMaps ==
    ASSUME McpInv, NEW k \in McpTasks, ListServer(k)
    PROVE  McpInv'
<1>b. PICK b : b = mcpTask[k].id
    OBVIOUS
<1> DEFINE at == [at |-> "insert", id |-> b]
<1>1. /\ mcpTask[k].at = "register" /\ mcpTask[k] \in Tasks /\ mcpTask[k] # NoTask
      /\ b \in ServerIds /\ mcpTask[k].entry \in Entries
    BY <1>b, TasksTyped DEF ListServer, McpInv, McpTypeOK, NoTask
<1>2. at \in Tasks /\ at.at = "insert" /\ at.id = b
    BY <1>1 DEF Tasks
<1>3. /\ Moves(k, at) /\ registry' = [registry EXCEPT ![b] = mcpTask[k].entry]
      /\ UNCHANGED <<mcpClients, fresh, crossed>>
    BY <1>b DEF ListServer, RegisterBackend
<1> HIDE DEF at
<1>4. /\ mcpTask' \in [McpTasks -> Tasks] /\ mcpTask'[k] = at
      /\ \A j \in McpTasks \ {k} : mcpTask'[j] = mcpTask[j]
    BY <1>2, <1>3, Moved
<1>5. /\ b \notin mcpClients /\ b \notin fresh /\ ~Listed(b)
      /\ \A j \in McpTasks : WorksOn(j, b) => j = k
    BY <1>1, <1>b DEF McpInv, FirstIsAlone, At
<1>6. McpTypeOK'
    BY <1>1, <1>3, <1>4 DEF McpInv, McpTypeOK
<1>7. \A c \in ServerIds \ {b} : Listed(c)' <=> Listed(c)
    BY <1>3 DEF Listed, McpInv, McpTypeOK
<1>8. \A j \in McpTasks : \A c : WorksOn(j, c)' <=> WorksOn(j, c)
  <2>1. at # NoTask
    BY <1>2 DEF NoTask
  <2> QED
    BY <2>1, <1>b, <1>1, <1>2, <1>4 DEF WorksOn
<1>9. FreshIsNew'
    BY <1>3, <1>5, <1>7, <1>8 DEF McpInv, McpTypeOK, FreshIsNew
<1>10. \A j \in McpTasks : \A c : At(j, "register", c)' => At(j, "register", c) /\ j # k
    BY <1>2, <1>4 DEF At
<1>11. \A j \in McpTasks : \A c : \A place \in {"register", "drop"} : At(j, place, c) => WorksOn(j, c)
    BY DEF At, WorksOn, NoTask
<1>12. FirstIsAlone'
    BY <1>3, <1>5, <1>7, <1>8, <1>10, <1>11 DEF McpInv, FirstIsAlone
<1>13. \A j \in McpTasks : \A c : At(j, "drop", c)' => At(j, "drop", c) /\ j # k
    BY <1>2, <1>4 DEF At
<1>14. DropsAreCrossed'
    BY <1>3, <1>5, <1>7, <1>11, <1>13 DEF McpInv, DropsAreCrossed
<1>15. HalfDone(b)' /\ \A c \in ServerIds \ {b} : HalfDone(c) => HalfDone(c)'
    BY <1>b, <1>1, <1>2, <1>4 DEF HalfDone
<1>16. ASSUME NEW c \in ServerIds \ crossed', ~HalfDone(c)'
       PROVE  Listed(c)' <=> c \in mcpClients'
  <2>1. c # b /\ ~HalfDone(c) /\ c \notin crossed
    BY <1>3, <1>15, <1>16
  <2> QED
    BY <2>1, <1>3, <1>7 DEF McpInv, ListedIsConnected
<1>17. ListedIsConnected'
    BY <1>16 DEF ListedIsConnected
<1> QED
    BY <1>6, <1>9, <1>12, <1>14, <1>17 DEF McpInv

LEMMA DisconnectKeepsMaps ==
    ASSUME McpInv, NEW k \in McpTasks, NEW b \in ServerIds, DisconnectBackend(k, b)
    PROVE  McpInv'
<1> DEFINE at == [at |-> "drop", id |-> b]
<1>1. at \in Tasks /\ at.at = "drop" /\ at.id = b
    BY DEF Tasks
<1>2. /\ mcpTask[k] = NoTask /\ (Listed(b) \/ b \in mcpClients)
      /\ registry' = [registry EXCEPT ![b] = NotListed] /\ Moves(k, at)
      /\ UNCHANGED <<mcpClients, fresh, crossed>>
    BY DEF DisconnectBackend, RegisterBackend
<1> HIDE DEF at
<1>3. /\ mcpTask' \in [McpTasks -> Tasks] /\ mcpTask'[k] = at
      /\ \A j \in McpTasks \ {k} : mcpTask'[j] = mcpTask[j]
    BY <1>1, <1>2, Moved
<1>4. ~Listed(b)' /\ \A c \in ServerIds \ {b} : Listed(c)' <=> Listed(c)
    BY <1>2 DEF Listed, McpInv, McpTypeOK
<1>5. McpTypeOK'
    BY <1>2, <1>3 DEF McpInv, McpTypeOK
<1>6. b \notin fresh /\ \A j \in McpTasks : ~At(j, "register", b)
    BY <1>2 DEF McpInv, FreshIsNew, FirstIsAlone
<1>7. \A j \in McpTasks : \A c : WorksOn(j, c)' => WorksOn(j, c) \/ (j = k /\ c = b)
    BY <1>1, <1>3 DEF WorksOn
<1>8. \A c \in fresh : c \in ServerIds
    BY DEF McpInv, McpTypeOK
<1>9. FreshIsNew'
    BY <1>2, <1>4, <1>6, <1>7, <1>8 DEF McpInv, FreshIsNew
<1>10. \A j \in McpTasks : \A c : At(j, "register", c)' => At(j, "register", c)
    BY <1>1, <1>3 DEF At
<1>11. FirstIsAlone'
    BY <1>2, <1>4, <1>6, <1>7, <1>10 DEF McpInv, FirstIsAlone
<1>12. \A j \in McpTasks : \A c : At(j, "drop", c)' => At(j, "drop", c) \/ c = b
    BY <1>1, <1>3 DEF At
<1>13. DropsAreCrossed'
    BY <1>2, <1>4, <1>12 DEF McpInv, DropsAreCrossed
<1>14. HalfDone(b)' /\ \A c : HalfDone(c) => HalfDone(c)'
    BY <1>1, <1>2, <1>3 DEF HalfDone, NoTask
<1>15. ASSUME NEW c \in ServerIds \ crossed', ~HalfDone(c)'
       PROVE  Listed(c)' <=> c \in mcpClients'
  <2>1. c # b /\ ~HalfDone(c) /\ c \notin crossed
    BY <1>2, <1>14, <1>15
  <2> QED
    BY <2>1, <1>2, <1>4 DEF McpInv, ListedIsConnected
<1>16. ListedIsConnected'
    BY <1>15 DEF ListedIsConnected
<1> QED
    BY <1>5, <1>9, <1>11, <1>13, <1>16 DEF McpInv

\* A request that ends what it did to b: the entries and clients of others
\* stay, and b, if it is listed without a client or the other way round, is
\* crossed.
LEMMA EndKeepsMaps ==
    ASSUME McpInv, NEW k \in McpTasks, NEW b \in ServerIds, WorksOn(k, b),
           mcpTask[k].at # "register", Moves(k, NoTask),
           registry' \in [ServerIds -> Entries \union {NotListed}],
           \A c \in ServerIds \ {b} : /\ Listed(c)' <=> Listed(c)
                                      /\ c \in mcpClients' <=> c \in mcpClients
                                      /\ c \in crossed' <=> c \in crossed,
           b \notin crossed' => (Listed(b)' <=> b \in mcpClients') \/ HalfDone(b)',
           \A j \in McpTasks : At(j, "drop", b)' /\ Listed(b)' => b \in crossed',
           fresh' = fresh
    PROVE  McpInv'
<1>1. NoTask \in Tasks /\ NoTask.at = "none"
    BY DEF Tasks, NoTask
<1>2. /\ mcpTask' \in [McpTasks -> Tasks] /\ mcpTask'[k] = NoTask
      /\ \A j \in McpTasks \ {k} : mcpTask'[j] = mcpTask[j]
    BY <1>1, Moved
<1>3. \A j \in McpTasks : \A c : WorksOn(j, c)' => WorksOn(j, c)
    BY <1>2 DEF WorksOn
<1>4. \A j \in McpTasks : \A c : \A place \in {"register", "drop"} :
         At(j, place, c)' => At(j, place, c) /\ j # k
    BY <1>1, <1>2 DEF At
<1>5. b \notin fresh /\ \A j \in McpTasks : ~At(j, "register", b)
  <2>1. ASSUME NEW j \in McpTasks, At(j, "register", b) PROVE FALSE
    <3>1. j = k
        BY <2>1 DEF McpInv, FirstIsAlone
    <3> QED
        BY <2>1, <3>1 DEF At
  <2> QED
    BY <2>1 DEF McpInv, FreshIsNew
<1>6. fresh \subseteq ServerIds /\ McpTypeOK'
    BY <1>2 DEF McpInv, McpTypeOK
<1>7. FreshIsNew'
    BY <1>3, <1>5, <1>6 DEF McpInv, FreshIsNew
<1>8. FirstIsAlone'
    BY <1>3, <1>4, <1>5 DEF McpInv, FirstIsAlone
<1>9. DropsAreCrossed'
    BY <1>4 DEF McpInv, DropsAreCrossed
<1>10. ASSUME NEW c \in ServerIds \ {b} PROVE HalfDone(c) => HalfDone(c)'
    BY <1>2 DEF HalfDone, WorksOn
<1>11. ListedIsConnected'
    BY <1>10 DEF McpInv, ListedIsConnected
<1> QED
    BY <1>6, <1>7, <1>8, <1>9, <1>11 DEF McpInv

LEMMA McpStep == McpInv /\ [McpNext]_mcpVars => McpInv'
<1> SUFFICES ASSUME McpInv, [McpNext]_mcpVars PROVE McpInv'
    OBVIOUS
<1>t. /\ registry \in [ServerIds -> Entries \union {NotListed}]
      /\ \A k \in McpTasks : mcpTask[k] \in Tasks
    BY DEF McpInv, McpTypeOK
<1>1. ASSUME NEW k \in McpTasks, InsertClient(k) PROVE McpInv'
  <2>b. PICK b : b = mcpTask[k].id
    OBVIOUS
  <2>1. /\ mcpTask[k].at = "insert" /\ Moves(k, NoTask)
        /\ mcpClients' = mcpClients \union {b}
        /\ crossed' = IF Listed(b) THEN crossed ELSE crossed \union {b}
        /\ UNCHANGED <<registry, fresh>>
    BY <2>b, <1>1 DEF InsertClient, Cross
  <2>2. b \in ServerIds /\ WorksOn(k, b)
    BY <2>b, <1>t, <2>1, TasksTyped DEF WorksOn, NoTask
  <2>3. \A c : Listed(c)' <=> Listed(c)
    BY <2>1 DEF Listed
  <2>4. ASSUME NEW j \in McpTasks, At(j, "drop", b)', Listed(b)' PROVE b \in crossed'
    <3>1. At(j, "drop", b)
        BY <2>1, <2>4, <1>t DEF At, Moves, McpInv, McpTypeOK, NoTask
    <3> QED
        BY <3>1, <2>1, <2>2, <2>3, <2>4 DEF McpInv, DropsAreCrossed
  <2> QED
    BY <1>t, <2>1, <2>2, <2>3, <2>4, EndKeepsMaps
<1>2. ASSUME NEW k \in McpTasks, RemoveClient(k) PROVE McpInv'
  <2>b. PICK b : b = mcpTask[k].id
    OBVIOUS
  <2>1. /\ mcpTask[k].at = "drop" /\ Moves(k, NoTask)
        /\ mcpClients' = mcpClients \ {b}
        /\ crossed' = IF Listed(b) THEN crossed ELSE crossed \ {b}
        /\ UNCHANGED <<registry, fresh>>
    BY <2>b, <1>2 DEF RemoveClient, DropsClient
  <2>2. b \in ServerIds /\ WorksOn(k, b) /\ At(k, "drop", b)
    BY <2>b, <1>t, <2>1, TasksTyped DEF WorksOn, At, NoTask
  <2>3. \A c : Listed(c)' <=> Listed(c)
    BY <2>1 DEF Listed
  <2>4. Listed(b) => b \in crossed'
    BY <2>1, <2>2 DEF McpInv, DropsAreCrossed
  <2> QED
    BY <1>t, <2>1, <2>2, <2>3, <2>4, EndKeepsMaps
<1>3. ASSUME NEW k \in McpTasks, UpdateBackend(k) PROVE McpInv'
  <2>b. PICK b : b = mcpTask[k].id
    OBVIOUS
  <2>1. /\ mcpTask[k].at = "update" /\ Moves(k, NoTask)
        /\ registry' = [registry EXCEPT ![b] = mcpTask[k].entry]
        /\ crossed' = IF Listed(b) THEN crossed ELSE crossed \union {b}
        /\ UNCHANGED <<mcpClients, fresh>>
    BY <2>b, <1>3 DEF UpdateBackend, RegisterBackend, Cross
  <2>2. b \in ServerIds /\ WorksOn(k, b) /\ mcpTask[k].entry \in Entries
    BY <2>b, <1>t, <2>1, TasksTyped DEF WorksOn, NoTask
  <2>3. Listed(b)' /\ \A c \in ServerIds \ {b} : Listed(c)' <=> Listed(c)
    BY <1>t, <2>1, <2>2, EntriesAreListed DEF Listed
  <2>4. registry' \in [ServerIds -> Entries \union {NotListed}]
    BY <1>t, <2>1, <2>2
  <2>5. ASSUME NEW j \in McpTasks, At(j, "drop", b)' PROVE b \in crossed'
    <3>1. At(j, "drop", b)
        BY <2>1, <2>5, <1>t DEF At, Moves, McpInv, McpTypeOK, NoTask
    <3> QED
        BY <3>1, <2>1, <2>2 DEF McpInv, DropsAreCrossed
  <2>6. ASSUME b \notin crossed' PROVE (Listed(b)' <=> b \in mcpClients') \/ HalfDone(b)'
    <3>1. Listed(b) /\ b \notin crossed
        BY <2>1, <2>6
    <3>2. b \in mcpClients \/ HalfDone(b)
        BY <2>2, <3>1 DEF McpInv, ListedIsConnected
    <3>3. HalfDone(b) => HalfDone(b)'
        BY <2>b, <1>t, <2>1 DEF HalfDone, Moves, McpInv, McpTypeOK
    <3> QED
        BY <2>1, <2>3, <3>2, <3>3
  <2> QED
    BY <2>1, <2>2, <2>3, <2>4, <2>5, <2>6, EndKeepsMaps
<1>4. ASSUME NEW k \in McpTasks, NEW b \in ServerIds, RefreshBackend(k, b) PROVE McpInv'
  <2>1. PICK tools \in SUBSET Tools : Moves(k, [at |-> "refresh", id |-> b, tools |-> tools])
    BY <1>4 DEF RefreshBackend, Discovered
  <2> DEFINE at == [at |-> "refresh", id |-> b, tools |-> tools]
  <2>2. at \in Tasks /\ at.at = "refresh" /\ at.id = b /\ Moves(k, at)
    BY <2>1 DEF Tasks
  <2> HIDE DEF at
  <2>3. mcpTask[k].at = "none" /\ b \in mcpClients
        /\ UNCHANGED <<registry, mcpClients, fresh, crossed>>
    BY <1>4 DEF RefreshBackend, NoTask
  <2> QED
    BY <2>2, <2>3, ReadersKeepMaps
<1>5. ASSUME NEW k \in McpTasks, GetBackend(k) PROVE McpInv'
  <2> DEFINE b == mcpTask[k].id
             entry == [registry[b] EXCEPT !.tools = mcpTask[k].tools]
             at == [at |-> "update", id |-> b, entry |-> entry]
  <2>1. mcpTask[k].at = "refresh" /\ UNCHANGED <<registry, mcpClients, fresh, crossed>>
    BY <1>5 DEF GetBackend
  <2>2. b \in ServerIds /\ WorksOn(k, b) /\ mcpTask[k].tools \in SUBSET Tools
    BY <1>t, <2>1, TasksTyped DEF WorksOn, NoTask
  <2>3. CASE Listed(b)
    <3>1. entry \in Entries
        BY <1>t, <2>2, <2>3 DEF Listed, Entries
    <3> HIDE DEF entry
    <3>2. at \in Tasks /\ at.at = "update" /\ at.id = b
        BY <2>2, <3>1 DEF Tasks
    <3>3. Moves(k, at)
        BY <1>5, <2>3 DEF GetBackend, entry
    <3> HIDE DEF at
    <3> QED
        BY <2>1, <2>2, <3>2, <3>3, ReadersKeepMaps
  <2>4. CASE ~Listed(b)
    <3>1. Moves(k, NoTask) /\ NoTask \in Tasks /\ NoTask.at = "none"
        BY <1>5, <2>4 DEF GetBackend, Tasks, NoTask
    <3> QED
        BY <2>1, <3>1, ReadersKeepMaps
  <2> QED
    BY <2>3, <2>4
<1>6. ASSUME NEW k \in McpTasks, NEW name \in ServerNames, NEW tool \in Tools,
             CallTool(k, name, tool)
      PROVE  McpInv'
  <2>1. PICK b \in Resolution(name, tool) : Moves(k, [at |-> "call", id |-> b])
    BY <1>6 DEF CallTool
  <2> DEFINE at == [at |-> "call", id |-> b]
  <2>2. at \in Tasks /\ at.at = "call" /\ at.id = b /\ Listed(b)
    BY <2>1 DEF Tasks, Resolution
  <2>3. Moves(k, at)
    BY <2>1
  <2> HIDE DEF at
  <2>4. mcpTask[k].at = "none" /\ UNCHANGED <<registry, mcpClients, fresh, crossed>>
    BY <1>6 DEF CallTool, NoTask
  <2> QED
    BY <2>2, <2>3, <2>4, ReadersKeepMaps
<1>7. ASSUME NEW k \in McpTasks, GetClient(k) \/ Proxied(k) PROVE McpInv'
  <2> DEFINE b == mcpTask[k].id
             at == [at |-> "proxy", id |-> b]
  <2>1. /\ mcpTask[k].at \in {"call", "proxy"}
        /\ UNCHANGED <<registry, mcpClients, fresh, crossed>>
    BY <1>7 DEF GetClient, Proxied
  <2>2. CASE Moves(k, NoTask)
    <3>1. NoTask \in Tasks /\ NoTask.at = "none"
        BY DEF Tasks, NoTask
    <3> QED
        BY <2>1, <2>2, <3>1, ReadersKeepMaps
  <2>3. CASE mcpTask[k].at = "call" /\ Moves(k, [mcpTask[k] EXCEPT !.at = "proxy"])
    <3>1. b \in ServerIds /\ WorksOn(k, b) /\ [mcpTask[k] EXCEPT !.at = "proxy"] = at
        BY <1>t, <2>3 DEF Tasks, WorksOn, NoTask
    <3>2. at \in Tasks /\ at.at = "proxy" /\ at.id = b /\ Moves(k, at)
        BY <2>3, <3>1 DEF Tasks
    <3> HIDE DEF at
    <3> QED
        BY <2>1, <3>1, <3>2, ReadersKeepMaps
  <2> QED
    BY <1>7, <2>2, <2>3 DEF GetClient, Proxied
<1>8. CASE UNCHANGED mcpVars
    BY <1>8 DEF mcpVars, McpInv, McpTypeOK, FreshIsNew, FirstIsAlone, DropsAreCrossed,
       ListedIsConnected, HalfDone, Listed, WorksOn, At
<1> QED
    BY <1>1, <1>2, <1>3, <1>4, <1>5, <1>6, <1>7, <1>8, ConnectKeepsMaps, ListServerKeepsMaps,
       DisconnectKeepsMaps DEF McpNext

LEMMA McpStart == McpInit => McpInv
<1>1. NoTask \in Tasks /\ NoTask.at = "none"
    BY DEF Tasks, NoTask
<1> QED
    BY <1>1 DEF McpInit, McpInv, McpTypeOK, FreshIsNew, FirstIsAlone, DropsAreCrossed,
       ListedIsConnected, Listed, WorksOn, At

\* Connections, refreshes, disconnections and calls may cross in any number:
\* a server that is listed without a client, or has one unlisted, is between
\* two writes of one request or was crossed by a disconnection (server.rs).
THEOREM ListedAreConnected == McpSpec => []ListedIsConnected
<1>1. McpInv => ListedIsConnected
    BY DEF McpInv
<1> QED
    BY <1>1, McpStart, McpStep, PTL DEF McpSpec

-----------------------------------------------------------------------------
(* The cache of embeddings.                                                *)

EmbedInv == IsFiniteSet(embedded) /\ EmbedCacheBounded

\* A full cache of ten or more drops at least one embedding before it takes
\* one in.
LEMMA EmbedKeepsBound ==
    ASSUME EmbedInv, EmbedCacheMax >= 10, NEW e \in Evaluators, EmbedCached(e)
    PROVE  EmbedInv'
<1> USE SemanticAssumption DEF SemanticAssumption, EmbedInv, EmbedCacheBounded
<1>1. CASE UNCHANGED embedded
    BY <1>1
<1>2. CASE \E S \in Evictions : embedded' = (embedded \ S) \union {evaluation[e]}
  <2>1. PICK S \in Evictions : embedded' = (embedded \ S) \union {evaluation[e]}
      BY <1>2
  <2>2. Cardinality(embedded) \in Nat
      BY FS_CardinalityType
  <2>3. IsFiniteSet(embedded \ S) /\ Cardinality(embedded \ S) \in Nat
      BY FS_Difference, FS_CardinalityType
  <2>4. Cardinality(embedded \ S) < EmbedCacheMax
    <3>1. CASE Cardinality(embedded) < EmbedCacheMax
      <4>1. embedded \ S = embedded
          BY <3>1 DEF Evictions
      <4> QED
          BY <3>1, <4>1
    <3>2. CASE ~(Cardinality(embedded) < EmbedCacheMax)
      <4>1. S \in SUBSET embedded /\ Cardinality(S) = ToDrop
          BY <3>2 DEF Evictions
      <4>2. ToDrop \in Nat /\ ToDrop >= 1
          BY DEF ToDrop
      <4>3. Cardinality(embedded \ S) = Cardinality(embedded) - Cardinality(embedded \cap S)
          BY FS_Difference
      <4>4. embedded \cap S = S
          BY <4>1
      <4>5. Cardinality(embedded \ S) = Cardinality(embedded) - ToDrop
          BY <4>1, <4>3, <4>4
      <4> QED
          BY <2>2, <4>2, <4>5
    <3> QED
        BY <3>1, <3>2
  <2>5. /\ IsFiniteSet((embedded \ S) \union {evaluation[e]})
        /\ Cardinality((embedded \ S) \union {evaluation[e]}) <= Cardinality(embedded \ S) + 1
      BY <2>3, FS_AddElement
  <2>6. Cardinality((embedded \ S) \union {evaluation[e]}) \in Nat
      BY <2>5, FS_CardinalityType
  <2> QED
      BY <2>1, <2>3, <2>4, <2>5, <2>6
<1> QED
    BY <1>1, <1>2 DEF EmbedCached

\* What is cached stays finite, whatever the size the cache was given.
LEMMA EmbedStaysFinite ==
    ASSUME IsFiniteSet(embedded), NEW e \in Evaluators, EmbedCached(e)
    PROVE  IsFiniteSet(embedded')
<1>1. CASE UNCHANGED embedded
    BY <1>1
<1>2. CASE \E S \in Evictions : embedded' = (embedded \ S) \union {evaluation[e]}
  <2>1. PICK S \in Evictions : embedded' = (embedded \ S) \union {evaluation[e]}
      BY <1>2
  <2> QED
      BY <2>1, FS_Difference, FS_AddElement
<1> QED
    BY <1>1, <1>2 DEF EmbedCached

\* A cache smaller than ten drops no embedding it holds: a tenth of its size is
\* none, and it grows with every prompt (semantic.rs with_cache_size).
THEOREM SmallCachesOnlyGrow ==
    SemanticSpec => [][EmbedCacheMax < 10 => embedded \subseteq embedded']_semanticVars
<1> USE SemanticAssumption DEF SemanticAssumption
<1>1. SemanticInit => IsFiniteSet(embedded)
    BY FS_EmptySet DEF SemanticInit
<1>2. IsFiniteSet(embedded) /\ [SemanticNext]_semanticVars => IsFiniteSet(embedded)'
    BY EmbedStaysFinite DEF SemanticNext, Evaluate, semanticVars
<1>3. IsFiniteSet(embedded) /\ [SemanticNext]_semanticVars
      => [EmbedCacheMax < 10 => embedded \subseteq embedded']_semanticVars
  <2> SUFFICES ASSUME IsFiniteSet(embedded), SemanticNext, EmbedCacheMax < 10
               PROVE  embedded \subseteq embedded'
      OBVIOUS
  <2>1. ASSUME NEW S \in Evictions
        PROVE  embedded \ S = embedded
    <3>1. CASE Cardinality(embedded) < EmbedCacheMax
        BY <3>1 DEF Evictions
    <3>2. CASE ~(Cardinality(embedded) < EmbedCacheMax)
      <4>1. S \in SUBSET embedded /\ Cardinality(S) = 0
          BY <3>2 DEF Evictions, ToDrop
      <4>2. S = {}
          BY <4>1, FS_Subset, FS_EmptySet
      <4> QED
          BY <4>2
    <3> QED
        BY <3>1, <3>2
  <2> QED
      BY <2>1 DEF SemanticNext, Evaluate, EmbedCached
<1> QED
    BY <1>1, <1>2, <1>3, PTL DEF SemanticSpec

\* However many evaluations fill the cache at a time, from a cache_max of ten on
\* it never holds more embeddings than that: the lock under which one looks for
\* room is the lock under which it inserts (semantic.rs embed_cached).
THEOREM EmbeddingsBounded == SemanticSpec => []EmbedCacheBounded
<1>1. SemanticInit => EmbedInv
  <2>1. IsFiniteSet({}) /\ Cardinality({}) = 0
      BY FS_EmptySet
  <2> QED
      BY <2>1, SemanticAssumption DEF SemanticAssumption, SemanticInit, EmbedInv, EmbedCacheBounded
<1>2. EmbedInv /\ [SemanticNext]_semanticVars => EmbedInv'
  <2> SUFFICES ASSUME EmbedInv, [SemanticNext]_semanticVars PROVE EmbedInv'
      OBVIOUS
  <2>1. CASE \E e \in Evaluators : EmbedCached(e)
      BY <2>1, EmbedKeepsBound, EmbedStaysFinite DEF EmbedInv, EmbedCacheBounded
  <2>2. CASE \E e \in Evaluators, text \in EmbedTexts : Evaluate(e, text)
      BY <2>2 DEF Evaluate, EmbedInv, EmbedCacheBounded
  <2>3. CASE UNCHANGED semanticVars
      BY <2>3 DEF semanticVars, EmbedInv, EmbedCacheBounded
  <2> QED
      BY <2>1, <2>2, <2>3 DEF SemanticNext
<1>3. EmbedInv => EmbedCacheBounded
    BY DEF EmbedInv
<1> QED
    BY <1>1, <1>2, <1>3, PTL DEF SemanticSpec

-----------------------------------------------------------------------------
(* The cache of responses.                                                 *)

CacheEntries == [key : {TenantCacheKey(r) : r \in LlmRequests}, from : LlmRequests, expired : BOOLEAN]

ChatStates ==
    {Started}
      \union [at : {"settings", "put", "insert", "log"}, of : LlmRequests]
      \union [at : {"sent"}, of : LlmRequests, on : BOOLEAN]
      \union [at : {"evict"}, of : LlmRequests, oldest : {TenantCacheKey(r) : r \in LlmRequests}]

LlmTypeOK ==
    /\ chat \in [Handlers -> ChatStates]
    /\ llmCache \in Seq(CacheEntries)
    /\ answers \in Nat /\ overlaps \in Nat

InCache(k) == \E i \in 1..Len(llmCache) : llmCache[i].key = k

\* An entry is where its own request looks for it.
EntriesAtHome ==
    \A i \in 1..Len(llmCache) : llmCache[i].key = TenantCacheKey(llmCache[i].from)

\* There is room for one more than the bound already allows for.
Room == Len(llmCache) < MaxEntries + overlaps

\* Who is about to insert has room, or what it is about to remove makes room:
\* who took that away made the room.
RoomToInsert ==
    \A h \in Handlers :
        /\ chat[h].at = "insert" => Room
        /\ chat[h].at = "evict" => Room \/ InCache(chat[h].oldest)

LlmInv == LlmTypeOK /\ EntriesAtHome /\ HitsStayHome /\ RoomToInsert /\ CacheBounded

LEMMA ChatStatesTyped ==
    ASSUME NEW s \in ChatStates, s.at # "start"
    PROVE  /\ s.of \in LlmRequests
           /\ s.at = "evict" => s.oldest \in {TenantCacheKey(r) : r \in LlmRequests}
           /\ s.at = "put" => [s EXCEPT !.at = "insert"] = [at |-> "insert", of |-> s.of]
           /\ s.at = "insert" => [s EXCEPT !.at = "log"] = [at |-> "log", of |-> s.of]
<1>1. Started.at = "start"
    BY DEF Started
<1> QED
    BY <1>1 DEF ChatStates

\* Of a cache, w holds all but one entry under k, and all if there is none.
Drops(w, cache, k) ==
    /\ Len(w) <= Len(cache)
    /\ (\E i \in 1..Len(cache) : cache[i].key = k) => Len(w) = Len(cache) - 1
    /\ \A j \in 1..Len(w) : \E i \in 1..Len(cache) : w[j] = cache[i]
    /\ \A i \in 1..Len(cache) : cache[i].key # k => \E j \in 1..Len(w) : w[j] = cache[i]

\* What is left of the cache without a key.
LEMMA WithoutKey ==
    ASSUME NEW S, NEW cache \in Seq(S), NEW k
    PROVE  Without(cache, k) \in Seq(S) /\ Drops(Without(cache, k), cache, k)
<1>1. /\ DOMAIN cache = 1..Len(cache) /\ Len(cache) \in Nat
      /\ \A i \in 1..Len(cache) : cache[i] \in S
    BY ElementOfSeq, LenProperties
<1>2. CASE ~ \E i \in 1..Len(cache) : cache[i].key = k
  <2>1. Without(cache, k) = cache
      BY <1>1, <1>2 DEF Without
  <2>2. \A j \in 1..Len(cache) : \E i \in 1..Len(cache) : cache[j] = cache[i]
      OBVIOUS
  <2>3. Len(cache) <= Len(cache)
      BY <1>1
  <2> QED
      BY <1>2, <2>1, <2>2, <2>3, Zenon DEF Drops
<1>3. CASE \E i \in 1..Len(cache) : cache[i].key = k
  <2>1. PICK n : n = CHOOSE i \in DOMAIN cache : cache[i].key = k
      OBVIOUS
  <2>2. n \in 1..Len(cache) /\ cache[n].key = k
      BY <1>1, <1>3, <2>1
  <2>3. Without(cache, k) = SubSeq(cache, 1, n-1) \o SubSeq(cache, n+1, Len(cache))
      BY <1>1, <1>3, <2>1 DEF Without, RemoveAt
  <2>4. PICK a : a = SubSeq(cache, 1, n-1)
      OBVIOUS
  <2>5. PICK b : b = SubSeq(cache, n+1, Len(cache))
      OBVIOUS
  <2>6. a \in Seq(S) /\ Len(a) = n-1 /\ \A j \in 1..(n-1) : a[j] = cache[j]
      BY <1>1, <2>2, <2>4, SubSeqProperties
  <2>7. b \in Seq(S) /\ Len(b) = Len(cache) - n /\ \A j \in 1..(Len(cache)-n) : b[j] = cache[n+j]
    <3>1. n + 1 \in Int /\ \A i \in (n+1)..Len(cache) : cache[i] \in S
        BY <1>1, <2>2
    <3>2. /\ b \in Seq(S)
          /\ Len(b) = IF n+1 <= Len(cache) THEN Len(cache)-(n+1)+1 ELSE 0
          /\ \A j \in 1..(Len(cache)-(n+1)+1) : b[j] = cache[(n+1)+j-1]
        BY <1>1, <2>5, <3>1, SubSeqProperties
    <3>3. Len(b) = Len(cache) - n /\ Len(cache)-(n+1)+1 = Len(cache)-n
      <4>1. n \in Nat /\ Len(cache) \in Nat /\ n <= Len(cache)
          BY <1>1, <2>2
      <4>2. Len(b) = IF n+1 <= Len(cache) THEN Len(cache)-(n+1)+1 ELSE 0
          BY <3>2
      <4> QED
          BY <4>1, <4>2
    <3>4. \A j \in 1..(Len(cache)-n) : (n+1)+j-1 = n+j
        BY <1>1, <2>2
    <3> QED
        BY <3>2, <3>3, <3>4
  <2>8. PICK w : w = a \o b
      OBVIOUS
  <2>9. /\ w \in Seq(S) /\ Len(w) = Len(cache) - 1
        /\ \A j \in 1..Len(w) : w[j] = IF j <= n-1 THEN cache[j] ELSE cache[j+1]
    <3>1. w \in Seq(S) /\ Len(w) = Len(a) + Len(b)
        BY <2>6, <2>7, <2>8, ConcatProperties
    <3>2. Len(w) = Len(cache) - 1
        BY <1>1, <2>2, <2>6, <2>7, <3>1
    <3>3. \A j \in 1..Len(w) : w[j] = IF j <= Len(a) THEN a[j] ELSE b[j - Len(a)]
      <4>1. \A j \in 1 .. Len(a) + Len(b) :
                (a \o b)[j] = IF j <= Len(a) THEN a[j] ELSE b[j - Len(a)]
          BY <2>6, <2>7, ConcatProperties
      <4> QED
          BY <2>8, <3>1, <4>1
    <3>4. ASSUME NEW j \in 1..Len(w)
          PROVE  w[j] = IF j <= n-1 THEN cache[j] ELSE cache[j+1]
      <4>1. CASE j <= n-1
          BY <1>1, <2>2, <2>6, <3>2, <3>3, <4>1
      <4>2. CASE ~(j <= n-1)
        <5>1. PICK d : d = j - (n-1)
            OBVIOUS
        <5>2. d \in 1..(Len(cache)-n) /\ n + d = j + 1
            BY <1>1, <2>2, <3>2, <4>2, <5>1
        <5>3. w[j] = b[d]
            BY <1>1, <2>2, <2>6, <3>2, <3>3, <4>2, <5>1
        <5> QED
            BY <2>7, <4>2, <5>2, <5>3
      <4> QED
          BY <4>1, <4>2
    <3> QED
        BY <3>1, <3>2, <3>4
  <2>10. ASSUME NEW j \in 1..Len(w) PROVE \E i \in 1..Len(cache) : w[j] = cache[i]
    <3>1. j \in 1..Len(cache) /\ j+1 \in 1..Len(cache)
        BY <1>1, <2>9
    <3> QED
        BY <2>9, <3>1
  <2>11. ASSUME NEW i \in 1..Len(cache), cache[i].key # k
         PROVE  \E j \in 1..Len(w) : w[j] = cache[i]
    <3>1. CASE i < n
      <4>1. i \in 1..Len(w) /\ i <= n-1
          BY <1>1, <2>2, <2>9, <3>1
      <4> QED
          BY <2>9, <4>1
    <3>2. CASE i > n
      <4>1. PICK j : j = i - 1
          OBVIOUS
      <4>2. j \in 1..Len(w) /\ ~(j <= n-1) /\ j + 1 = i
          BY <1>1, <2>2, <2>9, <3>2, <4>1
      <4> QED
          BY <2>9, <4>2
    <3> QED
        BY <1>1, <2>2, <2>11, <3>1, <3>2
  <2>12. Without(cache, k) = w
      BY <2>3, <2>4, <2>5, <2>8
  <2>13. /\ Len(w) <= Len(cache) /\ Len(w) = Len(cache) - 1
      BY <1>1, <2>9
  <2> QED
      BY <2>9, <2>10, <2>11, <2>12, <2>13, Zenon DEF Drops
<1> QED
    BY <1>2, <1>3

\* The cache after an entry of its own request is put at its end.
LEMMA WithEntry ==
    ASSUME LlmInv, NEW cache \in Seq(CacheEntries), NEW r \in LlmRequests,
           \A i \in 1..Len(cache) : cache[i].key = TenantCacheKey(cache[i].from),
           NEW e, e = [key |-> TenantCacheKey(r), from |-> r, expired |-> FALSE]
    PROVE  /\ Append(cache, e) \in Seq(CacheEntries)
           /\ Len(Append(cache, e)) = Len(cache) + 1
           /\ \A i \in 1..Len(Append(cache, e)) :
                 Append(cache, e)[i].key = TenantCacheKey(Append(cache, e)[i].from)
           /\ \A i \in 1..Len(cache) : Append(cache, e)[i] = cache[i]
           /\ Append(cache, e)[Len(cache) + 1] = e
<1>1. e \in CacheEntries /\ e.key = TenantCacheKey(e.from)
    BY DEF CacheEntries
<1>2. PICK w : w = Append(cache, e)
    OBVIOUS
<1>3. /\ w \in Seq(CacheEntries) /\ Len(w) = Len(cache) + 1 /\ Len(cache) \in Nat
      /\ \A i \in 1..Len(cache) : w[i] = cache[i]
      /\ w[Len(cache) + 1] = e
    BY <1>1, <1>2, AppendProperties, LenProperties
<1>4. ASSUME NEW i \in 1..Len(w) PROVE w[i].key = TenantCacheKey(w[i].from)
  <2>1. CASE i \in 1..Len(cache)
      BY <1>3, <2>1
  <2>2. CASE i = Len(cache) + 1
      BY <1>1, <1>3, <2>2
  <2> QED
      BY <1>3, <2>1, <2>2
<1> QED
    BY <1>2, <1>3, <1>4

\* A step of a handler that leaves the cache alone.
LEMMA HandlerKeepsCache ==
    ASSUME LlmInv, NEW h \in Handlers, NEW at \in ChatStates, Chat(h, at),
           UNCHANGED <<llmCache, overlaps>>, answers' \in Nat, HitsStayHome',
           at.at = "insert" => Room,
           at.at = "evict" => Room \/ InCache(at.oldest)
    PROVE  LlmInv'
<1>1. /\ chat' \in [Handlers -> ChatStates] /\ chat'[h] = at
      /\ \A o \in Handlers \ {h} : chat'[o] = chat[o]
    BY DEF Chat, LlmInv, LlmTypeOK
<1>2. LlmTypeOK' /\ EntriesAtHome' /\ CacheBounded'
    BY <1>1 DEF LlmInv, LlmTypeOK, EntriesAtHome, CacheBounded
<1>3. Room' <=> Room
    BY DEF Room
<1>4. \A k : InCache(k)' <=> InCache(k)
    BY DEF InCache
<1>5. RoomToInsert'
    BY <1>1, <1>3, <1>4 DEF LlmInv, RoomToInsert
<1> QED
    BY <1>2, <1>5 DEF LlmInv

\* A step that takes a key out of the cache.
LEMMA RemovalMakesRoom ==
    ASSUME LlmInv, NEW k, llmCache' = Without(llmCache, k), UNCHANGED overlaps
    PROVE  /\ llmCache' \in Seq(CacheEntries) /\ EntriesAtHome' /\ CacheBounded'
           /\ Room => Room'
           /\ InCache(k) => Room'
           /\ \A l : InCache(l) => InCache(l)' \/ Room'
<1>1. llmCache \in Seq(CacheEntries) /\ Len(llmCache) \in Nat /\ overlaps \in Nat /\ MaxEntries \in Nat
    BY LenProperties, CompletionsAssumption DEF CompletionsAssumption, LlmInv, LlmTypeOK
<1>2. /\ llmCache' \in Seq(CacheEntries)
      /\ Len(llmCache') <= Len(llmCache)
      /\ InCache(k) => Len(llmCache') = Len(llmCache) - 1
      /\ \A j \in 1..Len(llmCache') : \E i \in 1..Len(llmCache) : llmCache'[j] = llmCache[i]
      /\ \A i \in 1..Len(llmCache) : llmCache[i].key # k
                => \E j \in 1..Len(llmCache') : llmCache'[j] = llmCache[i]
  <2>1. llmCache' \in Seq(CacheEntries) /\ Drops(llmCache', llmCache, k)
      BY <1>1, WithoutKey
  <2> QED
      BY <2>1 DEF Drops, InCache
<1>3. Len(llmCache') \in Nat
    BY <1>2, LenProperties
<1>4. EntriesAtHome'
    BY <1>2 DEF LlmInv, EntriesAtHome
<1>5. CacheBounded' /\ (Room => Room')
    BY <1>1, <1>2, <1>3 DEF LlmInv, CacheBounded, Room
<1>6. InCache(k) => Room'
    BY <1>1, <1>2, <1>3 DEF LlmInv, CacheBounded, Room
<1>7. ASSUME NEW l, InCache(l) PROVE InCache(l)' \/ Room'
  <2>1. CASE l = k
      BY <1>6, <1>7, <2>1
  <2>2. CASE l # k
      BY <1>2, <1>7, <2>2 DEF InCache
  <2> QED
      BY <2>1, <2>2
<1> QED
    BY <1>2, <1>4, <1>5, <1>6, <1>7

LEMMA AskKeeps ==
    ASSUME LlmInv, NEW h \in Handlers, Ask(h)
    PROVE  LlmInv'
<1>1. PICK r \in LlmRequests : Chat(h, [at |-> "settings", of |-> r])
    BY DEF Ask
<1>2. PICK at : at = [at |-> "settings", of |-> r]
    OBVIOUS
<1>3. at \in ChatStates /\ at.at = "settings"
    BY <1>2 DEF ChatStates
<1>4. UNCHANGED <<llmCache, overlaps>> /\ answers' \in Nat /\ HitsStayHome'
    BY DEF Ask, LlmInv, LlmTypeOK, HitsStayHome
<1>5. Chat(h, at)
    BY <1>1, <1>2
<1> QED
    BY <1>3, <1>4, <1>5, HandlerKeepsCache

\* A hit is an entry under the key of the request.
LEMMA LookupKeeps ==
    ASSUME LlmInv, NEW h \in Handlers, Lookup(h)
    PROVE  LlmInv'
<1>1. PICK r : r = chat[h].of
    OBVIOUS
<1>2. chat[h] \in ChatStates /\ chat[h].at = "settings"
    BY DEF LlmInv, LlmTypeOK, Lookup
<1>3. r \in LlmRequests
    BY <1>1, <1>2, ChatStatesTyped
<1>4. PICK on \in BOOLEAN, found \in SUBSET Entry(TenantCacheKey(r)) :
        \/ /\ \E e \in found : ~e.expired /\ hit' = [of |-> r, got |-> e.from]
           /\ Chat(h, Started)
           /\ UNCHANGED llmCache
        \/ /\ llmCache' = llmCache \/ llmCache' = Without(llmCache, TenantCacheKey(r))
           /\ \/ \E kind \in Kinds :
                    /\ Adapts(kind, r)
                    /\ Chat(h, [at |-> "sent", of |-> r, on |-> on])
              \/ Chat(h, Started)
           /\ UNCHANGED hit
    BY <1>1 DEF Lookup
<1>5. UNCHANGED <<answers, overlaps>> /\ answers \in Nat
    BY DEF Lookup, LlmInv, LlmTypeOK
<1>6. Started \in ChatStates /\ Started.at = "start"
    BY DEF ChatStates, Started
<1>7. ASSUME NEW e \in found, hit' = [of |-> r, got |-> e.from], Chat(h, Started), UNCHANGED llmCache
      PROVE  LlmInv'
  <2>1. PICK i \in 1..Len(llmCache) : e = llmCache[i] /\ e.key = TenantCacheKey(r)
      BY LenProperties DEF Entry, Range, LlmInv, LlmTypeOK
  <2>2. TenantCacheKey(e.from) = TenantCacheKey(r)
      BY <2>1 DEF LlmInv, EntriesAtHome
  <2>3. e.from.tenant = r.tenant /\ CacheKey(e.from) = CacheKey(r)
      BY <2>2 DEF TenantCacheKey
  <2>4. HitsStayHome'
      BY <1>7, <2>3 DEF HitsStayHome
  <2> QED
      BY <1>5, <1>6, <1>7, <2>4, HandlerKeepsCache
<1>8. ASSUME NEW at \in ChatStates, at.at \in {"start", "sent"}, Chat(h, at), UNCHANGED hit,
             llmCache' = llmCache \/ llmCache' = Without(llmCache, TenantCacheKey(r))
      PROVE  LlmInv'
  <2>1. HitsStayHome'
      BY <1>8 DEF LlmInv, HitsStayHome
  <2>2. CASE llmCache' = llmCache
      BY <1>5, <1>8, <2>1, <2>2, HandlerKeepsCache
  <2>3. CASE llmCache' = Without(llmCache, TenantCacheKey(r))
    <3>1. /\ llmCache' \in Seq(CacheEntries) /\ EntriesAtHome' /\ CacheBounded'
          /\ Room => Room'
          /\ \A l : InCache(l) => InCache(l)' \/ Room'
        BY <1>5, <2>3, RemovalMakesRoom
    <3>2. /\ chat' \in [Handlers -> ChatStates] /\ chat'[h] = at
          /\ \A o \in Handlers \ {h} : chat'[o] = chat[o]
        BY <1>8 DEF Chat, LlmInv, LlmTypeOK
    <3>3. LlmTypeOK'
        BY <1>5, <3>1, <3>2 DEF LlmInv, LlmTypeOK
    <3>4. RoomToInsert'
        BY <1>8, <3>1, <3>2 DEF LlmInv, RoomToInsert
    <3> QED
        BY <2>1, <3>1, <3>3, <3>4 DEF LlmInv
  <2> QED
      BY <1>8, <2>2, <2>3
<1>9. PICK sent : sent = [at |-> "sent", of |-> r, on |-> on]
    OBVIOUS
<1>10. sent \in ChatStates /\ sent.at = "sent"
    BY <1>3, <1>9 DEF ChatStates
<1> QED
    BY <1>4, <1>6, <1>7, <1>8, <1>9, <1>10

LEMMA ProviderKeeps ==
    ASSUME LlmInv, NEW h \in Handlers, ProviderAnswers(h)
    PROVE  LlmInv'
<1>1. PICK r : r = chat[h].of
    OBVIOUS
<1>2. chat[h] \in ChatStates /\ chat[h].at = "sent"
    BY DEF LlmInv, LlmTypeOK, ProviderAnswers
<1>3. r \in LlmRequests
    BY <1>1, <1>2, ChatStatesTyped
<1>4. PICK at : at \in {Started, [at |-> "put", of |-> r], [at |-> "log", of |-> r]} /\ Chat(h, at)
    BY <1>1, Zenon DEF ProviderAnswers
<1>5. at \in ChatStates /\ at.at \in {"start", "put", "log"}
    BY <1>3, <1>4 DEF ChatStates, Started
<1>6. UNCHANGED <<llmCache, overlaps>> /\ answers' \in Nat /\ HitsStayHome'
    BY DEF ProviderAnswers, LlmInv, LlmTypeOK, HitsStayHome
<1> QED
    BY <1>4, <1>5, <1>6, HandlerKeepsCache

\* A full cache has an oldest entry, and one that is not full has room.
LEMMA PutTestKeeps ==
    ASSUME LlmInv, NEW h \in Handlers, PutTest(h)
    PROVE  LlmInv'
<1>1. PICK r : r = chat[h].of
    OBVIOUS
<1>2. chat[h] \in ChatStates /\ chat[h].at = "put"
    BY DEF LlmInv, LlmTypeOK, PutTest
<1>3. r \in LlmRequests /\ [chat[h] EXCEPT !.at = "insert"] = [at |-> "insert", of |-> r]
    BY <1>1, <1>2, ChatStatesTyped
<1>4. /\ UNCHANGED <<llmCache, overlaps>> /\ answers' \in Nat /\ HitsStayHome'
      /\ llmCache \in Seq(CacheEntries) /\ Len(llmCache) \in Nat
      /\ overlaps \in Nat /\ MaxEntries \in Nat \ {0}
    BY LenProperties, CompletionsAssumption
    DEF CompletionsAssumption, PutTest, LlmInv, LlmTypeOK, HitsStayHome
<1>5. CASE Full(llmCache) /\ llmCache # <<>>
  <2>1. PICK k : k = Head(llmCache).key
      OBVIOUS
  <2>2. PICK at : at = [at |-> "evict", of |-> r, oldest |-> k]
      OBVIOUS
  <2>3. Chat(h, at)
      BY <1>1, <1>5, <2>1, <2>2 DEF PutTest
  <2>4. 1 \in 1..Len(llmCache) /\ Head(llmCache) = llmCache[1]
      BY <1>4, <1>5, EmptySeq
  <2>5. k = llmCache[1].key /\ llmCache[1] \in CacheEntries
      BY <1>4, <2>1, <2>4, ElementOfSeq
  <2>6. k \in {TenantCacheKey(q) : q \in LlmRequests}
      BY <2>5 DEF CacheEntries
  <2>7. at \in ChatStates /\ at.at = "evict" /\ at.oldest = k
      BY <1>3, <2>2, <2>6 DEF ChatStates
  <2>8. InCache(at.oldest)
      BY <2>4, <2>5, <2>7 DEF InCache
  <2> QED
      BY <1>4, <2>3, <2>7, <2>8, HandlerKeepsCache
<1>6. CASE ~(Full(llmCache) /\ llmCache # <<>>)
  <2>1. PICK at : at = [at |-> "insert", of |-> r]
      OBVIOUS
  <2>2. Chat(h, at)
      BY <1>3, <1>6, <2>1 DEF PutTest
  <2>3. at \in ChatStates /\ at.at = "insert"
      BY <1>3, <2>1 DEF ChatStates
  <2>4. Len(llmCache) < MaxEntries
      BY <1>4, <1>6 DEF Full
  <2>5. Room
      BY <1>4, <2>4 DEF Room
  <2> QED
      BY <1>4, <2>2, <2>3, <2>5, HandlerKeepsCache
<1> QED
    BY <1>5, <1>6

LEMMA EvictKeeps ==
    ASSUME LlmInv, NEW h \in Handlers, EvictOldest(h)
    PROVE  LlmInv'
<1>1. PICK k : k = chat[h].oldest
    OBVIOUS
<1>2. PICK at : at = [at |-> "insert", of |-> chat[h].of]
    OBVIOUS
<1>3. chat[h] \in ChatStates /\ chat[h].at = "evict"
    BY DEF LlmInv, LlmTypeOK, EvictOldest
<1>4. at \in ChatStates /\ at.at = "insert"
  <2>1. chat[h].of \in LlmRequests
      BY <1>3, ChatStatesTyped
  <2> QED
      BY <1>2, <2>1 DEF ChatStates
<1>5. /\ llmCache' = Without(llmCache, k) /\ Chat(h, at)
      /\ UNCHANGED <<answers, overlaps, hit>>
    BY <1>1, <1>2 DEF EvictOldest
<1>6. /\ llmCache' \in Seq(CacheEntries) /\ EntriesAtHome' /\ CacheBounded'
      /\ Room => Room'
      /\ InCache(k) => Room'
      /\ \A l : InCache(l) => InCache(l)' \/ Room'
    BY <1>5, RemovalMakesRoom
<1>7. /\ chat' \in [Handlers -> ChatStates] /\ chat'[h] = at
      /\ \A o \in Handlers \ {h} : chat'[o] = chat[o]
    BY <1>4, <1>5 DEF Chat, LlmInv, LlmTypeOK
<1>8. Room'
    BY <1>1, <1>3, <1>6 DEF LlmInv, RoomToInsert
<1>9. RoomToInsert'
    BY <1>8 DEF RoomToInsert
<1>10. LlmTypeOK' /\ HitsStayHome'
    BY <1>5, <1>6, <1>7 DEF LlmInv, LlmTypeOK, HitsStayHome
<1> QED
    BY <1>6, <1>9, <1>10 DEF LlmInv

\* Who inserts while nobody else is about to uses the room it has; otherwise
\* the bound moves on by the entry that may come on top.
LEMMA InsertKeeps ==
    ASSUME LlmInv, NEW h \in Handlers, Insert(h)
    PROVE  LlmInv'
<1>1. PICK r : r = chat[h].of
    OBVIOUS
<1>2. chat[h] \in ChatStates /\ chat[h].at = "insert"
    BY DEF LlmInv, LlmTypeOK, Insert
<1>3. r \in LlmRequests /\ [chat[h] EXCEPT !.at = "log"] = [at |-> "log", of |-> r]
    BY <1>1, <1>2, ChatStatesTyped
<1>4. PICK at : at = [at |-> "log", of |-> r]
    OBVIOUS
<1>5. at \in ChatStates /\ at.at = "log"
    BY <1>3, <1>4 DEF ChatStates
<1>6. PICK k : k = TenantCacheKey(r)
    OBVIOUS
<1>7. PICK rest : rest = Without(llmCache, k)
    OBVIOUS
<1>8. PICK e : e = [key |-> TenantCacheKey(r), from |-> r, expired |-> FALSE]
    OBVIOUS
<1>9. /\ llmCache' = Append(rest, e) /\ Chat(h, at) /\ UNCHANGED <<answers, hit>>
      /\ overlaps' = overlaps
           + (IF \E o \in Handlers \ {h} : chat[o].at \in {"evict", "insert"} THEN 1 ELSE 0)
    BY <1>1, <1>3, <1>4, <1>6, <1>7, <1>8 DEF Insert
<1>10. llmCache \in Seq(CacheEntries) /\ Len(llmCache) \in Nat
       /\ overlaps \in Nat /\ MaxEntries \in Nat
    BY LenProperties, CompletionsAssumption DEF CompletionsAssumption, LlmInv, LlmTypeOK
<1>11. rest \in Seq(CacheEntries) /\ Drops(rest, llmCache, k) /\ Len(rest) \in Nat
    BY <1>7, <1>10, WithoutKey, LenProperties
<1>12. \A i \in 1..Len(rest) : rest[i].key = TenantCacheKey(rest[i].from)
    BY <1>11 DEF Drops, LlmInv, EntriesAtHome
<1>13. /\ llmCache' \in Seq(CacheEntries)
       /\ Len(llmCache') = Len(rest) + 1
       /\ \A i \in 1..Len(llmCache') : llmCache'[i].key = TenantCacheKey(llmCache'[i].from)
       /\ \A i \in 1..Len(rest) : llmCache'[i] = rest[i]
       /\ llmCache'[Len(rest) + 1] = e
    BY <1>3, <1>8, <1>9, <1>11, <1>12, WithEntry
<1>14. EntriesAtHome'
    BY <1>13 DEF EntriesAtHome
<1>15. Len(llmCache') <= Len(llmCache) + 1
    BY <1>10, <1>11, <1>13 DEF Drops
<1>16. \A l : InCache(l) => InCache(l)'
  <2> SUFFICES ASSUME NEW l, InCache(l) PROVE InCache(l)'
      OBVIOUS
  <2>1. CASE l = k
    <3>1. Len(rest) + 1 \in 1..Len(llmCache') /\ llmCache'[Len(rest) + 1].key = k
        BY <1>6, <1>8, <1>11, <1>13
    <3> QED
        BY <2>1, <3>1 DEF InCache
  <2>2. CASE l # k
    <3>1. PICK i \in 1..Len(llmCache) : llmCache[i].key = l
        BY DEF InCache
    <3>2. PICK j \in 1..Len(rest) : rest[j] = llmCache[i]
        BY <1>11, <2>2, <3>1 DEF Drops
    <3>3. j \in 1..Len(llmCache') /\ llmCache'[j].key = l
        BY <1>11, <1>13, <3>1, <3>2
    <3> QED
        BY <3>3 DEF InCache
  <2> QED
      BY <2>1, <2>2
<1>17. /\ chat' \in [Handlers -> ChatStates] /\ chat'[h] = at
       /\ \A o \in Handlers \ {h} : chat'[o] = chat[o]
    BY <1>5, <1>9 DEF Chat, LlmInv, LlmTypeOK
<1>18. Len(llmCache') \in Nat /\ overlaps' \in Nat
    BY <1>9, <1>10, <1>11, <1>13
<1>19. LlmTypeOK' /\ HitsStayHome'
    BY <1>9, <1>13, <1>17, <1>18 DEF LlmInv, LlmTypeOK, HitsStayHome
<1>20. Room
    BY <1>2 DEF LlmInv, RoomToInsert
<1>21. CacheBounded'
    BY <1>9, <1>10, <1>15, <1>18, <1>20 DEF Room, CacheBounded
<1>22. RoomToInsert'
  <2>1. CASE \E o \in Handlers \ {h} : chat[o].at \in {"evict", "insert"}
    <3>1. Room => Room'
        BY <1>9, <1>10, <1>15, <1>18, <2>1 DEF Room
    <3> QED
        BY <1>5, <1>16, <1>17, <3>1 DEF LlmInv, RoomToInsert
  <2>2. CASE ~ \E o \in Handlers \ {h} : chat[o].at \in {"evict", "insert"}
      BY <1>5, <1>17, <2>2 DEF RoomToInsert
  <2> QED
      BY <2>1, <2>2
<1> QED
    BY <1>14, <1>19, <1>21, <1>22 DEF LlmInv

LEMMA FinishKeeps ==
    ASSUME LlmInv, NEW h \in Handlers, FinishChat(h)
    PROVE  LlmInv'
<1>1. Started \in ChatStates /\ Started.at = "start"
    BY DEF ChatStates, Started
<1>2. /\ UNCHANGED <<llmCache, overlaps>> /\ answers' \in Nat /\ HitsStayHome'
      /\ Chat(h, Started)
    BY DEF FinishChat, LlmInv, LlmTypeOK, HitsStayHome
<1> QED
    BY <1>1, <1>2, HandlerKeepsCache

LEMMA ExpiryKeeps ==
    ASSUME LlmInv, ExpireEntry
    PROVE  LlmInv'
<1>1. PICK n \in 1..Len(llmCache) :
          llmCache' = [i \in 1..Len(llmCache) |->
                         IF i <= n THEN [llmCache[i] EXCEPT !.expired = TRUE] ELSE llmCache[i]]
    BY DEF ExpireEntry
<1>2. UNCHANGED <<chat, answers, overlaps, hit>>
    BY DEF ExpireEntry
<1>3. llmCache \in Seq(CacheEntries) /\ Len(llmCache) \in Nat
    BY LenProperties DEF LlmInv, LlmTypeOK
<1>4. ASSUME NEW i \in 1..Len(llmCache)
      PROVE  /\ llmCache'[i] \in CacheEntries
             /\ llmCache'[i].key = llmCache[i].key /\ llmCache'[i].from = llmCache[i].from
  <2>1. llmCache[i] \in CacheEntries
      BY <1>3, ElementOfSeq
  <2>2. llmCache'[i] \in {llmCache[i], [llmCache[i] EXCEPT !.expired = TRUE]}
      BY <1>1
  <2> QED
      BY <2>1, <2>2 DEF CacheEntries
<1>5. llmCache' \in Seq(CacheEntries) /\ Len(llmCache') = Len(llmCache)
  <2>1. DOMAIN llmCache' = 1..Len(llmCache)
      BY <1>1
  <2>2. llmCache' \in [1..Len(llmCache) -> CacheEntries]
      BY <1>1, <1>4
  <2> QED
      BY <1>3, <2>1, <2>2, IsASeq, LenProperties
<1>6. EntriesAtHome' /\ (\A k : InCache(k) => InCache(k)')
    BY <1>4, <1>5 DEF LlmInv, EntriesAtHome, InCache
<1>7. CacheBounded' /\ (Room => Room')
    BY <1>2, <1>5 DEF LlmInv, CacheBounded, Room
<1>8. RoomToInsert'
    BY <1>2, <1>6, <1>7 DEF LlmInv, RoomToInsert
<1> QED
    BY <1>2, <1>5, <1>6, <1>7, <1>8 DEF LlmInv, LlmTypeOK, HitsStayHome

LEMMA LlmStep == LlmInv /\ [LlmNext]_llmVars => LlmInv'
<1> SUFFICES ASSUME LlmInv, [LlmNext]_llmVars PROVE LlmInv'
    OBVIOUS
<1>1. ASSUME NEW h \in Handlers,
             \/ Ask(h) \/ Lookup(h) \/ ProviderAnswers(h)
             \/ PutTest(h) \/ EvictOldest(h) \/ Insert(h) \/ FinishChat(h)
      PROVE  LlmInv'
    BY <1>1, AskKeeps, LookupKeeps, ProviderKeeps, PutTestKeeps, EvictKeeps, InsertKeeps, FinishKeeps
<1>2. CASE ExpireEntry
    BY <1>2, ExpiryKeeps
<1>3. CASE UNCHANGED llmVars
    BY <1>3
    DEF llmVars, LlmInv, LlmTypeOK, EntriesAtHome, HitsStayHome, RoomToInsert, Room, InCache, CacheBounded
<1> QED
    BY <1>1, <1>2, <1>3 DEF LlmNext

LEMMA LlmStarts == LlmInit => LlmInv
<1> SUFFICES ASSUME LlmInit PROVE LlmInv
    OBVIOUS
<1> USE DEF LlmInit
<1>1. Len(llmCache) = 0 /\ llmCache \in Seq(CacheEntries)
    BY EmptySeq
<1>2. Started \in ChatStates /\ Started.at = "start" /\ \A h \in Handlers : chat[h] = Started
    BY DEF ChatStates, Started
<1>3. chat \in [Handlers -> ChatStates]
    BY <1>2
<1>4. MaxEntries \in Nat
    BY CompletionsAssumption DEF CompletionsAssumption
<1>5. RoomToInsert
    BY <1>2 DEF RoomToInsert
<1> QED
    BY <1>1, <1>3, <1>4, <1>5 DEF LlmInv, LlmTypeOK, EntriesAtHome, HitsStayHome, CacheBounded

\* For any requests, handlers and size of the cache, what a request gets from
\* the cache is an answer to a request of the same tenant and fingerprint:
\* every entry is under the key of its own request, and the key holds both
\* (privacy.rs tenant_cache_key, cache.rs get, put).
THEOREM HitsAreHome == LlmSpec => []HitsStayHome
<1>1. LlmInv => HitsStayHome
    BY DEF LlmInv
<1> QED
    BY <1>1, LlmStarts, LlmStep, PTL DEF LlmSpec

\* For any number of handlers, the cache is larger than max_entries by no more
\* than the entries inserted while another put was under way (cache.rs put,
\* evict_oldest).
THEOREM CacheStaysBounded == LlmSpec => []CacheBounded
<1>1. LlmInv => CacheBounded
    BY DEF LlmInv
<1> QED
    BY <1>1, LlmStarts, LlmStep, PTL DEF LlmSpec

-----------------------------------------------------------------------------
(* The versions of a prompt and the labels.                                *)

EditorStates ==
    {NotEditing}
      \union [at : {"insert"}, version : Versions, content : Versions]
      \union [at : {"deploy"}, label : Labels, version : Versions, content : AnyContent,
              deleted : BOOLEAN]
      \union [at : {"resolve"}, version : AnyContent, content : AnyContent, deleted : BOOLEAN]

PromptsTypeOK ==
    /\ version \in [Versions -> AnyContent]
    /\ deployment \in [Labels -> AnyContent]
    /\ editor \in [Editors -> EditorStates]
    /\ contents \in AnyContent
    /\ meant \in [Labels -> AnyContent]
    /\ answer.content \in answer.allowed

\* A version number is never greater than the contents created so far.
NumbersFit ==
    /\ \A v \in There : v <= contents
    /\ \A e \in Editors : editor[e].at = "insert" => editor[e].version <= contents

\* A version is there with a content.
HasContent(v, c) == c # 0 /\ version[v] = c

LabelsStand ==
    \A l \in Labels \ withdrawn : deployment[l] # 0 => HasContent(deployment[l], meant[l])

\* What a handler has read of a version holds until the version is deleted.
ReadersStand ==
    \A e \in Editors :
        editor[e].at \in {"deploy", "resolve"} /\ ~editor[e].deleted /\ editor[e].version # 0
        => HasContent(editor[e].version, editor[e].content)

PromptsInv == PromptsTypeOK /\ NumbersFit /\ LabelsStand /\ ReadersStand

LEMMA EditorStatesTyped ==
    ASSUME NEW s \in EditorStates
    PROVE  /\ s.at = "insert" => s.version \in Versions /\ s.content \in Versions
           /\ s.at = "deploy" => /\ s.label \in Labels /\ s.version \in Versions
                                 /\ s.content \in AnyContent /\ s.deleted \in BOOLEAN
           /\ s.at = "resolve" => /\ s.version \in AnyContent /\ s.content \in AnyContent
                                  /\ s.deleted \in BOOLEAN
           /\ s.at \in {"deploy", "resolve"}
                => /\ [s EXCEPT !.deleted = TRUE] \in EditorStates
                   /\ [s EXCEPT !.deleted = TRUE].at = s.at
                   /\ [s EXCEPT !.deleted = TRUE].version = s.version
                   /\ [s EXCEPT !.deleted = TRUE].deleted
<1>1. NotEditing.at = "idle"
    BY DEF NotEditing
<1>2. CASE s.at \in {"insert", "idle"}
    BY <1>1, <1>2 DEF EditorStates
<1>3. CASE s \in [at : {"deploy"}, label : Labels, version : Versions, content : AnyContent,
                  deleted : BOOLEAN]
    BY <1>3 DEF EditorStates
<1>4. CASE s \in [at : {"resolve"}, version : AnyContent, content : AnyContent, deleted : BOOLEAN]
    BY <1>4 DEF EditorStates
<1> QED
    BY <1>1, <1>2, <1>3, <1>4 DEF EditorStates

LEMMA GreatestBelow ==
    ASSUME NEW n \in Nat, NEW T \in SUBSET (1..n), T # {}
    PROVE  Max(T) \in T /\ \A y \in T : y <= Max(T)
<1>1. PICK U : U = {k \in Nat : \A y \in T : y <= k}
    OBVIOUS
<1>2. U \in SUBSET Nat /\ n \in U
    BY <1>1
<1>3. PICK R : R = OpToRel(<, Nat)
    OBVIOUS
<1>4. IsWellFoundedOn(R, Nat)
    BY <1>3, NatLessThanWellFounded
<1>5. PICK u \in U : \A y \in U : ~ (<<y, u>> \in R)
    BY <1>2, <1>4, WFMin
<1>6. u \in Nat /\ (\A y \in T : y <= u) /\ \A y \in U : ~ (y < u)
    BY <1>1, <1>2, <1>3, <1>5 DEF OpToRel
<1>7. PICK z \in T : TRUE
    OBVIOUS
<1>8. u - 1 \in Nat
    BY <1>6, <1>7
<1>9. PICK y \in T : ~ (y <= u - 1)
    BY <1>1, <1>6, <1>8
<1>10. y = u
    BY <1>6, <1>9
<1>11. u \in T /\ \A x \in T : u >= x
    BY <1>6, <1>9, <1>10
<1>12. PICK m : m = Max(T)
    OBVIOUS
<1>13. m \in T /\ \A x \in T : m >= x
    BY <1>11, <1>12 DEF Max
<1> QED
    BY <1>12, <1>13

LEMMA LatestIsThere ==
    ASSUME PromptsInv
    PROVE  Latest \in 0..contents /\ (Latest # 0 => Latest \in There)
<1>1. contents \in Nat /\ There \in SUBSET (1..contents)
    BY PromptsAssumption
    DEF PromptsAssumption, PromptsInv, PromptsTypeOK, NumbersFit, There, Versions, AnyContent
<1>2. CASE There = {}
    BY <1>1, <1>2 DEF Latest
<1>3. CASE There # {}
  <2>1. Max(There) \in There
      BY <1>1, <1>3, GreatestBelow
  <2>2. Latest = Max(There)
      BY <1>3 DEF Latest
  <2>3. PICK m : m = Max(There)
      OBVIOUS
  <2>4. m \in There /\ m \in 1..contents
      BY <1>1, <2>1, <2>3
  <2> QED
      BY <1>1, <2>2, <2>3, <2>4
<1> QED
    BY <1>2, <1>3

\* A handler that leaves the versions and the labels alone.
LEMMA EditorKeeps ==
    ASSUME PromptsInv, NEW e \in Editors, NEW at \in EditorStates, Edit(e, at),
           UNCHANGED <<version, deployment, meant, withdrawn>>,
           contents' \in AnyContent, contents <= contents',
           answer'.content \in answer'.allowed,
           at.at = "insert" => at.version <= contents',
           at.at \in {"deploy", "resolve"} /\ ~at.deleted /\ at.version # 0
               => HasContent(at.version, at.content)
    PROVE  PromptsInv'
<1>1. /\ editor' \in [Editors -> EditorStates] /\ editor'[e] = at
      /\ \A o \in Editors \ {e} : editor'[o] = editor[o]
    BY DEF Edit, PromptsInv, PromptsTypeOK
<1>2. PromptsTypeOK'
    BY <1>1 DEF PromptsInv, PromptsTypeOK
<1>3. contents \in Nat /\ contents' \in Nat /\ There \in SUBSET Nat /\ There' = There
    BY PromptsAssumption
    DEF PromptsAssumption, PromptsInv, PromptsTypeOK, There, Versions, AnyContent
<1>4. ASSUME NEW o \in Editors, editor[o].at = "insert" PROVE editor[o].version \in Nat
  <2>1. editor[o] \in EditorStates /\ ContentLimit \in Nat
      BY PromptsAssumption DEF PromptsAssumption, PromptsInv, PromptsTypeOK
  <2>2. editor[o].version \in Versions
      BY <1>4, <2>1, EditorStatesTyped
  <2> QED
      BY <2>1, <2>2 DEF Versions
<1>5. NumbersFit'
    BY <1>1, <1>3, <1>4 DEF PromptsInv, NumbersFit
<1>6. \A v, c : HasContent(v, c)' <=> HasContent(v, c)
    BY DEF HasContent
<1>7. LabelsStand'
    BY <1>6 DEF PromptsInv, LabelsStand
<1>8. ReadersStand'
    BY <1>1, <1>6 DEF PromptsInv, ReadersStand
<1> QED
    BY <1>2, <1>5, <1>7, <1>8 DEF PromptsInv

LEMMA NextVersionKeeps ==
    ASSUME PromptsInv, NEW e \in Editors, NextVersion(e)
    PROVE  PromptsInv'
<1>1. PICK at : at = [at |-> "insert", version |-> Latest + 1, content |-> contents + 1]
    OBVIOUS
<1>2. /\ contents < ContentLimit /\ contents' = contents + 1 /\ Edit(e, at)
      /\ UNCHANGED <<version, deployment, meant, withdrawn, answer>>
    BY <1>1 DEF NextVersion
<1>3. contents \in AnyContent /\ ContentLimit \in Nat /\ answer.content \in answer.allowed
    BY PromptsAssumption DEF PromptsAssumption, PromptsInv, PromptsTypeOK
<1>4. Latest \in 0..contents
    BY LatestIsThere
<1>5. /\ Latest + 1 \in Versions /\ contents + 1 \in Versions /\ Latest + 1 <= contents'
      /\ contents' \in AnyContent /\ contents <= contents'
    BY <1>2, <1>3, <1>4 DEF Versions, AnyContent
<1>6. at \in EditorStates /\ at.at = "insert" /\ at.version = Latest + 1
    BY <1>1, <1>5 DEF EditorStates
<1> QED
    BY <1>2, <1>3, <1>5, <1>6, EditorKeeps

LEMMA InsertVersionKeeps ==
    ASSUME PromptsInv, NEW e \in Editors, InsertVersion(e)
    PROVE  PromptsInv'
<1>1. PICK v : v = editor[e].version
    OBVIOUS
<1>2. editor[e] \in EditorStates /\ editor[e].at = "insert"
    BY DEF PromptsInv, PromptsTypeOK, InsertVersion
<1>3. v \in Versions /\ editor[e].content \in Versions
    BY <1>1, <1>2, EditorStatesTyped
<1>4. NotEditing \in EditorStates /\ NotEditing.at = "idle"
    BY DEF EditorStates, NotEditing
<1>5. /\ Edit(e, NotEditing) /\ UNCHANGED <<deployment, contents, meant, withdrawn, answer>>
      /\ version' = IF Takes(v) THEN [version EXCEPT ![v] = editor[e].content] ELSE version
    BY <1>1 DEF InsertVersion
<1>6. /\ editor' \in [Editors -> EditorStates] /\ editor'[e] = NotEditing
      /\ \A o \in Editors \ {e} : editor'[o] = editor[o]
    BY <1>4, <1>5 DEF Edit, PromptsInv, PromptsTypeOK
<1>7. version \in [Versions -> AnyContent] /\ ContentLimit \in Nat
    BY PromptsAssumption DEF PromptsAssumption, PromptsInv, PromptsTypeOK
<1>8. version' \in [Versions -> AnyContent] /\ \A w \in Versions \ {v} : version'[w] = version[w]
    BY <1>3, <1>5, <1>7 DEF Versions, AnyContent
<1>9. PromptsTypeOK'
    BY <1>5, <1>6, <1>8 DEF PromptsInv, PromptsTypeOK
<1>10. v <= contents
    BY <1>1, <1>2 DEF PromptsInv, NumbersFit
<1>11. NumbersFit'
    BY <1>4, <1>5, <1>6, <1>8, <1>10 DEF PromptsInv, NumbersFit, There
\* Only a number that nobody had is written.
<1>12. ASSUME NEW w \in AnyContent, NEW c, w # 0, HasContent(w, c) PROVE HasContent(w, c)'
  <2>1. w \in Versions
      BY <1>7, <1>12 DEF Versions, AnyContent
  <2>2. CASE Takes(v)
      BY <1>8, <1>12, <2>1, <2>2 DEF Takes, HasContent
  <2>3. CASE ~Takes(v)
      BY <1>5, <1>12, <2>3 DEF HasContent
  <2> QED
      BY <2>2, <2>3
<1>13. LabelsStand'
  <2>1. ASSUME NEW l \in Labels \ withdrawn, deployment[l] # 0
        PROVE  HasContent(deployment[l], meant[l])'
    <3>1. deployment[l] \in AnyContent /\ HasContent(deployment[l], meant[l])
        BY <2>1 DEF PromptsInv, PromptsTypeOK, LabelsStand
    <3>2. HasContent(deployment[l], meant[l])' <=> meant[l] # 0 /\ version'[deployment[l]] = meant[l]
        BY <1>5 DEF HasContent
    <3>3. version'[deployment[l]] = meant[l]
        BY <1>12, <2>1, <3>1 DEF HasContent
    <3> QED
        BY <3>1, <3>2, <3>3 DEF HasContent
  <2> QED
      BY <1>5, <2>1 DEF LabelsStand
<1>14. ReadersStand'
  <2> SUFFICES ASSUME NEW o \in Editors,
                      editor'[o].at \in {"deploy", "resolve"}, ~editor'[o].deleted,
                      editor'[o].version # 0
               PROVE  HasContent(editor[o].version, editor[o].content)' /\ editor'[o] = editor[o]
      BY DEF ReadersStand, HasContent
  <2>1. editor'[o] = editor[o] /\ editor[o] \in EditorStates
      BY <1>4, <1>6 DEF PromptsInv, PromptsTypeOK
  <2>2. editor[o].version \in AnyContent
    <3>1. editor[o].version \in Versions \/ editor[o].version \in AnyContent
        BY <2>1, EditorStatesTyped
    <3> QED
        BY <1>7, <3>1 DEF Versions, AnyContent
  <2>4. HasContent(editor[o].version, editor[o].content)
      BY <2>1 DEF PromptsInv, ReadersStand
  <2>3. version'[editor[o].version] = editor[o].content
      BY <1>12, <2>1, <2>2, <2>4 DEF HasContent
  <2> QED
      BY <2>1, <2>3, <2>4 DEF HasContent
<1> QED
    BY <1>9, <1>11, <1>13, <1>14 DEF PromptsInv

LEMMA ConfirmKeeps ==
    ASSUME PromptsInv, NEW e \in Editors, NEW l \in Labels, NEW v \in Versions,
           ConfirmVersion(e, l, v)
    PROVE  PromptsInv'
<1>1. PICK at : at = [at |-> "deploy", label |-> l, version |-> v,
                      content |-> version[v], deleted |-> FALSE]
    OBVIOUS
<1>2. /\ Edit(e, at) /\ v \in There
      /\ UNCHANGED <<version, deployment, contents, meant, withdrawn, answer>>
    BY <1>1 DEF ConfirmVersion
<1>3. contents \in Nat /\ contents \in AnyContent /\ version[v] \in AnyContent
      /\ answer.content \in answer.allowed
    BY PromptsAssumption DEF PromptsAssumption, PromptsInv, PromptsTypeOK, AnyContent
<1>4. /\ at \in EditorStates /\ at.at = "deploy"
      /\ at.version = v /\ at.content = version[v]
    BY <1>1, <1>3 DEF EditorStates
<1>5. HasContent(at.version, at.content)
    BY <1>2, <1>4 DEF There, HasContent
<1> QED
    BY <1>2, <1>3, <1>4, <1>5, EditorKeeps

LEMMA GetDeploymentKeeps ==
    ASSUME PromptsInv, NEW e \in Editors, NEW l \in Labels, GetDeployment(e, l)
    PROVE  PromptsInv'
<1>1. PICK at : at = [at |-> "resolve", version |-> deployment[l],
                      content |-> meant[l], deleted |-> l \in withdrawn]
    OBVIOUS
<1>2. /\ Edit(e, at)
      /\ UNCHANGED <<version, deployment, contents, meant, withdrawn, answer>>
    BY <1>1 DEF GetDeployment
<1>3. contents \in Nat /\ contents \in AnyContent /\ answer.content \in answer.allowed
      /\ deployment[l] \in AnyContent /\ meant[l] \in AnyContent
    BY PromptsAssumption DEF PromptsAssumption, PromptsInv, PromptsTypeOK, AnyContent
<1>4. (l \in withdrawn) \in BOOLEAN
    OBVIOUS
<1>5. at \in EditorStates
    BY <1>1, <1>3, <1>4 DEF EditorStates
<1>6. at.at = "resolve" /\ at.version = deployment[l] /\ at.content = meant[l]
    BY <1>1
<1>7. ~at.deleted => l \notin withdrawn
    BY <1>1
<1>8. ~at.deleted /\ at.version # 0 => HasContent(at.version, at.content)
    BY <1>6, <1>7 DEF PromptsInv, LabelsStand
<1> QED
    BY <1>2, <1>3, <1>5, <1>6, <1>8, EditorKeeps

LEMMA GetVersionKeeps ==
    ASSUME PromptsInv, NEW e \in Editors, GetVersion(e)
    PROVE  PromptsInv'
<1>1. /\ Edit(e, NotEditing) /\ editor[e].at = "resolve"
      /\ UNCHANGED <<version, deployment, contents, meant, withdrawn>>
    BY DEF GetVersion
<1>2. editor[e] \in EditorStates /\ contents \in Nat /\ contents \in AnyContent
      /\ version \in [Versions -> AnyContent] /\ ContentLimit \in Nat
    BY PromptsAssumption DEF PromptsAssumption, PromptsInv, PromptsTypeOK, AnyContent
<1>3. NotEditing \in EditorStates /\ NotEditing.at = "idle"
    BY DEF EditorStates, NotEditing
<1>4. answer'.content \in answer'.allowed
  <2>1. CASE editor[e].version = 0
    <3>1. answer' = [content |-> ContentOf(Latest), allowed |-> AnyContent]
        BY <2>1 DEF GetVersion
    <3>2. PICK v : v = Latest
        OBVIOUS
    <3>3. v # 0 => v \in Versions
        BY <3>2, LatestIsThere DEF There
    <3>4. ContentOf(v) \in AnyContent
        BY <1>2, <3>3 DEF ContentOf, AnyContent
    <3> QED
        BY <3>1, <3>2, <3>4
  <2>2. CASE editor[e].version # 0
    <3>1. answer' = [content |-> version[editor[e].version],
                     allowed |-> IF editor[e].deleted THEN AnyContent ELSE {editor[e].content}]
        BY <2>2 DEF GetVersion
    <3>2. CASE editor[e].deleted
      <4>1. editor[e].version \in AnyContent
          BY <1>1, <1>2, EditorStatesTyped
      <4>2. editor[e].version \in Versions
          BY <1>2, <2>2, <4>1 DEF AnyContent, Versions
      <4> QED
          BY <1>2, <3>1, <3>2, <4>2
    <3>3. CASE ~editor[e].deleted
      <4>1. version[editor[e].version] = editor[e].content
          BY <1>1, <2>2, <3>3 DEF PromptsInv, ReadersStand, HasContent
      <4> QED
          BY <3>1, <3>3, <4>1
    <3> QED
        BY <3>2, <3>3
  <2> QED
      BY <2>1, <2>2
<1> QED
    BY <1>1, <1>2, <1>3, <1>4, EditorKeeps

LEMMA DeployKeeps ==
    ASSUME PromptsInv, NEW e \in Editors, Deploy(e)
    PROVE  PromptsInv'
<1>1. PICK l : l = editor[e].label
    OBVIOUS
<1>2. editor[e] \in EditorStates /\ editor[e].at = "deploy"
    BY DEF Deploy, PromptsInv, PromptsTypeOK
<1>3. /\ l \in Labels /\ editor[e].version \in Versions /\ editor[e].content \in AnyContent
    BY <1>1, <1>2, EditorStatesTyped
<1>4. NotEditing \in EditorStates /\ NotEditing.at = "idle"
    BY DEF EditorStates, NotEditing
<1>5. /\ Edit(e, NotEditing) /\ UNCHANGED <<version, contents, answer>>
      /\ deployment' = [deployment EXCEPT ![l] = editor[e].version]
      /\ meant' = [meant EXCEPT ![l] = editor[e].content]
      /\ withdrawn' = IF editor[e].deleted THEN withdrawn \union {l} ELSE withdrawn \ {l}
    BY <1>1 DEF Deploy
<1>6. /\ editor' \in [Editors -> EditorStates] /\ editor'[e] = NotEditing
      /\ \A o \in Editors \ {e} : editor'[o] = editor[o]
    BY <1>4, <1>5 DEF Edit, PromptsInv, PromptsTypeOK
<1>7. deployment' \in [Labels -> AnyContent] /\ meant' \in [Labels -> AnyContent]
  <2>1. editor[e].version \in AnyContent
      BY <1>3, PromptsAssumption DEF PromptsAssumption, Versions, AnyContent
  <2> QED
      BY <1>3, <1>5, <2>1 DEF PromptsInv, PromptsTypeOK
<1>8. PromptsTypeOK'
    BY <1>5, <1>6, <1>7 DEF PromptsInv, PromptsTypeOK
<1>9. NumbersFit'
    BY <1>4, <1>5, <1>6 DEF PromptsInv, NumbersFit, There
<1>10. \A v, c : HasContent(v, c)' <=> HasContent(v, c)
    BY <1>5 DEF HasContent
<1>11. ASSUME NEW k \in Labels \ withdrawn', deployment'[k] # 0
       PROVE  HasContent(deployment'[k], meant'[k])
  <2>1. CASE k = l
    <3>1. ~editor[e].deleted
        BY <1>5, <1>11, <2>1
    <3>2. deployment'[k] = editor[e].version /\ meant'[k] = editor[e].content
        BY <1>3, <1>5, <2>1 DEF PromptsInv, PromptsTypeOK
    <3> QED
        BY <1>2, <1>11, <3>1, <3>2 DEF PromptsInv, ReadersStand
  <2>2. CASE k # l
    <3>1. deployment'[k] = deployment[k] /\ meant'[k] = meant[k] /\ k \notin withdrawn
        BY <1>5, <1>11, <2>2 DEF PromptsInv, PromptsTypeOK
    <3> QED
        BY <1>11, <3>1 DEF PromptsInv, LabelsStand
  <2> QED
      BY <2>1, <2>2
<1>12. LabelsStand'
    BY <1>5, <1>11 DEF LabelsStand, HasContent
<1>13. ReadersStand'
    BY <1>4, <1>6, <1>10 DEF PromptsInv, ReadersStand
<1> QED
    BY <1>8, <1>9, <1>12, <1>13 DEF PromptsInv

\* Whatever read of the version that goes, or stands for it, is marked.
LEMMA DeleteKeeps ==
    ASSUME PromptsInv, NEW v \in Versions, DeleteVersion(v)
    PROVE  PromptsInv'
<1>1. /\ version' = [version EXCEPT ![v] = 0]
      /\ withdrawn' = withdrawn \union {l \in Labels : deployment[l] = v}
      /\ UNCHANGED <<deployment, contents, meant, answer>>
    BY DEF DeleteVersion
<1>2. version \in [Versions -> AnyContent] /\ 0 \in AnyContent /\ editor \in [Editors -> EditorStates]
    BY PromptsAssumption DEF PromptsAssumption, PromptsInv, PromptsTypeOK, AnyContent
<1>3. version' \in [Versions -> AnyContent] /\ \A w \in Versions \ {v} : version'[w] = version[w]
    BY <1>1, <1>2
<1>4. /\ editor' \in [Editors -> EditorStates]
      /\ \A e \in Editors :
            IF editor[e].at \in {"deploy", "resolve"} /\ editor[e].version = v
            THEN editor'[e].at = editor[e].at /\ editor'[e].deleted
            ELSE editor'[e] = editor[e]
  <2>1. editor' = [e \in Editors |->
                    IF editor[e].at \in {"deploy", "resolve"} /\ editor[e].version = v
                    THEN [editor[e] EXCEPT !.deleted = TRUE] ELSE editor[e]]
      BY DEF DeleteVersion
  <2>2. ASSUME NEW e \in Editors
        PROVE  /\ editor'[e] \in EditorStates
               /\ IF editor[e].at \in {"deploy", "resolve"} /\ editor[e].version = v
                  THEN editor'[e].at = editor[e].at /\ editor'[e].deleted
                  ELSE editor'[e] = editor[e]
    <3>1. editor[e] \in EditorStates
        BY <1>2
    <3>2. CASE editor[e].at \in {"deploy", "resolve"} /\ editor[e].version = v
      <4>1. editor'[e] = [editor[e] EXCEPT !.deleted = TRUE]
          BY <2>1, <3>2
      <4> QED
          BY <3>1, <3>2, <4>1, EditorStatesTyped
    <3>3. CASE ~(editor[e].at \in {"deploy", "resolve"} /\ editor[e].version = v)
        BY <2>1, <3>1, <3>3
    <3> QED
        BY <3>2, <3>3
  <2>3. DOMAIN editor' = Editors /\ editor' = [e \in Editors |-> editor'[e]]
      BY <2>1
  <2> QED
      BY <2>2, <2>3
<1>5. PromptsTypeOK'
    BY <1>1, <1>3, <1>4 DEF PromptsInv, PromptsTypeOK
<1>6. NumbersFit'
    BY <1>1, <1>3, <1>4 DEF PromptsInv, NumbersFit, There
<1>7. ASSUME NEW w \in AnyContent, NEW c, w # 0, w # v, HasContent(w, c)
      PROVE  c # 0 /\ version'[w] = c
  <2>1. w \in Versions
      BY <1>7, PromptsAssumption DEF PromptsAssumption, Versions, AnyContent
  <2> QED
      BY <1>3, <1>7, <2>1 DEF HasContent
<1>8. LabelsStand'
  <2>1. ASSUME NEW l \in Labels \ withdrawn', deployment[l] # 0
        PROVE  meant[l] # 0 /\ version'[deployment[l]] = meant[l]
    <3>1. l \notin withdrawn /\ deployment[l] # v /\ deployment[l] \in AnyContent
        BY <1>1, <2>1 DEF PromptsInv, PromptsTypeOK
    <3> QED
        BY <1>7, <2>1, <3>1 DEF PromptsInv, LabelsStand
  <2> QED
      BY <1>1, <2>1 DEF LabelsStand, HasContent
<1>9. ReadersStand'
  <2>1. ASSUME NEW e \in Editors,
               editor'[e].at \in {"deploy", "resolve"}, ~editor'[e].deleted, editor'[e].version # 0
        PROVE  editor'[e].content # 0 /\ version'[editor'[e].version] = editor'[e].content
    <3>1. editor'[e] = editor[e] /\ editor[e].version # v /\ editor[e] \in EditorStates
        BY <1>2, <1>4, <2>1
    <3>2. editor[e].version \in Versions \/ editor[e].version \in AnyContent
        BY <2>1, <3>1, EditorStatesTyped
    <3>3. editor[e].version \in AnyContent
        BY <3>2, PromptsAssumption DEF PromptsAssumption, Versions, AnyContent
    <3> QED
        BY <1>7, <2>1, <3>1, <3>3 DEF PromptsInv, ReadersStand
  <2> QED
      BY <2>1 DEF ReadersStand, HasContent
<1> QED
    BY <1>5, <1>6, <1>8, <1>9 DEF PromptsInv

\* For any number of labels, handlers and versions: a label stands for the
\* content that was there when it was deployed, and resolves to it, until its
\* version is deleted.  A number is written only while nothing stands under
\* it, and what a handler has read of a version holds until the version goes
\* (handlers/prompts.rs deploy, create, resolve).
THEOREM LabelsStandForContent == PromptsSpec => []LabelsKeepContent
<1>1. PromptsInit => PromptsInv
  <2> SUFFICES ASSUME PromptsInit PROVE PromptsInv
      OBVIOUS
  <2>1. 0 \in AnyContent
      BY PromptsAssumption DEF PromptsAssumption, AnyContent
  <2>2. NotEditing \in EditorStates /\ NotEditing.at = "idle"
      BY DEF EditorStates, NotEditing
  <2>3. PromptsTypeOK
      BY <2>1, <2>2 DEF PromptsInit, PromptsTypeOK
  <2>4. NumbersFit /\ LabelsStand /\ ReadersStand
      BY <2>2 DEF PromptsInit, NumbersFit, There, LabelsStand, ReadersStand
  <2> QED
      BY <2>3, <2>4 DEF PromptsInv
<1>2. PromptsInv /\ [PromptsNext]_promptVars => PromptsInv'
  <2> SUFFICES ASSUME PromptsInv, [PromptsNext]_promptVars PROVE PromptsInv'
      OBVIOUS
  <2>1. ASSUME NEW e \in Editors,
               NextVersion(e) \/ InsertVersion(e) \/ Deploy(e) \/ GetVersion(e)
        PROVE  PromptsInv'
      BY <2>1, NextVersionKeeps, InsertVersionKeeps, DeployKeeps, GetVersionKeeps
  <2>2. ASSUME NEW e \in Editors, NEW l \in Labels,
               GetDeployment(e, l) \/ \E v \in Versions : ConfirmVersion(e, l, v)
        PROVE  PromptsInv'
      BY <2>2, GetDeploymentKeeps, ConfirmKeeps
  <2>3. CASE \E v \in Versions : DeleteVersion(v)
      BY <2>3, DeleteKeeps
  <2>4. CASE UNCHANGED promptVars
      BY <2>4 DEF promptVars, PromptsInv, PromptsTypeOK, NumbersFit, There, LabelsStand,
                  ReadersStand, HasContent
  <2> QED
      BY <2>1, <2>2, <2>3, <2>4 DEF PromptsNext
<1>3. PromptsInv => LabelsKeepContent
    BY DEF PromptsInv, PromptsTypeOK, LabelsStand, HasContent, LabelsKeepContent
<1> QED
    BY <1>1, <1>2, <1>3, PTL DEF PromptsSpec

-----------------------------------------------------------------------------
(* The turns of the providers.                                             *)

LEMMA DivisionAndRest ==
    ASSUME NEW t \in Nat, NEW n \in Nat \ {0}
    PROVE  /\ t % n \in 0..(n-1)
           /\ t \div n \in Nat
           /\ t = (t \div n) * n + (t % n)
<1>1. t % n \in 0..(n-1)
    OBVIOUS
<1>2. t \div n \in Int /\ t \div n >= 0
    OBVIOUS
<1>3. t = (t \div n) * n + (t % n)
    BY SMT
<1> QED
    BY <1>1, <1>2, <1>3

LEMMA RestIsUnique ==
    ASSUME NEW n \in Nat \ {0}, NEW a \in Int, NEW b \in Int,
           NEW r \in 0..(n-1), NEW s \in 0..(n-1), a * n + r = b * n + s
    PROVE  r = s
<1>1. CASE a = b
    BY <1>1
<1>2. CASE a < b
  <2>1. PICK d : d = b - a
      OBVIOUS
  <2>2. d \in Int /\ d >= 1 /\ b = a + d
      BY <1>2, <2>1
  <2>3. b * n = a * n + d * n /\ d * n >= n
      BY <2>2
  <2>4. PICK x : x = a * n
      OBVIOUS
  <2>5. PICK y : y = d * n
      OBVIOUS
  <2>6. x \in Int /\ y \in Int /\ y >= n /\ x + r = x + y + s
      BY <2>2, <2>3, <2>4, <2>5
  <2> QED
      BY <2>6
<1>3. CASE a > b
  <2>1. PICK d : d = a - b
      OBVIOUS
  <2>2. d \in Int /\ d >= 1 /\ a = b + d
      BY <1>3, <2>1
  <2>3. a * n = b * n + d * n /\ d * n >= n
      BY <2>2
  <2>4. PICK x : x = b * n
      OBVIOUS
  <2>5. PICK y : y = d * n
      OBVIOUS
  <2>6. x \in Int /\ y \in Int /\ y >= n /\ x + y + r = x + s
      BY <2>2, <2>3, <2>4, <2>5
  <2> QED
      BY <2>6
<1> QED
    BY <1>1, <1>2, <1>3

\* The place on a route moves on by one, and from the last to the first.
LEMMA NextPlace ==
    ASSUME NEW t \in Nat, NEW n \in Nat \ {0}
    PROVE  (t + 1) % n = IF t % n = n-1 THEN 0 ELSE (t % n) + 1
<1>1. PICK q \in Nat, r \in 0..(n-1) : q = t \div n /\ r = t % n
    BY DivisionAndRest
<1>2. PICK u \in Nat, s \in 0..(n-1) : u = (t + 1) \div n /\ s = (t + 1) % n
  <2>1. t + 1 \in Nat
      OBVIOUS
  <2> QED
      BY <2>1, DivisionAndRest
<1>3. PICK x : x = q * n
    OBVIOUS
<1>4. PICK y : y = u * n
    OBVIOUS
<1>5. x \in Int /\ y \in Int /\ t = x + r
    BY <1>1, <1>3, <1>4, DivisionAndRest
<1>6. t + 1 = y + s
  <2>1. t + 1 \in Nat
      OBVIOUS
  <2> QED
      BY <1>2, <1>4, <2>1, DivisionAndRest
<1>7. CASE r = n-1
  <2>1. (q + 1) * n = x + n
      BY <1>3
  <2>2. (q + 1) * n + 0 = u * n + s
      BY <1>4, <1>5, <1>6, <1>7, <2>1
  <2>3. 0 = s
      BY <2>2, RestIsUnique
  <2> QED
      BY <1>1, <1>2, <1>7, <2>3
<1>8. CASE r # n-1
  <2>1. PICK v : v = r + 1
      OBVIOUS
  <2>2. v \in 0..(n-1)
      BY <1>8, <2>1
  <2>3. q * n + v = u * n + s
      BY <1>3, <1>4, <1>5, <1>6, <2>1
  <2>4. v = s
      BY <2>2, <2>3, RestIsUnique
  <2> QED
      BY <1>1, <1>2, <1>8, <2>1, <2>4
<1> QED
    BY <1>7, <1>8

\* Whether the place j had one turn more than it had when the round began at
\* the place s, now that the place p is next.
Ahead(s, p, j) ==
    IF (s <= p /\ s <= j /\ j < p) \/ (p < s /\ (s <= j \/ j < p)) THEN 1 ELSE 0

Distinct(route) == \A i, j \in 1..Len(route) : route[i] = route[j] => i = j

\* At the place p of a route of n providers of which p had taken[p] turns since
\* the route became what it is: every provider had as many turns, and those
\* that the round under way has come to one more.
RoundAt(route, n, p, taken) ==
    \E b \in Nat, s \in 0..(n-1) : \A j \in 1..n : taken[route[j]] = b + Ahead(s, p, j - 1)

Turns(route, t, taken) ==
    route # <<>> => RoundAt(route, Len(route), t % Len(route), taken)

InTurn(m) == Turns(RouteOf(m), turn[m], turnsTaken[m])

RouterTypeOK ==
    /\ routes \in [Models \union {Wildcard} -> Seq(Providers)]
    /\ aliases \in [Models -> Models]
    /\ turn \in [Models -> Nat]
    /\ turnsTaken \in [Models -> [Providers -> Nat]]

RouterInv ==
    /\ RouterTypeOK
    /\ \A n \in Models \union {Wildcard} : Distinct(routes[n])
    /\ \A m \in Models : InTurn(m)

After(p, n) == IF p = n-1 THEN 0 ELSE p + 1

\* That the place p had a turn is a round at the next place.
Continues(n, s, p, b) ==
    \E c \in Nat : \A j \in 0..(n-1) :
        c + Ahead(s, After(p, n), j) = (b + Ahead(s, p, j)) + (IF j = p THEN 1 ELSE 0)

LEMMA RoundGoesOn ==
    ASSUME NEW n \in Nat \ {0}, NEW s \in 0..(n-1), NEW p \in 0..(n-1), NEW b \in Nat
    PROVE  Continues(n, s, p, b)
<1>0. PICK q : q = After(p, n)
    OBVIOUS
<1>1. PICK c \in Nat : c = IF q = s THEN b + 1 ELSE b
    OBVIOUS
<1>2. q \in 0..(n-1) /\ q = IF p = n-1 THEN 0 ELSE p + 1
    BY <1>0 DEF After
<1>3. ASSUME NEW j \in 0..(n-1)
      PROVE  c + Ahead(s, q, j) = (b + Ahead(s, p, j)) + (IF j = p THEN 1 ELSE 0)
    BY <1>1, <1>2 DEF Ahead
<1> QED
    BY <1>0, <1>3 DEF Continues

\* A provider that is put in its place: the others keep their order, and none
\* is there twice.
LEMMA PlacedOnce ==
    ASSUME NEW s \in Seq(Providers), NEW p \in Providers, Distinct(s), p \notin ToSet(s)
    PROVE  ByPriority(s, p) \in Seq(Providers) /\ Distinct(ByPriority(s, p))
<1>1. /\ DOMAIN s = 1..Len(s) /\ Len(s) \in Nat
      /\ \A i \in 1..Len(s) : s[i] \in Providers /\ s[i] # p
    BY ElementOfSeq, LenProperties DEF ToSet
<1>2. PICK T : T = {i \in DOMAIN s : s[i].priority <= p.priority}
    OBVIOUS
<1>3. T \in SUBSET (1..Len(s))
    BY <1>1, <1>2
<1>4. IsFiniteSet(1..Len(s)) /\ Cardinality(1..Len(s)) = Len(s)
    BY <1>1, FS_Interval
<1>5. Cardinality(T) \in 0..Len(s)
  <2>1. IsFiniteSet(T) /\ Cardinality(T) <= Cardinality(1..Len(s))
      BY <1>3, <1>4, FS_Subset
  <2>2. Cardinality(T) \in Nat
      BY <2>1, FS_CardinalityType
  <2> QED
      BY <1>1, <1>4, <2>1, <2>2
<1>6. PICK k \in 0..Len(s) : k = Cardinality(T)
    BY <1>5
<1>7. ByPriority(s, p) = SubSeq(s, 1, k) \o <<p>> \o SubSeq(s, k+1, Len(s))
  <2>1. ByPriority(s, p) = InsertAt(s, 1 + k, p)
      BY <1>2, <1>6 DEF ByPriority
  <2>2. 1 + k = k + 1 /\ (1 + k) - 1 = k
      BY <1>1
  <2>3. InsertAt(s, 1 + k, p) = SubSeq(s, 1, (1 + k) - 1) \o <<p>> \o SubSeq(s, 1 + k, Len(s))
      BY DEF InsertAt
  <2> QED
      BY <2>1, <2>2, <2>3
<1>8. PICK a : a = SubSeq(s, 1, k)
    OBVIOUS
<1>9. a \in Seq(Providers) /\ Len(a) = k /\ \A j \in 1..k : a[j] = s[j]
  <2>1. 1 \in Int /\ k \in Int /\ \A i \in 1..k : s[i] \in Providers
      BY <1>1
  <2>2. /\ a \in Seq(Providers) /\ Len(a) = IF 1 <= k THEN k-1+1 ELSE 0
        /\ \A j \in 1..(k-1+1) : a[j] = s[1+j-1]
      BY <1>8, <2>1, SubSeqProperties
  <2>3. Len(a) = k /\ k-1+1 = k /\ \A j \in 1..k : 1+j-1 = j
      BY <1>1, <2>2
  <2> QED
      BY <2>2, <2>3
<1>10. PICK d : d = SubSeq(s, k+1, Len(s))
    OBVIOUS
<1>11. d \in Seq(Providers) /\ Len(d) = Len(s) - k /\ \A j \in 1..(Len(s)-k) : d[j] = s[k+j]
  <2>1. k+1 \in Int /\ \A i \in (k+1)..Len(s) : s[i] \in Providers
      BY <1>1
  <2>2. /\ d \in Seq(Providers) /\ Len(d) = IF k+1 <= Len(s) THEN Len(s)-(k+1)+1 ELSE 0
        /\ \A j \in 1..(Len(s)-(k+1)+1) : d[j] = s[(k+1)+j-1]
      BY <1>1, <1>10, <2>1, SubSeqProperties
  <2>3. k \in Nat /\ Len(s) \in Nat /\ k <= Len(s)
      BY <1>1
  <2>4. Len(d) = Len(s) - k /\ Len(s)-(k+1)+1 = Len(s)-k
      BY <2>2, <2>3
  <2>5. \A j \in 1..(Len(s)-k) : (k+1)+j-1 = k+j
      BY <2>3
  <2> QED
      BY <2>2, <2>4, <2>5
<1>12. PICK e : e = Append(a, p)
    OBVIOUS
<1>13. /\ e \in Seq(Providers) /\ Len(e) = k + 1
       /\ \A j \in 1..k : e[j] = s[j]
       /\ e[k+1] = p
    BY <1>9, <1>12, AppendProperties
<1>14. PICK w : w = e \o d
    OBVIOUS
<1>15. w \in Seq(Providers) /\ Len(w) = Len(s) + 1
  <2>1. w \in Seq(Providers) /\ Len(w) = Len(e) + Len(d)
      BY <1>11, <1>13, <1>14, ConcatProperties
  <2> QED
      BY <1>1, <1>11, <1>13, <2>1
<1>16. \A j \in 1..Len(w) : w[j] = IF j <= Len(e) THEN e[j] ELSE d[j - Len(e)]
  <2>1. \A j \in 1 .. Len(e) + Len(d) : (e \o d)[j] = IF j <= Len(e) THEN e[j] ELSE d[j - Len(e)]
      BY <1>11, <1>13, ConcatProperties
  <2>2. Len(e) + Len(d) = Len(w)
      BY <1>1, <1>11, <1>13, <1>15
  <2> QED
      BY <1>14, <2>1, <2>2
<1>17. ASSUME NEW j \in 1..Len(w)
       PROVE  /\ j <= k => w[j] = s[j]
              /\ j = k+1 => w[j] = p
              /\ j > k+1 => w[j] = s[j-1]
  <2>1. CASE j <= k+1
    <3>1. w[j] = e[j]
        BY <1>13, <1>16, <2>1
    <3>2. j <= k => j \in 1..k
        BY <1>1
    <3> QED
        BY <1>1, <1>13, <2>1, <3>1, <3>2
  <2>2. CASE j > k+1
    <3>1. PICK i : i = j - (k+1)
        OBVIOUS
    <3>2. i \in 1..(Len(s)-k) /\ k + i = j - 1
        BY <1>1, <1>15, <2>2, <3>1
    <3>3. w[j] = d[i]
        BY <1>1, <1>13, <1>15, <1>16, <2>2, <3>1
    <3>4. w[j] = s[j-1]
        BY <1>11, <3>2, <3>3
    <3>5. ~(j <= k) /\ j # k+1
        BY <1>1, <1>15, <2>2
    <3> QED
        BY <3>4, <3>5
  <2> QED
      BY <1>1, <1>15, <2>1, <2>2
<1>18. Distinct(w)
  <2> SUFFICES ASSUME NEW i \in 1..Len(w), NEW j \in 1..Len(w), w[i] = w[j], i < j
               PROVE  FALSE
      BY <1>1, <1>15 DEF Distinct
  <2>1. /\ i <= k => i \in 1..Len(s) /\ w[i] = s[i]
        /\ i = k+1 => w[i] = p
        /\ i > k+1 => i-1 \in 1..Len(s) /\ w[i] = s[i-1]
      BY <1>1, <1>15, <1>17
  <2>2. /\ j <= k => j \in 1..Len(s) /\ w[j] = s[j]
        /\ j = k+1 => w[j] = p
        /\ j > k+1 => j-1 \in 1..Len(s) /\ w[j] = s[j-1]
      BY <1>1, <1>15, <1>17
  <2>3. \A x, y \in 1..Len(s) : s[x] = s[y] => x = y
      BY DEF Distinct
  <2>4. CASE i <= k /\ j <= k
    <3>1. s[i] = s[j] /\ i \in 1..Len(s) /\ j \in 1..Len(s)
        BY <2>1, <2>2, <2>4
    <3>2. i = j
        BY <2>3, <3>1
    <3> QED
        BY <1>1, <1>15, <3>2
  <2>5. CASE i <= k /\ j > k+1
    <3>1. s[i] = s[j-1] /\ i \in 1..Len(s) /\ j-1 \in 1..Len(s)
        BY <2>1, <2>2, <2>5
    <3>2. i = j-1
        BY <2>3, <3>1
    <3> QED
        BY <1>1, <1>15, <2>5, <3>2
  <2>6. CASE i > k+1 /\ j > k+1
    <3>1. s[i-1] = s[j-1] /\ i-1 \in 1..Len(s) /\ j-1 \in 1..Len(s)
        BY <2>1, <2>2, <2>6
    <3>2. i-1 = j-1
        BY <2>3, <3>1
    <3> QED
        BY <1>1, <1>15, <3>2
  <2>7. CASE i = k+1 \/ j = k+1
      BY <1>1, <1>15, <2>1, <2>2, <2>7
  <2> QED
      BY <1>1, <1>15, <2>4, <2>5, <2>6, <2>7
<1>19. SubSeq(s, 1, k) \o <<p>> = e
    BY <1>8, <1>9, <1>12, AppendIsConcat
<1>20. ByPriority(s, p) = w
    BY <1>7, <1>10, <1>14, <1>19
<1> QED
    BY <1>15, <1>18, <1>20

LEMMA RegisterKeeps ==
    ASSUME RouterInv, NEW n \in Models \union {Wildcard}, NEW p \in Providers,
           RegisterProvider(n, p)
    PROVE  RouterInv'
<1>1. /\ p \notin ToSet(routes[n])
      /\ routes' = [routes EXCEPT ![n] = ByPriority(routes[n], p)]
      /\ turnsTaken' = [m \in Models |-> IF RouteOf(m)' # RouteOf(m) THEN NoTurns ELSE turnsTaken[m]]
      /\ UNCHANGED <<aliases, turn>>
    BY DEF RegisterProvider
<1>2. routes[n] \in Seq(Providers) /\ Distinct(routes[n])
    BY DEF RouterInv, RouterTypeOK
<1>3. ByPriority(routes[n], p) \in Seq(Providers) /\ Distinct(ByPriority(routes[n], p))
    BY <1>1, <1>2, PlacedOnce
<1>4. /\ routes' \in [Models \union {Wildcard} -> Seq(Providers)]
      /\ \A m \in Models \union {Wildcard} : Distinct(routes'[m])
    BY <1>1, <1>3 DEF RouterInv, RouterTypeOK
<1>5. NoTurns \in [Providers -> Nat]
    BY DEF NoTurns
<1>6. RouterTypeOK'
    BY <1>1, <1>4, <1>5 DEF RouterInv, RouterTypeOK
<1>7. ASSUME NEW m \in Models PROVE InTurn(m)'
  <2>1. CASE RouteOf(m)' = RouteOf(m)
    <3>1. turnsTaken'[m] = turnsTaken[m] /\ turn' = turn
        BY <1>1, <2>1
    <3> QED
        BY <2>1, <3>1 DEF RouterInv, InTurn
  <2>2. CASE RouteOf(m)' # RouteOf(m)
    <3>1. turnsTaken'[m] = NoTurns /\ turn'[m] \in Nat
        BY <1>1, <2>2 DEF RouterInv, RouterTypeOK
    <3>2. PICK R : R = RouteOf(m)'
        OBVIOUS
    <3> SUFFICES ASSUME R # <<>> PROVE Turns(R, turn'[m], turnsTaken'[m])
        BY <3>2 DEF InTurn, Turns
    <3>3. R \in Seq(Providers)
        BY <1>4, <3>2 DEF RouteOf
    <3>4. Len(R) \in Nat \ {0} /\ \A j \in 1..Len(R) : R[j] \in Providers
        BY <3>3, EmptySeq, LenProperties, ElementOfSeq
    <3>5. PICK s : s = turn'[m] % Len(R)
        OBVIOUS
    <3>6. s \in 0..(Len(R) - 1)
        BY <3>1, <3>4, <3>5, DivisionAndRest
    <3>7. ASSUME NEW j \in 1..Len(R) PROVE turnsTaken'[m][R[j]] = 0 + Ahead(s, s, j - 1)
      <4>1. Ahead(s, s, j - 1) = 0
          BY <3>4, <3>6 DEF Ahead
      <4>2. turnsTaken'[m][R[j]] = 0
          BY <3>1, <3>4 DEF NoTurns
      <4> QED
          BY <4>1, <4>2
    <3> QED
        BY <3>5, <3>6, <3>7 DEF Turns, RoundAt
  <2> QED
      BY <2>1, <2>2
<1> QED
    BY <1>4, <1>6, <1>7 DEF RouterInv

LEMMA SelectKeeps ==
    ASSUME RouterInv, NEW asked \in Models, SelectProvider(asked)
    PROVE  RouterInv'
<1>1. PICK m \in Models : m = ResolveAlias(asked) /\ m = CounterOf(asked)
    BY DEF RouterInv, RouterTypeOK, ResolveAlias, CounterOf
<1>2. PICK R : R = RouteOf(m)
    OBVIOUS
<1>3. R # <<>> /\ UNCHANGED <<routes, aliases>> /\ turn' = [turn EXCEPT ![m] = turn[m] + 1]
    BY <1>1, <1>2 DEF SelectProvider, Selectable
<1>4. R \in Seq(Providers) /\ Distinct(R)
    BY <1>2 DEF RouterInv, RouterTypeOK, RouteOf
<1>5. PICK n \in Nat \ {0} : n = Len(R)
    BY <1>3, <1>4, EmptySeq, LenProperties
<1>6. turn[m] \in Nat /\ \A j \in 1..n : R[j] \in Providers
    BY <1>4, <1>5, ElementOfSeq DEF RouterInv, RouterTypeOK
<1>7. PICK p \in 0..(n-1) : p = turn[m] % n
    BY <1>6, DivisionAndRest
<1>8. PICK c : c = R[p + 1]
    OBVIOUS
<1>9. p + 1 \in 1..n /\ c \in Providers
    BY <1>6, <1>8
<1>10. turnsTaken' = [turnsTaken EXCEPT ![m] = [turnsTaken[m] EXCEPT ![c] = turnsTaken[m][c] + 1]]
  <2>1. Chosen(asked) = c
      BY <1>1, <1>2, <1>5, <1>7, <1>8 DEF Chosen
  <2>2. turnsTaken' = [turnsTaken EXCEPT ![ResolveAlias(asked)][Chosen(asked)] = @ + 1]
      BY DEF SelectProvider
  <2> QED
      BY <1>1, <2>1, <2>2
<1>11. turnsTaken[m] \in [Providers -> Nat]
    BY DEF RouterInv, RouterTypeOK
<1>12. RouterTypeOK'
  <2>1. [turnsTaken[m] EXCEPT ![c] = turnsTaken[m][c] + 1] \in [Providers -> Nat]
      BY <1>9, <1>11
  <2>2. turnsTaken' \in [Models -> [Providers -> Nat]]
      BY <1>10, <2>1 DEF RouterInv, RouterTypeOK
  <2>3. turn' \in [Models -> Nat]
      BY <1>3, <1>6 DEF RouterInv, RouterTypeOK
  <2> QED
      BY <1>3, <2>2, <2>3 DEF RouterInv, RouterTypeOK
<1>13. \A x \in Models : RouteOf(x)' = RouteOf(x)
    BY <1>3 DEF RouteOf
<1>14. ASSUME NEW x \in Models, x # m PROVE InTurn(x)'
  <2>1. turn'[x] = turn[x] /\ turnsTaken'[x] = turnsTaken[x]
      BY <1>3, <1>10, <1>14 DEF RouterInv, RouterTypeOK
  <2> QED
      BY <1>13, <2>1 DEF RouterInv, InTurn
<1>15. InTurn(m)'
  <2>1. PICK b \in Nat, s \in 0..(n-1) :
          \A j \in 1..n : turnsTaken[m][R[j]] = b + Ahead(s, p, j - 1)
    <3>1. Turns(R, turn[m], turnsTaken[m])
        BY <1>2 DEF RouterInv, InTurn
    <3>2. RoundAt(R, n, p, turnsTaken[m])
        BY <1>3, <1>5, <1>7, <3>1 DEF Turns
    <3> QED
        BY <3>2 DEF RoundAt
  <2>2. PICK q : q = After(p, n)
      OBVIOUS
  <2>3. turn'[m] % n = q
    <3>1. turn'[m] = turn[m] + 1
        BY <1>3 DEF RouterInv, RouterTypeOK
    <3> QED
        BY <1>6, <1>7, <2>2, <3>1, NextPlace DEF After
  <2>4. PICK d \in Nat : \A j \in 0..(n-1) :
          d + Ahead(s, q, j) = (b + Ahead(s, p, j)) + (IF j = p THEN 1 ELSE 0)
    <3>1. Continues(n, s, p, b)
        BY RoundGoesOn
    <3> QED
        BY <2>2, <3>1 DEF Continues
  <2>5. ASSUME NEW j \in 1..n PROVE turnsTaken'[m][R[j]] = d + Ahead(s, q, j - 1)
    <3>1. j - 1 \in 0..(n-1) /\ (j - 1 = p <=> j = p + 1)
        BY <1>9
    <3>2. R[j] = c <=> j = p + 1
        BY <1>4, <1>5, <1>8, <1>9 DEF Distinct
    <3>3. turnsTaken[m][R[j]] = b + Ahead(s, p, j - 1) /\ turnsTaken[m][R[j]] \in Nat
        BY <1>6, <1>11, <2>1
    <3>4. turnsTaken'[m][R[j]] = turnsTaken[m][R[j]] + (IF R[j] = c THEN 1 ELSE 0)
        BY <1>6, <1>9, <1>10, <1>11, <3>3 DEF RouterInv, RouterTypeOK
    <3> QED
        BY <2>4, <3>1, <3>2, <3>3, <3>4
  <2>6. RoundAt(R, n, q, turnsTaken'[m])
      BY <2>5 DEF RoundAt
  <2>7. Turns(R, turn'[m], turnsTaken'[m])
      BY <1>5, <2>3, <2>6 DEF Turns
  <2> QED
      BY <1>2, <1>13, <2>7 DEF InTurn
<1>16. \A x \in Models \union {Wildcard} : Distinct(routes'[x])
    BY <1>3 DEF RouterInv
<1> QED
    BY <1>12, <1>14, <1>15, <1>16 DEF RouterInv

\* For any models, providers, priorities and aliases: as long as the route of a
\* model stays as it is, no provider on it has had two turns more than another,
\* whatever the priorities of the two, which the choice does not look at.  The
\* turns are a whole number of rounds and what the round under way has come
\* to; the counter of a model may stand anywhere when its route changes
\* (router.rs select).
THEOREM AllGetTurns == RouterSpec => []AllTakeTurns
<1>1. RouterInit => RouterInv
  <2> SUFFICES ASSUME RouterInit PROVE RouterInv
      OBVIOUS
  <2>1. <<>> \in Seq(Providers) /\ Len(<<>>) = 0
      BY EmptySeq
  <2>2. RouterTypeOK
      BY <2>1 DEF RouterInit, RouterTypeOK, NoTurns
  <2>3. \A n \in Models \union {Wildcard} : Distinct(routes[n])
      BY <2>1 DEF RouterInit, Distinct
  <2>4. \A m \in Models : RouteOf(m) = <<>>
      BY DEF RouterInit, RouteOf
  <2> QED
      BY <2>2, <2>3, <2>4 DEF RouterInv, InTurn, Turns
<1>2. RouterInv /\ [RouterNext]_routerVars => RouterInv'
  <2> SUFFICES ASSUME RouterInv, [RouterNext]_routerVars PROVE RouterInv'
      OBVIOUS
  <2>1. CASE \E m \in Models, p \in Providers : \E n \in {m, Wildcard} : RegisterProvider(n, p)
      BY <2>1, RegisterKeeps
  <2>2. CASE \E m, target \in Models : SetAlias(m, target)
    <3>1. PICK m \in Models, target \in Models : SetAlias(m, target)
        BY <2>2
    <3>2. RouterTypeOK' /\ UNCHANGED <<routes, turn, turnsTaken>>
        BY <3>1 DEF SetAlias, RouterInv, RouterTypeOK
    <3>3. \A x \in Models : RouteOf(x)' = RouteOf(x)
        BY <3>2 DEF RouteOf
    <3> QED
        BY <3>2, <3>3 DEF RouterInv, InTurn
  <2>3. CASE \E m \in Models : SelectProvider(m)
      BY <2>3, SelectKeeps
  <2>4. CASE UNCHANGED routerVars
    <3>1. UNCHANGED <<routes, aliases, turn, turnsTaken>>
        BY <2>4 DEF routerVars
    <3>2. \A x \in Models : RouteOf(x)' = RouteOf(x)
        BY <3>1 DEF RouteOf
    <3> QED
        BY <3>1, <3>2 DEF RouterInv, RouterTypeOK, InTurn
  <2> QED
      BY <2>1, <2>2, <2>3, <2>4 DEF RouterNext
<1>3. RouterInv => AllTakeTurns
  <2> SUFFICES ASSUME RouterInv, NEW m \in Models,
                      NEW p \in ToSet(RouteOf(m)), NEW q \in ToSet(RouteOf(m))
               PROVE  turnsTaken[m][p] - turnsTaken[m][q] <= 1
      BY DEF AllTakeTurns
  <2>1. PICK R : R = RouteOf(m)
      OBVIOUS
  <2>2. R \in Seq(Providers)
      BY <2>1 DEF RouterInv, RouterTypeOK, RouteOf
  <2>3. PICK i \in 1..Len(R), j \in 1..Len(R) : p = R[i] /\ q = R[j]
      BY <2>1, <2>2, LenProperties DEF ToSet
  <2>4. R # <<>>
      BY <2>2, <2>3, EmptySeq
  <2>5. PICK b \in Nat, s \in 0..(Len(R) - 1) :
          \A k \in 1..Len(R) : turnsTaken[m][R[k]] = b + Ahead(s, turn[m] % Len(R), k - 1)
    <3>1. Turns(R, turn[m], turnsTaken[m])
        BY <2>1 DEF RouterInv, InTurn
    <3> QED
        BY <2>4, <3>1 DEF Turns, RoundAt
  <2>6. /\ Ahead(s, turn[m] % Len(R), i - 1) \in {0, 1}
        /\ Ahead(s, turn[m] % Len(R), j - 1) \in {0, 1}
      BY DEF Ahead
  <2>7. turnsTaken[m][p] \in {b, b + 1} /\ turnsTaken[m][q] \in {b, b + 1}
      BY <2>3, <2>5, <2>6
  <2> QED
      BY <2>7
<1> QED
    BY <1>1, <1>2, <1>3, PTL DEF RouterSpec

-----------------------------------------------------------------------------
(* Sets that are listed in an order.                                       *)

\* A set of pairs that orders S: of two, one comes first, and nothing precedes itself.
Orders(R, S) ==
    /\ \A p \in S : <<p, p>> \notin R
    /\ \A p, q \in S : p # q => <<p, q>> \in R \/ <<q, p>> \in R
    /\ \A p, q, r \in S : <<p, q>> \in R /\ <<q, r>> \in R => <<p, r>> \in R

\* Each element has its place: one more than the elements before it.
LEMMA AnOrderExists ==
    ASSUME NEW S, IsFiniteSet(S), NEW R, Orders(R, S)
    PROVE  \E s \in SetToSeqs(S) : \A i, j \in DOMAIN s : i < j => <<s[i], s[j]>> \in R
<1>2. PICK n \in Nat : n = Cardinality(S)
    BY FS_CardinalityType
<1> DEFINE Before(p) == {r \in S : <<r, p>> \in R}
<1>3. ASSUME NEW p \in S
      PROVE  IsFiniteSet(Before(p)) /\ Cardinality(Before(p)) \in Nat /\ Cardinality(Before(p)) < n
  <2>1. Before(p) \in SUBSET S /\ p \notin Before(p)
      BY DEF Orders
  <2>2. /\ IsFiniteSet(Before(p)) /\ Cardinality(Before(p)) <= Cardinality(S)
        /\ Cardinality(S) = Cardinality(Before(p)) => S = Before(p)
      BY <2>1, FS_Subset
  <2>3. Cardinality(Before(p)) \in Nat
      BY <2>2, FS_CardinalityType
  <2>4. S # Before(p)
      BY <2>1
  <2> QED
      BY <1>2, <2>2, <2>3, <2>4
<1>4. ASSUME NEW p \in S, NEW q \in S, <<p, q>> \in R
      PROVE  Cardinality(Before(p)) < Cardinality(Before(q))
  <2>1. Before(p) \in SUBSET Before(q)
    <3>1. \A r \in S : <<r, p>> \in R => <<r, q>> \in R
        BY <1>4 DEF Orders
    <3> QED
        BY <3>1
  <2>2. p \in Before(q) /\ p \notin Before(p)
      BY <1>4 DEF Orders
  <2>3. IsFiniteSet(Before(q))
      BY <1>3
  <2>4. /\ Cardinality(Before(p)) <= Cardinality(Before(q))
        /\ Cardinality(Before(q)) = Cardinality(Before(p)) => Before(q) = Before(p)
      BY <2>1, <2>3, FS_Subset
  <2>5. Before(q) # Before(p)
      BY <2>2
  <2>6. Cardinality(Before(p)) \in Nat /\ Cardinality(Before(q)) \in Nat
      BY <1>3
  <2> QED
      BY <2>4, <2>5, <2>6
<1>5. PICK place : place = [p \in S |-> Cardinality(Before(p)) + 1]
    OBVIOUS
<1> HIDE DEF Before
<1>6. place \in [S -> 1..n]
    BY <1>2, <1>3, <1>5
<1>7. \A p, q \in S : p # q => <<p, q>> \in R \/ <<q, p>> \in R
    BY DEF Orders
<1>8. \A p, q \in S : <<p, q>> \in R => place[p] < place[q]
    BY <1>3, <1>4, <1>5
<1>9. ASSUME NEW p \in S, NEW q \in S, place[p] = place[q] PROVE p = q
  <2>1. place[p] \in 1..n /\ place[q] \in 1..n
      BY <1>6
  <2>2. ~(place[p] < place[q]) /\ ~(place[q] < place[p])
      BY <1>9, <2>1
  <2>3. <<p, q>> \notin R /\ <<q, p>> \notin R
      BY <1>8, <2>2
  <2> QED
      BY <1>7, <2>3
<1>10. place \in Injection(S, 1..n)
    BY <1>6, <1>9 DEF Injection, IsInjective
<1>11. IsFiniteSet(1..n) /\ Cardinality(1..n) = n
    BY <1>2, FS_Interval
<1>12. place \in Surjection(S, 1..n)
    BY <1>2, <1>10, <1>11, FS_Injection
<1>13. \A i \in 1..n : \E p \in S : place[p] = i
    BY <1>12 DEF Surjection
<1>14. PICK s : s = [i \in 1..n |-> CHOOSE p \in S : place[p] = i]
    OBVIOUS
<1>15. \A i \in 1..n : s[i] \in S /\ place[s[i]] = i
    BY <1>13, <1>14
<1>16. s \in [1..n -> S] /\ DOMAIN s = 1..n
    BY <1>14, <1>15
<1>17. \A i, j \in 1..n : i # j => s[i] # s[j]
    BY <1>15
<1>18. s \in SetToSeqs(S)
    BY <1>2, <1>16, <1>17 DEF SetToSeqs
<1>19. ASSUME NEW i \in 1..n, NEW j \in 1..n, i < j PROVE <<s[i], s[j]>> \in R
  <2>1. <<s[i], s[j]>> \in R \/ <<s[j], s[i]>> \in R
      BY <1>7, <1>15, <1>17, <1>19
  <2>2. <<s[j], s[i]>> \in R => j < i
      BY <1>8, <1>15
  <2> QED
      BY <1>19, <2>1, <2>2
<1> QED
    BY <1>16, <1>18, <1>19

\* Such a list has each element, once.
LEMMA ListsHoldEach ==
    ASSUME NEW S, IsFiniteSet(S), NEW s \in SetToSeqs(S)
    PROVE  /\ s \in Seq(S)
           /\ \A i, j \in 1..Len(s) : i # j => s[i] # s[j]
           /\ \A p \in S : \E i \in 1..Len(s) : s[i] = p
<1>4. PICK n \in Nat : n = Cardinality(S)
    BY FS_CardinalityType
<1>5. s \in [1..n -> S] /\ \A i, j \in 1..n : i # j => s[i] # s[j]
    BY <1>4 DEF SetToSeqs
<1>6. IsFiniteSet(1..n) /\ Cardinality(1..n) = n
    BY <1>4, FS_Interval
<1>7. s \in Injection(1..n, S)
    BY <1>5 DEF Injection, IsInjective
<1>8. s \in Surjection(1..n, S)
    BY <1>4, <1>6, <1>7, FS_Injection
<1>9. \A p \in S : \E i \in 1..n : s[i] = p
    BY <1>8 DEF Surjection
<1>10. s \in Seq(S) /\ Len(s) = n
    BY <1>5
<1> QED
    BY <1>5, <1>9, <1>10

-----------------------------------------------------------------------------
(* The guardrail pipeline.                                                 *)

Rules == [active : BOOLEAN, shape : RuleShapes]

RuleTypes == rule \in [RuleNames -> Rules \union {NoRule}]

\* What a pipeline has come to after each of its guards.
Begun(content) == [content |-> content, blocked |-> FALSE]

RunsAlong(ran, chain, content, m) ==
    /\ DOMAIN ran = 0..m
    /\ ran[0] = Begun(content)
    /\ \A k \in 1..m : ran[k] = RunGuard(ran[k - 1], chain[k])

LEMMA LeastNat ==
    ASSUME NEW T \in SUBSET Nat, T # {}
    PROVE  \E x \in T : \A y \in T : x <= y
<1>1. PICK R : R = OpToRel(<, Nat)
    OBVIOUS
<1>2. IsWellFoundedOn(R, Nat)
    BY <1>1, NatLessThanWellFounded
<1>3. PICK x \in T : \A y \in T : ~ (<<y, x>> \in R)
    BY <1>2, WFMin
<1>4. \A y \in T : ~ (y < x)
    BY <1>1, <1>3 DEF OpToRel
<1> QED
    BY <1>4

LEMMA RunsExist ==
    ASSUME NEW chain, NEW content, NEW n \in Nat
    PROVE  \E ran : RunsAlong(ran, chain, content, n)
<1> DEFINE Bad == {m \in Nat : ~\E ran : RunsAlong(ran, chain, content, m)}
<1>1. SUFFICES ASSUME Bad # {} PROVE FALSE
    OBVIOUS
<1>2. PICK m \in Bad : \A l \in Bad : m <= l
    BY <1>1, LeastNat
<1>3. m \in Nat
    OBVIOUS
<1>4. CASE m = 0
  <2>1. PICK ran : ran = [k \in 0..0 |-> Begun(content)]
      OBVIOUS
  <2>2. RunsAlong(ran, chain, content, 0)
      BY <2>1 DEF RunsAlong
  <2> QED
      BY <1>4, <2>2
<1>5. CASE m # 0
  <2>1. m - 1 \in Nat /\ ~(m <= m - 1)
      BY <1>3, <1>5
  <2>2. m - 1 \notin Bad
      BY <1>2, <2>1
  <2>3. PICK r : RunsAlong(r, chain, content, m - 1)
      BY <2>1, <2>2
  <2>4. PICK ran : ran = [k \in 0..m |-> IF k = m THEN RunGuard(r[m - 1], chain[m]) ELSE r[k]]
      OBVIOUS
  <2>5. ran[0] = Begun(content)
      BY <1>3, <1>5, <2>3, <2>4 DEF RunsAlong
  <2>6. ASSUME NEW k \in 1..m PROVE ran[k] = RunGuard(ran[k - 1], chain[k])
    <3>1. CASE k = m
        BY <1>3, <1>5, <2>4, <3>1
    <3>2. CASE k # m
      <4>1. k \in 1..(m - 1) /\ k - 1 \in 0..m /\ k - 1 # m /\ k \in 0..m
          BY <1>3, <2>6, <3>2
      <4>2. ran[k] = r[k] /\ ran[k - 1] = r[k - 1]
          BY <2>4, <3>2, <4>1
      <4> QED
          BY <2>3, <4>1, <4>2 DEF RunsAlong
    <3> QED
        BY <3>1, <3>2
  <2>7. RunsAlong(ran, chain, content, m)
      BY <2>4, <2>5, <2>6 DEF RunsAlong
  <2> QED
      BY <2>7
<1> QED
    BY <1>4, <1>5

LEMMA GuardsRunAlong ==
    ASSUME NEW chain, NEW content, Len(chain) \in Nat
    PROVE  \E ran : /\ RunsAlong(ran, chain, content, Len(chain))
                    /\ RunGuards(chain, content) = ran[Len(chain)]
<1>1. PICK n \in Nat : n = Len(chain)
    OBVIOUS
<1> DEFINE Fun(f) == [k \in 0..n |-> IF k = 0 THEN Begun(content)
                                     ELSE RunGuard(f[k - 1], chain[k])]
<1>2. \E f : f = Fun(f)
  <2>1. PICK f : RunsAlong(f, chain, content, n)
      BY RunsExist
  <2>2. PICK ran : ran = [k \in 0..n |-> f[k]]
      OBVIOUS
  <2>3. ASSUME NEW k \in 0..n
        PROVE  ran[k] = IF k = 0 THEN Begun(content) ELSE RunGuard(ran[k - 1], chain[k])
    <3>1. CASE k = 0
        BY <2>1, <2>2, <3>1 DEF RunsAlong
    <3>2. CASE k # 0
      <4>1. k \in 1..n /\ k - 1 \in 0..n
          BY <2>3, <3>2
      <4> QED
          BY <2>1, <2>2, <3>2, <4>1 DEF RunsAlong
    <3> QED
        BY <3>1, <3>2
  <2>4. ran = Fun(ran)
      BY <2>2, <2>3
  <2> QED
      BY <2>4
<1>3. PICK ran : ran = CHOOSE f : f = Fun(f)
    OBVIOUS
<1>4. ran = Fun(ran)
    BY <1>2, <1>3
<1>5. RunGuards(chain, content) = ran[n]
    BY <1>1, <1>3 DEF RunGuards, Begun
<1>6. RunsAlong(ran, chain, content, n)
    BY <1>4 DEF RunsAlong
<1> QED
    BY <1>1, <1>5, <1>6

LEMMA RulesRanked ==
    ASSUME RuleTypes, NEW n \in ListActive
    PROVE  n \in Nat /\ rule[n] \in Rules /\ Shape(n).priority \in Nat
<1>1. rule[n] \in Rules \union {NoRule} /\ rule[n].active /\ n \in Nat
    BY GuardrailAssumption DEF ListActive, RuleTypes, GuardrailAssumption
<1>2. rule[n] \in Rules
    BY <1>1 DEF NoRule
<1> QED
    BY <1>1, <1>2, GuardrailAssumption DEF Rules, Shape, GuardrailAssumption

LEMMA RankedLists ==
    ASSUME RuleTypes, NEW S \in SUBSET ListActive, NEW s, s = Ranked(S)
    PROVE  /\ s \in Seq(S)
           /\ \A i, j \in 1..Len(s) : i < j => ByRank(s[i], s[j])
           /\ \A i, j \in 1..Len(s) : i # j => s[i] # s[j]
           /\ \A p \in S : \E i \in 1..Len(s) : s[i] = p
<1>1. IsFiniteSet(S) /\ S \in SUBSET RuleNames
  <2>1. S \in SUBSET RuleNames
      BY DEF ListActive
  <2> QED
      BY <2>1, GuardrailAssumption, FS_Subset DEF GuardrailAssumption
<1>2. \A n \in S : n \in Nat /\ rule[n] \in Rules /\ Shape(n).priority \in Nat
    BY RulesRanked
<1>3. PICK R : R = {pair \in S \X S : ByRank(pair[1], pair[2])}
    OBVIOUS
<1>4. \A p, q \in S : <<p, q>> \in R <=> ByRank(p, q)
    BY <1>3
<1>5. Orders(R, S)
  <2>1. \A p \in S : <<p, p>> \notin R
      BY <1>2, <1>4 DEF ByRank
  <2>2. ASSUME NEW p \in S, NEW q \in S, p # q PROVE <<p, q>> \in R \/ <<q, p>> \in R
      BY <1>2, <1>4, <2>2 DEF ByRank
  <2>3. ASSUME NEW p \in S, NEW q \in S, NEW r \in S, <<p, q>> \in R, <<q, r>> \in R
        PROVE  <<p, r>> \in R
    <3>1. PICK a \in Nat : a = Shape(p).priority
        BY <1>2
    <3>2. PICK b \in Nat : b = Shape(q).priority
        BY <1>2
    <3>3. PICK c \in Nat : c = Shape(r).priority
        BY <1>2
    <3>4. ByRank(p, q) /\ ByRank(q, r)
        BY <1>4, <2>3
    <3>5. ByRank(p, r)
        BY <1>2, <3>1, <3>2, <3>3, <3>4 DEF ByRank
    <3> QED
        BY <1>4, <3>5
  <2> QED
      BY <2>1, <2>2, <2>3 DEF Orders
<1>6. \E t \in SetToSeqs(S) : \A i, j \in DOMAIN t : i < j => <<t[i], t[j]>> \in R
    BY <1>1, <1>5, AnOrderExists
<1>7. \E t \in SetToSeqs(S) : \A i, j \in DOMAIN t : i < j => ByRank(t[i], t[j])
    BY <1>3, <1>6
<1>8. s \in SetToSeqs(S) /\ \A i, j \in DOMAIN s : i < j => ByRank(s[i], s[j])
    BY <1>7 DEF Ranked
<1>9. /\ s \in Seq(S)
      /\ \A i, j \in 1..Len(s) : i # j => s[i] # s[j]
      /\ \A p \in S : \E i \in 1..Len(s) : s[i] = p
    BY <1>1, <1>8, ListsHoldEach
<1> QED
    BY <1>8, <1>9

LEMMA RedactTwice ==
    ASSUME NEW c, NEW S, NEW T
    PROVE  Redact(Redact(c, S), T) = Redact(c, S \union T)
BY DEF Redact

LEMMA RedactNothing ==
    ASSUME NEW c, c \in Seq(ToSet(c)), NEW S, NEW T, ~Matches(Redact(c, S), T)
    PROVE  Redact(c, S \union T) = Redact(c, S)
<1>1. \A i \in DOMAIN c : Redact(c, S)[i] \notin T
    BY DEF Matches, ToSet, Redact
<1> QED
    BY <1>1 DEF Redact

LEMMA GoneGrows ==
    ASSUME NEW S, NEW n
    PROVE  Gone(S \union {n}) = IF Redacts(n) THEN Gone(S) \union Shape(n).patterns ELSE Gone(S)
BY DEF Gone

LEMMA NothingGone ==
    ASSUME NEW c, c \in Seq(ToSet(c))
    PROVE  Redact(c, Gone({})) = c
<1>1. Gone({}) = {}
    BY DEF Gone
<1>2. Redact(c, {}) = c
    BY DEF Redact
<1> QED
    BY <1>1, <1>2

\* Rules of which a list holds each, in order.
InRank(s) ==
    /\ s \in Seq(RuleNames)
    /\ \A i, j \in 1..Len(s) : i < j => Sooner(s[i], s[j]) /\ ~Sooner(s[j], s[i])
    /\ \A i \in 1..Len(s) : Applies(s[i]) /\ ~Sooner(s[i], s[i])
    /\ \A n \in RuleNames : Applies(n) => \E i \in 1..Len(s) : s[i] = n

First(s, k) == {s[i] : i \in 1..k}

LEMMA BeforeAreFirst ==
    ASSUME NEW s, InRank(s), NEW k \in 1..Len(s)
    PROVE  RunBefore(s[k]) = First(s, k - 1)
<1>1. PICK n \in Nat : n = Len(s)
    BY DEF InRank
<1>2. ASSUME NEW m \in RuleNames, Applies(m), Sooner(m, s[k]) PROVE m \in First(s, k - 1)
  <2>1. PICK i \in 1..n : s[i] = m
      BY <1>1, <1>2 DEF InRank
  <2>2. ~(k < i) /\ i # k
      BY <1>1, <1>2, <2>1 DEF InRank
  <2>3. i \in 1..(k - 1)
      BY <1>1, <2>1, <2>2
  <2> QED
      BY <2>1, <2>3 DEF First
<1>3. ASSUME NEW i \in 1..(k - 1) PROVE s[i] \in RuleNames /\ Applies(s[i]) /\ Sooner(s[i], s[k])
  <2>1. i \in 1..n /\ i < k /\ k \in 1..n
      BY <1>1, <1>3
  <2> QED
      BY <1>1, <2>1 DEF InRank
<1> QED
    BY <1>2, <1>3 DEF RunBefore, First

\* What the first k guards have come to.
ComesTo(r, s, c, k) ==
    /\ r.blocked \in BOOLEAN
    /\ r.blocked <=> \E i \in 1..k : Forbids(s[i], c)
    /\ ~r.blocked => r.content = Redact(c, Gone(First(s, k)))

LEMMA GuardComesTo ==
    ASSUME NEW s, InRank(s), NEW c, c \in Seq(ToSet(c)), NEW k \in 1..Len(s),
           NEW r, ComesTo(r, s, c, k - 1), NEW t, t = RunGuard(r, s[k])
    PROVE  ComesTo(t, s, c, k)
<1>1. PICK n : n = s[k]
    OBVIOUS
<1>2. PICK S : S = First(s, k - 1)
    OBVIOUS
<1>3. First(s, k) = S \union {n}
  <2>1. 1..k = 1..(k - 1) \union {k}
      OBVIOUS
  <2> QED
      BY <1>1, <1>2, <2>1 DEF First
<1>4. \A i : i \in 1..k <=> i \in 1..(k - 1) \/ i = k
    OBVIOUS
<1>5. CASE r.blocked
  <2>1. t = r
      BY <1>5 DEF RunGuard
  <2> QED
      BY <1>4, <1>5, <2>1 DEF ComesTo
<1>6. CASE ~r.blocked
  <2>1. PICK left : left = Redact(c, Gone(S))
      OBVIOUS
  <2>2. r.content = left /\ ~\E i \in 1..(k - 1) : Forbids(s[i], c)
      BY <1>2, <1>6, <2>1 DEF ComesTo
  <2>3. PICK outcome : outcome = CheckRule(Shape(n), left)
      OBVIOUS
  <2>4. /\ t.content = IF outcome = "redact" THEN Redact(left, Shape(n).patterns) ELSE left
        /\ t.blocked = (outcome = "block")
      BY <1>1, <1>6, <2>2, <2>3 DEF RunGuard
  <2>5. Forbids(n, c) <=> outcome = "block"
    <3>1. Applies(n) /\ RunBefore(n) = S
        BY <1>1, <1>2, BeforeAreFirst DEF InRank
    <3> QED
        BY <2>1, <2>3, <3>1 DEF Forbids
  <2>6. t.blocked <=> \E i \in 1..k : Forbids(s[i], c)
      BY <1>1, <1>4, <2>2, <2>4, <2>5
  <2>7. ASSUME outcome # "block" PROVE t.content = Redact(c, Gone(S \union {n}))
    <3>1. CASE outcome = "redact"
      <4>1. Redacts(n)
          BY <2>3, <3>1 DEF CheckRule, CheckLength, Redacts
      <4>2. t.content = Redact(c, Gone(S) \union Shape(n).patterns)
          BY <2>1, <2>4, <3>1, RedactTwice
      <4> QED
          BY <4>1, <4>2, GoneGrows
    <3>2. CASE outcome # "redact" /\ Redacts(n)
      <4>1. ~Matches(left, Shape(n).patterns)
          BY <2>3, <3>2 DEF CheckRule, Redacts
      <4>2. Redact(c, Gone(S) \union Shape(n).patterns) = left
          BY <2>1, <4>1, RedactNothing
      <4> QED
          BY <2>4, <3>2, <4>2, GoneGrows
    <3>3. CASE outcome # "redact" /\ ~Redacts(n)
        BY <2>1, <2>4, <3>3, GoneGrows
    <3> QED
        BY <3>1, <3>2, <3>3
  <2> QED
      BY <1>3, <2>4, <2>6, <2>7 DEF ComesTo
<1> QED
    BY <1>5, <1>6 DEF ComesTo

LEMMA RunComesTo ==
    ASSUME NEW s, InRank(s), NEW c, c \in Seq(ToSet(c)),
           NEW ran, RunsAlong(ran, s, c, Len(s)), NEW k \in 0..Len(s)
    PROVE  ComesTo(ran[k], s, c, k)
<1>1. PICK n \in Nat : n = Len(s)
    BY DEF InRank
<1> DEFINE Bad == {m \in 0..n : ~ComesTo(ran[m], s, c, m)}
<1>2. SUFFICES ASSUME Bad # {} PROVE FALSE
    BY <1>1
<1>3. PICK m \in Bad : \A l \in Bad : m <= l
  <2>1. Bad \in SUBSET Nat
      BY <1>1
  <2> HIDE DEF Bad
  <2> QED
      BY <1>2, <2>1, LeastNat
<1>4. m \in 0..n
    OBVIOUS
<1>5. CASE m = 0
  <2>1. ran[0] = Begun(c)
      BY DEF RunsAlong
  <2>2. First(s, 0) = {}
      BY DEF First
  <2>3. ran[0].blocked = FALSE /\ ran[0].content = c
      BY <2>1 DEF Begun
  <2>4. Redact(c, Gone(First(s, 0))) = c
      BY <2>2, NothingGone
  <2>5. ~\E i \in 1..0 : Forbids(s[i], c)
      OBVIOUS
  <2>6. ComesTo(ran[0], s, c, 0)
      BY <2>3, <2>4, <2>5 DEF ComesTo
  <2> QED
      BY <1>5, <2>6
<1>6. CASE m # 0
  <2>1. m \in 1..n /\ m - 1 \in 0..n /\ ~(m <= m - 1)
      BY <1>1, <1>4, <1>6
  <2>2. ComesTo(ran[m - 1], s, c, m - 1)
      BY <1>3, <2>1
  <2>3. ran[m] = RunGuard(ran[m - 1], s[m])
      BY <1>1, <2>1 DEF RunsAlong
  <2>4. ComesTo(ran[m], s, c, m)
      BY <1>1, <2>1, <2>2, <2>3, GuardComesTo
  <2> QED
      BY <2>4
<1> QED
    BY <1>5, <1>6

LEMMA PipelineInRank ==
    ASSUME RuleTypes
    PROVE  InRank(BuildPipeline("pre_call"))
<1>1. PICK S : S = {n \in ListActive : Builds(Shape(n)) /\ StageOf(Shape(n)) = "pre_call"}
    OBVIOUS
<1>2. PICK s : s = Ranked(S)
    OBVIOUS
<1>3. s = BuildPipeline("pre_call")
    BY <1>1, <1>2 DEF BuildPipeline
<1>4. S \in SUBSET ListActive
    BY <1>1
<1>5. \A n \in RuleNames : Applies(n) <=> n \in S
    BY <1>1 DEF Applies, ListActive
<1>6. /\ s \in Seq(S)
      /\ \A i, j \in 1..Len(s) : i < j => ByRank(s[i], s[j])
      /\ \A p \in S : \E i \in 1..Len(s) : s[i] = p
    BY <1>2, <1>4, RankedLists
<1>7. S \in SUBSET RuleNames
    BY <1>4 DEF ListActive
<1>8. \A p, q \in S : (Sooner(p, q) <=> ByRank(p, q)) /\ ~(Sooner(p, q) /\ Sooner(q, p))
  <2>1. \A n \in S : n \in Nat /\ Shape(n).priority \in Nat
      BY <1>4, RulesRanked
  <2> QED
      BY <2>1 DEF Sooner, ByRank
<1>9. \A i \in 1..Len(s) : s[i] \in S
    BY <1>6
<1>10. s \in Seq(RuleNames)
    BY <1>6, <1>7
<1> QED
    BY <1>3, <1>5, <1>6, <1>7, <1>8, <1>9, <1>10 DEF InRank

GuardInv == RuleTypes /\ PipelineInOrder

LEMMA TestIsInOrder ==
    ASSUME RuleTypes, NEW c \in Contents, TestPipeline(c)
    PROVE  PipelineInOrder'
<1>1. PICK s : s = BuildPipeline("pre_call")
    OBVIOUS
<1>2. InRank(s)
    BY <1>1, PipelineInRank
<1>3. c \in Seq(ToSet(c))
    BY GuardrailAssumption DEF GuardrailAssumption
<1>4. PICK n \in Nat : n = Len(s)
    BY <1>2 DEF InRank
<1>5. PICK ran : RunsAlong(ran, s, c, n) /\ RunGuards(s, c) = ran[n]
    BY <1>4, GuardsRunAlong
<1>6. PICK r : r = ran[n]
    OBVIOUS
<1>7. ComesTo(r, s, c, n)
    BY <1>2, <1>3, <1>4, <1>5, <1>6, RunComesTo
<1>8. tested' = [content |-> c, final |-> r.content, blocked |-> r.blocked] /\ rule' = rule
    BY <1>1, <1>5, <1>6 DEF TestPipeline, RunPipeline
<1>9. First(s, n) = {m \in RuleNames : Applies(m)}
    BY <1>2, <1>4 DEF InRank, First
<1>10. (\E i \in 1..n : Forbids(s[i], c)) <=> \E m \in RuleNames : Forbids(m, c)
  <2>1. \A m \in RuleNames : Forbids(m, c) => \E i \in 1..n : s[i] = m
      BY <1>2, <1>4 DEF InRank, Forbids
  <2>2. \A i \in 1..n : s[i] \in RuleNames
      BY <1>2, <1>4 DEF InRank
  <2> QED
      BY <2>1, <2>2
<1>11. r.blocked = (\E m \in RuleNames : Forbids(m, c))
    BY <1>7, <1>10 DEF ComesTo
<1>12. ~r.blocked => r.content = Redact(c, Gone({m \in RuleNames : Applies(m)}))
    BY <1>7, <1>9 DEF ComesTo
<1>13. \A m \in RuleNames : Forbids(m, c)' <=> Forbids(m, c)
    BY <1>8 DEF Forbids, Applies, RunBefore, Sooner, Gone, Redacts, Shape
<1>14. Gone({m \in RuleNames : Applies(m)})' = Gone({m \in RuleNames : Applies(m)})
    BY <1>8 DEF Applies, Gone, Redacts, Shape
<1> QED
    BY <1>8, <1>11, <1>12, <1>13, <1>14 DEF PipelineInOrder

LEMMA GuardInvStep ==
    ASSUME GuardInv, [GuardNext]_guardVars
    PROVE  GuardInv'
<1>1. ASSUME NEW n \in RuleNames, NEW r \in Rules \union {NoRule}, WriteRule(n, r)
      PROVE  GuardInv'
  <2>1. RuleTypes'
      BY <1>1 DEF GuardInv, RuleTypes, WriteRule
  <2>2. PipelineInOrder'
      BY <1>1 DEF PipelineInOrder, WriteRule, NoTest
  <2> QED
      BY <2>1, <2>2 DEF GuardInv
<1>2. ASSUME NEW n \in RuleNames, DeleteRule(n) PROVE GuardInv'
    BY <1>1, <1>2 DEF DeleteRule
<1>3. ASSUME NEW n \in RuleNames, NEW shape \in RuleShapes, CreateRule(n, shape) PROVE GuardInv'
  <2>1. PICK r \in Rules : r = [active |-> TRUE, shape |-> shape]
      BY DEF Rules
  <2> QED
      BY <1>1, <1>3, <2>1 DEF CreateRule
<1>4. ASSUME NEW n \in RuleNames, NEW shape \in RuleShapes, NEW a \in BOOLEAN,
             UpdateRule(n, shape, a)
      PROVE  GuardInv'
  <2>1. PICK r \in Rules : r = [active |-> a, shape |-> shape]
      BY DEF Rules
  <2> QED
      BY <1>1, <1>4, <2>1 DEF UpdateRule
<1>5. ASSUME NEW content \in Contents, TestPipeline(content) PROVE GuardInv'
  <2>1. RuleTypes'
      BY <1>5 DEF GuardInv, RuleTypes, TestPipeline
  <2> QED
      BY <1>5, <2>1, TestIsInOrder DEF GuardInv
<1>6. CASE UNCHANGED guardVars
  <2>1. rule' = rule /\ tested' = tested
      BY <1>6 DEF guardVars
  <2>2. \A m \in RuleNames : \A c : Forbids(m, c)' <=> Forbids(m, c)
      BY <2>1 DEF Forbids, Applies, RunBefore, Sooner, Gone, Redacts, Shape
  <2>3. Gone({m \in RuleNames : Applies(m)})' = Gone({m \in RuleNames : Applies(m)})
      BY <2>1 DEF Applies, Gone, Redacts, Shape
  <2> QED
      BY <2>1, <2>2, <2>3 DEF GuardInv, RuleTypes, PipelineInOrder
<1> QED
    BY <1>2, <1>3, <1>4, <1>5, <1>6 DEF GuardNext

\* A test blocks exactly when a rule forbids what the rules of a lower
\* priority have left of the content, and otherwise answers what all of them
\* have left (guardrails.rs run, guardrail_rule.rs list_active): for any number
\* of rules, any priorities and contents of any length.
THEOREM PipelineFollowsRanks == GuardSpec => []PipelineInOrder
<1>1. GuardInit => GuardInv
    BY DEF GuardInit, GuardInv, RuleTypes, PipelineInOrder
<1>2. GuardInv /\ [GuardNext]_guardVars => GuardInv'
    BY GuardInvStep
<1>3. GuardInv => PipelineInOrder
    BY DEF GuardInv
<1> QED
    BY <1>1, <1>2, <1>3, PTL DEF GuardSpec

-----------------------------------------------------------------------------
(* The plugin registry.                                                    *)

\* Of plugins of which no two have a name in common, one comes first.
Named(S) ==
    /\ S \in SUBSET PluginShapes
    /\ \A p, q \in S : p.name = q.name => p = q

LEMMA RanksAreTotal ==
    ASSUME NEW p \in PluginShapes, NEW q \in PluginShapes
    PROVE  /\ KindRank(p) \in 1..5 /\ p.priority \in Nat /\ p.name \in Nat
           /\ ~RanksBefore(p, p)
           /\ p.name # q.name => RanksBefore(p, q) \/ RanksBefore(q, p)
           /\ RanksBefore(p, q) => ~RanksBefore(q, p)
<1>1. \A x \in PluginShapes : x.priority \in Nat /\ x.name \in Nat /\ x.kind \in ToSet(PluginKind)
    BY PluginAssumption DEF PluginAssumption
<1>2. DOMAIN PluginKind = 1..5
    BY DEF PluginKind
<1>3. ASSUME NEW x \in PluginShapes PROVE KindRank(x) \in Int /\ KindRank(x) \in 1..5
  <2>1. \E i \in 1..5 : PluginKind[i] = x.kind
      BY <1>1, <1>2 DEF ToSet
  <2> QED
      BY <1>2, <2>1 DEF KindRank
<1>4. KindRank(p) \in Int /\ KindRank(q) \in Int /\ KindRank(p) \in 1..5
    BY <1>3
<1> QED
    BY <1>1, <1>4 DEF RanksBefore

LEMMA RanksAreTransitive ==
    ASSUME NEW p \in PluginShapes, NEW q \in PluginShapes, NEW r \in PluginShapes,
           RanksBefore(p, q), RanksBefore(q, r)
    PROVE  RanksBefore(p, r)
<1>1. /\ p.priority \in Nat /\ q.priority \in Nat /\ r.priority \in Nat
      /\ p.name \in Nat /\ q.name \in Nat /\ r.name \in Nat
    BY PluginAssumption DEF PluginAssumption
<1>2. PICK a \in 1..5 : a = KindRank(p)
    BY RanksAreTotal
<1>3. PICK b \in 1..5 : b = KindRank(q)
    BY RanksAreTotal
<1>4. PICK c \in 1..5 : c = KindRank(r)
    BY RanksAreTotal
<1> QED
    BY <1>1, <1>2, <1>3, <1>4 DEF RanksBefore

Sorted(s) == \A i, j \in DOMAIN s : i < j => RanksBefore(s[i], s[j])

\* The list of the registered plugins holds each of them, in order.
Lists(s, S) ==
    /\ s \in Seq(PluginShapes)
    /\ Sorted(s)
    /\ \A i, j \in 1..Len(s) : i # j => s[i].name # s[j].name
    /\ \A p \in S : \E i \in 1..Len(s) : s[i] = p

LEMMA RegisteredLists ==
    ASSUME Named(plugins)
    PROVE  Lists(Registered, plugins)
<1>1. PICK s : s = Registered
    OBVIOUS
<1>2. IsFiniteSet(plugins)
    BY PluginAssumption, FS_Subset DEF PluginAssumption, Named
<1>3. PICK R : R = {pair \in plugins \X plugins : RanksBefore(pair[1], pair[2])}
    OBVIOUS
<1>4. \A p, q \in plugins : <<p, q>> \in R <=> RanksBefore(p, q)
    BY <1>3
<1>5. Orders(R, plugins)
  <2>1. \A p \in plugins : <<p, p>> \notin R
      BY <1>4, RanksAreTotal DEF Named
  <2>2. \A p, q \in plugins : p # q => <<p, q>> \in R \/ <<q, p>> \in R
      BY <1>4, RanksAreTotal DEF Named
  <2>3. ASSUME NEW p \in plugins, NEW q \in plugins, NEW r \in plugins,
               <<p, q>> \in R, <<q, r>> \in R
        PROVE  <<p, r>> \in R
      BY <1>4, <2>3, RanksAreTransitive DEF Named
  <2> QED
      BY <2>1, <2>2, <2>3 DEF Orders
<1>6. \E t \in SetToSeqs(plugins) : \A i, j \in DOMAIN t : i < j => <<t[i], t[j]>> \in R
    BY <1>2, <1>5, AnOrderExists
<1>7. \E t \in SetToSeqs(plugins) : \A i, j \in DOMAIN t : i < j => RanksBefore(t[i], t[j])
    BY <1>3, <1>6
<1>8. s \in SetToSeqs(plugins) /\ Sorted(s)
    BY <1>1, <1>7 DEF Registered, Sorted
<1>9. /\ s \in Seq(plugins)
      /\ \A i, j \in 1..Len(s) : i # j => s[i] # s[j]
      /\ \A p \in plugins : \E i \in 1..Len(s) : s[i] = p
    BY <1>2, <1>8, ListsHoldEach
<1>10. \A i, j \in 1..Len(s) : i # j => s[i].name # s[j].name
    BY <1>9 DEF Named
<1>11. s \in Seq(PluginShapes)
    BY <1>9 DEF Named
<1> QED
    BY <1>1, <1>8, <1>9, <1>10, <1>11 DEF Lists

-----------------------------------------------------------------------------
(* A phase goes through its snapshot.                                      *)

Phases == {"before_request", "after_response"}
Decisions == {"continue", "block", "respond"}

Running ==
    [phase : Phases, snapshot : Seq(PluginShapes), next : Nat, executed : Seq(PluginShapes),
     stayed : SUBSET PluginShapes, decision : Decisions]

RunTypes == run \in [PluginRuns -> Running \union {NotRunning}]

\* The snapshot lists the plugins that have been there all the time, each once
\* and in order.
SnapshotHolds(r) == Lists(r.snapshot, r.stayed)

\* What has been executed are plugins of the part of the snapshot that has been
\* gone through, in order.
InOrder(r) ==
    /\ r.next \in 1..Len(r.snapshot) + 1
    /\ \A i \in 1..Len(r.executed) :
          \E k \in 1..Len(r.snapshot) : k < r.next /\ r.executed[i] = r.snapshot[k]
    /\ \A i, j \in 1..Len(r.executed) :
          i < j => /\ r.executed[i].name # r.executed[j].name
                   /\ RanksBefore(r.executed[i], r.executed[j])

\* Nothing that runs in the phase has been left out.
NoneLeftOut(r) ==
    \A k \in 1..Len(r.snapshot) :
        k < r.next /\ RunsIn(r.snapshot[k], r.phase) =>
            \E i \in 1..Len(r.executed) : r.executed[i] = r.snapshot[k]

Sound(r) == SnapshotHolds(r) /\ InOrder(r) /\ NoneLeftOut(r)

PluginsInv ==
    /\ Named(plugins)
    /\ RunTypes
    /\ \A q \in PluginRuns : run[q] # NotRunning => Sound(run[q])

LEMMA RunningIsNotEnded ==
    ASSUME NEW r \in Running
    PROVE  r # NotRunning
BY DEF Running, NotRunning, Phases

LEMMA SkipIsSound ==
    ASSUME NEW r \in Running, Sound(r), r.next <= Len(r.snapshot),
           ~RunsIn(r.snapshot[r.next], r.phase),
           NEW t, t = [r EXCEPT !.next = @ + 1]
    PROVE  t \in Running /\ Sound(t)
<1>1. PICK k \in Nat : k = r.next
    BY DEF Running
<1>2. /\ t \in Running /\ t.next = k + 1 /\ t.phase = r.phase /\ t.snapshot = r.snapshot
      /\ t.executed = r.executed /\ t.stayed = r.stayed
    BY <1>1 DEF Running
<1>3. Len(r.snapshot) \in Nat
    BY DEF Running
<1>4. SnapshotHolds(t)
    BY <1>2 DEF Sound, SnapshotHolds
<1>5. InOrder(t)
    BY <1>1, <1>2, <1>3 DEF Sound, InOrder
<1>6. NoneLeftOut(t)
  <2>1. ASSUME NEW m \in 1..Len(r.snapshot), m < k + 1, RunsIn(r.snapshot[m], r.phase)
        PROVE  \E i \in 1..Len(r.executed) : r.executed[i] = r.snapshot[m]
    <3>1. m < k
        BY <1>1, <1>3, <2>1
    <3> QED
        BY <1>1, <2>1, <3>1 DEF Sound, NoneLeftOut
  <2> QED
      BY <1>2, <2>1 DEF NoneLeftOut
<1> QED
    BY <1>2, <1>4, <1>5, <1>6 DEF Sound

LEMMA ExecuteIsSound ==
    ASSUME NEW r \in Running, Sound(r), r.next <= Len(r.snapshot), NEW d \in Decisions,
           NEW t, t = [r EXCEPT !.next = @ + 1,
                                !.executed = Append(@, r.snapshot[r.next]), !.decision = d]
    PROVE  t \in Running /\ Sound(t)
<1>1. PICK k \in Nat : k = r.next
    BY DEF Running
<1>2. PICK n \in Nat : n = Len(r.snapshot)
    BY DEF Running
<1>3. PICK m \in Nat : m = Len(r.executed)
    BY DEF Running
<1>4. k \in 1..n
    BY <1>1, <1>2 DEF Sound, InOrder
<1>5. PICK p \in PluginShapes : p = r.snapshot[k]
    BY <1>2, <1>4 DEF Running
<1>6. PICK e : e = Append(r.executed, p)
    OBVIOUS
<1>61. e \in Seq(PluginShapes)
  <2>1. PICK x \in Seq(PluginShapes) : x = r.executed
      BY DEF Running
  <2> QED
      BY <1>5, <1>6, <2>1
<1>7. /\ t \in Running /\ t.next = k + 1 /\ t.phase = r.phase /\ t.snapshot = r.snapshot
      /\ t.executed = e /\ t.stayed = r.stayed
  <2>1. PICK l \in Nat : l = k + 1
      BY <1>1
  <2>2. t = [r EXCEPT !.next = l, !.executed = e, !.decision = d]
      BY <1>1, <1>5, <1>6, <2>1 DEF Running
  <2>3. t = [phase |-> r.phase, snapshot |-> r.snapshot, next |-> l, executed |-> e,
             stayed |-> r.stayed, decision |-> d]
      BY <2>2 DEF Running
  <2>4. r.phase \in Phases /\ r.snapshot \in Seq(PluginShapes) /\ r.stayed \in SUBSET PluginShapes
      BY DEF Running
  <2>5. t \in Running
      BY <1>61, <2>3, <2>4 DEF Running
  <2>6. /\ t.next = l /\ t.phase = r.phase /\ t.snapshot = r.snapshot
        /\ t.executed = e /\ t.stayed = r.stayed
      BY <2>2 DEF Running
  <2> QED
      BY <2>1, <2>5, <2>6
<1>8. Len(e) = m + 1 /\ e[m + 1] = p /\ \A i \in 1..m : e[i] = r.executed[i]
    BY <1>3, <1>6 DEF Running
<1>9. SnapshotHolds(t)
    BY <1>7 DEF Sound, SnapshotHolds
<1>10. \A i \in 1..m : \E l \in 1..n : l < k /\ e[i] = r.snapshot[l]
    BY <1>1, <1>2, <1>3, <1>8 DEF Sound, InOrder
<1>11. \A i \in 1..(m + 1) : \E l \in 1..n : l < k + 1 /\ e[i] = r.snapshot[l]
  <2>1. ASSUME NEW i \in 1..(m + 1) PROVE \E l \in 1..n : l < k + 1 /\ e[i] = r.snapshot[l]
    <3>1. CASE i = m + 1
        BY <1>4, <1>5, <1>8, <3>1
    <3>2. CASE i \in 1..m
      <4>1. PICK l \in 1..n : l < k /\ e[i] = r.snapshot[l]
          BY <1>10, <3>2
      <4> QED
          BY <4>1
    <3> QED
        BY <2>1, <3>1, <3>2
  <2> QED
      BY <2>1
<1>12. \A i, j \in 1..(m + 1) : i < j => e[i].name # e[j].name /\ RanksBefore(e[i], e[j])
  <2>1. ASSUME NEW i \in 1..(m + 1), NEW j \in 1..(m + 1), i < j
        PROVE  e[i].name # e[j].name /\ RanksBefore(e[i], e[j])
    <3>1. CASE j = m + 1
      <4>1. i \in 1..m
          BY <2>1, <3>1
      <4>2. PICK l \in 1..n : l < k /\ e[i] = r.snapshot[l]
          BY <1>10, <4>1
      <4>3. r.snapshot[l].name # r.snapshot[k].name /\ RanksBefore(r.snapshot[l], r.snapshot[k])
        <5>1. DOMAIN r.snapshot = 1..n
            BY <1>2 DEF Running
        <5> QED
            BY <1>2, <1>4, <4>2, <5>1 DEF Sound, SnapshotHolds, Lists, Sorted
      <4> QED
          BY <1>5, <1>8, <3>1, <4>2, <4>3
    <3>2. CASE j \in 1..m
      <4>1. i \in 1..m
          BY <2>1, <3>2
      <4>2. r.executed[i].name # r.executed[j].name /\ RanksBefore(r.executed[i], r.executed[j])
          BY <1>3, <2>1, <3>2, <4>1 DEF Sound, InOrder
      <4> QED
          BY <1>8, <3>2, <4>1, <4>2
    <3> QED
        BY <2>1, <3>1, <3>2
  <2> QED
      BY <2>1
<1>13. InOrder(t)
  <2>1. t.next \in 1..Len(t.snapshot) + 1
      BY <1>2, <1>4, <1>7
  <2>2. Len(t.snapshot) = n /\ Len(t.executed) = m + 1 /\ t.next = k + 1
      BY <1>2, <1>7, <1>8
  <2>3. \A i \in 1..Len(t.executed) :
            \E l \in 1..Len(t.snapshot) : l < t.next /\ t.executed[i] = t.snapshot[l]
      BY <1>7, <1>11, <2>2
  <2>4. \A i, j \in 1..Len(t.executed) :
            i < j => /\ t.executed[i].name # t.executed[j].name
                     /\ RanksBefore(t.executed[i], t.executed[j])
      BY <1>7, <1>12, <2>2
  <2> QED
      BY <2>1, <2>3, <2>4 DEF InOrder
<1>14. NoneLeftOut(t)
  <2>1. ASSUME NEW l \in 1..n, l < k + 1, RunsIn(r.snapshot[l], r.phase)
        PROVE  \E i \in 1..(m + 1) : e[i] = r.snapshot[l]
    <3>1. CASE l = k
        BY <1>5, <1>8, <3>1
    <3>2. CASE l < k
      <4>1. PICK i \in 1..m : r.executed[i] = r.snapshot[l]
          BY <1>1, <1>2, <1>3, <2>1, <3>2 DEF Sound, NoneLeftOut
      <4> QED
          BY <1>8, <4>1
    <3> QED
        BY <2>1, <3>1, <3>2
  <2> QED
      BY <1>2, <1>7, <1>8, <2>1 DEF NoneLeftOut
<1> QED
    BY <1>7, <1>9, <1>13, <1>14 DEF Sound

LEMMA LeaveIsSound ==
    ASSUME NEW r \in Running, Sound(r), NEW S, NEW t, t = [r EXCEPT !.stayed = @ \intersect S]
    PROVE  t \in Running /\ Sound(t)
<1>1. /\ t \in Running /\ t.next = r.next /\ t.phase = r.phase /\ t.snapshot = r.snapshot
      /\ t.executed = r.executed /\ t.stayed \in SUBSET r.stayed
    BY DEF Running
<1>2. SnapshotHolds(t)
    BY <1>1 DEF Sound, SnapshotHolds, Lists
<1> QED
    BY <1>1, <1>2 DEF Sound, InOrder, NoneLeftOut

LEMMA StartIsSound ==
    ASSUME Named(plugins), NEW phase \in Phases,
           NEW t, t = [phase |-> phase, snapshot |-> Registered, next |-> 1, executed |-> <<>>,
                       stayed |-> plugins, decision |-> "continue"]
    PROVE  t \in Running /\ Sound(t)
<1>1. PICK s \in Seq(PluginShapes) : s = Registered /\ Lists(s, plugins)
    BY RegisteredLists DEF Lists
<1>2. /\ t \in Running /\ t.next = 1 /\ t.snapshot = s
      /\ t.executed = <<>> /\ t.stayed = plugins
    BY <1>1 DEF Running, Decisions, Named
<1>3. Len(s) \in Nat /\ Len(t.executed) = 0
    BY <1>1, <1>2
<1>4. SnapshotHolds(t)
    BY <1>1, <1>2 DEF SnapshotHolds
<1>5. InOrder(t) /\ NoneLeftOut(t)
    BY <1>2, <1>3 DEF InOrder, NoneLeftOut
<1> QED
    BY <1>2, <1>4, <1>5 DEF Sound

LEMMA SetPluginsStep ==
    ASSUME PluginsInv, NEW S, Named(S), SetPlugins(S)
    PROVE  PluginsInv'
<1>1. Named(plugins)'
    BY DEF SetPlugins, Named
<1>2. ASSUME NEW q \in PluginRuns
      PROVE  run'[q] \in Running \union {NotRunning} /\ (run'[q] # NotRunning => Sound(run'[q]))
  <2>1. CASE run[q] = NotRunning
      BY <2>1 DEF SetPlugins
  <2>2. CASE run[q] # NotRunning
    <3>1. run[q] \in Running /\ Sound(run[q])
        BY <2>2 DEF PluginsInv, RunTypes
    <3>2. run'[q] = [run[q] EXCEPT !.stayed = @ \intersect S]
        BY <2>2 DEF SetPlugins
    <3> QED
        BY <3>1, <3>2, LeaveIsSound
  <2> QED
      BY <2>1, <2>2
<1>3. RunTypes'
    BY <1>2 DEF RunTypes, SetPlugins
<1> QED
    BY <1>1, <1>2, <1>3 DEF PluginsInv

\* A step of one phase changes its own record and no other.
LEMMA PhaseStep ==
    ASSUME PluginsInv, NEW q \in PluginRuns, NEW t \in Running \union {NotRunning},
           t # NotRunning => Sound(t), run' = [run EXCEPT ![q] = t], UNCHANGED plugins
    PROVE  PluginsInv'
<1>1. RunTypes'
    BY DEF PluginsInv, RunTypes
<1>2. \A p \in PluginRuns : run'[p] = IF p = q THEN t ELSE run[p]
    BY DEF PluginsInv, RunTypes
<1>3. Named(plugins)'
    BY DEF PluginsInv, Named
<1> QED
    BY <1>1, <1>2, <1>3 DEF PluginsInv

LEMMA PluginsInvStep ==
    ASSUME PluginsInv, [PluginsNext]_pluginVars
    PROVE  PluginsInv'
<1>1. ASSUME NEW p \in PluginShapes, RegisterPlugin(p) PROVE PluginsInv'
  <2>1. Named(Others(p.name) \union {p})
      BY DEF PluginsInv, Named, Others
  <2> QED
      BY <1>1, <2>1, SetPluginsStep DEF RegisterPlugin
<1>2. ASSUME NEW p \in PluginShapes, Unregister(p) PROVE PluginsInv'
  <2>1. Named(plugins \ {p})
      BY DEF PluginsInv, Named
  <2> QED
      BY <1>2, <2>1, SetPluginsStep DEF Unregister
<1>3. ASSUME NEW q \in PluginRuns, SkipPlugin(q) PROVE PluginsInv'
  <2>1. PICK r \in Running : r = run[q] /\ Sound(r)
      BY <1>3 DEF PluginsInv, RunTypes, SkipPlugin
  <2>2. PICK t : t = [r EXCEPT !.next = @ + 1]
      OBVIOUS
  <2>3. run' = [run EXCEPT ![q] = t] /\ UNCHANGED plugins
      BY <1>3, <2>1, <2>2 DEF SkipPlugin
  <2>4. r.next \in Nat /\ Len(r.snapshot) \in Nat
      BY DEF Running
  <2>5. r.next <= Len(r.snapshot) /\ ~RunsIn(r.snapshot[r.next], r.phase)
      BY <1>3, <2>1, <2>4 DEF SkipPlugin, Over, Chain
  <2>6. t \in Running /\ Sound(t)
      BY <2>1, <2>2, <2>5, SkipIsSound
  <2> QED
      BY <2>3, <2>6, PhaseStep
<1>4. ASSUME NEW q \in PluginRuns, ExecutePlugin(q) PROVE PluginsInv'
  <2>1. PICK r \in Running : r = run[q] /\ Sound(r)
      BY <1>4 DEF PluginsInv, RunTypes, ExecutePlugin
  <2>2. PICK p : p = r.snapshot[r.next]
      OBVIOUS
  <2>3. PICK d \in Decisions :
            run' = [run EXCEPT ![q].next = @ + 1, ![q].executed = Append(@, p), ![q].decision = d]
      BY <1>4, <2>1, <2>2 DEF ExecutePlugin, Chain, Decisions
  <2>4. PICK t : t = [r EXCEPT !.next = @ + 1, !.executed = Append(@, p), !.decision = d]
      OBVIOUS
  <2>5. run' = [run EXCEPT ![q] = t]
      BY <2>1, <2>3, <2>4 DEF PluginsInv, RunTypes, Running
  <2>6. r.next \in Nat /\ Len(r.snapshot) \in Nat
      BY DEF Running
  <2>7. r.next <= Len(r.snapshot) /\ UNCHANGED plugins
      BY <1>4, <2>1, <2>6 DEF ExecutePlugin, Over, Chain
  <2>8. t \in Running /\ Sound(t)
      BY <2>1, <2>2, <2>4, <2>7, ExecuteIsSound
  <2> QED
      BY <2>5, <2>7, <2>8, PhaseStep
<1>5. ASSUME NEW q \in PluginRuns, EndPhase(q) PROVE PluginsInv'
    BY <1>5, PhaseStep DEF EndPhase
<1>6. ASSUME NEW q \in PluginRuns, NEW phase \in Phases, RunPhase(q, phase) PROVE PluginsInv'
  <2>1. PICK t : t = [phase |-> phase, snapshot |-> Registered, next |-> 1, executed |-> <<>>,
                      stayed |-> plugins, decision |-> "continue"]
      OBVIOUS
  <2>2. t \in Running /\ Sound(t)
      BY <2>1, StartIsSound DEF PluginsInv
  <2>3. run' = [run EXCEPT ![q] = t] /\ UNCHANGED plugins
      BY <1>6, <2>1 DEF RunPhase
  <2> QED
      BY <2>2, <2>3, PhaseStep
<1>7. CASE UNCHANGED pluginVars
    BY <1>7 DEF pluginVars, PluginsInv, Named, RunTypes
<1> QED
    BY <1>1, <1>2, <1>3, <1>4, <1>5, <1>6, <1>7 DEF PluginsNext, Phases

LEMMA PluginsInvImplies ==
    ASSUME PluginsInv
    PROVE  OnceInOrder
<1> SUFFICES ASSUME NEW q \in PluginRuns, run[q] # NotRunning
             PROVE  LET done == run[q].executed IN
                    /\ \A i, j \in DOMAIN done :
                          i < j => done[i].name # done[j].name /\ RanksBefore(done[i], done[j])
                    /\ Over(q) /\ run[q].decision = "continue" =>
                          {p \in run[q].stayed : RunsIn(p, run[q].phase)} \subseteq ToSet(done)
    BY DEF OnceInOrder
<1>1. PICK r \in Running : r = run[q] /\ Sound(r)
    BY DEF PluginsInv, RunTypes
<1>2. PICK done \in Seq(PluginShapes) : done = r.executed
    BY DEF Running
<1>3. DOMAIN done = 1..Len(done)
    OBVIOUS
<1>4. \A i, j \in DOMAIN done :
          i < j => done[i].name # done[j].name /\ RanksBefore(done[i], done[j])
    BY <1>1, <1>2, <1>3 DEF Sound, InOrder
<1>5. ASSUME Over(q), r.decision = "continue", NEW p \in r.stayed, RunsIn(p, r.phase)
      PROVE  p \in ToSet(done)
  <2>1. r.next \in Nat /\ Len(r.snapshot) \in Nat
      BY DEF Running
  <2>2. r.next > Len(r.snapshot)
      BY <1>1, <1>5 DEF Over, Chain
  <2>3. PICK k \in 1..Len(r.snapshot) : r.snapshot[k] = p
      BY <1>1, <1>5 DEF Sound, SnapshotHolds, Lists
  <2>4. k < r.next
      BY <2>1, <2>2, <2>3
  <2>5. PICK i \in 1..Len(done) : done[i] = p
      BY <1>1, <1>2, <1>5, <2>3, <2>4 DEF Sound, NoneLeftOut
  <2> QED
      BY <1>3, <2>5 DEF ToSet
<1> QED
    BY <1>1, <1>2, <1>4, <1>5

\* However the registry is swapped in the meantime, a phase executes no plugin
\* twice, in the order of kind, priority and name, and every plugin that is
\* there all the time has its turn, unless one before it blocks or responds
\* (registry.rs run_phase): for any plugins and any number of phases.
THEOREM PluginsOnceInOrder == PluginsSpec => []OnceInOrder
<1>1. PluginsInit => PluginsInv
  <2>1. PluginsInit => Named(plugins) /\ RunTypes /\ \A q \in PluginRuns : run[q] = NotRunning
      BY DEF PluginsInit, Named, RunTypes
  <2> QED
      BY <2>1 DEF PluginsInv
<1>2. PluginsInv /\ [PluginsNext]_pluginVars => PluginsInv'
    BY PluginsInvStep
<1>3. PluginsInv => OnceInOrder
    BY PluginsInvImplies
<1> QED
    BY <1>1, <1>2, <1>3, PTL DEF PluginsSpec
=============================================================================
