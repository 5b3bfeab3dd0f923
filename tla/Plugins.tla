------------------------------ MODULE Plugins ------------------------------
(***************************************************************************)
(* The plugin registry (gateway-plugin registry.rs, plugin.rs,             *)
(* decision.rs): plugins are registered, replaced and removed while        *)
(* requests run through them.  A phase takes a snapshot of the registry    *)
(* and awaits one plugin after the other.                                  *)
(***************************************************************************)
EXTENDS Integers, SequencesExt

CONSTANTS
    PluginShapes,   \* plugins: name (a number, in their order), kind, priority, enabled
    PluginRuns      \* phases under way at a time

PluginKind == <<"input", "output", "guardrail", "observer", "auth">>

ASSUME PluginAssumption ==
    /\ IsFiniteSet(PluginShapes)
    /\ \A p \in PluginShapes :
          p.name \in Nat /\ p.priority \in Nat /\ p.kind \in ToSet(PluginKind)

VARIABLES
    plugins,        \* what is registered
    run             \* where each phase is: its snapshot, what it has executed,
                    \* and which of the plugins have been there all the time

pluginVars == <<plugins, run>>

NotRunning == [phase |-> "none"]

PluginsInit ==
    /\ plugins = {}
    /\ run = [q \in PluginRuns |-> NotRunning]

----------------------------------------------------------------------------
(* register and unregister.                                                *)

KindRank(p) == CHOOSE i \in DOMAIN PluginKind : PluginKind[i] = p.kind

RanksBefore(p, q) ==
    \/ KindRank(p) < KindRank(q)
    \/ KindRank(p) = KindRank(q) /\ p.priority < q.priority
    \/ KindRank(p) = KindRank(q) /\ p.priority = q.priority /\ p.name < q.name

Registered ==
    CHOOSE s \in SetToSeqs(plugins) :
        \A i, j \in DOMAIN s : i < j => RanksBefore(s[i], s[j])

Others(name) == {p \in plugins : p.name # name}

\* The phases under way remember which plugins have stayed.
SetPlugins(S) ==
    /\ plugins' = S
    /\ run' = [q \in PluginRuns |->
          IF run[q] = NotRunning THEN NotRunning ELSE [run[q] EXCEPT !.stayed = @ \intersect S]]

\* A plugin of the same name is replaced.
RegisterPlugin(p) == p \notin plugins /\ SetPlugins(Others(p.name) \union {p})

Unregister(p) == p \in plugins /\ SetPlugins(plugins \ {p})

----------------------------------------------------------------------------
(* run_phase.                                                              *)

RunsIn(p, phase) ==
    /\ p.enabled
    /\ \/ phase = "before_request" /\ p.kind \in {"input", "guardrail", "auth"}
       \/ phase = "after_response" /\ p.kind \in {"output", "observer"}

RunPhase(q, phase) ==
    /\ run[q] = NotRunning
    /\ run' = [run EXCEPT ![q] =
          [phase |-> phase, snapshot |-> Registered, next |-> 1, executed |-> <<>>,
           stayed |-> plugins, decision |-> "continue"]]
    /\ UNCHANGED plugins

\* Mutant: the loop goes over the registry as it is.
LiveChain(q) == Registered

Chain(q) == run[q].snapshot

Over(q) == run[q].decision # "continue" \/ run[q].next > Len(Chain(q))

SkipPlugin(q) ==
    /\ run[q] # NotRunning /\ ~Over(q)
    /\ ~RunsIn(Chain(q)[run[q].next], run[q].phase)
    /\ run' = [run EXCEPT ![q].next = @ + 1]
    /\ UNCHANGED plugins

\* The hook continues or modifies, fails and is passed over, blocks or responds.
ExecutePlugin(q) ==
    /\ run[q] # NotRunning /\ ~Over(q)
    /\ LET p == Chain(q)[run[q].next] IN
       /\ RunsIn(p, run[q].phase)
       /\ \E decision \in {"continue", "block", "respond"} :
             run' = [run EXCEPT ![q].next = @ + 1,
                                ![q].executed = Append(@, p),
                                ![q].decision = decision]
    /\ UNCHANGED plugins

EndPhase(q) ==
    /\ run[q] # NotRunning /\ Over(q)
    /\ run' = [run EXCEPT ![q] = NotRunning]
    /\ UNCHANGED plugins

PluginsNext ==
    \/ \E p \in PluginShapes : RegisterPlugin(p) \/ Unregister(p)
    \/ \E q \in PluginRuns :
          \/ SkipPlugin(q) \/ ExecutePlugin(q) \/ EndPhase(q)
          \/ \E phase \in {"before_request", "after_response"} : RunPhase(q, phase)

PluginsSpec == PluginsInit /\ [][PluginsNext]_pluginVars

----------------------------------------------------------------------------
\* However the registry is swapped in the meantime, a phase executes no plugin
\* twice, in the order of kind, priority and name, and every plugin that is
\* there all the time has its turn, unless one before it blocks or responds
\* (registry.rs run_phase).
OnceInOrder ==
    \A q \in PluginRuns : run[q] # NotRunning =>
        LET done == run[q].executed IN
        /\ \A i, j \in DOMAIN done :
              i < j => done[i].name # done[j].name /\ RanksBefore(done[i], done[j])
        /\ Over(q) /\ run[q].decision = "continue" =>
              {p \in run[q].stayed : RunsIn(p, run[q].phase)} \subseteq ToSet(done)
=============================================================================
