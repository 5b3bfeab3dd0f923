------------------------------ MODULE Prompts ------------------------------
(***************************************************************************)
(* The versions of a prompt and the labels they are deployed under         *)
(* (handlers/prompts.rs, gateway-db prompt.rs).  A handler makes two       *)
(* queries, and other handlers come between them.  One prompt; a content   *)
(* is a number, new with every version that is created, and 0 is none.     *)
(***************************************************************************)
EXTENDS Integers, FiniteSets, FiniteSetsExt

CONSTANTS
    Labels,
    Editors,        \* handlers at work at a time
    ContentLimit    \* bound on the contents created

ASSUME PromptsAssumption == ContentLimit \in Nat /\ IsFiniteSet(Editors)

VARIABLES
    version,        \* version number -> its content, 0 when it is not there
    deployment,     \* label -> version number, 0 when there is none
    editor,         \* where each handler is
    contents,       \* contents created so far
    meant,          \* label -> the content that was there to be deployed
    withdrawn,      \* labels whose version has been deleted since
    answer          \* the last resolution: its content, and what it might be

promptVars == <<version, deployment, editor, contents, meant, withdrawn, answer>>

Versions == 1..ContentLimit
AnyContent == 0..ContentLimit
NotEditing == [at |-> "idle"]

PromptsInit ==
    /\ version = [v \in Versions |-> 0]
    /\ deployment = [l \in Labels |-> 0]
    /\ editor = [e \in Editors |-> NotEditing]
    /\ contents = 0
    /\ meant = [l \in Labels |-> 0] /\ withdrawn = {}
    /\ answer = [content |-> 0, allowed |-> {0}]

Edit(e, at) == editor' = [editor EXCEPT ![e] = at]

There == {v \in Versions : version[v] # 0}
Latest == IF There = {} THEN 0 ELSE Max(There)
ContentOf(v) == IF v = 0 THEN 0 ELSE version[v]

\* The next version is the greatest one and one: the number of the last
\* version comes back when it has been deleted.
NextVersion(e) ==
    /\ editor[e] = NotEditing /\ contents < ContentLimit
    /\ contents' = contents + 1
    /\ Edit(e, [at |-> "insert", version |-> Latest + 1, content |-> contents + 1])
    /\ UNCHANGED <<version, deployment, meant, withdrawn, answer>>

\* Mutant: a version that is there is written over.
TakesAny(v) == TRUE

\* UNIQUE (tenant_id, name, version).
Takes(v) == version[v] = 0

InsertVersion(e) ==
    /\ editor[e].at = "insert"
    /\ version' = IF Takes(editor[e].version)
                  THEN [version EXCEPT ![editor[e].version] = editor[e].content]
                  ELSE version
    /\ Edit(e, NotEditing)
    /\ UNCHANGED <<deployment, contents, meant, withdrawn, answer>>

\* deploy confirms that the version is there, and then writes it.
ConfirmVersion(e, l, v) ==
    /\ editor[e] = NotEditing /\ v \in There
    /\ Edit(e, [at |-> "deploy", label |-> l, version |-> v,
                content |-> version[v], deleted |-> FALSE])
    /\ UNCHANGED <<version, deployment, contents, meant, withdrawn, answer>>

Deploy(e) ==
    /\ editor[e].at = "deploy"
    /\ LET l == editor[e].label IN
       /\ deployment' = [deployment EXCEPT ![l] = editor[e].version]
       /\ meant' = [meant EXCEPT ![l] = editor[e].content]
       /\ withdrawn' = IF editor[e].deleted THEN withdrawn \union {l} ELSE withdrawn \ {l}
    /\ Edit(e, NotEditing)
    /\ UNCHANGED <<version, contents, answer>>

\* The deployments of a version that is deleted stay.
DeleteVersion(v) ==
    /\ v \in There
    /\ version' = [version EXCEPT ![v] = 0]
    /\ withdrawn' = withdrawn \union {l \in Labels : deployment[l] = v}
    /\ editor' = [e \in Editors |->
          IF editor[e].at \in {"deploy", "resolve"} /\ editor[e].version = v
          THEN [editor[e] EXCEPT !.deleted = TRUE] ELSE editor[e]]
    /\ UNCHANGED <<deployment, contents, meant, answer>>

\* resolve: the deployment of the label, and then its version; the latest one
\* when there is no deployment.
GetDeployment(e, l) ==
    /\ editor[e] = NotEditing
    /\ Edit(e, [at |-> "resolve", version |-> deployment[l],
                content |-> meant[l], deleted |-> l \in withdrawn])
    /\ UNCHANGED <<version, deployment, contents, meant, withdrawn, answer>>

GetVersion(e) ==
    /\ editor[e].at = "resolve"
    /\ answer' = IF editor[e].version = 0
                 THEN [content |-> ContentOf(Latest), allowed |-> AnyContent]
                 ELSE [content |-> version[editor[e].version],
                       allowed |-> IF editor[e].deleted THEN AnyContent ELSE {editor[e].content}]
    /\ Edit(e, NotEditing)
    /\ UNCHANGED <<version, deployment, contents, meant, withdrawn>>

PromptsNext ==
    \/ \E e \in Editors :
          \/ NextVersion(e) \/ InsertVersion(e) \/ Deploy(e) \/ GetVersion(e)
          \/ \E l \in Labels : GetDeployment(e, l) \/ \E v \in Versions : ConfirmVersion(e, l, v)
    \/ \E v \in Versions : DeleteVersion(v)

PromptsSpec == PromptsInit /\ [][PromptsNext]_promptVars

----------------------------------------------------------------------------
\* Unless its version has been deleted since, a label stands for the very
\* content that was there when it was deployed, and that content is what it
\* resolves to, whoever creates, deploys and deletes in the meantime
\* (handlers/prompts.rs deploy, create, resolve).  A number that is deleted may
\* come back with another content.
LabelsKeepContent ==
    /\ \A l \in Labels \ withdrawn :
          deployment[l] # 0 => version[deployment[l]] = meant[l]
    /\ answer.content \in answer.allowed
=============================================================================
