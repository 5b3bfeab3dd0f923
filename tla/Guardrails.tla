----------------------------- MODULE Guardrails -----------------------------
(***************************************************************************)
(* The guardrail rules of a tenant (handlers/guardrails.rs, gateway-db     *)
(* guardrail_rule.rs), the pipeline that is built from them                *)
(* (guardrails_build.rs) and what it makes of a content (gateway-policy    *)
(* guardrails.rs).  Only the endpoint that tests the rules builds it; a    *)
(* completion is sent to its provider without (handlers/llm.rs).           *)
(*                                                                         *)
(* A content is a sequence of words; a pattern matches some words, and     *)
(* none the token that stands for them when they are redacted.  Rules are  *)
(* named by numbers, in the order of their names.                          *)
(***************************************************************************)
EXTENDS Integers, SequencesExt

CONSTANTS
    RuleNames,
    RuleShapes,     \* what is written in a rule: kind, stage, mode, patterns, max, priority
    Contents,       \* sequences of words
    WordSize(_)     \* the bytes of a word, and of what stands for a redacted one

ASSUME GuardrailAssumption ==
    /\ RuleNames \subseteq Nat /\ IsFiniteSet(RuleNames)
    /\ \A s \in RuleShapes : s.priority \in Nat
    /\ \A c \in Contents : c \in Seq(ToSet(c))

VARIABLES
    rule,           \* name -> NoRule, or what is written and whether it is active
    tested          \* the last test of these rules

guardVars == <<rule, tested>>

NoRule == [active |-> FALSE]
NoTest == [content |-> <<>>, final |-> <<>>, blocked |-> FALSE]
Redacted == "[REDACTED]"

GuardInit ==
    /\ rule = [n \in RuleNames |-> NoRule]
    /\ tested = NoTest

----------------------------------------------------------------------------
(* The rules.                                                              *)

WriteRule(n, r) ==
    /\ rule' = [rule EXCEPT ![n] = r]
    /\ tested' = NoTest

\* UNIQUE (tenant_id, name); a new rule is active.
CreateRule(n, shape) ==
    /\ rule[n] = NoRule
    /\ WriteRule(n, [active |-> TRUE, shape |-> shape])

UpdateRule(n, shape, active) ==
    /\ rule[n] # NoRule
    /\ WriteRule(n, [active |-> active, shape |-> shape])

DeleteRule(n) == rule[n] # NoRule /\ WriteRule(n, NoRule)

----------------------------------------------------------------------------
(* The pipeline.                                                           *)

Shape(n) == rule[n].shape

\* Mutant: rules come in the order of their names.
ByName(m, n) == m < n

ByRank(m, n) ==
    Shape(m).priority < Shape(n).priority \/ (Shape(m).priority = Shape(n).priority /\ m < n)

Ranked(S) ==
    CHOOSE s \in SetToSeqs(S) : \A i, j \in DOMAIN s : i < j => ByRank(s[i], s[j])

ListActive == {n \in RuleNames : rule[n].active}

\* A schema is for responses, whatever the rule says.
StageOf(shape) == IF shape.kind = "json_schema" THEN "post_call" ELSE shape.stage

\* A regex rule without patterns is skipped; a pii rule without types has all.
Builds(shape) == shape.kind = "regex" => shape.patterns # {}

BuildPipeline(stage) ==
    Ranked({n \in ListActive : Builds(Shape(n)) /\ StageOf(Shape(n)) = stage})

Matches(content, patterns) == ToSet(content) \intersect patterns # {}

Redact(content, patterns) ==
    [i \in DOMAIN content |-> IF content[i] \in patterns THEN Redacted ELSE content[i]]

\* The bytes of a content as it is by then, redactions included.
Size(content) ==
    LET upTo[k \in 0..Len(content)] ==
            IF k = 0 THEN 0 ELSE upTo[k - 1] + WordSize(content[k])
    IN  upTo[Len(content)]

\* A length rule blocks in every mode.
CheckLength(shape, content) == IF Size(content) > shape.max THEN "block" ELSE "pass"

CheckRule(shape, content) ==
    IF shape.kind = "length" THEN CheckLength(shape, content)
    ELSE IF Matches(content, shape.patterns) THEN shape.mode ELSE "pass"

\* What is blocked stays as it was when it was blocked.
RunGuard(run, n) ==
    LET outcome == CheckRule(Shape(n), run.content) IN
    IF run.blocked THEN run
    ELSE [content |-> IF outcome = "redact" THEN Redact(run.content, Shape(n).patterns)
                      ELSE run.content,
          blocked |-> outcome = "block"]

RunGuards(chain, content) ==
    LET ran[k \in 0..Len(chain)] ==
            IF k = 0 THEN [content |-> content, blocked |-> FALSE]
            ELSE RunGuard(ran[k - 1], chain[k])
    IN  ran[Len(chain)]

RunPipeline(stage, content) == RunGuards(BuildPipeline(stage), content)

TestPipeline(content) ==
    /\ LET run == RunPipeline("pre_call", content) IN
       tested' = [content |-> content, final |-> run.content, blocked |-> run.blocked]
    /\ UNCHANGED rule

GuardNext ==
    \/ \E n \in RuleNames :
          \/ DeleteRule(n)
          \/ \E shape \in RuleShapes :
                CreateRule(n, shape) \/ \E a \in BOOLEAN : UpdateRule(n, shape, a)
    \/ \E content \in Contents : TestPipeline(content)

GuardSpec == GuardInit /\ [][GuardNext]_guardVars

----------------------------------------------------------------------------
(* What the order of the rules means, without the pipeline.                *)

Applies(n) == rule[n].active /\ Builds(Shape(n)) /\ StageOf(Shape(n)) = "pre_call"

Sooner(m, n) ==
    \/ Shape(m).priority < Shape(n).priority
    \/ Shape(m).priority = Shape(n).priority /\ m < n

\* The words that the rules before n, or all of them, have taken away.
Redacts(n) == Shape(n).mode = "redact" /\ Shape(n).kind # "length"
Gone(S) == UNION {Shape(n).patterns : n \in {m \in S : Redacts(m)}}
RunBefore(n) == {m \in RuleNames : Applies(m) /\ Sooner(m, n)}

Forbids(n, content) ==
    Applies(n) /\ CheckRule(Shape(n), Redact(content, Gone(RunBefore(n)))) = "block"

\* A test blocks exactly when a rule forbids what the rules of a lower
\* priority have left of the content, and otherwise answers what all of them
\* have left: no rule sees a word that one before it has redacted
\* (guardrails.rs run, guardrail_rule.rs list_active).
PipelineInOrder ==
    tested # NoTest =>
        /\ tested.blocked = (\E n \in RuleNames : Forbids(n, tested.content))
        /\ ~tested.blocked =>
              tested.final = Redact(tested.content, Gone({n \in RuleNames : Applies(n)}))
=============================================================================
