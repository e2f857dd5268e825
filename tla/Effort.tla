------------------------------- MODULE Effort -------------------------------
(***************************************************************************)
(* From the effort a request asks for to the one its backend is sent:      *)
(* effort.Clamp, the precedence of a Codex request's sources (request.go)  *)
(* and DeepSeek's three levels (deepseek/rewrite.go).  A token is a        *)
(* string, Unset when there is none, and one that is no level has no rank. *)
(***************************************************************************)
EXTENDS Integers, Sequences

Unset == ""

levels == <<"low", "medium", "high", "xhigh", "max", "ultra">>

Levels == {levels[i] : i \in DOMAIN levels}

Known(l) == l \in Levels

\* An unknown token ranks below every level.
Rank(l) == IF Known(l) THEN CHOOSE i \in DOMAIN levels : levels[i] = l ELSE 0

Highest(tokens) == CHOOSE l \in tokens : \A k \in tokens : Rank(k) <= Rank(l)
Lowest(tokens) == CHOOSE l \in tokens : \A k \in tokens : Rank(l) <= Rank(k)

\* What does not fit is raised to the highest level a model has.
Clamp_Up(requested, supported) ==
    LET ranked == {s \in supported : Known(s)} IN
    IF requested = Unset \/ requested \in supported \/ ranked = {} THEN requested
    ELSE Highest(ranked)

\* A level a model does not have becomes the highest one below it or, if there
\* is none, the lowest one the model has; tokens without a rank do not count.
Clamp(requested, supported) ==
    LET ranked == {s \in supported : Known(s)}
        below == {s \in ranked : Rank(s) <= Rank(requested)}
    IN CASE requested = Unset \/ requested \in supported \/ ranked = {} -> requested
         [] OTHER -> IF below # {} THEN Highest(below) ELSE Lowest(ranked)

\* Decision.WithBodyEffort: only where the name asked for nothing, only a level
\* utraque knows, and never for Anthropic, whose body is forwarded as it is.
WithBodyEffort(decision, body) ==
    IF decision.backend \in {"codex", "deepseek"} /\ decision.effort = Unset /\ Known(body)
    THEN [decision EXCEPT !.effort = body] ELSE decision

\* The first source that names a level: the decision, the anthropic-beta header,
\* the configuration, the catalog's default.
chooseEffort(decision, beta, config, default) ==
    LET sources == <<decision.effort, beta, config, default>>
        named == {i \in DOMAIN sources : sources[i] # Unset}
    IN  IF named = {} THEN Unset ELSE sources[CHOOSE i \in named : \A j \in named : i <= j]

deepseekEffort(l) ==
    CASE l = "low" -> "low"
      [] l \in {"medium", "high", "xhigh"} -> "high"
      [] l \in {"max", "ultra"} -> "max"
      [] OTHER -> Unset

translateReasoning(decision, model, beta, config) ==
    Clamp(chooseEffort(decision, beta, config, model.default), model.efforts)

\* A model the catalog does not list, or no catalog at all: nothing to clamp to.
UnknownModel == [efforts |-> {}, default |-> Unset]

\* What is sent for a decision and a body, where `model` is the catalog's entry;
\* the Codex leg passes neither a header's effort nor a configured one.
AppliedEffort(decision, body, model) ==
    LET d == WithBodyEffort(decision, body) IN
    CASE d.backend = "codex" -> translateReasoning(d, model, Unset, Unset)
      [] d.backend = "deepseek" -> deepseekEffort(d.effort)
      [] OTHER -> body
=============================================================================
