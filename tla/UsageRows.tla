----------------------------- MODULE UsageRows -----------------------------
(***************************************************************************)
(* The arithmetic of the local usage history: how the tool's daily and     *)
(* block documents become rows (usagehistory/collect.go) and how the rows  *)
(* become a provider's section of the report (providerreport/report.go).   *)
(* The five token counters of a row are one number of a small width; a     *)
(* cost is a small number; the order of rows, fixed by a sort on their     *)
(* key, is left out, so rows are sets.  None is a nil pointer, or a refused *)
(* document.                                                               *)
(***************************************************************************)
EXTENDS Integers, Sequences, FiniteSets, SequencesExt, FiniteSetsExt

CONSTANTS MaxUint,      \* the largest token counter
          None

ASSUME UintAssumption == MaxUint \in Nat

Legs == {"anthropic", "codex", "deepseek"}

(* A model is a pair of the leg its name's prefix suggests and a number.   *)
classifyLeg(model) == model[1]

Total(S, f(_)) == FoldSet(LAMBDA x, sum : f(x) + sum, 0, S)
sumTokens(counts) == FoldSeq(+, 0, counts)

(* What a careless sum would give: it wraps and nobody is told. *)
addUint_Unchecked(sum) == sum >= 0

(* addUint refuses a sum that does not fit its width. *)
addUint(sum) == sum <= MaxUint

Wrapped(sum) == sum % (MaxUint + 1)

---------------------------------------------------------------------------
(* What the tool can print of its days; a model's name says a leg or none. *)
ModelNames == (Legs \cup {"unknown"}) \X Nat
rawModelBreakdown == [model : ModelNames, tokens : Nat, cost : Nat]
rawAgentDaily == [source : STRING, total : Nat, models : Seq(rawModelBreakdown)]
rawDaily == [date : Nat, total : Nat, agents : Seq(rawAgentDaily)]
rawDailyReport == [total : Nat, days : Seq(rawDaily)]

Entries(doc) ==
  FlattenSeq([d \in DOMAIN doc.days |->
    FlattenSeq([a \in DOMAIN doc.days[d].agents |->
      LET agent == doc.days[d].agents[a]
      IN  [i \in DOMAIN agent.models |->
             [date |-> doc.days[d].date, source |-> agent.source,
              model |-> agent.models[i].model, tokens |-> agent.models[i].tokens,
              cost |-> agent.models[i].cost]]])])

SumsTo(counts, total) ==
  addUint(sumTokens(counts)) /\ Wrapped(sumTokens(counts)) = total

Balanced(doc) ==
  /\ SumsTo([k \in DOMAIN doc.days |-> doc.days[k].total], doc.total)
  /\ \A d \in ToSet(doc.days) :
       /\ SumsTo([k \in DOMAIN d.agents |-> d.agents[k].total], d.total)
       /\ \A a \in ToSet(d.agents) : SumsTo([k \in DOMAIN a.models |-> a.models[k].tokens], a.total)

(* One row per date, source and model; its cost is known only when every   *)
(* breakdown that used tokens was priced.                                  *)
addDailyModel(entries, key) ==
  LET mine == {i \in DOMAIN entries :
                 <<entries[i].date, entries[i].source, entries[i].model>> = key}
  IN  [date |-> key[1], source |-> key[2], model |-> key[3],
       leg |-> classifyLeg(key[3]),
       tokens |-> Wrapped(Total(mine, LAMBDA i : entries[i].tokens)),
       cost |-> IF \A i \in mine : entries[i].tokens = 0 \/ entries[i].cost > 0
                THEN Total(mine, LAMBDA i : entries[i].cost) ELSE None]

parseDaily(doc, since, until) ==
  IF \/ \E d \in ToSet(doc.days) : d.date \notin since .. until
     \/ ~Balanced(doc)
  THEN None
  ELSE LET entries == Entries(doc)
       IN  {addDailyModel(entries, key) :
              key \in {<<e.date, e.source, e.model>> : e \in ToSet(entries)}}

(* A block is [total, tokens, cost, models]: its total must be the sum of  *)
(* its categories, and a block with tokens and no cost is unpriced.        *)
normalizeBlock(block) ==
  [tokens |-> block.total,
   cost |-> IF block.total > 0 /\ block.cost = 0 THEN None ELSE block.cost,
   models |-> {[model |-> m, leg |-> classifyLeg(m)] : m \in block.models},
   mixed |-> Cardinality({classifyLeg(m) : m \in block.models}) > 1]

parseBlocks(blocks) ==
  IF \E b \in ToSet(blocks) : b.tokens # b.total THEN None
  ELSE {normalizeBlock(b) : b \in ToSet(blocks)}

---------------------------------------------------------------------------
(* The report's sums add the rows of one leg without an overflow check of  *)
(* their own.                                                              *)
aggregateModels(rows, id, since, until) ==
  LET mine == {r \in rows : r.leg = id /\ r.date \in since .. until}
      Row(key) ==
        LET same == {r \in mine : <<r.source, r.model>> = key}
            tokens == Wrapped(Total(same, LAMBDA r : r.tokens))
        IN  [source |-> key[1], model |-> key[2], tokens |-> tokens,
             cost |-> IF tokens > 0 /\ \A r \in same : r.cost # None
                      THEN Total(same, LAMBDA r : r.cost) ELSE None]
  IN  {Row(key) : key \in {<<r.source, r.model>> : r \in mine}}

filterBlocks(blocks, id) == {b \in blocks : \E m \in b.models : m.leg = id}

(* What is left of a balance at each model's historical rate: the number   *)
(* of tokens is amount * tokens / cost.                                    *)
estimateDeepSeek(balance, rows) ==
  LET Of(model) == {r \in rows : r.model = model}
      Cost(model) == Total(Of(model), LAMBDA r : r.cost)
      Rated(model) == (\A r \in Of(model) : r.cost # None) /\ Cost(model) > 0
  IN  IF ~balance.available THEN {}
      ELSE {[model |-> model,
             left |-> IF balance.currency = "USD" /\ Rated(model)
                      THEN <<balance.amount * Total(Of(model), LAMBDA r : r.tokens),
                             Cost(model)>>
                      ELSE None] : model \in {r.model : r \in rows}}
===========================================================================
