---------------------------- MODULE MCSideBySide ----------------------------
(* The readers with two releases of the tool and short documents.  The   *)
(* daily documents put one or two breakdowns into one or two days, with     *)
(* totals that are right, wrong, or right only if the sum wraps.            *)
EXTENDS SideBySide

Breakdowns == {[model |-> <<"deepseek", 1>>, tokens |-> 2, cost |-> 1],
               [model |-> <<"deepseek", 1>>, tokens |-> 2, cost |-> 0],
               [model |-> <<"deepseek", 1>>, tokens |-> 1, cost |-> 1],
               [model |-> <<"unknown", 1>>, tokens |-> 2, cost |-> 1]}

Agent(m) == [source |-> "claude", total |-> m.tokens, models |-> <<m>>]
Day(date, m) == [date |-> date, total |-> m.tokens, agents |-> <<Agent(m)>>]

MCDailyDocs ==
  {[total |-> 0, days |-> <<>>]}
    \cup {[total |-> total, days |-> <<Day(1, m), Day(2, n)>>] :
            m \in Breakdowns, n \in Breakdowns, total \in {0, 3}}
    \cup {[total |-> 3, days |-> <<[date |-> 1, total |-> 3,
             agents |-> <<[source |-> "claude", total |-> 3, models |-> <<m, n>>]>>]>>] :
            m \in Breakdowns, n \in Breakdowns}
    \cup {[total |-> m.tokens, days |-> <<Day(9, m)>>] : m \in Breakdowns}

MCBlockDocs ==
  {<<>>, <<[total |-> 1, tokens |-> 1, cost |-> 0, models |-> {<<"codex", 1>>, <<"unknown", 1>>}]>>,
   <<[total |-> 2, tokens |-> 1, cost |-> 1, models |-> {<<"codex", 1>>}]>>}

MCPayloads == {<<>>, <<"x", LF, "x">>, <<":", SP, "x">>, <<SP, "x">>}

\* Short strings of every rune, longer ones of the runes that chain.
Over(runes, n) == UNION {[1..k -> runes] : k \in 0..n}
MCTexts ==
  Over({"a", "l", "A", "1", "m", "'", "sp", "n", "-"}, 4) \cup Over({"a", "s", "'"}, 7)
    \cup Over({"a", "'", "m", "1"}, 5) \cup Over({"a", "l", "sp", "n", "-", "'"}, 5)
=============================================================================
