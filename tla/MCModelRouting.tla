--------------------------- MODULE MCModelRouting ---------------------------
(***************************************************************************)
(* ModelRouting for TLC: two catalogs.  The first has a hidden model; the  *)
(* second has two versions of a codename, the newer at a lower priority, a *)
(* codename that is also an effort word, a slug that only an override can  *)
(* parse and one that nothing parses.  Levels a model had in the first are *)
(* gone in the second, and "turbo" is a level utraque does not know.       *)
(***************************************************************************)
EXTENDS ModelRouting

Model(slug, priority, listed, efforts, default) ==
    [slug |-> slug, priority |-> priority, listed |-> listed,
     efforts |-> efforts, default |-> default]

Sol6 == <<"gpt", "6", "sol">>
Sol7 == <<"gpt", "7", "sol">>
Max7 == <<"gpt", "7", "max">>
Mini == <<"gpt", "6", "mini">>
Spark == <<"gpt", "6", "codex", "spark">>
Odd == <<"gpt", "6", "codex", "odd">>

MCLists == <<
    {Model(Sol6, 2, TRUE, {"high", "ultra"}, "high"),
     Model(Mini, 1, TRUE, {"medium"}, "medium"),
     Model(Sol7, 0, FALSE, {"high"}, "high")},
    {Model(Sol6, 2, TRUE, {"low", "medium", "turbo"}, "turbo"),
     Model(Sol7, 1, TRUE, {"xhigh", "max"}, "max"),
     Model(Max7, 1, TRUE, {"high"}, ""),
     Model(Spark, 0, TRUE, {"turbo"}, "turbo"), Model(Odd, 0, TRUE, {}, "")} >>
MCStaticSlugs == {Sol6}
MCOverrides == [s \in {Spark} |-> [version |-> "6", codename |-> "spark", modifier |-> ""]]
MCVersionRank == [v \in {"6", "7"} |-> IF v = "6" THEN 6 ELSE 7]
MCSlugRank == [s \in {Odd, Spark, Mini, Sol6, Max7, Sol7} |->
    CASE s = Odd -> 1 [] s = Spark -> 2 [] s = Mini -> 3
      [] s = Sol6 -> 4 [] s = Max7 -> 5 [] s = Sol7 -> 6]
MCAnthropicNames == {<<"claude", "opus">>}
MCDeepSeekNames == {<<"deepseek", "chat">>}
=============================================================================
