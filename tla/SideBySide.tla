----------------------------- MODULE SideBySide -----------------------------
(***************************************************************************)
(* Components that share nothing with each other, checked side by side.    *)
(* Four are readers with processes or shared state of their own: the local *)
(* usage history, the Codex app-server and the reference prices, which     *)
(* Handler.collect starts together and joins, and the Anthropic model list *)
(* of the picker; they share only their caller's context, whose end each   *)
(* module lets come at any moment.  Two are sequential: the SSE codec and  *)
(* the token estimator.  So one of them, the one in focus, takes its steps *)
(* while the others are at rest.                                           *)
(***************************************************************************)
EXTENDS Subprocesses, ReferencePrices, AnthropicCatalog, Frames, Tokens

VARIABLE focus

HistoryAtRest ==
  /\ mode = "native" /\ installed = 1 /\ expired = FALSE /\ collecting = "returned"
  /\ configDir = FALSE /\ running = [s \in Sections |-> NotRun]
  /\ tool = [s \in Sections |-> NotStarted] /\ history = NoHistory

ServerAtRest ==
  /\ quota = [at |-> "returned", call |-> 0, result |-> "unavailable", used |-> {}]
  /\ ctxDone = FALSE /\ rootDir = FALSE /\ server = "none" /\ waited = FALSE /\ asked = 0
  /\ pipe = <<>> /\ scanner = [at |-> "none", line |-> NoLine] /\ writer = "none"
  /\ copier = "none" /\ extra = 0 /\ invalidated = FALSE

PricesAtRest ==
  /\ cache = Empty /\ flight = [at |-> "none", etag |-> 0]
  /\ reader = [r \in Readers |-> "answered"] /\ answer = [r \in Readers |-> JustError]
  /\ upstream = 1 /\ sinceFail = Backoff

FramesAtRest ==
  /\ sent = [frames |-> <<>>, cut |-> FALSE, ending |-> "EOF", dataFields |-> 0]
  /\ sse = [rest |-> <<>>, locals |-> Fresh, read |-> <<>>, done |-> TRUE, err |-> "none"]

TokensAtRest == text = <<>> /\ limit = Max(Limits) /\ scan = [Unscanned EXCEPT !.i = 1]

sideVars == <<focus, historyVars, serverVars, priceVars, modelVars, frameVars, tokenVars>>

Init ==
  /\ focus \in {"history", "codex", "prices", "models", "frames", "tokens"}
  /\ IF focus = "history" THEN HistoryInit ELSE HistoryAtRest
  /\ IF focus = "codex" THEN ServerInit ELSE ServerAtRest
  /\ IF focus = "prices" THEN PricesInit ELSE PricesAtRest
  /\ ModelsInit
  /\ IF focus = "frames" THEN FramesInit ELSE FramesAtRest
  /\ IF focus = "tokens" THEN TokensInit ELSE TokensAtRest

Next ==
  \/ /\ focus = "history" /\ HistoryNext
     /\ UNCHANGED <<focus, serverVars, priceVars, modelVars, frameVars, tokenVars>>
  \/ /\ focus = "codex" /\ ServerNext
     /\ UNCHANGED <<focus, historyVars, priceVars, modelVars, frameVars, tokenVars>>
  \/ /\ focus = "prices" /\ PricesNext
     /\ UNCHANGED <<focus, historyVars, serverVars, modelVars, frameVars, tokenVars>>
  \/ /\ focus = "models" /\ ModelsNext
     /\ UNCHANGED <<focus, historyVars, serverVars, priceVars, frameVars, tokenVars>>
  \/ /\ focus = "frames" /\ FramesNext
     /\ UNCHANGED <<focus, historyVars, serverVars, priceVars, modelVars, tokenVars>>
  \/ /\ focus = "tokens" /\ TokensNext
     /\ UNCHANGED <<focus, historyVars, serverVars, priceVars, modelVars, frameVars>>

Spec == Init /\ [][Next]_sideVars /\ HistoryFairness /\ ServerFairness /\ PricesFairness
=============================================================================
