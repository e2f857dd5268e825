---------------------------- MODULE Conversation ----------------------------
(***************************************************************************)
(* One conversation, replayed in full by the client on every turn and sent *)
(* to a different provider whenever the user changes model: what each leg  *)
(* makes of the history before it goes upstream, and what each upstream's  *)
(* answer adds to it.                                                      *)
(*                                                                         *)
(*   codex      translate/request/request.go over codex/leg/leg.go         *)
(*   deepseek   deepseek/rewrite.go and deepseek/toolchange.go             *)
(*   anthropic  anthropic/sanitize.go, otherwise byte for byte             *)
(*                                                                         *)
(* A content block is its type, the number of the block (its text, image   *)
(* or definition), a tag (the one thing about it the code looks at) and    *)
(* the call id or tool name it carries.                                    *)
(***************************************************************************)
EXTENDS Naturals, Sequences, FiniteSets, SequencesExt, ToolChanges

CONSTANTS
    Tools,         \* the request's tools array: a sequence of slots
    Names,         \* the tool names that tool changes may mention
    CodexTurns,    \* what the Codex model may answer: sequences of output items
    ClaudeTurns,   \* what Claude may answer: sequences of block shapes
    DeepSeekTurns, \* what DeepSeek may answer
    Asks,          \* what the user may say: sequences of block shapes
    Changes,       \* tool changes a system message may carry: block shapes
    MaxSends,      \* how many requests the client sends
    MaxSystem      \* how many system messages it puts between them

ASSUME ConversationBounds == MaxSends \in Nat /\ MaxSystem \in Nat

\* The Messages API has no two tools of one name.
ASSUME ToolsAssumption ==
    /\ Tools \in Seq([name : Names, def : {0}, deferred : BOOLEAN])
    /\ \A i, j \in DOMAIN Tools : Tools[i].name = Tools[j].name => i = j

VARIABLES
    history,   \* the messages the client holds
    made,      \* blocks and calls made so far: the next one's number
    sends,     \* requests sent so far
    asides,    \* system messages so far
    phase,     \* "asking", "ready" to send, "sent" and awaiting the answer
    sent,      \* the request as it went upstream, or as it was refused
    seen,      \* what the Codex model has read and written in this conversation
    lastKey    \* the cache key of the last Codex request, with its tools

vars == <<history, made, sends, asides, phase, sent, seen, lastKey>>

\* A block, its tag and what it names.
Block(kind, n, tag, tool) == [kind |-> kind, n |-> n, tag |-> tag, tool |-> tool]
None == "none"

\* The types of blocks, and what the code looks at in one: where an image comes
\* from, whose signature a thought has, what a tool change names, what a result
\* is (or the tool it discovers).  "document" and "unknown" stand for the rest.
Kinds == {"text", "image", "tool_use", "tool_result", "thinking", "redacted_thinking",
          "tool_addition", "tool_removal", "document"}
Tags == {"plain", "billing", "base64", "empty", "unsupported", "genuine", "payload", "bare",
         "definition", "reference", "ok", "error", "image", "unknown"} \cup Names

\* A block before it is numbered.  Results are the client's to make, only utraque
\* mints signatures, and a tool change names a tool.
Shapes ==
    {b \in [kind : Kinds, n : {0}, tag : Tags, tool : Names \cup {None}] :
        /\ b.kind # "tool_result"
        /\ b.kind \in {"thinking", "redacted_thinking"} => b.tag = "genuine"
        /\ IsChange(b) => b.tool \in Names}

OutputItems == {"reasoning", "summary", "message", "call"}

\* Only a model calls tools.
ASSUME ShapesAssumption ==
    /\ \A turn \in ClaudeTurns \cup DeepSeekTurns \cup Asks \cup Changes :
          turn \in Seq(Shapes) /\ turn # <<>>
    /\ \A turn \in Asks \cup Changes : \A b \in ToSet(turn) : b.kind # "tool_use"
    /\ \A turn \in CodexTurns : turn \in Seq(OutputItems) /\ turn # <<>>

\* The blocks of all messages, in order.
BlocksOf(messages) ==
    FlattenSeq([i \in DOMAIN messages |-> messages[i].blocks])

-----------------------------------------------------------------------------
(* The Codex leg: Translate.                                               *)

\* The system field: Claude Code's billing header, which changes every turn,
\* and its prompt.
System(turn) == <<Block("text", turn, "billing", None), Block("text", 0, "plain", None)>>

joinSystem_Verbatim(system) == SelectSeq(system, LAMBDA b : b.kind = "text")

joinSystem(system) ==
    Without(system, {b \in ToSet(system) : b.kind # "text" \/ b.tag = "billing"})

\* A Responses input item; parts are the numbers of the blocks it carries.
Item(kind, role, parts, tool) ==
    [kind |-> kind, role |-> role, parts |-> parts, tool |-> tool]

NewWalk == [items |-> <<>>, pending |-> <<>>, calls |-> {}, orphans |-> {},
            dropped |-> {}, bad |-> FALSE]

flush(w, role) ==
    IF w.pending = <<>> THEN w
    ELSE [w EXCEPT !.items = Append(@, Item("message", role, w.pending, None)),
                   !.pending = <<>>]

\* The Responses API refuses role system on an input item.
RoleOf(message) == IF message.role = "system" THEN "developer" ELSE message.role

\* imageURL: an empty base64 source is dropped and recorded, an unknown
\* source type fails the request.
TakeImage(w, b) ==
    CASE b.tag = "unsupported" -> [w EXCEPT !.bad = TRUE]
      [] b.tag = "empty"       -> [w EXCEPT !.dropped = @ \cup {b.n}]
      [] OTHER                 -> [w EXCEPT !.pending = Append(@, b.n)]

TakeToolUse(w, role, b) ==
    LET f == flush(w, role) IN
    [f EXCEPT !.items = Append(@, Item("function_call", None, <<b.n>>, b.tool)),
              !.calls = @ \cup {b.tool}]

\* An image result that leaves only its picture behind.
TakeToolResult_ImageOnly(w, role, b) ==
    LET f == flush(w, role) IN
    [f EXCEPT !.items = Append(@, IF b.tag = "image"
                                  THEN Item("message", "user", <<b.n>>, None)
                                  ELSE Item("function_call_output", b.tag, <<b.n>>, b.tool)),
              !.orphans = IF b.tool \in w.calls THEN @ ELSE @ \cup {b.tool}]

\* flattenToolResult: the text and its error marker ride in the output, an
\* image follows in a user message of its own.
TakeToolResult(w, role, b) ==
    LET f == flush(w, role) IN
    [f EXCEPT !.items = @ \o <<Item("function_call_output", b.tag, <<b.n>>, b.tool)>>
                          \o (IF b.tag = "image"
                              THEN <<Item("message", "user", <<b.n>>, None)>> ELSE <<>>),
              !.orphans = IF b.tool \in w.calls THEN @ ELSE @ \cup {b.tool}]

\* DecodeReasoningSignature: only a signature utraque minted with the item's
\* encrypted content can be replayed; any other thinking is dropped.
Replayable(b) == b.tag = "payload"

TakeThinking(w, role, b) ==
    IF Replayable(b)
    THEN LET f == flush(w, role) IN
         [f EXCEPT !.items = Append(@, Item("reasoning", None, <<b.n>>, None))]
    ELSE [w EXCEPT !.dropped = @ \cup {b.n}]

\* Tool changes became part of the tools array; unknown types are skipped.
TakeBlock(w, role, b) ==
    CASE b.kind = "text"        -> [w EXCEPT !.pending = Append(@, b.n)]
      [] b.kind = "image"       -> TakeImage(w, b)
      [] b.kind = "tool_use"    -> TakeToolUse(w, role, b)
      [] b.kind = "tool_result" -> TakeToolResult(w, role, b)
      [] b.kind \in {"thinking", "redacted_thinking"} -> TakeThinking(w, role, b)
      [] OTHER                  -> w

TakeBlocks(w, role, blocks) ==
    LET taken[i \in 0..Len(blocks)] ==
            IF i = 0 THEN w ELSE TakeBlock(taken[i - 1], role, blocks[i])
    IN  taken[Len(blocks)]

TakeMessage(w, m) == flush(TakeBlocks(w, RoleOf(m), m.blocks), RoleOf(m))

translateMessages(messages) ==
    LET walk[i \in 0..Len(messages)] ==
            IF i = 0 THEN NewWalk ELSE TakeMessage(walk[i - 1], messages[i])
    IN  walk[Len(messages)]

\* What names the prefix this request shares with the conversation's others.
promptCacheKey(instructions, tools, items) ==
    [instructions |-> instructions, tools |-> tools,
     first |-> IF items = <<>> THEN <<>> ELSE <<items[1]>>]

\* The names and definitions sent; Responses tools have no deferral.
translateTools(slots) == [i \in DOMAIN slots |-> [name |-> slots[i].name, def |-> slots[i].def]]

Translate(messages, turn) ==
    LET walk == translateMessages(messages)
        set == ResolveToolChanges(BlocksOf(messages), Tools)
        tools == translateTools(Active(set))
    IN  [leg |-> "codex", bad |-> walk.bad \/ set.bad, messages |-> <<>>,
         items |-> walk.items, orphans |-> walk.orphans, dropped |-> walk.dropped,
         tools |-> tools, deferred |-> {},
         choice |-> ~(tools = <<>> /\ Removed(set) # {}),
         key |-> promptCacheKey(joinSystem(System(turn)), tools, walk.items)]

\* How both relays take blocks out: a message left with nothing is dropped,
\* since an empty content array would be refused; one that was empty stays.
Stripped(kept, m, gone) ==
    LET rest == Without(m.blocks, gone) IN
    IF rest = <<>> /\ m.blocks # <<>> THEN kept
    ELSE Append(kept, [m EXCEPT !.blocks = rest])

Strip(messages, gone) ==
    LET kept[i \in 0..Len(messages)] ==
            IF i = 0 THEN <<>> ELSE Stripped(kept[i - 1], messages[i], gone)
    IN  kept[Len(messages)]

-----------------------------------------------------------------------------
(* The DeepSeek leg: rewriteRequest.                                       *)

\* hoistToolChanges: the change blocks leave their messages.
hoistFromMessages_Keep(messages) ==
    [i \in DOMAIN messages |->
        [messages[i] EXCEPT !.blocks = SelectSeq(@, LAMBDA b : ~IsChange(b))]]

hoistFromMessages(messages) ==
    Strip(messages, {b \in ToSet(BlocksOf(messages)) : IsChange(b)})

\* rewriteContentValue refuses what DeepSeek would ignore or reject: a picture
\* where the model takes no images, also inside a tool_result, and there a
\* tool_reference without a schema (of a tool still declared or of a removed one).
Acceptable(b, schemas, images) ==
    CASE b.kind \in {"text", "thinking", "tool_use"} -> TRUE
      [] b.kind = "image"       -> images
      [] b.kind = "tool_result" -> /\ b.tag = "image" => images
                                   /\ b.tag \in Names => b.tag \in schemas
      [] OTHER                  -> FALSE

\* The tools a tool_result's tool_reference has discovered: rewriteTools
\* takes their deferral away.
Discovered(messages) ==
    {b.tag : b \in {c \in ToSet(BlocksOf(messages)) :
                       c.kind = "tool_result" /\ c.tag \in Names}}

rewriteTools(slots, referenced) ==
    [i \in DOMAIN slots |->
        [slots[i] EXCEPT !.deferred = @ /\ slots[i].name \notin referenced]]

\* images: whether the model asked for supports them.
rewriteRequest(messages, images) ==
    LET set == ResolveToolChanges(BlocksOf(messages), Tools)
        hoisted == hoistFromMessages(messages)
        schemas == {t.name : t \in ToSet(set.slots)}
        slots == rewriteTools(Active(set), Discovered(hoisted))
        blocks == BlocksOf(hoisted)
    IN  [leg |-> "deepseek",
         bad |-> set.bad \/ \E i \in DOMAIN blocks : ~Acceptable(blocks[i], schemas, images),
         messages |-> hoisted, items |-> <<>>, orphans |-> {}, dropped |-> {},
         tools |-> translateTools(slots),
         deferred |-> {t.name : t \in {u \in ToSet(slots) : u.deferred}},
         choice |-> ~(slots = <<>> /\ Removed(set) # {}),
         key |-> <<>>]

-----------------------------------------------------------------------------
(* The Anthropic leg: forward's one exception to byte purity.              *)

\* Every signature utraque mints begins with the marker, payload or not.
IsSyntheticBlock_Payload(b) ==
    b.kind \in {"thinking", "redacted_thinking"} /\ b.tag = "payload"

IsSyntheticBlock(b) ==
    b.kind \in {"thinking", "redacted_thinking"} /\ b.tag \in {"payload", "bare"}

\* sanitizeRawMessages
Sanitize(messages) ==
    Strip(messages, {b \in ToSet(BlocksOf(messages)) : IsSyntheticBlock(b)})

Forward(messages) ==
    [leg |-> "anthropic", bad |-> FALSE, messages |-> Sanitize(messages),
     items |-> <<>>, orphans |-> {}, dropped |-> {},
     tools |-> translateTools(Tools),
     deferred |-> {t.name : t \in {u \in ToSet(Tools) : u.deferred}},
     choice |-> TRUE, key |-> <<>>]

-----------------------------------------------------------------------------
(* The client and the upstreams.                                           *)

Nothing == [leg |-> None]
NoKey == [key |-> <<>>, tools |-> <<>>]

Init ==
    /\ history = <<>>
    /\ made = 0
    /\ sends = 0
    /\ asides = 0
    /\ phase = "asking"
    /\ sent = Nothing
    /\ seen = <<>>
    /\ lastKey = NoKey

\* Number a sequence of block shapes: a block's n is its own number, and a
\* tool_use is known by it.
Numbered(shapes) ==
    [i \in DOMAIN shapes |->
        IF shapes[i].kind = "tool_use"
        THEN [shapes[i] EXCEPT !.n = made + i, !.tool = made + i]
        ELSE [shapes[i] EXCEPT !.n = made + i]]

\* The calls of the last message, which the client must answer first.
Outstanding ==
    IF history = <<>> THEN <<>>
    ELSE LET blocks == history[Len(history)].blocks
         IN  Without(blocks, {b \in ToSet(blocks) : b.kind # "tool_use"})

\* The results a client may hand back: the output, an error, a picture, or
\* the discovery of a deferred tool, by its name.
ResultTags == {"ok", "error", "image"} \cup Names

Results(tag) ==
    [i \in DOMAIN Outstanding |->
        Block("tool_result", made + i, tag, Outstanding[i].tool)]

Say(messages, blocks) ==
    /\ history' = history \o messages
    /\ made' = made + blocks
    /\ phase' = "ready"

\* The user speaks, or the client answers the model's calls and may speak too.
Ask ==
    /\ phase = "asking" /\ sends < MaxSends
    /\ \/ /\ Outstanding = <<>>
          /\ \E shapes \in Asks :
                Say(<<[role |-> "user", blocks |-> Numbered(shapes)]>>, Len(shapes))
       \/ /\ Outstanding # <<>>
          /\ \E tag \in ResultTags :
                Say(<<[role |-> "user", blocks |-> Results(tag)]>>, Len(Outstanding))
    /\ UNCHANGED <<sends, asides, sent, seen, lastKey>>

\* A system message inside messages[]: tool changes, or an instruction.
Interject ==
    /\ phase = "ready" /\ asides < MaxSystem
    /\ history[Len(history)].role = "user"
    /\ \E shapes \in Changes :
          Say(<<[role |-> "system", blocks |-> Numbered(shapes)]>>, Len(shapes))
    /\ asides' = asides + 1
    /\ UNCHANGED <<sends, sent, seen, lastKey>>

\* The client compacts: the whole history becomes one summary message.
Compact ==
    /\ phase \in {"asking", "ready"} /\ sends < MaxSends
    /\ \E m \in ToSet(history) : m.role = "assistant"
    /\ history' = <<[role |-> "user", blocks |-> <<Block("text", made + 1, "plain", None)>>]>>
    /\ made' = made + 1
    /\ phase' = "ready"
    /\ seen' = <<>> /\ lastKey' = NoKey
    /\ UNCHANGED <<sends, asides, sent>>

Send(request) ==
    /\ phase = "ready" /\ sends < MaxSends
    /\ sends' = sends + 1
    /\ sent' = request
    /\ phase' = "sent"
    /\ UNCHANGED <<history, made, asides, seen, lastKey>>

SendCodex == Send(Translate(history, sends))
SendDeepSeek == \E images \in BOOLEAN : Send(rewriteRequest(history, images))
SendAnthropic == Send(Forward(history))

\* A leg answers 400, and so does the Codex backend when nothing is left of
\* the input.
Rejected == sent.bad \/ (sent.leg = "codex" /\ sent.items = <<>>)

\* The user picks another model, or the client compacts.
Refused ==
    /\ phase = "sent" /\ Rejected
    /\ phase' = "ready"
    /\ UNCHANGED <<history, made, sends, asides, sent, seen, lastKey>>

Answered(blocks) ==
    /\ phase = "sent" /\ ~Rejected
    /\ history' = Append(history, [role |-> "assistant", blocks |-> blocks])
    /\ made' = made + Len(blocks)
    /\ phase' = "asking"
    /\ UNCHANGED <<sends, asides, sent>>

\* What the stream translator makes of an output item: syntheticSignature
\* carries the encrypted content of a reasoning item when there is any.
\* A turn cut short ends with a bare thinking block.
BlockShape(item) ==
    CASE item = "reasoning" -> Block("thinking", 0, "payload", None)
      [] item = "summary"   -> Block("thinking", 0, "bare", None)
      [] item = "message"   -> Block("text", 0, "plain", None)
      [] item = "call"      -> Block("tool_use", 0, "plain", None)

\* The same item as the model wrote it: what a replay has to reproduce.
Wrote(item, n) ==
    CASE item = "reasoning" -> <<[kind |-> "reasoning", n |-> n]>>
      [] item = "summary"   -> <<>>
      [] item = "message"   -> <<[kind |-> "message", n |-> n]>>
      [] item = "call"      -> <<[kind |-> "function_call", n |-> n]>>

\* An input as the model reads it: its parts in order, without the item
\* boundaries the Anthropic format cannot carry.
Read(items) ==
    FlattenSeq([i \in DOMAIN items |->
        [j \in DOMAIN items[i].parts |-> [kind |-> items[i].kind, n |-> items[i].parts[j]]]])

CodexAnswers ==
    /\ sent.leg = "codex"
    /\ \E turn \in CodexTurns :
          /\ Answered(Numbered([i \in DOMAIN turn |-> BlockShape(turn[i])]))
          /\ seen' = Read(sent.items)
                     \o FlattenSeq([i \in DOMAIN turn |-> Wrote(turn[i], made + i)])
          /\ lastKey' = [key |-> sent.key, tools |-> sent.tools]

OtherAnswers ==
    /\ sent.leg \in {"anthropic", "deepseek"}
    /\ \E turn \in IF sent.leg = "anthropic" THEN ClaudeTurns ELSE DeepSeekTurns :
          Answered(Numbered(turn))
    /\ UNCHANGED <<seen, lastKey>>

Next ==
    \/ Ask \/ Interject \/ Compact
    \/ SendCodex \/ SendDeepSeek \/ SendAnthropic
    \/ Refused \/ CodexAnswers \/ OtherAnswers

Spec == Init /\ [][Next]_vars

-----------------------------------------------------------------------------
(* Properties.                                                             *)

Going(leg) == phase = "sent" /\ sent.leg = leg /\ ~Rejected

\* However the conversation moved between providers, Anthropic receives every
\* block it or the user made, in order, none that carries a signature utraque
\* minted, and no message without content.
AnthropicFaithful ==
    Going("anthropic") =>
        /\ BlocksOf(sent.messages) =
              Without(BlocksOf(history),
                      {b \in ToSet(BlocksOf(history)) :
                          b.kind = "thinking" /\ b.tag \in {"payload", "bare"}})
        /\ \A i \in DOMAIN sent.messages : sent.messages[i].blocks # <<>>

\* Every call is answered later in seq, and every answer follows its call.
Paired(seq, call, answer) ==
    \A i \in DOMAIN seq :
        /\ seq[i].kind = call =>
              \E j \in (i + 1)..Len(seq) : seq[j].kind = answer /\ seq[j].tool = seq[i].tool
        /\ seq[i].kind = answer =>
              \E j \in 1..(i - 1) : seq[j].kind = call /\ seq[j].tool = seq[i].tool

\* In what goes upstream every call is answered and every answer follows its
\* call, on every leg and whatever was dropped, hoisted or flattened on the way.
CallsPaired ==
    /\ Going("codex") =>
          sent.orphans = {} /\ Paired(sent.items, "function_call", "function_call_output")
    /\ Going("anthropic") \/ Going("deepseek") =>
          Paired(BlocksOf(sent.messages), "tool_use", "tool_result")

\* Each Codex request begins with all the Codex model has read and written in
\* the conversation so far, reasoning included, and is filed under the same
\* cache key unless the tools changed: the backend's cached prefix matches.
CachedPrefixMatches ==
    Going("codex") =>
        /\ IsPrefix(seen, Read(sent.items))
        /\ lastKey # NoKey /\ lastKey.tools = sent.tools => sent.key = lastKey.key

\* The tools the conversation has told the model it may call.
Announced(messages) ==
    Discovered(messages)
    \cup {b.tool : b \in {c \in ToSet(BlocksOf(messages)) :
                            c.kind = "tool_addition" /\ c.tag = "reference"}}

\* The tools array names exactly the tools the conversation's changes leave
\* active, none the model was told of is left deferred, no change block and
\* no emptied message goes upstream, and tool_choice is withheld when the
\* changes removed every tool.
ToolsFollowChanges ==
    Going("codex") \/ Going("deepseek") =>
        /\ {t.name : t \in ToSet(sent.tools)} = Advertised(BlocksOf(history), Tools, Names)
        /\ \A b \in ToSet(BlocksOf(sent.messages)) : ~IsChange(b)
        /\ \A i \in DOMAIN sent.messages : sent.messages[i].blocks # <<>>
        /\ sent.tools = <<>> /\ Tools # <<>> => ~sent.choice
        /\ sent.deferred \cap Announced(history) = {}

==============================================================================
