----------------------------- MODULE ToolChanges -----------------------------
(***************************************************************************)
(* aschema.ToolSet (anthropic/schema/content.go): which tools a            *)
(* conversation advertises once its tool_addition and tool_removal blocks  *)
(* have been applied in message order.  The Codex and the DeepSeek leg     *)
(* drive the same set; the definition each keeps in a slot is part of the  *)
(* slot here.  A name is a model value or a string, a definition is the    *)
(* number of the block that gave it (0 for the request's own tools array). *)
(***************************************************************************)
EXTENDS Naturals, Sequences, FiniteSets, SequencesExt

\* The elements of seq that are not in gone, in their order.
Without(seq, gone) ==
    LET kept[i \in 0..Len(seq)] ==
            IF i = 0 THEN <<>>
            ELSE IF seq[i] \in gone THEN kept[i - 1] ELSE Append(kept[i - 1], seq[i])
    IN  kept[Len(seq)]

\* One slot: the tool's name, the definition kept for it, its defer_loading.
Slot(name, def, deferred) == [name |-> name, def |-> def, deferred |-> deferred]

NewToolSet(tools) ==
    [slots |-> tools, removed |-> {}, declared |-> Len(tools), bad |-> FALSE]

Known(s, name) == \E i \in DOMAIN s.slots : s.slots[i].name = name

\* s.first[name]: a name that appears twice is governed by its first slot.
First(s, name) ==
    CHOOSE i \in DOMAIN s.slots :
        /\ s.slots[i].name = name
        /\ \A j \in 1..(i - 1) : s.slots[j].name # name

IsChange(b) == b.kind \in {"tool_addition", "tool_removal"}

\* An undeclared reference, a missing target or name, an unknown target type.
CheckToolChange(s, b) ==
    /\ b.tag \in {"definition", "reference"}
    /\ b.kind = "tool_removal" => b.tag = "reference"
    /\ b.kind = "tool_addition" /\ b.tag = "reference" => Known(s, b.tool)

RemoveTool(s, b) ==
    IF Known(s, b.tool) THEN [s EXCEPT !.removed = @ \cup {b.tool}] ELSE s

\* The tool is callable from here on, so its slot loses defer_loading.
AddByReference(s, b) ==
    [s EXCEPT !.removed = @ \ {b.tool},
              !.slots[First(s, b.tool)].deferred = FALSE]

AddDefinition(s, b) ==
    CASE ~Known(s, b.tool) ->
            [s EXCEPT !.slots = Append(@, Slot(b.tool, b.n, FALSE))]
      [] Known(s, b.tool) /\ b.tool \in s.removed ->
            [s EXCEPT !.removed = @ \ {b.tool},
                      !.slots[First(s, b.tool)] = Slot(b.tool, b.n, FALSE)]
      [] OTHER -> s

\* A block that is refused stops the whole request: nothing after it matters.
Apply(s, b) ==
    IF s.bad \/ ~IsChange(b) THEN s
    ELSE IF ~CheckToolChange(s, b) THEN [s EXCEPT !.bad = TRUE]
    ELSE IF b.kind = "tool_removal" THEN RemoveTool(s, b)
    ELSE IF b.tag = "reference" THEN AddByReference(s, b)
    ELSE AddDefinition(s, b)

ResolveToolChanges(blocks, tools) ==
    LET set[i \in 0..Len(blocks)] ==
            IF i = 0 THEN NewToolSet(tools) ELSE Apply(set[i - 1], blocks[i])
    IN  set[Len(blocks)]

Active(s) == Without(s.slots, {t \in ToSet(s.slots) : t.name \in s.removed})
Removed(s) == {t.name : t \in {u \in ToSet(s.slots) : u.name \in s.removed}}

(***************************************************************************)
(* The reference: a tool is advertised when something declared it and      *)
(* every removal that came after its declaration was taken back by a later *)
(* addition.                                                               *)
(***************************************************************************)
DeclaredBefore(blocks, tools, name, p) ==
    \/ \E t \in ToSet(tools) : t.name = name
    \/ \E q \in 1..(p - 1) : /\ blocks[q].kind = "tool_addition"
                             /\ blocks[q].tag = "definition"
                             /\ blocks[q].tool = name

Advertised(blocks, tools, names) ==
    {x \in names :
        /\ DeclaredBefore(blocks, tools, x, Len(blocks) + 1)
        /\ \A p \in DOMAIN blocks :
              blocks[p].kind = "tool_removal" /\ blocks[p].tool = x
              /\ DeclaredBefore(blocks, tools, x, p)
              => \E q \in (p + 1)..Len(blocks) :
                    blocks[q].kind = "tool_addition" /\ blocks[q].tool = x}
==============================================================================
