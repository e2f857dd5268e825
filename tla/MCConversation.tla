--------------------------- MODULE MCConversation ---------------------------
EXTENDS Conversation

MCTools == <<Slot("read", 0, FALSE), Slot("find", 0, TRUE)>>
MCNames == {"read", "find", "plot"}

Text == Block("text", 0, "plain", None)
Call == Block("tool_use", 0, "plain", None)

MCCodexTurns == {<<"reasoning", "message">>, <<"message", "reasoning", "call">>,
                 <<"summary">>}
MCClaudeTurns == {<<Block("thinking", 0, "genuine", None), Call>>,
                  <<Block("redacted_thinking", 0, "genuine", None), Text>>}
MCDeepSeekTurns == {<<Block("thinking", 0, "genuine", None), Text>>, <<Call, Call>>}

MCAsks == {<<Text>>, <<Block("image", 0, "base64", None), Text>>,
           <<Block("image", 0, "empty", None)>>, <<Block("image", 0, "unsupported", None)>>}
Change(kind, tag, name) == Block(kind, 0, tag, name)
MCChanges ==
    {<<Text>>,
     <<Change("tool_removal", "reference", "read")>>,
     <<Change("tool_removal", "reference", "read"), Change("tool_removal", "reference", "find")>>,
     <<Change("tool_removal", "reference", "plot"), Change("tool_addition", "definition", "plot")>>,
     <<Change("tool_removal", "reference", "read"), Change("tool_addition", "reference", "read")>>,
     <<Change("tool_addition", "reference", "plot")>>,
     <<Change("tool_removal", "reference", "find"), Change("tool_addition", "definition", "find")>>}
==============================================================================
