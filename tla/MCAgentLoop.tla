---------------------------- MODULE MCAgentLoop ----------------------------
EXTENDS AgentLoop

Does(tool, args) == [tool |-> tool, args |-> args]
Answer(calls, reason, full) ==
    [calls |-> calls, says |-> TRUE, stop |-> reason, full |-> full]

MCReplies ==
    { Answer(<<>>, "end_turn", FALSE), Answer(<<>>, "max_tokens", FALSE),
      Answer(<<Does("mailbox_read", "a")>>, "end_turn", FALSE),
      Answer(<<Does("mailbox_read", "a")>>, "tool_use", FALSE),
      Answer(<<Does("mailbox_get_message", "a"), Does("mailbox_send", "a")>>, "tool_use", TRUE),
      Answer(<<Does("shell_exec", "a"), Does("mailbox_send", "raw")>>, "max_tokens", TRUE),
      Answer(<<Does("shell_exec", "b")>>, "tool_use", TRUE) }

=============================================================================
