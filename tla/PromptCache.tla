---------------------------- MODULE PromptCache ----------------------------
(***************************************************************************)
(* internal/proxy/prompt_cache.go: what the proxy does to a request so     *)
(* that the provider finds the prompt of the turn before in its cache.     *)
(*                                                                         *)
(* A message is [role, content, reasoning, calls, of]: content is a        *)
(* sequence of blocks [kind, id], calls a sequence of call ids, and of the *)
(* place of the message in the client's history.  Tools and documents are  *)
(* numbers, in the order of the names that they are sorted by; documents   *)
(* have distinct names.  Texts and hashes are what they are made from.     *)
(***************************************************************************)
EXTENDS Naturals, SequencesExt

CONSTANT NoKey     \* no key, and no hint of a session: the empty string

IsSystem(m) == m.role = "system"

isContextBlock(block) == block.kind = "document"

\* Every run of context blocks is sorted, stably; other blocks stay in place.
normalizeContentBlocks(blocks) ==
    LET context == {i \in DOMAIN blocks : isContextBlock(blocks[i])}
        run(i) == {j \in context : \A k \in Min({i, j}) .. Max({i, j}) : k \in context}
        before(i, j) == blocks[i].id < blocks[j].id \/ (blocks[i].id = blocks[j].id /\ i < j)
        rank(i) == Cardinality({j \in run(i) : before(j, i)})
        place(i) == Cardinality({j \in run(i) : j < i})
    IN  [i \in DOMAIN blocks |->
            IF i \notin context THEN blocks[i]
            ELSE blocks[CHOOSE j \in run(i) : rank(j) = place(i)]]

\* normalizeRawAnthropicMessages: the blocks of every message.
Normalized(messages) ==
    [i \in DOMAIN messages |->
        [messages[i] EXCEPT !.content = normalizeContentBlocks(@)]]

\* System messages come first.
normalizeOpenAIMessagePrefix(messages) ==
    SelectSeq(messages, IsSystem) \o SelectSeq(messages, LAMBDA m : ~IsSystem(m))

normalizeRawOpenAIMessages(messages) ==
    normalizeOpenAIMessagePrefix(Normalized(messages))

\* sortOpenAITools, normalizeRawTools: tools in the order of their names.
sortTools(tools) == SortSeq(tools, <)

\* The system messages before any other, and the first of the others, are what
\* the generated key is made from, besides the model, which stays, and the
\* tools; a session's hint replaces the first message.
LeadingSystems(messages) ==
    LET others == {i \in DOMAIN messages : ~IsSystem(messages[i])}
    IN  IF others = {} THEN messages ELSE SubSeq(messages, 1, Min(others) - 1)

\* Fault: the message that the turn is about.
NewestMessage(messages) ==
    LET others == SelectSeq(messages, LAMBDA m : ~IsSystem(m))
    IN  IF others = <<>> THEN <<>> ELSE Last(others).content

firstMessagePrefixForCache(messages) ==
    LET others == SelectSeq(messages, LAMBDA m : ~IsSystem(m))
    IN  IF others = <<>> THEN <<>> ELSE Head(others).content

buildPromptCacheKey(hint, tools, messages) ==
    [hint |-> hint,
     tools |-> tools,
     system |-> [i \in DOMAIN LeadingSystems(messages) |-> messages[i].content],
     first |-> IF hint = NoKey THEN firstMessagePrefixForCache(messages) ELSE <<>>]

\* A Messages request [session, tools, system, messages, marked] as the client
\* sent it.  Its metadata may name a session; without that, everything up to
\* the last block that carries cache_control stands for it.  marked says where
\* that is: at the end of the system prompt or of the last message.
anthropicCacheControlPrefix(in) ==
    [tools |-> in.tools,
     messages |-> IF in.marked = "last" THEN in.messages ELSE <<>>]

AnthropicPromptCacheHint(in) ==
    IF in.session # NoKey THEN in.session
    ELSE IF in.marked = "none" THEN NoKey
    ELSE anthropicCacheControlPrefix(in)

\* Where the markers of a native request are once it has been prepared: where
\* the client put them, or else on the last block of the system prompt, which
\* is a list of blocks, or on the last tool.
addAnthropicCacheControl(in) ==
    CASE in.marked # "none" -> in.marked
      [] in.marked = "none" /\ in.system -> "system"
      [] in.marked = "none" /\ ~in.system /\ in.tools # <<>> -> "tools"
      [] OTHER -> "none"

\* ApplyOpenAIPromptCache and ApplyRawOpenAIPromptCache: a request [key, tools,
\* messages], normalized and given a key, unless the client gave one.
Applied(req, options, hint, normalized) ==
    IF ~options.enabled THEN req
    ELSE LET messages == IF options.normalize THEN normalized ELSE req.messages
             tools == IF options.normalize THEN sortTools(req.tools) ELSE req.tools
         IN  [req EXCEPT
                !.messages = messages,
                !.tools = tools,
                !.key = IF @ # NoKey THEN @ ELSE buildPromptCacheKey(hint, tools, messages)]

ApplyOpenAIPromptCache(req, options, hint) ==
    Applied(req, options, hint, normalizeOpenAIMessagePrefix(req.messages))

ApplyRawOpenAIPromptCache(req, options) ==
    Applied(req, options, NoKey, normalizeRawOpenAIMessages(req.messages))

PrepareAnthropicPromptCacheBody(in, options) ==
    LET normalize == options.enabled /\ options.normalize
    IN  [tools |-> IF normalize THEN sortTools(in.tools) ELSE in.tools,
         messages |-> IF normalize THEN Normalized(in.messages) ELSE in.messages,
         mark |-> IF options.enabled /\ options.control
                 THEN addAnthropicCacheControl(in) ELSE in.marked]
============================================================================
