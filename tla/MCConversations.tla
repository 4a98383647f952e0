-------------------------- MODULE MCConversations --------------------------
(***************************************************************************)
(* Instances of Conversations: c1 is any client of any lane, c2 a Codex    *)
(* client that does not send reasoning back, and both use the reasoning    *)
(* cache, which holds two entries.                                         *)
(***************************************************************************)
EXTENDS Conversations, TLC

CONSTANTS c1, c2, x, toolu

Trait(lane, session, marked, replays, searches, late) ==
    [lane |-> lane, session |-> session, marked |-> marked,
     replays |-> replays, searches |-> searches, late |-> late]

Codex == Trait("responses", TRUE, "none", FALSE, FALSE, FALSE)

World(on, trait, often, codex) ==
    [options |-> [enabled |-> on, normalize |-> on, control |-> on],
     traits |-> (c1 :> trait) @@ (c2 :> Codex),
     sends |-> (c1 :> often) @@ (c2 :> codex)]

Messages1 ==
    {Trait("messages", session, "none", FALSE, FALSE, FALSE) : session \in BOOLEAN}
    \cup {Trait("messages", FALSE, "last", TRUE, FALSE, FALSE)}
Shim == {Trait("messages", TRUE, "system", FALSE, TRUE, FALSE)}
Native == {Trait("native", FALSE, marked, TRUE, FALSE, FALSE) : marked \in {"none", "last"}}
Responses1 == {Trait("responses", FALSE, "none", replays, FALSE, TRUE) : replays \in BOOLEAN}
Chat == {Trait("chat", FALSE, "none", TRUE, FALSE, FALSE)}

MCWorlds ==
    {World(TRUE, t, 3, 1) : t \in Messages1 \cup Responses1}
    \cup {World(TRUE, t, 2, 1) : t \in Shim}
    \cup {World(on, t, 3, 0) : on \in BOOLEAN, t \in Native \cup Chat}
    \cup {World(TRUE, t, 3, 0) : t \in Shim}

Answer(text, reasoning, calls, strange, broken, search, finish) ==
    [text |-> text, reasoning |-> reasoning, calls |-> calls, strange |-> strange,
     broken |-> broken, search |-> search, finish |-> finish]

MCAnswers ==
    {Answer(TRUE, TRUE, <<>>, {}, {}, FALSE, "stop"),
     Answer(FALSE, FALSE, <<x>>, {}, {}, FALSE, "tool_calls"),
     Answer(FALSE, TRUE, <<x, toolu>>, {}, {}, FALSE, "nil"),
     Answer(FALSE, TRUE, <<x>>, {}, {}, FALSE, "tool_calls"),
     Answer(TRUE, TRUE, <<x, toolu>>, {}, {toolu}, FALSE, "length"),
     Answer(FALSE, TRUE, <<x>>, {}, {}, TRUE, "tool_calls"),
     \* undeclared tools, one of two and all
     Answer(FALSE, TRUE, <<x, toolu>>, {x}, {}, FALSE, "tool_calls"),
     Answer(TRUE, FALSE, <<x>>, {x}, {}, FALSE, "stop"),
     \* tools asked for without a call, calls in spite of the reason, nothing
     Answer(TRUE, FALSE, <<>>, {}, {}, FALSE, "function_call"),
     Answer(FALSE, FALSE, <<toolu>>, {}, {}, FALSE, "content_filter"),
     Answer(FALSE, FALSE, <<>>, {}, {}, FALSE, "no_choice")}

MCHash(key) == Len(ToString(key))
============================================================================
