--------------------------- MODULE Conversations ---------------------------
(***************************************************************************)
(* What the proxy remembers and repeats between the turns of a             *)
(* conversation.  A client sends its whole history with every request and  *)
(* may list tools and documents in another order each time; the proxy      *)
(* converts it anew (internal/proxy/request.go, responses.go), looks up    *)
(* what the upstream thought before its calls (ReasoningCache), normalizes *)
(* the prompt and names its key (PromptCache), and picks an upstream by    *)
(* that key.  Conversations run concurrently and share the reasoning cache *)
(* and the round-robin cursor; one conversation sends one request at a     *)
(* time.  A client that declared Anthropic's web_search is served by the   *)
(* shim (WebSearch), with up to two upstream requests for one of its own.  *)
(*                                                                         *)
(* Lanes: "messages" and "responses" are converted to chat completions,    *)
(* "chat" and "native" are passed on in the client's own form.             *)
(***************************************************************************)
EXTENDS WebSearch

CONSTANTS
    Convs,
    Worlds,         \* settings of the prompt cache [enabled, normalize, control],
                    \* traits[c], what the client of a conversation is like,
                    \* and how often it asks at most (a bound):
                    \* {[options, traits, sends]}
    Answers,        \* what upstreams answer, see WebSearch
    OwnIds,         \* call ids in Anthropic's form ("toolu_..."), kept as they are
    Tools, Docs,
    PoolSize,       \* usable upstreams
    Hash(_),        \* fnv64a of a key
    MaxTime,        \* bound: the clock
    Nothing         \* no request, no answer

UpstreamIds == UNION {Range(answer.calls) : answer \in Answers}

\* What is not answered says nothing; all else upstream may do.
AnswersAssumption ==
    /\ Answers \subseteq
        [text : BOOLEAN, reasoning : BOOLEAN, calls : Seq(UpstreamIds),
         strange : SUBSET UpstreamIds, broken : SUBSET UpstreamIds,
         search : BOOLEAN, finish : Finishes]
    /\ Nothing \notin Answers
    /\ \A answer \in Answers :
        answer.finish = "no_choice" =>
            ~answer.text /\ ~answer.reasoning /\ ~answer.search /\ answer.calls = <<>>

ASSUME AnswersAssumption

VARIABLES
    options, traits,    \* chosen once
    history,            \* history[c]: what the client has of conversation c
    pc,                 \* idle, asked, query, search or answer
    oreq,               \* oreq[c]: the request being served, as converted
    queryResp,          \* did upstream say what to search for?
    posted,             \* posted[c][stage]: the last request of each stage
    told,               \* told[c]: how the shim answered the last request
    spent,              \* the stages that upstream answered in this turn
    sends,              \* sends[c]: how often the client will ask yet
    entries,            \* the reasoning cache
    stored,             \* when each id was last stored, for ever
    issued,             \* how many answers had a call by each id, for ever
    minted,             \* ids made up so far (randHex)
    rr,                 \* round-robin cursor
    now

conversation == <<history, pc, oreq, queryResp, posted, told, spent, sends>>
vars == <<options, traits, conversation, entries, stored, issued, minted, rr, now>>

Init ==
    /\ \E world \in Worlds :
        options = world.options /\ traits = world.traits /\ sends = world.sends
    /\ history = [c \in Convs |-> <<>>]
    /\ pc = [c \in Convs |-> "idle"]
    /\ oreq = [c \in Convs |-> Nothing]
    /\ queryResp = [c \in Convs |-> FALSE]
    /\ posted = [c \in Convs |-> [main |-> Nothing, answer |-> Nothing]]
    /\ told = [c \in Convs |-> Nothing]
    /\ spent = [c \in Convs |-> {}]
    /\ entries = <<>>
    /\ stored = <<>>
    /\ issued = <<>>
    /\ minted = 0
    /\ rr = 0
    /\ now = 0

-----------------------------------------------------------------------------
(* What a client sends.  An item of its history is [role, docs, text,      *)
(* calls, reasoning, searched]; its text is named by its place.            *)

Item(role, docs, calls) ==
    [role |-> role, docs |-> docs, text |-> TRUE, calls |-> calls,
     reasoning |-> NoReasoning, searched |-> FALSE]

\* The history of the next request: the same again when the last one failed,
\* else the results of the calls or a further question, possibly after an
\* instruction that comes late.
Continued(items, late) ==
    LET instruction == IF late THEN <<Item("system", {}, <<>>)>> ELSE <<>>
    IN  IF items = <<>> THEN <<Item("user", Docs, <<>>)>>
        ELSE IF Last(items).role # "assistant" THEN items
        ELSE items \o instruction \o
             (IF Last(items).calls # <<>>
              THEN <<Item("tool", {}, Last(items).calls)>>
              ELSE <<Item("user", {}, <<>>)>>)

\* A set of numbers in the order the client happens to have them.
Listed(set, flip) ==
    LET sorted == SetToSortSeq(set, <) IN IF flip THEN Reverse(sorted) ELSE sorted

Text(place) == [kind |-> "text", id |-> place]

Message(role, content, calls, place) ==
    [role |-> role, content |-> content, reasoning |-> NoReasoning,
     calls |-> calls, of |-> place]

SystemPrompt == Message("system", <<Text(0)>>, <<>>, 0)

\* An item as the client writes it.
Written(items, i, flip) ==
    LET docs == Listed(items[i].docs, flip)
    IN  Message(items[i].role,
                [d \in DOMAIN docs |-> [kind |-> "document", id |-> docs[d]]]
                    \o (IF items[i].text THEN <<Text(i)>> ELSE <<>>),
                items[i].calls, i)

\* The thinking that comes back with an item.
Replayed(c, item) == IF traits[c].replays THEN item.reasoning ELSE NoReasoning

Request(c, items, flip) ==
    [session |-> IF traits[c].session THEN c ELSE NoKey,
     tools |-> Listed(Tools, flip),
     system |-> TRUE,
     messages |-> [i \in DOMAIN items |->
                    [Written(items, i, flip) EXCEPT !.reasoning = Replayed(c, items[i])]],
     marked |-> traits[c].marked]

-----------------------------------------------------------------------------
(* Conversion.  A state of it is [messages, system, pending, cache,        *)
(* stored]; the lookups and stores it makes may each leave several caches. *)

Converting ==
    [messages |-> <<>>, system |-> <<SystemPrompt>>, pending |-> NoReasoning,
     cache |-> pruneLocked(entries, now), stored |-> stored]

Storing(s, reasoning, ids) ==
    {[s EXCEPT !.cache = cache,
               !.stored = IF reasoning = NoReasoning THEN @
                          ELSE [id \in DOMAIN @ \cup Range(ids) |->
                                    IF id \in Range(ids) THEN now ELSE @[id]]]
        : cache \in store(s.cache, reasoning, ids, now)}

\* convertAssistantBlocks: thinking that comes back is stored again; thinking
\* that does not is looked up.  The blocks of a search are texts that say
\* nothing.
convertAssistantBlocks(s, item, replayed, place) ==
    LET content == (IF item.searched THEN <<Text(0), Text(0)>> ELSE <<>>)
                   \o (IF item.text THEN <<Text(place)>> ELSE <<>>)
        reasoning == IF replayed = NoReasoning /\ item.calls # <<>>
                     THEN lookup(s.cache, item.calls) ELSE replayed
        msg == [Message("assistant", content, item.calls, place) EXCEPT !.reasoning = reasoning]
    IN  {[t EXCEPT !.messages = Append(@, msg)] : t \in Storing(s, replayed, item.calls)}

\* convertUserBlocks and the rest: documents that are no video have no place
\* in a chat message.
convertMessage(s, item, replayed, place) ==
    IF item.role = "assistant" THEN convertAssistantBlocks(s, item, replayed, place)
    ELSE {[s EXCEPT !.messages =
            Append(@, Message(item.role, <<Text(place)>>, item.calls, place))]}

\* appendResponsesToolCall: a call joins the assistant message before it.
appendResponsesToolCall(messages, id, reasoning, place) ==
    IF messages # <<>> /\ Last(messages).role = "assistant"
    THEN LET last == Last(messages)
         IN  Append(Front(messages),
                [last EXCEPT !.reasoning = IF @ = NoReasoning THEN reasoning ELSE @,
                             !.calls = Append(@, id)])
    ELSE Append(messages,
            [Message("assistant", <<>>, <<id>>, place) EXCEPT !.reasoning = reasoning])

\* A function_call item takes the thinking item before it, or what the cache
\* has, and stores what it took.
FunctionCall(s, id, place) ==
    LET reasoning == IF s.pending # NoReasoning THEN s.pending ELSE lookup(s.cache, <<id>>)
    IN  Storing([s EXCEPT !.pending = NoReasoning,
                          !.messages = appendResponsesToolCall(@, id, reasoning, place)],
                reasoning, <<id>>)

\* An item of the history as the Responses items it is made of: thinking, text
\* and calls.  A message does not take the thinking before it.
responsesInputItem(s, item, replayed, place) ==
    LET thought == [s EXCEPT !.pending = IF replayed = NoReasoning THEN @ ELSE replayed]
        message == Message(item.role, <<Text(place)>>, <<>>, place)
        spoken == CASE item.role = "system" -> [thought EXCEPT !.system = Append(@, message)]
                    [] item.role # "system" /\ item.text ->
                        [thought EXCEPT !.messages = Append(@, message)]
                    [] OTHER -> thought
    IN  IF item.role = "tool"
        THEN {[s EXCEPT !.messages =
                Append(@, Message("tool", <<Text(place)>>, item.calls, place))]}
        ELSE FoldLeft(LAMBDA S, id : UNION {FunctionCall(t, id, place) : t \in S},
                      {spoken}, item.calls)

\* What the items become, one after the other.
ConvertRequest(c, items) ==
    LET Converted(s, i) ==
            IF traits[c].lane = "responses"
            THEN responsesInputItem(s, items[i], Replayed(c, items[i]), i)
            ELSE convertMessage(s, items[i], Replayed(c, items[i]), i)
        Step(S, i) == UNION {Converted(s, i) : s \in S}
    IN  FoldLeft(Step, {Converting}, [i \in DOMAIN items |-> i])

\* The request of each lane, ready to be posted: [tools, messages, key, mark],
\* the key that the upstream is picked by, and what is left of the cache.
Ready(key, tools, messages, mark, sticky, s) ==
    [req |-> [key |-> key, tools |-> tools, messages |-> messages, mark |-> mark],
     sticky |-> sticky, cache |-> s.cache, stored |-> s.stored]

Unkeyed(tools, messages) ==
    [key |-> NoKey, tools |-> tools, messages |-> messages]

\* proxy.go:66-72: a Messages request is converted even if it is passed on.
Messages(c, items, flip) ==
    LET in == Request(c, items, flip)
        hint == AnthropicPromptCacheHint(in)
        native == PrepareAnthropicPromptCacheBody(in, options)
        Lane(s) ==
            LET chat == ApplyOpenAIPromptCache(
                            Unkeyed(sortTools(in.tools), s.system \o s.messages), options, hint)
                sticky == IF chat.key # NoKey THEN chat.key ELSE hint
            IN  IF traits[c].lane = "messages"
                THEN Ready(chat.key, chat.tools, chat.messages, "none", sticky, s)
                ELSE Ready(sticky, native.tools, native.messages, native.mark, sticky, s)
    IN  {Lane(s) : s \in ConvertRequest(c, items)}

\* ResponsesProxy: the client may have a key of its own.
Responses(c, items, flip) ==
    LET key == IF traits[c].session THEN c ELSE NoKey
        Lane(s) ==
            LET chat == ApplyOpenAIPromptCache(
                            [key |-> key, tools |-> sortTools(Listed(Tools, flip)),
                             messages |-> s.system \o s.messages], options, NoKey)
            IN  Ready(chat.key, chat.tools, chat.messages, "none", chat.key, s)
    IN  {Lane(s) : s \in ConvertRequest(c, items)}

\* prepareOpenAIRequest: the request as it came, thinking included.
prepareOpenAIRequest(c, items, flip) ==
    LET in == Request(c, items, flip)
        chat == ApplyRawOpenAIPromptCache(
                    Unkeyed(in.tools, <<SystemPrompt>> \o in.messages), options)
    IN  {Ready(chat.key, chat.tools, chat.messages, "none", chat.key,
               [cache |-> entries, stored |-> stored])}

Prepared(c, items, flip) ==
    CASE traits[c].lane \in {"messages", "native"} -> Messages(c, items, flip)
      [] traits[c].lane = "responses" -> Responses(c, items, flip)
      [] traits[c].lane = "chat" -> prepareOpenAIRequest(c, items, flip)

NextUpstreamForKey(sticky) ==
    IF sticky = NoKey THEN (rr + 1) % PoolSize ELSE Hash(sticky) % PoolSize

-----------------------------------------------------------------------------
(* Serving a request.                                                      *)

\* buildWebSearchAnswerRequest, prepareWebSearchModelRequest: the second
\* request has no tools, and the results as one more question.
ForStage(req, stage) ==
    IF stage = "query" THEN [req EXCEPT !.key = webSearchPromptCacheKey(@, "query")]
    ELSE [req EXCEPT
            !.key = webSearchPromptCacheKey(@, "answer"),
            !.tools = <<>>,
            !.messages = Append(@, Message("user", <<[kind |-> "results", id |-> 0]>>, <<>>, 0))]

\* An error for an answer.
Refused == [message |-> [NoMessage EXCEPT !.failed = TRUE], usage |-> {}, of |-> Nothing]

\* Where a request goes once it is prepared: upstream, or, when the client
\* insists on a search (requiresWebSearch), to the proxy's own search.  That
\* one is refused if the last thing the client said has no words to search for,
\* as the results of its tools have none.
FirstSteps(c, items) ==
    IF ~traits[c].searches THEN {"asked"}
    ELSE {"query", "idle"} \cup (IF Last(items).role = "user" THEN {"search"} ELSE {})

\* A request comes in and is prepared.
Send(c) ==
    /\ pc[c] = "idle"
    /\ sends[c] > 0
    /\ sends' = [sends EXCEPT ![c] = @ - 1]
    /\ \E flip, late \in BOOLEAN :
        /\ late => traits[c].late
        /\ LET items == Continued(history[c], late)
           IN  /\ history' = [history EXCEPT ![c] = items]
               /\ \E ready \in Prepared(c, items, flip), step \in FirstSteps(c, items) :
                    LET req == ready.req @@ [upstream |-> NextUpstreamForKey(ready.sticky)]
                    IN  /\ rr' = IF ready.sticky = NoKey THEN (rr + 1) % PoolSize ELSE rr
                        /\ entries' = ready.cache
                        /\ stored' = ready.stored
                        /\ pc' = [pc EXCEPT ![c] = step]
                        /\ oreq' = IF step = "idle" THEN oreq ELSE [oreq EXCEPT ![c] = req]
                        /\ posted' = CASE step = "asked" -> [posted EXCEPT ![c].main = req]
                                       [] step = "query" ->
                                            [posted EXCEPT ![c].main = ForStage(req, "query")]
                                       [] OTHER -> posted
                        /\ told' = [told EXCEPT ![c] = IF step = "idle" THEN Refused ELSE Nothing]
    /\ queryResp' = [queryResp EXCEPT ![c] = FALSE]
    /\ spent' = [spent EXCEPT ![c] = {}]
    /\ UNCHANGED <<options, traits, issued, minted, now>>

\* What upstream thought in this turn of the conversation.
Thought(c, answer) ==
    IF answer.reasoning THEN [by |-> c, at |-> Len(history[c]) + 1] ELSE NoReasoning

\* ensureToolID: Messages clients are given ids of the proxy's making, unless
\* an id has their form; the others have the upstream's.
ensureToolID(id, n) == IF id \in OwnIds THEN id ELSE <<"minted", minted + n>>

GivenIds(c, calls) ==
    IF traits[c].lane = "messages"
    THEN [n \in DOMAIN calls |-> ensureToolID(calls[n], n)]
    ELSE calls

\* The calls of an answer as the client knows them.
WholeIds(c, answer) == Picked(GivenIds(c, answer.calls), Whole(answer))

\* The reasoning is stored with the calls, also with those that are taken out
\* later (cacheReasoningForToolCalls).
Remember(c, answer) ==
    LET reasoning == Thought(c, answer)
        ids == WholeIds(c, answer)
    IN  /\ entries' \in store(entries, reasoning, ids, now)
        /\ stored' = IF reasoning = NoReasoning THEN stored
                     ELSE [id \in DOMAIN stored \cup Range(ids) |->
                            IF id \in Range(ids) THEN now ELSE stored[id]]
        /\ minted' = IF traits[c].lane = "messages" THEN minted + Len(answer.calls) ELSE minted

Issued(ids) ==
    /\ issued' = [id \in DOMAIN issued \cup Range(ids) |->
                    (IF id \in DOMAIN issued THEN issued[id] ELSE 0)
                    + (IF id \in Range(ids) THEN 1 ELSE 0)]

\* The client has an answer.
Heard(c, text, calls, reasoning, searched) ==
    history' = [history EXCEPT ![c] = Append(@,
        [role |-> "assistant", docs |-> {}, text |-> text, calls |-> calls,
         reasoning |-> reasoning, searched |-> searched])]

Done(c) ==
    /\ pc' = [pc EXCEPT ![c] = "idle"]
    /\ oreq' = [oreq EXCEPT ![c] = Nothing]

\* Upstream answers: ConvertResponse and the stream converters, which store
\* what it thought, or a relay, which does not.  (What each lane does with calls
\* of undeclared tools is in ChatStream and OpenAILanes.)
Reply(c) ==
    /\ pc[c] = "asked"
    /\ \E answer \in {a \in Answers : ~a.search /\ a.strange = {}} :
        LET ids == WholeIds(c, answer)
        IN  /\ Heard(c, answer.text, ids, Thought(c, answer), FALSE)
            /\ Issued(ids)
            /\ IF traits[c].lane \in {"messages", "responses"} THEN Remember(c, answer)
               ELSE UNCHANGED <<entries, stored, minted>>
    /\ Done(c)
    /\ UNCHANGED <<options, traits, queryResp, posted, told, spent, sends, rr, now>>

\* Upstream fails; the client has nothing.
Fails(c) ==
    /\ pc[c] \in {"asked", "query"}
    /\ told' = [told EXCEPT ![c] = IF pc[c] = "query" THEN Refused ELSE @]
    /\ Done(c)
    /\ UNCHANGED <<options, traits, history, queryResp, posted, spent, sends,
                   entries, stored, issued, minted, rr, now>>

\* The client of the shim is told a message, which is of an upstream answer or
\* of none.
Tell(c, resp, answer) ==
    \E streamed \in BOOLEAN :
        told' = [told EXCEPT ![c] =
            [message |-> Delivered(resp, streamed), usage |-> resp.usage, of |-> answer]]

\* What was thought comes with an answer.
Thinking(c, answer) == [answer EXCEPT !.reasoning = Thought(c, answer)]

\* The shim's first answer: a search to make, or an answer for the client.
QueryAnswered(c) ==
    /\ pc[c] = "query"
    /\ spent' = [spent EXCEPT ![c] = @ \cup {"query"}]
    /\ \E answer \in Answers :
        LET ids == GivenIds(c, answer.calls)
            resp == ConvertResponse(Thinking(c, answer), ids, "query")
            declared == {i \in Whole(answer) : answer.calls[i] \notin answer.strange}
        IN  IF extractWebSearchCall(answer)
            THEN /\ queryResp' = [queryResp EXCEPT ![c] = TRUE]
                 /\ pc' = [pc EXCEPT ![c] = "search"]
                 /\ UNCHANGED <<history, oreq, told, entries, stored, issued, minted>>
            ELSE /\ Tell(c, filterUndeclaredToolUses(resp), answer)
                 /\ Heard(c, answer.text, Picked(ids, declared), Thought(c, answer), FALSE)
                 /\ Remember(c, answer) /\ Issued(WholeIds(c, answer))
                 /\ Done(c)
                 /\ UNCHANGED queryResp
    /\ UNCHANGED <<options, traits, posted, sends, rr, now>>

Asked(c) == IF queryResp[c] THEN {"query"} ELSE {}

\* The proxy searches.
Search(c) ==
    /\ pc[c] = "search"
    /\ \/ /\ posted' = [posted EXCEPT ![c].answer = ForStage(oreq[c], "answer")]
          /\ pc' = [pc EXCEPT ![c] = "answer"]
          /\ UNCHANGED <<history, oreq, told>>
       \/ /\ Tell(c, NothingFound(Asked(c)), Nothing)
          /\ Heard(c, TRUE, <<>>, NoReasoning, TRUE)
          /\ Done(c)
          /\ UNCHANGED posted
    /\ UNCHANGED <<options, traits, queryResp, spent, sends, entries, stored, issued, minted, rr, now>>

\* The shim's second answer.
AnswerComes(c) ==
    /\ pc[c] = "answer"
    /\ spent' = [spent EXCEPT ![c] = @ \cup {"answer"}]
    /\ \E answer \in Answers :
        LET resp == SearchAnswered(Asked(c), Thinking(c, answer), GivenIds(c, answer.calls))
        IN  /\ Tell(c, resp, answer)
            /\ Heard(c, answer.text \/ ~answer.reasoning, <<>>, Thought(c, answer), TRUE)
            /\ Remember(c, answer) /\ Issued(WholeIds(c, answer))
    /\ Done(c)
    /\ UNCHANGED <<options, traits, queryResp, posted, sends, rr, now>>

AnswerFails(c) ==
    /\ pc[c] = "answer"
    /\ Tell(c, AnswerFailed(Asked(c)), Nothing)
    /\ Heard(c, TRUE, <<>>, NoReasoning, TRUE)
    /\ Done(c)
    /\ UNCHANGED <<options, traits, queryResp, posted, spent, sends,
                   entries, stored, issued, minted, rr, now>>

Tick ==
    /\ now < MaxTime
    /\ now' = now + 1
    /\ UNCHANGED <<options, traits, conversation, entries, stored, issued, minted, rr>>

Next ==
    \/ Tick
    \/ \E c \in Convs :
        \/ Send(c) \/ Reply(c) \/ Fails(c)
        \/ QueryAnswered(c) \/ Search(c) \/ AnswerComes(c) \/ AnswerFails(c)

Spec == Init /\ [][Next]_vars

-----------------------------------------------------------------------------
(* Properties.                                                             *)

\* "Session-like requests [have a stable backend] so provider-side prompt
\* caches stay warm" (config.go:289-291): whatever order a client lists its
\* tools and documents in, and whatever was answered, failed and forgotten in
\* between, each request of a conversation asks with the same tools and begins
\* with the messages of the request before; and if the session is named, or
\* the client marks nothing for the cache itself, it has the same key and goes
\* to the same upstream.  An instruction that comes late is allowed to change
\* that, for it is moved to the front.
Bare(messages) ==
    [i \in DOMAIN messages |-> [messages[i] EXCEPT !.reasoning = NoReasoning]]

Repeats(p, q) ==
    /\ IsPrefix(Bare(p.messages), Bare(q.messages))
    /\ p.tools = q.tools
    /\ p.mark = q.mark

SameWay(c, p, q) ==
    traits[c].session \/ traits[c].marked = "none" =>
        p.key = q.key /\ p.upstream = q.upstream

WithoutResults(req) == [req EXCEPT !.messages = Front(@)]

PrefixReused ==
    [][options.enabled /\ options.normalize =>
        \A c \in Convs :
            LET p == posted[c]
                q == posted'[c]
                Instructions(req) == SelectSeq(req.messages, IsSystem)
                Same(r, t) == Instructions(r) = Instructions(t)
            IN  /\ p.main # Nothing /\ Same(p.main, q.main) =>
                    Repeats(p.main, q.main) /\ SameWay(c, p.main, q.main)
                /\ p.answer # Nothing /\ Same(p.answer, q.answer) =>
                    /\ Repeats(WithoutResults(p.answer), WithoutResults(q.answer))
                    /\ SameWay(c, p.answer, q.answer)]_posted

\* "The proxy [...] replays it as reasoning_content on the next upstream
\* request" (README.md:304-306): a call goes back upstream with what upstream
\* thought before it, whatever other conversations store meanwhile, unless the
\* client has dropped it and the cache has had to: every id of the message is
\* too old or as many others are as new.  It never goes back with anything
\* else, as long as no two answers have calls by one id; only where upstream
\* thought nothing may the Responses lane send an earlier thought of the same
\* conversation, one that came with no call.
Forgotten(id) ==
    \/ now - stored[id] > TTL
    \/ Cardinality({other \in DOMAIN stored \ {id} : stored[other] >= stored[id]}) >= MaxEntries

Unshared(ids) == \A id \in ids : issued[id] = 1

Stray(c, i) ==
    IF traits[c].lane = "responses" /\ traits[c].replays
    THEN {history[c][j].reasoning : j \in {k \in 1 .. i - 1 : history[c][k].calls = <<>>}}
    ELSE {}

ReasoningRestored ==
    [][\A c \in Convs :
        oreq'[c] # Nothing /\ oreq[c] = Nothing /\ traits[c].lane \in {"messages", "responses"} =>
            \A m \in Range(oreq'[c].messages) :
                m.role = "assistant" /\ m.calls # <<>> /\ Unshared(Range(m.calls)) =>
                    LET own == history[c][m.of].reasoning
                    IN  \/ m.reasoning = own
                        \/ own = NoReasoning /\ m.reasoning \in Stray(c, m.of)
                        \/ /\ m.reasoning = NoReasoning
                           /\ ~traits[c].replays
                           /\ \A id \in Range(m.calls) : Forgotten(id)]_oreq

\* However the two upstream requests and the search of a turn end, the client
\* of the shim gets one answer: an error only if there was neither a search nor
\* an upstream answer, otherwise a well-formed message that counts the tokens
\* of exactly the answers there were; one that searched shows the search, what
\* came of it and then something to read.
\*
\* It calls only tools that the client has.  It says that there are tools to
\* run when it has calls, unless upstream ended for another reason or called a
\* tool that the client does not have; it says so without any call only if
\* upstream itself did; and it says that it was cut off if upstream was.
AsksForTools(finish) == finish \in {"tool_calls", "function_call"}

StopTold(m, answer) ==
    LET none == answer = Nothing
    IN  /\ m.stop = "tool_use" =>
            \/ Calls(m) # <<>>
            \/ ~none /\ AsksForTools(answer.finish) /\ answer.calls = <<>>
        /\ Calls(m) # <<>> =>
            /\ ~none
            /\ \/ m.stop = "tool_use"
               \/ answer.finish \in {"length", "content_filter"}
               \/ Range(answer.calls) \cap answer.strange # {}
        /\ m.stop = "max_tokens" <=> ~none /\ answer.finish = "length"

SearchTold ==
    \A c \in Convs :
        pc[c] = "idle" /\ told[c] # Nothing =>
            IF told[c] = Refused THEN spent[c] = {}
            ELSE LET m == told[c].message
                     searched == Last(history[c]).searched
                     kinds == [i \in DOMAIN m.blocks |-> m.blocks[i].kind]
                 IN  /\ m.valid /\ m.ended /\ ~m.open
                     /\ told[c].usage = spent[c]
                     /\ StopTold(m, told[c].of)
                     /\ \A i \in DOMAIN kinds : kinds[i] = "tool_use" => m.blocks[i].declared
                     /\ searched =>
                        /\ Len(kinds) >= 3
                        /\ SubSeq(kinds, 1, 2) = <<"server_tool_use", "web_search_tool_result">>
                        /\ m.blocks[2].for = m.blocks[1].id
                        /\ \A i \in 3 .. Len(kinds) : kinds[i] \in {"text", "thinking"}
                        /\ "answer" \in spent[c] => m.blocks[2].usable
============================================================================
