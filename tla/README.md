# opencode-cc in TLA+

opencode-cc is a relay written in Go. It accepts the Anthropic Messages, OpenAI
Chat Completions and OpenAI Responses protocols from coding agents, sends each
request to an OpenCode Zen upstream in the protocol its model speaks, and
translates the answer back. It keeps its configuration in a JSON file, requests,
statistics and client API keys in SQLite, and serves a web panel.

This directory models the parts of it where order, failure and sharing decide
whether it is right: how a call to the upstream is retried, how a client key is
checked while an administrator changes it, how an upstream answer becomes one
Anthropic message, one chat answer or one Responses answer, how the relay learns
which reasoning efforts a model takes, what it tells clients about rate limits, what
the web panel's edits do to the configuration, what is remembered and repeated from
one turn of a conversation to the next, and how the client plugin that comes with it
shares a provider's cooldown between processes. TLC checks each model on small
instances; TLAPS proves every safety invariant and refinement that the passing runs check
(of the retry loop, the key check, the two streams to an Anthropic client, the lanes of
OpenAI clients, the effort recovery, the plugin, the cooldown ladder, the panel and the
web search shim) for every value of their constants.

All paths below are relative to the repository's root, `src/` here.

## Inventory of the system

| Component | State | Operations | Interacts with | What makes it correct |
|---|---|---|---|---|
| Upstream retry (`server/helpers.go`, `upstream_network.go`) | per call: attempt, failovers, affinity, last error | send, retry after 2 s, fail over, return | affinity cache, shared HTTP transport, downstream context | bounded attempts; it returns; no retry for a client that has left |
| Zen affinity cache (`server/zen_failover.go`) | process-wide map, key to session and time | look up (prunes), remember (evicts), forget | every retrying call | bounded; never shared across keys; dead affinities are left |
| Client auth (`server/auth.go`) | five-second key cache | look up, gate, quota check | `api_keys` table, panel | revocation takes effect; quota overshoot is bounded |
| Key store and key panel (`store/keys.go`, `api/keys.go`) | `api_keys` rows | create, update, delete, reset, record usage | auth, usage goroutines | daily counters exact; no lost update |
| Chat stream converter (`proxy/stream.go`) | open block, buffered calls, finish reason | handle a chunk, finalize, error | handler, tool resolution | a well-formed message with each call once |
| Messages handler (`server/proxy.go`) | per request; log goroutines | route, relay, resample, log | everything above | one sample per message; honest stop reason |
| Responses streamer and bridge (`proxy/anthropic_responses_stream.go`, `server/anthropic_responses.go`) | calls buffered by item id, terminal status | handle an event, flush a tool, finalize, resample | recovery, effort levels | as for chat |
| Effort levels and recovery (`server/reasoning_levels.go`, `server/recovery.go`, `server/responses_passthrough.go`) | taught level lists, a JSON file, two upstream slots | learn, demote, persist, load; retry once without stale reasoning or with another effort | every Responses request | scales are never emptied; only levels of the model are sent; each recovery retries once, and composes with the other; slots come back |
| Cooldown (`server/cooldown.go`, `stampCooldown`) | escalation step per target model | read the headers of a 429, next fallback, success, clamp | 429 answers of the Messages handler | always in [5 s, 24 h]; the ladder stops at its last rung; an upstream wait is passed on as it is |
| Chat tool-call filter and aggregator (`server/openai_toolfilter.go`, `proxy/stream_aggregate.go`) | verdict per call, kept per choice | filter a chunk, gather a stream | Chat passthrough | each declared call whole, no other; no tool_calls finish without calls |
| Configuration (`config/config.go`) | the config under a RW lock, a JSON file, a round-robin cursor | load, patch, save, next upstream | panel, every request | no key moves to another upstream; saved is what is used |
| Panel and sessions (`api/api.go`) | session tokens | log in, log out, patch the config | config | a password change ends old sessions; what is in use is what is saved |
| Request log (`store/store.go`) | request rows, hourly totals | insert, list, statistics, prune | log goroutines | hourly totals equal the rows |
| Reasoning cache (`proxy/reasoning_cache.go`) | 4096 entries, 6 h | store, look up, prune | request and answer translation of every conversation | reasoning goes with its own calls, as long as there is room for it |
| Web search shim (`server/web_search_proxy.go`) | per request | ask for a query, search, ask for the answer, write one message | upstream | one answer, with the search and with the tokens of both requests |
| Prompt cache (`proxy/prompt_cache.go`) | none | order tools and documents, derive keys, place markers | request bodies, the choice of upstream | the prompt, key and upstream of a turn repeat those of the turn before |
| Translation (`proxy/request.go`, `response.go`, `responses.go`, ...) | none per request; streams as above | convert | handlers | each item announced, grown and done once; each call keeps its result and its reasoning |
| Lifecycle (`main.go`, `server/server.go`, `logging.go`, `keepalive.go`) | done channel | start, ping, recover from a panic | all | a panic ends one request only |
| Rate-limit retry plugin (`contrib/opencode/rate-limit-retry`) | cooldown files and lock directories shared by processes | read, update, decide | OpenCode | a future deadline is never shortened; one updater at a time |
| DS Flash gateway, benchmarks, scripts, web user interface | - | - | - | outside the model |

Calls flow `clientAuth` -> handler -> `doUpstreamWithRetry` -> recovery ->
stream converter -> `logSuccess` -> goroutines that write the log and the usage.
What is shared between requests is the key cache, the affinity cache, the effort
levels, the cooldown ladder, the reasoning cache, the configuration and the
database; each is guarded by a lock of its own or by SQLite, and no operation
holds a lock over two of its steps. That is where the interesting interleavings
come from. The `hazards` of `PROJECT.json` list them with their lines, and with
the properties that would catch each going wrong.

## The modules

### UpstreamRetry

`doUpstreamWithRetry`, run by several calls at once, with the affinity cache.

* `pc` is the position in the loop: `sending` and `flight` during `client.Do`, before
  and after upstream has the whole request; `reading` while the body of a 5xx is read;
  `again` at the head of the loop (where the context is looked at), `backoff` in the
  two-second wait. `attempt`, `failovers`, `affinity` are the local variables; `entries` is
  `zenAffinities.entries`; `gone` are the calls whose context is cancelled.
* `Begin` is everything before the first attempt, `Sent` and `Receive5xx` are the
  steps of an exchange that goes on. `Succeed`, `Reject`, `FailTransport`, `FailFinally`, `FailStatus` and `FailUnavailable` are the ways
  an attempt can end, each with all that follows up to the next `continue`,
  `break` or `return`. `Recheck`, `Leave` and `Elapse` are the head of the loop.
* A session affinity is 256 random bits. It is modelled by the pair of the call
  that minted it and the number of the failover, which makes "minted for another
  key" expressible.
* The cache's operations run under one mutex each, so each is one step; that a
  call looks up and remembers in different steps is the race that matters.
* `dead`, `proven`, `transport` and `starved` are history variables: no action
  reads them.

Properties: `AttemptBudget` (the three retry rules share one counter and cannot
feed each other), `AffinityProvenance` (no affinity crosses keys, and only proven
ones are cached), `CacheBounded`, `NoDeadReuse`, and `CallReturns` (liveness:
a call returns unless upstream stalls one of its exchanges for ever and its client
waits).

### ClientAuth

One key, its row, its entry in the key cache; requests in slots, panel requests.

* A request goes `idle`, `fill` (between the read and the store of a cache miss),
  `gate` (all checks; `Check` re-reads the row), `serving`, `recording` (the usage
  goroutine), `idle`. A lookup whose query fails answers 401 and changes nothing.
* A panel request writes the row in one step and invalidates the cache in
  another; an update without `enabled` reads first, in a step of its own.
* `enabled` stands for the three gates an administrator sets (enabled, expiry,
  allowlist): all are read from the same cached row. Tokens stand for requests
  too: the four counters have the same arithmetic.
* The cache entry holds the ticks it has `left`; `closedFor` counts, up to
  `Window`, the ticks since the key stopped being usable. `today` adds up what was
  recorded since midnight or a reset; `blind` counts requests admitted on cached
  numbers because the error of the re-read is dropped.
* `Restart` loses the memory, with the usage not yet recorded; the row survives.

Properties: `OvershootBounded`, `DailyExact`, `RevocationBounded`.

### AnthropicEvents, AnthropicMessage

`AnthropicEvents` says what a client makes of a sequence of events: it is the
reader, so it is external, except for the events' shapes. An event out of order
makes the message invalid for good, and so does anything after an error but the
end. `AnthropicMessage` is the contract over such a message: `Narrate` adds one text
or thinking block, a call is handed over whole, in one step and under an id of its
own, before the end if `Eager`, and `Conclude` ends the message with the stop reason.
Two very different implementations refine it: `ChatStream`, which holds every call
back to the end, and `ResponsesStream`, which hands calls over as their items are
done.

### ToolResolution, ChatConverter, ChatStream

`ToolResolution` has the rules of `toolnames.go` and `toolrecover.go`: a call is
`Resolvable` if its name is declared (directly, or through an alias), or if it has
no name and its complete arguments fit exactly one schema. The arguments of a call
are a sequence of pieces that remember which call they are part of, which is how
merged, lost or repeated arguments show.

`ChatConverter` is `StreamConverter` as operators on a record: `HandleChunk`,
`bufferTool`, `emitBufferedTool`, `Finalize`. Its field `wire` is the message that
the client has assembled. Text is abstracted to the block it is in.

`ChatStream` is `handleStreamResponse`: relaying, the verdicts of
`ShouldResampleToolless` and `maybeResampleAbortedChatStream`, the second sample
with a converter of its own, and the replay. The upstream is external. It sends
any chunks the code's comments and tests mention: names after arguments, no
names, no ids (the legacy `function_call`), undeclared names, several calls under
one index, whole or in pieces, finish reasons that disagree with the content, usage
last, no `[DONE]`.

Properties: `ImplementsMessage` (refinement of `AnthropicMessage`),
`CallsExactlyOnce`, `StopReasonHonest`, `OneSample`. `CallsExactlyOnce` says of every
piece of arguments where it is told; `Held` has the pieces of one call: its own, except
that the later pieces of calls that share an index are all with the first of them.
`CallsComplete` is what the repository promises instead, that a call that is told has all
its arguments and no other's; the code breaks it (`half_call`).

### ResponsesConverter, ResponsesStream

`ResponsesConverter` is `ResponsesToAnthropicStreamer` in the same manner, frame by
frame; `ResponsesStream` is `relayAnthropicResponsesStream`, with the verdict of a
turn without calls, up to three further samples of a turn that announced an action,
and the replay of one that has a call into the open message under new item ids.

* An upstream item is streamed in one of several `Forms`: with added, delta and done
  frames, with arguments already in the added frame, flat, with its name only in
  the arguments' done frame, without ids, without its done frame, and so on.
* A text is the way it ends ("colon" announces an action). The long text that
  switches the resample off, and undeclared names, are possible in the module but
  not in the instance, where they would only multiply states. Items have distinct
  ids, as in all the tests.

Properties: `ImplementsMessage`, `CallsExactlyOnce`, `OneSample`.

### ToolFilter, ResponsesEvents, ResponsesMessage, ResponsesWriter, OpenAILanes

The lanes of OpenAI clients. `ToolFilter` has `chatToolCallFilter` and
`AggregateOpenAIStream`; `ResponsesWriter` the stream and whole-answer writers of
`/v1/responses`; `ResponsesEvents` what a Responses client assembles (external), and
`ResponsesMessage` the contract over it, which `OpenAILanes` refines. `OpenAILanes`
takes one turn through a lane ("chat", "responses" over a chat upstream, "native"
over an Anthropic one) and a form (relayed, gathered from an upstream stream, or
answered in one piece), with an upstream that interleaves calls and may break off.

* `Picking` has what the models of loops share: what a loop keeps of a sequence, and a
  map with one more key, as functions whose values can be reasoned about.
* A chunk has at most one fragment of a call, and each call has an index of its own.
  Not taken up: calls that share an index, the legacy `function_call`, several
  choices, native text deltas that are empty, and plain chat answers, which are
  relayed byte for byte.

Properties: `ResponseWellFormed` (refinement of `ResponsesMessage`: items at
consecutive indexes, deltas only on announced items, each done once with what was
streamed, one terminal event), `CallsDelivered` (each declared call arrives with
all its arguments under one id and no other call does), `FinishHonest` (what the end of
a turn is told by: in a chat stream what the upstream said and what the client was given,
a leftover of a call that was dropped late included; in a gathered one what the upstream
said and whether it made a call, so it may say `tool_calls` with every call dropped; in a
response whether the upstream was cut short, and a gathered one is answered even when its
stream broke off). `LostCallsCorrected` is what the repository's README promises of the
first of these; the code breaks it (`late_name`).

### Cooldown

A 429 of the upstream and the wait that the client is told: the two headers,
`cooldownTracker` with its ladder of fallbacks per target model, and
`stampCooldown`, with the time between asking for a fallback and using it.

* Durations are integers of a fixed width that wrap around, as `time.Duration`
  does when a header's seconds are multiplied; instants are kept as the seconds
  since them, up to the longest fallback, beyond which they no longer matter.

Properties: `TrackerTypeOK` (the ladder is indexed inside its ends, waits are within the
clamp) and `WaitHonest` (an upstream wait in range is passed on to the second,
otherwise the wait is a rung; asking again early never shortens it).

### Panel

Administrators with a browser each, the configuration in memory and on disk, the
sessions. `View` loads the Settings page; `BeginPut`, `Apply`, `Save` or `SaveFails`
and `Finish` are the steps of `handleConfig` between its locks; `Verify` and
`Store` those of a login; `End` ends a session; `Restart` loads the file and drops
the sessions.

* Of the configuration the password and the upstream pool are kept. A key is named
  by the base it was typed in for. The environment may set the password, the legacy
  fields may stand in for an empty pool.
* `unsaved` and `slipped` name the ways in which the code lets go of a change: a
  Save that failed, a login or a change stored across another change.
* Left out: the middleware that looks at a session, the enabled flag of an upstream,
  edits of a base URL in place, credential files.

Properties: `StaleSessionsExplained` (no session outlives its password in any way
that the model does not name), `RestartInvisible` (a restart keeps the upstreams
that requests go to), and `KeysKept`, which does not hold (see Findings).

### ReasoningCache, PromptCache, WebSearch, Conversations

What the proxy repeats from turn to turn. `ReasoningCache` and `PromptCache` are
the two Go files as operators; `WebSearch` builds the messages of the web search
shim. `Conversations` composes them: each conversation's client sends its whole
history again with every request, with its tools and documents in whatever order,
possibly with a late instruction, with or without the thinking it was given, with
or without a session id, with its own cache markers or none; the proxy converts it
(`convertMessage`, `responsesInputItem`), restores thinking from the shared cache,
normalizes the prompt, names its key and picks an upstream. `Reply`, `Fails`,
`QueryAnswered`, `Search`, `AnswerComes` and `AnswerFails` are the ways a request
goes on; failed requests are sent again.

* `entries` is the cache. Its clock is coarse, so several stores may have one age;
  the scan for the oldest visits a Go map, so any of those may go. `stored`,
  `issued` and `spent` are history variables.
* The conversion of one request is one step, although other requests may store or
  prune between its lookups: what such a store adds are other conversations' ids.
* Keys are what they are computed from; `Hash` is any function of them. The pool of
  upstreams does not change and is not empty. Random ids never repeat.
* Documents have distinct names and the text of a message comes after them. In the
  chat conversion a document that is no video has no place and is dropped.
* An answer has any finish reason, none, or is no answer at all; its calls may be of
  undeclared tools (`strange`) and have arguments that are no JSON (`broken`), and it
  may ask for tools without calling any. The shim drops what it must
  (`filterUndeclaredToolUses`, `Whole`); in `Reply` all calls are of declared tools, as
  what the other lanes do with the rest is in `ChatStream` and `OpenAILanes`. A
  search that the client insists on is refused when the last thing it said has no words
  (`FirstSteps`). The native mode of web search is one more upstream and not taken up.

Properties: `PrefixReused` (each request of a conversation begins with the messages
of the one before, offers the same tools in the same order and has the same key and
upstream), `ReasoningRestored` (a call goes back with what was thought before it,
unless the cache has really had to drop it, and never with another call's) and
`SearchTold` (whatever fails, the shim's client has one well-formed message with the
search, something to read, and the tokens of exactly the requests that were
answered; it calls no tool the client does not have, and its stop reason fits what
upstream said and what is left of its calls).

### EffortScale, EffortLevels, EffortRecovery

Requests for Responses-native models. `EffortScale` holds the efforts and
`ClampEffort`; `EffortLevels` the cache of taught scales and its file, as steps of
a request's goroutine; `EffortRecovery` the requests themselves: the clamp on
arrival, the wait for a slot, the posts, the two recoveries and the relay. Both
handlers that post to `/v1/responses` (`responses_passthrough.go`,
`anthropic_responses.go`) go through these steps in this order.

* An effort is its place in `universalEffortOrder`; any name that is not in it, asked for
  by a client or listed by an upstream, is a number beyond. Names compare without case
  in the code. A scale is a list in the order upstream named it in.
* A post stands for all of `doUpstreamWithRetry`, which `UpstreamRetry` models. The
  upstream checks the effort of the very body it is sent (`Accepts`), and may also
  answer badly, or say that the reasoning is stale, whatever the body; `Names` is
  what its rejections name, true or not.
* An answer is its status and whether its body is within `recoveryMaxErrBody`, beyond it,
  or breaks off. The body of a rejection that breaks off is put back by the first recovery and read by the second without an error:
  `HearPart` takes up a list that stops anywhere. `misread`, a history variable, has the
  models this has happened to.
* `doing` follows one request: `queued`, `first`, `second` (the stripped body is
  posted), `learn`, `choose`, `demote` and `replace` (the two critical sections of
  `DemoteTop`), `marshal`, `open` and `write` (`persist`: under the lock, then the
  file is truncated, then filled), `retry`, `third`, `relay`. `after` is where it
  goes when the change is on disk; `body` is `upBody`; `posted` are the bodies sent.
* Two writers have a file descriptor each: the one that fills the file last leaves
  its own text, or, if the other's was longer, a tail of that behind it, which does
  not parse. `RecoveryRestart` loads the file; a torn one is ignored whole.
* The resample of the Anthropic bridge, which comes after the recoveries, is not
  part of this module, nor are the relays.

Properties: `ScaleNeverEmpty`, `OnlyNamedSent` (what is asked for is a level that was
built in for the model or named by its upstream, never none or max, and no name that only
a client knows), `RecoveriesCompose` (at most three posts, none twice, no blobs after they
are stripped), `HonestRetryAccepted` (one rejection is enough when upstream names what it
takes, whatever the other requests do to the shared scale, as long as every list has been
read whole) and `SlotsAccounted`. There is no liveness run:
every path of a request is finite and ends with its slot given back, which
`SlotsAccounted` and `RecoveriesCompose` say without fairness. An older snapshot
may replace a newer one in the file; the model has it, and as the cost is one more
rejection, nothing promises otherwise.

### RateLimitPolicy, CooldownStore, RateLimitPlugin

The rate-limit plugin for OpenCode clients. `RateLimitPolicy` holds its rules as
operators: `CooldownFor`, and `decide` as `MayRetry` and `Delay`. `CooldownStore`
is `update`, one action per awaited call: `MakeLock` and `FindLock` (mkdir),
`WritePid`, `ReadPid`, `OwnerExists` and `OwnerGone` (kill), `RemoveStale`,
`ReadRecord`, `Replace` (the temporary file is private, so its write and the
rename are one step), `Release`, and the ways each fails. `RateLimitPlugin` is the
three hooks around it.

* A process is an OpenCode process with one session at work on the scope. `pc`
  follows its turn: `gate` (the request is in the map, the record not yet read),
  `sent`, the steps of `update`, `failed` (the retry hook is to be asked), `wait`.
* The lock directory is `Free`, `NoPid` (made, no pid in it) or the process whose
  pid is in it. Removing it is one step, by name: it takes away whatever has the
  name by then. `Exit` loses a process's memory and leaves the disk as it is; a
  pid is not used again.
* `entry` is the session's entry in the map of requests; `Forget` drops it, as
  1024 requests of other sessions do.
* The engine that calls the hooks is outside the repository. It is assumed to
  count attempts, to wait as long as it is told, to run one attempt of a session
  at a time, and to hand an exception of a hook to the retry hook as an error
  without a status, which `classify` calls permanent.
* `promised` (the latest deadline ever written) and `heeded` (the deadline a
  decision has read) are history variables.

Properties: `Exclusion`, `DeadlineKept`, `DeadlinesHonoured`, `WaitsForDeadline`,
`GatedMeansUnsent`. The first three hold only while every process that ever ran is
still running (`AllLive`): a process that exits, even outside an update, can make
another remove a third one's lock (see "Met while modelling"). A
process that dies between mkdir and its pid leaves a directory that nobody
removes: from then on every update gives up and no deadline is recorded. The
documentation promises nothing about that case, so no property states it.

## Runs

| Run | Shows | Instance |
|---|---|---|
| `retry` | the five safety properties of the retry loop | 3 calls, 2 of one key; 2 transport tries, 1 failover, a cache of 1, TTL 1 |
| `upstream` | every call returns unless upstream stalls it; the wait a rate-limited client is told | the code's limits 3 and 3, a Zen call and a call without a key; or 2 models, the five rungs of the code scaled down, 13 header values on all sides of the clamp and of the overflow |
| `auth` | the bounds on overshoot and revocation, the daily counter | 2 requests, 1 panel request, quota 2, daily limit 1, costs -1 and 1, one midnight, one failed re-read |
| `chat` | the contract and its details | 3 chunks of each sample, 2 calls, in all shapes, calls that share an index over several fragments among them |
| `cooldown` | one updater at a time, deadlines only move later, none is missed | 2 processes, 1 attempt at the lock, 1 retry, 3 instants, Retry-After of 2 or none |
| `files` | which sessions outlive a password, what a restart changes; what is asked for, how recoveries compose, what becomes of the scales, slots come back | 2 administrators, 2 passwords, 2 bases, pools of 2, 2 changes and 2 logins between restarts; or 2 requests on an honest or a lying model, efforts none, xhigh, max and one nobody knows, one restart; or 3 requests without an effort on 2 slots |
| `responses` | the contract again, and calls and samples, for Responses upstreams | 4 frames, 2 items, 3 attempts, all forms; declared calls and calls without a name |
| `lanes` | the Responses contract, delivered calls and finish reasons of the OpenAI lanes | 4 chunks, 2 calls, declared, aliased and undeclared names, three lanes and forms |
| `turns` | prompts, keys, thinking and searches from turn to turn | 2 conversations, up to 3 requests of one and 1 of the other, 2 tools, 2 documents, 2 upstreams, a cache of 2 entries, lifetime 1, 3 instants |
| `late_name` | finding: a call that is dropped late leaves `tool_calls` behind | 2 chunks, 1 call |
| `half_call` | finding: half a call is told after a stream broke off | 3 chunks, 2 calls |
| `upstream_key_shifted` | finding: removing an upstream on the Settings page gives its key to the next one | 1 administrator, 1 change |

`upstream` and `files` each hold components that share no state: one of them moves, and
the others stay where they start, so nothing is left out by leaving out that both move.

Why the bounds are enough. *retry*: two calls of one key make every race on one
entry, the third makes eviction and provenance across keys; with a cache of one
every insertion of another key evicts; the limits 2 and 1 let all three rules
follow each other.
*auth*: two requests are enough for one to fill the cache while another hits it,
and for both to pass the check on the last token; TTL 2 and fill 1 make a stale
entry, a fresh one and an expired one differ; the quota of 2 and the costs of
1 let the overshoot reach its bound. *chat*: three chunks hold a call in two
fragments interleaved with another, or text, a call and a finish reason; two
calls are needed for anything to be merged or reordered, and three chunks are what it
takes to split the second of two that share an index. *cooldown*: two
processes contend for the lock and overtake each other's answers; the estimates
(1, 2 for a second failure, 3 for a quota) lie on both sides of the supplied 2 and
of the automatic limit of 2, so deadlines are kept, replaced, waited for and
refused. *files*: two
requests on one model learn, demote and persist over each other, and one is enough to
leave a part of a list for the other; no effort asked for is one either model accepts, so
each request goes through a rejection; a model that names a level it rejects and one
nobody knows makes every retry fail and two demotions overlap down to the last level, one
that names max besides what it takes makes the filter matter; three requests make one wait for a slot while two are served;
two changes of the panel's settings and two logins are what it takes for a login or a
change to fall between the steps of another. *responses*: four frames hold one call with its
added, delta and done frames and a second item, or a further sample after a first.
*upstream*: a second of four units in eight bits wraps at 32 seconds, so header values
lie below the floor, in range, above the ceiling and in each of the wrapped ranges;
two models show that ladders are apart. *lanes*: four chunks interleave two calls of
two fragments. *turns*: the third request repeats
what was answered twice; two entries are filled by one answer with two calls, so
the next conversation's call evicts; eleven answers have every finish reason, one of
two calls and an only call undeclared, one of two cut off, tools asked for without a
call, calls in spite of the reason, and nothing at all; three instants and a lifetime
of one make entries of one age, older, and expired. Which client meets which setting
is listed in `MCWorlds`; the second conversation is left out where the cache is not used.
`MaxDay`, `MaxBlind`, `MaxTime`, `MaxChunks`,
`MaxCalls`, `MaxFrames`, `MaxItems`, `MaxPuts`,
`MaxLogins`, `MaxPool`, `sends`, `Horizon`, `MaxFailures` and `MaxRestarts` are
bounds of the instances only: where there are proofs, they hold for every value.

Deadlock is not checked where the system really stops: all calls have returned,
the message is concluded, or the clock is at its horizon. Requests that are
interchangeable, and administrators and passwords, are symmetry sets in `retry`, `auth`
and `files`; their properties are invariants.
ClientAuth's counters are bounded by its guards.

### Findings

Each is a run that TLC finds violated by what the code does.

`upstream_key_shifted`, `src/internal/config/config.go:621`: `ApplyPatch` fills the blank keys of a list of
upstreams in by position, and the Settings page leaves all keys blank and sends the
list without a removed row. After the first of two upstreams is removed the second
is used with the key of the first, and its own is lost. The comment at
`config.go:614-615` says that masked edits do not wipe keys.

`late_name`, `src/internal/server/openai_toolfilter.go:182`: the chat filter passes a
fragment on whose call has no name yet, and counts it as kept. When the name comes and is
not declared, the rest of the call is dropped, but the finish reason stays `tool_calls`:
the client waits for results of a call it has only a nameless piece of. `README.md:558-560`
promises that a choice that lost every call has its finish reason corrected to `stop`.

`half_call`, `src/internal/server/proxy.go:617`: when a chat stream breaks off and is not
rescued, the handler writes an error event and then finalizes the converter, which emits
what is buffered, half a call included. `README.md:243-244` says that only completed
arguments are emitted, so that the client "receives a structurally complete tool call".
`CallsComplete` also fails without a break (leave `wire.failed` out of it and TLC shows
this): `proxy/stream.go:379` gives only the first fragment of a call that shares an index
a key of its own, so its later ones go to the first call, and the client gets one call
with too much and one with too little, where the comment at `stream.go:375-377` says
that the call is parked "instead of merging two calls' arguments into corrupt JSON".

### Met while modelling

Each of these is what the code does, found in writing a model or in a run of a
stricter property; no run of this directory keeps them.

Keys, panel, configuration:

* `api/keys.go:155`: the read and the write of an update are not one transaction, so
  "keep current value" can bring an old `enabled` back after a disable.
* `OPENCODE_CC_PANEL_TOKEN` undoes a panel password change at the next start; a Save
  that fails leaves the new password in memory and old sessions valid; a login that
  races a change leaves a stale session.
* `Load` unmarshals onto the defaults, and a slice that is replaced by the file
  reuses the default's elements, so a field that the file omits may keep a default.

Streams:

* The chat filter lets a call that shares an index inherit the first call's verdict, and
  the Responses writer merges the two.
* The gathered form of a chat keeps `tool_calls` after dropping every call
  (`FinishHonest` says so), and a stream that broke off is reported as complete.
* `server/proxy.go:1092-1123`: a whole answer gets `end_turn` if any call was dropped,
  though others survive.
* `proxy/response.go:187-188`: a whole answer that says `tool_calls` and calls nothing is
  told as `tool_use`, and only a dropped call corrects it (`server/proxy.go:1118`), so
  the client is told to run tools it was not given. No document says what such an
  answer becomes; `SearchTold` allows it only when upstream said so itself.
* A Responses call whose arguments are done before its name is known is flushed by
  its arguments alone; a late id makes the added `call_id` differ from the done one;
  the second reasoning item of a converted Anthropic answer repeats the first.
* A streamed `/v1/responses` answer has no filter for undeclared tools; 429 answers
  are relayed there, and in the native lane, without a time to wait.
* A stalled Responses turn is sampled up to three more times; `README.md:50-51` says
  once. A rescued chat turn whose first sample had ended with "length" keeps what
  the second says.

Efforts and rate limits:

* `server/recovery.go:93`: when the body of a rejected effort breaks off,
  `maybeRetryStaleReasoning` puts back the part it has read and `maybeRetryInvalidEffort`
  reads that as if it were all, so a list that was cut short is learned, persisted and
  retried from (`HearPart`); `recovery.go:161-162` says that unreadable bodies are passed
  through untouched.
* `server/recovery.go:166`: a body that is peeked and longer than 64 KiB is relayed cut
  there, and `:132` peeks at the answer to a clamped retry before its status is looked at,
  so a long successful one is cut too; `:25-27` says that beyond the cap the response is
  relayed untouched.
* `server/recovery.go:112`: `DemoteTop` drops the top of the scale as it is now,
  which need not be the effort that was just rejected.
* A client that waits exactly as long as it is told makes a quiet gap, so the ladder
  never climbs for it (`cooldown.go:38-40`, `README.md:521-526`); the scope is the
  target model, where `cooldown.go:58-60` says per server; a 429 without headers that
  follows a long Retry-After hands out 30 seconds; a Retry-After above 2^63 ns wraps.
* `contrib/opencode/rate-limit-retry/store.ts:44`: two processes that both find a
  dead owner's lock each remove "it", and may then update at once and lose a
  deadline, against `policy.ts:83`.

From turn to turn:

* Without a session in its metadata a client whose cache marker moves with each turn
  (or that changes the order of its tools, which the hint hashes as they came) has a
  new key and upstream every turn (`prompt_cache.go:44`, `278-325`). `PrefixReused`
  says so by excepting such clients.
* A late system message is moved to the front and changes key and prefix, and a
  reasoning that the cache dropped changes the prefix from its message on.
* `responses.go:443-488`: pending reasoning is not reset by a message, so a call made
  without thinking takes that of an earlier turn, and it is cached under its id.
* Only the Messages lane makes ids of its own; upstream ids of the Responses lane are
  cache keys as they are, so conversations whose upstream repeats ids restore each
  other's reasoning. `ReasoningRestored` excepts ids that were given twice.
* The shim's requests use no retry, failover or cooldown, answer 502 for a 429, and
  drop the other calls and the text beside a `web_search` call.

## Fairness

`UpstreamRetry` assumes, for each call, weak fairness of what the code or the runtime
bounds: the wait for response headers, which the shared transport ends after 30 seconds
(`server/server.go:81`), the head of the loop and the timer of the backoff; and, for a
call whose client has left, of the end of whatever it is doing, as its context is
cancelled. It assumes nothing of the rest of an exchange. The header timeout counts from
the moment the request is written, and neither the TLS handshake nor the writing has a
bound; the read of an error body (`server/helpers.go:112`) is bounded to 64 KiB but not
in time, unless the caller's client has a `Timeout` (`upstreamClient`,
`server/helpers.go:49-56`: requests that do not stream, with a timeout configured). So
`CallReturns` does not say that every call returns: one that upstream stalls while it
takes the request in, or in the middle of an error body, hangs for as long as its client
waits, and that is the only way. Nothing is assumed of clients or of the clock.
`ChatStream` has no fairness and no liveness property: no timeout bounds the time between
two chunks of a body, so a stream may stall.

## Proofs

`UpstreamProofs` (the retry loop and the effort recovery), `ServerProofs` (the cooldown
ladder and the panel), `ClientAuthProofs`, `ChatStreamProofs`, `ResponsesStreamProofs`,
`OpenAILanesProofs`, `ConversationsProofs` and `RateLimitPluginProofs` prove their
theorems from the assumptions of the modules (`RetryAssumption`, `EntryAssumption`,
`AuthAssumption`, `AbsentAssumption`, `ChatAssumption`, `ResponsesAssumption`,
`LanesAssumption`, `AnswersAssumption`, `CacheAssumption`, `RecoveryAssumption`,
`PolicyAssumption`, `StoreAssumption`, `PluginAssumption`, `CooldownAssumption`,
`PanelAssumption`). They say that limits and times are natural numbers, that the null
values are distinct from the others (no call has `NoId` for its number or id, none has
`NoName` for its name), that an answer without choices says nothing, that an upstream
uses the names, finish reasons, ways of indexing and kinds of answers of the model,
that the efforts in a list are distinct and that costs are bounded;
`OvershootBounded` and `SlotsAccounted` need the set of requests to be finite.
Two modules hold the proofs of two components each and extend both, so the type
invariants of `EffortRecovery` and `Cooldown` have names of their own.

| Theorem | Property | Argument |
|---|---|---|
| `UpstreamProofs!TypeCorrect` | `TypeOK` | inductive as it stands |
| `UpstreamProofs!AttemptsBounded` | `AttemptBudget` | not inductive: the attempt is counted when the wait ends, so the strengthening says what is already owed in `again` and `backoff` |
| `UpstreamProofs!AffinityNotShared` | `AffinityProvenance` | the cache and the calls are invariant together: one is filled from the other |
| `UpstreamProofs!CacheWithinLimit` | `CacheBounded` | cardinality of the cached keys; an insertion is preceded by the removal of a victim, which exists because a non-empty finite set of times has a least |
| `UpstreamProofs!DeadNeverReused` | `NoDeadReuse` | strengthened by: every dead or carried affinity of a call's own has a number up to its `failovers`, so the next one minted is new |
| `ClientAuthProofs!TypeCorrect` | `TypeOK` | inductive as it stands |
| `ClientAuthProofs!DailyCounterExact` | `DailyExact` | strengthened by: no row was reset after today |
| `ClientAuthProofs!RevocationTakesEffect` | `RevocationBounded` | strengthened by a relation between the age of a lookup, the life left in the cache and `closedFor` |
| `ClientAuthProofs!QuotaOvershoot` | `OvershootBounded` | arithmetic over the number of outstanding requests, which an admission raises by one below the quota |
| `ChatStreamProofs!TypeCorrect` | - | with the converters of both samples while they are fed: needs what a buffer holds of each call |
| `ChatStreamProofs!CallsDelivered` | `CallsExactlyOnce` | a buffer holds the calls sent so far one for one and under keys of their own, each with the pieces it is to hold; a replay leads from the client's buffer to the candidate's |
| `ChatStreamProofs!StopReasonTold` | `StopReasonHonest` | the calls on the wire are exactly those that `Finalize` emits |
| `ChatStreamProofs!OneSampleTold` | `OneSample` | what was narrated before a second sample is known from the verdict that asked for it: no calls, and no thinking |
| `ChatStreamProofs!ChatImplementsMessage` | `ImplementsMessage` | a chunk narrates one block or stutters, an end concludes, all else leaves the wire |
| `ResponsesStreamProofs!CallsDelivered` | `CallsExactlyOnce` | what a streamer holds of an item is a function of the frames the item has sent, and each item it has flushed is accounted for once |
| `ResponsesStreamProofs!OneSampleTold` | `OneSample` | what was told before a further sample is known from the verdict that asked for it; only its text is kept out of the replay |
| `ResponsesStreamProofs!ResponsesImplementsMessage` | `ImplementsMessage` | a frame narrates one text block, hands one call over or stutters; an end is one step of the contract although it may flush several calls |
| `UpstreamProofs!RecoveryTypeCorrect` | `RecoveryTypeOK` | with the count of slots and the scales: a clamp into an empty scale would have no value |
| `UpstreamProofs!SlotsAreReturned` | `SlotsAccounted` | cardinality of the set of served requests, which each step keeps, or changes by the request it is of |
| `UpstreamProofs!ScalesNeverEmptied` | `ScaleNeverEmpty` | the map, the file, every snapshot and every scale in hand are good: levels of the model, at least one |
| `UpstreamProofs!OnlyLevelsAreSent` | `OnlyNamedSent` | so what is clamped into one is a level, and so is every body in hand or posted |
| `UpstreamProofs!RecoveriesAreComposed` | `RecoveriesCompose` | strengthened by the trail of a request: as long as it decides, the last body posted is the one in hand |
| `UpstreamProofs!OneRejectionIsEnough` | `HonestRetryAccepted` | strengthened by: every copy of the table maps an honest model whose lists were read whole to what it names, and no request for one ever demotes |
| `RateLimitPluginProofs!TypeCorrect` | `TypeOK` | needs that a process in an update has a failure that may be recorded, and one about to write a record |
| `RateLimitPluginProofs!LockExcludes` | `Exclusion` | while all are live nobody finds a dead owner, so only its maker removes the directory: between mkdir and the pid it is empty and one process is there, from the pid on it holds the process's own pid |
| `RateLimitPluginProofs!DeadlineStays` | `DeadlineKept` | exclusion keeps every draft at or after the record it replaces |
| `RateLimitPluginProofs!NoRequestTooEarly` | `DeadlinesHonoured` | so the record is never before a deadline once written |
| `RateLimitPluginProofs!WaitsLongEnough` | `WaitsForDeadline` | a pause covers what is left of the deadline |
| `RateLimitPluginProofs!GatedNeverSent` | `GatedMeansUnsent` | the mark lives only from the gate to the next request |
| `ServerProofs!TrackerTypeCorrect` | `TrackerTypeOK` | a step never goes beyond the last rung, and every rung and every clamped wait is in range |
| `ServerProofs!WaitsAreHonest` | `WaitHonest` | arithmetic: below the width nothing wraps, so a wait in range comes back as it was |
| `ServerProofs!TypeCorrect` | `TypeOK` | inductive as it stands |
| `ServerProofs!StaleSessionsAreExplained` | `StaleSessionsExplained` | inductive with `TypeOK`: only `Apply` changes the password and only `Store` adds a session, and each leaves a change at work or marks what slipped |
| `ServerProofs!RestartsAreInvisible` | `RestartInvisible` | inductive with `TypeOK`: memory and disk part only in `Apply`, and `Save` or `SaveFails` follows |
| `OpenAILanesProofs!ResponseContractKept` | `ResponseWellFormed` | what a Responses client has is the converter's own items, all open, until the end; a whole answer is one step of the contract |
| `OpenAILanesProofs!CallsHanded` | `CallsDelivered` | what a client has of each call is, at every moment, a function of how much of it was sent; the end adds nothing and takes nothing |
| `OpenAILanesProofs!FinishTold` | `FinishHonest` | strengthened by: the filter has kept something if and only if the client has an entry; that is a declared call or a leftover; a gathered finish reason is the upstream's, and one that has none is not corrected |
| `ConversationsProofs!TurnsTold` | `SearchTold` | strengthened by: nothing is told while a turn goes on, and its step says which of its requests upstream has answered; the stop reason is followed through the conversion (`Frank`) and the filter (`Filtered`) |

The theorems of `RateLimitPluginProofs` follow from one inductive invariant,
`IInv`, whose conjuncts are proved to be kept one group at a time.

The theorems of `ChatStreamProofs` follow from one inductive invariant as well. None
of the properties is inductive: they speak of a message that is done, and of what was
sent. `IInv` says what holds before, by the value of `pc`:

* a converter that is fed is *in step* with its wire (`Live`): the wire is valid and
  not ended, a block is open on it if and only if the converter has a current block,
  of the same kind, and the next index is the number of blocks. So every event that
  is written next is acceptable to the reader;
* what is `Buffered` is what was sent: as many slots as calls, in the same order, each
  with the id of its own call and the pieces that call `Covers`; the keys of the slots
  differ, `minKey` is below all of them, and a slot has its call's index for a key if and
  only if the call is the first of that index. This is what makes `bufferTool` put a later
  fragment with that first call, which is its own unless the index is shared;
* while the second sample is received, the first has no calls and did not think; the
  chunks that are kept are a `Trail` from the buffer of the client's converter to that
  of the candidate, and each replayed chunk takes one step along it. So the client's
  converter ends with what the candidate was judged by;
* when it is done, the three properties hold.

That calls have ids of their own, in the order they are begun in, is a fact about
what an upstream sends (`Ordered`), and invariant as well. The converter applies its operators along sequences: `Received`, `Picked` and `HandedOver` are recursive functions, and the first
part of the module proves what they return, by induction over the natural numbers
(lemma `EveryNat`, from the well-foundedness of < on Nat), and that `Picked` keeps
order and repeats nothing (`PickedIs` and the lemmas after it).

The theorems of `ResponsesStreamProofs` follow from one inductive invariant, too. Here
calls are handed over in the middle of a stream, so it speaks of every prefix:

* a streamer that is fed is `Ready`: in step with its wire as above, with text for the
  only blocks that stay open;
* it is `Holding` what its sample sent: its items are those of the sample, in order and
  under their ids, and each is `Gathered`: its name, its arguments, its marks and
  whether it was flushed are a function of the item's form and of how many of its
  frames have come. So frames of several items may interleave in any way;
* it is `Settled`: there are as many calls on the wire and in the drop log as flushed
  items that are not silent, each is one of them with its arguments, and no two calls
  have the same id, although an item may be without one;
* while a further sample is received, the first is silent and has no call on the wire or
  in the drop log, and the frames that are kept are a `Trail` from no items to those the
  further sample has sent;
* in the replay the streamer of the client's message holds, behind the first sample's
  items and under ids of its own (the prefix of `Namespaced`), as much of the further
  one's as the rest of the trail leaves; no text is left on it if the first sample had
  some;
* when it is done, `CallsExactlyOnce` and `OneSample` hold.

The end of a stream flushes all items in one step (`Flushed`); that each flush keeps
the streamer settled, and that a call told never changes again, goes by induction over
the items.

The theorems of `OpenAILanesProofs` follow from two inductive invariants, one in the
other. None of the properties is inductive: they speak of the end of a turn. Here the
fragments of several calls interleave and a chunk may bring two, so each part relates
what there is of every call to how much of it was sent (`at`, `named`), and is proved to
be kept for each way a chunk can be (`Sending`: no fragment, one that begins a call, two
that do, one that goes on with a call):

* `WireInv`: the converter of a streamed Responses turn `Follows` the calls sent: it has
  one item for each, at a place of its own, with the pieces sent so far, and the items
  on the wire are `Alike`, none of them done; the converter's finish reason is the
  upstream's. `ResponseContractKept` needs no more;
* `Gathering`: of a gathered turn there is one entry for each call, in order, and the
  finish reason is the upstream's;
* `Filtered`: the filter of a chat stream `Judges` the calls sent: it has a verdict on
  those whose name has come, and the right one; and the client is `Shown` each call it is
  to have with all its pieces, and of one whose name has not come, or that it turned out
  not to have, the first piece at most. The name that comes late is renamed
  and merged into the entry that is there, which is where a wrong index would show;
* `InItems`, `InEntries`: when a turn is answered, each item or entry is what its client
  may have of a call of its own. Answers that come whole are here only: the blocks of an
  Anthropic answer are lifted one by one among texts and thinking (`Lifts`), and filters
  on whole answers (`Picked`) keep order and repeat nothing;
* `FinishHonest`.

The theorem about `Conversations` is about the web search shim. Its invariant, `TurnInv`,
is `SearchTold` for one conversation with what leads to it (`Turn`); the work is in what
the client assembles of the blocks that `writeSyntheticAnthropicStream` writes, block
by block, and in what the filter leaves of an answer and of its stop reason.

Only model-checked:

* `CallReturns`: liveness is out of the prover's reach;
* `PrefixReused` and `ReasoningRestored` of `Conversations`: what they say of two
  requests depends on the prompt's sorts, on keys that hash it and on the order in which
  the cache forgets; a proof would need what the sorts compute for every input.

## Not modelled

* The request log and its hourly totals (`store/store.go`): inserts and sums that
  SQLite serializes; the quota's use of usage is in `ClientAuth`.
* Model routing and the free tier, video input: tables and rewriting of bodies.
* Lifecycle, logging, keep-alive, the embedded panel, the DS Flash gateway,
  benchmarks and scripts: input and output without shared state.
* In parts that are modelled, what each module's section above lists as left out.

## Plan

1. Done: `UpstreamRetry`, `ClientAuth`, `AnthropicMessage`, `ChatConverter`,
   `ChatStream`, `RateLimitPolicy`, `CooldownStore`, `RateLimitPlugin`,
   `EffortScale`, `EffortLevels`, `EffortRecovery`, and the proofs about the retry
   loop, the key check, the plugin and the recoveries.
2. Done: `ResponsesStream` as a second refinement of `AnthropicMessage`;
   `OpenAILanes` as a refinement of `ResponsesMessage`; `Cooldown` and `Panel` with
   their proofs; `Conversations` with the caches and the web search shim.
3. Done: the proofs about `ChatStream` and `ResponsesStream`, their refinements of
   `AnthropicMessage` included.
4. Done: the same for `OpenAILanes`, with its refinement of `ResponsesMessage`, and for
   the web search shim of `Conversations`.
5. Later: a composition of `UpstreamRetry`, `EffortRecovery` and the streams in one
   relay; hourly totals of the request log; proofs about `PromptCache` (that its sort
   is stable for histories of any length), on which `PrefixReused` rests.
