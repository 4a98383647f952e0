-------------------------- MODULE ReasoningCache ---------------------------
(***************************************************************************)
(* internal/proxy/reasoning_cache.go: what the upstream thought before it  *)
(* made a tool call, kept by the identity of the call, for clients that    *)
(* send the call back without it.  Every operation holds the mutex for its *)
(* whole length.  An entry is [reasoning, created]; created is a reading   *)
(* of a clock that several stores may find unchanged.                      *)
(***************************************************************************)
EXTENDS Naturals, Sequences, FiniteSetsExt, Functions

CONSTANTS
    NoReasoning,
    MaxEntries,     \* reasoningCacheMaxEntries, 4096
    TTL             \* reasoningCacheTTL, six hours

\* Entries are dropped when they are older than the limit.
pruneLocked(cache, now) ==
    Restrict(cache, {id \in DOMAIN cache : now - cache[id].created <= TTL})

\* Fault: the newest entries go.
PruneNewest(cache) ==
    LET Newest(kept) ==
            \A new \in DOMAIN cache \ kept, id \in kept :
                cache[new].created >= cache[id].created
    IN  IF Cardinality(DOMAIN cache) <= MaxEntries THEN {cache}
        ELSE {Restrict(cache, kept) :
                kept \in {k \in kSubset(MaxEntries, DOMAIN cache) : Newest(k)}}

\* The caches that dropping the oldest entries can leave: a map is scanned in
\* no particular order, so entries of one age are dropped as it happens.
pruneOverflowLocked(cache) ==
    LET Oldest(kept) ==
            \A old \in DOMAIN cache \ kept, id \in kept :
                cache[old].created <= cache[id].created
    IN  IF Cardinality(DOMAIN cache) <= MaxEntries THEN {cache}
        ELSE {Restrict(cache, kept) :
                kept \in {k \in kSubset(MaxEntries, DOMAIN cache) : Oldest(k)}}

\* The caches after the reasoning has been stored under all of the ids.
store(cache, reasoning, ids, now) ==
    IF reasoning = NoReasoning \/ ids = <<>> THEN {cache}
    ELSE LET live == pruneLocked(cache, now)
             given == Range(ids)
         IN  pruneOverflowLocked(
                [id \in DOMAIN live \cup given |->
                    IF id \in given THEN [reasoning |-> reasoning, created |-> now]
                    ELSE live[id]])

\* The reasoning of the first id that has an entry, in a cache just pruned.
lookup(cache, ids) ==
    LET known == SelectSeq(ids, LAMBDA id : id \in DOMAIN cache)
    IN  IF known = <<>> THEN NoReasoning ELSE cache[Head(known)].reasoning
============================================================================
