------------------------------ MODULE Resolver ------------------------------
(***************************************************************************)
(* How one question is answered (HandleQuestion, handlePTRQuestion,        *)
(* resolveFastPath, processUpstreamAnswer and backgroundRefresh of         *)
(* resolver/resolver.go, TryFastLocalOrCache of data/lookup_index.go).     *)
(*                                                                         *)
(* A question that the local records and the cache do not answer at once   *)
(* starts a race: a buffered channel, one goroutine per upstream, and for  *)
(* PTR questions one each for the local and the cache lookup.  The main    *)
(* goroutine takes messages from the channel until it can answer.  Every   *)
(* upstream goroutine ends in a Go select between sending its result and   *)
(* the end of the context; when both are possible Go picks one at random.  *)
(*                                                                         *)
(* The questions of a behaviour have one name and type, and are answered   *)
(* one after the other.  An answer is abstracted to where its data came    *)
(* from, and whether DNSSEC validation would find it bogus.                *)
(***************************************************************************)
EXTENDS UpstreamSelection, FiniteSets

CONSTANTS
    Configs,     \* [rows, fallback]: server lists, seen from this name
    Qtypes,      \* types asked: "A" (or AAAA), "PTR", "MX" (any other)
    Settings,    \* [cacheOn, stale, strict]: cache_records, stale_while_revalidate,
                 \* and dnssec_validate with dnssec_validate_strict
    Bogus,       \* whether upstreams may send bogus signatures
    MayTimeOut,  \* whether upstreams may be slower than the timeout
    MaxQueries,  \* bound: questions
    MaxEdits     \* bound: changes of the local records

ASSUME ResolverAssumption ==
    /\ \A c \in Configs : c.rows \in Seq(Row) /\ c.fallback \in Endpoint \cup {NoEndpoint}
    /\ Qtypes \subseteq {"A", "PTR", "MX"}
    /\ Settings \subseteq [cacheOn : BOOLEAN, stale : BOOLEAN, strict : BOOLEAN]
    /\ Bogus \in BOOLEAN /\ MayTimeOut \in BOOLEAN
    /\ MaxQueries \in Nat /\ MaxEdits \in Nat

\* The selection, whose recursion is outside the proofs, gives endpoints.
ASSUME SelectionGivesEndpoints ==
    \A c \in Configs, marked \in SUBSET Endpoint :
        ServersToQuery(c.rows, c.fallback, marked) \in Seq(Endpoint)

VARIABLES
    cfg,       \* dnsservers.json and fallback_server_*
    settings,  \* what the administrator has switched on
    name,      \* what kind of name it is, where that matters (address questions)
    local,     \* whether the local records have an answer
    cache,     \* the cache entry a lookup finds
    unhealthy, \* endpoints the health tracker excludes
    pc,        \* "idle", or "race" while the main goroutine waits for messages
    qtype,     \* the type of the questions
    asked,     \* serversToQuery
    ch,        \* the channel of the race
    ctx,       \* its context
    lg, cg,    \* the local and the cache lookup: "run", or what they found
    up,        \* the upstream goroutines
    seen,      \* what the main goroutine knows
    outcome,   \* how the last question was answered
    served,    \* with which data
    refreshes, \* backgroundRefresh goroutines that are running
    queries, edits

config == <<cfg, settings, name>>
data   == <<local, cache, unhealthy>>
race   == <<asked, ch, ctx, lg, cg, up, seen>>
result == <<outcome, served>>
bounds == <<queries, edits>>
vars   == <<cfg, settings, name, local, cache, unhealthy, pc, qtype, asked, ch, ctx, lg,
            cg, up, seen, outcome, served, refreshes, queries, edits>>

Answers  == {"good", "bogus"}                    \* from upstream
Sources  == {"local"} \cup Answers
Entry    == [age : {"none"}, src : {"none"}] \cup [age : {"fresh", "stale"}, src : Sources]
NoEntry  == [age |-> "none", src |-> "none"]
Fresh(s) == [age |-> "fresh", src |-> s]

Msg       == [kind : {"local", "cache", "up"}, val : Sources \cup {"miss"}, from : Nat]
Found(k, v) == [kind |-> k, val |-> v, from |-> 0]
NoMsg     == Found("up", "miss")
Unknown   == [localDone |-> FALSE, cacheDone |-> FALSE, cacheHit |-> "miss",
              firstUp |-> NoMsg, upstreamSeen |-> 0]

UpState  == {"query", "ready", "sent", "dropped"}
Cap      == 2 + Len(asked)

Init ==
    /\ cfg \in Configs
    /\ settings \in Settings
    /\ qtype \in Qtypes
    /\ name \in IF qtype = "A" THEN {"plain", "localhost", "blocked"} ELSE {"plain"}
    /\ local \in BOOLEAN
    /\ cache \in IF settings.cacheOn THEN {NoEntry, Fresh("good")} ELSE {NoEntry}
    /\ unhealthy \in SUBSET Endpoint
    /\ pc = "idle"
    /\ asked = <<>> /\ ch = <<>> /\ ctx = "done" /\ lg = "miss" /\ cg = "miss" /\ up = <<>>
    /\ seen = Unknown
    /\ outcome = "" /\ served = "nothing"
    /\ refreshes = 0
    /\ queries = 0 /\ edits = 0

----------------------------------------------------------------------------
(* Before the race.                                                        *)

\* A question arrives; with it, what the store says at once.
Asks   == /\ pc = "idle" /\ queries < MaxQueries
          /\ queries' = queries + 1 /\ UNCHANGED qtype
Usable == cache.age = "fresh" \/ (settings.stale /\ cache.age = "stale")
Misses == ~local /\ (qtype = "PTR" \/ ~Usable)
Reply(out, from) == outcome' = out /\ served' = from

\* cacheDNSResponse on local records.  An upstream answer already cached as a whole
\* may go on hiding them.
CacheLocal ==
    \/ UNCHANGED cache
    \/ settings.cacheOn /\ cache' = Fresh("local")

\* Local records, for PTR in handlePTRQuestion.
AnswerLocal ==
    /\ Asks
    /\ local
    /\ Reply("local", "local")
    /\ CacheLocal
    /\ lg' = "local"
    /\ UNCHANGED <<config, local, unhealthy, pc, asked, ch, ctx, cg, up, seen, refreshes, edits>>

\* The cache; a stale entry is served and refreshed.
AnswerCached ==
    /\ Asks
    /\ qtype # "PTR" /\ ~local /\ Usable
    /\ Reply("cache", cache.src)
    /\ lg' = "miss"
    /\ refreshes' = IF cache.age = "stale" THEN refreshes + 1 ELSE refreshes
    /\ UNCHANGED <<config, data, pc, asked, ch, ctx, cg, up, seen, edits>>

\* localhost has a built-in address, and a name on the block list gets none.
AnswerBuiltin ==
    /\ Asks
    /\ Misses /\ qtype = "A"
    /\ \/ name = "localhost" /\ Reply("local", "builtin")
       \/ name = "blocked" /\ Reply("blocked", "nothing")
    /\ UNCHANGED <<config, data, pc, race, refreshes, edits>>

\* Variant: the channel is filled with the lookups that are still to come.
StartRaceUnknown ==
    /\ Asks
    /\ Misses /\ name = "plain"
    /\ pc' = "race"
    /\ asked' = ServersToQuery(cfg.rows, cfg.fallback, unhealthy)
    /\ ctx' = "live"
    /\ up' = [i \in DOMAIN asked' |-> [st |-> "query", val |-> "miss"]]
    /\ lg' = "run" /\ cg' = "run"
    /\ ch' = <<Found("local", "miss"), Found("cache", "miss")>>
    /\ seen' = Unknown
    /\ Reply("", "nothing")
    /\ UNCHANGED <<config, data, refreshes, edits>>

\* The race begins.  PTR questions look in the local records (again) and in the
\* cache, unless it is empty (a cache without this name may have others); for other
\* types the two empty messages are already in the channel.
StartRace ==
    /\ Asks
    /\ Misses /\ name = "plain"
    /\ pc' = "race"
    /\ asked' = ServersToQuery(cfg.rows, cfg.fallback, unhealthy)
    /\ ctx' = "live"
    /\ up' = [i \in DOMAIN asked' |-> [st |-> "query", val |-> "miss"]]
    /\ \E lookCache \in IF qtype = "PTR" /\ settings.cacheOn THEN {TRUE, cache # NoEntry} ELSE {FALSE} :
           /\ lg' = IF qtype = "PTR" THEN "run" ELSE "miss"
           /\ cg' = IF lookCache THEN "run" ELSE "miss"
           /\ ch' = (IF qtype = "PTR" THEN <<>> ELSE <<Found("local", "miss")>>)
                      \o (IF lookCache THEN <<>> ELSE <<Found("cache", "miss")>>)
    /\ seen' = Unknown
    /\ Reply("", "nothing")
    /\ UNCHANGED <<config, data, refreshes, edits>>

----------------------------------------------------------------------------
(* The goroutines of the race.                                             *)

CanSend == Len(ch) < Cap

LookupLocalRRs ==
    /\ lg = "run" /\ CanSend
    /\ lg' = IF local THEN "local" ELSE "miss"
    /\ ch' = Append(ch, Found("local", lg'))
    /\ UNCHANGED <<config, data, pc, qtype, asked, ctx, cg, up, seen, result, refreshes, bounds>>

\* Variant: the lookup sends nothing when it misses.
LookupCacheSilent ==
    /\ cg = "run" /\ CanSend
    /\ cg' = IF cache.age = "fresh" THEN cache.src ELSE "miss"
    /\ ch' = IF cg' = "miss" THEN ch ELSE Append(ch, Found("cache", cg'))
    /\ UNCHANGED <<config, data, pc, qtype, asked, ctx, lg, up, seen, result, refreshes, bounds>>

LookupCacheRR ==
    /\ cg = "run" /\ CanSend
    /\ cg' = IF cache.age = "fresh" THEN cache.src ELSE "miss"
    /\ ch' = Append(ch, Found("cache", cg'))
    /\ UNCHANGED <<config, data, pc, qtype, asked, ctx, lg, up, seen, result, refreshes, bounds>>

\* upstream.Query returns: a usable answer, or an error or reply without one.
UpstreamReturns(i) ==
    /\ up[i].st = "query"
    /\ \E v \in {"good", "miss"} \cup (IF Bogus THEN {"bogus"} ELSE {}) :
          up' = [up EXCEPT ![i] = [st |-> "ready", val |-> v]]
    /\ UNCHANGED <<config, data, pc, qtype, asked, ch, ctx, lg, cg, seen, result, refreshes, bounds>>

UpstreamSends(i) ==
    /\ up[i].st = "ready" /\ CanSend
    /\ up' = [up EXCEPT ![i].st = "sent"]
    /\ ch' = Append(ch, [kind |-> "up", val |-> up[i].val, from |-> i])
    /\ UNCHANGED <<config, data, pc, qtype, asked, ctx, lg, cg, seen, result, refreshes, bounds>>

\* The other branch of the select: the context has ended.
UpstreamDrops(i) ==
    /\ up[i].st = "ready" /\ ctx # "live"
    /\ up' = [up EXCEPT ![i].st = "dropped"]
    /\ UNCHANGED <<config, data, pc, qtype, asked, ch, ctx, lg, cg, seen, result, refreshes, bounds>>

\* The context of the race reaches its deadline.
TimeOut ==
    /\ MayTimeOut /\ pc = "race" /\ ctx = "live"
    /\ ctx' = "expired"
    /\ UNCHANGED <<config, data, pc, qtype, asked, ch, lg, cg, up, seen, result, refreshes, bounds>>

----------------------------------------------------------------------------
(* The main goroutine: one turn of its loop.                               *)

\* Variant: every message counts as one of an upstream.
KnowsCountsAll(m) ==
    [localDone    |-> seen.localDone \/ m.kind = "local",
     cacheDone    |-> seen.cacheDone \/ m.kind = "cache",
     cacheHit     |-> IF m.kind = "cache" THEN m.val ELSE seen.cacheHit,
     firstUp      |-> IF m.kind = "up" /\ m.val \in Answers /\ seen.firstUp = NoMsg
                      THEN m ELSE seen.firstUp,
     upstreamSeen |-> seen.upstreamSeen + 1]

\* What it knows after message m.
Knows(m) ==
    [localDone    |-> seen.localDone \/ m.kind = "local",
     cacheDone    |-> seen.cacheDone \/ m.kind = "cache",
     cacheHit     |-> IF m.kind = "cache" THEN m.val ELSE seen.cacheHit,
     firstUp      |-> IF m.kind = "up" /\ m.val \in Answers /\ seen.firstUp = NoMsg
                      THEN m ELSE seen.firstUp,
     upstreamSeen |-> seen.upstreamSeen + (IF m.kind = "up" THEN 1 ELSE 0)]

LocalHit(m) == m.kind = "local" /\ m.val = "local"

\* Variant: an upstream answer is used before the lookups are known.
DecideAtOnce(m) ==
    LET k == Knows(m)
    IN  CASE LocalHit(m) -> "local"
          [] ~LocalHit(m) /\ k.cacheHit # "miss" -> "cache"
          [] ~LocalHit(m) /\ k.cacheHit = "miss" /\ k.firstUp # NoMsg -> "upstream"
          [] ~LocalHit(m) /\ k.cacheHit = "miss" /\ k.firstUp = NoMsg
                /\ k.upstreamSeen = Len(asked) /\ k.localDone /\ k.cacheDone -> "none"
          [] OTHER -> ""

\* Variant: it gives up when the first upstream has nothing.
DecideEarly(m) ==
    LET k == Knows(m)
    IN  CASE LocalHit(m) -> "local"
          [] ~LocalHit(m) /\ k.cacheHit # "miss" -> "cache"
          [] ~LocalHit(m) /\ k.cacheHit = "miss" /\ k.firstUp # NoMsg -> "upstream"
          [] m.kind = "up" /\ m.val = "miss" -> "none"
          [] OTHER -> ""

\* The end of the turn: the outcome, or "" to take another message.
Decide(m) ==
    LET k    == Knows(m)
        both == k.localDone /\ k.cacheDone
    IN  CASE LocalHit(m) -> "local"
          [] ~LocalHit(m) /\ both /\ k.cacheHit # "miss" -> "cache"
          [] ~LocalHit(m) /\ both /\ k.cacheHit = "miss" /\ k.firstUp # NoMsg -> "upstream"
          [] ~LocalHit(m) /\ both /\ k.cacheHit = "miss" /\ k.firstUp = NoMsg
                /\ k.upstreamSeen = Len(asked) -> "none"
          [] OTHER -> ""

Take(m) ==
    /\ pc = "race" /\ ch # <<>> /\ m = Head(ch)
    /\ ch' = Tail(ch)
    /\ seen' = Knows(m)
    /\ UNCHANGED <<config, local, qtype, asked, lg, cg, up, refreshes, bounds>>

Returns == pc' = "idle" /\ ctx' = "done"

TakeAndWait(m) ==
    /\ Take(m) /\ Decide(m) = ""
    /\ UNCHANGED <<cache, unhealthy, pc, ctx, result>>

TakeLocal(m) ==
    /\ Take(m) /\ Decide(m) = "local"
    /\ Returns /\ Reply("local", "local")
    /\ CacheLocal
    /\ UNCHANGED unhealthy

TakeCached(m) ==
    /\ Take(m) /\ Decide(m) = "cache"
    /\ Returns /\ Reply("cache", seen'.cacheHit)
    /\ UNCHANGED <<cache, unhealthy>>

\* Variant: the answer is cached before it is validated.
TakeUpstreamCachesFirst(m) ==
    /\ Take(m) /\ Decide(m) = "upstream"
    /\ Returns
    /\ unhealthy' = unhealthy \ {asked[seen'.firstUp.from]}
    /\ Reply("upstream", IF settings.strict /\ seen'.firstUp.val = "bogus" THEN "servfail"
                         ELSE seen'.firstUp.val)
    /\ cache' = IF settings.cacheOn THEN Fresh(seen'.firstUp.val) ELSE cache

\* RecordUpstreamForwardSuccess, then processUpstreamAnswer: a bogus answer is
\* refused under strict validation; others are sent and cached.
TakeUpstream(m) ==
    /\ Take(m) /\ Decide(m) = "upstream"
    /\ Returns
    /\ unhealthy' = unhealthy \ {asked[seen'.firstUp.from]}
    /\ LET refused == settings.strict /\ seen'.firstUp.val = "bogus"
       IN  /\ Reply("upstream", IF refused THEN "servfail" ELSE seen'.firstUp.val)
           /\ cache' = IF settings.cacheOn /\ ~refused THEN Fresh(seen'.firstUp.val) ELSE cache

TakeNone(m) ==
    /\ Take(m) /\ Decide(m) = "none"
    /\ Returns /\ Reply("none", "nothing")
    /\ UNCHANGED <<cache, unhealthy>>

Turn == \E m \in Elems(ch) :
    \/ TakeAndWait(m) \/ TakeLocal(m) \/ TakeCached(m) \/ TakeUpstream(m) \/ TakeNone(m)

----------------------------------------------------------------------------
(* The background.                                                         *)

\* backgroundRefresh: the first server with an answer, in turn.
BackgroundRefresh ==
    /\ refreshes > 0
    /\ refreshes' = refreshes - 1
    /\ \/ UNCHANGED cache
       \/ /\ settings.cacheOn
          /\ RefreshServers(cfg.rows, cfg.fallback, unhealthy) # <<>>
          /\ \E v \in {"good"} \cup (IF Bogus THEN {"bogus"} ELSE {}) : cache' = Fresh(v)
    /\ UNCHANGED <<config, local, unhealthy, pc, qtype, race, result, bounds>>

\* Time passes over the cached entry; compaction drops it later.
CacheAges ==
    /\ \/ cache.age = "fresh" /\ cache' = [cache EXCEPT !.age = "stale"]
       \/ cache.age = "stale" /\ cache' = NoEntry
    /\ UNCHANGED <<config, local, unhealthy, pc, qtype, race, result, refreshes, bounds>>

EditRecords ==
    /\ edits < MaxEdits
    /\ edits' = edits + 1
    /\ local' = ~local
    /\ UNCHANGED <<config, cache, unhealthy, pc, qtype, race, result, refreshes, queries>>

----------------------------------------------------------------------------

HandleQuestion == AnswerLocal \/ AnswerCached \/ AnswerBuiltin \/ StartRace

UpstreamStep(i) == UpstreamReturns(i) \/ UpstreamSends(i) \/ UpstreamDrops(i)

Next ==
    \/ HandleQuestion
    \/ LookupLocalRRs
    \/ LookupCacheRR
    \/ \E i \in DOMAIN up : UpstreamStep(i)
    \/ TimeOut
    \/ Turn
    \/ BackgroundRefresh
    \/ CacheAges
    \/ EditRecords

Spec == Init /\ [][Next]_vars

\* A question goes to every row, its fallback and the fallback server at most.
MayBeAsked == UNION {1 .. 2 * Len(c.rows) + 1 : c \in Configs}

(***************************************************************************)
(* Fairness: the Go scheduler runs every goroutine that is ready, and      *)
(* upstream.Query returns (it gives up at the deadline at the latest).     *)
(* Which branch a select takes is not up to the scheduler.                 *)
(***************************************************************************)
Fairness ==
    /\ WF_vars(Turn)
    /\ WF_vars(LookupLocalRRs)
    /\ WF_vars(LookupCacheRR)
    /\ \A i \in MayBeAsked : WF_vars(i \in DOMAIN up /\ UpstreamStep(i))

FairSpec == Spec /\ Fairness

----------------------------------------------------------------------------
(* Properties.                                                             *)

TypeOK ==
    /\ cfg \in Configs
    /\ settings \in Settings
    /\ name \in {"plain", "localhost", "blocked"}
    /\ local \in BOOLEAN
    /\ cache \in Entry
    /\ unhealthy \subseteq Endpoint
    /\ pc \in {"idle", "race"}
    /\ qtype \in Qtypes
    /\ asked \in Seq(Endpoint)
    /\ ch \in Seq(Msg) /\ Len(ch) <= Cap
    /\ ctx \in {"live", "expired", "done"}
    /\ lg \in {"run", "local", "miss"}
    /\ cg \in {"run", "miss"} \cup Sources
    /\ up \in Seq([st : UpState, val : Answers \cup {"miss"}]) /\ Len(up) = Len(asked)
    /\ seen \in [localDone : BOOLEAN, cacheDone : BOOLEAN, cacheHit : Sources \cup {"miss"},
                 firstUp : Msg, upstreamSeen : 0 .. Len(asked)]
    /\ outcome \in {"", "local", "cache", "upstream", "none", "blocked"}
    /\ served \in Sources \cup {"nothing", "builtin", "servfail"}
    /\ refreshes \in 0 .. MaxQueries
    /\ queries \in 0 .. MaxQueries /\ edits \in 0 .. MaxEdits

\* "Priority: local > cache > first upstream success": whatever order the
\* goroutines of the race finish in, the cache is used only after the local
\* lookup missed, and an upstream only after both did.
Priority ==
    /\ outcome = "cache" => lg = "miss"
    /\ outcome = "upstream" => lg = "miss" /\ cg = "miss"

\* The channel has room for every goroutine of the race, so none of them is stuck
\* in a send after the main goroutine has left.
SendersNeverBlock ==
    lg = "run" \/ cg = "run" \/ (\E i \in DOMAIN up : up[i].st = "ready") => CanSend

\* "No answer" is given only when every upstream that was asked had none, and
\* local records and cache missed.
NoneMeansNone ==
    outcome = "none" =>
        /\ lg = "miss" /\ cg = "miss"
        /\ \A i \in DOMAIN up : up[i] = [st |-> "sent", val |-> "miss"]

\* dnssec_validate_strict: "if verification fails (bogus signatures), return
\* SERVFAIL instead of passing the answer", when the answer arrives and when it
\* comes from the cache later.  stale_while_revalidate has to be off, because
\* backgroundRefresh caches what it gets without validation.
StrictRefusesBogus == settings.strict /\ ~settings.stale => served # "bogus"

\* A question whose race does not run into the deadline is answered, if only with
\* "none": the main goroutine never waits for a message that nobody will send.
AnsweredInTime == (pc = "race") ~> (pc = "idle" \/ ctx = "expired")

\* Every question is answered, after the deadline at the latest: "outcome is one of:
\* local, cache, upstream, none, blocked".
QuestionAnswered == (pc = "race") ~> (pc = "idle")
=============================================================================
