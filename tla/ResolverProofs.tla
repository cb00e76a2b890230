--------------------------- MODULE ResolverProofs ---------------------------
(***************************************************************************)
(* Proofs about Resolver, for any server lists, settings, number of        *)
(* upstreams and questions: the channel of the race always has room, the   *)
(* order of preference holds in every interleaving, "none" means that      *)
(* nobody had an answer, and strict validation keeps bogus data away.      *)
(***************************************************************************)
EXTENDS Resolver, FiniteSetTheorems, TLAPS

(***************************************************************************)
(* TypeOK without the two bounds that rest on counting arguments.          *)
(***************************************************************************)
UpRec == [st : UpState, val : Answers \cup {"miss"}]
Known == [localDone : BOOLEAN, cacheDone : BOOLEAN, cacheHit : Sources \cup {"miss"},
          firstUp : Msg, upstreamSeen : Nat]

StoreTypes ==
    /\ cfg \in Configs
    /\ settings \in Settings
    /\ name \in {"plain", "localhost", "blocked"}
    /\ local \in BOOLEAN
    /\ cache \in Entry
    /\ unhealthy \subseteq Endpoint
    /\ qtype \in Qtypes
    /\ queries \in 0 .. MaxQueries /\ edits \in 0 .. MaxEdits
    /\ refreshes \in 0 .. queries

RaceTypes ==
    /\ pc \in {"idle", "race"}
    /\ asked \in Seq(Endpoint)
    /\ ch \in Seq(Msg) /\ Len(ch) <= Cap
    /\ ctx \in {"live", "expired", "done"}
    /\ lg \in {"run", "local", "miss"}
    /\ cg \in {"run", "miss"} \cup Sources
    /\ up \in Seq(UpRec) /\ Len(up) = Len(asked)
    /\ seen \in Known
    /\ seen.firstUp = NoMsg \/ seen.firstUp.val \in Answers

ResultTypes ==
    /\ outcome \in {"", "local", "cache", "upstream", "none", "blocked"}
    /\ served \in Sources \cup {"nothing", "builtin", "servfail"}

Types == StoreTypes /\ RaceTypes /\ ResultTypes

----------------------------------------------------------------------------
(* Values.                                                                 *)

LEMMA SettingsRecord ==
  ASSUME settings \in Settings
  PROVE  settings.cacheOn \in BOOLEAN /\ settings.stale \in BOOLEAN /\ settings.strict \in BOOLEAN
  BY ResolverAssumption

LEMMA FreshEntry ==
  ASSUME NEW s \in Sources
  PROVE  Fresh(s) \in Entry
  BY DEF Fresh, Entry

LEMMA EntrySource ==
  ASSUME NEW c \in Entry, c.age \in {"fresh", "stale"}
  PROVE  c.src \in Sources
  BY DEF Entry

LEMMA FoundMsg ==
  ASSUME NEW k \in {"local", "cache", "up"}, NEW v \in Sources \cup {"miss"}
  PROVE  Found(k, v) \in Msg
  BY DEF Found, Msg

LEMMA UnknownType == Unknown \in Known
  <1>1. NoMsg \in Msg
    BY FoundMsg DEF NoMsg
  <1> QED
    BY <1>1 DEF Unknown, Known

LEMMA KnowsType ==
  ASSUME NEW m \in Msg, seen \in Known
  PROVE  Knows(m) \in Known
  <1>1. m.kind = "cache" => m.val \in Sources \cup {"miss"}
    BY DEF Msg
  <1>2. seen.upstreamSeen + (IF m.kind = "up" THEN 1 ELSE 0) \in Nat
    BY DEF Known
  <1> QED
    BY <1>1, <1>2 DEF Knows, Known

LEMMA CacheLocalType ==
  ASSUME cache \in Entry, CacheLocal
  PROVE  cache' \in Entry
  BY FreshEntry DEF CacheLocal, Sources

\* An upstream goroutine moves on.
LEMMA UpMoves ==
  ASSUME up \in Seq(UpRec), NEW i \in DOMAIN up, NEW s \in UpState,
         up' = [up EXCEPT ![i].st = s]
  PROVE  /\ up[i].val \in Answers \cup {"miss"} /\ i \in Nat
         /\ up' \in Seq(UpRec) /\ Len(up') = Len(up) /\ DOMAIN up' = DOMAIN up
         /\ up'[i].st = s /\ up'[i].val = up[i].val
         /\ \A k \in DOMAIN up : k # i => up'[k] = up[k]
  <1>1. up[i] \in UpRec /\ i \in Nat
    OBVIOUS
  <1>2. up[i].val \in Answers \cup {"miss"}
    BY <1>1 DEF UpRec
  <1>3. [up[i] EXCEPT !.st = s] \in UpRec
    BY <1>1 DEF UpRec
  <1>4. up' = [up EXCEPT ![i] = [up[i] EXCEPT !.st = s]]
    OBVIOUS
  <1>5. up' \in Seq(UpRec) /\ Len(up') = Len(up) /\ DOMAIN up' = DOMAIN up
    BY <1>3, <1>4
  <1>6. up'[i].st = s /\ up'[i].val = up[i].val
    BY <1>1, <1>4 DEF UpRec
  <1>7. \A k \in DOMAIN up : k # i => up'[k] = up[k]
    BY <1>4
  <1> QED
    BY <1>1, <1>2, <1>5, <1>6, <1>7

\* What a decision rests on.
LEMMA DecideFacts ==
  ASSUME NEW m
  PROVE  /\ Decide(m) = "local" <=> LocalHit(m)
         /\ Decide(m) \in {"cache", "upstream", "none"} =>
               ~LocalHit(m) /\ Knows(m).localDone /\ Knows(m).cacheDone
         /\ Decide(m) = "cache" => Knows(m).cacheHit # "miss"
         /\ Decide(m) \in {"upstream", "none"} => Knows(m).cacheHit = "miss"
         /\ Decide(m) = "upstream" => Knows(m).firstUp # NoMsg
         /\ Decide(m) = "none" =>
               Knows(m).firstUp = NoMsg /\ Knows(m).upstreamSeen = Len(asked)
  BY DEF Decide

\* The main goroutine takes the first message of the channel.
LEMMA TakeType ==
  ASSUME RaceTypes, NEW m, Take(m)
  PROVE  /\ m \in Msg /\ m = ch[1] /\ 1 \in DOMAIN ch
         /\ ch' \in Seq(Msg) /\ Len(ch') = Len(ch) - 1
         /\ \A j \in DOMAIN ch' : j + 1 \in DOMAIN ch /\ ch'[j] = ch[j + 1]
         /\ seen' \in Known /\ seen' = Knows(m)
         /\ seen'.firstUp = NoMsg \/ seen'.firstUp.val \in Answers
         /\ UNCHANGED <<asked, lg, cg, up>>
  <1>1. ch \in Seq(Msg) /\ ch # <<>>
    BY DEF RaceTypes, Take
  <1>2. m \in Msg /\ m = ch[1] /\ 1 \in DOMAIN ch
    BY <1>1 DEF Take
  <1>3. ch' \in Seq(Msg) /\ Len(ch') = Len(ch) - 1
    BY <1>1 DEF Take
  <1>4. \A j \in DOMAIN ch' : j + 1 \in DOMAIN ch /\ ch'[j] = ch[j + 1]
    BY <1>1 DEF Take
  <1>5. seen' \in Known
    BY <1>2, KnowsType DEF Take, RaceTypes
  <1>6. seen'.firstUp = NoMsg \/ seen'.firstUp.val \in Answers
    <2>1. (seen'.firstUp = m /\ m.val \in Answers) \/ seen'.firstUp = seen.firstUp
      BY DEF Take, Knows
    <2> QED
      BY <2>1 DEF RaceTypes
  <1> QED
    BY <1>2, <1>3, <1>4, <1>5, <1>6 DEF Take

\* A new race: as many goroutines as servers, and what is sent at once.
LEMMA StartRaceType ==
  ASSUME Types, StartRace
  PROVE  /\ asked' \in Seq(Endpoint)
         /\ up' \in Seq(UpRec) /\ Len(up') = Len(asked') /\ DOMAIN up' = 1 .. Len(asked')
         /\ \A i \in DOMAIN up' : up'[i] = [st |-> "query", val |-> "miss"]
         /\ lg' \in {"run", "miss"} /\ cg' \in {"run", "miss"}
         /\ ch' = (IF lg' = "run" THEN <<>> ELSE <<Found("local", "miss")>>)
                    \o (IF cg' = "run" THEN <<>> ELSE <<Found("cache", "miss")>>)
         /\ ch' \in Seq(Msg) /\ Len(ch') <= 2
  <1>1. asked' \in Seq(Endpoint)
    BY ZenonT(30), SelectionGivesEndpoints DEF StartRace, Types, StoreTypes
  <1>2. up' = [i \in 1 .. Len(asked') |-> [st |-> "query", val |-> "miss"]]
    <2>1. DOMAIN asked' = 1 .. Len(asked')
      BY <1>1
    <2>2. up' = [i \in DOMAIN asked' |-> [st |-> "query", val |-> "miss"]]
      BY ZenonT(30) DEF StartRace
    <2> QED
      BY <2>1, <2>2, Zenon
  <1>3. [st |-> "query", val |-> "miss"] \in UpRec
    BY DEF UpRec, UpState
  <1>4. up' \in Seq(UpRec) /\ Len(up') = Len(asked') /\ DOMAIN up' = 1 .. Len(asked')
    BY <1>1, <1>2, <1>3
  <1>5. \A i \in DOMAIN up' : up'[i] = [st |-> "query", val |-> "miss"]
    BY <1>2
  <1>6. /\ lg' \in {"run", "miss"} /\ cg' \in {"run", "miss"}
        /\ ch' = (IF lg' = "run" THEN <<>> ELSE <<Found("local", "miss")>>)
                   \o (IF cg' = "run" THEN <<>> ELSE <<Found("cache", "miss")>>)
    BY ZenonT(30) DEF StartRace
  <1>7. Found("local", "miss") \in Msg /\ Found("cache", "miss") \in Msg
    BY FoundMsg
  <1>8. ch' \in Seq(Msg) /\ Len(ch') <= 2
    BY <1>6, <1>7
  <1> QED
    BY <1>1, <1>4, <1>5, <1>6, <1>8

----------------------------------------------------------------------------
(* Type correctness.                                                       *)

LEMMA InitTypes == Init => Types
  <1> SUFFICES ASSUME Init PROVE Types
    OBVIOUS
  <1>1. cache \in Entry
    <2>1. cache = NoEntry \/ cache = Fresh("good")
      BY Zenon DEF Init
    <2> QED
      BY <2>1 DEF Entry, NoEntry, Fresh, Sources, Answers
  <1>2. StoreTypes
    <2>1. /\ cfg \in Configs /\ settings \in Settings /\ local \in BOOLEAN
          /\ name \in {"plain", "localhost", "blocked"}
          /\ unhealthy \subseteq Endpoint /\ qtype \in Qtypes
      BY Zenon DEF Init
    <2>2. queries = 0 /\ edits = 0 /\ refreshes = 0
      BY Zenon DEF Init
    <2> QED
      BY <1>1, <2>1, <2>2, ResolverAssumption DEF StoreTypes
  <1>3. RaceTypes
    <2>1. /\ pc = "idle" /\ asked = <<>> /\ ch = <<>> /\ ctx = "done"
          /\ lg = "miss" /\ cg = "miss" /\ up = <<>> /\ seen = Unknown
      BY Zenon DEF Init
    <2> QED
      BY <2>1, UnknownType DEF RaceTypes, Cap, Unknown
  <1>4. ResultTypes
    <2>1. outcome = "" /\ served = "nothing"
      BY Zenon DEF Init
    <2> QED
      BY ZenonT(30), <2>1 DEF ResultTypes
  <1> QED
    BY <1>2, <1>3, <1>4 DEF Types

\* The messages the lookups and the upstreams append.
LEMMA AppendMsg ==
  ASSUME RaceTypes, CanSend, NEW m \in Msg, ch' = Append(ch, m), asked' = asked
  PROVE  /\ ch' \in Seq(Msg) /\ Len(ch') = Len(ch) + 1 /\ Len(ch') <= Cap'
         /\ \A j \in DOMAIN ch : j \in DOMAIN ch' /\ ch'[j] = ch[j]
         /\ Len(ch') \in DOMAIN ch' /\ ch'[Len(ch')] = m
         /\ \A j \in DOMAIN ch' : j \in DOMAIN ch \/ j = Len(ch')
  BY DEF RaceTypes, CanSend, Cap

LEMMA StepStoreTypes ==
  ASSUME Types, Next
  PROVE  StoreTypes'
  <1> USE DEF Types, StoreTypes
  <1>1. CASE AnswerLocal
    BY <1>1, CacheLocalType, ResolverAssumption DEF AnswerLocal, Asks, config
  <1>2. CASE AnswerCached
    BY <1>2, ResolverAssumption DEF AnswerCached, Asks, config, data
  <1>3. CASE AnswerBuiltin
    BY <1>3, ResolverAssumption DEF AnswerBuiltin, Asks, config, data
  <1>4. CASE StartRace
    <2>1. Asks /\ UNCHANGED <<config, data, refreshes, edits>>
      BY <1>4, Zenon DEF StartRace
    <2> QED
      BY <2>1, ResolverAssumption DEF Asks, config, data
  <1>5. CASE LookupLocalRRs \/ LookupCacheRR \/ TimeOut
    BY <1>5 DEF LookupLocalRRs, LookupCacheRR, TimeOut, config, data, bounds
  <1>6. ASSUME NEW i \in DOMAIN up, UpstreamStep(i)
        PROVE  StoreTypes'
    BY <1>6 DEF UpstreamStep, UpstreamReturns, UpstreamSends, UpstreamDrops, config, data, bounds
  <1>7. ASSUME NEW m, Take(m), cache' \in Entry, unhealthy' \subseteq Endpoint
        PROVE  StoreTypes'
    BY <1>7 DEF Take, config, bounds
  <1>8. ASSUME NEW m \in Elems(ch),
               TakeAndWait(m) \/ TakeLocal(m) \/ TakeCached(m) \/ TakeNone(m)
        PROVE  StoreTypes'
    <2>1. Take(m) /\ unhealthy' = unhealthy /\ (cache' = cache \/ CacheLocal)
      BY ZenonT(30), <1>8 DEF TakeAndWait, TakeLocal, TakeCached, TakeNone
    <2> QED
      BY <2>1, <1>7, CacheLocalType
  <1>9. ASSUME NEW m \in Elems(ch), TakeUpstream(m)
        PROVE  StoreTypes'
    <2>1. Take(m) /\ Decide(m) = "upstream" /\ unhealthy' \subseteq Endpoint
      BY <1>9 DEF TakeUpstream
    <2>2. seen'.firstUp.val \in Sources
      BY <2>1, TakeType, DecideFacts DEF Sources
    <2>3. cache' \in Entry
      BY <1>9, <2>2, FreshEntry DEF TakeUpstream
    <2> QED
      BY <2>1, <2>3, <1>7
  <1>10. CASE BackgroundRefresh
    <2>1. cache' \in Entry
      BY <1>10, FreshEntry DEF BackgroundRefresh, Sources, Answers
    <2> QED
      BY <1>10, <2>1 DEF BackgroundRefresh, config, bounds
  <1>11. CASE CacheAges
    <2>1. cache' \in Entry
      BY <1>11 DEF CacheAges, Entry, NoEntry
    <2> QED
      BY <1>11, <2>1 DEF CacheAges, config, bounds
  <1>12. CASE EditRecords
    BY <1>12, ResolverAssumption DEF EditRecords, config
  <1> QED
    BY <1>1, <1>2, <1>3, <1>4, <1>5, <1>6, <1>8, <1>9, <1>10, <1>11, <1>12
       DEF Next, HandleQuestion, Turn

LEMMA StepRaceTypes ==
  ASSUME Types, Next
  PROVE  RaceTypes'
  <1> USE DEF Types
  <1>1. ASSUME UNCHANGED <<pc, asked, ch, ctx, cg, up, seen>>, lg' \in {"run", "local", "miss"}
        PROVE  RaceTypes'
    BY <1>1 DEF RaceTypes, Cap
  <1>2. CASE AnswerLocal \/ AnswerCached \/ AnswerBuiltin
    <2>1. UNCHANGED <<pc, asked, ch, ctx, cg, up, seen>> /\ lg' \in {"run", "local", "miss"}
      BY <1>2 DEF AnswerLocal, AnswerCached, AnswerBuiltin, race, RaceTypes
    <2> QED
      BY <1>1, <2>1
  <1>3. CASE StartRace
    <2>1. pc' = "race" /\ ctx' = "live" /\ seen' = Unknown
      BY <1>3, Zenon DEF StartRace
    <2>2. Unknown.firstUp = NoMsg
      BY DEF Unknown
    <2> QED
      BY <1>3, <2>1, <2>2, StartRaceType, UnknownType DEF RaceTypes, Cap
  <1>4. CASE LookupLocalRRs
    <2>1. lg' \in {"local", "miss"} /\ Found("local", lg') \in Msg
      BY <1>4, FoundMsg DEF LookupLocalRRs, Sources
    <2> QED
      BY <1>4, <2>1, AppendMsg DEF LookupLocalRRs, RaceTypes
  <1>5. CASE LookupCacheRR
    <2>1. cg' \in Sources \cup {"miss"} /\ Found("cache", cg') \in Msg
      BY <1>5, FoundMsg, EntrySource DEF LookupCacheRR, StoreTypes
    <2> QED
      BY <1>5, <2>1, AppendMsg DEF LookupCacheRR, RaceTypes
  <1>6. ASSUME NEW i \in DOMAIN up, UpstreamReturns(i)
        PROVE  RaceTypes'
    BY <1>6 DEF UpstreamReturns, RaceTypes, Cap, UpRec, UpState, Answers
  <1>7. ASSUME NEW i \in DOMAIN up, UpstreamSends(i)
        PROVE  RaceTypes'
    <2>1. up \in Seq(UpRec) /\ "sent" \in UpState /\ up' = [up EXCEPT ![i].st = "sent"]
      BY <1>7 DEF UpstreamSends, RaceTypes, UpState
    <2>2. up' \in Seq(UpRec) /\ Len(up') = Len(up) /\ up[i].val \in Answers \cup {"miss"} /\ i \in Nat
      BY ZenonT(30), <2>1, UpMoves
    <2>3. [kind |-> "up", val |-> up[i].val, from |-> i] \in Msg
      BY <2>2 DEF Msg, Sources
    <2> QED
      BY <1>7, <2>2, <2>3, AppendMsg DEF UpstreamSends, RaceTypes
  <1>8. ASSUME NEW i \in DOMAIN up, UpstreamDrops(i)
        PROVE  RaceTypes'
    <2>1. up \in Seq(UpRec) /\ "dropped" \in UpState /\ up' = [up EXCEPT ![i].st = "dropped"]
      BY <1>8 DEF UpstreamDrops, RaceTypes, UpState
    <2>2. up' \in Seq(UpRec) /\ Len(up') = Len(up)
      BY ZenonT(30), <2>1, UpMoves
    <2> QED
      BY <1>8, <2>2 DEF UpstreamDrops, RaceTypes, Cap
  <1>9. CASE TimeOut
    BY <1>9 DEF TimeOut, RaceTypes, Cap
  <1>10. CASE Turn
    <2>1. PICK m \in Elems(ch) : Take(m) /\ (Returns \/ UNCHANGED <<pc, ctx>>)
      BY ZenonT(30), <1>10 DEF Turn, TakeAndWait, TakeLocal, TakeCached, TakeUpstream, TakeNone
    <2> QED
      BY <2>1, TakeType DEF RaceTypes, Returns, Cap
  <1>11. CASE BackgroundRefresh \/ CacheAges \/ EditRecords
    BY <1>11, <1>1 DEF BackgroundRefresh, CacheAges, EditRecords, race, RaceTypes
  <1> QED
    BY <1>2, <1>3, <1>4, <1>5, <1>6, <1>7, <1>8, <1>9, <1>10, <1>11
       DEF Next, HandleQuestion, UpstreamStep

LEMMA StepResultTypes ==
  ASSUME Types, Next
  PROVE  ResultTypes'
  <1> USE DEF Types
  <1>1. CASE AnswerLocal
    BY ZenonT(30), <1>1 DEF AnswerLocal, Reply, ResultTypes, Sources
  <1>2. CASE AnswerCached
    <2>1. cache.src \in Sources
      BY <1>2, EntrySource DEF AnswerCached, Usable, StoreTypes
    <2> QED
      BY ZenonT(30), <1>2, <2>1 DEF AnswerCached, Reply, ResultTypes
  <1>3. CASE AnswerBuiltin
    BY ZenonT(30), <1>3 DEF AnswerBuiltin, Reply, ResultTypes
  <1>4. CASE StartRace
    <2>1. Reply("", "nothing")
      BY <1>4, Zenon DEF StartRace
    <2> QED
      BY ZenonT(30), <2>1 DEF Reply, ResultTypes
  <1>5. CASE LookupLocalRRs \/ LookupCacheRR \/ TimeOut \/ BackgroundRefresh \/ CacheAges
               \/ EditRecords
    BY ZenonT(30), <1>5 DEF LookupLocalRRs, LookupCacheRR, TimeOut, BackgroundRefresh, CacheAges,
                EditRecords, result, ResultTypes
  <1>6. ASSUME NEW i \in DOMAIN up, UpstreamStep(i)
        PROVE  ResultTypes'
    BY ZenonT(30), <1>6 DEF UpstreamStep, UpstreamReturns, UpstreamSends, UpstreamDrops, result, ResultTypes
  <1>7. ASSUME NEW m \in Elems(ch), TakeAndWait(m) \/ TakeLocal(m) \/ TakeNone(m)
        PROVE  ResultTypes'
    BY ZenonT(30), <1>7 DEF TakeAndWait, TakeLocal, TakeNone, Reply, result, ResultTypes, Sources
  <1>8. ASSUME NEW m \in Elems(ch), TakeCached(m)
        PROVE  ResultTypes'
    <2>1. Take(m) /\ Decide(m) = "cache" /\ Reply("cache", seen'.cacheHit)
      BY <1>8 DEF TakeCached
    <2>2. seen'.cacheHit \in Sources
      BY <2>1, TakeType, DecideFacts DEF Known
    <2> QED
      BY ZenonT(30), <2>1, <2>2 DEF Reply, ResultTypes
  <1>9. ASSUME NEW m \in Elems(ch), TakeUpstream(m)
        PROVE  ResultTypes'
    <2>1. Take(m) /\ Decide(m) = "upstream"
      BY <1>9 DEF TakeUpstream
    <2>2. seen'.firstUp.val \in Sources
      BY <2>1, TakeType, DecideFacts DEF Sources
    <2>3. outcome' = "upstream" /\ served' \in {"servfail", seen'.firstUp.val}
      BY <1>9 DEF TakeUpstream, Reply
    <2> QED
      BY ZenonT(30), <2>2, <2>3 DEF ResultTypes
  <1> QED
    BY <1>1, <1>2, <1>3, <1>4, <1>5, <1>6, <1>7, <1>8, <1>9 DEF Next, HandleQuestion, Turn

LEMMA StepTypes ==
  ASSUME Types, [Next]_vars
  PROVE  Types'
  <1>1. CASE Next
    BY <1>1, StepStoreTypes, StepRaceTypes, StepResultTypes DEF Types
  <1>2. CASE UNCHANGED vars
    <2>1. StoreTypes'
      BY <1>2 DEF vars, Types, StoreTypes
    <2>2. RaceTypes'
      BY <1>2 DEF vars, Types, RaceTypes, Cap
    <2>3. ResultTypes'
      BY ZenonT(30), <1>2 DEF vars, Types, ResultTypes
    <2> QED
      BY <2>1, <2>2, <2>3 DEF Types
  <1> QED
    BY <1>1, <1>2

----------------------------------------------------------------------------
(* Room in the channel: the messages in it and the goroutines that may     *)
(* still send are never more than its capacity.                            *)

Waiting == {i \in DOMAIN up : up[i].st \in {"query", "ready"}}
Busy(g) == IF g = "run" THEN 1 ELSE 0
Room    == Len(ch) + Busy(lg) + Busy(cg) + Cardinality(Waiting) <= Cap

LEMMA WaitingFinite ==
  ASSUME RaceTypes
  PROVE  IsFiniteSet(Waiting) /\ Cardinality(Waiting) \in Nat
  <1>1. DOMAIN up = 1 .. Len(up) /\ Len(up) \in Nat
    BY DEF RaceTypes
  <1>2. IsFiniteSet(1 .. Len(up))
    BY <1>1, FS_Interval
  <1>3. Waiting \subseteq 1 .. Len(up)
    BY <1>1 DEF Waiting
  <1> QED
    BY ZenonT(30), <1>2, <1>3, FS_Subset, FS_CardinalityType

\* A goroutine leaves the ones that may send.
LEMMA StopsWaiting ==
  ASSUME RaceTypes, NEW i \in DOMAIN up, up[i].st = "ready", NEW s \in {"sent", "dropped"},
         up' = [up EXCEPT ![i].st = s]
  PROVE  Cardinality(Waiting') = Cardinality(Waiting) - 1
  <1>1. s \in UpState /\ up \in Seq(UpRec)
    BY DEF UpState, RaceTypes
  <1>2. Waiting' = Waiting \ {i} /\ i \in Waiting
    BY <1>1, UpMoves DEF Waiting
  <1> QED
    BY <1>2, WaitingFinite, FS_RemoveElement

LEMMA StepRoom ==
  ASSUME Types, Room, [Next]_vars
  PROVE  Room'
  <1>0. /\ Len(ch) \in Nat /\ Cardinality(Waiting) \in Nat /\ Busy(lg) \in 0 .. 1
        /\ Busy(cg) \in 0 .. 1 /\ Cap = 2 + Len(asked) /\ Len(asked) \in Nat
    BY WaitingFinite DEF Types, RaceTypes, Busy, Cap
  <1>r. Room' <=> Len(ch') + Busy(lg') + Busy(cg') + Cardinality(Waiting') <= 2 + Len(asked')
    BY DEF Room, Cap, Busy
  <1>s. Len(ch) + Busy(lg) + Busy(cg) + Cardinality(Waiting) <= 2 + Len(asked)
    BY DEF Room, Cap
  <1>1. ASSUME UNCHANGED <<asked, ch, cg, up>>, lg' # "run"
        PROVE  Room'
    <2>1. Waiting' = Waiting /\ Busy(cg') = Busy(cg) /\ Busy(lg') = 0
      BY <1>1 DEF Waiting, Busy
    <2> QED
      BY <1>0, <1>1, <1>r, <1>s, <2>1
  <1>2. ASSUME UNCHANGED <<asked, ch, cg, lg, up>>
        PROVE  Room'
    BY ZenonT(30), <1>2 DEF Room, Busy, Cap, Waiting
  <1>3. CASE AnswerLocal \/ AnswerCached
    BY <1>1, <1>3 DEF AnswerLocal, AnswerCached
  <1>4. CASE AnswerBuiltin \/ TimeOut \/ BackgroundRefresh \/ CacheAges \/ EditRecords
               \/ UNCHANGED vars
    BY <1>2, <1>4 DEF AnswerBuiltin, TimeOut, BackgroundRefresh, CacheAges, EditRecords,
                      race, vars
  <1>5. CASE StartRace
    <2>1. DOMAIN up' = 1 .. Len(asked') /\ Len(asked') \in Nat
      BY <1>5, StartRaceType
    <2>2. Waiting' = 1 .. Len(asked')
      BY <1>5, <2>1, StartRaceType DEF Waiting
    <2>3. Cardinality(1 .. Len(asked')) = Len(asked')
      BY <2>1, FS_Interval
    <2>4. Len(ch') = 2 - Busy(lg') - Busy(cg')
      <3>1. /\ lg' \in {"run", "miss"} /\ cg' \in {"run", "miss"}
            /\ ch' = (IF lg' = "run" THEN <<>> ELSE <<Found("local", "miss")>>)
                       \o (IF cg' = "run" THEN <<>> ELSE <<Found("cache", "miss")>>)
        BY <1>5, StartRaceType
      <3>2. CASE lg' = "run" /\ cg' = "run"
        BY <3>1, <3>2 DEF Busy
      <3>3. CASE lg' = "run" /\ cg' = "miss"
        BY <3>1, <3>3 DEF Busy
      <3>4. CASE lg' = "miss" /\ cg' = "run"
        BY <3>1, <3>4 DEF Busy
      <3>5. CASE lg' = "miss" /\ cg' = "miss"
        BY <3>1, <3>5 DEF Busy
      <3> QED
        BY <3>1, <3>2, <3>3, <3>4, <3>5
    <2>5. Busy(lg') \in 0 .. 1 /\ Busy(cg') \in 0 .. 1
      BY DEF Busy
    <2>6. Cardinality(Waiting') = Len(asked')
      BY <2>2, <2>3
    <2> QED
      BY <1>r, <2>1, <2>4, <2>5, <2>6
  <1>6. CASE LookupLocalRRs
    <2>1. lg = "run" /\ lg' # "run" /\ UNCHANGED <<asked, cg, up>>
      BY <1>6 DEF LookupLocalRRs
    <2>2. Len(ch') = Len(ch) + 1
      BY <1>6 DEF LookupLocalRRs, Types, RaceTypes
    <2> QED
      BY <1>0, <2>1, <2>2 DEF Room, Busy, Cap, Waiting
  <1>7. CASE LookupCacheRR
    <2>1. cg = "run" /\ UNCHANGED <<asked, lg, up>>
      BY <1>7 DEF LookupCacheRR
    <2>2. cg' # "run"
      BY <1>7, EntrySource DEF LookupCacheRR, Types, StoreTypes, Sources, Answers
    <2>3. Len(ch') = Len(ch) + 1
      BY <1>7 DEF LookupCacheRR, Types, RaceTypes
    <2> QED
      BY <1>0, <2>1, <2>2, <2>3 DEF Room, Busy, Cap, Waiting
  <1>8. ASSUME NEW i \in DOMAIN up, UpstreamReturns(i)
        PROVE  Room'
    <2>1. Waiting' = Waiting
      BY <1>8 DEF UpstreamReturns, Waiting, Types, RaceTypes
    <2> QED
      BY ZenonT(30), <1>8, <2>1 DEF UpstreamReturns, Room, Busy, Cap
  <1>9. ASSUME NEW i \in DOMAIN up, UpstreamSends(i)
        PROVE  Room'
    <2>1. Cardinality(Waiting') = Cardinality(Waiting) - 1
      BY ZenonT(30), <1>9, StopsWaiting DEF UpstreamSends, Types
    <2>2. Len(ch') = Len(ch) + 1
      BY <1>9 DEF UpstreamSends, Types, RaceTypes
    <2> QED
      BY <1>0, <1>r, <1>s, <1>9, <2>1, <2>2 DEF UpstreamSends
  <1>10. ASSUME NEW i \in DOMAIN up, UpstreamDrops(i)
         PROVE  Room'
    <2>1. Cardinality(Waiting') = Cardinality(Waiting) - 1
      BY ZenonT(30), <1>10, StopsWaiting DEF UpstreamDrops, Types
    <2> QED
      BY <1>0, <1>r, <1>s, <1>10, <2>1 DEF UpstreamDrops
  <1>11. CASE Turn
    <2>1. PICK m : Take(m)
      BY ZenonT(30), <1>11 DEF Turn, TakeAndWait, TakeLocal, TakeCached, TakeUpstream, TakeNone
    <2>2. Len(ch') = Len(ch) - 1 /\ UNCHANGED <<asked, lg, cg, up>>
      BY <2>1, TakeType DEF Types
    <2>3. Waiting' = Waiting
      BY <2>2 DEF Waiting
    <2> QED
      BY <1>0, <1>r, <1>s, <2>2, <2>3
  <1> QED
    BY <1>3, <1>4, <1>5, <1>6, <1>7, <1>8, <1>9, <1>10, <1>11
       DEF Next, HandleQuestion, UpstreamStep

----------------------------------------------------------------------------
(* The lookups: during a race, a message in the channel and what the main  *)
(* goroutine knows are what the lookup found.                              *)

LocalMsgs == \A j \in DOMAIN ch : ch[j].kind = "local" => lg # "run" /\ ch[j].val = lg
CacheMsgs == \A j \in DOMAIN ch : ch[j].kind = "cache" => cg # "run" /\ ch[j].val = cg
Lookups ==
    pc = "race" =>
        /\ outcome = ""
        /\ LocalMsgs /\ CacheMsgs
        /\ seen.localDone => lg = "miss"
        /\ seen.cacheDone => cg # "run" /\ seen.cacheHit = cg

\* A message of another kind changes nothing.
LEMMA OtherMsg ==
  ASSUME RaceTypes, CanSend, NEW m \in Msg, ch' = Append(ch, m), asked' = asked
  PROVE  /\ m.kind # "local" /\ lg' = lg /\ LocalMsgs => LocalMsgs'
         /\ m.kind # "cache" /\ cg' = cg /\ CacheMsgs => CacheMsgs'
  BY AppendMsg DEF LocalMsgs, CacheMsgs

LEMMA TakeLookups ==
  ASSUME RaceTypes, Lookups, NEW m, Take(m)
  PROVE  /\ LocalMsgs' /\ CacheMsgs'
         /\ LocalHit(m) \/ (seen'.localDone => lg' = "miss")
         /\ seen'.cacheDone => cg' # "run" /\ seen'.cacheHit = cg'
  <1>1. pc = "race" /\ LocalMsgs /\ CacheMsgs
    BY ZenonT(30) DEF Take, Lookups
  <1>2. LocalMsgs' /\ CacheMsgs'
    BY <1>1, TakeType DEF LocalMsgs, CacheMsgs
  <1>3. m.kind = "local" => m.val = lg /\ lg # "run"
    BY <1>1, TakeType DEF LocalMsgs
  <1>4. m.kind = "cache" => m.val = cg /\ cg # "run"
    BY <1>1, TakeType DEF CacheMsgs
  <1>5. LocalHit(m) \/ (seen'.localDone => lg' = "miss")
    <2>1. seen'.localDone <=> seen.localDone \/ m.kind = "local"
      BY ZenonT(30) DEF Take, Knows
    <2>2. lg' = lg /\ lg \in {"run", "local", "miss"}
      BY TakeType DEF RaceTypes
    <2> QED
      BY ZenonT(30), <1>1, <1>3, <2>1, <2>2 DEF LocalHit, Lookups
  <1>6. seen'.cacheDone => cg' # "run" /\ seen'.cacheHit = cg'
    <2>1. seen'.cacheDone <=> seen.cacheDone \/ m.kind = "cache"
      BY ZenonT(30) DEF Take, Knows
    <2>2. seen'.cacheHit = IF m.kind = "cache" THEN m.val ELSE seen.cacheHit
      BY DEF Take, Knows
    <2>3. cg' = cg
      BY TakeType
    <2> QED
      BY ZenonT(30), <1>1, <1>4, <2>1, <2>2, <2>3 DEF Lookups
  <1> QED
    BY <1>2, <1>5, <1>6

LEMMA StepLookups ==
  ASSUME Types, Lookups, [Next]_vars
  PROVE  Lookups'
  <1>t. RaceTypes
    BY DEF Types
  <1>1. ASSUME UNCHANGED <<pc, ch, lg, cg, seen, outcome>>
        PROVE  Lookups'
    BY ZenonT(30), <1>1 DEF Lookups, LocalMsgs, CacheMsgs
  <1>2. CASE AnswerLocal \/ AnswerCached \/ AnswerBuiltin
    <2>1. pc' = "idle"
      BY <1>2 DEF AnswerLocal, AnswerCached, AnswerBuiltin, Asks
    <2> QED
      BY ZenonT(30), <2>1 DEF Lookups
  <1>3. CASE StartRace
    <2>1. seen' = Unknown /\ outcome' = ""
      BY <1>3, Zenon DEF StartRace, Reply
    <2>2. ~seen'.localDone /\ ~seen'.cacheDone
      BY ZenonT(30), <2>1 DEF Unknown
    <2>3. /\ lg' \in {"run", "miss"} /\ cg' \in {"run", "miss"}
          /\ ch' = (IF lg' = "run" THEN <<>> ELSE <<Found("local", "miss")>>)
                     \o (IF cg' = "run" THEN <<>> ELSE <<Found("cache", "miss")>>)
      BY <1>3, StartRaceType
    <2>4. LocalMsgs' /\ CacheMsgs'
      <3>1. CASE lg' = "run" /\ cg' = "run"
        BY <2>3, <3>1 DEF LocalMsgs, CacheMsgs
      <3>2. CASE lg' = "run" /\ cg' = "miss"
        BY <2>3, <3>2 DEF LocalMsgs, CacheMsgs, Found
      <3>3. CASE lg' = "miss" /\ cg' = "run"
        BY <2>3, <3>3 DEF LocalMsgs, CacheMsgs, Found
      <3>4. CASE lg' = "miss" /\ cg' = "miss"
        BY <2>3, <3>4 DEF LocalMsgs, CacheMsgs, Found
      <3> QED
        BY <2>3, <3>1, <3>2, <3>3, <3>4
    <2> QED
      BY ZenonT(30), <2>1, <2>2, <2>4 DEF Lookups
  <1>4. CASE LookupLocalRRs
    <2>1. /\ lg = "run" /\ lg' \in {"local", "miss"} /\ CanSend /\ asked' = asked
          /\ ch' = Append(ch, Found("local", lg')) /\ UNCHANGED <<pc, cg, seen, outcome>>
      BY <1>4 DEF LookupLocalRRs, result
    <2>2. Found("local", lg') \in Msg /\ Found("local", lg').kind = "local"
            /\ Found("local", lg').val = lg'
      BY <2>1, FoundMsg DEF Found, Sources
    <2>3. pc = "race" => LocalMsgs'
      BY ZenonT(30), <1>t, <2>1, <2>2, AppendMsg DEF Lookups, LocalMsgs
    <2>4. pc = "race" => CacheMsgs'
      BY ZenonT(30), <1>t, <2>1, <2>2, OtherMsg DEF Lookups
    <2>5. pc = "race" => ~seen.localDone
      BY ZenonT(30), <2>1 DEF Lookups
    <2> QED
      BY ZenonT(30), <2>1, <2>3, <2>4, <2>5 DEF Lookups
  <1>5. CASE LookupCacheRR
    <2>1. /\ cg = "run" /\ CanSend /\ asked' = asked
          /\ ch' = Append(ch, Found("cache", cg')) /\ UNCHANGED <<pc, lg, seen, outcome>>
      BY <1>5 DEF LookupCacheRR, result
    <2>2. cg' \in Sources \cup {"miss"}
      BY <1>5, EntrySource DEF LookupCacheRR, Types, StoreTypes
    <2>3. Found("cache", cg') \in Msg /\ Found("cache", cg').kind = "cache"
            /\ Found("cache", cg').val = cg' /\ cg' # "run"
      BY <2>2, FoundMsg DEF Found, Sources, Answers
    <2>4. pc = "race" => CacheMsgs'
      BY ZenonT(30), <1>t, <2>1, <2>3, AppendMsg DEF Lookups, CacheMsgs
    <2>5. pc = "race" => LocalMsgs'
      BY ZenonT(30), <1>t, <2>1, <2>3, OtherMsg DEF Lookups
    <2>6. pc = "race" => ~seen.cacheDone
      BY ZenonT(30), <2>1 DEF Lookups
    <2> QED
      BY ZenonT(30), <2>1, <2>4, <2>5, <2>6 DEF Lookups
  <1>6. ASSUME NEW i \in DOMAIN up, UpstreamReturns(i) \/ UpstreamDrops(i)
        PROVE  Lookups'
    BY <1>1, <1>6 DEF UpstreamReturns, UpstreamDrops, result
  <1>7. ASSUME NEW i \in DOMAIN up, UpstreamSends(i)
        PROVE  Lookups'
    <2>1. /\ CanSend /\ asked' = asked /\ UNCHANGED <<pc, lg, cg, seen, outcome>>
          /\ ch' = Append(ch, [kind |-> "up", val |-> up[i].val, from |-> i])
      BY <1>7 DEF UpstreamSends, result
    <2>2. up[i] \in UpRec /\ i \in Nat
      BY <1>t DEF RaceTypes
    <2>3. [kind |-> "up", val |-> up[i].val, from |-> i] \in Msg
      BY <2>2 DEF UpRec, Msg, Sources
    <2>4. pc = "race" => LocalMsgs' /\ CacheMsgs'
      BY ZenonT(30), <1>t, <2>1, <2>3, OtherMsg DEF Lookups
    <2> QED
      BY ZenonT(30), <2>1, <2>4 DEF Lookups
  <1>8. ASSUME NEW m, TakeAndWait(m)
        PROVE  Lookups'
    <2>1. Take(m) /\ Decide(m) = "" /\ outcome' = outcome /\ pc = "race"
      BY ZenonT(30), <1>8 DEF TakeAndWait, Take, result
    <2>2. ~LocalHit(m)
      BY ZenonT(30), <2>1, DecideFacts
    <2> QED
      BY ZenonT(30), <1>t, <2>1, <2>2, TakeLookups DEF Lookups
  <1>9. ASSUME NEW m, TakeLocal(m) \/ TakeCached(m) \/ TakeUpstream(m) \/ TakeNone(m)
        PROVE  Lookups'
    BY ZenonT(30), <1>9 DEF TakeLocal, TakeCached, TakeUpstream, TakeNone, Returns, Lookups
  <1>10. CASE TimeOut \/ BackgroundRefresh \/ CacheAges \/ EditRecords \/ UNCHANGED vars
    BY <1>1, <1>10 DEF TimeOut, BackgroundRefresh, CacheAges, EditRecords, race, result, vars
  <1> QED
    BY <1>2, <1>3, <1>4, <1>5, <1>6, <1>7, <1>8, <1>9, <1>10
       DEF Next, HandleQuestion, UpstreamStep, Turn

LEMMA StepPriority ==
  ASSUME Types, Lookups, Priority, [Next]_vars
  PROVE  Priority'
  <1>1. ASSUME UNCHANGED <<outcome, lg, cg>>
        PROVE  Priority'
    BY <1>1 DEF Priority
  <1>2. CASE AnswerLocal \/ AnswerCached \/ AnswerBuiltin
    BY <1>2 DEF AnswerLocal, AnswerCached, AnswerBuiltin, Reply, Priority
  <1>3. CASE StartRace
    <2>1. outcome' = ""
      BY <1>3, Zenon DEF StartRace, Reply
    <2> QED
      BY ZenonT(30), <2>1 DEF Priority
  <1>4. CASE LookupLocalRRs \/ LookupCacheRR
    BY <1>4 DEF LookupLocalRRs, LookupCacheRR, result, Priority
  <1>5. ASSUME NEW i \in DOMAIN up, UpstreamStep(i)
        PROVE  Priority'
    BY <1>1, <1>5 DEF UpstreamStep, UpstreamReturns, UpstreamSends, UpstreamDrops, result
  <1>6. ASSUME NEW m, Take(m), Decide(m) \in {"cache", "upstream"}
        PROVE  lg' = "miss" /\ (Decide(m) = "upstream" => cg' = "miss")
    <2>1. ~LocalHit(m) /\ seen'.localDone /\ seen'.cacheDone
      BY <1>6, DecideFacts, TakeType DEF Types
    <2>2. Decide(m) = "upstream" => seen'.cacheHit = "miss"
      BY <1>6, DecideFacts, TakeType DEF Types
    <2> QED
      BY <1>6, <2>1, <2>2, TakeLookups DEF Types
  <1>7. ASSUME NEW m, TakeCached(m) \/ TakeUpstream(m)
        PROVE  Priority'
    <2>1. /\ Take(m) /\ Decide(m) \in {"cache", "upstream"}
          /\ outcome' = Decide(m)
      BY <1>7 DEF TakeCached, TakeUpstream, Reply
    <2> QED
      BY <1>6, <2>1 DEF Priority
  <1>8. ASSUME NEW m, TakeAndWait(m) \/ TakeLocal(m) \/ TakeNone(m)
        PROVE  Priority'
    <2>1. Take(m) /\ (outcome' \in {"local", "none"} \/ outcome' = outcome)
      BY ZenonT(30), <1>8 DEF TakeAndWait, TakeLocal, TakeNone, Reply, result
    <2>2. UNCHANGED <<lg, cg>>
      BY <2>1, TakeType DEF Types
    <2> QED
      BY <2>1, <2>2 DEF Priority
  <1>9. CASE TimeOut \/ BackgroundRefresh \/ CacheAges \/ EditRecords \/ UNCHANGED vars
    BY <1>1, <1>9 DEF TimeOut, BackgroundRefresh, CacheAges, EditRecords, race, result, vars
  <1> QED
    BY <1>2, <1>3, <1>4, <1>5, <1>7, <1>8, <1>9 DEF Next, HandleQuestion, Turn

----------------------------------------------------------------------------
(* The upstream answers: during a race, every message of an upstream is    *)
(* either in the channel, once, or has been taken and counted.             *)

Sent      == {i \in DOMAIN up : up[i].st = "sent"}
IsUp(m)   == m.kind = "up"
InChannel == {ch[j].from : j \in {j \in DOMAIN ch : IsUp(ch[j])}}
Taken     == Sent \ InChannel

UpMsgs ==
    /\ \A j \in DOMAIN ch : IsUp(ch[j]) => ch[j].from \in Sent /\ ch[j].val = up[ch[j].from].val
    /\ \A j, k \in DOMAIN ch : IsUp(ch[j]) /\ IsUp(ch[k]) /\ ch[j].from = ch[k].from => j = k

Counted ==
    /\ seen.upstreamSeen = Cardinality(Taken)
    /\ \A i \in Taken : up[i].val # "miss" => seen.firstUp # NoMsg

Upstream == pc = "race" => outcome = "" /\ UpMsgs /\ Counted
SeenBound == seen.upstreamSeen <= Len(asked)

\* A set of positions of a sequence of length n.
LEMMA Positions ==
  ASSUME NEW n \in Nat, NEW T \in SUBSET (1 .. n)
  PROVE  /\ IsFiniteSet(T) /\ Cardinality(T) \in Nat /\ Cardinality(T) <= n
         /\ Cardinality(T) = n => T = 1 .. n
  <1>1. IsFiniteSet(1 .. n) /\ Cardinality(1 .. n) = n
    BY FS_Interval
  <1> QED
    BY ZenonT(30), <1>1, FS_Subset, FS_CardinalityType

LEMMA TakenFinite ==
  ASSUME RaceTypes
  PROVE  IsFiniteSet(Taken) /\ Cardinality(Taken) \in Nat
  <1>1. DOMAIN up = 1 .. Len(asked) /\ Len(asked) \in Nat
    BY DEF RaceTypes
  <1>2. Taken \in SUBSET (1 .. Len(asked))
    BY <1>1 DEF Taken, Sent
  <1> QED
    BY <1>1, <1>2, Positions

\* A message of a lookup does not count.
LEMMA LookupMsg ==
  ASSUME RaceTypes, CanSend, NEW m \in Msg, ~IsUp(m), ch' = Append(ch, m),
         UNCHANGED <<asked, up, seen>>
  PROVE  (UpMsgs => UpMsgs') /\ (Counted => Counted')
  <1>1. /\ \A j \in DOMAIN ch : j \in DOMAIN ch' /\ ch'[j] = ch[j]
        /\ \A j \in DOMAIN ch' : j \in DOMAIN ch \/ (j = Len(ch') /\ ch'[j] = m)
    BY AppendMsg
  <1>2. InChannel' = InChannel /\ Sent' = Sent
    BY <1>1 DEF InChannel, Sent
  <1>3. Taken' = Taken
    BY <1>2 DEF Taken
  <1>4. UpMsgs => UpMsgs'
    BY <1>1, <1>2 DEF UpMsgs
  <1> QED
    BY <1>3, <1>4 DEF Counted

\* A goroutine sends: its message was not in the channel, and now is.
LEMMA SendMsg ==
  ASSUME RaceTypes, NEW i \in DOMAIN up, UpstreamSends(i), UpMsgs, Counted
  PROVE  UpMsgs' /\ Counted'
  <1> DEFINE m == [kind |-> "up", val |-> up[i].val, from |-> i]
  <1>1. /\ CanSend /\ UNCHANGED <<asked, seen>> /\ ch' = Append(ch, m)
        /\ up' = [up EXCEPT ![i].st = "sent"] /\ up[i].st = "ready"
    BY DEF UpstreamSends
  <1>2. up \in Seq(UpRec) /\ "sent" \in UpState
    BY DEF RaceTypes, UpState
  <1>3. /\ up[i].val \in Answers \cup {"miss"} /\ i \in Nat /\ DOMAIN up' = DOMAIN up
        /\ up'[i].st = "sent" /\ up'[i].val = up[i].val
        /\ \A k \in DOMAIN up : k # i => up'[k] = up[k]
    BY ZenonT(30), <1>1, <1>2, UpMoves
  <1>4. m \in Msg /\ IsUp(m) /\ m.from = i /\ m.val = up[i].val
    BY <1>3 DEF Msg, Sources, IsUp
  <1>5. /\ \A j \in DOMAIN ch : j \in DOMAIN ch' /\ ch'[j] = ch[j]
        /\ Len(ch') \in DOMAIN ch' /\ ch'[Len(ch')] = m
        /\ \A j \in DOMAIN ch' : j \in DOMAIN ch \/ j = Len(ch')
    BY <1>1, <1>4, AppendMsg
  <1>6. Sent' = Sent \cup {i} /\ i \notin Sent
    BY <1>1, <1>3 DEF Sent
  <1>7. InChannel' = InChannel \cup {i}
    BY <1>4, <1>5 DEF InChannel
  <1>8. Taken' = Taken /\ i \notin Taken
    BY <1>6, <1>7 DEF Taken
  <1>9. Counted'
    <2>1. Taken \subseteq DOMAIN up
      BY DEF Taken, Sent
    <2> QED
      BY <1>1, <1>3, <1>8, <2>1 DEF Counted
  <1>10. \A j \in DOMAIN ch' : IsUp(ch'[j]) => ch'[j].from \in Sent' /\ ch'[j].val = up'[ch'[j].from].val
    <2>1. \A j \in DOMAIN ch : IsUp(ch[j]) =>
             ch[j].from \in Sent /\ ch[j].from # i /\ ch[j].val = up'[ch[j].from].val
      BY <1>3, <1>6 DEF UpMsgs, Sent
    <2> QED
      BY <1>3, <1>4, <1>5, <1>6, <2>1
  <1>11. \A j, k \in DOMAIN ch' :
             IsUp(ch'[j]) /\ IsUp(ch'[k]) /\ ch'[j].from = ch'[k].from => j = k
    <2>1. \A j \in DOMAIN ch : IsUp(ch[j]) => ch[j].from # i
      BY <1>6 DEF UpMsgs
    <2> QED
      BY ZenonT(30), <1>4, <1>5, <2>1 DEF UpMsgs
  <1> QED
    BY <1>9, <1>10, <1>11 DEF UpMsgs

\* A message is taken: it moves from the channel to the count.
LEMMA TakeMsg ==
  ASSUME RaceTypes, Upstream, NEW m, Take(m)
  PROVE  UpMsgs' /\ Counted'
  <1>1. pc = "race" /\ UpMsgs /\ Counted
    BY ZenonT(30) DEF Take, Upstream
  <1>2. /\ m \in Msg /\ m = ch[1] /\ 1 \in DOMAIN ch /\ UNCHANGED up
        /\ \A j \in DOMAIN ch' : j + 1 \in DOMAIN ch /\ ch'[j] = ch[j + 1]
    BY TakeType
  <1>3. \A j \in DOMAIN ch : j # 1 => \E k \in DOMAIN ch' : j = k + 1
    <2>1. DOMAIN ch = 1 .. Len(ch) /\ DOMAIN ch' = 1 .. Len(ch) - 1 /\ Len(ch) \in Nat
      <3>1. ch \in Seq(Msg)
        BY DEF RaceTypes
      <3>2. ch' \in Seq(Msg) /\ Len(ch') = Len(ch) - 1
        BY TakeType
      <3> QED
        BY <3>1, <3>2
    <2> SUFFICES ASSUME NEW j \in DOMAIN ch, j # 1
                 PROVE  \E k \in DOMAIN ch' : j = k + 1
      OBVIOUS
    <2>2. j - 1 \in DOMAIN ch' /\ j = (j - 1) + 1
      BY <2>1
    <2> QED
      BY <2>2
  <1>4. Sent' = Sent
    BY <1>2 DEF Sent
  <1>5. DOMAIN ch \subseteq Nat /\ DOMAIN ch' \subseteq Nat \ {0}
    BY DEF RaceTypes, Take
  <1>6. UpMsgs'
    BY <1>1, <1>2, <1>4, <1>5 DEF UpMsgs
  <1>7. CASE ~IsUp(m)
    <2>1. InChannel' = InChannel
      BY <1>2, <1>3, <1>7 DEF InChannel
    <2>2. Taken' = Taken
      BY <1>4, <2>1 DEF Taken
    <2>3. seen'.upstreamSeen = seen.upstreamSeen /\ seen'.firstUp = seen.firstUp
      BY <1>7 DEF Take, Knows, IsUp, RaceTypes, Known
    <2> QED
      BY <1>1, <1>2, <1>6, <2>2, <2>3 DEF Counted
  <1>8. CASE IsUp(m)
    <2>1. m.from \in Sent /\ m.val = up[m.from].val /\ m.from \in InChannel
      BY <1>1, <1>2, <1>8 DEF UpMsgs, InChannel
    <2>2. InChannel' = InChannel \ {m.from}
      <3>1. \A j \in DOMAIN ch : j # 1 /\ IsUp(ch[j]) => ch[j].from # m.from
        BY <1>1, <1>2, <1>8 DEF UpMsgs
      <3> QED
        BY <1>2, <1>3, <1>5, <3>1 DEF InChannel
    <2>3. Taken' = Taken \cup {m.from} /\ m.from \notin Taken
      BY <1>4, <2>1, <2>2 DEF Taken
    <2>4. Cardinality(Taken') = Cardinality(Taken) + 1
      BY ZenonT(30), <2>3, TakenFinite, FS_AddElement
    <2>5. seen'.upstreamSeen = seen.upstreamSeen + 1
      BY <1>8 DEF Take, Knows, IsUp
    <2>6. seen.firstUp # NoMsg => seen'.firstUp # NoMsg
      BY DEF Take, Knows
    <2>7. m.val # "miss" => seen'.firstUp # NoMsg
      <3>1. m.val \in Answers \cup {"miss"}
        <4>1. up[m.from] \in UpRec
          BY <2>1 DEF RaceTypes, Sent
        <4> QED
          BY <2>1, <4>1 DEF UpRec
      <3>2. NoMsg.val = "miss"
        BY DEF NoMsg, Found
      <3>3. m.val # "miss" => seen'.firstUp \in {m, seen.firstUp} /\ (seen.firstUp = NoMsg => seen'.firstUp = m)
        BY <1>8, <3>1 DEF Take, Knows, IsUp
      <3> QED
        BY <3>2, <3>3
    <2> QED
      BY <1>1, <1>2, <1>6, <2>1, <2>3, <2>4, <2>5, <2>6, <2>7 DEF Counted
  <1> QED
    BY <1>7, <1>8

LEMMA StepUpstream ==
  ASSUME Types, Upstream, [Next]_vars
  PROVE  Upstream'
  <1>t. RaceTypes
    BY DEF Types
  <1>1. ASSUME UNCHANGED <<pc, ch, up, seen, outcome>>
        PROVE  Upstream'
    BY ZenonT(30), <1>1 DEF Upstream, UpMsgs, Counted, Taken, Sent, InChannel
  <1>2. CASE AnswerLocal \/ AnswerCached \/ AnswerBuiltin
    <2>1. pc' = "idle"
      BY <1>2 DEF AnswerLocal, AnswerCached, AnswerBuiltin, Asks
    <2> QED
      BY ZenonT(30), <2>1 DEF Upstream
  <1>3. CASE StartRace
    <2>1. seen' = Unknown /\ outcome' = ""
      BY <1>3, Zenon DEF StartRace, Reply
    <2>2. seen'.upstreamSeen = 0
      BY ZenonT(30), <2>1 DEF Unknown
    <2>3. Sent' = {}
      BY <1>3, StartRaceType DEF Sent
    <2>4. Taken' = {} /\ Cardinality({}) = 0
      BY <2>3, FS_EmptySet DEF Taken
    <2>5. \A j \in DOMAIN ch' : ~IsUp(ch'[j])
      <3>1. ch' = (IF lg' = "run" THEN <<>> ELSE <<Found("local", "miss")>>)
                     \o (IF cg' = "run" THEN <<>> ELSE <<Found("cache", "miss")>>)
        BY <1>3, StartRaceType
      <3>2. ~IsUp(Found("local", "miss")) /\ ~IsUp(Found("cache", "miss"))
        BY DEF IsUp, Found
      <3>3. CASE lg' = "run" /\ cg' = "run"
        BY <3>1, <3>3
      <3>4. CASE lg' = "run" /\ cg' # "run"
        BY <3>1, <3>2, <3>4
      <3>5. CASE lg' # "run" /\ cg' = "run"
        BY <3>1, <3>2, <3>5
      <3>6. CASE lg' # "run" /\ cg' # "run"
        BY <3>1, <3>2, <3>6
      <3> QED
        BY <3>3, <3>4, <3>5, <3>6
    <2>6. UpMsgs'
      BY <2>5 DEF UpMsgs
    <2>7. Counted'
      BY <2>2, <2>4 DEF Counted
    <2> QED
      BY ZenonT(30), <2>1, <2>6, <2>7 DEF Upstream
  <1>4. CASE LookupLocalRRs
    <2>1. /\ lg' \in {"local", "miss"} /\ CanSend /\ ch' = Append(ch, Found("local", lg'))
          /\ UNCHANGED <<pc, asked, up, seen, outcome>>
      BY <1>4 DEF LookupLocalRRs, result
    <2>2. Found("local", lg') \in Msg /\ ~IsUp(Found("local", lg'))
      BY <2>1, FoundMsg DEF Found, Sources, IsUp
    <2> QED
      BY ZenonT(30), <1>t, <2>1, <2>2, LookupMsg DEF Upstream
  <1>5. CASE LookupCacheRR
    <2>1. /\ CanSend /\ ch' = Append(ch, Found("cache", cg'))
          /\ UNCHANGED <<pc, asked, up, seen, outcome>>
      BY <1>5 DEF LookupCacheRR, result
    <2>2. cg' \in Sources \cup {"miss"}
      BY <1>5, EntrySource DEF LookupCacheRR, Types, StoreTypes
    <2>3. Found("cache", cg') \in Msg /\ ~IsUp(Found("cache", cg'))
      BY <2>2, FoundMsg DEF Found, IsUp
    <2> QED
      BY ZenonT(30), <1>t, <2>1, <2>3, LookupMsg DEF Upstream
  <1>6. ASSUME NEW i \in DOMAIN up, UNCHANGED <<pc, ch, seen, outcome>>, up[i].st # "sent",
               NEW r, r.st # "sent", up' = [up EXCEPT ![i] = r]
        PROVE  Upstream'
    <2>1. Sent' = Sent /\ \A k \in Sent : up'[k] = up[k]
      BY <1>6 DEF Sent
    <2>2. InChannel' = InChannel
      BY <1>6 DEF InChannel
    <2>3. Taken' = Taken /\ Taken \subseteq Sent
      BY <2>1, <2>2 DEF Taken
    <2>4. UpMsgs => UpMsgs'
      BY <1>6, <2>1 DEF UpMsgs
    <2>5. Counted => Counted'
      BY <1>6, <2>1, <2>3 DEF Counted
    <2> QED
      BY ZenonT(30), <1>6, <2>4, <2>5 DEF Upstream
  <1>7. ASSUME NEW i \in DOMAIN up, UpstreamReturns(i)
        PROVE  Upstream'
    <2>1. PICK v : up' = [up EXCEPT ![i] = [st |-> "ready", val |-> v]]
      BY ZenonT(30), <1>7 DEF UpstreamReturns
    <2>2. up[i].st # "sent" /\ UNCHANGED <<pc, ch, seen, outcome>>
      BY <1>7 DEF UpstreamReturns, result
    <2> QED
      BY ZenonT(30), <1>6, <2>1, <2>2
  <1>8. ASSUME NEW i \in DOMAIN up, UpstreamDrops(i)
        PROVE  Upstream'
    <2>1. up[i].st # "sent" /\ UNCHANGED <<pc, ch, seen, outcome>>
      BY <1>8 DEF UpstreamDrops, result
    <2>2. up' = [up EXCEPT ![i] = [up[i] EXCEPT !.st = "dropped"]]
      BY <1>8 DEF UpstreamDrops
    <2>3. up[i] \in UpRec
      BY <1>t DEF RaceTypes
    <2>4. [up[i] EXCEPT !.st = "dropped"].st # "sent"
      BY <2>3 DEF UpRec
    <2> QED
      BY ZenonT(30), <1>6, <2>1, <2>2, <2>4
  <1>9. ASSUME NEW i \in DOMAIN up, UpstreamSends(i)
        PROVE  Upstream'
    <2>1. UNCHANGED <<pc, outcome>>
      BY <1>9 DEF UpstreamSends, result
    <2> QED
      BY ZenonT(30), <1>t, <1>9, <2>1, SendMsg DEF Upstream
  <1>10. ASSUME NEW m, TakeAndWait(m)
         PROVE  Upstream'
    <2>1. Take(m) /\ outcome' = outcome /\ pc = "race"
      BY ZenonT(30), <1>10 DEF TakeAndWait, Take, result
    <2> QED
      BY ZenonT(30), <1>t, <2>1, TakeMsg DEF Upstream
  <1>11. ASSUME NEW m, TakeLocal(m) \/ TakeCached(m) \/ TakeUpstream(m) \/ TakeNone(m)
         PROVE  Upstream'
    BY ZenonT(30), <1>11 DEF TakeLocal, TakeCached, TakeUpstream, TakeNone, Returns, Upstream
  <1>12. CASE TimeOut \/ BackgroundRefresh \/ CacheAges \/ EditRecords \/ UNCHANGED vars
    BY <1>1, <1>12 DEF TimeOut, BackgroundRefresh, CacheAges, EditRecords, race, result, vars
  <1> QED
    BY <1>2, <1>3, <1>4, <1>5, <1>7, <1>8, <1>9, <1>10, <1>11, <1>12
       DEF Next, HandleQuestion, UpstreamStep, Turn

LEMMA StepSeenBound ==
  ASSUME Types, Upstream, SeenBound, [Next]_vars
  PROVE  SeenBound'
  <1>1. ASSUME UNCHANGED <<asked, seen>>
        PROVE  SeenBound'
    BY <1>1 DEF SeenBound
  <1>2. CASE StartRace
    <2>1. seen' = Unknown
      BY <1>2, Zenon DEF StartRace
    <2>2. seen'.upstreamSeen = 0
      BY <2>1 DEF Unknown
    <2>3. Len(asked') \in Nat
      BY <1>2, StartRaceType
    <2> QED
      BY <2>2, <2>3 DEF SeenBound
  <1>3. CASE Turn
    <2>1. PICK m : Take(m)
      BY ZenonT(30), <1>3 DEF Turn, TakeAndWait, TakeLocal, TakeCached, TakeUpstream, TakeNone
    <2>2. seen'.upstreamSeen = Cardinality(Taken')
      BY <2>1, TakeMsg DEF Types, Counted
    <2>3. RaceTypes'
      BY StepTypes DEF Types
    <2>4. Len(asked') \in Nat /\ Taken' \in SUBSET (1 .. Len(asked'))
      BY <2>3 DEF RaceTypes, Taken, Sent
    <2>5. Cardinality(Taken') <= Len(asked')
      BY <2>4, Positions
    <2> QED
      BY <2>2, <2>5 DEF SeenBound
  <1>4. CASE AnswerLocal \/ AnswerCached \/ AnswerBuiltin \/ LookupLocalRRs \/ LookupCacheRR
    BY <1>1, <1>4 DEF AnswerLocal, AnswerCached, AnswerBuiltin, LookupLocalRRs, LookupCacheRR,
                      race
  <1>5. ASSUME NEW i \in DOMAIN up, UpstreamStep(i)
        PROVE  SeenBound'
    BY <1>1, <1>5 DEF UpstreamStep, UpstreamReturns, UpstreamSends, UpstreamDrops
  <1>6. CASE TimeOut \/ BackgroundRefresh \/ CacheAges \/ EditRecords \/ UNCHANGED vars
    BY <1>1, <1>6 DEF TimeOut, BackgroundRefresh, CacheAges, EditRecords, race, vars
  <1> QED
    BY <1>2, <1>3, <1>4, <1>5, <1>6 DEF Next, HandleQuestion

LEMMA StepNone ==
  ASSUME Types, Lookups, Upstream, NoneMeansNone, [Next]_vars
  PROVE  NoneMeansNone'
  <1>1. ASSUME UNCHANGED <<outcome, lg, cg, up>>
        PROVE  NoneMeansNone'
    BY <1>1 DEF NoneMeansNone
  <1>2. ASSUME outcome' # "none"
        PROVE  NoneMeansNone'
    BY <1>2 DEF NoneMeansNone
  <1>3. CASE AnswerLocal \/ AnswerCached \/ AnswerBuiltin
    BY <1>2, <1>3 DEF AnswerLocal, AnswerCached, AnswerBuiltin, Reply
  <1>4. CASE StartRace
    <2>1. outcome' = ""
      BY <1>4, Zenon DEF StartRace, Reply
    <2> QED
      BY ZenonT(30), <1>2, <2>1
  <1>5. CASE LookupLocalRRs \/ LookupCacheRR
    BY <1>5 DEF LookupLocalRRs, LookupCacheRR, result, NoneMeansNone
  <1>6. ASSUME NEW i \in DOMAIN up, UpstreamStep(i)
        PROVE  NoneMeansNone'
    <2>1. up[i].st # "sent" /\ outcome' = outcome
      BY <1>6 DEF UpstreamStep, UpstreamReturns, UpstreamSends, UpstreamDrops, result
    <2>2. outcome # "none"
      BY <2>1 DEF NoneMeansNone
    <2> QED
      BY <1>2, <2>1, <2>2
  <1>7. ASSUME NEW m, TakeAndWait(m) \/ TakeLocal(m) \/ TakeCached(m) \/ TakeUpstream(m)
        PROVE  NoneMeansNone'
    <2>1. CASE TakeAndWait(m)
      <3>1. pc = "race" /\ outcome' = outcome
        BY ZenonT(30), <2>1 DEF TakeAndWait, Take, result
      <3> QED
        BY ZenonT(30), <1>2, <3>1 DEF Lookups
    <2>2. CASE TakeLocal(m) \/ TakeCached(m) \/ TakeUpstream(m)
      BY <1>2, <2>2 DEF TakeLocal, TakeCached, TakeUpstream, Reply
    <2> QED
      BY <1>7, <2>1, <2>2
  <1>8. ASSUME NEW m, TakeNone(m)
        PROVE  NoneMeansNone'
    <2>1. Take(m) /\ Decide(m) = "none"
      BY <1>8 DEF TakeNone
    <2>2. seen' = Knows(m) /\ UNCHANGED <<asked, lg, cg, up>>
      BY <2>1, TakeType DEF Types
    <2>3. /\ ~LocalHit(m) /\ seen'.localDone /\ seen'.cacheDone /\ seen'.cacheHit = "miss"
          /\ seen'.firstUp = NoMsg /\ seen'.upstreamSeen = Len(asked)
      BY <2>1, <2>2, DecideFacts
    <2>4. lg' = "miss" /\ cg' = "miss"
      BY <2>1, <2>3, TakeLookups DEF Types
    <2>5. Counted' /\ RaceTypes'
      BY <2>1, TakeMsg, StepTypes DEF Types
    <2>6. Cardinality(Taken') = Len(asked')
      BY <2>2, <2>3, <2>5 DEF Counted
    <2>7. Taken' = DOMAIN up'
      <3>1. Len(asked') \in Nat /\ DOMAIN up' = 1 .. Len(asked')
        BY <2>5 DEF RaceTypes
      <3>2. Taken' \in SUBSET (1 .. Len(asked'))
        BY <3>1 DEF Taken, Sent
      <3> QED
        BY <2>6, <3>1, <3>2, Positions
    <2>8. \A i \in DOMAIN up' : up'[i] = [st |-> "sent", val |-> "miss"]
      <3> SUFFICES ASSUME NEW i \in DOMAIN up'
                   PROVE  up'[i] = [st |-> "sent", val |-> "miss"]
        OBVIOUS
      <3>1. up'[i].st = "sent"
        BY <2>7 DEF Taken, Sent
      <3>2. up'[i].val = "miss"
        BY <2>3, <2>5, <2>7 DEF Counted
      <3>3. up'[i] \in UpRec
        BY <2>5 DEF RaceTypes
      <3> QED
        BY <3>1, <3>2, <3>3 DEF UpRec
    <2> QED
      BY <2>4, <2>8 DEF NoneMeansNone
  <1>9. CASE TimeOut \/ BackgroundRefresh \/ CacheAges \/ EditRecords \/ UNCHANGED vars
    BY <1>1, <1>9 DEF TimeOut, BackgroundRefresh, CacheAges, EditRecords, race, result, vars
  <1> QED
    BY <1>3, <1>4, <1>5, <1>6, <1>7, <1>8, <1>9 DEF Next, HandleQuestion, Turn

----------------------------------------------------------------------------
(* Strict validation: without stale_while_revalidate no refresh runs, and  *)
(* nothing bogus gets into the cache or out of it.                         *)

Guarded == settings.strict /\ ~settings.stale
Clean   ==
    Guarded =>
        /\ refreshes = 0
        /\ cache.src # "bogus" /\ cg # "bogus" /\ served # "bogus"

LEMMA StepClean ==
  ASSUME Types, Lookups, Clean, [Next]_vars
  PROVE  Clean'
  <1>s. settings' = settings
    BY ZenonT(30) DEF Next, HandleQuestion, AnswerLocal, AnswerCached, AnswerBuiltin, StartRace,
           LookupLocalRRs, LookupCacheRR, UpstreamStep, UpstreamReturns, UpstreamSends,
           UpstreamDrops, TimeOut, Turn, TakeAndWait, TakeLocal, TakeCached, TakeUpstream,
           TakeNone, Take, BackgroundRefresh, CacheAges, EditRecords, config, vars
  <1> SUFFICES ASSUME Guarded
               PROVE  refreshes' = 0 /\ cache'.src # "bogus" /\ cg' # "bogus" /\ served' # "bogus"
    BY <1>s DEF Clean, Guarded
  <1>0. refreshes = 0 /\ cache.src # "bogus" /\ cg # "bogus" /\ served # "bogus" /\ ~settings.stale
    BY DEF Clean, Guarded
  <1>c. CacheLocal => cache'.src # "bogus"
    BY <1>0 DEF CacheLocal, Fresh
  <1>1. CASE AnswerLocal
    BY <1>0, <1>1, <1>c DEF AnswerLocal, Reply
  <1>2. CASE AnswerCached
    BY <1>0, <1>2 DEF AnswerCached, Usable, Reply, data
  <1>3. CASE AnswerBuiltin
    BY <1>0, <1>3 DEF AnswerBuiltin, Reply, data, race
  <1>4. CASE StartRace
    <2>1. UNCHANGED <<data, refreshes>> /\ served' = "nothing"
      BY <1>4, Zenon DEF StartRace, Reply
    <2> QED
      BY <1>0, <1>4, <2>1, StartRaceType DEF data
  <1>5. CASE LookupLocalRRs \/ TimeOut \/ EditRecords \/ UNCHANGED vars
    BY <1>0, <1>5 DEF LookupLocalRRs, TimeOut, EditRecords, data, race, result, vars
  <1>6. CASE LookupCacheRR
    BY <1>0, <1>6 DEF LookupCacheRR, data, result
  <1>7. ASSUME NEW i \in DOMAIN up, UpstreamStep(i)
        PROVE  refreshes' = 0 /\ cache'.src # "bogus" /\ cg' # "bogus" /\ served' # "bogus"
    BY <1>0, <1>7 DEF UpstreamStep, UpstreamReturns, UpstreamSends, UpstreamDrops, data, result
  <1>8. ASSUME NEW m, TakeAndWait(m) \/ TakeLocal(m) \/ TakeNone(m)
        PROVE  refreshes' = 0 /\ cache'.src # "bogus" /\ cg' # "bogus" /\ served' # "bogus"
    BY ZenonT(30), <1>0, <1>8, <1>c DEF TakeAndWait, TakeLocal, TakeNone, Take, Reply, result
  <1>9. ASSUME NEW m, TakeCached(m)
        PROVE  refreshes' = 0 /\ cache'.src # "bogus" /\ cg' # "bogus" /\ served' # "bogus"
    <2>1. Take(m) /\ Decide(m) = "cache" /\ served' = seen'.cacheHit /\ cache' = cache
      BY <1>9 DEF TakeCached, Reply
    <2>2. seen'.cacheDone
      BY ZenonT(30), <2>1, DecideFacts, TakeType DEF Types
    <2>3. seen'.cacheHit = cg' /\ cg' = cg
      BY <2>1, <2>2, TakeLookups, TakeType DEF Types
    <2> QED
      BY <1>0, <2>1, <2>3 DEF Take
  <1>10. ASSUME NEW m, TakeUpstream(m)
         PROVE  refreshes' = 0 /\ cache'.src # "bogus" /\ cg' # "bogus" /\ served' # "bogus"
    BY <1>0, <1>10 DEF TakeUpstream, Take, Reply, Fresh, Guarded
  <1>11. CASE BackgroundRefresh
    BY <1>0, <1>11 DEF BackgroundRefresh
  <1>12. CASE CacheAges
    <2>1. cache'.src \in {cache.src, "none"}
      BY <1>12 DEF CacheAges, NoEntry, Types, StoreTypes, Entry
    <2> QED
      BY <1>0, <1>12, <2>1 DEF CacheAges, race, result
  <1> QED
    BY <1>1, <1>2, <1>3, <1>4, <1>5, <1>6, <1>7, <1>8, <1>9, <1>10, <1>11, <1>12
       DEF Next, HandleQuestion, Turn

----------------------------------------------------------------------------
(* The theorems.                                                           *)

IInv == Types /\ Room /\ Lookups /\ Upstream /\ SeenBound /\ Priority /\ NoneMeansNone /\ Clean

LEMMA InitIInv == Init => IInv
  <1> SUFFICES ASSUME Init PROVE IInv
    OBVIOUS
  <1>1. pc = "idle" /\ lg = "miss" /\ cg = "miss" /\ outcome = ""
    BY Zenon DEF Init
  <1>2. Types
    BY InitTypes
  <1>3. Room
    <2>1. ch = <<>> /\ up = <<>> /\ asked = <<>>
      BY Zenon DEF Init
    <2>2. Len(ch) = 0 /\ Len(asked) = 0 /\ DOMAIN up = {}
      BY <2>1
    <2>3. Waiting = {}
      BY <2>2, Zenon DEF Waiting
    <2>4. Cardinality(Waiting) = 0
      BY <2>3, FS_EmptySet
    <2>5. Busy(lg) = 0 /\ Busy(cg) = 0
      BY ZenonT(30), <1>1 DEF Busy
    <2> QED
      BY <2>2, <2>4, <2>5 DEF Room, Cap
  <1>4. Lookups /\ Upstream
    BY ZenonT(30), <1>1 DEF Lookups, Upstream
  <1>5. SeenBound
    <2>1. seen = Unknown /\ asked = <<>>
      BY Zenon DEF Init
    <2>2. seen.upstreamSeen = 0
      BY <2>1 DEF Unknown
    <2>3. Len(asked) = 0
      BY <2>1
    <2> QED
      BY <2>2, <2>3 DEF SeenBound
  <1>6. Priority /\ NoneMeansNone
    BY ZenonT(30), <1>1 DEF Priority, NoneMeansNone
  <1>7. Clean
    <2>1. served = "nothing" /\ refreshes = 0 /\ (cache = NoEntry \/ cache = Fresh("good"))
      BY Zenon DEF Init
    <2>2. cache.src # "bogus"
      BY <2>1 DEF NoEntry, Fresh
    <2> QED
      BY ZenonT(30), <1>1, <2>1, <2>2 DEF Clean
  <1> QED
    BY <1>2, <1>3, <1>4, <1>5, <1>6, <1>7 DEF IInv

LEMMA StepIInv == IInv /\ [Next]_vars => IInv'
  BY StepTypes, StepRoom, StepLookups, StepUpstream, StepSeenBound, StepPriority, StepNone,
     StepClean DEF IInv

\* Everything below holds in every reachable state.
LEMMA AlwaysIInv == Spec => []IInv
  BY InitIInv, StepIInv, PTL DEF Spec

\* The channel of the race never holds more than its capacity, and the main goroutine
\* never counts more upstreams than it asked.
THEOREM TypeCorrect == Spec => []TypeOK
  <1>1. IInv => TypeOK
    <2> SUFFICES ASSUME IInv PROVE TypeOK
      OBVIOUS
    <2>1. seen \in [localDone : BOOLEAN, cacheDone : BOOLEAN, cacheHit : Sources \cup {"miss"},
                    firstUp : Msg, upstreamSeen : 0 .. Len(asked)]
      BY DEF IInv, Types, RaceTypes, Known, SeenBound
    <2>2. refreshes \in 0 .. MaxQueries
      BY ResolverAssumption DEF IInv, Types, StoreTypes
    <2> QED
      BY ZenonT(30), <2>1, <2>2 DEF IInv, Types, StoreTypes, RaceTypes, ResultTypes, TypeOK, UpRec
  <1> QED
    BY <1>1, AlwaysIInv, PTL

\* Whatever the number of upstreams, no goroutine of a race is ever stuck in a send.
THEOREM SendersNeverBlockHolds == Spec => []SendersNeverBlock
  <1>1. IInv => SendersNeverBlock
    <2> SUFFICES ASSUME IInv, lg = "run" \/ cg = "run" \/ \E i \in DOMAIN up : up[i].st = "ready"
                 PROVE  CanSend
      BY DEF SendersNeverBlock
    <2>1. RaceTypes /\ Room
      BY DEF IInv, Types
    <2>2. IsFiniteSet(Waiting) /\ Cardinality(Waiting) \in Nat /\ Len(ch) \in Nat
      BY <2>1, WaitingFinite DEF RaceTypes
    <2>3. (\E i \in DOMAIN up : up[i].st = "ready") => Cardinality(Waiting) # 0
      <3>1. (\E i \in DOMAIN up : up[i].st = "ready") => Waiting # {}
        BY DEF Waiting
      <3> QED
        BY <2>2, <3>1, FS_EmptySet
    <2>4. Cap \in Nat /\ Busy(lg) \in 0 .. 1 /\ Busy(cg) \in 0 .. 1
      BY <2>1 DEF Cap, RaceTypes, Busy
    <2>5. Busy(lg) = 1 \/ Busy(cg) = 1 \/ Cardinality(Waiting) # 0
      BY <2>3 DEF Busy
    <2>6. Len(ch) + Busy(lg) + Busy(cg) + Cardinality(Waiting) <= Cap
      BY <2>1 DEF Room
    <2> QED
      BY <2>2, <2>4, <2>5, <2>6 DEF CanSend
  <1> QED
    BY <1>1, AlwaysIInv, PTL

\* Local records come before the cache and the cache before the upstreams, in whatever
\* order the goroutines of the race finish.
THEOREM PriorityHolds == Spec => []Priority
  BY AlwaysIInv, PTL DEF IInv

\* "No answer" is given only when every upstream was heard and had none.
THEOREM NoneMeansNoneHolds == Spec => []NoneMeansNone
  BY AlwaysIInv, PTL DEF IInv

\* Under strict validation and without background refreshes, bogus data is never served,
\* at once or from the cache.
THEOREM StrictRefusesBogusHolds == Spec => []StrictRefusesBogus
  <1>1. IInv => StrictRefusesBogus
    BY DEF IInv, Clean, Guarded, StrictRefusesBogus
  <1> QED
    BY <1>1, AlwaysIInv, PTL
=============================================================================
