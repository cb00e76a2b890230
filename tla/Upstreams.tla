----------------------------- MODULE Upstreams -----------------------------
(***************************************************************************)
(* The upstream servers and their health (data/upstream_health.go,         *)
(* main_upstream_health.go, the server list of data/data.go and its        *)
(* editors in api/server.go and commandhandler/commandhandler.go, and the  *)
(* selection of resolver/resolver.go), with health checks enabled.         *)
(*                                                                         *)
(* The probe loop takes a copy of the server list for a round and probes   *)
(* its active rows one after the other.  Queries select servers, and a     *)
(* successful answer clears the mark of its server.  Editors read the      *)
(* list, change their copy, put it back and save it: three steps.          *)
(***************************************************************************)
EXTENDS UpstreamSelection, SequencesExt

CONSTANTS
    Lists,       \* server lists to start with
    NewRows,     \* rows that may be added
    Editor,      \* sessions that edit the list
    Fallback,    \* fallback_server_*
    Threshold,   \* upstream_health_check_failures
    MaxFailures, \* bound: the failure counter stops here
    MaxEdits     \* bound: edits begun

ASSUME UpstreamsAssumption ==
    /\ \A l \in Lists : l \in Seq(Row)
    /\ NewRows \subseteq Row
    /\ Fallback \in Endpoint \cup {NoEndpoint}
    /\ Threshold \in Nat \ {0} /\ MaxFailures \in Nat /\ Threshold <= MaxFailures
    /\ MaxEdits \in Nat

VARIABLES
    rows,    \* DNSResolverData.DNSServers
    file,    \* dnsservers.json
    edit,    \* what each editor is doing, and with which list
    health,  \* UpstreamHealthTracker.by
    round,   \* endpoints the probe loop has still to probe in this round
    probe,   \* the probe that was answered and not recorded yet, or <<>>
    down,    \* endpoints that do not answer
    query,   \* the last selection (one is made at once): the list and the marks it
             \* saw, and what was asked
    streak,  \* failed probes in a row, with no success of any kind between
    edits

vars == <<rows, file, edit, health, round, probe, down, query, streak, edits>>

Idle       == [pc |-> "idle", list |-> <<>>]
Healthy    == [failures |-> 0, unhealthy |-> FALSE]
Unhealthy  == {e \in Endpoint : health[e].unhealthy}

Init ==
    /\ rows \in Lists
    /\ file = rows
    /\ edit = [g \in Editor |-> Idle]
    /\ health = [e \in Endpoint |-> Healthy]
    /\ round = <<>>
    /\ probe = <<>>
    /\ down = {}
    /\ query = [rows |-> rows, unhealthy |-> {}, asked |-> ServersToQuery(rows, Fallback, {})]
    /\ streak = [e \in Endpoint |-> 0]
    /\ edits = 0

----------------------------------------------------------------------------
(* The health tracker.                                                     *)

\* Variant: the mark goes, the count stays.
SuccessKeepsCount(e) == [health EXCEPT ![e].unhealthy = FALSE]

\* RecordForwardSuccess, also what ProbeOK does.
RecordForwardSuccess(e) == [health EXCEPT ![e] = Healthy]

ProbeFail(e) ==
    LET n == IF health[e].failures < MaxFailures THEN health[e].failures + 1
                                                 ELSE health[e].failures
    IN  [health EXCEPT ![e] = [failures  |-> n,
                                unhealthy |-> @.unhealthy \/ n >= Threshold]]

----------------------------------------------------------------------------
(* runUpstreamHealthProbeLoop.                                             *)

\* Variant: servers that are marked are not probed any more.
StartRoundHealthy ==
    /\ round = <<>> /\ probe = <<>>
    /\ LET wanted(r) == Active(r) /\ r.ep \notin Unhealthy
       IN  round' = Endpoints(SelectSeq(rows, wanted))
    /\ round' # <<>>
    /\ UNCHANGED <<rows, file, edit, health, probe, down, query, streak, edits>>

StartRound ==
    /\ round = <<>> /\ probe = <<>>
    /\ round' = Endpoints(SelectSeq(rows, Active))
    /\ round' # <<>>
    /\ UNCHANGED <<rows, file, edit, health, probe, down, query, streak, edits>>

\* The server is asked; the answer, or the timeout, comes back.
ProbeNext ==
    /\ round # <<>> /\ probe = <<>>
    /\ probe' = <<[ep |-> Head(round), ok |-> Head(round) \notin down]>>
    /\ round' = Tail(round)
    /\ UNCHANGED <<rows, file, edit, health, down, query, streak, edits>>

ApplyUpstreamProbeResult ==
    /\ probe # <<>>
    /\ LET p == Head(probe)
       IN  /\ health' = IF p.ok THEN RecordForwardSuccess(p.ep) ELSE ProbeFail(p.ep)
           /\ streak' = [streak EXCEPT ![p.ep] =
                            IF p.ok THEN 0 ELSE IF @ < MaxFailures THEN @ + 1 ELSE @]
    /\ probe' = <<>>
    /\ UNCHANGED <<rows, file, edit, round, down, query, edits>>

----------------------------------------------------------------------------
(* Queries.                                                                *)

SelectServers ==
    /\ query' = [rows |-> rows, unhealthy |-> Unhealthy,
                 asked |-> ServersToQuery(rows, Fallback, Unhealthy)]
    /\ UNCHANGED <<rows, file, edit, health, round, probe, down, streak, edits>>

\* The answer of a server that was asked is used, maybe much later.
ForwardSuccess ==
    /\ \E e \in Elems(query.asked) \ down :
          /\ health' = RecordForwardSuccess(e)
          /\ streak' = [streak EXCEPT ![e] = 0]
    /\ UNCHANGED <<rows, file, edit, round, probe, down, query, edits>>

----------------------------------------------------------------------------
(* Edits of the list, and what the servers do.                             *)

\* Add, Remove and Update (active:) on a copy of the list.  The last two take the
\* first row with the address.
FirstRows(list) == {i \in DOMAIN list : \A j \in 1 .. i - 1 : list[j].ep # list[i].ep}
Edited(list) ==
    {Append(list, r) : r \in NewRows}
        \cup {RemoveAt(list, i) : i \in FirstRows(list)}
        \cup {[list EXCEPT ![i].active = ~@] : i \in FirstRows(list)}

\* An edit on a copy, "dns clear", or "dns load".
BeginEdit(g) ==
    /\ edit[g].pc = "idle" /\ edits < MaxEdits
    /\ edits' = edits + 1
    /\ \E list \in Edited(rows) \cup {<<>>, file} :
          edit' = [edit EXCEPT ![g] = [pc |-> "update", list |-> list]]
    /\ UNCHANGED <<rows, file, health, round, probe, down, query, streak>>

\* The list in memory is replaced under the lock ...
UpdateServers(g) ==
    /\ edit[g].pc = "update"
    /\ rows' = edit[g].list
    /\ edit' = [edit EXCEPT ![g].pc = "save"]
    /\ UNCHANGED <<file, health, round, probe, down, query, streak, edits>>

\* Variant: an empty list is not saved.
SaveUnlessEmpty(g) ==
    /\ edit[g].pc = "save"
    /\ file' = IF edit[g].list = <<>> THEN file ELSE edit[g].list
    /\ edit' = [edit EXCEPT ![g] = Idle]
    /\ UNCHANGED <<rows, health, round, probe, down, query, streak, edits>>

\* ... and the file outside it.
SaveDNSServers(g) ==
    /\ edit[g].pc = "save"
    /\ file' = edit[g].list
    /\ edit' = [edit EXCEPT ![g] = Idle]
    /\ UNCHANGED <<rows, health, round, probe, down, query, streak, edits>>

ServerFails(e) ==
    /\ e \notin down
    /\ down' = down \cup {e}
    /\ UNCHANGED <<rows, file, edit, health, round, probe, query, streak, edits>>

ServerRecovers(e) ==
    /\ e \in down
    /\ down' = down \ {e}
    /\ UNCHANGED <<rows, file, edit, health, round, probe, query, streak, edits>>

----------------------------------------------------------------------------

Probing == StartRound \/ ProbeNext \/ ApplyUpstreamProbeResult

Next ==
    \/ StartRound
    \/ ProbeNext
    \/ ApplyUpstreamProbeResult
    \/ SelectServers
    \/ ForwardSuccess
    \/ \E g \in Editor : BeginEdit(g) \/ UpdateServers(g) \/ SaveDNSServers(g)
    \/ \E e \in Endpoint : ServerFails(e) \/ ServerRecovers(e)

Spec == Init /\ [][Next]_vars

\* Fairness: the probe loop goes on for ever.  Nobody has to ask or to edit.
FairSpec == Spec /\ WF_vars(Probing)

----------------------------------------------------------------------------
(* Properties.                                                             *)

TypeOK ==
    /\ rows \in Seq(Row)
    /\ file \in Seq(Row)
    /\ edit \in [Editor -> [pc : {"idle", "update", "save"}, list : Seq(Row)]]
    /\ health \in [Endpoint -> [failures : 0 .. MaxFailures, unhealthy : BOOLEAN]]
    /\ round \in Seq(Endpoint)
    /\ probe \in Seq([ep : Endpoint, ok : BOOLEAN])
    /\ down \subseteq Endpoint
    /\ query \in [rows : Seq(Row), unhealthy : SUBSET Endpoint, asked : Seq(Endpoint)]
    /\ streak \in [Endpoint -> 0 .. MaxFailures]
    /\ edits \in 0 .. MaxEdits

\* "Names that match any active whitelisted server are resolved only via those
\* servers", and the fallbacks of those servers; other names never reach them.
WhitelistOnly ==
    LET list  == query.rows
        kind  == IF ActiveMatch(list) THEN "match" ELSE "none"
        mine  == {r.ep : r \in {r \in Elems(list) : r.active /\ r.white = kind}}
        spare == {r.fb : r \in {r \in Elems(list) : r.ep \in mine}}
        last  == IF ActiveMatch(list) THEN {} ELSE {Fallback}
    IN  Elems(query.asked) \subseteq mine \cup spare \cup last

\* "If every upstream would be excluded, dnsplane falls back to using the full
\* server list so resolution does not go completely dark"; and otherwise no server
\* that was marked is asked.
NeverDark ==
    LET all == Elems(Candidates(query.rows, Fallback))
    IN  Elems(query.asked) = IF all \subseteq query.unhealthy THEN all
                             ELSE all \ query.unhealthy

\* When no editor is busy, dnsservers.json has the servers in use.
ServersFileCurrent == (\A g \in Editor : edit[g].pc = "idle") => file = rows

\* "After N consecutive probe failures": a server is excluded only after that many
\* failed probes with no answered probe or query between them.
ExcludedAfterStreak == \A e \in Unhealthy : streak[e] >= Threshold

\* A server that answers again comes back, if it is an active row: "excluded from
\* forwarding until a probe succeeds again".
ActiveComesBack ==
    \A e \in Endpoint :
        <>[](e \notin down /\ e \in Elems(Endpoints(SelectSeq(rows, Active))))
            => <>[](e \notin Unhealthy)

=============================================================================
