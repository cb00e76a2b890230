------------------------- MODULE UpstreamSelection -------------------------
(***************************************************************************)
(* Which upstream endpoints a query is sent to (dnsservers/dnsservers.go,  *)
(* dnsservers/endpoint.go, the head of resolveFastPath in                  *)
(* resolver/resolver.go and the health filter of data/upstream_health.go). *)
(*                                                                         *)
(* A row of dnsservers.json, seen from one query name, is its endpoint,    *)
(* its own fallback endpoint, whether it is active, and whether its domain *)
(* whitelist is empty, has an entry that covers the name, or only others.  *)
(* Endpoints are compared by address; the transport is left out.           *)
(***************************************************************************)
EXTENDS Naturals, Sequences

CONSTANTS
    Endpoint,   \* addresses of upstream resolvers
    NoEndpoint  \* an empty address

ASSUME SelectionAssumption == NoEndpoint \notin Endpoint

Row == [ep : Endpoint, fb : Endpoint \cup {NoEndpoint}, active : BOOLEAN,
        white : {"none", "match", "other"}]

Active(r)             == r.active
ServerMatchesQuery(r) == r.white = "match"
Global(r)             == r.white = "none"
Endpoints(rows)       == [i \in DOMAIN rows |-> rows[i].ep]
Elems(seq)            == {seq[i] : i \in DOMAIN seq}

ActiveMatch(rows) == \E r \in Elems(rows) : Active(r) /\ ServerMatchesQuery(r)

\* Variant: an inactive server that covers the name does not stop the search.
EndpointsWithGlobals(rows) ==
    LET active == SelectSeq(rows, Active)
    IN  Endpoints(SelectSeq(active, ServerMatchesQuery))
            \o Endpoints(SelectSeq(active, Global))

\* Active servers whose whitelist covers the name, else none if an inactive one
\* covers it, else the active servers without a whitelist.
GetUpstreamEndpointsForQuery(rows) ==
    LET active == SelectSeq(rows, Active)
        covers == SelectSeq(active, ServerMatchesQuery)
    IN  IF covers # <<>> THEN Endpoints(covers)
        ELSE IF \E r \in Elems(rows) : ServerMatchesQuery(r) THEN <<>>
        ELSE Endpoints(SelectSeq(active, Global))

\* Variant: an empty fallback address is added too.
AppendAnyFallbacks(picked, rows) ==
    LET add(eps, r) == IF r.ep \in Elems(picked) /\ r.fb \notin Elems(eps)
                       THEN Append(eps, r.fb) ELSE eps
        after[i \in 0 .. Len(rows)] == IF i = 0 THEN picked ELSE add(after[i - 1], rows[i])
    IN  after[Len(rows)]

\* The fallback of every row whose endpoint was picked, once.
AppendPerServerFallbacks(picked, rows) ==
    LET add(eps, r) == IF r.ep \in Elems(picked) /\ r.fb # NoEndpoint /\ r.fb \notin Elems(eps)
                       THEN Append(eps, r.fb) ELSE eps
        after[i \in 0 .. Len(rows)] == IF i = 0 THEN picked ELSE add(after[i - 1], rows[i])
    IN  after[Len(rows)]

\* fallback_server_*, unless an active whitelist covers the name.
WithFallbackServer(eps, rows, fallback) ==
    IF ActiveMatch(rows) \/ fallback = NoEndpoint \/ fallback \in Elems(eps)
    THEN eps ELSE Append(eps, fallback)

\* Variant: nothing is left when every endpoint is unhealthy.
OnlyHealthy(eps, unhealthy) ==
    LET healthy(e) == e \notin unhealthy IN SelectSeq(eps, healthy)

\* Unhealthy endpoints are left out unless that leaves none.
FilterHealthyUpstreamEndpoints(eps, unhealthy) ==
    LET healthy(e) == e \notin unhealthy
        kept       == SelectSeq(eps, healthy)
    IN  IF kept = <<>> THEN eps ELSE kept

Candidates(rows, fallback) ==
    LET picked == GetUpstreamEndpointsForQuery(rows)
    IN  WithFallbackServer(AppendPerServerFallbacks(picked, rows), rows, fallback)

\* serversToQuery of resolveFastPath.
ServersToQuery(rows, fallback, unhealthy) ==
    FilterHealthyUpstreamEndpoints(Candidates(rows, fallback), unhealthy)

\* The servers backgroundRefresh tries: no per-server fallbacks, and the fallback
\* server only when there is nothing else.
RefreshServers(rows, fallback, unhealthy) ==
    LET picked == GetUpstreamEndpointsForQuery(rows)
        tried  == IF picked = <<>> /\ fallback # NoEndpoint THEN <<fallback>> ELSE picked
    IN  FilterHealthyUpstreamEndpoints(tried, unhealthy)
=============================================================================
