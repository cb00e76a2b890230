---------------------------- MODULE MCUpstreams ----------------------------
(* Server lists for the model-checking runs of Upstreams. *)
EXTENDS Upstreams, TLC

CONSTANTS e1, e2

Server(e) == [ep |-> e, fb |-> NoEndpoint, active |-> TRUE, white |-> "none"]

\* A first server of any kind in front of a server for all names.
MixedLists == {<<r, Server(e2)>> : r \in {r \in Row : r.ep = e1 /\ r.fb # e1}}
AddSecond  == {[Server(e2) EXCEPT !.white = "match"]}
=============================================================================
