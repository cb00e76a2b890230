----------------------------- MODULE MCResolver -----------------------------
(* Server lists for the model-checking runs of Resolver. *)
EXTENDS Resolver, TLC

CONSTANTS e1, e2

Server(e)      == [ep |-> e, fb |-> NoEndpoint, active |-> TRUE, white |-> "none"]
List(rows, fb) == [rows |-> rows, fallback |-> fb]

One    == {List(<<Server(e1)>>, NoEndpoint)}
Two    == {List(<<Server(e1), Server(e2)>>, NoEndpoint)}
None   == {List(<<>>, NoEndpoint)}
UpTo2  == None \cup One \cup Two \cup {List(<<>>, e1)}
NoOr2  == None \cup Two

Set(cacheOn, stale, strict) == [cacheOn |-> cacheOn, stale |-> stale, strict |-> strict]

Plain      == {Set(TRUE, TRUE, FALSE)}
OffOrPlain == Plain \cup {Set(FALSE, FALSE, FALSE)}
WithStrict == Plain \cup {Set(TRUE, FALSE, TRUE)}
=============================================================================
