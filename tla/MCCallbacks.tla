------------------------------ MODULE MCCallbacks ------------------------------
(***************************************************************************)
(* Request 1 is any of Valid, and any combination of fields that break their  *)
(* rule by one; request 2 is a gRPC task for the URL request 1 may use too.   *)
(***************************************************************************)
EXTENDS Callbacks

MCRunes == [empty |-> 0, one |-> 1, full |-> 255, long |-> 256]

Base == [via |-> "grpc", trace |-> <<"client">>, garbled |-> FALSE, schema |-> "GRPC",
         host |-> "url", result |-> "none", url |-> "one", path |-> "full",
         delay |-> 15, timeout |-> 3600, backoff |-> <<5>>]

Grpc == {[Base EXCEPT !.backoff = b, !.delay = d] : b \in {<<>>, <<5>>, <<60>>}, d \in {15, 16}}
Http == {[Base EXCEPT !.schema = "HTTP", !.host = h, !.via = "http", !.backoff = b] :
           h \in {"url", "plain", "http"}, b \in {<<5>>, <<60, 5>>}}
Fmt == {[Base EXCEPT !.schema = "FMT", !.result = t, !.delay = 86400, !.trace = <<>>] :
           t \in {"none", "SUCCESS", "other"}}
Parked == {[Base EXCEPT !.delay = 0], [Base EXCEPT !.backoff = <<0>>]}
Edge == {[Base EXCEPT !.schema = "HTTPS", !.url = "full", !.path = "one", !.timeout = 0,
                      !.backoff = [i \in 1 .. 20 |-> 0]]}
Garbled == {[Base EXCEPT !.garbled = TRUE, !.via = v] : v \in {"grpc", "http"}}
Wrong == {[Base EXCEPT !.schema = s, !.url = u, !.path = p, !.delay = d, !.timeout = t,
                       !.backoff = b] :
            s \in {"GRPC", "http"}, u \in {"one", "long", "empty"}, p \in {"full", "empty", "long"},
            d \in {15, -1, 86401}, t \in {3600, -1, 3601},
            b \in {<<5>>, [i \in 1 .. 21 |-> 5]}}

First == Grpc \cup Http \cup Fmt \cup Parked \cup Edge \cup Garbled \cup Wrong
MCInputs == {<<q, [Base EXCEPT !.trace = <<>>]>> : q \in First}
=============================================================================
