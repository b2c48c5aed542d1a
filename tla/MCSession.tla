----------------------------- MODULE MCSession -----------------------------
(* Worlds small enough to explore sessions completely.                     *)
EXTENDS Session

CONSTANTS s1, s2, e1, e2, h1, h2

\* One host behind one endpoint, to which two connections can be open at once.
OneEp(kinds, n, faults) ==
    [epOf |-> [s \in {s1, s2} |-> e1], addrs |-> [h \in {h1} |-> <<e1>>],
     kinds |-> kinds, reqs |-> n, faults |-> faults]

\* One host with two addresses; the second is tried when the first fails.
TwoAddrs(kinds, n, faults) ==
    [epOf |-> [s \in {s1, s2} |-> IF s = s1 THEN e1 ELSE e2],
     addrs |-> [h \in {h1} |-> <<e1, e2>>],
     kinds |-> kinds, reqs |-> n, faults |-> faults]

\* Two hosts, an endpoint each.
TwoHosts(kinds, n, faults) ==
    [epOf |-> [s \in {s1, s2} |-> IF s = s1 THEN e1 ELSE e2],
     addrs |-> [h \in {h1, h2} |-> IF h = h1 THEN <<e1>> ELSE <<e2>>],
     kinds |-> kinds, reqs |-> n, faults |-> faults]

Methods == {"http", "connect"}

\* Every fault; a closed connection can be replaced while requests listed for it
\* remain.
Hostile == OneEp(Methods, 2, FaultKinds \ {"shutdown"})

\* No server closes or answers badly; nobody closes an established connection.
Unlucky == TwoAddrs(Methods, 2, {"client_close", "dns_fail", "connect_fail", "bad_request"})
Misled  == TwoAddrs(Methods, 3, {"dns_fail", "connect_fail"})

\* Three pipelined requests, nothing fails.
Steady == TwoHosts({"http"}, 3, {})

\* The client goes away, or the proxy is told to stop, at any moment.
Leaving  == TwoHosts({"http"}, 2, {"client_close"})
Stopping == TwoHosts({"http"}, 2, {"shutdown"})

AllWorlds == {Hostile, Unlucky, Misled, Steady, Leaving, Stopping}

\* One disturbance at a time.
Pipelined   == {OneEp({"http"}, 2, {})}
NoAnswer    == {TwoHosts({"http"}, 2, {"dns_fail"})}
ServerGoes  == {OneEp({"http"}, 2, {"server_close"})}
ClientGoes  == {OneEp({"http"}, 2, {"client_close"})}
=============================================================================
