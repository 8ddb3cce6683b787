---------------------------- MODULE CommandLine -----------------------------
(***************************************************************************)
(* main (src/src/main.c): the first argument decides what the process      *)
(* does.  configtest reads the configuration, serve starts the workers     *)
(* and their TLS contexts, bench loads a page.  trace sends a request to a *)
(* running server and follows it through the request parser to the site    *)
(* that answers it; the requests of other clients take the same way.       *)
(***************************************************************************)
EXTENDS Configuration, TlsStart, HttpRequest, Routing, PageBench

CONSTANTS
    HostParts,   \* the host name <<www, name>> of each text the parser accepts
    Arrivals     \* where and how a request may come in: ip, port, tls, h2

ASSUME CommandLineAssumption ==
    /\ HostParts \in [Hosts -> HostNames]
    /\ Arrivals \subseteq [ip : Addresses, port : Ports, tls : BOOLEAN, h2 : BOOLEAN]

VARIABLE command   \* argv[1]

vars == <<command, configVars, tlsVars, parseVars, routeVars, benchVars>>

Init ==
    /\ command \in {"configtest", "serve", "trace", "bench"}
    /\ ConfigInit /\ TlsInit /\ ParseInit /\ RouteInit /\ BenchInit
    /\ command # "serve" => cert = "absent"

\* Bound: accepted headers that differ only in lines which routing does not look at
\* are routed once.
Routable ==
    /\ verdict = "accepted" /\ first = [version |-> "1.1", authority |-> NoHost]
    /\ \A i \in DOMAIN lines : lines[i].name \in {"Host", "X-Rpsiod-Internal-Scheme"}
    /\ Len(lines) <= 2

\* The request that was parsed goes to serve_request; the next one starts afresh.
RouteRequest ==
    /\ Routable
    /\ \E list \in SiteLists, a \in Arrivals :
         LoadRoutes(list, [host |-> HostParts[httpReq.host], port |-> a.port, ip |-> a.ip,
                           tls |-> a.tls, h2 |-> a.h2, origin |-> a.ip, local |-> FALSE,
                           internal |-> httpReq.internal])
    /\ lines' = <<>> /\ have' = NothingYet /\ verdict' = "idle"
    /\ httpReq' = EmptyRequest(TRUE)
    /\ UNCHANGED first

\* rpsiod_configtest_main, and the start of every command that loads the files.
Configtest ==
    /\ command = "configtest" /\ ConfigNext
    /\ UNCHANGED <<command, tlsVars, parseVars, routeVars, benchVars>>

Serve ==
    /\ command = "serve" /\ TlsNext
    /\ UNCHANGED <<command, configVars, parseVars, routeVars, benchVars>>

Trace ==
    /\ command = "trace"
    /\ \/ outcome = "none" /\ ParseNext /\ UNCHANGED routeVars
       \/ RouteRequest
       \/ RouteSteps /\ UNCHANGED parseVars
    /\ UNCHANGED <<command, configVars, tlsVars, benchVars>>

Bench ==
    /\ command = "bench" /\ BenchNext
    /\ UNCHANGED <<command, configVars, tlsVars, parseVars, routeVars>>

Next == Configtest \/ Serve \/ Trace \/ Bench

Spec == Init /\ [][Next]_vars
=============================================================================
