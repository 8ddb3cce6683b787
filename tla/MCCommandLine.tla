--------------------------- MODULE MCCommandLine ----------------------------
(***************************************************************************)
(* Two workers and two faults; a name without, with one and with three     *)
(* "www." and headers of up to three lines; one or two sites that claim    *)
(* the same names in every way, or the second beside a default site with a *)
(* plain port of its own, in a route table that is nearly full and in      *)
(* which all routes of a port collide; two threads that load a page with   *)
(* two assets, of which one has a header too large for the buffer.         *)
(***************************************************************************)
EXTENDS CommandLine

MCHosts == {"a", "www.a", "www.www.www.a"}
MCHostParts == [h \in MCHosts |-> <<IF h = "a" THEN 0 ELSE IF h = "www.a" THEN 1 ELSE 3, "a">>]

OwnIp == "10.0.0.1"

MCPorts == {80, 8080, 443}
MCAddresses == {AnyIp, Loopback, OwnIp}

MCArrivals == [ip : {OwnIp}, port : {80, 8080}, tls : {FALSE}, h2 : {FALSE}]
              \cup [ip : {OwnIp}, port : {443}, tls : {TRUE}, h2 : BOOLEAN]

\* Sites with every kind of domain, alias and redirect.
SitesWith(toHttps, serveAs, ssl) ==
    [enabled : {TRUE}, ip : {AnyIp, OwnIp}, http : {80}, https : {443}, ssl : ssl,
     domains : {<<<<0, "a">>>>, <<<<1, "a">>>>, <<<<2, "a">>>>, <<DefaultHost>>,
                <<<<0, "a">>, <<1, "a">>>>},
     www : {"off", "apexToWww", "wwwToApex"}, toHttps : toHttps, serveAs : serveAs]

Disabled == [enabled |-> FALSE, ip |-> AnyIp, http |-> 80, https |-> 443, ssl |-> FALSE,
             domains |-> <<<<0, "a">>>>, www |-> "off", toHttps |-> FALSE,
             serveAs |-> "http"]

\* Default sites with a plain port of their own.
Defaults ==
    [enabled : {TRUE}, ip : {AnyIp}, http : {8080}, https : {443}, ssl : {TRUE},
     domains : {<<DefaultHost>>}, www : {"off", "apexToWww", "wwwToApex"},
     toHttps : BOOLEAN, serveAs : {"http", "https"}]

MCSiteLists ==
    {<<s>> : s \in SitesWith(BOOLEAN, {"http", "https"}, BOOLEAN)}
    \cup {<<Disabled, s>> : s \in SitesWith({FALSE}, {"http"}, {TRUE})}
    \cup {<<s, t>> : s \in SitesWith(BOOLEAN, {"https"}, {TRUE}),
                     t \in SitesWith(BOOLEAN, {"http"}, {TRUE})}
    \cup {<<s, t>> : s \in Defaults, t \in SitesWith(BOOLEAN, {"http"}, {TRUE})}

MCHash == [route \in Routes |-> IF route.port = 80 THEN 5 ELSE 2]

MCHeaderLen == [a \in 0..2 |-> IF a = 2 THEN 4 ELSE 2]
MCBodyLen == [a \in 0..2 |-> 2]
=============================================================================
