------------------------------ MODULE Routing -------------------------------
(***************************************************************************)
(* Which site answers a request, and where it is redirected: the route     *)
(* table (build_route_table, lookup_route, src/src/config.c), the redirect *)
(* of rpsiod_route_build_redirect_location (src/src/route.c), and the      *)
(* requests an HTTP/2 connection sends to the server's own http port       *)
(* (src/src/http2.c), followed by a browser that does as it is told.       *)
(*                                                                         *)
(* A host is <<www, name>>: its name and how often "www." comes before it. *)
(* No port is plain for one site and TLS for another: of two listeners for *)
(* one address and port, add_listeners keeps only the first.               *)
(***************************************************************************)
EXTENDS Integers, Sequences, FiniteSets, SequencesExt

CONSTANTS
    SiteLists,   \* sequences of sites, as sites.yml may define them
    Names,       \* host names that do not begin with "www."
    MaxWww,      \* how often "www." may come before one: a Host has at most 255 bytes
    Ports,
    Addresses,   \* the addresses to listen on
    TableSize,   \* RPSIOD_ROUTE_TABLE_SIZE
    Hash         \* route_hash_key of each route, modulo TableSize

AnyIp == "0.0.0.0"
Loopback == "127.0.0.1"
DefaultHost == <<0, "*">>

HostNames == (0..MaxWww) \X Names

Slots == 0..(TableSize - 1)

\* A domain of a site: a host, or "*" (explicit_default_domain).
Domains == HostNames \cup {DefaultHost}

\* The keys of the route table.
Routes == [host : Domains, port : Ports, ip : Addresses]

Sites == [enabled : BOOLEAN, ip : Addresses, http : Ports, https : Ports, ssl : BOOLEAN,
          domains : Seq(Domains), www : {"off", "apexToWww", "wwwToApex"},
          toHttps : BOOLEAN, serveAs : {"http", "https"}]

ASSUME RoutingAssumption ==
    /\ TableSize \in Nat \ {0} /\ MaxWww \in Nat \ {0}
    /\ Hash \in [Routes -> Slots]
    /\ "*" \notin Names /\ {AnyIp, Loopback} \subseteq Addresses
    /\ \A list \in SiteLists :
         /\ list \in Seq(Sites)
         /\ \A i, j \in DOMAIN list : list[i].http # list[j].https

VARIABLES
    sites,    \* cfg->sites
    table,    \* cfg->route_table
    asked,    \* the request under way
    hops,     \* redirects followed so far, up to ManyHops
    outcome   \* "none" before the table is built, then how the request stands

routeVars == <<sites, table, asked, hops, outcome>>

Free == [used |-> FALSE]

\* A request: its host, the address and port it comes to, over TLS or not, as HTTP/2
\* or not, the address the browser knows, whether the client is 127.0.0.1, and
\* internal_https.
Nothing == [host |-> DefaultHost, port |-> 0, ip |-> AnyIp, tls |-> FALSE, h2 |-> FALSE,
            origin |-> AnyIp, local |-> FALSE, internal |-> FALSE]

\* Bound: this many redirects stand for all that are more.
ManyHops == 3 + MaxWww

More(n) == IF n < ManyHops THEN n + 1 ELSE n

-----------------------------------------------------------------------------
(* The two hosts of a www rule.                                            *)

\* apexToWww puts "www." before a host that does not begin with it; wwwToApex takes
\* one off a host that does, whatever follows.
Flips(site, host) ==
    \/ site.www = "apexToWww" /\ host[1] = 0
    \/ site.www = "wwwToApex" /\ host[1] > 0

Other(host) == <<IF host[1] = 0 THEN 1 ELSE host[1] - 1, host[2]>>

-----------------------------------------------------------------------------
(* build_route_table.                                                       *)

Route(host, port, ip) == [host |-> host, port |-> port, ip |-> ip]

\* The hosts a domain stands for: itself and the one that is redirected to it.
HostsOf(site, domain) ==
    IF domain # DefaultHost /\ Flips(site, domain) THEN <<domain, Other(domain)>> ELSE <<domain>>

\* The calls of add_route_entry for the sites, in order.
RoutesOf(list, i) ==
    LET site == list[i]
        hosts == FlattenSeq([d \in DOMAIN site.domains |-> HostsOf(site, site.domains[d])])
        Of(host) == <<[route |-> Route(host, site.http, site.ip), site |-> i],
                      [route |-> Route(host, site.https, site.ip), site |-> i]>>
    IN IF site.enabled THEN FlattenSeq([h \in DOMAIN hosts |-> Of(hosts[h])]) ELSE <<>>

AllRoutes(list) == FlattenSeq([i \in DOMAIN list |-> RoutesOf(list, i)])

\* Linear probing: the slots from `start` on, each once.
Probe(start, n) == (start + n) % TableSize

\* The first probe that meets a free slot or the route itself; TableSize if none.
Stop(t, route) ==
    LET stops == {n \in Slots : LET e == t[Probe(Hash[route], n)]
                                IN ~e.used \/ e.route = route}
    IN IF stops = {} THEN TableSize
       ELSE CHOOSE n \in stops : \A m \in stops : n <= m

\* -1: no table, because two sites claim a route or it is full.
Failed == <<>>

\* add_route_entry
AddRouteEntry(t, r) ==
    LET n == Stop(t, r.route)
        slot == Probe(Hash[r.route], n)
    IN IF t = Failed \/ n = TableSize THEN Failed
       ELSE IF ~t[slot].used
       THEN [t EXCEPT ![slot] = [used |-> TRUE, route |-> r.route, site |-> r.site]]
       ELSE IF t[slot].site = r.site THEN t ELSE Failed

BuildRouteTable(list) ==
    LET routes == AllRoutes(list)
        built[n \in 0..Len(routes)] ==
            IF n = 0 THEN [s \in Slots |-> Free] ELSE AddRouteEntry(built[n - 1], routes[n])
    IN built[Len(routes)]

-----------------------------------------------------------------------------
(* Lookup.  0 is NULL.                                                      *)

LookupRoute(route) ==
    LET n == Stop(table, route)
        e == table[Probe(Hash[route], n)]
    IN IF n = TableSize \/ ~e.used THEN 0 ELSE e.site

FirstFound(results) == IF \E n \in DOMAIN results : results[n] # 0
                       THEN results[CHOOSE n \in DOMAIN results :
                              results[n] # 0 /\ \A m \in 1..(n - 1) : results[m] = 0]
                       ELSE 0

\* Mutant: a default site on the address comes before a named one on all.
FindSite_defaultFirst(host, port, ip) ==
    FirstFound(<<LookupRoute(Route(host, port, ip)),
                 LookupRoute(Route(DefaultHost, port, ip)),
                 LookupRoute(Route(host, port, AnyIp)),
                 LookupRoute(Route(DefaultHost, port, AnyIp))>>)

\* rpsiod_config_find_site_for_listener
FindSite(host, port, ip) ==
    FirstFound(<<LookupRoute(Route(host, port, ip)),
                 LookupRoute(Route(host, port, AnyIp)),
                 LookupRoute(Route(DefaultHost, port, ip)),
                 LookupRoute(Route(DefaultHost, port, AnyIp))>>)

-----------------------------------------------------------------------------
(* Redirects.                                                               *)

\* Mutant: internal_https is never believed.
Suppressed_never(r) == FALSE

\* serve_request: internal_https counts only when the client is 127.0.0.1.
Suppressed(r) == r.internal /\ r.local

ToHttps(site, r) == ~Suppressed(r) /\ site.toHttps /\ r.port = site.http

\* Where a browser goes that is sent to the location: scheme, host and port of the
\* site, at the address it has reached before (origin).
Location(site, r) ==
    LET https == ToHttps(site, r) \/ site.serveAs = "https"
    IN [r EXCEPT !.host = IF Flips(site, r.host) THEN Other(r.host) ELSE r.host,
                 !.port = IF https THEN site.https ELSE site.http,
                 !.tls = https, !.ip = r.origin, !.local = FALSE, !.internal = FALSE]

\* add_listeners: a plain listener for every site and a TLS one where it is enabled.
Plain(ip, port) == \E i \in DOMAIN sites :
    sites[i].enabled /\ sites[i].http = port /\ sites[i].ip \in {AnyIp, ip}

Tls(ip, port) == \E i \in DOMAIN sites :
    sites[i].enabled /\ sites[i].ssl /\ sites[i].https = port /\ sites[i].ip \in {AnyIp, ip}

-----------------------------------------------------------------------------

RouteInit ==
    /\ sites = <<>> /\ table = [s \in Slots |-> Free]
    /\ asked = Nothing /\ hops = 0 /\ outcome = "none"

\* A configuration is validated and the browser sends a request.
LoadRoutes(list, r) ==
    /\ outcome = "none"
    /\ sites' = list
    /\ LET built == BuildRouteTable(list)
       IN IF built = Failed
          THEN outcome' = "rejected" /\ UNCHANGED <<table, asked>>
          ELSE outcome' = "asked" /\ table' = built /\ asked' = r
    /\ UNCHANGED hops

\* Nobody listens, or not with this protocol.
Refuse ==
    /\ outcome = "asked"
    /\ ~(IF asked.tls THEN Tls(asked.ip, asked.port) ELSE Plain(asked.ip, asked.port))
    /\ outcome' = "refused"
    /\ UNCHANGED <<sites, table, asked, hops>>

\* An HTTP/2 stream: the request goes to the http port of its site on 127.0.0.1.
AskLoopback ==
    /\ outcome = "asked" /\ asked.tls /\ asked.h2
    /\ Tls(asked.ip, asked.port)
    /\ LET i == FindSite(asked.host, asked.port, asked.ip)
       IN IF i = 0 THEN outcome' = "bad gateway" /\ UNCHANGED asked
          ELSE /\ asked' = [asked EXCEPT !.ip = Loopback, !.port = sites[i].http,
                                         !.tls = FALSE, !.local = TRUE, !.internal = TRUE]
               /\ UNCHANGED outcome
    /\ UNCHANGED <<sites, table, hops>>

\* serve_request up to the point where a site answers.
ServeHere ==
    /\ outcome = "asked"
    /\ IF asked.tls THEN ~asked.h2 /\ Tls(asked.ip, asked.port) ELSE Plain(asked.ip, asked.port)
    /\ LET i == FindSite(asked.host, asked.port, asked.ip)
       IN IF i = 0 THEN outcome' = "not found" /\ UNCHANGED <<asked, hops>>
          ELSE IF ToHttps(sites[i], asked) \/ Flips(sites[i], asked.host)
          THEN asked' = Location(sites[i], asked) /\ hops' = More(hops) /\ UNCHANGED outcome
          ELSE outcome' = "served" /\ UNCHANGED <<asked, hops>>
    /\ UNCHANGED <<sites, table>>

RouteSteps == Refuse \/ AskLoopback \/ ServeHere

-----------------------------------------------------------------------------
(* What sites.yml declares, without a table.                                *)

Claims(list) == ToSet(AllRoutes(list))

Conflict(list) == LET claims == Claims(list)
                  IN \E a, b \in claims : a.route = b.route /\ a.site # b.site

Overfull(list) == Cardinality({c.route : c \in Claims(list)}) > TableSize

\* The sites that claim a route: at most one in a configuration that is accepted.
Claimants(claims, route) == {c.site : c \in {d \in claims : d.route = route}}

\* For every route of the table, whatever collides with it: a configuration is refused
\* exactly when two sites claim the same route or the table is too small, and
\* otherwise a request goes to the site that claims its host on the address it came
\* to, else on every address, else to the default site in the same order.
RoutedAsDeclared ==
    /\ outcome = "rejected" => Conflict(sites) \/ Overfull(sites)
    /\ outcome \notin {"none", "rejected"} =>
         /\ ~Conflict(sites) /\ ~Overfull(sites)
         /\ LET claims == Claims(sites)
                ranks == <<Claimants(claims, Route(asked.host, asked.port, asked.ip)),
                           Claimants(claims, Route(asked.host, asked.port, AnyIp)),
                           Claimants(claims, Route(DefaultHost, asked.port, asked.ip)),
                           Claimants(claims, Route(DefaultHost, asked.port, AnyIp))>>
                i == FindSite(asked.host, asked.port, asked.ip)
            IN IF \A n \in 1..4 : ranks[n] = {} THEN i = 0
               ELSE \E n \in 1..4 : ranks[n] = {i} /\ \A m \in 1..(n - 1) : ranks[m] = {}

\* All enabled sites listen on the same address.  Otherwise an HTTP/2 request of a site
\* with an address of its own is answered by whatever site listens on 127.0.0.1, and
\* the www redirects of the two may send a browser to and fro for ever.
OneAddress == \A i, j \in DOMAIN sites :
    sites[i].enabled /\ sites[j].enabled => sites[i].ip = sites[j].ip

\* No site names a host that begins with "www." twice.  Otherwise one with wwwToApex
\* that names www.www.a sends a browser to www.a, which is its own too, and from there
\* to a, and a default site with apexToWww back to www.a, for ever.
OneWww == \A i \in DOMAIN sites : \A d \in DOMAIN sites[i].domains :
    sites[i].enabled => sites[i].domains[d][1] <= 1

\* A browser is redirected at most two times more than a host may begin with "www.": a
\* default site may take one "www." off after the other and send it on to a site that
\* claims the name, and that to the other host name and to https.  The requests HTTP/2
\* sends to the plain port must not be sent back to https, and the site a redirect
\* leads to must agree with the one that gave it.
RedirectsEnd == OneAddress /\ OneWww => hops <= 2 + MaxWww
=============================================================================
