--------------------------- MODULE Configuration ----------------------------
(***************************************************************************)
(* The reader of server.yml and sites.yml (src/src/config.c).  A file is   *)
(* read line by line.  Four spaces make a level; `stack` remembers the key *)
(* last read at each level, and a chain of tests on the key and on the     *)
(* names in the stack decides which field of the configuration a value is  *)
(* stored in: the first test that holds wins, and stack[level] is then     *)
(* still the PREVIOUS line of that level.                                  *)
(*                                                                         *)
(* Documents are those of the documented schema, their lines in any order, *)
(* with any of them missing or repeated.  `open` is where such a document  *)
(* stands, by its indentation.  A value is empty, good, or bad for a field *)
(* that is parsed strictly; a field is named by its path in the schema, as *)
(* the messages of apply_bool_value and apply_port_value name it.          *)
(***************************************************************************)
EXTENDS Integers, Sequences, FiniteSets, SequencesExt

CONSTANT MaxSites   \* RPSIOD_MAX_SITES

ASSUME ConfigurationAssumption == MaxSites \in Nat \ {0}

VARIABLES
    file,       \* the file being read, or how reading ended
    stack,      \* yaml_stack_item stack[32]
    open,       \* the keys that enclose the next line, outermost first
    siteCount,  \* cfg->site_count
    applied     \* the last line: its path, its value, the field it was stored in

configVars == <<file, stack, open, siteCount, applied>>

\* The deepest level of the schema (the code keeps 32).
Levels == 0..5

NoField == <<>>

-----------------------------------------------------------------------------
(* The chains of tests.  under: path_has, parent: parent_is, level: the     *)
(* level the line must have; strict: a value that does not parse is an      *)
(* error, otherwise the old value stays.                                    *)

Text(under, field) == [under |-> under, field |-> field, key |-> Last(field),
                       parent |-> "", level |-> -1, strict |-> FALSE]

Strict(under, field) == [Text(under, field) EXCEPT !.strict = TRUE]

\* apply_server_value
ServerRules == <<
    [Text({}, <<"name">>) EXCEPT !.parent = "server"],
    Text({}, <<"environment">>),
    Text({"linux"}, <<"linux", "user">>),
    Text({"linux"}, <<"linux", "group">>),
    Text({}, <<"linux", "pidFile">>),
    Strict({}, <<"linux", "sockets", "reusePort">>),
    Strict({}, <<"linux", "sockets", "tcpFastOpen">>),
    Text({}, <<"linux", "sockets", "backlog">>),
    Text({}, <<"linux", "limits", "openFiles">>),
    Text({}, <<"linux", "limits", "maxProcesses">>),
    Text({}, <<"performance", "workers">>),
    Text({}, <<"performance", "maxConnections">>),
    Strict({"keepAlive"}, <<"performance", "keepAlive", "enabled">>),
    Text({"keepAlive"}, <<"performance", "keepAlive", "timeout">>),
    Text({}, <<"performance", "keepAlive", "maxRequests">>),
    Text({}, <<"performance", "buffers", "requestHeader">>),
    Text({"buffers"}, <<"performance", "buffers", "response">>),
    Strict({}, <<"performance", "staticFiles", "sendfile">>),
    Strict({}, <<"performance", "staticFiles", "readAhead">>),
    Strict({"openFileCache"}, <<"performance", "openFileCache", "enabled">>),
    Text({"openFileCache"}, <<"performance", "openFileCache", "maxFiles">>),   \* or "max"
    Strict({}, <<"security", "hideVersion">>),
    Strict({}, <<"security", "dropPrivileges">>),
    Strict({}, <<"security", "preventCoreDumps">>),
    Strict({"chroot"}, <<"security", "chroot", "enabled">>),
    Text({"chroot"}, <<"security", "chroot", "path">>),
    Text({"logging"}, <<"logging", "level">>),
    Text({"logging"}, <<"logging", "format">>),
    Strict({"access"}, <<"logging", "access", "enabled">>),
    Text({"access"}, <<"logging", "access", "path">>),
    Strict({"error"}, <<"logging", "error", "enabled">>),
    Text({"error"}, <<"logging", "error", "path">>),
    Strict({"benchmarks"}, <<"benchmarks", "enabled">>),
    Text({"benchmarks"}, <<"benchmarks", "listen", "ip">>),
    Strict({"benchmarks"}, <<"benchmarks", "listen", "port">>),
    Text({"storage"}, <<"benchmarks", "storage", "path">>),
    Text({}, <<"config", "sitesFile">>) >>

\* Keys that stand for a class: "404" for keys that begin with a digit,
\* "X-Header" for the names of configured headers.
SiteRules == <<
    Text({}, <<"name">>),
    [Strict({}, <<"enabled">>) EXCEPT !.level = 2],
    Text({}, <<"serveAs">>),
    Text({"listen"}, <<"listen", "ip">>),
    Strict({"ports"}, <<"listen", "ports", "http">>),
    Strict({"ports"}, <<"listen", "ports", "https">>),
    Text({"routing"}, <<"routing", "type">>),
    Strict({"redirects"}, <<"redirects", "httpToHttps">>),
    Strict({"www", "redirects"}, <<"redirects", "www", "enabled">>),
    Text({"www", "redirects"}, <<"redirects", "www", "mode">>),
    Text({"www", "redirects"}, <<"redirects", "www", "status">>),
    Strict({"ssl"}, <<"ssl", "enabled">>),
    Text({"ssl"}, <<"ssl", "mode">>),
    Text({"ssl"}, <<"ssl", "provider">>),
    Text({"ssl"}, <<"ssl", "email">>),
    Text({"ssl"}, <<"ssl", "storage">>),
    Text({"ssl"}, <<"ssl", "challenge">>),
    Text({"ssl"}, <<"ssl", "renewBefore">>),
    Text({"static"}, <<"static", "root">>),
    Text({"static"}, <<"static", "fallback">>),
    Strict({}, <<"static", "directoryListing">>),
    Strict({"maintenance"}, <<"maintenance", "enabled">>),
    Text({"maintenance"}, <<"maintenance", "status">>),
    Text({"maintenance"}, <<"maintenance", "page">>),
    Text({"pages"}, <<"errors", "pages", "404">>),
    Text({"limits", "php"}, <<"php", "limits", "maxBodySize">>),
    Text({}, <<"security", "maxBodySize">>),
    Strict({}, <<"security", "hideServerHeader">>),
    Strict({}, <<"security", "allowSymlinks">>),
    Strict({"php"}, <<"php", "enabled">>),
    Text({"handler", "php"}, <<"php", "handler", "type">>),
    Text({"handler", "php"}, <<"php", "handler", "socket">>),
    Text({"handler", "php"}, <<"php", "handler", "host">>),
    Strict({"handler", "php"}, <<"php", "handler", "port">>),
    Strict({"security", "php"}, <<"php", "security", "allowPathInfo">>),
    Text({"timeouts", "php"}, <<"php", "timeouts", "connect">>),
    Text({"timeouts", "php"}, <<"php", "timeouts", "read">>),
    Text({"timeouts", "php"}, <<"php", "timeouts", "write">>),
    Text({"limits", "php"}, <<"php", "limits", "maxExecutionTime">>),
    Strict({"rateLimit"}, <<"limits", "rateLimit", "enabled">>),
    Text({"rateLimit"}, <<"limits", "rateLimit", "requests">>),
    Text({"rateLimit"}, <<"limits", "rateLimit", "window">>),
    Strict({"compression"}, <<"compression", "enabled">>),
    Text({"compression"}, <<"compression", "minimumSize">>),
    Strict({"cache"}, <<"cache", "enabled">>),
    Text({"cache"}, <<"cache", "default">>),
    [Text({"headers", "add"}, <<"headers", "add", "X-Header">>) EXCEPT !.key = ""],
    Text({"upstream", "proxy"}, <<"proxy", "upstream", "scheme">>),
    Text({"upstream", "proxy"}, <<"proxy", "upstream", "host">>),
    Strict({"upstream", "proxy"}, <<"proxy", "upstream", "port">>),
    Strict({"proxy"}, <<"proxy", "websocket">>),
    Strict({"headers", "proxy"}, <<"proxy", "headers", "passHost">>),
    Strict({"headers", "proxy"}, <<"proxy", "headers", "realIp">>),
    Strict({"headers", "proxy"}, <<"proxy", "headers", "forwardedFor">>),
    Strict({"headers", "proxy"}, <<"proxy", "headers", "forwardedProto">>),
    Text({"timeouts", "proxy"}, <<"proxy", "timeouts", "connect">>),
    Text({"timeouts", "proxy"}, <<"proxy", "timeouts", "read">>),
    Text({"timeouts", "proxy"}, <<"proxy", "timeouts", "write">>),
    Strict({"healthCheck", "proxy"}, <<"proxy", "healthCheck", "enabled">>),
    Text({"healthCheck", "proxy"}, <<"proxy", "healthCheck", "path">>),
    Strict({"access"}, <<"logging", "access", "enabled">>),
    Text({"access"}, <<"logging", "access", "path">>),
    Strict({"error"}, <<"logging", "error", "enabled">>),
    Text({"error"}, <<"logging", "error", "path">>) >>

\* SITE_LIST_RULES, for lines that begin with "-".  The lists have a capacity; a
\* value for a full list is dropped.
SiteListRules == <<
    [Text({}, <<"match", "domains">>) EXCEPT !.parent = "domains", !.key = ""],
    [Text({}, <<"static", "index">>) EXCEPT !.parent = "index", !.key = ""],
    [Text({}, <<"security", "allowedMethods">>) EXCEPT !.parent = "allowedMethods", !.key = ""],
    [Text({}, <<"php", "security", "blockDirectAccess">>)
        EXCEPT !.parent = "blockDirectAccess", !.key = ""],
    [Text({"headers"}, <<"headers", "remove">>) EXCEPT !.parent = "remove", !.key = ""],
    [Strict({"compression"}, <<"compression", "algorithms">>)
        EXCEPT !.parent = "algorithms", !.key = ""] >>

-----------------------------------------------------------------------------
(* The documented schema (config/server.yml, config/sites.yml).             *)

Fields(rules) == {rules[i].field : i \in DOMAIN rules}

\* Documented, and read by no line of the code.
Unread == {<<"server", "benchmarks", "default", "duration">>,
           <<"server", "benchmarks", "default", "connections">>,
           <<"server", "benchmarks", "default", "threads">>,
           <<"sites", "-", "php", "mode">>}

Lists == {<<"sites", "-">> \o f : f \in Fields(SiteListRules)}

Settings == Unread \cup {<<"server">> \o f : f \in Fields(ServerRules)}
                   \cup {<<"sites", "-">> \o f : f \in Fields(SiteRules)}

\* The keys that may stand below the first `level` of the open ones, and whether
\* one of them opens a mapping or a list.
Enclosing(level) == SubSeq(open, 1, level)

Path(level, key) == Append(Enclosing(level), key)

Children(level) ==
    {p[level + 1] : p \in {q \in Settings \cup Lists :
                              Len(q) > level /\ SubSeq(q, 1, level) = Enclosing(level)}}

Opens(path) == path \notin Settings

-----------------------------------------------------------------------------

\* Mutant: the deeper levels of the stack are not cleared.
StackSet_deeperKept(level, key) == [stack EXCEPT ![level] = key]

\* stack_set
StackSet(level, key) ==
    [l \in Levels |-> IF l < level THEN stack[l] ELSE IF l = level THEN key ELSE ""]

\* path_has and parent_is
PathHas(level, key) == \E l \in 0..level : stack[l] = key

ParentIs(level, key) == level > 0 /\ stack[level - 1] = key

Holds(rule, level, key) ==
    /\ rule.key \in {key, ""}
    /\ \A k \in rule.under : PathHas(level, k)
    /\ rule.parent # "" => ParentIs(level, rule.parent)
    /\ rule.level # -1 => level = rule.level

\* apply_server_value, apply_site_value, apply_site_list_value: the first rule of
\* the chain that holds, if any.
Matching(rules, level, key) == {i \in DOMAIN rules : Holds(rules[i], level, key)}

FirstOf(rules, level, key) ==
    rules[CHOOSE i \in Matching(rules, level, key) :
              \A j \in Matching(rules, level, key) : i <= j]

Stored(rules, level, key, value) ==
    IF value = "" \/ Matching(rules, level, key) = {}
    THEN NoField
    ELSE FirstOf(rules, level, key).field

Refused(rules, level, key) ==
    Matching(rules, level, key) # {} /\ FirstOf(rules, level, key).strict

Line(path, value, field) == [path |-> path, value |-> value, field |-> field]

ConfigInit ==
    /\ file = "server"
    /\ stack = [l \in Levels |-> ""]
    /\ open = <<>>
    /\ siteCount = 0
    /\ applied = Line(<<>>, "", NoField)

\* One `key: value` line; prefix is what the schema puts before a field's name.
KeyLine(rules, prefix, level, key, value) ==
    LET path == Path(level, key)
    IN /\ value = "good" => ~Opens(path)
       /\ applied' = Line(path, value,
                          LET f == Stored(rules, level, key, value)
                          IN IF f = NoField THEN NoField ELSE prefix \o f)
       /\ stack' = StackSet(level, key)
       /\ open' = IF Opens(path) THEN path ELSE Enclosing(level)
       /\ UNCHANGED <<file, siteCount>>

\* A line of server.yml.
ServerLine ==
    /\ file = "server"
    /\ \E level \in 0..Len(open) : \E key \in Children(level) \ {"sites"} :
         \E value \in {"", "good"} :
             KeyLine(ServerRules, <<"server">>, level, key, value)

\* A line of sites.yml that does not begin with "-".
SiteLine ==
    /\ file = "sites"
    /\ \E level \in 0..Len(open) : \E key \in Children(level) \ {"server", "-"} :
         \E value \in {"", "good"} :
             KeyLine(SiteRules, <<"sites", "-">>, level, key, value)

\* A value that apply_bool_value, apply_port_value or apply_compression_algorithm
\* refuses: the whole configuration is refused.
BadValue ==
    /\ \/ /\ file = "server"
          /\ \E level \in 1..Len(open) : \E key \in Children(level) :
               Refused(ServerRules, level, key)
       \/ /\ file = "sites"
          /\ \E level \in 2..Len(open) :
               \/ \E key \in Children(level) : Refused(SiteRules, level, key)
               \/ Enclosing(level) \in Lists /\ Refused(SiteListRules, level, "item")
    /\ file' = "failed"
    /\ UNCHANGED <<stack, open, siteCount, applied>>

\* A file that cannot be opened, or a line without a colon.
BadFile ==
    /\ file \in {"server", "sites"}
    /\ file' = "failed"
    /\ UNCHANGED <<stack, open, siteCount, applied>>

\* "-" at level 1 begins a site with the values of site_defaults; the first key
\* may follow on the same line.  Nothing is put on the stack.
NewSite ==
    /\ file = "sites"
    /\ open # <<>>
    /\ IF siteCount = MaxSites
       THEN file' = "failed" /\ UNCHANGED <<open, siteCount, applied>>
       ELSE /\ siteCount' = siteCount + 1
            /\ open' = <<"sites", "-">>
            /\ \E key \in {"", "name", "enabled", "serveAs"} :
                 applied' = IF key = "" THEN Line(<<>>, "", NoField)
                            ELSE Line(<<"sites", "-", key>>, "good",
                                      <<"sites", "-">> \o Stored(SiteRules, 2, key, "good"))
            /\ UNCHANGED file
    /\ UNCHANGED stack

\* "- value" at another level.
ListItem ==
    /\ file = "sites"
    /\ \E level \in 2..Len(open) :
         /\ Enclosing(level) \in Lists
         /\ open' = Enclosing(level)
         /\ applied' = Line(Enclosing(level), "good",
                            LET f == Stored(SiteListRules, level, "item", "good")
                            IN IF f = NoField THEN NoField ELSE <<"sites", "-">> \o f)
    /\ UNCHANGED <<file, stack, siteCount>>

\* rpsiod_config_load: the end of one file, then of the other.  Without a site the
\* configuration is refused.
EndOfFile ==
    /\ \/ file = "server" /\ file' = "sites"
       \/ file = "sites" /\ file' = IF siteCount > 0 THEN "parsed" ELSE "failed"
    /\ stack' = [l \in Levels |-> ""]
    /\ open' = <<>>
    /\ applied' = Line(<<>>, "", NoField)
    /\ UNCHANGED siteCount

ConfigNext == ServerLine \/ SiteLine \/ NewSite \/ ListItem \/ BadValue \/ BadFile \/ EndOfFile

\* Every value that is read is stored in the field of its own path, whatever lines
\* came before it and in whatever order, and a documented path that the code does
\* not read changes nothing: the tests look at bare key names and at a stack that
\* still holds the previous line of the level, so a field could receive the value
\* of another section.
SettingsReachFields ==
    applied.value = "good" =>
        applied.field = IF applied.path \in Unread THEN NoField ELSE applied.path
=============================================================================
