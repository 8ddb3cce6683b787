--------------------------- MODULE MCServeRequest ---------------------------
(* A site in several configurations: files that change, PHP and blocked     *)
(* files, maintenance with an error page, a rate limit, and copies of files *)
(* that are asked for again.                                                *)
EXTENDS ServeRequest

MCFiles     == {"page", "page.br", "conf", "index.php", "err"}
MCVariantOf == [f \in MCFiles |-> IF f = "page" THEN "page.br" ELSE NoFile]
MCKind      == [f \in MCFiles |-> "reg"] @@
               [p \in {"/", "sub/", "pipes/", "sub", "fifo", "device", "nothing", "bad"} |->
                  CASE p \in {"/", "sub/", "pipes/"} -> "dir" [] p = "sub" -> "dirname"
                    [] p = "fifo" -> "fifo" [] p = "device" -> "other" [] p = "bad" -> "bad"
                    [] OTHER -> "none"]
MCIndexes   == ("/" :> <<"nothing", "index.php", "fifo", "page">>) @@ ("sub/" :> <<"nothing">>)
               @@ ("pipes/" :> <<"nothing", "fifo", "page">>)
MCBucketOf  == [i \in Ips |-> 0]

Get(p) == [method |-> "GET", path |-> p, range |-> NoRange, cond |-> "none", accepts |-> FALSE,
           tls |-> FALSE, known |-> TRUE, secure |-> TRUE, big |-> FALSE]

ByteRange(suffix, start, end) == [suffix |-> suffix, start |-> start, end |-> end, present |-> TRUE]

Plain == [routing |-> "static", php |-> FALSE, fallback |-> NoFile, maintenance |-> FALSE,
          methods |-> {"GET"}, redirect |-> FALSE, errorPages |-> <<>>, limit |-> 0, window |-> 0,
          changes |-> 0, changing |-> {"page"}, until |-> 1, requests |-> {}, clients |-> {"i1"}]

\* Copies and their validators, while the file or its variant changes at some time.
Validated == [Plain EXCEPT
    !.changes = 1, !.changing = {"page", "page.br"}, !.until = 2,
    !.requests = {Get("page"), [Get("page") EXCEPT !.accepts = TRUE],
                  [Get("page") EXCEPT !.range = ByteRange(FALSE, 1, -1)]}
        \cup {[Get("page") EXCEPT !.cond = c] : c \in {"etag", "since"}}]

\* The same of a file that is compressed when it is sent, and changes twice in a
\* second or is given an old mtime.
Compressed == [Plain EXCEPT
    !.changes = 2, !.changing = {"err"},
    !.requests = {[Get("err") EXCEPT !.accepts = TRUE]}
        \cup {[Get("err") EXCEPT !.cond = c] : c \in {"etag", "since"}}]

\* Whole files and ranges of them, while the file changes.
Contents == [Plain EXCEPT
    !.changes = 1,
    !.requests =
        {Get("page"), [Get("page") EXCEPT !.tls = TRUE], [Get("page") EXCEPT !.accepts = TRUE]}
        \cup {[Get("page") EXCEPT !.range = ByteRange(FALSE, i, j)] : i \in {0, 1, 3}, j \in {-1, 1, 3}}
        \cup {[Get("page") EXCEPT !.range = ByteRange(TRUE, n, 0), !.method = "HEAD"] : n \in {2}}
        \cup {[Get("page") EXCEPT !.range = ByteRange(TRUE, n, 0)] : n \in {1, 4}}]

\* Every path, with and without PHP, with fallbacks.
Paths == DOMAIN MCKind

Sites == {k \in {"static", "php", "proxy"} \X BOOLEAN \X {"index.php", "conf", NoFile} :
            k[1] # "static" => (k[2] <=> k[1] = "php")}

Chooses == [k \in Sites |->
             [Plain EXCEPT !.routing = k[1], !.php = k[2], !.fallback = k[3], !.methods = {"GET", "POST"},
                          !.redirect = TRUE,
                          !.requests = {Get(p) : p \in Paths}
                             \cup {[Get("page") EXCEPT !.method = "POST"],
                                   [Get("index.php") EXCEPT !.big = TRUE],
                                   [Get("page") EXCEPT !.method = "TRACE"],
                                   [Get("page") EXCEPT !.method = "PUT"],
                                   [Get("page") EXCEPT !.known = FALSE],
                                   [Get("err") EXCEPT !.accepts = TRUE],
                                   [Get("page") EXCEPT !.secure = FALSE]}]]

Maintained == [Plain EXCEPT !.maintenance = TRUE, !.errorPages = (503 :> "err"),
                            !.requests = {Get("page"), [Get("page") EXCEPT !.method = "HEAD"]}]

Limited == [Plain EXCEPT !.limit = 2, !.window = 2, !.until = 5, !.clients = Ips, !.requests = {Get("bad")}]

MCConfig == (<<"validated">> :> Validated) @@ (<<"compressed">> :> Compressed)
            @@ (<<"contents">> :> Contents) @@ (<<"maintained">> :> Maintained)
            @@ (<<"limited">> :> Limited) @@ Chooses
=============================================================================
