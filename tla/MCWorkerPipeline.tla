-------------------------- MODULE MCWorkerPipeline --------------------------
(***************************************************************************)
(* One connection, every shape of request, pipelined: the buffer, the      *)
(* framing of requests and keep-alive.                                     *)
(***************************************************************************)
EXTENDS WorkerRefinement

\* Shapes around the buffer's limit of 4 units: "post" is one unit short of it,
\* "exact" fills it, "huge" cannot fit.
MCKinds == {"get", "post", "last", "bad", "over", "exact", "huge", "ws"}

MCHeaderLen == [k \in MCKinds |-> IF k \in {"get", "bad"} THEN 2 ELSE 1]

MCBodyLen ==
    [k \in MCKinds |-> CASE k = "post"  -> 2
                         [] k = "over"  -> 1
                         [] k = "exact" -> BufSize - 1
                         [] k = "huge"  -> BufSize
                         [] OTHER       -> 0]
=============================================================================
