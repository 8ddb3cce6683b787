------------------------------ MODULE TlsStart ------------------------------
(***************************************************************************)
(* The start of the worker processes of a server that has a site with      *)
(* ssl.enabled and ssl.mode "auto": rpsiod_tls_create_context (src/src/    *)
(* tls.c), called by every worker before it listens.  The workers share    *)
(* cert.pem and key.pem in ssl.storage and no lock.  A worker without a    *)
(* context fails in add_listeners and exits; the parent forks it again.    *)
(*                                                                         *)
(* A file is absent, empty (truncated and not yet written) or holds what   *)
(* some worker generated: the text of a PEM file fits into one buffer of   *)
(* stdio and reaches the file in one write, at fclose.  A worker generates *)
(* at most one pair that reaches the files, so its name stands for it.     *)
(***************************************************************************)
EXTENDS Integers, FiniteSets

CONSTANTS
    Workers,    \* worker processes; more than one, else there is no parent
    MaxFaults   \* bound: workers killed, files not opened, writes that fail (disk full)

ASSUME TlsStartAssumption ==
    /\ IsFiniteSet(Workers)
    /\ Workers \cap {"absent", "empty", "operator"} = {}
    /\ MaxFaults \in Nat

VARIABLES
    cert, key,   \* the contents of the two files
    pc,          \* where each worker is
    round,       \* how often it has begun to read the pair
    seen,        \* what it last read of the two files, or of their existence
    faults

tlsVars == <<cert, key, pc, round, seen, faults>>

Content == {"absent", "empty", "operator"} \cup Workers

PCs == {"certExists", "keyExists", "useCert", "useKey", "certReadable",
        "keyReadable", "openKey", "writeKey", "openCert", "writeCert",
        "serving", "exited"}

\* Type correctness of the files and of each worker's progress.
TlsTypeOK ==
    /\ cert \in Content /\ key \in Content
    /\ pc \in [Workers -> PCs]
    /\ round \in [Workers -> 0..3]
    /\ seen \in [Workers -> [cert : Content, key : Content]]
    /\ faults \in 0..MaxFaults

TlsInit ==
    /\ cert \in {"absent", "operator"}
    /\ key = cert
    /\ pc = [w \in Workers |-> "certExists"]
    /\ round = [w \in Workers |-> 0]
    /\ seen = [w \in Workers |-> [cert |-> "absent", key |-> "absent"]]
    /\ faults = 0

Goto(w, there) == pc' = [pc EXCEPT ![w] = there]

\* access(cert_path), access(key_path): both must exist or neither.
CertExists(w) ==
    /\ pc[w] = "certExists"
    /\ seen' = [seen EXCEPT ![w].cert = cert]
    /\ Goto(w, "keyExists")
    /\ UNCHANGED <<cert, key, round, faults>>

KeyExists(w) ==
    /\ pc[w] = "keyExists"
    /\ seen' = [seen EXCEPT ![w].key = key]
    /\ LET certThere == seen[w].cert # "absent"
           keyThere == key # "absent"
       IN Goto(w, IF certThere # keyThere THEN "exited"
                  ELSE IF certThere THEN "useCert" ELSE "certReadable")
    /\ round' = [round EXCEPT ![w] = 1]
    /\ UNCHANGED <<cert, key, faults>>

\* SSL_CTX_use_certificate_chain_file
UseCert(w) ==
    /\ pc[w] = "useCert"
    /\ seen' = [seen EXCEPT ![w].cert = cert]
    /\ Goto(w, IF cert \in {"absent", "empty"} THEN "exited" ELSE "useKey")
    /\ UNCHANGED <<cert, key, round, faults>>

\* Mutant: the key is not compared with the certificate.
KeyFits_unchecked(c, k) == k \notin {"absent", "empty"}

\* SSL_CTX_use_PrivateKey_file and SSL_CTX_check_private_key
KeyFits(c, k) == c = k

\* The pair is read three times: by validate_material if it exists, by
\* validate_tls_pair once it must, and into the context that will serve.
AfterPair(n) ==
    CASE n = 1 -> "certReadable"
      [] n = 2 -> "useCert"
      [] n = 3 -> "serving"

UseKey(w) ==
    /\ pc[w] = "useKey"
    /\ seen' = [seen EXCEPT ![w].key = key]
    /\ Goto(w, IF KeyFits(seen[w].cert, key) THEN AfterPair(round[w]) ELSE "exited")
    /\ round' = [round EXCEPT ![w] = IF @ < 3 THEN @ + 1 ELSE @]
    /\ UNCHANGED <<cert, key, faults>>

\* The second access in ensure_auto_certificate, for R_OK; a file that is not
\* there is generated together with the other one.
CertReadable(w) ==
    /\ pc[w] = "certReadable"
    /\ Goto(w, IF cert # "absent" THEN "keyReadable" ELSE "openKey")
    /\ round' = [round EXCEPT ![w] = 2]
    /\ UNCHANGED <<cert, key, seen, faults>>

KeyReadable(w) ==
    /\ pc[w] = "keyReadable"
    /\ Goto(w, IF key # "absent" THEN "useCert" ELSE "openKey")
    /\ UNCHANGED <<cert, key, round, seen, faults>>

\* open with O_CREAT and O_TRUNC, after the pair has been generated in memory.
OpenKey(w) ==
    /\ pc[w] = "openKey"
    /\ key' = "empty"
    /\ Goto(w, "writeKey")
    /\ UNCHANGED <<cert, round, seen, faults>>

\* PEM_write_PrivateKey fills the buffer; the write is that of fclose, whose result
\* nobody looks at.
WriteKey(w) ==
    /\ pc[w] = "writeKey"
    /\ \/ key' = w /\ UNCHANGED faults
       \/ faults < MaxFaults /\ faults' = faults + 1 /\ UNCHANGED key
    /\ Goto(w, "openCert")
    /\ UNCHANGED <<cert, round, seen>>

OpenCert(w) ==
    /\ pc[w] = "openCert"
    /\ cert' = "empty"
    /\ Goto(w, "writeCert")
    /\ UNCHANGED <<key, round, seen, faults>>

WriteCert(w) ==
    /\ pc[w] = "writeCert"
    /\ \/ cert' = w /\ UNCHANGED faults
       \/ faults < MaxFaults /\ faults' = faults + 1 /\ UNCHANGED cert
    /\ Goto(w, "useCert")
    /\ UNCHANGED <<key, round, seen>>

\* The parent waits for its children and forks one that has exited again.
Restart(w) ==
    /\ pc[w] = "exited"
    /\ Goto(w, "certExists")
    /\ round' = [round EXCEPT ![w] = 0]
    /\ seen' = [seen EXCEPT ![w] = [cert |-> "absent", key |-> "absent"]]
    /\ UNCHANGED <<cert, key, faults>>

\* A worker is killed, wherever it is, or cannot open a file it wants to write.
Killed(w) ==
    /\ pc[w] # "exited"
    /\ faults < MaxFaults
    /\ faults' = faults + 1
    /\ Goto(w, "exited")
    /\ UNCHANGED <<cert, key, round, seen>>

Starts(w) ==
    \/ CertExists(w) \/ KeyExists(w)
    \/ UseCert(w) \/ UseKey(w)
    \/ CertReadable(w) \/ KeyReadable(w)
    \/ OpenKey(w) \/ WriteKey(w) \/ OpenCert(w) \/ WriteCert(w)
    \/ Restart(w)

TlsNext == \E w \in Workers : Starts(w) \/ Killed(w)

\* Processes are scheduled and the parent reaps what has exited.
TlsFairness == \A w \in Workers : WF_tlsVars(Starts(w))

TlsSpec == TlsInit /\ [][TlsNext]_tlsVars /\ TlsFairness

\* A worker that serves TLS holds a certificate and the private key that belongs
\* to it, although other workers rewrite both files between any two of its reads.
ServedPairMatches ==
    \A w \in Workers : pc[w] = "serving" =>
        seen[w].cert = seen[w].key /\ seen[w].cert \notin {"absent", "empty"}

\* Every worker comes to serve TLS: the missing certificate and key are generated
\* automatically (docs/security-review.md, docs/DOCKER.md).
EveryWorkerServes == \A w \in Workers : <>(pc[w] = "serving")
=============================================================================
