----------------------------- MODULE Supervisor -----------------------------
(***************************************************************************)
(* The parent process of a multi-worker rpsiod (rpsiod_server_run and the  *)
(* functions it calls in src/src/server.c, the handlers of                 *)
(* src/src/signals.c) and, as far as the parent can tell, its workers:     *)
(* fork, restart of a dead worker, reload on SIGHUP, stop on SIGTERM.      *)
(*                                                                         *)
(* signal() is compiled with _GNU_SOURCE (Makefile), so the handlers are   *)
(* installed with SA_RESTART: a signal sets its flag and waitpid goes on   *)
(* waiting.  What a worker does between its start and its exit is module   *)
(* Worker.                                                                 *)
(***************************************************************************)
EXTENDS Integers, Sequences, FiniteSets

CONSTANTS
    WorkersOf,     \* resolved_worker_count of each version of the configuration
    StopScope,     \* whom SIGTERM may be sent to: "parent", "group"
    MaxVersion,    \* bound: edits of the configuration files
    MaxHups,       \* bound: SIGHUPs
    MaxCrashes,    \* bound: workers that die, or fail to start, by themselves
    MaxFails       \* bound: failing forks and allocations in the parent

Versions == 0..MaxVersion

ASSUME SupervisorAssumption ==
    /\ MaxVersion \in Nat
    /\ WorkersOf \in [Versions -> 1..64]
    /\ WorkersOf[0] > 1
    /\ StopScope \subseteq {"parent", "group"}
    /\ MaxHups \in Nat
    /\ MaxCrashes \in Nat
    /\ MaxFails \in Nat

VARIABLES
    ppc,      \* where the parent is: "start", "loop", "wait", "spawn", "abort",
              \* "retire", "shutdown", "exited"
    pids,     \* the table of worker pids: 0 not yet forked, -1 fork failed
    next,     \* next_pids of a reload in progress
    wi,       \* index of the wait_workers loop
    cfg,      \* version of the configuration the parent holds
    disk,     \* version of the files, and whether they pass validation
    proc,     \* every process forked so far: its state, configuration and
              \* rpsiod_stop_requested
    stop,     \* the parent's rpsiod_stop_requested
    reload,   \* the parent's rpsiod_reload_requested
    hups, crashes, fails

vars == <<ppc, pids, next, wi, cfg, disk, proc, stop, reload, hups, crashes, fails>>

\* A pid is the number of the fork that made it.
Pids == DOMAIN proc

Children == {p \in Pids : proc[p].st # "reaped"}

Empty(n) == [i \in 1..n |-> 0]

Init ==
    /\ ppc = "start"
    /\ pids = Empty(WorkersOf[0])
    /\ next = <<>>
    /\ wi = 1
    /\ cfg = 0
    /\ disk = [ver |-> 0, valid |-> TRUE]
    /\ proc = <<>>
    /\ stop = FALSE
    /\ reload = FALSE
    /\ hups = 0
    /\ crashes = 0
    /\ fails = 0
----------------------------------------------------------------------------
(* Signals and the administrator. *)

\* rpsiod reload, or systemctl reload: SIGHUP to the pid of the pid file.
SignalReload ==
    /\ hups < MaxHups
    /\ ppc # "exited"
    /\ hups' = hups + 1
    /\ reload' = TRUE
    /\ UNCHANGED <<ppc, pids, next, wi, cfg, disk, proc, stop, crashes, fails>>

\* A process that is alive takes SIGTERM by setting its flag.
Terminate(S) ==
    proc' = [p \in Pids |-> IF p \in S /\ proc[p].st \in {"forked", "running"}
                            THEN [proc[p] EXCEPT !.term = TRUE] ELSE proc[p]]

\* SIGTERM to the parent alone, or to every process of the service.
SignalStop(scope) ==
    /\ ~stop
    /\ ppc # "exited"
    /\ stop' = TRUE
    /\ Terminate(IF scope = "group" THEN Pids ELSE {})
    /\ UNCHANGED <<ppc, pids, next, wi, cfg, disk, reload, hups, crashes, fails>>

EditConfig(valid) ==
    /\ disk.ver < MaxVersion
    /\ disk' = [ver |-> disk.ver + 1, valid |-> valid]
    /\ UNCHANGED <<ppc, pids, next, wi, cfg, proc, stop, reload, hups, crashes, fails>>
----------------------------------------------------------------------------
(* Workers. *)

\* The child's first steps in start_worker: both flags are cleared, so a
\* SIGTERM that came before is forgotten; then its listeners are opened.
WorkerBoots(p) ==
    /\ proc[p].st = "forked"
    /\ proc' = [proc EXCEPT ![p].st = "running", ![p].term = FALSE]
    /\ UNCHANGED <<ppc, pids, next, wi, cfg, disk, stop, reload, hups, crashes, fails>>

\* The event loop sees its stop flag and the process exits.
WorkerExits(p) ==
    /\ proc[p].st = "running"
    /\ proc[p].term
    /\ proc' = [proc EXCEPT ![p].st = "zombie"]
    /\ UNCHANGED <<ppc, pids, next, wi, cfg, disk, stop, reload, hups, crashes, fails>>

\* A worker cannot open its listeners, or crashes.
WorkerDies(p) ==
    /\ crashes < MaxCrashes
    /\ proc[p].st \in {"forked", "running"}
    /\ crashes' = crashes + 1
    /\ proc' = [proc EXCEPT ![p].st = "zombie"]
    /\ UNCHANGED <<ppc, pids, next, wi, cfg, disk, stop, reload, hups, fails>>
----------------------------------------------------------------------------
(* The parent. *)

Forked(ps) == Append(ps, [st |-> "forked", cfg |-> cfg, term |-> FALSE])

\* The first slot the spawn_workers loop has still to fill, if there is one.
Unfilled(tab) == {i \in DOMAIN tab : tab[i] = 0 /\ \A j \in 1..(i - 1) : tab[j] # 0}

Live(tab) == {tab[i] : i \in DOMAIN tab} \cap Pids

\* spawn_workers at startup; a failing fork makes the parent stop at once.
SpawnFirst ==
    /\ ppc = "start"
    /\ \E i \in Unfilled(pids) :
         \/ /\ proc' = Forked(proc)
            /\ pids' = [pids EXCEPT ![i] = Len(proc) + 1]
            /\ UNCHANGED <<ppc, stop, fails>>
         \/ /\ fails < MaxFails
            /\ fails' = fails + 1
            /\ pids' = [pids EXCEPT ![i] = -1]
            /\ stop' = TRUE
            /\ ppc' = "loop"
            /\ UNCHANGED proc
    /\ UNCHANGED <<next, wi, cfg, disk, reload, hups, crashes>>

Started ==
    /\ ppc = "start"
    /\ Unfilled(pids) = {}
    /\ ppc' = "loop"
    /\ UNCHANGED <<pids, next, wi, cfg, disk, proc, stop, reload, hups, crashes, fails>>

\* Neither flag is set: the parent blocks in waitpid(-1).
EnterWait ==
    /\ ppc = "loop"
    /\ ~stop
    /\ ~reload
    /\ ppc' = "wait"
    /\ UNCHANGED <<pids, next, wi, cfg, disk, proc, stop, reload, hups, crashes, fails>>

\* Mutant: a restart that leaves the old pid in the table.
RestartDead_stale(p) ==
    /\ ppc = "wait"
    /\ proc[p].st = "zombie"
    /\ ppc' = "loop"
    /\ proc' = IF stop THEN [proc EXCEPT ![p].st = "reaped"]
               ELSE Forked([proc EXCEPT ![p].st = "reaped"])
    /\ UNCHANGED <<pids, next, wi, cfg, disk, stop, reload, hups, crashes, fails>>

\* Mutant: a dead worker is reaped and its slot forgotten.
RestartDead_lost(p) ==
    /\ ppc = "wait"
    /\ proc[p].st = "zombie"
    /\ ppc' = "loop"
    /\ proc' = [proc EXCEPT ![p].st = "reaped"]
    /\ UNCHANGED <<pids, next, wi, cfg, disk, stop, reload, hups, crashes, fails>>

\* waitpid(-1) returns a dead worker: the slot that held its pid gets a new
\* worker, unless a stop has been requested meanwhile.
RestartDead(p) ==
    /\ ppc = "wait"
    /\ proc[p].st = "zombie"
    /\ ppc' = "loop"
    /\ LET slots  == {i \in DOMAIN pids : pids[i] = p}
           reaped == [proc EXCEPT ![p].st = "reaped"]
       IN  \/ /\ slots = {} \/ stop
              /\ proc' = reaped
              /\ UNCHANGED <<pids, fails>>
           \/ /\ ~stop
              /\ \E i \in slots :
                   \/ /\ proc' = Forked(reaped)
                      /\ pids' = [pids EXCEPT ![i] = Len(proc) + 1]
                      /\ UNCHANGED fails
                   \/ /\ fails < MaxFails
                      /\ fails' = fails + 1
                      /\ proc' = reaped
                      /\ pids' = [pids EXCEPT ![i] = -1]
    /\ UNCHANGED <<next, wi, cfg, disk, stop, reload, hups, crashes>>

\* The loop ends, because of the flag or because waitpid says ECHILD: SIGTERM
\* to every worker, then one waitpid after the other.
Shutdown ==
    /\ \/ ppc = "loop" /\ stop
       \/ ppc = "wait" /\ Children = {}
    /\ ppc' = "shutdown"
    /\ wi' = 1
    /\ Terminate(Live(pids))
    /\ UNCHANGED <<pids, next, cfg, disk, stop, reload, hups, crashes, fails>>

\* Mutant: a rejected configuration replaces the one in use.
ReloadConfig_unchecked ==
    /\ ppc = "loop"
    /\ ~stop
    /\ reload
    /\ reload' = FALSE
    /\ cfg' = disk.ver
    /\ IF disk.valid
       THEN ppc' = "spawn" /\ next' = Empty(WorkersOf[disk.ver])
       ELSE UNCHANGED <<ppc, next>>
    /\ UNCHANGED <<pids, wi, disk, proc, stop, hups, crashes, fails>>

\* reload_workers up to its spawn loop.  A configuration that fails validation
\* changes nothing; one that passes replaces the parent's before the new table
\* is allocated, which may fail.
ReloadConfig ==
    /\ ppc = "loop"
    /\ ~stop
    /\ reload
    /\ reload' = FALSE
    /\ \/ /\ ~disk.valid
          /\ UNCHANGED <<ppc, cfg, next, fails>>
       \/ /\ disk.valid
          /\ cfg' = disk.ver
          /\ next' = Empty(WorkersOf[disk.ver])
          /\ ppc' = "spawn"
          /\ UNCHANGED fails
       \/ /\ disk.valid
          /\ fails < MaxFails
          /\ fails' = fails + 1
          /\ cfg' = disk.ver
          /\ UNCHANGED <<ppc, next>>
    /\ UNCHANGED <<pids, wi, disk, proc, stop, hups, crashes>>

\* spawn_workers of a reload.  If a fork fails the workers already made are
\* told to stop and are waited for.
SpawnNext ==
    /\ ppc = "spawn"
    /\ \E i \in Unfilled(next) :
         \/ /\ proc' = Forked(proc)
            /\ next' = [next EXCEPT ![i] = Len(proc) + 1]
            /\ UNCHANGED <<ppc, wi, fails>>
         \/ /\ fails < MaxFails
            /\ fails' = fails + 1
            /\ next' = [next EXCEPT ![i] = -1]
            /\ Terminate(Live(next))
            /\ wi' = 1
            /\ ppc' = "abort"
    /\ UNCHANGED <<pids, cfg, disk, stop, reload, hups, crashes>>

\* Mutant: the old workers are stopped first.
RetireOld_early ==
    /\ ppc = "spawn"
    /\ Terminate(Live(pids))
    /\ wi' = 1
    /\ ppc' = IF Unfilled(next) = {} THEN "retire" ELSE ppc
    /\ UNCHANGED <<pids, next, cfg, disk, stop, reload, hups, crashes, fails>>

\* All new workers are forked: SIGTERM to the old ones.
RetireOld ==
    /\ ppc = "spawn"
    /\ Unfilled(next) = {}
    /\ Terminate(Live(pids))
    /\ wi' = 1
    /\ ppc' = "retire"
    /\ UNCHANGED <<pids, next, cfg, disk, stop, reload, hups, crashes, fails>>

\* The table wait_workers is called with.
Awaited == IF ppc = "abort" THEN next ELSE pids

\* One turn of wait_workers: waitpid blocks until this child is dead; an entry
\* that is no child (never forked, or reaped before) is passed over.
WaitOne ==
    /\ ppc \in {"abort", "retire", "shutdown"}
    /\ wi <= Len(Awaited)
    /\ LET p == Awaited[wi] IN
         \/ p \notin Children /\ UNCHANGED proc
         \/ /\ p \in Children
            /\ proc[p].st = "zombie"
            /\ proc' = [proc EXCEPT ![p].st = "reaped"]
    /\ wi' = wi + 1
    /\ UNCHANGED <<ppc, pids, next, cfg, disk, stop, reload, hups, crashes, fails>>

\* Mutant: a failed reload does not wait for the workers it gave up.
WaitDone_unwaited ==
    /\ ppc \in {"abort", "retire", "shutdown"}
    /\ wi > Len(Awaited) \/ ppc = "abort"
    /\ ppc' = IF ppc = "shutdown" THEN "exited" ELSE "loop"
    /\ pids' = IF ppc = "retire" THEN next ELSE pids
    /\ next' = <<>>
    /\ wi' = 1
    /\ UNCHANGED <<cfg, disk, proc, stop, reload, hups, crashes, fails>>

\* wait_workers returns: the reload installs its table or drops it, the stop
\* unlinks the pid file and ends the process.
WaitDone ==
    /\ ppc \in {"abort", "retire", "shutdown"}
    /\ wi > Len(Awaited)
    /\ ppc' = IF ppc = "shutdown" THEN "exited" ELSE "loop"
    /\ pids' = IF ppc = "retire" THEN next ELSE pids
    /\ next' = <<>>
    /\ wi' = 1
    /\ UNCHANGED <<cfg, disk, proc, stop, reload, hups, crashes, fails>>
----------------------------------------------------------------------------
ParentStep ==
    \/ SpawnFirst \/ Started \/ EnterWait
    \/ \E p \in Pids : RestartDead(p)
    \/ Shutdown \/ ReloadConfig \/ SpawnNext \/ RetireOld
    \/ WaitOne \/ WaitDone

WorkerStep == \E p \in Pids : WorkerBoots(p) \/ WorkerExits(p)

Environment ==
    \/ SignalReload
    \/ \E s \in StopScope : SignalStop(s)
    \/ \E v \in BOOLEAN : EditConfig(v)
    \/ \E p \in Pids : WorkerDies(p)

Next == ParentStep \/ WorkerStep \/ Environment

Spec == Init /\ [][Next]_vars

\* Every process is scheduled; signals, edits, crashes and failing forks need
\* not happen.
FairSpec == Spec /\ WF_vars(ParentStep) /\ WF_vars(WorkerStep)
----------------------------------------------------------------------------
(* Properties. *)

TableType(tab) == \A i \in DOMAIN tab : tab[i] \in Pids \cup {0, -1}

ProcessRecord == [st : {"forked", "running", "zombie", "reaped"}, cfg : Versions,
                  term : BOOLEAN]

\* Type correctness of the parent's tables and of the processes.
TypeOK ==
    /\ ppc \in {"start", "loop", "wait", "spawn", "abort", "retire", "shutdown", "exited"}
    /\ pids \in Seq(Int) /\ TableType(pids)
    /\ next \in Seq(Int) /\ TableType(next)
    /\ wi \in Nat \ {0}
    /\ cfg \in Versions
    /\ disk \in [ver : Versions, valid : BOOLEAN]
    /\ proc \in Seq(ProcessRecord)
    /\ stop \in BOOLEAN
    /\ reload \in BOOLEAN
    /\ hups \in 0..MaxHups
    /\ crashes \in 0..MaxCrashes
    /\ fails \in 0..MaxFails

\* No worker is in two slots, and as long as no stop is requested every pid the
\* parent may kill is a child it has not reaped: the number cannot have been
\* given to another process.
TableHoldsChildren ==
    /\ \A i, j \in DOMAIN pids : i # j /\ pids[i] > 0 => pids[i] # pids[j]
    /\ (~stop /\ ppc \in {"start", "loop", "wait", "spawn", "abort"}) =>
          \A i \in DOMAIN pids : pids[i] > 0 => pids[i] \in Children

\* Every child that has not been reaped is in the table, or in the new one
\* while a reload runs: no worker escapes the next reload or stop, and none
\* outlives the parent.
NoOrphanWorker ==
    /\ Children \subseteq Live(pids) \cup Live(next)
    /\ ppc = "exited" => Children = {}

\* After a reload that met no failure every worker serves the configuration the
\* parent holds, whatever crashed or was edited meanwhile.
WorkersMatchConfig ==
    (fails = 0 /\ ppc \in {"loop", "wait"}) =>
        \A p \in Live(pids) : proc[p].cfg = cfg

\* A reload signals an old worker only when every new one has been forked.
ReplacedBeforeStopped ==
    [][\A p \in Live(pids) :
         (proc[p].st # "reaped" /\ ~proc[p].term /\ proc'[p].term /\ stop' = stop /\ ~stop) =>
            ppc = "spawn" /\ \A i \in DOMAIN next : next[i] > 0]_vars

\* A dead worker's slot is filled again, unless the server is stopping, fork fails or
\* a reload is asked for: its wait for a worker that has forgotten SIGTERM may last
\* for ever.
DeadWorkerReplaced ==
    \A i \in 1..WorkersOf[0] :
        (i \in DOMAIN pids /\ \E p \in Pids : pids[i] = p /\ proc[p].st = "zombie") ~>
            \/ stop \/ hups > 0 \/ fails > 0
            \/ i \in DOMAIN pids /\ \E p \in Pids : pids[i] = p /\ proc[p].st = "running"

\* SIGHUP makes the running server take up its configuration files again.
ReloadTakesEffect == reload ~> (~reload \/ ppc = "exited")

\* SIGTERM to the server's process ends it.
StopEndsServer == stop ~> (ppc = "exited")
=============================================================================
