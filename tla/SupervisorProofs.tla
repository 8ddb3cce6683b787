-------------------------- MODULE SupervisorProofs --------------------------
(***************************************************************************)
(* Proofs about the parent process for every sequence of configurations,   *)
(* numbers of workers, signals, crashes and failing forks: the tables hold *)
(* the parent's own children, no worker is forgotten, workers run the      *)
(* configuration the parent holds, and a reload forks every new worker     *)
(* before it stops an old one.                                             *)
(***************************************************************************)
EXTENDS Supervisor, SequenceFacts, SequenceTheorems, TLAPS

\* The table of a reload exists only while it runs.
NextInUse == ppc \notin {"spawn", "abort", "retire"} => next = <<>>

\* A pid is in one slot of one table.
Once(tab) == \A i, j \in DOMAIN tab : i # j /\ tab[i] > 0 => tab[i] # tab[j]

PidsOnce ==
    /\ Once(pids)
    /\ Once(next)
    /\ \A i \in DOMAIN pids, j \in DOMAIN next : pids[i] > 0 => pids[i] # next[j]

\* Which of the tables hold only children that have not been reaped.
AllChildren(tab) == \A i \in DOMAIN tab : tab[i] > 0 => tab[i] \in Children

TablesAlive ==
    /\ ~stop /\ ppc \in {"start", "loop", "wait", "spawn", "abort"} => AllChildren(pids)
    /\ ppc \in {"spawn", "retire"} => AllChildren(next) /\ \A i \in DOMAIN next : next[i] >= 0

\* wait_workers leaves no child behind its index.
WaitedFor ==
    ppc \in {"abort", "retire", "shutdown"} =>
        \A i \in DOMAIN Awaited : i < wi => Awaited[i] \notin Children

\* The configuration of the workers in a table.
Runs(tab) == \A i \in DOMAIN tab : tab[i] \in Pids => proc[tab[i]].cfg = cfg

ConfigHeld ==
    /\ ppc = "abort" => fails > 0
    /\ fails = 0 => /\ ppc \in {"start", "loop", "wait"} => Runs(pids)
                    /\ ppc \in {"spawn", "retire"} => Runs(next)

\* The inductive invariant.
ParentInv ==
    /\ TypeOK
    /\ NextInUse
    /\ PidsOnce
    /\ TablesAlive
    /\ WaitedFor
    /\ NoOrphanWorker
    /\ ConfigHeld

(***************************************************************************)
(* Tables and processes.                                                   *)
(***************************************************************************)

\* What the type invariant says of the two tables and of the processes.
LEMMA TablesTyped ==
    ASSUME TypeOK
    PROVE  /\ Len(proc) \in Nat /\ Pids = 1..Len(proc)
           /\ \A p \in Pids : proc[p] \in ProcessRecord
           /\ Len(pids) \in Nat /\ DOMAIN pids = 1..Len(pids)
           /\ Len(next) \in Nat /\ DOMAIN next = 1..Len(next)
           /\ \A i \in DOMAIN pids : pids[i] \in Int /\ (pids[i] > 0 <=> pids[i] \in Pids)
           /\ \A i \in DOMAIN next : next[i] \in Int /\ (next[i] > 0 <=> next[i] \in Pids)
<1>1. /\ Len(proc) \in Nat /\ Pids = 1..Len(proc)
      /\ \A p \in Pids : proc[p] \in ProcessRecord
  BY LenProperties, ElementOfSeq DEF TypeOK, Pids
<1>2. ASSUME NEW tab \in Seq(Int), TableType(tab)
      PROVE  /\ Len(tab) \in Nat /\ DOMAIN tab = 1..Len(tab)
             /\ \A i \in DOMAIN tab : tab[i] \in Int /\ (tab[i] > 0 <=> tab[i] \in Pids)
  <2>1. Len(tab) \in Nat /\ DOMAIN tab = 1..Len(tab)
    BY <1>2, LenProperties
  <2>2. ASSUME NEW i \in DOMAIN tab
        PROVE  tab[i] \in Int /\ (tab[i] > 0 <=> tab[i] \in Pids)
    BY <1>1, <1>2, <2>2 DEF TableType
  <2> QED
    BY <2>1, <2>2
<1> QED
  BY <1>1, <1>2 DEF TypeOK

\* A slot of a table is overwritten.
LEMMA SlotWritten ==
    ASSUME NEW tab \in Seq(Int), NEW i \in DOMAIN tab, NEW p \in Int,
           NEW new, new = [tab EXCEPT ![i] = p]
    PROVE  /\ new \in Seq(Int)
           /\ DOMAIN new = DOMAIN tab
           /\ \A j \in DOMAIN tab : new[j] = IF j = i THEN p ELSE tab[j]
<1>1. i \in 1..Len(tab)
  BY LenProperties
<1> QED
  BY <1>1, ExceptSeq

\* A SIGTERM changes nothing but the flags of the processes it reaches.
LEMMA TerminateKeeps ==
    ASSUME TypeOK, NEW S, Terminate(S)
    PROVE  /\ proc' \in Seq(ProcessRecord)
           /\ Pids' = Pids /\ Children' = Children
           /\ \A p \in Pids : proc'[p].cfg = proc[p].cfg
           /\ \A p \in Pids : p \notin S => proc'[p] = proc[p]
<1>1. Pids = 1..Len(proc) /\ Len(proc) \in Nat /\ \A p \in Pids : proc[p] \in ProcessRecord
  BY TablesTyped
<1>2. /\ proc' = [p \in Pids |-> proc'[p]]
      /\ \A p \in Pids :
           proc'[p] = IF p \in S /\ proc[p].st \in {"forked", "running"}
                      THEN [proc[p] EXCEPT !.term = TRUE] ELSE proc[p]
  BY DEF Terminate
<1>3. \A p \in Pids : /\ proc'[p] \in ProcessRecord
                       /\ proc'[p].st = proc[p].st
                       /\ proc'[p].cfg = proc[p].cfg
  BY <1>1, <1>2 DEF ProcessRecord
<1>4. Pids' = Pids
  BY <1>2 DEF Pids
<1>5. Children' = Children
  BY <1>3, <1>4 DEF Children
<1>6. proc' \in Seq(ProcessRecord)
  BY <1>1, <1>2, <1>3, IsASeq
<1> QED
  BY <1>2, <1>3, <1>4, <1>5, <1>6

\* A process changes its state or its flag.
LEMMA ProcessChanges ==
    ASSUME TypeOK, NEW p \in Pids, NEW r \in ProcessRecord
    PROVE  /\ [proc EXCEPT ![p] = r] \in Seq(ProcessRecord)
           /\ Len([proc EXCEPT ![p] = r]) = Len(proc)
           /\ DOMAIN [proc EXCEPT ![p] = r] = Pids
           /\ \A q \in Pids : [proc EXCEPT ![p] = r][q] = IF q = p THEN r ELSE proc[q]
<1>1. Pids = 1..Len(proc)
  BY TablesTyped
<1> QED
  BY <1>1, ExceptSeq DEF TypeOK, Pids

\* A fork adds a process that holds the parent's configuration.
LEMMA ForkAdds ==
    ASSUME NEW ps \in Seq(ProcessRecord), cfg \in Versions, NEW new, new = Forked(ps)
    PROVE  /\ new \in Seq(ProcessRecord)
           /\ Len(ps) \in Nat /\ DOMAIN new = 1..(Len(ps) + 1)
           /\ \A q \in 1..Len(ps) : new[q] = ps[q]
           /\ new[Len(ps) + 1] = [st |-> "forked", cfg |-> cfg, term |-> FALSE]
<1>1. [st |-> "forked", cfg |-> cfg, term |-> FALSE] \in ProcessRecord
  BY DEF ProcessRecord
<1> QED
  BY <1>1, AppendProperties, LenProperties DEF Forked

\* waitpid takes a process out of the children and changes nothing else of it.
LEMMA Reaps ==
    ASSUME TypeOK, NEW p \in Pids, NEW new, new = [proc EXCEPT ![p].st = "reaped"]
    PROVE  /\ new \in Seq(ProcessRecord)
           /\ Len(new) = Len(proc) /\ DOMAIN new = Pids
           /\ \A q \in Pids : new[q].cfg = proc[q].cfg /\ new[q].term = proc[q].term
           /\ {q \in Pids : new[q].st # "reaped"} = Children \ {p}
<1> DEFINE r == [proc[p] EXCEPT !.st = "reaped"]
<1>1. r \in ProcessRecord /\ r.st = "reaped" /\ r.cfg = proc[p].cfg /\ r.term = proc[p].term
  BY TablesTyped DEF ProcessRecord
<1>2. new = [proc EXCEPT ![p] = r]
  OBVIOUS
<1> HIDE DEF r
<1>3. /\ new \in Seq(ProcessRecord)
      /\ Len(new) = Len(proc) /\ DOMAIN new = Pids
      /\ \A q \in Pids : new[q] = IF q = p THEN r ELSE proc[q]
  <2>1. /\ [proc EXCEPT ![p] = r] \in Seq(ProcessRecord)
        /\ Len([proc EXCEPT ![p] = r]) = Len(proc)
        /\ DOMAIN [proc EXCEPT ![p] = r] = Pids
        /\ \A q \in Pids : [proc EXCEPT ![p] = r][q] = IF q = p THEN r ELSE proc[q]
    BY <1>1, ProcessChanges, Zenon
  <2> QED
    BY <1>2, <2>1
<1>4. {q \in Pids : new[q].st # "reaped"} = Children \ {p}
  BY <1>1, <1>3 DEF Children
<1> QED
  BY <1>1, <1>3, <1>4

\* A table that holds each pid once does so with a new pid, or none, in one slot.
LEMMA OnceWritten ==
    ASSUME NEW old, NEW new, NEW i \in DOMAIN old, Once(old), DOMAIN new = DOMAIN old,
           \A j \in DOMAIN old : j # i => new[j] = old[j],
           new[i] > 0 => \A j \in DOMAIN old : old[j] # new[i]
    PROVE  Once(new)
<1> SUFFICES ASSUME NEW a \in DOMAIN old, NEW b \in DOMAIN old, a # b, new[a] > 0
             PROVE  new[a] # new[b]
  BY Zenon DEF Once
<1>1. CASE a = i
  BY <1>1, Zenon
<1>2. CASE b = i
  BY <1>2, Zenon
<1>3. CASE a # i /\ b # i
  BY <1>3, Zenon DEF Once
<1> QED
  BY <1>1, <1>2, <1>3, Zenon

\* A fork makes a child with a pid that no table holds.
LEMMA ForkStep ==
    ASSUME TypeOK, proc' = Forked(proc)
    PROVE  /\ proc' \in Seq(ProcessRecord)
           /\ Len(proc) + 1 \in Int /\ Len(proc) + 1 > 0 /\ Len(proc) + 1 \notin Pids
           /\ Pids' = Pids \cup {Len(proc) + 1}
           /\ Children' = Children \cup {Len(proc) + 1}
           /\ \A p \in Pids : proc'[p] = proc[p]
           /\ proc'[Len(proc) + 1].cfg = cfg
<1> DEFINE n == Len(proc) + 1
<1>1. Len(proc) \in Nat /\ Pids = 1..Len(proc)
  BY TablesTyped
<1>2. /\ proc' \in Seq(ProcessRecord)
      /\ DOMAIN proc' = 1..n
      /\ \A q \in 1..Len(proc) : proc'[q] = proc[q]
      /\ proc'[n] = [st |-> "forked", cfg |-> cfg, term |-> FALSE]
  BY ForkAdds, ZenonT(60) DEF TypeOK
<1>3. n \in Int /\ n > 0 /\ n \notin Pids /\ 1..n = Pids \cup {n}
  BY <1>1
<1> HIDE DEF n
<1>4. Pids' = Pids \cup {n}
  BY <1>2, <1>3 DEF Pids
<1>5. \A p \in Pids : proc'[p] = proc[p]
  BY <1>1, <1>2
<1>6. proc'[n].st # "reaped" /\ proc'[n].cfg = cfg
  BY <1>2
<1>7. Children' = Children \cup {n}
  BY <1>4, <1>5, <1>6 DEF Children
<1> QED
  BY <1>2, <1>3, <1>4, <1>5, <1>6, <1>7 DEF n

\* Steps that leave the parent's tables and the set of its children alone.
LEMMA QuietStep ==
    ASSUME ParentInv, TypeOK', UNCHANGED <<ppc, pids, next, wi, cfg, fails>>,
           stop' = stop \/ stop', Pids' = Pids, Children' = Children,
           \A p \in Pids : proc'[p].cfg = proc[p].cfg
    PROVE  ParentInv'
<1>1. NextInUse' /\ PidsOnce'
  BY DEF ParentInv, NextInUse, PidsOnce, Once
<1>2. TablesAlive'
  BY DEF ParentInv, TablesAlive, AllChildren
<1>3. WaitedFor'
  BY DEF ParentInv, WaitedFor, Awaited
<1>4. NoOrphanWorker'
  BY DEF ParentInv, NoOrphanWorker, Live
<1>5. ConfigHeld'
  BY DEF ParentInv, ConfigHeld, Runs
<1> QED
  BY <1>1, <1>2, <1>3, <1>4, <1>5 DEF ParentInv

(***************************************************************************)
(* One lemma per group of actions.                                         *)
(***************************************************************************)

\* Nothing is forked at the start.
LEMMA InitParent == Init => ParentInv
<1> SUFFICES ASSUME Init PROVE ParentInv
  OBVIOUS
<1> DEFINE n == WorkersOf[0]
<1>1. n \in Nat /\ 0 \in Versions
  <2>1. 0 \in Versions
    BY SupervisorAssumption DEF Versions
  <2>2. n \in 1..64
    BY <2>1, SupervisorAssumption
  <2> QED
    BY <2>1, <2>2
<1>2. /\ pids = [i \in 1..n |-> 0] /\ next = <<>> /\ proc = <<>> /\ ppc = "start"
      /\ fails = 0 /\ cfg = 0 /\ stop = FALSE /\ wi = 1
  BY DEF Init, Empty
<1> HIDE DEF n
<1>3. pids \in Seq(Int) /\ DOMAIN pids = 1..n /\ \A i \in DOMAIN pids : pids[i] = 0
  <2>1. \A i \in 1..n : 0 \in Int
    OBVIOUS
  <2>2. [i \in 1..n |-> 0] \in Seq(Int)
    BY <1>1, <2>1, IsASeq
  <2> QED
    BY <1>2, <2>2
<1>4. /\ next \in Seq(Int) /\ DOMAIN next = {}
      /\ proc \in Seq(ProcessRecord) /\ Pids = {} /\ Children = {}
  BY <1>2, EmptySeq DEF Pids, Children
<1>5. TypeOK
  <2>1. TableType(pids) /\ TableType(next)
    BY <1>3, <1>4 DEF TableType
  <2>2. disk \in [ver : Versions, valid : BOOLEAN] /\ reload \in BOOLEAN
    BY <1>1 DEF Init
  <2>3. hups \in 0..MaxHups /\ crashes \in 0..MaxCrashes /\ fails \in 0..MaxFails
    BY SupervisorAssumption DEF Init
  <2>4. cfg \in Versions /\ stop \in BOOLEAN /\ wi \in Nat \ {0}
    <3>1. 0 \in Versions /\ 1 \in Nat \ {0} /\ FALSE \in BOOLEAN
      BY <1>1
    <3>2. cfg = 0 /\ stop = FALSE /\ wi = 1
      BY <1>2
    <3> QED
      BY <3>1, <3>2
  <2> QED
    BY <1>2, <1>3, <1>4, <2>1, <2>2, <2>3, <2>4 DEF TypeOK
<1>6. NextInUse /\ PidsOnce /\ TablesAlive /\ WaitedFor
  BY <1>2, <1>3, <1>4 DEF NextInUse, PidsOnce, Once, TablesAlive, AllChildren, WaitedFor
<1>7. NoOrphanWorker /\ ConfigHeld
  BY <1>2, <1>4 DEF NoOrphanWorker, ConfigHeld, Runs
<1> QED
  BY <1>5, <1>6, <1>7 DEF ParentInv

\* Signals, edits, and workers that boot, exit or die.
LEMMA OthersKeep ==
    ASSUME ParentInv, WorkerStep \/ Environment
    PROVE  ParentInv'
<1>0. TypeOK /\ Pids = 1..Len(proc) /\ \A p \in Pids : proc[p] \in ProcessRecord
  BY TablesTyped DEF ParentInv
<1>1. CASE SignalReload \/ \E v \in BOOLEAN : EditConfig(v)
  <2>1. UNCHANGED <<ppc, pids, next, wi, cfg, fails, stop, proc, crashes>>
    BY <1>1 DEF SignalReload, EditConfig
  <2>2. Pids' = Pids /\ Children' = Children
    BY <2>1 DEF Pids, Children
  <2>3. /\ disk' \in [ver : Versions, valid : BOOLEAN] /\ reload' \in BOOLEAN
        /\ hups' \in 0..MaxHups
    <3>1. hups \in 0..MaxHups /\ disk \in [ver : 0..MaxVersion, valid : BOOLEAN]
             /\ reload \in BOOLEAN
      BY <1>0 DEF TypeOK, Versions
    <3>2. CASE SignalReload
      BY <3>1, <3>2, SupervisorAssumption DEF SignalReload, Versions
    <3>3. CASE \E v \in BOOLEAN : EditConfig(v)
      BY <3>1, <3>3, SupervisorAssumption DEF EditConfig, Versions
    <3> QED
      BY <1>1, <3>2, <3>3
  <2>4. TypeOK'
    BY <1>0, <2>1, <2>2, <2>3 DEF TypeOK, TableType
  <2> QED
    BY <2>1, <2>2, <2>4, QuietStep
<1>2. CASE \E s \in StopScope : SignalStop(s)
  <2>1. PICK S : Terminate(S)
    BY <1>2 DEF SignalStop
  <2>2. UNCHANGED <<ppc, pids, next, wi, cfg, fails, disk, reload, hups, crashes>> /\ stop' = TRUE
    BY <1>2 DEF SignalStop
  <2>3. /\ proc' \in Seq(ProcessRecord)
        /\ Pids' = Pids /\ Children' = Children
        /\ \A p \in Pids : proc'[p].cfg = proc[p].cfg
    BY <1>0, <2>1, TerminateKeeps
  <2>4. TypeOK'
    BY <1>0, <2>2, <2>3 DEF TypeOK, TableType
  <2> QED
    BY <2>2, <2>3, <2>4, QuietStep
<1>3. ASSUME NEW p \in Pids, WorkerBoots(p) \/ WorkerExits(p) \/ WorkerDies(p)
      PROVE  ParentInv'
  <2>1. /\ UNCHANGED <<ppc, pids, next, wi, cfg, fails, disk, reload, hups, stop>>
        /\ crashes' \in 0..MaxCrashes
        /\ proc[p].st # "reaped"
    BY <1>0, <1>3, SupervisorAssumption DEF TypeOK, WorkerBoots, WorkerExits, WorkerDies
  <2>2. PICK r \in ProcessRecord :
          /\ proc' = [proc EXCEPT ![p] = r]
          /\ r.st # "reaped" /\ r.cfg = proc[p].cfg
    <3>1. CASE WorkerBoots(p)
      <4> DEFINE r == [proc[p] EXCEPT !.st = "running", !.term = FALSE]
      <4>1. r \in ProcessRecord /\ r.st = "running" /\ r.cfg = proc[p].cfg
        BY <1>0 DEF ProcessRecord
      <4>2. proc' = [proc EXCEPT ![p] = r]
        BY <1>0, <3>1 DEF WorkerBoots, ProcessRecord
      <4> QED
        BY <4>1, <4>2
    <3>2. CASE WorkerExits(p) \/ WorkerDies(p)
      <4> DEFINE r == [proc[p] EXCEPT !.st = "zombie"]
      <4>1. r \in ProcessRecord /\ r.st = "zombie" /\ r.cfg = proc[p].cfg
        BY <1>0 DEF ProcessRecord
      <4>2. proc' = [proc EXCEPT ![p] = r]
        BY <3>2 DEF WorkerExits, WorkerDies
      <4> QED
        BY <4>1, <4>2
    <3> QED
      BY <1>3, <3>1, <3>2
  <2>3. /\ proc' \in Seq(ProcessRecord)
        /\ DOMAIN proc' = Pids
        /\ \A q \in Pids : proc'[q] = IF q = p THEN r ELSE proc[q]
    <3>1. proc' = [proc EXCEPT ![p] = r]
      BY <2>2
    <3> QED
      BY <1>0, <3>1, ProcessChanges, Zenon
  <2>4. Pids' = Pids /\ Children' = Children
    BY <2>1, <2>2, <2>3 DEF Pids, Children
  <2>5. TypeOK'
    BY <1>0, <2>1, <2>3, <2>4 DEF TypeOK, TableType
  <2> QED
    BY <2>1, <2>2, <2>3, <2>4, <2>5, QuietStep
<1> QED
  BY <1>1, <1>2, <1>3 DEF WorkerStep, Environment

\* spawn_workers at startup.
LEMMA SpawnFirstKeeps ==
    ASSUME ParentInv, SpawnFirst
    PROVE  ParentInv'
<1> DEFINE n == Len(proc) + 1
<1>0. TypeOK
  BY DEF ParentInv
<1>1. /\ \A i \in DOMAIN pids : pids[i] \in Int /\ (pids[i] > 0 <=> pids[i] \in Pids)
      /\ pids \in Seq(Int) /\ 0 \notin Pids /\ -1 \notin Pids
      /\ \A p \in Pids : p \in Int /\ p > 0
  BY <1>0, TablesTyped DEF TypeOK
<1>2. ppc = "start" /\ next = <<>> /\ DOMAIN next = {} /\ Live(next) = {}
  BY DEF ParentInv, NextInUse, SpawnFirst, Live
<1>3. UNCHANGED <<next, wi, cfg, disk, reload, hups, crashes>>
  BY DEF SpawnFirst
<1>4. PICK i \in DOMAIN pids :
        /\ pids[i] = 0
        /\ \/ /\ proc' = Forked(proc)
              /\ pids' = [pids EXCEPT ![i] = n]
              /\ UNCHANGED <<ppc, stop, fails>>
           \/ /\ fails < MaxFails
              /\ fails' = fails + 1
              /\ pids' = [pids EXCEPT ![i] = -1]
              /\ stop' = TRUE
              /\ ppc' = "loop"
              /\ UNCHANGED proc
  BY DEF SpawnFirst, Unfilled
<1>5. CASE /\ proc' = Forked(proc)
           /\ pids' = [pids EXCEPT ![i] = n]
           /\ UNCHANGED <<ppc, stop, fails>>
  <2>1. /\ proc' \in Seq(ProcessRecord)
        /\ n \in Int /\ n > 0 /\ n \notin Pids
        /\ Pids' = Pids \cup {n} /\ Children' = Children \cup {n}
        /\ \A p \in Pids : proc'[p] = proc[p]
        /\ proc'[n].cfg = cfg
    BY <1>0, <1>5, ForkStep
  <2> HIDE DEF n
  <2>2. /\ pids' \in Seq(Int) /\ DOMAIN pids' = DOMAIN pids
        /\ \A j \in DOMAIN pids : pids'[j] = IF j = i THEN n ELSE pids[j]
    BY <1>1, <1>5, <2>1, SlotWritten
  <2>3. TypeOK'
    <3>1. TableType(pids)' /\ TableType(next)'
      BY <1>0, <1>2, <1>3, <2>1, <2>2 DEF TypeOK, TableType
    <3> QED
      BY <1>0, <1>3, <1>5, <2>1, <2>2, <3>1 DEF TypeOK
  <2>4. NextInUse' /\ WaitedFor'
    BY <1>2, <1>3, <1>5 DEF NextInUse, WaitedFor
  <2>5. PidsOnce'
    <3>1. Once(pids) /\ Once(next)
      BY DEF ParentInv, PidsOnce
    <3>2. \A j \in DOMAIN pids : pids[j] # n
      BY <1>1, <2>1
    <3>3. /\ DOMAIN pids' = DOMAIN pids /\ \A j \in DOMAIN pids : j # i => pids'[j] = pids[j]
          /\ pids'[i] = n
      BY <2>2, Zenon
    <3>4. Once(pids')
      BY <3>1, <3>2, <3>3, OnceWritten, Zenon
    <3> QED
      BY <1>2, <1>3, <3>1, <3>4 DEF PidsOnce, Once
  <2>6. TablesAlive'
    BY <1>1, <1>2, <1>5, <2>1, <2>2 DEF ParentInv, TablesAlive, AllChildren
  <2>7. NoOrphanWorker'
    <3>1. Live(pids)' = Live(pids) \cup {n}
      BY <1>1, <1>4, <2>1, <2>2 DEF Live
    <3> QED
      BY <1>2, <1>5, <2>1, <3>1 DEF ParentInv, NoOrphanWorker
  <2>8. ConfigHeld'
    BY <1>1, <1>2, <1>3, <1>5, <2>1, <2>2 DEF ParentInv, ConfigHeld, Runs
  <2> QED
    BY <2>3, <2>4, <2>5, <2>6, <2>7, <2>8 DEF ParentInv
<1>6. CASE /\ fails < MaxFails
           /\ fails' = fails + 1
           /\ pids' = [pids EXCEPT ![i] = -1]
           /\ stop' = TRUE
           /\ ppc' = "loop"
           /\ UNCHANGED proc
  <2>1. Pids' = Pids /\ Children' = Children /\ UNCHANGED proc
    BY <1>6 DEF Pids, Children
  <2>2. /\ pids' \in Seq(Int) /\ DOMAIN pids' = DOMAIN pids
        /\ \A j \in DOMAIN pids : pids'[j] = IF j = i THEN -1 ELSE pids[j]
    BY <1>1, <1>6, SlotWritten
  <2>3. TypeOK'
    <3>1. TableType(pids)' /\ TableType(next)'
      BY <1>0, <1>2, <1>3, <2>1, <2>2 DEF TypeOK, TableType
    <3>2. fails' \in 0..MaxFails /\ fails' > 0
      BY <1>0, <1>6, SupervisorAssumption, SMTT(30) DEF TypeOK
    <3> QED
      BY <1>0, <1>3, <1>6, <2>1, <2>2, <3>1, <3>2 DEF TypeOK
  <2>4. NextInUse' /\ WaitedFor' /\ TablesAlive'
    BY <1>2, <1>3, <1>6 DEF NextInUse, WaitedFor, TablesAlive
  <2>5. PidsOnce'
    BY <1>1, <1>2, <1>3, <2>1, <2>2 DEF ParentInv, PidsOnce, Once
  <2>6. NoOrphanWorker'
    <3>1. Live(pids)' = Live(pids)
      BY <1>1, <1>4, <2>1, <2>2 DEF Live
    <3> QED
      BY <1>2, <1>6, <2>1, <3>1 DEF ParentInv, NoOrphanWorker
  <2>7. ConfigHeld'
    <3>1. fails' # 0
      BY <1>0, <1>6 DEF TypeOK
    <3> QED
      BY <1>6, <3>1 DEF ConfigHeld
  <2> QED
    BY <2>3, <2>4, <2>5, <2>6, <2>7 DEF ParentInv
<1> QED
  BY <1>4, <1>5, <1>6

\* The parent only moves on in its loop.
LEMMA LoopKeeps ==
    ASSUME ParentInv, Started \/ EnterWait
    PROVE  ParentInv'
<1>1. UNCHANGED <<pids, next, wi, cfg, disk, proc, stop, reload, hups, crashes, fails>>
  BY DEF Started, EnterWait
<1>2. \/ ppc = "start" /\ ppc' = "loop"
      \/ ppc = "loop" /\ ppc' = "wait"
  BY DEF Started, EnterWait
<1>3. Pids' = Pids /\ Children' = Children
  BY <1>1 DEF Pids, Children
<1>4. TypeOK'
  BY <1>1, <1>2, <1>3 DEF ParentInv, TypeOK, TableType
<1>5. NextInUse' /\ WaitedFor'
  BY <1>1, <1>2 DEF ParentInv, NextInUse, WaitedFor
<1>6. PidsOnce'
  BY <1>1 DEF ParentInv, PidsOnce, Once
<1>7. TablesAlive'
  BY <1>1, <1>2, <1>3 DEF ParentInv, TablesAlive, AllChildren
<1>8. NoOrphanWorker'
  BY <1>1, <1>2, <1>3 DEF ParentInv, NoOrphanWorker, Live
<1>9. ConfigHeld'
  BY <1>1, <1>2, <1>3 DEF ParentInv, ConfigHeld, Runs
<1> QED
  BY <1>4, <1>5, <1>6, <1>7, <1>8, <1>9 DEF ParentInv

\* A dead worker is reaped, and its slot filled again unless the server stops.
LEMMA RestartDeadKeeps ==
    ASSUME ParentInv, NEW p \in Pids, RestartDead(p)
    PROVE  ParentInv'
<1> DEFINE n == Len(proc) + 1
           reaped == [proc EXCEPT ![p].st = "reaped"]
<1>0. TypeOK
  BY DEF ParentInv
<1>1. /\ \A i \in DOMAIN pids : pids[i] \in Int /\ (pids[i] > 0 <=> pids[i] \in Pids)
      /\ pids \in Seq(Int) /\ 0 \notin Pids /\ -1 \notin Pids
      /\ \A q \in Pids : q \in Int /\ q > 0
      /\ Len(proc) \in Nat /\ Pids = 1..Len(proc)
  BY <1>0, TablesTyped DEF TypeOK
<1>2. ppc = "wait" /\ ppc' = "loop" /\ next = <<>> /\ DOMAIN next = {} /\ Live(next) = {}
  BY DEF ParentInv, NextInUse, RestartDead, Live
<1>3. UNCHANGED <<next, wi, cfg, disk, stop, reload, hups, crashes>>
  BY DEF RestartDead
<1>4. /\ reaped \in Seq(ProcessRecord)
      /\ Len(reaped) = Len(proc) /\ DOMAIN reaped = Pids
      /\ \A q \in Pids : reaped[q].cfg = proc[q].cfg
      /\ {q \in Pids : reaped[q].st # "reaped"} = Children \ {p}
  <2>1. reaped = [proc EXCEPT ![p].st = "reaped"]
    OBVIOUS
  <2> HIDE DEF reaped
  <2> QED
    BY <1>0, <2>1, Reaps, ZenonT(60)
<1>5. \/ /\ stop \/ \A i \in DOMAIN pids : pids[i] # p
         /\ proc' = reaped
         /\ UNCHANGED <<pids, fails>>
      \/ /\ ~stop
         /\ \E i \in DOMAIN pids :
              /\ pids[i] = p
              /\ \/ /\ proc' = Forked(reaped)
                    /\ pids' = [pids EXCEPT ![i] = n]
                    /\ UNCHANGED fails
                 \/ /\ fails < MaxFails
                    /\ fails' = fails + 1
                    /\ proc' = reaped
                    /\ pids' = [pids EXCEPT ![i] = -1]
  BY DEF RestartDead
<1> HIDE DEF reaped
<1>6. NextInUse' /\ WaitedFor'
  BY <1>2, <1>3 DEF NextInUse, WaitedFor
<1>7. CASE /\ stop \/ \A i \in DOMAIN pids : pids[i] # p
           /\ proc' = reaped
           /\ UNCHANGED <<pids, fails>>
  <2>1. Pids' = Pids /\ Children' = Children \ {p}
    BY <1>4, <1>7 DEF Pids, Children
  <2>2. TypeOK'
    <3>1. TableType(pids)' /\ TableType(next)'
      BY <1>0, <1>3, <1>7, <2>1 DEF TypeOK, TableType
    <3> QED
      BY <1>0, <1>2, <1>3, <1>4, <1>7, <3>1 DEF TypeOK
  <2>3. PidsOnce'
    BY <1>3, <1>7 DEF ParentInv, PidsOnce, Once
  <2>4. TablesAlive'
    BY <1>2, <1>3, <1>7, <2>1 DEF ParentInv, TablesAlive, AllChildren
  <2>5. NoOrphanWorker'
    BY <1>2, <1>3, <1>7, <2>1 DEF ParentInv, NoOrphanWorker, Live
  <2>6. ConfigHeld'
    BY <1>2, <1>3, <1>4, <1>7, <2>1 DEF ParentInv, ConfigHeld, Runs
  <2> QED
    BY <1>6, <2>2, <2>3, <2>4, <2>5, <2>6 DEF ParentInv
<1>8. ASSUME NEW i \in DOMAIN pids, ~stop, pids[i] = p, proc' = Forked(reaped),
             pids' = [pids EXCEPT ![i] = n], UNCHANGED fails
      PROVE  ParentInv'
  <2>1. n \in Int /\ n > 0 /\ n \notin Pids /\ 1..n = Pids \cup {n}
    BY <1>1
  <2>2. /\ proc' \in Seq(ProcessRecord)
        /\ DOMAIN proc' = 1..n
        /\ \A q \in Pids : proc'[q] = reaped[q]
        /\ proc'[n] = [st |-> "forked", cfg |-> cfg, term |-> FALSE]
    <3>1. cfg \in Versions /\ reaped \in Seq(ProcessRecord) /\ proc' = Forked(reaped)
      BY <1>0, <1>4, <1>8 DEF TypeOK
    <3>2. /\ proc' \in Seq(ProcessRecord)
          /\ DOMAIN proc' = 1..(Len(reaped) + 1)
          /\ \A q \in 1..Len(reaped) : proc'[q] = reaped[q]
          /\ proc'[Len(reaped) + 1] = [st |-> "forked", cfg |-> cfg, term |-> FALSE]
      BY <3>1, ForkAdds
    <3> QED
      BY <1>1, <1>4, <3>2
  <2> HIDE DEF n
  <2>3. Pids' = Pids \cup {n} /\ Children' = (Children \ {p}) \cup {n}
    BY <1>4, <2>1, <2>2 DEF Pids, Children
  <2>4. /\ pids' \in Seq(Int) /\ DOMAIN pids' = DOMAIN pids
        /\ \A j \in DOMAIN pids : pids'[j] = IF j = i THEN n ELSE pids[j]
    BY <1>1, <1>8, <2>1, SlotWritten
  <2>5. \A j \in DOMAIN pids : j # i => pids[j] # p
    BY <1>1, <1>8 DEF ParentInv, PidsOnce, Once
  <2>6. TypeOK'
    <3>1. TableType(pids)' /\ TableType(next)'
      BY <1>0, <1>2, <1>3, <2>3, <2>4 DEF TypeOK, TableType
    <3> QED
      BY <1>0, <1>2, <1>3, <1>8, <2>2, <2>4, <3>1 DEF TypeOK
  <2>7. PidsOnce'
    <3>1. Once(pids) /\ Once(next)
      BY DEF ParentInv, PidsOnce
    <3>2. \A j \in DOMAIN pids : pids[j] # n
      BY <1>1, <2>1
    <3>3. /\ DOMAIN pids' = DOMAIN pids /\ \A j \in DOMAIN pids : j # i => pids'[j] = pids[j]
          /\ pids'[i] = n
      BY <2>4, Zenon
    <3>4. Once(pids')
      BY <3>1, <3>2, <3>3, OnceWritten, Zenon
    <3> QED
      BY <1>2, <1>3, <3>1, <3>4 DEF PidsOnce, Once
  <2>8. TablesAlive'
    BY <1>2, <1>3, <2>1, <2>3, <2>4, <2>5, <1>8 DEF ParentInv, TablesAlive, AllChildren
  <2>9. NoOrphanWorker'
    <3>1. Live(pids) \ {p} \subseteq Live(pids)' /\ n \in Live(pids)'
      BY <1>8, <2>1, <2>3, <2>4 DEF Live
    <3> QED
      BY <1>2, <1>3, <2>3, <3>1 DEF ParentInv, NoOrphanWorker
  <2>10. ConfigHeld'
    <3>1. fails = 0 => Runs(pids)
      BY <1>2 DEF ParentInv, ConfigHeld
    <3>2. \A q \in Pids : proc'[q].cfg = proc[q].cfg
      BY <1>4, <2>2
    <3>3. proc'[n].cfg = cfg
      BY <2>2
    <3>4. Runs(pids) => Runs(pids)'
      BY <1>3, <2>1, <2>3, <2>4, <3>2, <3>3 DEF Runs
    <3> QED
      BY <1>2, <1>8, <3>1, <3>4 DEF ConfigHeld
  <2> QED
    BY <1>6, <2>6, <2>7, <2>8, <2>9, <2>10 DEF ParentInv
<1>9. ASSUME NEW i \in DOMAIN pids, ~stop, pids[i] = p, proc' = reaped,
             pids' = [pids EXCEPT ![i] = -1], fails < MaxFails, fails' = fails + 1
      PROVE  ParentInv'
  <2>1. Pids' = Pids /\ Children' = Children \ {p}
    BY <1>4, <1>9 DEF Pids, Children
  <2>2. /\ pids' \in Seq(Int) /\ DOMAIN pids' = DOMAIN pids
        /\ \A j \in DOMAIN pids : pids'[j] = IF j = i THEN -1 ELSE pids[j]
    BY <1>1, <1>9, SlotWritten
  <2>3. \A j \in DOMAIN pids : j # i => pids[j] # p
    BY <1>1, <1>9 DEF ParentInv, PidsOnce, Once
  <2>4. fails' \in 0..MaxFails /\ fails' # 0
    BY <1>0, <1>9, SupervisorAssumption, SMTT(60) DEF TypeOK
  <2>5. TypeOK'
    <3>1. TableType(pids)' /\ TableType(next)'
      BY <1>0, <1>2, <1>3, <2>1, <2>2 DEF TypeOK, TableType
    <3> QED
      BY <1>0, <1>2, <1>3, <1>4, <1>9, <2>2, <2>4, <3>1 DEF TypeOK
  <2>6. PidsOnce'
    <3>1. Once(pids) /\ DOMAIN next' = {}
      BY <1>2, <1>3 DEF ParentInv, PidsOnce
    <3>2. Once(pids)'
      <4>1. /\ DOMAIN pids' = DOMAIN pids /\ \A j \in DOMAIN pids : j # i => pids'[j] = pids[j]
            /\ pids'[i] = -1
        BY <2>2, Zenon
      <4>2. ~(pids'[i] > 0)
        BY <4>1
      <4>3. Once(pids')
        BY <3>1, <4>1, <4>2, OnceWritten, Zenon
      <4> QED
        BY <4>3 DEF Once
    <3> QED
      BY <3>1, <3>2 DEF PidsOnce, Once
  <2>7. TablesAlive'
    BY <1>2, <1>3, <2>1, <2>2, <2>3, <1>9 DEF ParentInv, TablesAlive, AllChildren
  <2>8. NoOrphanWorker'
    <3>1. Live(pids) \ {p} \subseteq Live(pids)'
      BY <1>9, <2>1, <2>2 DEF Live
    <3> QED
      BY <1>2, <1>3, <2>1, <3>1 DEF ParentInv, NoOrphanWorker
  <2>9. ConfigHeld'
    BY <1>2, <2>4 DEF ConfigHeld
  <2> QED
    BY <1>6, <2>5, <2>6, <2>7, <2>8, <2>9 DEF ParentInv
<1> QED
  BY <1>5, <1>7, <1>8, <1>9

\* The loop ends: SIGTERM to every worker of the table.
LEMMA ShutdownKeeps ==
    ASSUME ParentInv, Shutdown
    PROVE  ParentInv'
<1>0. TypeOK
  BY DEF ParentInv
<1>1. /\ UNCHANGED <<pids, next, cfg, disk, stop, reload, hups, crashes, fails>>
      /\ ppc \in {"loop", "wait"} /\ ppc' = "shutdown" /\ wi' = 1
  BY DEF Shutdown
<1>2. /\ proc' \in Seq(ProcessRecord)
      /\ Pids' = Pids /\ Children' = Children
  BY <1>0, TerminateKeeps DEF Shutdown
<1>3. TypeOK'
  <2>1. TableType(pids)' /\ TableType(next)'
    BY <1>0, <1>1, <1>2 DEF TypeOK, TableType
  <2>2. wi' \in Nat \ {0}
    BY <1>1
  <2> QED
    BY <1>0, <1>1, <1>2, <2>1, <2>2 DEF TypeOK
<1>4. NextInUse' /\ TablesAlive' /\ ConfigHeld'
  BY <1>1 DEF ParentInv, NextInUse, TablesAlive, ConfigHeld
<1>5. WaitedFor'
  <2>1. DOMAIN Awaited' = 1..Len(pids)
    BY <1>0, <1>1, TablesTyped DEF Awaited
  <2>2. \A i \in 1..Len(pids) : ~(i < 1)
    BY <1>0, TablesTyped
  <2> QED
    BY <1>1, <2>1, <2>2 DEF WaitedFor
<1>6. PidsOnce'
  BY <1>1 DEF ParentInv, PidsOnce, Once
<1>7. NoOrphanWorker'
  BY <1>1, <1>2 DEF ParentInv, NoOrphanWorker, Live
<1> QED
  BY <1>3, <1>4, <1>5, <1>6, <1>7 DEF ParentInv

\* reload_workers up to its spawn loop.
LEMMA ReloadConfigKeeps ==
    ASSUME ParentInv, ReloadConfig
    PROVE  ParentInv'
<1>0. TypeOK
  BY DEF ParentInv
<1>1. /\ UNCHANGED <<pids, wi, disk, proc, stop, hups, crashes>>
      /\ ppc = "loop" /\ ~stop /\ reload' = FALSE
      /\ next = <<>> /\ DOMAIN next = {} /\ Live(next) = {}
  BY DEF ParentInv, NextInUse, ReloadConfig, Live
<1>2. Pids' = Pids /\ Children' = Children
  BY <1>1 DEF Pids, Children
<1>3. disk.ver \in Versions /\ WorkersOf[disk.ver] \in Nat
  <2>1. disk.ver \in Versions
    BY <1>0 DEF TypeOK
  <2>2. WorkersOf[disk.ver] \in 1..64
    BY <2>1, SupervisorAssumption
  <2> QED
    BY <2>1, <2>2
<1>4. \A i \in DOMAIN pids : pids[i] \in Int
  BY <1>0, TablesTyped
<1>5. TableType(pids)' /\ Once(pids) /\ 0 \notin Pids
  BY <1>0, <1>1, <1>2, TablesTyped DEF ParentInv, PidsOnce, TypeOK, TableType
<1>6. ASSUME UNCHANGED <<ppc, next>>,
             \/ UNCHANGED <<cfg, fails>>
             \/ fails < MaxFails /\ fails' = fails + 1 /\ cfg' = disk.ver
      PROVE  ParentInv'
  <2>1. cfg' \in Versions /\ fails' \in 0..MaxFails /\ (UNCHANGED <<cfg, fails>> \/ fails' # 0)
    BY <1>0, <1>3, <1>6, SupervisorAssumption DEF TypeOK
  <2>2. TypeOK'
    <3>1. TableType(next)' /\ reload' \in BOOLEAN
      BY <1>1, <1>6 DEF TableType
    <3> QED
      BY <1>0, <1>1, <1>5, <1>6, <2>1, <3>1 DEF TypeOK
  <2>3. NextInUse' /\ WaitedFor'
    BY <1>1, <1>6 DEF NextInUse, WaitedFor
  <2>4. PidsOnce'
    BY <1>1, <1>6 DEF ParentInv, PidsOnce, Once
  <2>5. TablesAlive'
    BY <1>1, <1>2, <1>6 DEF ParentInv, TablesAlive, AllChildren
  <2>6. NoOrphanWorker'
    BY <1>1, <1>2, <1>6 DEF ParentInv, NoOrphanWorker, Live
  <2>7. ConfigHeld'
    BY <1>1, <1>2, <1>6, <2>1 DEF ParentInv, ConfigHeld, Runs
  <2> QED
    BY <2>2, <2>3, <2>4, <2>5, <2>6, <2>7 DEF ParentInv
<1>7. ASSUME ppc' = "spawn", cfg' = disk.ver, next' = Empty(WorkersOf[disk.ver]),
             UNCHANGED fails
      PROVE  ParentInv'
  <2>1. /\ next' \in Seq(Int)
        /\ \A i \in DOMAIN next' : next'[i] = 0
    <3> DEFINE n == WorkersOf[disk.ver]
    <3>1. n \in Nat /\ next' = [i \in 1..n |-> 0]
      BY <1>3, <1>7 DEF Empty
    <3>2. \A i \in 1..n : 0 \in Int
      OBVIOUS
    <3> HIDE DEF n
    <3>3. [i \in 1..n |-> 0] \in Seq(Int)
      BY <3>1, <3>2, IsASeq
    <3> QED
      BY <3>1, <3>3
  <2>2. TypeOK'
    <3>1. TableType(next)'
      BY <2>1 DEF TableType
    <3>2. reload' \in BOOLEAN /\ cfg' \in Versions
      BY <1>1, <1>3, <1>7
    <3> QED
      BY <1>0, <1>1, <1>5, <1>7, <2>1, <3>1, <3>2 DEF TypeOK
  <2>3. NextInUse' /\ WaitedFor'
    BY <1>7 DEF NextInUse, WaitedFor
  <2>4. PidsOnce'
    <3>1. Once(pids)' /\ Once(next)'
      BY <1>1, <1>5, <2>1 DEF Once
    <3>2. \A i \in DOMAIN pids', j \in DOMAIN next' : pids'[i] > 0 => pids'[i] # next'[j]
      BY <1>1, <1>4, <2>1
    <3> QED
      BY <3>1, <3>2 DEF PidsOnce
  <2>5. TablesAlive'
    <3>1. AllChildren(pids)'
      BY <1>1, <1>2 DEF ParentInv, TablesAlive, AllChildren
    <3>2. AllChildren(next)' /\ \A i \in DOMAIN next' : next'[i] >= 0
      BY <2>1 DEF AllChildren
    <3> QED
      BY <3>1, <3>2 DEF TablesAlive
  <2>6. NoOrphanWorker'
    BY <1>1, <1>2, <1>7 DEF ParentInv, NoOrphanWorker, Live
  <2>7. ConfigHeld'
    BY <1>2, <1>5, <1>7, <2>1 DEF ConfigHeld, Runs
  <2> QED
    BY <2>2, <2>3, <2>4, <2>5, <2>6, <2>7 DEF ParentInv
<1> QED
  BY <1>6, <1>7 DEF ReloadConfig

\* spawn_workers of a reload.
LEMMA SpawnNextKeeps ==
    ASSUME ParentInv, SpawnNext
    PROVE  ParentInv'
<1> DEFINE n == Len(proc) + 1
<1>0. TypeOK
  BY DEF ParentInv
<1>1. /\ \A i \in DOMAIN pids : pids[i] \in Int /\ (pids[i] > 0 <=> pids[i] \in Pids)
      /\ \A i \in DOMAIN next : next[i] \in Int /\ (next[i] > 0 <=> next[i] \in Pids)
      /\ next \in Seq(Int) /\ 0 \notin Pids /\ -1 \notin Pids
      /\ \A p \in Pids : p \in Int /\ p > 0
  BY <1>0, TablesTyped DEF TypeOK
<1>2. ppc = "spawn" /\ UNCHANGED <<pids, cfg, disk, stop, reload, hups, crashes>>
  BY DEF SpawnNext
<1>3. /\ Once(pids) /\ Once(next)
      /\ \A i \in DOMAIN pids, j \in DOMAIN next : pids[i] > 0 => pids[i] # next[j]
      /\ ~stop => AllChildren(pids)
      /\ AllChildren(next) /\ \A i \in DOMAIN next : next[i] >= 0
      /\ fails = 0 => Runs(next)
      /\ Children \subseteq Live(pids) \cup Live(next)
  BY <1>2 DEF ParentInv, PidsOnce, TablesAlive, ConfigHeld, NoOrphanWorker
<1>4. PICK i \in DOMAIN next :
        /\ next[i] = 0
        /\ \/ /\ proc' = Forked(proc)
              /\ next' = [next EXCEPT ![i] = n]
              /\ UNCHANGED <<ppc, wi, fails>>
           \/ /\ fails < MaxFails
              /\ fails' = fails + 1
              /\ next' = [next EXCEPT ![i] = -1]
              /\ Terminate(Live(next))
              /\ wi' = 1
              /\ ppc' = "abort"
  BY DEF SpawnNext, Unfilled
<1>5. CASE /\ proc' = Forked(proc)
           /\ next' = [next EXCEPT ![i] = n]
           /\ UNCHANGED <<ppc, wi, fails>>
  <2>1. /\ proc' \in Seq(ProcessRecord)
        /\ n \in Int /\ n > 0 /\ n \notin Pids
        /\ Pids' = Pids \cup {n} /\ Children' = Children \cup {n}
        /\ \A p \in Pids : proc'[p] = proc[p]
        /\ proc'[n].cfg = cfg
    BY <1>0, <1>5, ForkStep
  <2> HIDE DEF n
  <2>2. /\ next' \in Seq(Int) /\ DOMAIN next' = DOMAIN next
        /\ \A j \in DOMAIN next : next'[j] = IF j = i THEN n ELSE next[j]
    BY <1>1, <1>5, <2>1, SlotWritten
  <2>3. TypeOK'
    <3>1. TableType(pids)' /\ TableType(next)'
      BY <1>0, <1>2, <2>1, <2>2 DEF TypeOK, TableType
    <3> QED
      BY <1>0, <1>2, <1>5, <2>1, <2>2, <3>1 DEF TypeOK
  <2>4. NextInUse' /\ WaitedFor'
    BY <1>2, <1>5 DEF NextInUse, WaitedFor
  <2>5. PidsOnce'
    <3>1. Once(pids)' /\ Once(next)'
      BY <1>1, <1>2, <1>3, <2>1, <2>2, SMTT(30) DEF Once
    <3>2. \A a \in DOMAIN pids', b \in DOMAIN next' : pids'[a] > 0 => pids'[a] # next'[b]
      BY <1>1, <1>2, <1>3, <2>1, <2>2
    <3> QED
      BY <3>1, <3>2 DEF PidsOnce
  <2>6. TablesAlive'
    <3>1. ~stop => AllChildren(pids)'
      BY <1>2, <1>3, <2>1 DEF AllChildren
    <3>2. AllChildren(next)' /\ \A j \in DOMAIN next' : next'[j] >= 0
      <4>1. AllChildren(next)'
        BY <1>3, <2>1, <2>2 DEF AllChildren
      <4>2. \A j \in DOMAIN next' : next'[j] >= 0
        BY <1>3, <2>1, <2>2
      <4> QED
        BY <4>1, <4>2
    <3> QED
      BY <1>2, <3>1, <3>2 DEF TablesAlive
  <2>7. NoOrphanWorker'
    <3>1. Live(pids)' = Live(pids)
      BY <1>1, <1>2, <2>1 DEF Live
    <3>2. Live(next)' = Live(next) \cup {n}
      BY <1>1, <1>4, <2>1, <2>2 DEF Live
    <3> QED
      BY <1>2, <1>3, <1>5, <2>1, <3>1, <3>2 DEF NoOrphanWorker
  <2>8. ConfigHeld'
    <3>1. Runs(next) => Runs(next)'
      BY <1>1, <1>2, <2>1, <2>2 DEF Runs
    <3> QED
      BY <1>2, <1>3, <1>5, <3>1 DEF ConfigHeld
  <2> QED
    BY <2>3, <2>4, <2>5, <2>6, <2>7, <2>8 DEF ParentInv
<1>6. CASE /\ fails < MaxFails
           /\ fails' = fails + 1
           /\ next' = [next EXCEPT ![i] = -1]
           /\ Terminate(Live(next))
           /\ wi' = 1
           /\ ppc' = "abort"
  <2>1. /\ proc' \in Seq(ProcessRecord)
        /\ Pids' = Pids /\ Children' = Children
    BY <1>0, <1>6, TerminateKeeps
  <2>2. /\ next' \in Seq(Int) /\ DOMAIN next' = DOMAIN next
        /\ \A j \in DOMAIN next : next'[j] = IF j = i THEN -1 ELSE next[j]
    BY <1>1, <1>6, SlotWritten
  <2>3. fails' \in 0..MaxFails /\ fails' # 0 /\ fails' > 0
    BY <1>0, <1>6, SupervisorAssumption, SMTT(30) DEF TypeOK
  <2>4. TypeOK'
    <3>1. TableType(pids)' /\ TableType(next)'
      BY <1>0, <1>2, <2>1, <2>2 DEF TypeOK, TableType
    <3>2. wi' \in Nat \ {0}
      BY <1>6
    <3> QED
      BY <1>0, <1>2, <1>6, <2>1, <2>2, <2>3, <3>1, <3>2 DEF TypeOK
  <2>5. NextInUse' /\ ConfigHeld'
    BY <1>6, <2>3 DEF NextInUse, ConfigHeld
  <2>6. WaitedFor'
    <3>1. \A j \in DOMAIN next' : ~(j < 1)
      BY <1>0, <2>2, TablesTyped
    <3> QED
      BY <1>6, <3>1 DEF WaitedFor, Awaited
  <2>7. PidsOnce'
    <3>1. Once(pids)'
      BY <1>2, <1>3 DEF Once
    <3>2. Once(next)'
      BY <1>1, <1>3, <2>2, SMTT(30) DEF Once
    <3>3. \A a \in DOMAIN pids', b \in DOMAIN next' : pids'[a] > 0 => pids'[a] # next'[b]
      BY <1>1, <1>2, <1>3, <2>2
    <3> QED
      BY <3>1, <3>2, <3>3 DEF PidsOnce
  <2>8. TablesAlive'
    <3>1. ~stop => AllChildren(pids)'
      BY <1>2, <1>3, <2>1 DEF AllChildren
    <3> QED
      BY <1>2, <1>6, <3>1 DEF TablesAlive
  <2>9. NoOrphanWorker'
    <3>1. Live(pids)' = Live(pids)
      BY <1>1, <1>2, <2>1 DEF Live
    <3>2. Live(next)' = Live(next)
      BY <1>1, <1>4, <2>1, <2>2 DEF Live
    <3> QED
      BY <1>3, <1>6, <2>1, <3>1, <3>2 DEF NoOrphanWorker
  <2> QED
    BY <2>4, <2>5, <2>6, <2>7, <2>8, <2>9 DEF ParentInv
<1> QED
  BY <1>4, <1>5, <1>6

\* All new workers are forked: SIGTERM to the old ones.
LEMMA RetireOldKeeps ==
    ASSUME ParentInv, RetireOld
    PROVE  ParentInv'
<1>0. TypeOK
  BY DEF ParentInv
<1>1. /\ UNCHANGED <<pids, next, cfg, disk, stop, reload, hups, crashes, fails>>
      /\ ppc = "spawn" /\ ppc' = "retire" /\ wi' = 1
  BY DEF RetireOld
<1>2. /\ proc' \in Seq(ProcessRecord)
      /\ Pids' = Pids /\ Children' = Children
      /\ \A p \in Pids : proc'[p].cfg = proc[p].cfg
  BY <1>0, TerminateKeeps DEF RetireOld
<1>3. TypeOK'
  <2>1. TableType(pids)' /\ TableType(next)'
    BY <1>0, <1>1, <1>2 DEF TypeOK, TableType
  <2>2. wi' \in Nat \ {0}
    BY <1>1
  <2> QED
    BY <1>0, <1>1, <1>2, <2>1, <2>2 DEF TypeOK
<1>4. NextInUse'
  BY <1>1 DEF NextInUse
<1>5. TablesAlive'
  BY <1>1, <1>2 DEF ParentInv, TablesAlive, AllChildren
<1>6. WaitedFor'
  <2>1. \A i \in DOMAIN pids' : ~(i < 1)
    BY <1>0, <1>1, TablesTyped
  <2> QED
    BY <1>1, <2>1 DEF WaitedFor, Awaited
<1>7. PidsOnce'
  BY <1>1 DEF ParentInv, PidsOnce, Once
<1>8. NoOrphanWorker'
  BY <1>1, <1>2 DEF ParentInv, NoOrphanWorker, Live
<1>9. ConfigHeld'
  BY <1>1, <1>2 DEF ParentInv, ConfigHeld, Runs
<1> QED
  BY <1>3, <1>4, <1>5, <1>6, <1>7, <1>8, <1>9 DEF ParentInv

\* One turn of wait_workers: the table that is not waited for keeps its
\* children, because no pid is in both.
LEMMA WaitOneKeeps ==
    ASSUME ParentInv, WaitOne
    PROVE  ParentInv'
<1> DEFINE p == Awaited[wi]
<1>0. TypeOK
  BY DEF ParentInv
<1>1. /\ UNCHANGED <<ppc, pids, next, cfg, disk, stop, reload, hups, crashes, fails>>
      /\ ppc \in {"abort", "retire", "shutdown"} /\ wi' = wi + 1
      /\ Awaited' = Awaited
  BY DEF WaitOne, Awaited
<1>2. wi \in Nat \ {0} /\ wi \in DOMAIN Awaited /\ DOMAIN Awaited \subseteq Nat
  <2>1. wi \in Nat \ {0} /\ wi <= Len(Awaited)
    BY <1>0 DEF TypeOK, WaitOne
  <2>2. DOMAIN Awaited = 1..Len(Awaited) /\ Len(Awaited) \in Nat
    BY <1>0, TablesTyped DEF Awaited
  <2> QED
    BY <2>1, <2>2
<1>3. \/ p \notin Children /\ UNCHANGED proc
      \/ p \in Children /\ proc' = [proc EXCEPT ![p].st = "reaped"]
  BY DEF WaitOne
<1> HIDE DEF p
<1>4. /\ proc' \in Seq(ProcessRecord)
      /\ Pids' = Pids /\ Children' = Children \ {p}
      /\ \A q \in Pids : proc'[q].cfg = proc[q].cfg
  <2>1. CASE p \notin Children /\ UNCHANGED proc
    BY <1>0, <2>1 DEF TypeOK, Pids, Children
  <2>2. CASE p \in Children /\ proc' = [proc EXCEPT ![p].st = "reaped"]
    <3>1. p \in Pids
      BY <2>2 DEF Children
    <3>2. /\ proc' \in Seq(ProcessRecord) /\ DOMAIN proc' = Pids
          /\ \A q \in Pids : proc'[q].cfg = proc[q].cfg
          /\ {q \in Pids : proc'[q].st # "reaped"} = Children \ {p}
      BY <1>0, <2>2, <3>1, Reaps, ZenonT(60)
    <3> QED
      BY <3>2 DEF Pids, Children
  <2> QED
    BY <1>3, <2>1, <2>2
<1>5. TypeOK'
  <2>1. TableType(pids)' /\ TableType(next)'
    BY <1>0, <1>1, <1>4 DEF TypeOK, TableType
  <2>2. wi' \in Nat \ {0}
    BY <1>1, <1>2
  <2> QED
    BY <1>0, <1>1, <1>4, <2>1, <2>2 DEF TypeOK
<1>6. NextInUse'
  BY <1>1 DEF ParentInv, NextInUse
<1>7. PidsOnce'
  BY <1>1 DEF ParentInv, PidsOnce, Once
<1>8. TablesAlive'
  <2>1. CASE ppc = "abort"
    <3>1. wi \in DOMAIN next /\ p = next[wi]
      BY <1>2, <2>1 DEF Awaited, p
    <3>2. \A i \in DOMAIN pids : pids[i] > 0 => pids[i] # p
      BY <3>1 DEF ParentInv, PidsOnce
    <3>3. ~stop => AllChildren(pids)
      BY <2>1 DEF ParentInv, TablesAlive
    <3>4. ~stop => AllChildren(pids)'
      BY <1>1, <1>4, <3>2, <3>3 DEF AllChildren
    <3> QED
      BY <1>1, <2>1, <3>4 DEF TablesAlive
  <2>2. CASE ppc = "retire"
    <3>1. wi \in DOMAIN pids /\ p = pids[wi]
      BY <1>2, <2>2 DEF Awaited, p
    <3>2. \A i \in DOMAIN next : next[i] > 0 => next[i] # p
      BY <3>1 DEF ParentInv, PidsOnce
    <3>3. AllChildren(next) /\ \A i \in DOMAIN next : next[i] >= 0
      BY <2>2 DEF ParentInv, TablesAlive
    <3>4. AllChildren(next)'
      BY <1>1, <1>4, <3>2, <3>3 DEF AllChildren
    <3> QED
      BY <1>1, <2>2, <3>3, <3>4 DEF TablesAlive
  <2>3. CASE ppc = "shutdown"
    BY <1>1, <2>3 DEF TablesAlive
  <2> QED
    BY <1>1, <2>1, <2>2, <2>3
<1>9. WaitedFor'
  <2>1. ASSUME NEW i \in DOMAIN Awaited, i < wi + 1
        PROVE  Awaited[i] \notin Children'
    <3>1. i \in Nat /\ (i < wi \/ i = wi)
      BY <1>2, <2>1
    <3>2. CASE i = wi
      BY <1>4, <3>2 DEF p
    <3>3. CASE i < wi
      BY <1>1, <1>4, <2>1, <3>3 DEF ParentInv, WaitedFor
    <3> QED
      BY <3>1, <3>2, <3>3
  <2> QED
    BY <1>1, <2>1 DEF WaitedFor
<1>10. NoOrphanWorker'
  BY <1>1, <1>4 DEF ParentInv, NoOrphanWorker, Live
<1>11. ConfigHeld'
  BY <1>1, <1>4 DEF ParentInv, ConfigHeld, Runs
<1> QED
  BY <1>5, <1>6, <1>7, <1>8, <1>9, <1>10, <1>11 DEF ParentInv

\* wait_workers returns: none of the table's workers is left, so the children
\* that remain are all in the other one.
LEMMA WaitDoneKeeps ==
    ASSUME ParentInv, WaitDone
    PROVE  ParentInv'
<1>0. TypeOK
  BY DEF ParentInv
<1>1. /\ UNCHANGED <<cfg, disk, proc, stop, reload, hups, crashes, fails>>
      /\ ppc \in {"abort", "retire", "shutdown"}
      /\ ppc' = IF ppc = "shutdown" THEN "exited" ELSE "loop"
      /\ pids' = IF ppc = "retire" THEN next ELSE pids
      /\ next' = <<>> /\ DOMAIN next' = {} /\ wi' = 1
  BY DEF WaitDone
<1>2. Pids' = Pids /\ Children' = Children
  BY <1>1 DEF Pids, Children
<1>3. \A i \in DOMAIN Awaited : Awaited[i] \notin Children
  <2>1. DOMAIN Awaited = 1..Len(Awaited) /\ Len(Awaited) \in Nat
    BY <1>0, TablesTyped DEF Awaited
  <2>2. wi \in Nat /\ wi > Len(Awaited)
    BY <1>0 DEF TypeOK, WaitDone
  <2>3. \A i \in DOMAIN Awaited : i < wi
    BY <2>1, <2>2
  <2> QED
    BY <1>1, <2>3 DEF ParentInv, WaitedFor
<1>4. Children \cap Live(Awaited) = {}
  BY <1>3 DEF Live
<1>5. Children \subseteq Live(pids)' /\ (ppc = "shutdown" => Children = {})
  <2>1. Children \subseteq Live(pids) \cup Live(next)
    BY DEF ParentInv, NoOrphanWorker
  <2>2. ppc = "shutdown" => Live(next) = {}
    BY DEF ParentInv, NextInUse, Live
  <2>3. Live(pids)' = IF ppc = "retire" THEN Live(next) ELSE Live(pids)
    BY <1>1, <1>2 DEF Live
  <2> QED
    BY <1>1, <1>4, <2>1, <2>2, <2>3 DEF Awaited
<1>6. TypeOK'
  <2>1. pids' \in Seq(Int) /\ next' \in Seq(Int)
    BY <1>0, <1>1, EmptySeq DEF TypeOK
  <2>2. TableType(pids)' /\ TableType(next)'
    BY <1>0, <1>1, <1>2 DEF TypeOK, TableType
  <2>3. wi' \in Nat \ {0}
    BY <1>1
  <2> QED
    BY <1>0, <1>1, <2>1, <2>2, <2>3 DEF TypeOK
<1>7. NextInUse' /\ WaitedFor'
  BY <1>1 DEF NextInUse, WaitedFor
<1>8. PidsOnce'
  BY <1>1 DEF ParentInv, PidsOnce, Once
<1>9. TablesAlive'
  <2>1. ~stop /\ ppc # "shutdown" => AllChildren(pids)'
    BY <1>1, <1>2 DEF ParentInv, TablesAlive, AllChildren
  <2> QED
    BY <1>1, <2>1 DEF TablesAlive
<1>10. NoOrphanWorker'
  BY <1>1, <1>2, <1>5 DEF NoOrphanWorker
<1>11. ConfigHeld'
  <2>1. CASE ppc = "abort"
    <3>1. fails' # 0
      BY <1>0, <1>1, <2>1 DEF ParentInv, ConfigHeld, TypeOK
    <3> QED
      BY <1>1, <2>1, <3>1 DEF ConfigHeld
  <2>2. CASE ppc = "retire"
    <3>1. fails = 0 => Runs(next)
      BY <2>2 DEF ParentInv, ConfigHeld
    <3>2. Runs(next) => Runs(pids)'
      BY <1>1, <1>2, <2>2 DEF Runs
    <3> QED
      BY <1>1, <2>2, <3>1, <3>2 DEF ConfigHeld
  <2>3. CASE ppc = "shutdown"
    BY <1>1, <2>3 DEF ConfigHeld
  <2> QED
    BY <1>1, <2>1, <2>2, <2>3
<1> QED
  BY <1>6, <1>7, <1>8, <1>9, <1>10, <1>11 DEF ParentInv

(***************************************************************************)
(* The theorems.                                                           *)
(***************************************************************************)

\* Every step of the parent, of a worker or of the outside keeps the invariant.
LEMMA NextParent == ParentInv /\ [Next]_vars => ParentInv'
<1> SUFFICES ASSUME ParentInv, [Next]_vars PROVE ParentInv'
  OBVIOUS
<1>1. CASE UNCHANGED vars
  BY <1>1 DEF vars, ParentInv, TypeOK, TableType, NextInUse, PidsOnce, Once, TablesAlive,
              AllChildren, WaitedFor, Awaited, NoOrphanWorker, Live, ConfigHeld, Runs,
              Children, Pids
<1>2. CASE WorkerStep \/ Environment
  BY <1>2, OthersKeep
<1>3. CASE ParentStep
  BY <1>3, SpawnFirstKeeps, LoopKeeps, RestartDeadKeeps, ShutdownKeeps, ReloadConfigKeeps,
     SpawnNextKeeps, RetireOldKeeps, WaitOneKeeps, WaitDoneKeeps DEF ParentStep
<1> QED
  BY <1>1, <1>2, <1>3 DEF Next

\* The inductive invariant holds throughout every behaviour of the server.
LEMMA SpecParent == Spec => []ParentInv
BY InitParent, NextParent, PTL DEF Spec

\* The table never holds a worker twice, and until a stop is requested every pid
\* the parent may signal is a child it has not reaped, whatever worker died,
\* whichever fork failed and however many reloads went before.
THEOREM SignalsOnlyChildren == Spec => []TableHoldsChildren
<1>1. ParentInv => TableHoldsChildren
  BY DEF ParentInv, PidsOnce, Once, TablesAlive, AllChildren, TableHoldsChildren
<1> QED
  BY <1>1, SpecParent, PTL

\* No restart, failed reload or stop leaves behind a worker that is in no
\* table, and none outlives the parent.
THEOREM NoWorkerForgotten == Spec => []NoOrphanWorker
<1>1. ParentInv => NoOrphanWorker
  BY DEF ParentInv
<1> QED
  BY <1>1, SpecParent, PTL

\* As long as no fork or allocation has failed, the workers of the table serve
\* the configuration the parent holds.
THEOREM WorkersServeConfig == Spec => []WorkersMatchConfig
<1>1. ParentInv => WorkersMatchConfig
  BY DEF ParentInv, ConfigHeld, Runs, WorkersMatchConfig, Live
<1> QED
  BY <1>1, SpecParent, PTL

\* A spawn loop that has nothing left to fill has filled every slot: a table
\* with an empty slot has a first one.
LEMMA AllFilled ==
    ASSUME NEW tab \in Seq(Int), Unfilled(tab) = {}
    PROVE  \A i \in DOMAIN tab : tab[i] # 0
<1> DEFINE S == {i \in DOMAIN tab : tab[i] = 0}
<1> SUFFICES ASSUME S # {} PROVE FALSE
  OBVIOUS
<1>1. DOMAIN tab = 1..Len(tab) /\ Len(tab) \in Nat /\ S \in SUBSET Nat
  BY LenProperties
<1>2. PICK x \in S : \A y \in S : x <= y
  BY <1>1, LeastNat, Zenon
<1>3. \A y \in S : ~(y < x)
  <2> HIDE DEF S
  <2> QED
    BY <1>1, <1>2
<1>4. \A j \in 1..(x - 1) : j \in DOMAIN tab /\ j < x
  <2>1. x \in 1..Len(tab)
    BY <1>1, <1>2
  <2> HIDE DEF S
  <2> QED
    BY <1>1, <2>1
<1>5. x \in Unfilled(tab)
  BY <1>2, <1>3, <1>4 DEF Unfilled
<1> QED
  BY <1>5

\* A reload, a restart or a crash never tells a worker of the table to stop
\* before every worker of the new table has been forked: the server is not left
\* with fewer workers than it was configured with.
THEOREM NewWorkersFirst == Spec => ReplacedBeforeStopped
<1> DEFINE Told(p) == /\ proc[p].st # "reaped" /\ ~proc[p].term /\ proc'[p].term
                      /\ stop' = stop /\ ~stop
           Ready == ppc = "spawn" /\ \A i \in DOMAIN next : next[i] > 0
<1>1. ASSUME ParentInv, [Next]_vars, NEW p \in Live(pids), Told(p)
      PROVE  Ready
  <2>0. TypeOK /\ p \in Pids /\ p \in Children
    BY <1>1 DEF ParentInv, Live, Children
  <2>1. Pids = 1..Len(proc) /\ \A q \in Pids : proc[q] \in ProcessRecord
    BY <2>0, TablesTyped
  <2>2. ~(proc'[p].term = proc[p].term)
    BY <1>1
  <2>3. CASE RetireOld
    <3>1. \A i \in DOMAIN next : next[i] # 0
      BY <2>0, <2>3, AllFilled DEF RetireOld, TypeOK
    <3>2. \A i \in DOMAIN next : next[i] >= 0 /\ next[i] \in Int
      BY <1>1, <2>0, <2>3, TablesTyped DEF RetireOld, ParentInv, TablesAlive
    <3>3. \A i \in DOMAIN next : next[i] > 0
      BY <3>1, <3>2
    <3> QED
      BY <2>3, <3>3 DEF RetireOld
  <2>4. CASE Shutdown
    BY <1>1, <2>0, <2>4 DEF Shutdown
  <2>5. CASE \E s \in StopScope : SignalStop(s)
    BY <1>1, <2>5 DEF SignalStop
  <2>6. CASE SpawnFirst \/ SpawnNext
    <3>1. CASE proc' = Forked(proc)
      BY <2>0, <2>2, <3>1, ForkStep
    <3>2. CASE UNCHANGED proc
      BY <2>2, <3>2
    <3>3. CASE Terminate(Live(next))
      <4>1. p \notin Live(next)
        <5>1. PICK i \in DOMAIN pids : pids[i] = p /\ pids[i] > 0
          BY <1>1, <2>0, TablesTyped DEF Live
        <5> QED
          BY <1>1, <5>1 DEF ParentInv, PidsOnce, Live
      <4> QED
        BY <2>0, <2>2, <3>3, <4>1, TerminateKeeps
    <3> QED
      BY <2>6, <3>1, <3>2, <3>3 DEF SpawnFirst, SpawnNext
  <2>7. ASSUME NEW q \in Pids, NEW new, new = [proc EXCEPT ![q].st = "reaped"],
               proc' = new \/ proc' = Forked(new)
        PROVE  FALSE
    <3>1. /\ new \in Seq(ProcessRecord)
          /\ Len(new) = Len(proc) /\ \A x \in Pids : new[x].term = proc[x].term
      BY <2>0, <2>7, Reaps, ZenonT(60)
    <3>2. CASE proc' = new
      BY <2>0, <2>2, <3>1, <3>2
    <3>3. CASE proc' = Forked(new)
      <4>1. \A x \in 1..Len(new) : proc'[x] = new[x]
        <5>1. cfg \in Versions
          BY <2>0 DEF TypeOK
        <5> QED
          BY <3>1, <3>3, <5>1, ForkAdds
      <4> QED
        BY <2>0, <2>1, <2>2, <3>1, <4>1
    <3> QED
      BY <2>7, <3>2, <3>3
  <2>8. CASE \E q \in Pids : RestartDead(q)
    BY <2>7, <2>8 DEF RestartDead
  <2>9. CASE WaitOne
    <3>1. UNCHANGED proc \/ \E q \in Pids : proc' = [proc EXCEPT ![q].st = "reaped"]
      BY <2>9 DEF WaitOne, Children
    <3> QED
      BY <2>2, <2>7, <3>1
  <2>10. CASE \/ UNCHANGED vars \/ Started \/ EnterWait \/ ReloadConfig \/ WaitDone
              \/ SignalReload \/ \E v \in BOOLEAN : EditConfig(v)
    BY <2>2, <2>10 DEF vars, Started, EnterWait, ReloadConfig, WaitDone, SignalReload,
                       EditConfig
  <2>11. ASSUME NEW q \in Pids, WorkerBoots(q) \/ WorkerExits(q) \/ WorkerDies(q)
         PROVE  FALSE
    <3>1. proc'[p].term = proc[p].term \/ proc'[p].term = FALSE
      BY <2>0, <2>1, <2>11 DEF WorkerBoots, WorkerExits, WorkerDies, ProcessRecord, Pids
    <3> QED
      BY <1>1, <2>2, <3>1
  <2> QED
    BY <1>1, <2>3, <2>4, <2>5, <2>6, <2>8, <2>9, <2>10, <2>11
       DEF Next, ParentStep, WorkerStep, Environment
<1>2. ParentInv /\ [Next]_vars =>
        [\A p \in Live(pids) :
           (proc[p].st # "reaped" /\ ~proc[p].term /\ proc'[p].term /\ stop' = stop /\ ~stop) =>
              ppc = "spawn" /\ \A i \in DOMAIN next : next[i] > 0]_vars
  BY <1>1
<1> QED
  BY <1>2, SpecParent, PTL DEF Spec, ReplacedBeforeStopped
=============================================================================
